----------------------------- MODULE MCProcess -----------------------------
(***************************************************************************)
(* Process for TLC: pages of 4 bytes, the kernel in frames 0 to 3.  One    *)
(* map ends where the identity map does and holds three threads: the third *)
(* goes behind a tail the second has moved.  One has a hole and four pages *)
(* free, so memory runs out at the first page of a creation and, next to   *)
(* other clients, at the second; one reaches beyond the identity map.      *)
(***************************************************************************)
EXTENDS Process

R(type, addr, len) == [type |-> type, addr |-> addr, len |-> len]
MCMaps ==
  {<<>>,
   <<R("available", 0, 40)>>,
   <<R("available", 0, 20), R("reserved", 20, 4), R("available", 24, 12)>>,
   <<R("available", 0, 28), R("available", 36, 8)>>}
==============================================================================
