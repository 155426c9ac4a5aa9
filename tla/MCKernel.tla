------------------------------- MODULE MCKernel -------------------------------
(***************************************************************************)
(* Kernel for TLC: pages of 4 bytes, the kernel in frames 0 to 2, tables   *)
(* of nine entries, so that the identity map covers six of the nine pages  *)
(* the allocator may hold.  The maps leave every number of pages from none *)
(* to seven; holes move a table, a PCB or a stack beyond the identity map.    *)
(***************************************************************************)
EXTENDS Kernel

R(type, frame, frames) ==
  [type |-> type, addr |-> frame * PageSize, len |-> frames * PageSize]
Ram(frames) == R("available", 0, frames)
MCMaps ==
  {<<>>} \cup {<<Ram(n)>> : n \in 4 .. 10}
    \cup { <<Ram(4), R("reserved", 4, 4), R("available", 10, 1)>>,
           <<Ram(6), R("available", 10, 2)>>,
           <<R("available", 6, 6)>>, <<R("available", 9, 3)>>,
           <<Ram(7), R("available", 10, 1)>> }

E(present, user, frame) == [present |-> present, user |-> user, frame |-> frame]
Zeroed == [i \in 0 .. Entries - 1 |-> E(FALSE, FALSE, 0)]

\* Clean frames, and one whose old contents map the test page to the boot table.
MCGarbage == {Zeroed, [Zeroed EXCEPT ![0] = E(TRUE, TRUE, BootPt)]}
MCTest == <<5, 0>>
==============================================================================
