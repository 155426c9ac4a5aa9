-------------------------------- MODULE MCPmm --------------------------------
(***************************************************************************)
(* Instances of Pmm for TLC: two-byte pages, a kernel that ends in the     *)
(* middle of frame 1, and the memory maps worth telling apart.             *)
(***************************************************************************)
EXTENDS Pmm

R(type, addr, len) == [type |-> type, addr |-> addr, len |-> len]
A(addr, len) == R("available", addr, len)

\* Frames 0..5; bytes 12 and up are beyond the clamp.
MCMaps ==
  { <<>>,                                              \* no map tag
    << A(0, 1), A(2, 10) >>,                           \* a normal PC: all RAM above 1 MiB
    << A(0, 2), R("reserved", 2, 1), A(3, 4), R("reserved", 7, 1), A(8, 9) >>,
    << A(5, 5), A(4, 8) >>,                            \* overlapping regions
    << A(0, 3), R("reserved", 3, 9) >>,                \* nothing above the kernel
    << A(5, 2), A(7, 2), A(14, 4) >> }                 \* unaligned halves, RAM above 4 GiB
==============================================================================
