-------------------------------- MODULE MCVmm --------------------------------
(***************************************************************************)
(* Instances of Vmm for TLC: five entries per table, so the kernel's slot  *)
(* has a free slot on either side; frames 3 and up are available, and the  *)
(* boot table reaches frames 0..4 only.                                    *)
(***************************************************************************)
EXTENDS Vmm

MCMaps == {<< [type |-> "available", addr |-> 0, len |-> MaxFrames * PageSize] >>}

P  == [present |-> TRUE, user |-> FALSE]
PU == [present |-> TRUE, user |-> TRUE]
No == [present |-> FALSE, user |-> FALSE]
R(d, t, phys, flags) == [virt |-> <<d, t>>, phys |-> phys, flags |-> flags]

\* A page of a user slot that is mapped and unmapped, a page of the kernel slot
\* above the image, and both names of one identity-mapped page.
MCRequests ==
  { R(1, 0, 4, PU), R(1, 0, 5, No), R(3, 1, 5, P), R(0, 4, 5, P), R(KernelSlot, 4, 4, P) }

\* Two neighbours of one slot, the second of them for user code.
UserRequests == { R(1, 0, 4, P), R(1, 3, 5, PU) }

\* Every page is mapped at most once, and to one frame.
FirstRequests == {R(1, 0, 4, PU), R(1, 3, 5, PU), R(3, 0, 4, P), R(3, 1, 5, P)}

Zeroed == [i \in Index |-> Absent]

\* A frame whose old contents read as one present entry and otherwise as none.
MCGarbage == {[Zeroed EXCEPT ![0] = Maps(3, TRUE)]}
ZeroedOnly == {Zeroed}
==============================================================================
