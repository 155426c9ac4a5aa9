---------------------------- MODULE AddressSpace ----------------------------
(***************************************************************************)
(* What include/mmu.h promises: a table from virtual pages to frames that  *)
(* changes only by the call in progress, only at the page it names, and in *)
(* one step, although the call allocates, links, clears and fills a page   *)
(* table.  Pages that share a page-table entry are one cell of the table.  *)
(* A call that cannot get a page table leaves no trace: it is a stutter.   *)
(* Vmm implements this specification (Vmm!Implements).                     *)
(***************************************************************************)
CONSTANTS Cells,      \* the page-table entries a caller can name
          Frames,
          Unmapped,   \* what an entry holds that is not present
          BootSpace   \* what the boot code maps: a function from Cells

VARIABLES space,      \* what each cell maps to: a frame or Unmapped
          pending     \* the call in progress, if any

asvars == <<space, pending>>

Init ==
  /\ space = BootSpace
  /\ pending = {}

Ask(cell, target) ==
  /\ pending = {}
  /\ pending' = {[cell |-> cell, target |-> target]}
  /\ space' = space

Commit ==
  \E call \in pending :
    /\ pending' = {}
    /\ space' = [space EXCEPT ![call.cell] = call.target]

Next ==
  \/ \E cell \in Cells, target \in Frames \cup {Unmapped} : Ask(cell, target)
  \/ Commit

Spec == Init /\ [][Next]_asvars
==============================================================================
