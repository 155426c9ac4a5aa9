---------------------------- MODULE PageAllocator ----------------------------
(***************************************************************************)
(* What include/pmm.h promises to the rest of the kernel, without bitmap,  *)
(* counters or search hint: a set of managed pages, the subset of them     *)
(* that is available, and the last call a client can have observed.  An    *)
(* allocation takes SOME available page and fails only when there is none; *)
(* a release makes a managed page available and ignores everything else.   *)
(* Pmm implements this specification (Pmm!Implements, PmmProofs).          *)
(***************************************************************************)
CONSTANTS Pages,      \* every address a client may pass to pmm_free_page
          NoPage      \* the null pointer that reports an exhausted allocator

VARIABLES managed,    \* pages the allocator accepts back
          avail,      \* pages it can still hand out
          last        \* the last call: its operation and its page

avars == <<managed, avail, last>>

Call(op, page) == [op |-> op, page |-> page]

Init ==
  /\ managed = {}
  /\ avail = {}
  /\ last = Call("boot", NoPage)

Setup ==
  /\ managed = {}
  /\ managed' \in SUBSET Pages
  /\ avail' \in SUBSET managed'
  /\ last' = Call("init", NoPage)

Allocate ==
  /\ \/ /\ avail = {}
        /\ avail' = avail
        /\ last' = Call("alloc", NoPage)
     \/ \E page \in avail :
          /\ avail' = avail \ {page}
          /\ last' = Call("alloc", page)
  /\ managed' = managed

Release(page) ==
  /\ avail' = avail \cup ({page} \cap managed)
  /\ last' = Call("free", page)
  /\ managed' = managed

Next == Setup \/ Allocate \/ \E page \in Pages : Release(page)

Spec == Init /\ [][Next]_avars
==============================================================================
