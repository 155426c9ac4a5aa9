----------------------------- MODULE ReadyQueue -----------------------------
(***************************************************************************)
(* What include/process.h and the head of kernel/process.c promise of the  *)
(* ready queue, without pages, pointers or pids that were spent in vain:   *)
(* the threads in the order they will run in, which is the order of their  *)
(* creation.  A creation that fails leaves no trace in the queue.          *)
(* Process implements this specification (Process!Implements).             *)
(***************************************************************************)
EXTENDS Naturals, Sequences

CONSTANT Pids       \* a set of numbers

VARIABLE queue      \* the pids, in the order of execution

Init == queue = <<>>

\* The new thread goes last, under a pid that every other one precedes.
Enqueue ==
  \E pid \in Pids :
    /\ \A i \in DOMAIN queue : queue[i] < pid
    /\ queue' = Append(queue, pid)

Spec == Init /\ [][Enqueue]_queue
==============================================================================
