----------------------------- MODULE MCInterrupts -----------------------------
(***************************************************************************)
(* Interrupts for TLC.  A word of three values lets the counter carry and  *)
(* wrap, and is the least that the ticks of two rounds of the loop fit in. *)
(* The devices are the timer and the keyboard on the master and the        *)
(* real-time clock on the slave; the firmware's masks are the usual ones,  *)
(* with the keyboard and the slave open.  The exceptions are one without   *)
(* an error code (NMI) and one with a code (page fault).                   *)
(***************************************************************************)
EXTENDS Interrupts

MCDevices  == {0, 1, 8}
MCFaults   == {2, 14}
==============================================================================
