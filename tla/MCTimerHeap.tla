---------------------------- MODULE MCTimerHeap ----------------------------
(* TimerHeap for TLC: the timers are interchangeable. *)
EXTENDS TimerHeap, TLC

TimerSymmetry == Permutations(Timers)

=============================================================================
