---------------------------- MODULE MCTimerHeap ----------------------------
(* Instances of TimerHeap for TLC: one-shot handlers are interchangeable.   *)
EXTENDS TimerHeap, TLC

Symmetry == Permutations(Handler \ Periodic)
============================================================================
