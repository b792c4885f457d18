----------------------------- MODULE MCSchedule -----------------------------
(* Small instances of the timer queue: three requests share two structures. *)
EXTENDS Schedule, TLC

CONSTANTS r1, r2, r3, s1, s2, c1, c2, a1

QueueSymmetry ==
  Permutations(Requests) \cup Permutations(Slots) \cup Permutations(Callbacks)
=============================================================================
