----------------------------- MODULE MCScheduler -----------------------------
(* Instances of Scheduler for TLC. *)
EXTENDS Scheduler, TLC

CONSTANTS i1, i2, i3, d1, d2

InteractivePairs == Permutations({i1, i2})
=============================================================================
