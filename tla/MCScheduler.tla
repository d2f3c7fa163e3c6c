---------------------------- MODULE MCScheduler -----------------------------
(* Scheduler.tla for TLC: the tasks of one role are interchangeable.        *)
EXTENDS Scheduler, TLC

TaskSymmetry == Permutations(Initial) \cup Permutations(Tasks \ Initial)
=============================================================================
