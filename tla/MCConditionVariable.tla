------------------------ MODULE MCConditionVariable -------------------------
(* ConditionVariable.tla for TLC: the workers are interchangeable in runs   *)
(* without liveness.                                                        *)
EXTENDS ConditionVariable, TLC

WorkerSymmetry == Permutations(Workers)
=============================================================================
