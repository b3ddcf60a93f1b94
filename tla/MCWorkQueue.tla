----------------------------- MODULE MCWorkQueue -----------------------------
(* WorkQueue on small instances: symmetric tasks. *)
EXTENDS WorkQueue, TLC

TaskSymmetry == Permutations(Task)
=============================================================================
