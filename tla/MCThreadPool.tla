---------------------------- MODULE MCThreadPool ----------------------------
(* Symmetry for the safety runs of ThreadPool: no operator of it orders    *)
(* workers or tasks, and queues are ordered by time only.                  *)
EXTENDS ThreadPool, TLC

Symmetry == Permutations(Workers) \cup Permutations(GlobalTasks)
=============================================================================
