---------------------------- MODULE MCAsyncTaskq ----------------------------
(* Instances of AsyncTaskq for TLC: tasks are interchangeable.             *)
EXTENDS AsyncTaskq, TLC

Symmetry == Permutations(Task)
============================================================================
