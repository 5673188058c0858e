----------------------------- MODULE MCMaster -----------------------------
(* Instances of Master for TLC: process ids are interchangeable.           *)
EXTENDS Master, TLC

Symmetry == Permutations(Pid)
============================================================================
