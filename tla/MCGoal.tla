------------------------------- MODULE MCGoal -------------------------------
(* Instances of Goal for TLC; the processes are interchangeable. *)
EXTENDS Goal, TLC

ProcSymmetry == Permutations(Procs)

\* Bound: the policy changes or somebody writes goal.json, not both.
OneUpset == damage + Cardinality(banned) <= 1
=============================================================================
