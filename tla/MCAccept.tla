------------------------------ MODULE MCAccept ------------------------------
(* Instances of AcceptTransaction for TLC: all sources track one repository, *)
(* as fourteen of the registered ones do, and commands and sources are       *)
(* interchangeable.                                                          *)
EXTENDS AcceptTransaction, TLC

SharedRepo == [s \in Sources |-> CHOOSE r \in Repositories : TRUE]

AcceptSymmetry == Permutations(Procs) \cup Permutations(Sources)
=============================================================================
