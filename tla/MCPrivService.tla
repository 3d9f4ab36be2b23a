---------------------------- MODULE MCPrivService ---------------------------
(* Instances of PrivService for TLC. *)
EXTENDS PrivService, TLC

\* Users and daemon threads are interchangeable.
Symmetry == Permutations(Users) \cup Permutations(Callers)
=============================================================================
