------------------------------ MODULE MCUsers -------------------------------
(* Instances of Users for TLC. *)
EXTENDS Users, TLC

\* HTTP worker threads are interchangeable.
Symmetry == Permutations(Threads)
=============================================================================
