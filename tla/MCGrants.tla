------------------------------ MODULE MCGrants ------------------------------
(* Instances of Grants for TLC. *)
EXTENDS Grants, TLC

\* Grant ids and admin threads are interchangeable (safety runs only).
Symmetry == Permutations(Ids) \cup Permutations(Admins)
=============================================================================
