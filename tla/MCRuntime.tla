----------------------------- MODULE MCRuntime ------------------------------
(* Instances of Runtime for TLC. *)
EXTENDS Runtime, TLC

\* Users outside Existing are interchangeable, and so are threads and processes.
Symmetry ==
    Permutations(Threads) \cup Permutations(Procs) \cup Permutations(UserIds \ Existing)
=============================================================================
