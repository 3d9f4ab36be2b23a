------------------------------- MODULE MCExec -------------------------------
(* Instances of Exec for TLC. *)
EXTENDS Exec, TLC

\* One that writes more than the pipe holds, one that leaves a writer in the
\* background, one that hangs, one deaf to SIGTERM, one that leaves a server behind.
Shapes ==
    {[out |-> 2, ends |-> TRUE, term |-> TRUE, forks |-> FALSE],
     [out |-> 1, ends |-> TRUE, term |-> TRUE, forks |-> TRUE],
     [out |-> 0, ends |-> FALSE, term |-> TRUE, forks |-> FALSE],
     [out |-> 1, ends |-> FALSE, term |-> FALSE, forks |-> FALSE],
     [out |-> 0, ends |-> FALSE, term |-> TRUE, forks |-> TRUE]}
=============================================================================
