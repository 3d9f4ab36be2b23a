------------------------------- MODULE MCCron -------------------------------
(***************************************************************************)
(* Instances of Cron, of its Windows backend and of Crontab for TLC. In    *)
(* Cron the rewrite of a crontab is one step, so it shares no state with   *)
(* Crontab: a behaviour is one of the tools or one of a single crontab.    *)
(***************************************************************************)
EXTENDS CronWindows, Crontab, TLC

AllInit == Init /\ CrontabInit
AllNext ==
    \/ CrontabInit /\ Next /\ UNCHANGED crontabVars
    \/ platform = "linux" /\ Init /\ CrontabNext /\ UNCHANGED vars
AllSpec == AllInit /\ [][AllNext]_<<vars, crontabVars>>

\* Job ids, worker threads, payload variants and the user's lines are interchangeable.
Symmetry ==
    Permutations(Jobs) \cup Permutations(Threads) \cup Permutations(Edits)
        \cup Permutations(JobIds) \cup Permutations(OwnLines)
=============================================================================
