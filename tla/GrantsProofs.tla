---------------------------- MODULE GrantsProofs ----------------------------
(***************************************************************************)
(* Theorems about Grants for every set of ids and threads, every clock and *)
(* ttl bound, any number of crashes.                                       *)
(***************************************************************************)
EXTENDS Grants, TLAPS

-----------------------------------------------------------------------------
(* Type correctness *)

\* Every step of the grant manager, its helper, its sweeper and a crash keeps
\* the state well typed; in particular expires_at stays within MaxTtl of now.
LEMMA TypeStep == TypeOK /\ [Next]_vars => TypeOK'
<1> SUFFICES ASSUME TypeOK, [Next]_vars PROVE TypeOK'
  OBVIOUS
<1> USE GrantsAssumption DEF TypeOK, InFlightStates, FinishedStates, Threads, Idle
<1>1. ASSUME NEW id \in Ids, NEW ttl \in TtlInputs, Request(id, ttl) PROVE TypeOK'
  BY <1>1 DEF Request
<1>2. ASSUME NEW id \in Ids, RequestPersist(id) PROVE TypeOK'
  BY <1>2 DEF RequestPersist, PersistFails
<1>3. ASSUME NEW id \in Ids, SpawnInstall(id) PROVE TypeOK'
  BY <1>3 DEF SpawnInstall
<1>4. ASSUME NEW id \in Ids, RequestFinish(id) PROVE TypeOK'
  BY <1>4 DEF RequestFinish
<1>5. ASSUME NEW id \in Ids, RequestFail(id) PROVE TypeOK'
  BY <1>5 DEF RequestFail, PersistBestEffort, PersistFails
<1>6. ASSUME NEW id \in Ids, HelperStep(id) PROVE TypeOK'
  BY <1>6 DEF HelperStep, HelperStage, HelperInstall, HelperRefuse, HelperKilled
<1>7. ASSUME NEW t \in Admins, NEW id \in Ids, GrantRevoke(t, id) PROVE TypeOK'
  BY <1>7 DEF GrantRevoke
<1>8. ASSUME NEW t \in Threads, RevokeHelper(t) PROVE TypeOK'
  BY <1>8 DEF RevokeHelper
<1>9. ASSUME NEW t \in Threads, RevokeErase(t) PROVE TypeOK'
  BY <1>9 DEF RevokeErase, PersistFails
<1>10. ASSUME SweepCollect PROVE TypeOK'
  BY <1>10 DEF SweepCollect
<1>11. ASSUME SweepNext PROVE TypeOK'
  BY <1>11 DEF SweepNext
<1>12. ASSUME Crash PROVE TypeOK'
  BY <1>12 DEF Crash
<1>13. ASSUME Start PROVE TypeOK'
  BY <1>13 DEF Start, Kept, Orphans, OnDisk, PersistBestEffort, PersistFails
<1>14. ASSUME NEW id \in Ids, ReconcileRemove(id) PROVE TypeOK'
  BY <1>14 DEF ReconcileRemove
<1>15. ASSUME Serve PROVE TypeOK'
  BY <1>15 DEF Serve
<1>16. ASSUME Tick PROVE TypeOK'
  BY <1>16 DEF Tick
<1>17. CASE UNCHANGED vars
  BY <1>17 DEF vars
<1> QED
  BY <1>1, <1>2, <1>3, <1>4, <1>5, <1>6, <1>7, <1>8, <1>9, <1>10, <1>11,
     <1>12, <1>13, <1>14, <1>15, <1>16, <1>17
     DEF Next, RequestStep, RevokeStep

\* GrantManager's state is well typed in every reachable state.
THEOREM TypeCorrect == Spec => []TypeOK
<1>1. Init => TypeOK
  BY GrantsAssumption DEF Init, TypeOK, Threads, Idle, InFlightStates, FinishedStates
<1> QED
  BY <1>1, TypeStep, PTL DEF Spec

-----------------------------------------------------------------------------
(* grants_ is never ahead of grants.json *)

\* No step lets grants_ get ahead of grants.json, as long as a failing
\* atomic_write leaves the old file in place.
LEMMA DurableStep ==
  ASSUME "rename" \notin PersistFaults, MemOnDisk, [Next]_vars
  PROVE  MemOnDisk'
<1> USE DEF MemOnDisk
<1>0. PersistFails => disk' = disk
  BY DEF PersistFails
<1>1. ASSUME NEW id \in Ids, RequestPersist(id) PROVE MemOnDisk'
  BY <1>0, <1>1 DEF RequestPersist
<1>2. ASSUME NEW id \in Ids, RequestFail(id) PROVE MemOnDisk'
  BY <1>0, <1>2 DEF RequestFail, PersistBestEffort
<1>3. ASSUME NEW t \in Threads, RevokeErase(t) PROVE MemOnDisk'
  BY <1>0, <1>3 DEF RevokeErase
<1>4. ASSUME Start PROVE MemOnDisk'
  BY <1>0, <1>4 DEF Start, PersistBestEffort, Kept
<1>5. ASSUME Crash PROVE MemOnDisk'
  BY <1>5 DEF Crash
<1>6. ASSUME UNCHANGED <<mem, disk>> PROVE MemOnDisk'
  BY <1>6
<1> QED
  BY <1>1, <1>2, <1>3, <1>4, <1>5, <1>6
     DEF Next, vars, RequestStep, HelperStep, RevokeStep, Request,
         SpawnInstall, RequestFinish, HelperStage, HelperInstall,
         HelperRefuse, HelperKilled, GrantRevoke, RevokeHelper,
         SweepCollect, SweepNext, ReconcileRemove, Serve, Tick

\* No crash can lose a grant request_grant recorded, whatever the helper does,
\* as long as a failing atomic_write leaves the old grants.json in place.
THEOREM Durable ==
  ASSUME "rename" \notin PersistFaults
  PROVE  Spec => []MemOnDisk
<1>1. Init => MemOnDisk
  BY DEF Init, MemOnDisk
<1>2. MemOnDisk /\ [Next]_vars => MemOnDisk'
  BY DurableStep
<1> QED
  BY <1>1, <1>2, PTL DEF Spec

-----------------------------------------------------------------------------
(* No untracked drop-in. NoUntrackedDropIn is not inductive: a revocation   *)
(* may only meet grants whose installation has ended (Targets, Unexpired),  *)
(* the exit code must tell what the helper did (ExitCodes), and an orphan   *)
(* found at startup must still be on the reconciler's list (Covered).       *)

\* Nothing exists yet for a request that has not spawned its helper.
NotYet == \A id \in Ids :
    req[id] \in {"none", "rendered", "persisted"} => id \notin sudoers /\ hlp[id] = "none"

\* Only a serving daemon has threads at work.
Quiet == up # "up" =>
    /\ \A id \in Ids : ~InFlight(id)
    /\ \A t \in Threads : rv[t] = Idle
    /\ toRevoke = {}

\* A running helper has a request waiting for it, unless the daemon is down.
Waited == up # "down" => \A id \in Ids : hlp[id] # "none" => req[id] = "waiting"

\* A helper that has not renamed, or that reported an error, left no drop-in.
ExitCodes == \A id \in Ids :
    hlp[id] \in {"started", "staged", "exitErr"} => id \notin sudoers

\* A recorded request stays in grants_ until it ends.
Recorded == \A id \in Ids : req[id] \in {"persisted", "waiting"} => id \in mem

\* A grant does not expire while it is being installed (TimelyInstall).
Unexpired == \A id \in Ids : InFlight(id) => now < exp[id]

\* Only requested ids are recorded.
Requested == \A id \in mem \cup disk : req[id] # "none"

\* What is being revoked has been installed or has failed.
Targets ==
    /\ \A id \in toRevoke : Finished(id)
    /\ \A t \in Threads : rv[t].pc # "idle" => Finished(rv[t].id)

\* revoke_grant erases only what the helper has removed.
Removed == \A t \in Threads : rv[t].pc = "erase" => rv[t].id \notin sudoers

\* Every drop-in is tracked, or still to be removed by the reconciler.
Covered == /\ up # "down" => sudoers \subseteq mem \cup todo
           /\ up = "up" => todo = {}

\* What has been revoked can never come back.
RevokedForGood == \A id \in revoked :
    Finished(id) /\ id \notin sudoers /\ hlp[id] = "none"

TrackInv ==
    /\ TypeOK /\ NotYet /\ Quiet /\ Waited /\ ExitCodes /\ Recorded
    /\ Unexpired /\ Requested /\ Targets /\ Removed /\ Covered /\ RevokedForGood

\* What the theorems below ask of the environment: the helper's exit code tells
\* the truth, installing a grant takes less than its ttl, and /etc/sudoers.d
\* can be listed.
Reliable == HelperFaults \subseteq {"refuse"} /\ TimelyInstall /\ DirReadable

\* Every step of every thread, helper, crash and restart preserves TrackInv.
LEMMA TrackStep ==
  ASSUME Reliable, TrackInv, [Next]_vars
  PROVE  TrackInv'
<1> USE GrantsAssumption DEF TrackInv, TypeOK, InFlightStates, FinishedStates,
        InFlight, Finished, Threads, Idle, Reliable
<1>0. TypeOK'
  BY TypeStep DEF TrackInv
<1>1. ASSUME NEW id \in Ids, NEW ttl \in TtlInputs, Request(id, ttl) PROVE TrackInv'
  BY <1>0, <1>1 DEF Request, NotYet, Quiet, Waited, ExitCodes, Recorded,
     Unexpired, Requested, Targets, Removed, Covered, RevokedForGood
<1>2. ASSUME NEW id \in Ids, RequestPersist(id) PROVE TrackInv'
  BY <1>0, <1>2 DEF RequestPersist, PersistFails, NotYet, Quiet, Waited,
     ExitCodes, Recorded, Unexpired, Requested, Targets, Removed, Covered,
     RevokedForGood
<1>3. ASSUME NEW id \in Ids, SpawnInstall(id) PROVE TrackInv'
  <2>1. /\ NotYet' /\ Quiet' /\ Waited' /\ Recorded' /\ Unexpired'
        /\ Requested' /\ Targets' /\ Removed' /\ Covered' /\ RevokedForGood'
    BY <1>3 DEF SpawnInstall, NotYet, Quiet, Waited, Recorded, Unexpired,
       Requested, Targets, Removed, Covered, RevokedForGood
  <2>2. ExitCodes'
    BY <1>3 DEF SpawnInstall, NotYet, ExitCodes
  <2> QED
    BY <1>0, <2>1, <2>2
<1>4. ASSUME NEW id \in Ids, RequestFinish(id) PROVE TrackInv'
  BY <1>0, <1>4 DEF RequestFinish, NotYet, Quiet, Waited, ExitCodes, Recorded,
     Unexpired, Requested, Targets, Removed, Covered, RevokedForGood
<1>5. ASSUME NEW id \in Ids, RequestFail(id) PROVE TrackInv'
  <2>1. /\ NotYet' /\ Quiet' /\ Waited' /\ ExitCodes' /\ Recorded'
        /\ Unexpired' /\ Requested' /\ Targets' /\ Removed' /\ RevokedForGood'
    BY <1>5 DEF RequestFail, PersistBestEffort, PersistFails, NotYet, Quiet,
       Waited, ExitCodes, Recorded, Unexpired, Requested, Targets, Removed,
       RevokedForGood
  <2>2. Covered'
    BY <1>5 DEF RequestFail, PersistBestEffort, PersistFails, ExitCodes,
       Covered
  <2> QED
    BY <1>0, <2>1, <2>2
<1>6. ASSUME NEW id \in Ids, HelperStage(id) PROVE TrackInv'
  BY <1>0, <1>6 DEF HelperStage, NotYet, Quiet, Waited, ExitCodes, Recorded,
     Unexpired, Requested, Targets, Removed, Covered, RevokedForGood
<1>7. ASSUME NEW id \in Ids, HelperInstall(id) PROVE TrackInv'
  <2>1. /\ NotYet' /\ Quiet' /\ Waited' /\ ExitCodes' /\ Recorded'
        /\ Unexpired' /\ Requested' /\ Targets' /\ RevokedForGood'
    BY <1>7 DEF HelperInstall, NotYet, Quiet, Waited, ExitCodes, Recorded,
       Unexpired, Requested, Targets, RevokedForGood
  <2>2. Removed'
    BY <1>7 DEF HelperInstall, Quiet, Waited, Targets, Removed
  <2>3. Covered'
    BY <1>7 DEF HelperInstall, Quiet, Waited, Recorded, Covered
  <2> QED
    BY <1>0, <2>1, <2>2, <2>3
<1>8. ASSUME NEW id \in Ids, HelperRefuse(id) PROVE TrackInv'
  BY <1>0, <1>8 DEF HelperRefuse, NotYet, Quiet, Waited, ExitCodes, Recorded,
     Unexpired, Requested, Targets, Removed, Covered, RevokedForGood
<1>9. ASSUME NEW t \in Admins, NEW id \in Ids, GrantRevoke(t, id) PROVE TrackInv'
  BY <1>0, <1>9 DEF GrantRevoke, NotYet, Quiet, Waited, ExitCodes, Recorded,
     Unexpired, Requested, Targets, Removed, Covered, RevokedForGood
<1>10. ASSUME NEW t \in Threads, RevokeHelper(t) PROVE TrackInv'
  BY <1>0, <1>10 DEF RevokeHelper, NotYet, Quiet, Waited, ExitCodes, Recorded,
     Unexpired, Requested, Targets, Removed, Covered, RevokedForGood
<1>11. ASSUME NEW t \in Threads, RevokeErase(t) PROVE TrackInv'
  <2>1. /\ NotYet' /\ Quiet' /\ Waited' /\ ExitCodes' /\ Unexpired'
        /\ Requested' /\ Targets' /\ Removed'
    BY <1>11 DEF RevokeErase, PersistFails, NotYet, Quiet, Waited, ExitCodes,
       Unexpired, Requested, Targets, Removed
  <2>2. Recorded'
    BY <1>11 DEF RevokeErase, PersistFails, Targets, Recorded
  <2>3. Covered'
    BY <1>11 DEF RevokeErase, PersistFails, Removed, Covered
  <2>4. RevokedForGood'
    BY <1>11 DEF RevokeErase, PersistFails, Quiet, Waited, Targets, Removed,
       RevokedForGood
  <2> QED
    BY <1>0, <2>1, <2>2, <2>3, <2>4
<1>12. ASSUME SweepCollect PROVE TrackInv'
  <2>1. /\ NotYet' /\ Quiet' /\ Waited' /\ ExitCodes' /\ Recorded'
        /\ Unexpired' /\ Requested' /\ Removed' /\ Covered' /\ RevokedForGood'
    BY <1>12 DEF SweepCollect, Expired, NotYet, Quiet, Waited, ExitCodes,
       Recorded, Unexpired, Requested, Removed, Covered, RevokedForGood
  <2>2. Targets'
    BY <1>12 DEF SweepCollect, Expired, Unexpired, Requested, Targets
  <2> QED
    BY <1>0, <2>1, <2>2
<1>13. ASSUME SweepNext PROVE TrackInv'
  BY <1>0, <1>13 DEF SweepNext, NotYet, Quiet, Waited, ExitCodes, Recorded,
     Unexpired, Requested, Targets, Removed, Covered, RevokedForGood
<1>14. ASSUME Crash PROVE TrackInv'
  BY <1>0, <1>14 DEF Crash, NotYet, Quiet, Waited, ExitCodes, Recorded,
     Unexpired, Requested, Targets, Removed, Covered, RevokedForGood
<1>15. ASSUME Start PROVE TrackInv'
  <2>1. /\ NotYet' /\ Quiet' /\ Waited' /\ ExitCodes' /\ Unexpired'
        /\ Requested' /\ Targets' /\ Removed' /\ Covered' /\ RevokedForGood'
    BY <1>15 DEF Start, Kept, Orphans, OnDisk, PersistBestEffort,
       PersistFails, NotYet, Quiet, Waited, ExitCodes, Unexpired, Requested,
       Targets, Removed, Covered, RevokedForGood
  <2>2. Recorded'
    BY <1>15 DEF Start, Kept, Orphans, OnDisk, PersistBestEffort,
       PersistFails, Quiet, Recorded
  <2> QED
    BY <1>0, <2>1, <2>2
<1>16. ASSUME NEW id \in Ids, ReconcileRemove(id) PROVE TrackInv'
  BY <1>0, <1>16 DEF ReconcileRemove, NotYet, Quiet, Waited, ExitCodes,
     Recorded, Unexpired, Requested, Targets, Removed, Covered, RevokedForGood
<1>17. ASSUME Serve PROVE TrackInv'
  BY <1>0, <1>17 DEF Serve, NotYet, Quiet, Waited, ExitCodes, Recorded,
     Unexpired, Requested, Targets, Removed, Covered, RevokedForGood
<1>18. ASSUME Tick PROVE TrackInv'
  BY <1>0, <1>18 DEF Tick, Installing, NotYet, Quiet, Waited, ExitCodes,
     Recorded, Unexpired, Requested, Targets, Removed, Covered, RevokedForGood
<1>19. CASE UNCHANGED vars
  BY <1>19 DEF vars, NotYet, Quiet, Waited, ExitCodes, Recorded, Unexpired,
     Requested, Targets, Removed, Covered, RevokedForGood
<1> QED
  BY <1>1, <1>2, <1>3, <1>4, <1>5, <1>6, <1>7, <1>8, <1>9, <1>10,
     <1>11, <1>12, <1>13, <1>14, <1>15, <1>16, <1>17, <1>18, <1>19
     DEF Next, RequestStep, HelperStep, HelperKilled, RevokeStep

\* TrackInv holds in every reachable state.
LEMMA TrackInvariant == Reliable => (Spec => []TrackInv)
<1> SUFFICES ASSUME Reliable PROVE Spec => []TrackInv
  OBVIOUS
<1>1. Init => TrackInv
  BY GrantsAssumption DEF Init, TrackInv, TypeOK, InFlightStates,
     FinishedStates, InFlight, Finished, Threads, Idle, NotYet, Quiet, Waited,
     ExitCodes, Recorded, Unexpired, Requested, Targets, Removed, Covered,
     RevokedForGood
<1>2. TrackInv /\ [Next]_vars => TrackInv'
  BY TrackStep
<1> QED
  BY <1>1, <1>2, PTL DEF Spec

\* With a reliable helper, a daemon that serves tracks every live drop-in: none
\* escapes the sweeper, whatever the interleaving of requests, revocations,
\* sweeps, crashes and failing writes of grants.json.
THEOREM Tracked == Reliable => (Spec => []NoUntrackedDropIn)
<1>1. TrackInv => NoUntrackedDropIn
  BY DEF TrackInv, Covered, NoUntrackedDropIn
<1> QED
  BY <1>1, TrackInvariant, PTL

\* With a reliable helper, a drop-in whose revocation was confirmed is gone for
\* good, across any number of crashes and restarts.
THEOREM RevokedForEver == Reliable => (Spec => []RevokedMeansRemoved)
<1>1. TrackInv => RevokedMeansRemoved
  BY DEF TrackInv, RevokedForGood, RevokedMeansRemoved
<1> QED
  BY <1>1, TrackInvariant, PTL

-----------------------------------------------------------------------------
(* reconcile_at_startup. Nothing else runs while it does, so what Start     *)
(* found in the directory is split between grants_ and the list to remove.  *)

\* No helper outlives a start.
Alone == up = "reconcile" => \A id \in Ids : hlp[id] = "none"

\* Every drop-in is kept or on the list, and none is both.
Split == up = "reconcile" => /\ mem \cup todo = sudoers
                             /\ mem \cap todo = {}

ReconcileInv == TypeOK /\ Quiet /\ Alone /\ Split

\* What reconciliation asks of the environment: /etc/sudoers.d can be listed and
\* a file in it removed.
Removable == DirReadable /\ "revoke" \notin HelperFaults

\* Every step preserves ReconcileInv; only Start, ReconcileRemove and Crash can
\* happen during reconciliation.
LEMMA ReconcileStep ==
  ASSUME Removable, ReconcileInv, [Next]_vars
  PROVE  ReconcileInv'
<1> USE GrantsAssumption DEF ReconcileInv, TypeOK, InFlightStates, FinishedStates,
        InFlight, Finished, Threads, Idle, Removable, Quiet, Alone, Split
<1>0. TypeOK'
  BY TypeStep
<1>1. ASSUME NEW id \in Ids, NEW ttl \in TtlInputs, Request(id, ttl) PROVE ReconcileInv'
  BY <1>0, <1>1 DEF Request
<1>2. ASSUME NEW id \in Ids, RequestStep(id) PROVE ReconcileInv'
  BY <1>0, <1>2 DEF RequestStep, RequestPersist, SpawnInstall, RequestFinish, RequestFail
<1>3. ASSUME NEW id \in Ids, HelperStep(id) PROVE ReconcileInv'
  BY <1>0, <1>3 DEF HelperStep, HelperStage, HelperInstall, HelperRefuse, HelperKilled
<1>4. ASSUME NEW t \in Admins, NEW id \in Ids, GrantRevoke(t, id) PROVE ReconcileInv'
  BY <1>0, <1>4 DEF GrantRevoke
<1>5. ASSUME NEW t \in Threads, RevokeStep(t) PROVE ReconcileInv'
  BY <1>0, <1>5 DEF RevokeStep, RevokeHelper, RevokeErase
<1>6. CASE SweepCollect \/ SweepNext
  BY <1>0, <1>6 DEF SweepCollect, SweepNext
<1>7. CASE Crash
  BY <1>0, <1>7 DEF Crash
<1>8. CASE Start
  BY <1>0, <1>8 DEF Start, Kept, Orphans, OnDisk
<1>9. ASSUME NEW id \in Ids, ReconcileRemove(id) PROVE ReconcileInv'
  BY <1>0, <1>9 DEF ReconcileRemove
<1>10. CASE Serve \/ Tick \/ UNCHANGED vars
  BY <1>0, <1>10 DEF Serve, Tick, vars
<1> QED
  BY <1>1, <1>2, <1>3, <1>4, <1>5, <1>6, <1>7, <1>8, <1>9, <1>10 DEF Next

\* When reconcile_at_startup ends, grants_ is exactly what is in /etc/sudoers.d:
\* whatever was lost of grants.json, whichever helpers were killed and however
\* often a start was itself interrupted.
THEOREM Reconciled == Removable => (Spec => ReconcileExact)
<1> SUFFICES ASSUME Removable PROVE Spec => ReconcileExact
  OBVIOUS
<1>1. Init => ReconcileInv
  BY GrantsAssumption DEF Init, ReconcileInv, TypeOK, InFlightStates, FinishedStates,
     InFlight, Threads, Idle, Quiet, Alone, Split
<1>2. ReconcileInv /\ [Next]_vars => ReconcileInv'
  BY ReconcileStep
<1>3. ReconcileInv /\ [Next]_vars => [up = "reconcile" /\ up' = "up" => mem = sudoers]_vars
  <2> SUFFICES ASSUME ReconcileInv, Next, up = "reconcile", up' = "up"
               PROVE  mem = sudoers
    BY DEF vars
  <2>1. Serve
    BY DEF Next, Request, RequestStep, RequestPersist, SpawnInstall, RequestFinish,
       RequestFail, HelperStep, HelperStage, HelperInstall, HelperRefuse, HelperKilled,
       GrantRevoke, RevokeStep, RevokeHelper, RevokeErase, SweepCollect, SweepNext,
       Crash, Start, ReconcileRemove, Tick
  <2> QED
    BY <2>1 DEF Serve, ReconcileInv, Split
<1> QED
  BY <1>1, <1>2, <1>3, PTL DEF Spec, ReconcileExact

-----------------------------------------------------------------------------
(* Nothing is removed early. A drop-in is removed by whoever holds its id:  *)
(* the sweeper, an administrator or the reconciler. The reconciler's case   *)
(* needs that grants.json still names every grant that is not over.         *)

\* expired, or an administrator asked, or request_grant answered with an error
Over(id) == exp[id] <= now \/ id \in asked \/ req[id] = "failed"

\* An id that was never requested is nowhere.
Drawn == /\ \A id \in mem \cup disk \cup sudoers \cup toRevoke \cup todo \cup asked :
               req[id] # "none"
         /\ \A id \in Ids : hlp[id] # "none" => req[id] # "none"
         /\ \A t \in Threads : rv[t].pc # "idle" => req[rv[t].id] # "none"

\* A drop-in, and whatever may become one, is over or known to the daemon, or to
\* grants.json while the daemon is down.
Known(id) == IF up = "down" THEN id \in disk ELSE id \in mem
Held == DirReadable => \A id \in Ids :
    (id \in sudoers \/ hlp[id] \in {"started", "staged"} \/ req[id] \in {"persisted", "waiting"})
        => Known(id) \/ Over(id)

\* Only grants that are over are being revoked.
Justified == /\ \A id \in toRevoke \cup todo : Over(id)
             /\ \A t \in Threads : rv[t].pc # "idle" => Over(rv[t].id)

EarlyInv == TypeOK /\ MemOnDisk /\ Quiet /\ Drawn /\ Held /\ Justified

\* A grant that is over stays so.
LEMMA OverStays ==
  ASSUME TypeOK, Drawn, [Next]_vars, NEW id \in Ids, req[id] # "none", Over(id)
  PROVE  Over(id)'
<1> USE GrantsAssumption DEF TypeOK, Over, InFlightStates, FinishedStates, InFlight
<1>1. ASSUME NEW i \in Ids, NEW ttl \in TtlInputs, Request(i, ttl) PROVE Over(id)'
  BY <1>1 DEF Request
<1>2. ASSUME NEW i \in Ids, RequestStep(i) PROVE Over(id)'
  BY <1>2 DEF RequestStep, RequestPersist, SpawnInstall, RequestFinish, RequestFail
<1>3. CASE Crash
  BY <1>3 DEF Crash
<1>4. CASE Tick
  BY <1>4 DEF Tick
<1>5. ASSUME UNCHANGED <<now, exp, req>>, asked \subseteq asked' PROVE Over(id)'
  BY <1>5
<1> QED
  BY <1>1, <1>2, <1>3, <1>4, <1>5
     DEF Next, vars, HelperStep, HelperStage, HelperInstall, HelperRefuse, HelperKilled,
         GrantRevoke, RevokeStep, RevokeHelper, RevokeErase, SweepCollect, SweepNext,
         Start, ReconcileRemove, Serve

\* Every step preserves EarlyInv, whatever the helper does.
LEMMA EarlyStep ==
  ASSUME "rename" \notin PersistFaults, EarlyInv, [Next]_vars
  PROVE  EarlyInv'
<1> USE GrantsAssumption DEF TypeOK, InFlightStates, FinishedStates,
        InFlight, Finished, Threads, Idle
<1>0. TypeOK' /\ TypeOK
  BY TypeStep DEF EarlyInv
<1>1. MemOnDisk'
  BY DurableStep DEF EarlyInv
<1>2. PersistFails => disk' = disk
  BY DEF PersistFails
<1>3. \A id \in Ids : req[id] # "none" /\ Over(id) => Over(id)'
  BY OverStays DEF EarlyInv
<1> USE DEF EarlyInv, MemOnDisk, Quiet, Drawn, Held, Known, Justified
<1>4. ASSUME NEW id \in Ids, NEW ttl \in TtlInputs, Request(id, ttl) PROVE EarlyInv'
  BY <1>0, <1>1, <1>3, <1>4 DEF Request
<1>5. ASSUME NEW id \in Ids, RequestPersist(id) PROVE EarlyInv'
  BY <1>0, <1>1, <1>2, <1>3, <1>5 DEF RequestPersist, Over
<1>6. ASSUME NEW id \in Ids, SpawnInstall(id) PROVE EarlyInv'
  BY <1>0, <1>1, <1>3, <1>6 DEF SpawnInstall
<1>7. ASSUME NEW id \in Ids, RequestFinish(id) PROVE EarlyInv'
  BY <1>0, <1>1, <1>3, <1>7 DEF RequestFinish
<1>8. ASSUME NEW id \in Ids, RequestFail(id) PROVE EarlyInv'
  BY <1>0, <1>1, <1>2, <1>3, <1>8 DEF RequestFail, PersistBestEffort, Over
<1>9. ASSUME NEW id \in Ids, HelperStep(id) PROVE EarlyInv'
  BY <1>0, <1>1, <1>3, <1>9 DEF HelperStep, HelperStage, HelperInstall, HelperRefuse, HelperKilled
<1>10. ASSUME NEW t \in Admins, NEW id \in Ids, GrantRevoke(t, id) PROVE EarlyInv'
  BY <1>0, <1>1, <1>3, <1>10 DEF GrantRevoke, Over
<1>11. ASSUME NEW t \in Threads, RevokeHelper(t) PROVE EarlyInv'
  BY <1>0, <1>1, <1>3, <1>11 DEF RevokeHelper
<1>12. ASSUME NEW t \in Threads, RevokeErase(t) PROVE EarlyInv'
  BY <1>0, <1>1, <1>2, <1>3, <1>12 DEF RevokeErase
<1>13. CASE SweepCollect
  BY <1>0, <1>1, <1>3, <1>13 DEF SweepCollect, Expired, Over
<1>14. CASE SweepNext
  BY <1>0, <1>1, <1>3, <1>14 DEF SweepNext
<1>15. CASE Crash
  BY <1>0, <1>1, <1>3, <1>15 DEF Crash
<1>16. CASE Start
  BY <1>0, <1>1, <1>2, <1>3, <1>16 DEF Start, Kept, Orphans, OnDisk, Expired, PersistBestEffort, Over
<1>17. ASSUME NEW id \in Ids, ReconcileRemove(id) PROVE EarlyInv'
  BY <1>0, <1>1, <1>3, <1>17 DEF ReconcileRemove
<1>18. CASE Serve \/ Tick
  BY <1>0, <1>1, <1>3, <1>18 DEF Serve, Tick
<1>19. CASE UNCHANGED vars
  BY <1>0, <1>1, <1>3, <1>19 DEF vars
<1> QED
  BY <1>4, <1>5, <1>6, <1>7, <1>8, <1>9, <1>10, <1>11, <1>12, <1>13, <1>14, <1>15,
     <1>16, <1>17, <1>18, <1>19 DEF Next, RequestStep, RevokeStep

\* EarlyInv holds in every reachable state.
LEMMA EarlyInvariant ==
  ASSUME "rename" \notin PersistFaults
  PROVE  Spec => []EarlyInv
<1>1. Init => EarlyInv
  BY GrantsAssumption DEF Init, EarlyInv, TypeOK, InFlightStates, FinishedStates,
     InFlight, Threads, Idle, MemOnDisk, Quiet, Drawn, Held, Justified
<1>2. EarlyInv /\ [Next]_vars => EarlyInv'
  BY EarlyStep
<1> QED
  BY <1>1, <1>2, PTL DEF Spec

\* A step that makes a drop-in disappear is a revocation or a removal by the
\* reconciler, and the grant is over.
LEMMA RemovedWhenOver ==
  ASSUME EarlyInv, [Next]_vars, NEW id \in sudoers \ sudoers'
  PROVE  Over(id)
<1> USE GrantsAssumption DEF EarlyInv, TypeOK, Justified, Drawn
<1>1. ASSUME NEW t \in Threads, RevokeHelper(t) PROVE Over(id)
  BY <1>1 DEF RevokeHelper
<1>2. ASSUME NEW i \in Ids, ReconcileRemove(i) PROVE Over(id)
  BY <1>2 DEF ReconcileRemove
<1> QED
  BY <1>1, <1>2
     DEF Next, vars, Request, RequestStep, RequestPersist, SpawnInstall, RequestFinish,
         RequestFail, HelperStep, HelperStage, HelperInstall, HelperRefuse, HelperKilled,
         GrantRevoke, RevokeStep, RevokeErase, SweepCollect, SweepNext, Crash, Start,
         Serve, Tick

\* No drop-in is removed before its expiry unless an administrator asked or its
\* request had failed, across any crashes, for every behaviour of the helper, and
\* also when a grant expires during its own installation.
THEOREM NotEarly ==
  ASSUME "rename" \notin PersistFaults
  PROVE  Spec => NoEarlyRemoval
<1>1. EarlyInv /\ [Next]_vars =>
        [\A id \in sudoers \ sudoers' :
            exp[id] <= now \/ id \in asked \/ req[id] = "failed"]_vars
  BY RemovedWhenOver DEF Over
<1> QED
  BY <1>1, EarlyInvariant, PTL DEF Spec, NoEarlyRemoval

-----------------------------------------------------------------------------
(* Grants implements GrantLease, liveness apart: each step of the daemon,   *)
(* the helpers and the clock is a step of the lease or changes nothing in   *)
(* it. TrackInv says that a drop-in appears and ends as the lease allows,   *)
(* EarlyInv that it does not end before it may.                             *)

\* A helper at work has a grant that has not expired, also when the daemon that
\* started it is gone.
HelperTimely == \A id \in Ids : hlp[id] \in {"started", "staged"} => now < exp[id]

\* A request that was answered with an error left nothing.
FailedGone == \A id \in Ids : req[id] = "failed" => id \notin sudoers /\ hlp[id] = "none"

\* Nobody has anything to reconcile while the daemon is down.
NoList == up = "down" => todo = {}

LeaseParts == HelperTimely /\ FailedGone /\ NoList
LeaseInv == TrackInv /\ EarlyInv /\ LeaseParts

\* what the refinement asks of the environment
LeaseReliable == Reliable /\ "rename" \notin PersistFaults

\* Every step preserves LeaseInv.
LEMMA LeaseStep ==
  ASSUME LeaseReliable, LeaseInv, [Next]_vars
  PROVE  LeaseInv'
<1> USE GrantsAssumption DEF TypeOK, InFlightStates, FinishedStates, InFlight, Finished,
        Threads, Idle
<1>0. TrackInv' /\ EarlyInv'
  BY TrackStep, EarlyStep DEF LeaseInv, LeaseReliable
<1> SUFFICES LeaseParts'
  BY <1>0 DEF LeaseInv, LeaseParts
<1> USE DEF LeaseInv, TrackInv, LeaseParts, HelperTimely, FailedGone, NoList
<1>1. ASSUME NEW id \in Ids, NEW ttl \in TtlInputs, Request(id, ttl)
      PROVE  LeaseParts'
  BY <1>1 DEF Request, NotYet
<1>2. ASSUME NEW id \in Ids, RequestStep(id) PROVE LeaseParts'
  BY <1>2 DEF RequestStep, RequestPersist, SpawnInstall, RequestFinish, RequestFail,
     NotYet, Unexpired, ExitCodes
<1>3. ASSUME NEW id \in Ids, HelperStep(id) PROVE LeaseParts'
  BY <1>3 DEF HelperStep, HelperStage, HelperInstall, HelperRefuse, HelperKilled
<1>4. ASSUME NEW t \in Threads, RevokeStep(t) PROVE LeaseParts'
  BY <1>4 DEF RevokeStep, RevokeHelper, RevokeErase
<1>5. CASE Crash
  BY <1>5 DEF Crash
<1>6. CASE Start
  BY <1>6 DEF Start
<1>7. ASSUME NEW id \in Ids, ReconcileRemove(id) PROVE LeaseParts'
  BY <1>7 DEF ReconcileRemove
<1>8. CASE Tick \/ Serve
  BY <1>8 DEF Tick, Serve, Installing, LeaseReliable, Reliable
<1>9. ASSUME UNCHANGED <<now, exp, req, hlp, sudoers, up, todo>> PROVE LeaseParts'
  BY <1>9
<1> QED
  BY <1>1, <1>2, <1>3, <1>4, <1>5, <1>6, <1>7, <1>8, <1>9
     DEF Next, vars, GrantRevoke, SweepCollect, SweepNext

\* Where nothing of a grant's lease changes, the lease takes no step.
LEMMA LeaseStutters ==
  ASSUME UNCHANGED <<now, asked, sudoers, exp>>, \A id \in Ids : MayAppear(id)' = MayAppear(id)
  PROVE  UNCHANGED Lease!leaseVars
BY DEF Lease!leaseVars, LeaseOf

\* Where all that happens is that grants that had not taken effect no longer can,
\* they are abandoned.
LEMMA LeaseAbandons ==
  ASSUME UNCHANGED <<now, asked, sudoers, exp>>, \A id \in Ids : MayAppear(id)' => MayAppear(id)
  PROVE  Lease!Abandon
<1> DEFINE lease == [id \in Ids |-> LeaseOf(id)]
           S == {id \in Ids : lease[id] = "none" /\ ~MayAppear(id)'}
<1>1. S \in SUBSET {id \in Ids : lease[id] = "none"}
  OBVIOUS
<1>2. ASSUME NEW id \in Ids
      PROVE  LeaseOf(id)' = IF id \in S THEN "ended" ELSE lease[id]
  BY DEF LeaseOf
<1>3. lease' = [id \in Ids |-> IF id \in S THEN "ended" ELSE lease[id]]
  BY <1>2
<1> QED
  BY <1>1, <1>3 DEF Lease!Abandon

\* A drop-in that goes away for good ends its lease, at its deadline or because an
\* administrator asked.
LEMMA LeaseEnds ==
  ASSUME LeaseInv, NEW id \in sudoers, sudoers' = sudoers \ {id}, Over(id), ~MayAppear(id),
         UNCHANGED <<now, asked, exp, req, hlp>>
  PROVE  Lease!Expire(id) \/ Lease!Revoke(id)
<1> USE DEF LeaseInv, TrackInv, TypeOK
<1>1. id \in Ids
  OBVIOUS
<1>2. \A i \in Ids : MayAppear(i)' = MayAppear(i)
  BY DEF MayAppear
<1>3. [i \in Ids |-> LeaseOf(i)]' = [[i \in Ids |-> LeaseOf(i)] EXCEPT ![id] = "ended"]
  BY <1>1, <1>2 DEF LeaseOf
<1>4. [i \in Ids |-> IF i \in sudoers THEN exp[i] ELSE 0]' =
      [[i \in Ids |-> IF i \in sudoers THEN exp[i] ELSE 0] EXCEPT ![id] = 0]
  BY <1>1
<1>5. Lease!End(id)
  BY <1>1, <1>3, <1>4 DEF Lease!End, LeaseOf
<1>6. exp[id] <= now \/ id \in asked
  BY <1>1 DEF Over, LeaseParts, FailedGone
<1> QED
  BY <1>1, <1>5, <1>6 DEF Lease!Expire, Lease!Revoke

\* Every step of the grant manager is a step of the lease, or none.
LEMMA LeaseSimulates ==
  ASSUME LeaseReliable, LeaseInv, [Next]_vars
  PROVE  [Lease!Next]_(Lease!leaseVars)
<1> USE GrantsAssumption DEF InFlightStates, FinishedStates, InFlight, Finished, Threads, Idle
<1>0. TypeOK
  BY DEF LeaseInv, TrackInv
<1>1. ASSUME NEW id \in Ids, NEW ttl \in TtlInputs, Request(id, ttl)
      PROVE  UNCHANGED Lease!leaseVars
  <2>1. id \notin sudoers /\ hlp[id] = "none"
    BY <1>1 DEF Request, LeaseInv, TrackInv, NotYet
  <2>2. \A i \in Ids : MayAppear(i)' = MayAppear(i)
    BY <1>0, <1>1 DEF Request, MayAppear, TypeOK
  <2>3. [i \in Ids |-> LeaseOf(i)]' = [i \in Ids |-> LeaseOf(i)]
    BY <1>1, <2>2 DEF Request, LeaseOf
  <2>4. [i \in Ids |-> IF i \in sudoers THEN exp[i] ELSE 0]' =
        [i \in Ids |-> IF i \in sudoers THEN exp[i] ELSE 0]
    BY <1>0, <1>1, <2>1 DEF Request, TypeOK
  <2> QED
    BY <1>1, <2>3, <2>4 DEF Request, Lease!leaseVars
<1>2. ASSUME NEW id \in Ids, RequestStep(id) PROVE Lease!Abandon
  <2>1. UNCHANGED <<now, asked, sudoers, exp>> /\ \A i \in Ids : MayAppear(i)' => MayAppear(i)
    BY <1>0, <1>2 DEF RequestStep, RequestPersist, SpawnInstall, RequestFinish, RequestFail,
       MayAppear, TypeOK
  <2> QED
    BY <2>1, LeaseAbandons
<1>3. ASSUME NEW id \in Ids, HelperStage(id) \/ HelperRefuse(id) \/ HelperKilled(id)
      PROVE  Lease!Abandon
  <2>1. UNCHANGED <<now, asked, sudoers, exp>> /\ \A i \in Ids : MayAppear(i)' => MayAppear(i)
    BY <1>0, <1>3 DEF HelperStage, HelperRefuse, HelperKilled, MayAppear, TypeOK
  <2> QED
    BY <2>1, LeaseAbandons
<1>4. ASSUME NEW id \in Ids, HelperInstall(id) PROVE Lease!Issue(id)
  <2>1. id \notin sudoers /\ now < exp[id]
    BY <1>4 DEF HelperInstall, LeaseInv, TrackInv, ExitCodes, LeaseParts, HelperTimely
  <2>2. \A i \in Ids \ {id} : MayAppear(i)' = MayAppear(i)
    BY <1>0, <1>4 DEF HelperInstall, MayAppear, TypeOK
  <2>3. LeaseOf(id) = "none"
    BY <1>4, <2>1 DEF HelperInstall, MayAppear, LeaseOf
  <2>4. [i \in Ids |-> LeaseOf(i)]' = [[i \in Ids |-> LeaseOf(i)] EXCEPT ![id] = "live"]
    BY <1>4, <2>2 DEF HelperInstall, LeaseOf
  <2>5. [i \in Ids |-> IF i \in sudoers THEN exp[i] ELSE 0]' =
        [[i \in Ids |-> IF i \in sudoers THEN exp[i] ELSE 0] EXCEPT ![id] = exp[id]]
    BY <1>4 DEF HelperInstall
  <2>6. exp[id] \in (now + 1)..(MaxTime + MaxTtl)
    BY <1>0, <2>1 DEF TypeOK
  <2> QED
    BY <1>4, <2>3, <2>4, <2>5, <2>6 DEF Lease!Issue, HelperInstall
<1>5. ASSUME NEW t \in Admins, NEW id \in Ids, GrantRevoke(t, id) PROVE Lease!Ask(id)
  <2>1. \A i \in Ids : MayAppear(i)' = MayAppear(i)
    BY <1>5 DEF GrantRevoke, MayAppear
  <2> QED
    BY <1>5, <2>1 DEF GrantRevoke, LeaseOf, Lease!Ask
<1>6. ASSUME NEW t \in Threads, RevokeHelper(t)
      PROVE  \/ UNCHANGED Lease!leaseVars
             \/ \E id \in Ids : Lease!Expire(id) \/ Lease!Revoke(id)
  <2> DEFINE id == rv[t].id
  <2>1. /\ id \in Ids /\ Over(id) /\ Finished(id) /\ hlp[id] = "none"
        /\ sudoers' = sudoers \ {id} /\ UNCHANGED <<now, asked, exp, req, hlp>>
    BY <1>0, <1>6 DEF RevokeHelper, LeaseReliable, Reliable, TypeOK, LeaseInv, TrackInv,
       EarlyInv, Justified, Targets, Quiet, Waited
  <2>2. ~MayAppear(id) /\ \A i \in Ids : MayAppear(i)' = MayAppear(i)
    BY <2>1 DEF MayAppear
  <2>3. CASE id \in sudoers
    BY <2>1, <2>2, <2>3, LeaseEnds
  <2>4. CASE id \notin sudoers
    <3>1. sudoers' = sudoers
      BY <2>1, <2>4
    <3> QED
      BY <2>1, <2>2, <3>1, LeaseStutters
  <2> QED
    BY <2>3, <2>4
<1>7. ASSUME NEW t \in Threads, RevokeErase(t) PROVE UNCHANGED Lease!leaseVars
  BY <1>7, LeaseStutters DEF RevokeErase, MayAppear
<1>8. CASE SweepCollect \/ SweepNext \/ Serve \/ UNCHANGED vars
  BY <1>8, LeaseStutters DEF SweepCollect, SweepNext, Serve, vars, MayAppear
<1>9. CASE Crash
  <2>1. UNCHANGED <<now, asked, sudoers, exp>> /\ \A i \in Ids : MayAppear(i)' => MayAppear(i)
    BY <1>0, <1>9 DEF Crash, MayAppear, TypeOK
  <2> QED
    BY <2>1, LeaseAbandons DEF Lease!Next
<1>10. CASE Start
  <2>1. UNCHANGED <<now, asked, sudoers, exp>> /\ \A i \in Ids : MayAppear(i)' => MayAppear(i)
    BY <1>0, <1>10 DEF Start, MayAppear, TypeOK
  <2> QED
    BY <2>1, LeaseAbandons DEF Lease!Next
<1>11. ASSUME NEW id \in Ids, ReconcileRemove(id)
       PROVE  \/ UNCHANGED Lease!leaseVars
              \/ \E i \in Ids : Lease!Expire(i) \/ Lease!Revoke(i)
  <2>1. /\ up # "down" /\ up # "up"
        /\ sudoers' = sudoers \ {id} /\ UNCHANGED <<now, asked, exp, req, hlp>>
    BY <1>0, <1>11 DEF ReconcileRemove, LeaseReliable, Reliable, TypeOK, LeaseInv, TrackInv,
       LeaseParts, NoList, Covered
  <2>2. Over(id) /\ req[id] # "none" /\ ~InFlight(id) /\ hlp[id] = "none"
    BY <1>0, <1>11, <2>1 DEF ReconcileRemove, TypeOK, LeaseInv, TrackInv, EarlyInv, Justified,
       Drawn, Quiet, Waited
  <2>3. ~MayAppear(id) /\ \A i \in Ids : MayAppear(i)' = MayAppear(i)
    BY <2>1, <2>2 DEF MayAppear
  <2>4. CASE id \in sudoers
    BY <2>1, <2>2, <2>3, <2>4, LeaseEnds
  <2>5. CASE id \notin sudoers
    <3>1. sudoers' = sudoers
      BY <2>1, <2>5
    <3> QED
      BY <2>1, <2>3, <3>1, LeaseStutters
  <2> QED
    BY <2>4, <2>5
<1>12. CASE Tick
  <2>1. \A i \in Ids : MayAppear(i)' = MayAppear(i)
    BY <1>12 DEF Tick, MayAppear
  <2>2. Lease!Tick
    BY <1>12, <2>1 DEF Tick, LeaseOf, Lease!Tick
  <2> QED
    BY <2>2 DEF Lease!Next
<1> QED
  BY <1>1, <1>2, <1>3, <1>4, <1>5, <1>6, <1>7, <1>8, <1>9, <1>10, <1>11, <1>12
     DEF Next, HelperStep, RevokeStep, Lease!Next

\* GrantManager implements the safety part of the lease: a drop-in appears at most
\* once, before its deadline, and goes away at or after it or because an
\* administrator asked, for any number of grants, threads, crashes and restarts.
THEOREM ImplementsLease == LeaseReliable => (Spec => Lease!Spec)
<1> SUFFICES ASSUME LeaseReliable PROVE Spec => Lease!Spec
  OBVIOUS
<1>1. Init => LeaseInv
  BY GrantsAssumption DEF Init, LeaseInv, TrackInv, EarlyInv, LeaseParts, HelperTimely, FailedGone,
     NoList, TypeOK, InFlightStates, FinishedStates, InFlight, Finished, Threads, Idle, NotYet, Quiet,
     Waited, ExitCodes, Recorded, Unexpired, Requested, Targets, Removed, Covered,
     RevokedForGood, MemOnDisk, Drawn, Held, Justified
<1>2. LeaseInv /\ [Next]_vars => LeaseInv'
  BY LeaseStep
<1>3. Init => Lease!Init
  BY DEF Init, Lease!Init, LeaseOf, MayAppear
<1>4. LeaseInv /\ [Next]_vars => [Lease!Next]_(Lease!leaseVars)
  BY LeaseSimulates
<1> QED
  BY <1>1, <1>2, <1>3, <1>4, PTL DEF Spec, Lease!Spec
=============================================================================
