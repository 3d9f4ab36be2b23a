------------------------------- MODULE Grants -------------------------------
(***************************************************************************)
(* GrantManager (core/grants.cpp): time-limited sudoers drop-ins.          *)
(*                                                                         *)
(* A grant lives in three places that no transaction ties together:        *)
(*   mem      grants_, the map guarded by mutex_                           *)
(*   disk     <state>/grants.json, rewritten whole by persist_state_locked *)
(*   sudoers  /etc/sudoers.d/mcp_grant_<id>, written and removed only by   *)
(*            the setuid helper, a separate process the daemon waits for   *)
(* request_grant runs on an HTTP thread of its own (named here by the grant*)
(* id it drew), revoke_grant on HTTP threads (Admins) and on the sweeper.  *)
(* One step is what runs between two points where another actor can get in:*)
(* a critical section of mutex_, or one system call that changes a file.   *)
(***************************************************************************)
EXTENDS Naturals, FiniteSets

CONSTANTS
    Ids,            \* grant ids; each is drawn at random and used once
    Admins,         \* HTTP threads that serve grant_revoke
    Sweeper,        \* the sweeper thread
    NoId,           \* the id field of an idle thread
    TtlInputs,      \* the ttl_seconds values a client may send
    MaxTtl,         \* 86400 in the code
    MaxTime,        \* bound on the clock
    MaxCrashes,     \* bound on daemon crashes
    HelperFaults,   \* what the helper may do wrong (see HelperFaultKinds)
    PersistFaults,  \* how atomic_write may fail (see PersistFaultKinds)
    TimelyInstall,  \* TRUE: no grant expires while it is being installed
    DirReadable     \* TRUE: the daemon's user may list /etc/sudoers.d

\* refuse: install-grant exits non-zero before its rename; killed: the helper
\* dies of a signal, rc = -1; revoke: revoke-grant exits 11 or is not spawned.
HelperFaultKinds == {"refuse", "killed", "revoke"}
\* write: the temporary of grants.json cannot be written; rename: both renames
\* fail after the old grants.json was removed; spec: the .spec file cannot be
\* written or the helper cannot be spawned.
PersistFaultKinds == {"write", "rename", "spec"}

ASSUME GrantsAssumption ==
    /\ NoId \notin Ids
    /\ Sweeper \notin Admins
    /\ TtlInputs \subseteq Nat
    /\ MaxTtl \in Nat /\ MaxTime \in Nat /\ MaxCrashes \in Nat
    /\ HelperFaults \subseteq HelperFaultKinds
    /\ PersistFaults \subseteq PersistFaultKinds
    /\ TimelyInstall \in BOOLEAN /\ DirReadable \in BOOLEAN

VARIABLES
    now,        \* system_clock, in seconds
    up,         \* the daemon: down, reconcile (Server::start) or up (listening)
    mem, disk, sudoers,
    specs,      \* <state>/grant_<id>.spec files
    staged,     \* /etc/sudoers.d/.mcp_grant_<id>.tmp files (sudo ignores them)
    exp,        \* Grant::expires_at
    req,        \* progress of the request_grant call that drew the id
    hlp,        \* progress of its install-grant helper process
    rv,         \* the threads inside revoke_grant, and the id they revoke
    toRevoke,   \* sweep_expired's to_revoke
    todo,       \* reconcile_at_startup's to_remove_from_disk
    crashes,
    asked,      \* history: ids an admin asked to revoke
    revoked     \* history: ids for which revoke_grant returned normally

vars == <<now, up, mem, disk, sudoers, specs, staged, exp, req, hlp, rv,
          toRevoke, todo, crashes, asked, revoked>>

Threads == Admins \cup {Sweeper}
Idle == [pc |-> "idle", id |-> NoId]
InFlightStates == {"rendered", "persisted", "waiting"}
FinishedStates == {"issued", "failed", "lost"}
InFlight(id) == req[id] \in InFlightStates
Finished(id) == req[id] \in FinishedStates
Installing(id) == InFlight(id) \/ hlp[id] \in {"started", "staged"}

\* Types of the state; exp[id] is bounded because request_grant bounds the ttl.
TypeOK ==
    /\ now \in 0..MaxTime
    /\ up \in {"down", "reconcile", "up"}
    /\ mem \subseteq Ids /\ disk \subseteq Ids /\ sudoers \subseteq Ids
    /\ specs \subseteq Ids /\ staged \subseteq Ids
    /\ exp \in [Ids -> 0..(MaxTime + MaxTtl)]
    /\ req \in [Ids -> {"none"} \cup InFlightStates \cup FinishedStates]
    /\ hlp \in [Ids -> {"none", "started", "staged", "exitOk", "exitErr"}]
    /\ rv \in [Threads -> [pc : {"idle", "helper", "erase"}, id : Ids \cup {NoId}]]
    /\ \A t \in Threads : rv[t].pc # "idle" => rv[t].id \in Ids
    /\ toRevoke \subseteq Ids /\ todo \subseteq Ids
    /\ crashes \in 0..MaxCrashes
    /\ asked \subseteq Ids /\ revoked \subseteq Ids

Init ==
    /\ now = 0 /\ up = "down" /\ crashes = 0
    /\ mem = {} /\ disk = {} /\ sudoers = {} /\ specs = {} /\ staged = {}
    /\ exp = [id \in Ids |-> 0]
    /\ req = [id \in Ids |-> "none"]
    /\ hlp = [id \in Ids |-> "none"]
    /\ rv = [t \in Threads |-> Idle]
    /\ toRevoke = {} /\ todo = {} /\ asked = {} /\ revoked = {}

-----------------------------------------------------------------------------
(* Shared by the operations *)

\* (mutant) one second early
ExpiredEarly(id) == exp[id] <= now + 1

\* expires_at <= now_seconds(), the test of the sweeper and of the reconciler
Expired(id) == exp[id] <= now

\* on_disk_grants: opendir failing yields the empty list, not an error
OnDisk == IF DirReadable THEN sudoers ELSE {}

\* atomic_write throws: open/write failed, or both renames failed
PersistFails ==
    \/ "write" \in PersistFaults /\ disk' = disk
    \/ "rename" \in PersistFaults /\ disk' = {}

\* persist_state_locked whose exception the caller swallows
PersistBestEffort(grants) == disk' = grants \/ PersistFails

-----------------------------------------------------------------------------
(* request_grant *)

\* (mutant) the ttl is not checked
RequestUnchecked(id, ttl) ==
    /\ up = "up" /\ req[id] = "none"
    /\ exp' = [exp EXCEPT ![id] = now + ttl]
    /\ req' = [req EXCEPT ![id] = "rendered"]
    /\ UNCHANGED <<now, up, mem, disk, sudoers, specs, staged, hlp, rv,
                   toRevoke, todo, crashes, asked, revoked>>

\* ttl check, make_grantid, expires_at, rendering and the shape check. (A
\* rejected ttl, template or argument throws before any state changes.)
Request(id, ttl) ==
    /\ up = "up" /\ req[id] = "none"
    /\ ttl >= 1 /\ ttl <= MaxTtl
    /\ exp' = [exp EXCEPT ![id] = now + ttl]
    /\ req' = [req EXCEPT ![id] = "rendered"]
    /\ UNCHANGED <<now, up, mem, disk, sudoers, specs, staged, hlp, rv,
                   toRevoke, todo, crashes, asked, revoked>>

\* (mutant) record the grant in memory only
RequestPersistAfter(id) ==
    /\ req[id] = "rendered"
    /\ mem' = mem \cup {id}
    /\ req' = [req EXCEPT ![id] = "persisted"]
    /\ UNCHANGED <<now, up, disk, sudoers, specs, staged, exp, hlp, rv,
                   toRevoke, todo, crashes, asked, revoked>>

\* the first critical section: record the grant, or undo and rethrow
RequestPersist(id) ==
    /\ req[id] = "rendered"
    /\ \/ /\ mem' = mem \cup {id}
          /\ disk' = mem'
          /\ req' = [req EXCEPT ![id] = "persisted"]
       \/ /\ PersistFails
          /\ mem' = mem
          /\ req' = [req EXCEPT ![id] = "failed"]
    /\ UNCHANGED <<now, up, sudoers, specs, staged, exp, hlp, rv,
                   toRevoke, todo, crashes, asked, revoked>>

\* install_grant_via_helper up to the wait: write the .spec, spawn the helper
SpawnInstall(id) ==
    /\ req[id] = "persisted"
    /\ req' = [req EXCEPT ![id] = "waiting"]
    /\ \/ /\ specs' = specs \cup {id}
          /\ hlp' = [hlp EXCEPT ![id] = "started"]
       \/ /\ "spec" \in PersistFaults
          /\ specs' \in {specs, specs \cup {id}}
          /\ hlp' = [hlp EXCEPT ![id] = "exitErr"]
    /\ UNCHANGED <<now, up, mem, disk, sudoers, staged, exp, rv,
                   toRevoke, todo, crashes, asked, revoked>>

\* rc = 0: the spec is unlinked and the client gets the grant id
RequestFinish(id) ==
    /\ req[id] = "waiting" /\ hlp[id] = "exitOk"
    /\ specs' = specs \ {id}
    /\ req' = [req EXCEPT ![id] = "issued"]
    /\ hlp' = [hlp EXCEPT ![id] = "none"]
    /\ UNCHANGED <<now, up, mem, disk, sudoers, staged, exp, rv,
                   toRevoke, todo, crashes, asked, revoked>>

\* rc # 0: the second critical section forgets the grant; the spec stays
RequestFail(id) ==
    /\ req[id] = "waiting" /\ hlp[id] = "exitErr"
    /\ mem' = mem \ {id}
    /\ PersistBestEffort(mem')
    /\ req' = [req EXCEPT ![id] = "failed"]
    /\ hlp' = [hlp EXCEPT ![id] = "none"]
    /\ UNCHANGED <<now, up, sudoers, specs, staged, exp, rv,
                   toRevoke, todo, crashes, asked, revoked>>

-----------------------------------------------------------------------------
(* The install-grant helper process (priv/main.c). It outlives a crash of  *)
(* the daemon until systemd clears the unit's control group.               *)

\* read and check the spec, refuse an existing target, write the .tmp file
HelperStage(id) ==
    /\ hlp[id] = "started" /\ id \in specs /\ id \notin sudoers
    /\ staged' = staged \cup {id}
    /\ hlp' = [hlp EXCEPT ![id] = "staged"]
    /\ UNCHANGED <<now, up, mem, disk, sudoers, specs, exp, req, rv,
                   toRevoke, todo, crashes, asked, revoked>>

\* visudo -cf accepts and the .tmp file is renamed into place; a helper killed
\* between its rename and its exit reports -1 for a drop-in that is live
HelperInstall(id) ==
    /\ hlp[id] = "staged"
    /\ staged' = staged \ {id}
    /\ sudoers' = sudoers \cup {id}
    /\ \/ hlp' = [hlp EXCEPT ![id] = "exitOk"]
       \/ /\ "killed" \in HelperFaults
          /\ hlp' = [hlp EXCEPT ![id] = "exitErr"]
    /\ UNCHANGED <<now, up, mem, disk, specs, exp, req, rv,
                   toRevoke, todo, crashes, asked, revoked>>

\* every error exit of cmd_install_grant: the .tmp file is unlinked
HelperRefuse(id) ==
    /\ "refuse" \in HelperFaults
    /\ hlp[id] \in {"started", "staged"}
    /\ staged' = staged \ {id}
    /\ hlp' = [hlp EXCEPT ![id] = "exitErr"]
    /\ UNCHANGED <<now, up, mem, disk, sudoers, specs, exp, req, rv,
                   toRevoke, todo, crashes, asked, revoked>>

\* a signal ends the helper before its rename: the .tmp file stays
HelperKilled(id) ==
    /\ "killed" \in HelperFaults
    /\ hlp[id] \in {"started", "staged"}
    /\ hlp' = [hlp EXCEPT ![id] = "exitErr"]
    /\ UNCHANGED <<now, up, mem, disk, sudoers, specs, staged, exp, req, rv,
                   toRevoke, todo, crashes, asked, revoked>>

-----------------------------------------------------------------------------
(* revoke_grant and the sweeper *)

\* the grant_revoke tool. Clients know an id once its request has ended (from
\* the reply, or after a crash from grants.json).
GrantRevoke(t, id) ==
    /\ up = "up" /\ rv[t] = Idle /\ Finished(id)
    /\ rv' = [rv EXCEPT ![t] = [pc |-> "helper", id |-> id]]
    /\ asked' = asked \cup {id}
    /\ UNCHANGED <<now, up, mem, disk, sudoers, specs, staged, exp, req, hlp,
                   toRevoke, todo, crashes, revoked>>

\* (mutant) forget the grant without removing the drop-in
RevokeHelperLate(t) ==
    /\ rv[t].pc = "helper"
    /\ sudoers' = sudoers
    /\ rv' = [rv EXCEPT ![t] = [pc |-> "erase", id |-> rv[t].id]]
    /\ UNCHANGED <<now, up, mem, disk, specs, staged, exp, req, hlp,
                   toRevoke, todo, crashes, asked, revoked>>

\* revoke_grant_via_helper: unlink, a missing file counts as success. The
\* caller's test on the exit code is vacuous (rc != 0 && rc != 0).
RevokeHelper(t) ==
    /\ rv[t].pc = "helper"
    /\ \/ sudoers' = sudoers \ {rv[t].id}
       \/ "revoke" \in HelperFaults /\ sudoers' = sudoers
    /\ rv' = [rv EXCEPT ![t] = [pc |-> "erase", id |-> rv[t].id]]
    /\ UNCHANGED <<now, up, mem, disk, specs, staged, exp, req, hlp,
                   toRevoke, todo, crashes, asked, revoked>>

\* the critical section: erase, persist if it was there (may throw), return
RevokeErase(t) ==
    LET id == rv[t].id IN
    /\ rv[t].pc = "erase"
    /\ mem' = mem \ {id}
    /\ \/ /\ disk' = IF id \in mem THEN mem' ELSE disk
          /\ revoked' = revoked \cup {id}
       \/ /\ id \in mem /\ PersistFails
          /\ revoked' = revoked
    /\ rv' = [rv EXCEPT ![t] = Idle]
    /\ UNCHANGED <<now, up, sudoers, specs, staged, exp, req, hlp,
                   toRevoke, todo, crashes, asked>>

\* sweep_expired's critical section: snapshot the expired ids
SweepCollect ==
    /\ up = "up" /\ rv[Sweeper] = Idle /\ toRevoke = {}
    /\ toRevoke' = {id \in mem : Expired(id)}
    /\ UNCHANGED <<now, up, mem, disk, sudoers, specs, staged, exp, req, hlp,
                   rv, todo, crashes, asked, revoked>>

\* its loop: call revoke_grant on the next one (map order is unspecified)
SweepNext ==
    /\ rv[Sweeper] = Idle
    /\ \E id \in toRevoke :
        /\ rv' = [rv EXCEPT ![Sweeper] = [pc |-> "helper", id |-> id]]
        /\ toRevoke' = toRevoke \ {id}
    /\ UNCHANGED <<now, up, mem, disk, sudoers, specs, staged, exp, req, hlp,
                   todo, crashes, asked, revoked>>

-----------------------------------------------------------------------------
(* Crash, restart and reconcile_at_startup *)

\* the process dies (also on SIGTERM: it installs no handler); files stay
Crash ==
    /\ up # "down" /\ crashes < MaxCrashes
    /\ crashes' = crashes + 1
    /\ up' = "down"
    /\ mem' = {} /\ toRevoke' = {} /\ todo' = {}
    /\ req' = [id \in Ids |-> IF InFlight(id) THEN "lost" ELSE req[id]]
    /\ rv' = [t \in Threads |-> Idle]
    /\ UNCHANGED <<now, disk, sudoers, specs, staged, exp, hlp, asked, revoked>>

\* (mutant) an entry is kept without looking for its drop-in
KeptUnseen == {id \in disk : ~Expired(id)}

\* the entries load_state_locked read that the reconciler keeps
Kept == {id \in disk : ~Expired(id) /\ id \in OnDisk}

\* (mutant) only what grants.json names is considered
OrphansNamed == (OnDisk \cap disk) \ Kept

\* to_remove_from_disk: expired entries, and drop-ins with no entry at all
Orphans == OnDisk \ Kept

\* systemd kills what is left of the unit and starts it again; the constructor
\* loads grants.json and reconcile_at_startup's critical section runs, before
\* any other thread exists
Start ==
    /\ up = "down"
    /\ up' = "reconcile"
    /\ hlp' = [id \in Ids |-> "none"]
    /\ mem' = Kept
    /\ todo' = Orphans
    /\ PersistBestEffort(Kept)
    /\ UNCHANGED <<now, sudoers, specs, staged, exp, req, rv, toRevoke,
                   crashes, asked, revoked>>

\* reconcile's loop: revoke-grant on each, exit code ignored
ReconcileRemove(id) ==
    /\ id \in todo
    /\ todo' = todo \ {id}
    /\ \/ sudoers' = sudoers \ {id}
       \/ "revoke" \in HelperFaults /\ sudoers' = sudoers
    /\ UNCHANGED <<now, up, mem, disk, specs, staged, exp, req, hlp, rv,
                   toRevoke, crashes, asked, revoked>>

\* start_sweeper, then the listening socket
Serve ==
    /\ up = "reconcile" /\ todo = {}
    /\ up' = "up"
    /\ UNCHANGED <<now, mem, disk, sudoers, specs, staged, exp, req, hlp, rv,
                   toRevoke, todo, crashes, asked, revoked>>

\* one second passes
Tick ==
    /\ now < MaxTime
    /\ TimelyInstall => \A id \in Ids : Installing(id) => now + 1 < exp[id]
    /\ now' = now + 1
    /\ UNCHANGED <<up, mem, disk, sudoers, specs, staged, exp, req, hlp, rv,
                   toRevoke, todo, crashes, asked, revoked>>

-----------------------------------------------------------------------------
RequestStep(id) ==
    \/ RequestPersist(id)
    \/ SpawnInstall(id)
    \/ RequestFinish(id)
    \/ RequestFail(id)

HelperStep(id) ==
    \/ HelperStage(id)
    \/ HelperInstall(id)
    \/ HelperRefuse(id)
    \/ HelperKilled(id)

RevokeStep(t) ==
    \/ RevokeHelper(t)
    \/ RevokeErase(t)

Next ==
    \/ \E id \in Ids, ttl \in TtlInputs : Request(id, ttl)
    \/ \E id \in Ids : RequestStep(id) \/ HelperStep(id) \/ ReconcileRemove(id)
    \/ \E t \in Admins, id \in Ids : GrantRevoke(t, id)
    \/ \E t \in Threads : RevokeStep(t)
    \/ SweepCollect
    \/ SweepNext
    \/ Crash
    \/ Start
    \/ Serve
    \/ Tick

\* Threads and helpers that can run do run; the sweeper wakes up every
\* sweep_interval; systemd restarts the unit (Restart=on-failure). Clients,
\* crashes and the clock owe nothing.
Fairness ==
    /\ \A id \in Ids : /\ WF_vars(RequestStep(id))
                       /\ WF_vars(HelperStep(id))
                       /\ WF_vars(ReconcileRemove(id))
    /\ \A t \in Threads : WF_vars(RevokeStep(t))
    /\ WF_vars(SweepCollect)
    /\ WF_vars(SweepNext)
    /\ WF_vars(Start)
    /\ WF_vars(Serve)

Spec == Init /\ [][Next]_vars
FairSpec == Spec /\ Fairness

-----------------------------------------------------------------------------
(* Properties *)

\* While the daemon serves, every drop-in it installed is one it will sweep:
\* no live sudoers file is missing from grants_. Holds when the helper's exit
\* code tells the truth and no grant expires during its own installation.
NoUntrackedDropIn == up = "up" => sudoers \subseteq mem

\* grants_ is never ahead of grants.json, whatever the helper does: a crash at
\* any point loses no grant that request_grant has recorded.
MemOnDisk == mem \subseteq disk

\* Once revoke_grant has returned ({"revoked": true}), the drop-in is gone and
\* stays gone, across crashes and restarts.
RevokedMeansRemoved == revoked \cap sudoers = {}

\* A drop-in only disappears before its expiry when an admin asked for it or
\* when its request was answered with an error, whatever crashes in between.
NoEarlyRemoval ==
    [][\A id \in sudoers \ sudoers' :
          exp[id] <= now \/ id \in asked \/ req[id] = "failed"]_vars

\* When reconcile_at_startup ends, the drop-ins on disk are exactly the grants
\* the daemon tracks, whatever the crashed daemon and its helpers left behind.
ReconcileExact ==
    [][up = "reconcile" /\ up' = "up" => mem = sudoers]_vars

\* Every drop-in past its expires_at is removed eventually ("A sweeper thread
\* revokes expired grants").
ExpiredRemoved ==
    \A id \in Ids : (id \in sudoers /\ exp[id] <= now) ~> (id \notin sudoers)

\* The refinement mapping to GrantLease: a drop-in that may still appear is
\* "none", one that is gone for good is "ended".
MayAppear(id) ==
    \/ req[id] \in {"none", "rendered", "persisted"}
    \/ hlp[id] \in {"started", "staged"}
LeaseOf(id) ==
    IF id \in sudoers THEN "live" ELSE IF MayAppear(id) THEN "none" ELSE "ended"
Lease == INSTANCE GrantLease WITH
    clock <- now,
    lease <- [id \in Ids |-> LeaseOf(id)],
    deadline <- [id \in Ids |-> IF id \in sudoers THEN exp[id] ELSE 0],
    MaxDeadline <- MaxTime + MaxTtl

\* GrantManager implements the lease: each drop-in appears at most once, before
\* its deadline, ends no earlier than that unless an admin asked, and does end.
LeaseSpec == Lease!FairSpec
=============================================================================
