-------------------------------- MODULE Cron --------------------------------
(***************************************************************************)
(* The cron tools (tools/scheduling/cron_ops.cpp) over CronStore and the   *)
(* two backends. A job lives in four places:                               *)
(*   store    CronStore::jobs_, guarded by its mutex                       *)
(*   disk     <state>/crons.json, rewritten whole under the same mutex     *)
(*   meta     <users_state>/<user>/crons/<job>.json, read by the runner    *)
(*   crontab  on Linux the tagged blocks of the user's crontab, on Windows *)
(*            the tasks of the folder \mcp_bridge\<shortid>                *)
(* A tool call changes them one after the other; the schedule is rebuilt   *)
(* from a list taken before: a crontab is replaced as a whole, tasks are   *)
(* created and deleted one by one. Schedule, command, description          *)
(* and context are one payload: who supplied it and which of his it was.   *)
(***************************************************************************)
EXTENDS Naturals

CONSTANTS
    Jobs,         \* job ids, each drawn at random and used once
    Users,        \* OS users
    Threads,      \* HTTP worker threads
    Edits,        \* payload variants a client may send
    Nothing,      \* no job, no file, no line
    Platforms,    \* the builds to look at, a subset of {"linux", "windows"}
    Faults,       \* what may fail, a subset of FaultKinds
    OneAtATime,   \* TRUE: a user's cron calls do not overlap
    MaxCrashes    \* bound on daemon crashes

\* persist: crons.json cannot be written; meta, install: the command run as the
\* user, or the request to the priv service, for the metadata file or the
\* schedule reports an error. It may have done its work before it was killed
\* (each has 30 seconds). schtasks: a /Query or /Delete of schtasks.exe fails,
\* which the priv service reports as success.
FaultKinds == {"persist", "meta", "install", "schtasks"}

ASSUME CronAssumption ==
    /\ Nothing \notin Users \cup Jobs
    /\ \A u \in Users, e \in Edits : Nothing # [by |-> u, edit |-> e]
    /\ Platforms \subseteq {"linux", "windows"}
    /\ Faults \subseteq FaultKinds
    /\ OneAtATime \in BOOLEAN
    /\ MaxCrashes \in Nat

VARIABLES store, disk, meta, crontab,
          drawn,    \* job ids handed out
          pc,       \* where each worker thread is in its tool call
          call,     \* the call: tool, user, job id and payload
          before,   \* the payload cron_update replaced
          list,     \* the list_for_user result the schedule is built from
          todo,     \* tasks that a rebuild on Windows has yet to create or delete
          platform, \* what the daemon was built for
          failed,   \* history: jobs whose cron_create was answered with an error
          settled,  \* history: jobs whose latest call was carried through to the crontab
          crashes

vars == <<store, disk, meta, crontab, drawn, pc, call, before, list, todo, platform,
          failed, settled, crashes>>

Payload == [by : Users, edit : Edits]
Job == [owner : Users, payload : Payload]
Maybe(S) == S \cup {Nothing}
\* the jobs of one user as a list holds them: job id -> payload
Table == [Jobs -> Maybe(Payload)]
NoTable == [j \in Jobs |-> Nothing]
NoCall == [op |-> "none", user |-> Nothing, job |-> Nothing, payload |-> Nothing]
Call == [op : {"none", "create", "update", "delete"}, user : Maybe(Users),
         job : Maybe(Jobs), payload : Maybe(Payload)]
Pcs == {"idle", "store", "meta", "unmeta", "list", "install", "query", "tasks",
        "rollback"}

\* Types of the state.
TypeOK ==
    /\ store \in [Jobs -> Maybe(Job)] /\ disk \in [Jobs -> Maybe(Job)]
    /\ meta \in [Jobs -> Maybe(Payload)]
    /\ crontab \in [Users -> Table]
    /\ drawn \subseteq Jobs /\ failed \subseteq Jobs /\ settled \subseteq Jobs
    /\ pc \in [Threads -> Pcs]
    /\ call \in [Threads -> Call]
    /\ before \in [Threads -> Maybe(Payload)]
    /\ list \in [Threads -> Table] /\ todo \in [Threads -> SUBSET Jobs]
    /\ platform \in Platforms /\ crashes \in 0..MaxCrashes

Init ==
    /\ store = NoTable /\ disk = NoTable /\ meta = NoTable
    /\ crontab = [u \in Users |-> NoTable]
    /\ drawn = {} /\ failed = {} /\ settled = {} /\ crashes = 0
    /\ pc = [t \in Threads |-> "idle"]
    /\ call = [t \in Threads |-> NoCall]
    /\ before = [t \in Threads |-> Nothing]
    /\ list = [t \in Threads |-> NoTable]
    /\ todo = [t \in Threads |-> {}]
    /\ platform \in Platforms

-----------------------------------------------------------------------------
InProgress(u) == \E t \in Threads : pc[t] # "idle" /\ call[t].user = u

Goto(t, next) ==
    /\ pc' = [pc EXCEPT ![t] = next]
    /\ UNCHANGED <<call, before, list, todo>>
Return(t) ==
    /\ pc' = [pc EXCEPT ![t] = "idle"]
    /\ call' = [call EXCEPT ![t] = NoCall]
    /\ before' = [before EXCEPT ![t] = Nothing]
    /\ list' = [list EXCEPT ![t] = NoTable]
    /\ todo' = [todo EXCEPT ![t] = {}]
\* the exception reaches the client; cron_create's error is remembered
ReturnError(t) ==
    /\ Return(t)
    /\ failed' = IF call[t].op = "create" THEN failed \cup {call[t].job} ELSE failed

Owned(j, u) == store[j] # Nothing /\ store[j].owner = u

\* list_for_user
ListForUser(u) == [j \in Jobs |-> IF Owned(j, u) THEN store[j].payload ELSE Nothing]

\* a critical section of the store that persists a job (or none, for Nothing)
\* under its id, or rolls back and throws
Persist(j, job) ==
    /\ store' = [store EXCEPT ![j] = job]
    /\ disk' = store'
    /\ settled' = settled \ {j}
StoreUnchanged == UNCHANGED <<store, disk, settled>>
PersistThrows == "persist" \in Faults /\ StoreUnchanged

-----------------------------------------------------------------------------
(* The tools *)

Begin(t, op, u, j, p) ==
    /\ pc[t] = "idle"
    /\ OneAtATime => ~InProgress(u)
    /\ pc' = [pc EXCEPT ![t] = "store"]
    /\ call' = [call EXCEPT ![t] = [op |-> op, user |-> u, job |-> j, payload |-> p]]
    /\ UNCHANGED <<store, disk, meta, crontab, before, list, todo, platform, failed,
                   settled, crashes>>

\* cron_create: schedule and command were accepted, a job id is drawn
CronCreate(t, u, e) ==
    \E j \in Jobs \ drawn :
        /\ drawn' = drawn \cup {j}
        /\ Begin(t, "create", u, j, [by |-> u, edit |-> e])

\* cron_update, of any job id the client may name
CronUpdate(t, u, j, e) ==
    /\ j \in drawn
    /\ Begin(t, "update", u, j, [by |-> u, edit |-> e])
    /\ drawn' = drawn

\* cron_delete
CronDelete(t, u, j) ==
    /\ j \in drawn
    /\ Begin(t, "delete", u, j, Nothing)
    /\ drawn' = drawn

\* CronStore::add
Add(t) ==
    LET j == call[t].job IN
    /\ pc[t] = "store" /\ call[t].op = "create"
    /\ \/ /\ Persist(j, [owner |-> call[t].user, payload |-> call[t].payload])
          /\ Goto(t, "meta")
          /\ failed' = failed
       \/ /\ PersistThrows
          /\ ReturnError(t)
    /\ UNCHANGED <<meta, crontab, drawn, platform, crashes>>

\* (mutant) the job's owner is not compared
UpdateAny(t) ==
    LET j == call[t].job IN
    /\ pc[t] = "store" /\ call[t].op = "update"
    /\ \/ /\ store[j] # Nothing
          /\ Persist(j, [owner |-> store[j].owner, payload |-> call[t].payload])
          /\ pc' = [pc EXCEPT ![t] = "meta"]
          /\ before' = [before EXCEPT ![t] = store[j].payload]
          /\ UNCHANGED <<call, list, todo>>
          /\ failed' = failed
       \/ /\ store[j] = Nothing
          /\ StoreUnchanged
          /\ ReturnError(t)
    /\ UNCHANGED <<meta, crontab, drawn, platform, crashes>>

\* CronStore::update: unknown ids and other users' jobs are refused
Update(t) ==
    LET j == call[t].job IN
    /\ pc[t] = "store" /\ call[t].op = "update"
    /\ \/ /\ Owned(j, call[t].user)
          /\ Persist(j, [owner |-> store[j].owner, payload |-> call[t].payload])
          /\ pc' = [pc EXCEPT ![t] = "meta"]
          /\ before' = [before EXCEPT ![t] = store[j].payload]
          /\ UNCHANGED <<call, list, todo>>
          /\ failed' = failed
       \/ /\ ~Owned(j, call[t].user) /\ StoreUnchanged
          /\ ReturnError(t)
       \/ /\ Owned(j, call[t].user) /\ PersistThrows
          /\ ReturnError(t)
    /\ UNCHANGED <<meta, crontab, drawn, platform, crashes>>

\* (mutant) the entry is not put back when persisting fails
RemoveNoRollback(t) ==
    LET j == call[t].job IN
    /\ pc[t] = "store" /\ call[t].op = "delete"
    /\ Owned(j, call[t].user)
    /\ store' = [store EXCEPT ![j] = Nothing]
    /\ \/ disk' = store' /\ Goto(t, "unmeta")
       \/ "persist" \in Faults /\ disk' = disk /\ Return(t)
    /\ settled' = settled \ {j}
    /\ UNCHANGED <<meta, crontab, drawn, failed, platform, crashes>>

\* CronStore::remove
Remove(t) ==
    LET j == call[t].job IN
    /\ pc[t] = "store" /\ call[t].op = "delete"
    /\ \/ /\ Owned(j, call[t].user)
          /\ Persist(j, Nothing)
          /\ Goto(t, "unmeta")
          /\ failed' = failed
       \/ /\ ~Owned(j, call[t].user) /\ StoreUnchanged
          /\ ReturnError(t)
       \/ /\ Owned(j, call[t].user) /\ PersistThrows
          /\ ReturnError(t)
    /\ UNCHANGED <<meta, crontab, drawn, platform, crashes>>

\* what an exception of the backend leads to: cron_create rolls back
BackendThrows(t) ==
    IF call[t].op = "create"
    THEN Goto(t, "rollback") /\ failed' = failed
    ELSE ReturnError(t)

\* (mutant) the file is written from the whole store entry
WriteMetaOfEntry(t) ==
    /\ pc[t] = "meta"
    /\ meta' = [meta EXCEPT ![call[t].job] = store[call[t].job]]
    /\ Goto(t, "list")
    /\ UNCHANGED <<store, disk, crontab, drawn, failed, settled, platform, crashes>>

\* write_per_job_meta, as the job's owner
WriteMeta(t) ==
    LET written == [meta EXCEPT ![call[t].job] = call[t].payload] IN
    /\ pc[t] = "meta"
    /\ \/ /\ meta' = written
          /\ Goto(t, "list")
          /\ failed' = failed
       \/ /\ "meta" \in Faults
          /\ meta' \in {meta, written}
          /\ BackendThrows(t)
    /\ UNCHANGED <<store, disk, crontab, drawn, settled, platform, crashes>>

\* remove_per_job_meta, whose failure is only logged
RemoveMeta(t) ==
    /\ pc[t] = "unmeta"
    /\ \/ meta' = [meta EXCEPT ![call[t].job] = Nothing]
       \/ "meta" \in Faults /\ meta' = meta
    /\ Goto(t, "list")
    /\ UNCHANGED <<store, disk, crontab, drawn, failed, settled, platform, crashes>>

\* list_for_user, under the store's mutex
List(t) ==
    /\ pc[t] = "list"
    /\ pc' = [pc EXCEPT ![t] = IF platform = "linux" THEN "install" ELSE "query"]
    /\ list' = [list EXCEPT ![t] = ListForUser(call[t].user)]
    /\ UNCHANGED <<store, disk, meta, crontab, drawn, call, before, todo, failed, settled,
                   platform, crashes>>

\* (mutant) blocks of jobs that are no longer listed are kept
InstallOver(t) ==
    LET u == call[t].user IN
    /\ pc[t] = "install"
    /\ crontab' = [crontab EXCEPT ![u] =
          [j \in Jobs |-> IF list[t][j] = Nothing THEN crontab[u][j] ELSE list[t][j]]]
    /\ settled' = settled \cup {call[t].job}
    /\ Return(t)
    /\ UNCHANGED <<store, disk, meta, drawn, failed, platform, crashes>>

\* rebuild_user_schedule: every tagged block of the old crontab is dropped and
\* one per listed job written, so the list is what the new crontab holds
Install(t) ==
    LET written == [crontab EXCEPT ![call[t].user] = list[t]] IN
    /\ pc[t] = "install"
    /\ \/ /\ crontab' = written
          /\ settled' = settled \cup {call[t].job}
          /\ Return(t)
          /\ failed' = failed
       \/ /\ "install" \in Faults
          /\ crontab' \in {crontab, written}
          /\ settled' = settled
          /\ BackendThrows(t)
    /\ UNCHANGED <<store, disk, meta, drawn, platform, crashes>>

Wanted(t) == {j \in Jobs : list[t][j] # Nothing}
OnBox(u) == {j \in Jobs : crontab[u][j] # Nothing}

\* (mutant) only what is listed is looked at
QueryWanted(t) ==
    /\ pc[t] = "query"
    /\ todo' = [todo EXCEPT ![t] = Wanted(t)]
    /\ pc' = [pc EXCEPT ![t] = "tasks"]
    /\ UNCHANGED <<store, disk, meta, crontab, drawn, call, before, list, failed, settled,
                   platform, crashes>>

\* rebuild_user_schedule on Windows: cron_list_jobs tells which tasks exist; the
\* priv service takes a /Query that fails for an empty folder
Query(t) ==
    /\ pc[t] = "query"
    /\ \/ /\ \/ todo' = [todo EXCEPT ![t] = Wanted(t) \cup OnBox(call[t].user)]
             \/ "schtasks" \in Faults /\ todo' = [todo EXCEPT ![t] = Wanted(t)]
          /\ pc' = [pc EXCEPT ![t] = "tasks"]
          /\ UNCHANGED <<call, before, list, failed>>
       \/ "install" \in Faults /\ BackendThrows(t)
    /\ UNCHANGED <<store, disk, meta, crontab, drawn, settled, platform, crashes>>

\* cron_install_job, for every listed job in some order: the task is created, or
\* overwritten; an error ends the rebuild with the others as they are
CreateTask(t) ==
    \E j \in todo[t] \cap Wanted(t) :
        LET written == [crontab EXCEPT ![call[t].user][j] = list[t][j]] IN
        /\ pc[t] = "tasks"
        /\ \/ /\ crontab' = written
              /\ todo' = [todo EXCEPT ![t] = @ \ {j}]
              /\ UNCHANGED <<pc, call, before, list, failed>>
           \/ /\ "install" \in Faults
              /\ crontab' \in {crontab, written}
              /\ BackendThrows(t)
        /\ UNCHANGED <<store, disk, meta, drawn, settled, platform, crashes>>

\* cron_remove_job, for every task found that is not listed, after the last of
\* the others; a failure is only logged
DeleteTask(t) ==
    /\ pc[t] = "tasks" /\ todo[t] \cap Wanted(t) = {}
    /\ \E j \in todo[t] :
          /\ \/ crontab' = [crontab EXCEPT ![call[t].user][j] = Nothing]
             \/ "schtasks" \in Faults /\ crontab' = crontab
          /\ todo' = [todo EXCEPT ![t] = @ \ {j}]
    /\ UNCHANGED <<store, disk, meta, drawn, pc, call, before, list, failed, settled,
                   platform, crashes>>

\* the rebuild is done and the call answered
FinishTasks(t) ==
    /\ pc[t] = "tasks" /\ todo[t] = {}
    /\ settled' = settled \cup {call[t].job}
    /\ Return(t)
    /\ UNCHANGED <<store, disk, meta, crontab, drawn, failed, platform, crashes>>

\* (mutant) cron_create reports the error and keeps the entry
RollbackNothing(t) ==
    /\ pc[t] = "rollback"
    /\ ReturnError(t)
    /\ UNCHANGED <<store, disk, meta, crontab, drawn, settled, platform, crashes>>

\* cron_create's catch block: remove, errors swallowed, and rethrow. (A job whose
\* rollback fails as well stays; `failed` does not count it.)
Rollback(t) ==
    LET j == call[t].job IN
    /\ pc[t] = "rollback"
    /\ \/ Owned(j, call[t].user) /\ Persist(j, Nothing) /\ ReturnError(t)
       \/ ~Owned(j, call[t].user) /\ StoreUnchanged /\ ReturnError(t)
       \/ Owned(j, call[t].user) /\ PersistThrows /\ Return(t) /\ failed' = failed
    /\ UNCHANGED <<meta, crontab, drawn, platform, crashes>>

\* the daemon dies and is started again: load reads crons.json
CrashAndLoad ==
    /\ crashes < MaxCrashes
    /\ crashes' = crashes + 1
    /\ store' = disk
    /\ pc' = [t \in Threads |-> "idle"]
    /\ call' = [t \in Threads |-> NoCall]
    /\ before' = [t \in Threads |-> Nothing]
    /\ list' = [t \in Threads |-> NoTable]
    /\ todo' = [t \in Threads |-> {}]
    /\ UNCHANGED <<disk, meta, crontab, drawn, failed, settled, platform>>

-----------------------------------------------------------------------------
Step(t) ==
    \/ Add(t)
    \/ Update(t)
    \/ Remove(t)
    \/ WriteMeta(t)
    \/ RemoveMeta(t)
    \/ List(t)
    \/ Install(t)
    \/ Query(t)
    \/ CreateTask(t)
    \/ DeleteTask(t)
    \/ FinishTasks(t)
    \/ Rollback(t)

Next ==
    \/ \E t \in Threads, u \in Users, e \in Edits : CronCreate(t, u, e)
    \/ \E t \in Threads, u \in Users, j \in Jobs, e \in Edits : CronUpdate(t, u, j, e)
    \/ \E t \in Threads, u \in Users, j \in Jobs : CronDelete(t, u, j)
    \/ \E t \in Threads : Step(t)
    \/ CrashAndLoad

Spec == Init /\ [][Next]_vars

-----------------------------------------------------------------------------
(* Properties *)

\* The store's rollbacks work: whatever fails, jobs_ and crons.json never
\* disagree, so a restart changes nothing a client was told.
StoreDurable == store = disk

\* Only its owner decides what a job runs, in the store and in every line or
\* task of a schedule.
OnlyOwnerDecides ==
    /\ \A j \in Jobs : store[j] # Nothing => store[j].payload.by = store[j].owner
    /\ \A u \in Users, j \in Jobs : crontab[u][j] # Nothing => crontab[u][j].by = u

\* When a call on a job has succeeded, the crontabs and its metadata say what
\* the store says of it, and no later call on other jobs, successful or failing
\* at any step, undoes that (while a user's calls do not overlap).
SettledIsScheduled ==
    \A j \in settled :
        /\ \A u \in Users : crontab[u][j] = ListForUser(u)[j]
        /\ store[j] # Nothing => meta[j] = store[j].payload

\* A call that succeeds leaves the user's whole schedule as the store has it: what
\* failed calls, and crashes in the middle of a rebuild, left behind is gone, also
\* where tasks are created and deleted one by one (while a user's calls do not
\* overlap).
RebuildExact ==
    [][\A t \in Threads :
          (pc[t] \in {"install", "tasks"} /\ call[t].job \in settled' \ settled) =>
              crontab'[call[t].user] = ListForUser(call[t].user)]_vars

\* A job whose cron_create was answered with an error is not stored, and no
\* crontab written from then on will hold it, whichever step of it failed
\* (while a user's calls do not overlap).
FailedCreateLeavesNothing ==
    \A j \in failed : store[j] = Nothing /\ \A t \in Threads : list[t][j] = Nothing

\* "The caller (cron_ops.cpp) is responsible for rolling back the in-memory
\* CronStore entry if a backend call fails partway through": a cron_update that
\* ends without its install leaves the job as it was before.
FailedUpdateUndone ==
    [][\A t \in Threads :
          (/\ call[t].op = "update" /\ pc[t] \in {"meta", "install", "query", "tasks"}
           /\ pc'[t] = "idle" /\ call[t].job \notin settled' /\ crashes' = crashes)
          => store'[call[t].job].payload = before[t]]_vars
=============================================================================
