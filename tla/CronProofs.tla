----------------------------- MODULE CronProofs -----------------------------
(***************************************************************************)
(* Theorems about Cron for every set of jobs, users, threads and payloads. *)
(* Some hold with every fault and with a user's calls overlapping in any   *)
(* way; the others assume OneAtATime or a truthful schtasks.exe.           *)
(***************************************************************************)
EXTENDS CronWindows, TLAPS

-----------------------------------------------------------------------------
(* jobs_ and crons.json agree *)

\* Every critical section of CronStore leaves memory and file equal, also when
\* the write fails, and a restart loads exactly what was in memory.
THEOREM Durable == Spec => []StoreDurable
<1>1. Init => StoreDurable
  BY DEF Init, StoreDurable
<1>2. StoreDurable /\ [Next]_vars => StoreDurable'
  <2> SUFFICES ASSUME StoreDurable, [Next]_vars PROVE StoreDurable'
    OBVIOUS
  <2> USE DEF StoreDurable
  <2>1. ASSUME NEW j, NEW job, Persist(j, job) PROVE StoreDurable'
    BY <2>1 DEF Persist
  <2>2. ASSUME UNCHANGED <<store, disk>> PROVE StoreDurable'
    BY <2>2
  <2>3. ASSUME NEW t \in Threads, Add(t) PROVE StoreDurable'
    BY <2>1, <2>2, <2>3 DEF Add, PersistThrows, StoreUnchanged
  <2>4. ASSUME NEW t \in Threads, Update(t) PROVE StoreDurable'
    BY <2>1, <2>2, <2>4 DEF Update, PersistThrows, StoreUnchanged
  <2>5. ASSUME NEW t \in Threads, Remove(t) PROVE StoreDurable'
    BY <2>1, <2>2, <2>5 DEF Remove, PersistThrows, StoreUnchanged
  <2>6. ASSUME NEW t \in Threads, Rollback(t) PROVE StoreDurable'
    BY <2>1, <2>2, <2>6 DEF Rollback, PersistThrows, StoreUnchanged
  <2>7. ASSUME NEW t \in Threads, WriteMeta(t) \/ RemoveMeta(t) \/ List(t) \/ Install(t)
        PROVE  StoreDurable'
    BY <2>2, <2>7 DEF WriteMeta, RemoveMeta, List, Install
  <2>7a. ASSUME NEW t \in Threads, Query(t) \/ CreateTask(t) \/ DeleteTask(t) \/ FinishTasks(t)
        PROVE  StoreDurable'
    BY <2>2, <2>7a DEF Query, CreateTask, DeleteTask, FinishTasks
  <2>8. ASSUME NEW t \in Threads, NEW u \in Users, NEW e \in Edits, CronCreate(t, u, e)
        PROVE  StoreDurable'
    BY <2>2, <2>8 DEF CronCreate, Begin
  <2>9. ASSUME NEW t \in Threads, NEW u \in Users, NEW j \in Jobs, NEW e \in Edits,
               CronUpdate(t, u, j, e)
        PROVE  StoreDurable'
    BY <2>2, <2>9 DEF CronUpdate, Begin
  <2>10. ASSUME NEW t \in Threads, NEW u \in Users, NEW j \in Jobs, CronDelete(t, u, j)
         PROVE  StoreDurable'
    BY <2>2, <2>10 DEF CronDelete, Begin
  <2>11. CASE CrashAndLoad
    BY <2>11 DEF CrashAndLoad
  <2>12. CASE UNCHANGED vars
    BY <2>2, <2>12 DEF vars
  <2> QED
    BY <2>3, <2>4, <2>5, <2>6, <2>7, <2>7a, <2>8, <2>9, <2>10, <2>11, <2>12 DEF Next, Step
<1> QED
  BY <1>1, <1>2, PTL DEF Spec

-----------------------------------------------------------------------------
(* Only the owner of a job decides what it runs. The crontab is written     *)
(* from a list taken earlier, so the invariant speaks of the lists in the   *)
(* threads' hands as well.                                                  *)

\* Every stored job runs what its owner sent.
OwnStore ==
    /\ store \in [Jobs -> Maybe(Job)]
    /\ \A j \in Jobs : store[j] # Nothing => store[j].payload.by = store[j].owner

\* Every line of a crontab runs what that user sent.
OwnCrontab ==
    /\ crontab \in [Users -> Table]
    /\ \A u \in Users, j \in Jobs : crontab[u][j] # Nothing => crontab[u][j].by = u

\* A call in progress carries a payload and a list of its own user's; a thread
\* that serves no call holds no list.
OwnCall(t) ==
    /\ call[t].user \in Users /\ call[t].job \in Jobs
    /\ call[t].op \in {"create", "update"} =>
          call[t].payload \in Payload /\ call[t].payload.by = call[t].user
    /\ \A j \in Jobs : list[t][j] # Nothing => list[t][j].by = call[t].user

OwnCalls ==
    /\ pc \in [Threads -> Pcs] /\ call \in [Threads -> Call] /\ list \in [Threads -> Table]
    /\ \A t \in Threads : IF pc[t] = "idle" THEN list[t] = NoTable ELSE OwnCall(t)

OwnerInv == StoreDurable /\ OwnStore /\ OwnCrontab /\ OwnCalls

\* The empty values belong to the types.
LEMMA EmptyTyped ==
  /\ NoTable \in Table /\ NoCall \in Call
  /\ \A S : Nothing \in Maybe(S) /\ S \subseteq Maybe(S)
BY DEF NoTable, Table, NoCall, Call, Maybe

\* A call that returns, or goes on to its next step, keeps OwnCalls.
LEMMA ReturnKeeps == ASSUME NEW t \in Threads, OwnCalls, Return(t) PROVE OwnCalls'
<1>1. pc' \in [Threads -> Pcs] /\ call' \in [Threads -> Call] /\ list' \in [Threads -> Table]
  BY EmptyTyped DEF OwnCalls, Return, Pcs
<1>2. ASSUME NEW s \in Threads
      PROVE  IF pc'[s] = "idle" THEN list'[s] = NoTable ELSE OwnCall(s)'
  BY DEF OwnCalls, OwnCall, Return
<1> QED
  BY <1>1, <1>2 DEF OwnCalls

\* Going on to another step of a call keeps OwnCalls.
LEMMA GotoKeeps ==
  ASSUME NEW t \in Threads, NEW next \in Pcs \ {"idle"}, pc[t] # "idle",
         OwnCalls, Goto(t, next)
  PROVE  OwnCalls'
<1>1. pc' \in [Threads -> Pcs] /\ call' = call /\ list' = list
  BY DEF OwnCalls, Goto
<1>2. ASSUME NEW s \in Threads
      PROVE  IF pc'[s] = "idle" THEN list'[s] = NoTable ELSE OwnCall(s)'
  BY <1>1 DEF OwnCalls, OwnCall, Goto
<1> QED
  BY <1>1, <1>2 DEF OwnCalls

\* A call that begins carries its user's own payload.
LEMMA BeginKeeps ==
  ASSUME NEW t \in Threads, NEW op \in {"create", "update", "delete"}, NEW u \in Users,
         NEW j \in Jobs, NEW p \in Maybe(Payload),
         op \in {"create", "update"} => p \in Payload /\ p.by = u,
         OwnCalls, Begin(t, op, u, j, p)
  PROVE  OwnCalls'
<1>1. [op |-> op, user |-> u, job |-> j, payload |-> p] \in Call
  BY DEF Call, Maybe
<1>2. pc' \in [Threads -> Pcs] /\ call' \in [Threads -> Call] /\ list' = list
  BY <1>1 DEF OwnCalls, Begin, Pcs
<1>3. ASSUME NEW s \in Threads
      PROVE  IF pc'[s] = "idle" THEN list'[s] = NoTable ELSE OwnCall(s)'
  BY <1>2 DEF OwnCalls, OwnCall, Begin, NoTable
<1> QED
  BY <1>2, <1>3 DEF OwnCalls

\* Storing a job of the caller's, or removing one, keeps OwnStore.
LEMMA StoreKeeps ==
  ASSUME NEW j \in Jobs, NEW u \in Users, NEW p \in Payload, OwnStore, p.by = u,
         store' = [store EXCEPT ![j] = [owner |-> u, payload |-> p]]
  PROVE  OwnStore'
<1>1. [owner |-> u, payload |-> p] \in Maybe(Job)
  BY EmptyTyped DEF Job
<1>2. store' \in [Jobs -> Maybe(Job)]
  BY <1>1 DEF OwnStore
<1>3. ASSUME NEW i \in Jobs, store'[i] # Nothing
      PROVE  store'[i].payload.by = store'[i].owner
  BY <1>3 DEF OwnStore
<1> QED
  BY <1>2, <1>3 DEF OwnStore

\* Removing a job keeps OwnStore.
LEMMA RemovalKeeps ==
  ASSUME NEW j \in Jobs, OwnStore, store' = [store EXCEPT ![j] = Nothing]
  PROVE  OwnStore'
BY EmptyTyped DEF OwnStore

\* Writing one task of the user's own, or deleting one, keeps OwnCrontab.
LEMMA TaskKeeps ==
  ASSUME NEW u \in Users, NEW j \in Jobs, NEW p \in Maybe(Payload), OwnCrontab,
         p # Nothing => p.by = u,
         crontab' = [crontab EXCEPT ![u][j] = p]
  PROVE  OwnCrontab'
<1>1. crontab[u] \in Table
  BY DEF OwnCrontab
<1>2. [crontab[u] EXCEPT ![j] = p] \in Table
  BY <1>1 DEF Table
<1>3. crontab' = [crontab EXCEPT ![u] = [crontab[u] EXCEPT ![j] = p]]
  OBVIOUS
<1>4. crontab' \in [Users -> Table]
  BY <1>2, <1>3 DEF OwnCrontab
<1>5. ASSUME NEW v \in Users, NEW i \in Jobs, crontab'[v][i] # Nothing
      PROVE  crontab'[v][i].by = v
  BY <1>1, <1>3, <1>5 DEF OwnCrontab, Table
<1> QED
  BY <1>4, <1>5 DEF OwnCrontab

\* Every step of every tool call, and a crash, preserves OwnerInv.
LEMMA OwnerStep ==
  ASSUME OwnerInv, StoreDurable', [Next]_vars
  PROVE  OwnerInv'
<1> USE CronAssumption
<1>a. StoreDurable /\ OwnStore /\ OwnCrontab /\ OwnCalls
  BY DEF OwnerInv
<1>b. ASSUME store' = store PROVE OwnStore'
  BY <1>a, <1>b DEF OwnStore
<1>c. ASSUME crontab' = crontab PROVE OwnCrontab'
  BY <1>a, <1>c DEF OwnCrontab
<1>d. ASSUME NEW t \in Threads, pc[t] # "idle" PROVE OwnCall(t)
  BY <1>a, <1>d DEF OwnCalls
<1>e. ASSUME NEW t \in Threads, ReturnError(t) PROVE OwnCalls'
  BY <1>a, <1>e, ReturnKeeps DEF ReturnError
<1>f. ASSUME NEW t \in Threads, pc[t] # "idle", BackendThrows(t) PROVE OwnCalls'
  BY <1>a, <1>e, <1>f, GotoKeeps DEF BackendThrows, Pcs
<1>1. ASSUME NEW t \in Threads, NEW u \in Users, NEW e \in Edits, CronCreate(t, u, e)
      PROVE  OwnerInv'
  <2>1. PICK j \in Jobs : Begin(t, "create", u, j, [by |-> u, edit |-> e])
    BY <1>1 DEF CronCreate
  <2>2. [by |-> u, edit |-> e] \in Payload /\ [by |-> u, edit |-> e] \in Maybe(Payload)
    BY EmptyTyped DEF Payload
  <2>3. OwnCalls'
    BY <1>a, <2>1, <2>2, BeginKeeps
  <2> QED
    BY <1>b, <1>c, <2>1, <2>3 DEF OwnerInv, Begin
<1>2. ASSUME NEW t \in Threads, NEW u \in Users, NEW j \in Jobs, NEW e \in Edits,
             CronUpdate(t, u, j, e)
      PROVE  OwnerInv'
  <2>1. Begin(t, "update", u, j, [by |-> u, edit |-> e])
    BY <1>2 DEF CronUpdate
  <2>2. [by |-> u, edit |-> e] \in Payload /\ [by |-> u, edit |-> e] \in Maybe(Payload)
    BY EmptyTyped DEF Payload
  <2>3. OwnCalls'
    BY <1>a, <2>1, <2>2, BeginKeeps
  <2> QED
    BY <1>b, <1>c, <2>1, <2>3 DEF OwnerInv, Begin
<1>3. ASSUME NEW t \in Threads, NEW u \in Users, NEW j \in Jobs, CronDelete(t, u, j)
      PROVE  OwnerInv'
  <2>1. Begin(t, "delete", u, j, Nothing)
    BY <1>3 DEF CronDelete
  <2>2. OwnCalls'
    BY <1>a, <2>1, EmptyTyped, BeginKeeps
  <2> QED
    BY <1>b, <1>c, <2>1, <2>2 DEF OwnerInv, Begin
<1>4. ASSUME NEW t \in Threads, Add(t) PROVE OwnerInv'
  <2>1. OwnCall(t) /\ call[t].op = "create" /\ pc[t] # "idle" /\ crontab' = crontab
    BY <1>4, <1>d DEF Add
  <2>2. OwnStore'
    BY <1>4, <1>a, <1>b, <2>1, StoreKeeps DEF Add, Persist, PersistThrows, StoreUnchanged, OwnCall
  <2>3. OwnCalls'
    BY <1>4, <1>a, <1>e, <2>1, GotoKeeps DEF Add, Pcs
  <2> QED
    BY <1>c, <2>1, <2>2, <2>3 DEF OwnerInv
<1>5. ASSUME NEW t \in Threads, Update(t) PROVE OwnerInv'
  <2>1. OwnCall(t) /\ call[t].op = "update" /\ pc[t] # "idle" /\ crontab' = crontab
    BY <1>5, <1>d DEF Update
  <2>2. OwnStore'
    BY <1>5, <1>a, <1>b, <2>1, StoreKeeps DEF Update, Owned, Persist, PersistThrows, StoreUnchanged, OwnCall
  <2>3. ASSUME pc' = [pc EXCEPT ![t] = "meta"], UNCHANGED <<call, list>> PROVE OwnCalls'
    <3>1. pc' \in [Threads -> Pcs]
      BY <1>a, <2>3 DEF OwnCalls, Pcs
    <3>2. ASSUME NEW s \in Threads
          PROVE  IF pc'[s] = "idle" THEN list'[s] = NoTable ELSE OwnCall(s)'
      BY <1>a, <2>1, <2>3 DEF OwnCalls, OwnCall
    <3> QED
      BY <1>a, <2>3, <3>1, <3>2 DEF OwnCalls
  <2>4. OwnCalls'
    BY <1>5, <1>e, <2>3 DEF Update
  <2> QED
    BY <1>c, <2>1, <2>2, <2>4 DEF OwnerInv
<1>6. ASSUME NEW t \in Threads, Remove(t) PROVE OwnerInv'
  <2>1. OwnCall(t) /\ pc[t] # "idle" /\ crontab' = crontab
    BY <1>6, <1>d DEF Remove
  <2>2. OwnStore'
    BY <1>6, <1>a, <1>b, <2>1, RemovalKeeps DEF Remove, Persist, PersistThrows, StoreUnchanged, OwnCall
  <2>3. OwnCalls'
    BY <1>6, <1>a, <1>e, <2>1, GotoKeeps DEF Remove, Pcs
  <2> QED
    BY <1>c, <2>1, <2>2, <2>3 DEF OwnerInv
<1>7. ASSUME NEW t \in Threads, WriteMeta(t) \/ RemoveMeta(t) PROVE OwnerInv'
  <2>1. OwnCalls'
    BY <1>7, <1>a, <1>f, GotoKeeps DEF WriteMeta, RemoveMeta, Pcs
  <2> QED
    BY <1>7, <1>b, <1>c, <2>1 DEF OwnerInv, WriteMeta, RemoveMeta
<1>8. ASSUME NEW t \in Threads, List(t) PROVE OwnerInv'
  <2> DEFINE jobs == ListForUser(call[t].user)
  <2>1. OwnCall(t)
    BY <1>8, <1>d DEF List
  <2>2. jobs \in Table /\ \A j \in Jobs : jobs[j] # Nothing => jobs[j].by = call[t].user
    BY <1>a DEF OwnStore, ListForUser, Owned, Table, Maybe, Job
  <2>3. pc' \in [Threads -> Pcs] /\ call' = call /\ list' \in [Threads -> Table]
    BY <1>8, <1>a, <2>2 DEF OwnCalls, List, Pcs
  <2>4. ASSUME NEW s \in Threads
        PROVE  IF pc'[s] = "idle" THEN list'[s] = NoTable ELSE OwnCall(s)'
    BY <1>8, <1>a, <2>1, <2>2 DEF OwnCalls, OwnCall, List
  <2> QED
    BY <1>8, <1>a, <1>b, <1>c, <2>3, <2>4 DEF OwnerInv, OwnCalls, List
<1>9. ASSUME NEW t \in Threads, Install(t) PROVE OwnerInv'
  <2>1. OwnCall(t) /\ pc[t] # "idle" /\ store' = store /\ list[t] \in Table
    BY <1>9, <1>a, <1>d DEF Install, OwnCalls
  <2>2. ASSUME crontab' = [crontab EXCEPT ![call[t].user] = list[t]] PROVE OwnCrontab'
    <3>1. crontab' \in [Users -> Table]
      BY <1>a, <2>1, <2>2 DEF OwnCrontab
    <3>2. ASSUME NEW u \in Users, NEW j \in Jobs, crontab'[u][j] # Nothing
          PROVE  crontab'[u][j].by = u
      BY <1>a, <2>1, <2>2, <3>2 DEF OwnCrontab, OwnCall
    <3> QED
      BY <3>1, <3>2 DEF OwnCrontab
  <2>3. OwnCalls'
    BY <1>9, <1>a, <1>f, <2>1, ReturnKeeps DEF Install
  <2>4. OwnCrontab'
    BY <1>9, <1>c, <2>2 DEF Install
  <2> QED
    BY <1>b, <2>1, <2>3, <2>4 DEF OwnerInv
<1>9a. ASSUME NEW t \in Threads, Query(t) PROVE OwnerInv'
  <2>1. pc[t] # "idle" /\ store' = store /\ crontab' = crontab
    BY <1>9a DEF Query
  <2>2. ASSUME pc' = [pc EXCEPT ![t] = "tasks"], UNCHANGED <<call, list>> PROVE OwnCalls'
    <3>1. pc' \in [Threads -> Pcs]
      BY <1>a, <2>2 DEF OwnCalls, Pcs
    <3>2. ASSUME NEW s \in Threads
          PROVE  IF pc'[s] = "idle" THEN list'[s] = NoTable ELSE OwnCall(s)'
      BY <1>a, <2>1, <2>2 DEF OwnCalls, OwnCall
    <3> QED
      BY <1>a, <2>2, <3>1, <3>2 DEF OwnCalls
  <2>3. OwnCalls'
    BY <1>9a, <1>f, <2>1, <2>2 DEF Query
  <2> QED
    BY <1>b, <1>c, <2>1, <2>3 DEF OwnerInv
<1>9b. ASSUME NEW t \in Threads, CreateTask(t) PROVE OwnerInv'
  <2>1. OwnCall(t) /\ pc[t] # "idle" /\ store' = store /\ list[t] \in Table
    BY <1>9b, <1>a, <1>d DEF CreateTask, OwnCalls
  <2>2. PICK j \in todo[t] \cap Wanted(t) :
          \/ /\ crontab' = [crontab EXCEPT ![call[t].user][j] = list[t][j]]
             /\ UNCHANGED <<pc, call, list>>
          \/ /\ crontab' \in {crontab, [crontab EXCEPT ![call[t].user][j] = list[t][j]]}
             /\ BackendThrows(t)
    BY <1>9b DEF CreateTask
  <2>3. j \in Jobs
    BY <2>2 DEF Wanted
  <2>4. ASSUME crontab' = [crontab EXCEPT ![call[t].user][j] = list[t][j]] PROVE OwnCrontab'
    BY <1>a, <2>1, <2>3, <2>4, TaskKeeps DEF OwnCall, Table
  <2>5. OwnCrontab'
    BY <1>c, <2>2, <2>4
  <2>6. ASSUME UNCHANGED <<pc, call, list>> PROVE OwnCalls'
    BY <1>a, <2>6 DEF OwnCalls, OwnCall
  <2>7. OwnCalls'
    BY <1>f, <2>1, <2>2, <2>6
  <2> QED
    BY <1>b, <2>1, <2>5, <2>7 DEF OwnerInv
<1>9c. ASSUME NEW t \in Threads, DeleteTask(t) PROVE OwnerInv'
  <2>1. OwnCall(t) /\ store' = store /\ UNCHANGED <<pc, call, list>>
    BY <1>9c, <1>d DEF DeleteTask
  <2>2. PICK j \in todo[t] :
          crontab' = [crontab EXCEPT ![call[t].user][j] = Nothing] \/ crontab' = crontab
    BY <1>9c DEF DeleteTask
  <2>3. ASSUME crontab' = [crontab EXCEPT ![call[t].user][j] = Nothing] PROVE OwnCrontab'
    <3>1. CASE j \in Jobs
      BY <1>a, <2>1, <2>3, <3>1, EmptyTyped, TaskKeeps DEF OwnCall
    <3>2. CASE j \notin Jobs
      BY <1>a, <2>1, <2>3, <3>2 DEF OwnCrontab, OwnCall, Table
    <3> QED
      BY <3>1, <3>2
  <2>4. OwnCrontab' /\ OwnCalls'
    BY <1>a, <1>c, <2>1, <2>2, <2>3 DEF OwnCalls, OwnCall
  <2> QED
    BY <1>b, <2>1, <2>4 DEF OwnerInv
<1>9d. ASSUME NEW t \in Threads, FinishTasks(t) PROVE OwnerInv'
  <2>1. OwnCalls'
    BY <1>9d, <1>a, ReturnKeeps DEF FinishTasks
  <2> QED
    BY <1>9d, <1>b, <1>c, <2>1 DEF OwnerInv, FinishTasks
<1>10. ASSUME NEW t \in Threads, Rollback(t) PROVE OwnerInv'
  <2>1. OwnCall(t) /\ crontab' = crontab
    BY <1>10, <1>d DEF Rollback
  <2>2. OwnStore'
    BY <1>10, <1>a, <1>b, <2>1, RemovalKeeps DEF Rollback, Persist, PersistThrows, StoreUnchanged, OwnCall
  <2>3. OwnCalls'
    BY <1>10, <1>a, <1>e, ReturnKeeps DEF Rollback
  <2> QED
    BY <1>c, <2>1, <2>2, <2>3 DEF OwnerInv
<1>11. CASE CrashAndLoad
  <2>1. store' = store /\ crontab' = crontab
    BY <1>11, <1>a DEF CrashAndLoad, StoreDurable
  <2>2. OwnCalls'
    BY <1>11, EmptyTyped DEF CrashAndLoad, OwnCalls, Pcs
  <2> QED
    BY <1>b, <1>c, <2>1, <2>2 DEF OwnerInv
<1>12. CASE UNCHANGED vars
  BY <1>12, <1>a, <1>b, <1>c DEF vars, OwnerInv, OwnCalls, OwnCall
<1> QED
  BY <1>1, <1>2, <1>3, <1>4, <1>5, <1>6, <1>7, <1>8, <1>9, <1>9a, <1>9b, <1>9c,
     <1>9d, <1>10, <1>11, <1>12 DEF Next, Step

\* OwnerInv holds in every reachable state.
LEMMA OwnerInvariant == Spec => []OwnerInv
<1>1. Init => OwnerInv
  <2> SUFFICES ASSUME Init PROVE OwnerInv
    OBVIOUS
  <2>1. OwnStore /\ OwnCrontab
    BY EmptyTyped DEF Init, OwnStore, OwnCrontab, NoTable
  <2>2. OwnCalls
    BY EmptyTyped DEF Init, OwnCalls, Pcs
  <2> QED
    BY <2>1, <2>2 DEF Init, OwnerInv, StoreDurable
<1> QED
  BY <1>1, Durable, OwnerStep, PTL DEF Spec

\* Whatever fails or overlaps, what runs in a user's name was sent by him: his
\* stored jobs and the lines of his crontab.
THEOREM OwnerDecides == Spec => []OnlyOwnerDecides
<1>1. OwnerInv => OnlyOwnerDecides
  BY DEF OwnerInv, OwnStore, OwnCrontab, OnlyOwnerDecides
<1> QED
  BY <1>1, OwnerInvariant, PTL

-----------------------------------------------------------------------------
(* Type correctness *)

\* What OwnerInv does not say of the types.
Rest ==
    /\ meta \in [Jobs -> Maybe(Payload)]
    /\ drawn \subseteq Jobs /\ failed \subseteq Jobs /\ settled \subseteq Jobs
    /\ before \in [Threads -> Maybe(Payload)] /\ todo \in [Threads -> SUBSET Jobs]
    /\ platform \in Platforms /\ crashes \in 0..MaxCrashes

\* Which tool a call is of, by where it is.
Tool(t) ==
    /\ pc[t] # "idle" => call[t].op \in {"create", "update", "delete"}
    /\ pc[t] = "meta" => call[t].op \in {"create", "update"}
    /\ pc[t] = "unmeta" => call[t].op = "delete"
    /\ pc[t] = "rollback" => call[t].op = "create"
Tools == \A t \in Threads : Tool(t)

TypeInv == OwnerInv /\ Rest /\ Tools

\* Every step preserves TypeInv.
LEMMA TypeStep ==
  ASSUME TypeInv, OwnerInv', [Next]_vars
  PROVE  TypeInv'
<1> USE CronAssumption, EmptyTyped
<1>0. OwnStore /\ OwnCrontab /\ OwnCalls /\ Rest /\ Tools /\ StoreDurable
  BY DEF TypeInv, OwnerInv
<1>c. ASSUME NEW t \in Threads, pc[t] # "idle"
      PROVE  /\ OwnCall(t) /\ Tool(t) /\ call[t].job \in Jobs
  BY <1>0, <1>c DEF OwnCalls, OwnCall, Tools
<1>r. ASSUME NEW t \in Threads, Return(t)
      PROVE  /\ Tools' /\ before' \in [Threads -> Maybe(Payload)]
             /\ todo' \in [Threads -> SUBSET Jobs]
  BY <1>0, <1>r DEF Return, Tools, Tool, Rest, OwnCalls
<1>e. ASSUME NEW t \in Threads, pc[t] # "idle", ReturnError(t)
      PROVE  /\ Tools' /\ before' \in [Threads -> Maybe(Payload)]
             /\ todo' \in [Threads -> SUBSET Jobs] /\ failed' \subseteq Jobs
  BY <1>0, <1>c, <1>e, <1>r DEF ReturnError, Rest
<1>g. ASSUME NEW t \in Threads, NEW next \in Pcs, pc[t] # "idle", Goto(t, next),
             next = "meta" => call[t].op \in {"create", "update"},
             next = "unmeta" => call[t].op = "delete",
             next = "rollback" => call[t].op = "create"
      PROVE  /\ Tools' /\ before' \in [Threads -> Maybe(Payload)]
             /\ todo' \in [Threads -> SUBSET Jobs]
  <2>1. pc' = [pc EXCEPT ![t] = next] /\ UNCHANGED <<call, before, todo>>
    BY <1>g DEF Goto
  <2> QED
    BY <1>0, <1>c, <1>g, <2>1 DEF Tools, Tool, Rest, OwnCalls
<1>b. ASSUME NEW t \in Threads, pc[t] # "idle", BackendThrows(t)
      PROVE  /\ Tools' /\ before' \in [Threads -> Maybe(Payload)]
             /\ todo' \in [Threads -> SUBSET Jobs] /\ failed' \subseteq Jobs
  <2>1. CASE call[t].op = "create"
    <3>1. Goto(t, "rollback") /\ failed' = failed /\ "rollback" \in Pcs
      BY <1>b, <2>1 DEF BackendThrows, Pcs
    <3> QED
      BY <1>0, <1>b, <1>g, <2>1, <3>1 DEF Rest
  <2>2. CASE call[t].op # "create"
    BY <1>b, <1>e, <2>2 DEF BackendThrows
  <2> QED
    BY <2>1, <2>2
<1>n. ASSUME NEW t \in Threads, NEW op \in {"create", "update", "delete"}, NEW u, NEW j, NEW p,
             Begin(t, op, u, j, p), drawn' \subseteq Jobs
      PROVE  TypeInv'
  <2>1. [op |-> op, user |-> u, job |-> j, payload |-> p].op = op
    OBVIOUS
  <2>2. /\ pc' = [pc EXCEPT ![t] = "store"]
        /\ call' = [call EXCEPT ![t] = [op |-> op, user |-> u, job |-> j, payload |-> p]]
    BY <1>n DEF Begin
  <2>3. Tools'
    BY <1>0, <2>1, <2>2 DEF Tools, Tool, OwnCalls
  <2> QED
    BY <1>0, <1>n, <2>3 DEF TypeInv, Rest, Begin
<1>1. ASSUME NEW t \in Threads, NEW u \in Users, NEW e \in Edits, CronCreate(t, u, e)
      PROVE  TypeInv'
  BY <1>0, <1>1, <1>n DEF CronCreate, Rest
<1>2. ASSUME NEW t \in Threads, NEW u \in Users, NEW j \in Jobs, NEW e \in Edits,
             CronUpdate(t, u, j, e)
      PROVE  TypeInv'
  BY <1>0, <1>2, <1>n DEF CronUpdate, Rest
<1>3. ASSUME NEW t \in Threads, NEW u \in Users, NEW j \in Jobs, CronDelete(t, u, j)
      PROVE  TypeInv'
  BY <1>0, <1>3, <1>n DEF CronDelete, Rest
<1>4. ASSUME NEW t \in Threads, Add(t) PROVE TypeInv'
  <2>1. pc[t] # "idle" /\ "meta" \in Pcs /\ call[t].op = "create"
    BY <1>4 DEF Add, Pcs
  <2>2. Tools' /\ before' \in [Threads -> Maybe(Payload)] /\ todo' \in [Threads -> SUBSET Jobs]
        /\ failed' \subseteq Jobs
    BY <1>0, <1>4, <1>e, <1>g, <2>1 DEF Add, Rest
  <2> QED
    BY <1>0, <1>4, <2>2 DEF TypeInv, Rest, Add, Persist, PersistThrows, StoreUnchanged
<1>5. ASSUME NEW t \in Threads, Update(t) PROVE TypeInv'
  <2>1. pc[t] # "idle" /\ call[t].op = "update" /\ call[t].job \in Jobs
    BY <1>5, <1>c DEF Update
  <2>2. ASSUME Owned(call[t].job, call[t].user), pc' = [pc EXCEPT ![t] = "meta"],
               before' = [before EXCEPT ![t] = store[call[t].job].payload],
               UNCHANGED <<call, list, todo>>
        PROVE  Tools' /\ before' \in [Threads -> Maybe(Payload)]
               /\ todo' \in [Threads -> SUBSET Jobs]
    <3>1. store[call[t].job].payload \in Maybe(Payload)
      BY <1>0, <2>1, <2>2 DEF OwnStore, Owned, Maybe, Job
    <3> QED
      BY <1>0, <2>1, <2>2, <3>1 DEF Tools, Tool, Rest, OwnCalls
  <2>3. Tools' /\ before' \in [Threads -> Maybe(Payload)] /\ todo' \in [Threads -> SUBSET Jobs]
        /\ failed' \subseteq Jobs
    BY <1>0, <1>5, <1>e, <2>1, <2>2 DEF Update, Rest
  <2> QED
    BY <1>0, <1>5, <2>3 DEF TypeInv, Rest, Update, Persist, PersistThrows, StoreUnchanged
<1>6. ASSUME NEW t \in Threads, Remove(t) PROVE TypeInv'
  <2>1. pc[t] # "idle" /\ "unmeta" \in Pcs /\ call[t].op = "delete"
    BY <1>6 DEF Remove, Pcs
  <2>2. Tools' /\ before' \in [Threads -> Maybe(Payload)] /\ todo' \in [Threads -> SUBSET Jobs]
        /\ failed' \subseteq Jobs
    BY <1>0, <1>6, <1>e, <1>g, <2>1 DEF Remove, Rest
  <2> QED
    BY <1>0, <1>6, <2>2 DEF TypeInv, Rest, Remove, Persist, PersistThrows, StoreUnchanged
<1>7. ASSUME NEW t \in Threads, WriteMeta(t) PROVE TypeInv'
  <2>1. /\ pc[t] # "idle" /\ "list" \in Pcs /\ call[t].job \in Jobs
        /\ call[t].payload \in Maybe(Payload)
    BY <1>7, <1>c DEF WriteMeta, Pcs, Tool, OwnCall, Maybe
  <2>2. Tools' /\ before' \in [Threads -> Maybe(Payload)] /\ todo' \in [Threads -> SUBSET Jobs]
        /\ failed' \subseteq Jobs
    BY <1>0, <1>7, <1>b, <1>g, <2>1 DEF WriteMeta, Rest
  <2> QED
    BY <1>0, <1>7, <2>1, <2>2 DEF TypeInv, Rest, WriteMeta
<1>8. ASSUME NEW t \in Threads, RemoveMeta(t) PROVE TypeInv'
  <2>1. pc[t] # "idle" /\ "list" \in Pcs
    BY <1>8 DEF RemoveMeta, Pcs
  <2>2. Tools' /\ before' \in [Threads -> Maybe(Payload)] /\ todo' \in [Threads -> SUBSET Jobs]
    BY <1>8, <1>g, <2>1 DEF RemoveMeta
  <2> QED
    BY <1>0, <1>8, <2>2 DEF TypeInv, Rest, RemoveMeta
<1>9. ASSUME NEW t \in Threads, List(t) PROVE TypeInv'
  <2>1. Tools'
    BY <1>0, <1>9 DEF List, Tools, Tool, OwnCalls
  <2> QED
    BY <1>0, <1>9, <2>1 DEF TypeInv, Rest, List
<1>10. ASSUME NEW t \in Threads, Install(t) PROVE TypeInv'
  <2>1. pc[t] # "idle" /\ call[t].job \in Jobs
    BY <1>10, <1>c DEF Install
  <2>2. Tools' /\ before' \in [Threads -> Maybe(Payload)] /\ todo' \in [Threads -> SUBSET Jobs]
        /\ failed' \subseteq Jobs
    BY <1>0, <1>10, <1>b, <1>r, <2>1 DEF Install, Rest
  <2> QED
    BY <1>0, <1>10, <2>1, <2>2 DEF TypeInv, Rest, Install
<1>11. ASSUME NEW t \in Threads, Query(t) PROVE TypeInv'
  <2>1. ASSUME pc' = [pc EXCEPT ![t] = "tasks"], UNCHANGED <<call, before>>,
               \/ todo' = [todo EXCEPT ![t] = Wanted(t) \cup OnBox(call[t].user)]
               \/ todo' = [todo EXCEPT ![t] = Wanted(t)]
        PROVE  Tools' /\ before' \in [Threads -> Maybe(Payload)]
               /\ todo' \in [Threads -> SUBSET Jobs]
    <3>1. Wanted(t) \subseteq Jobs /\ OnBox(call[t].user) \subseteq Jobs
      BY DEF Wanted, OnBox
    <3>2. Tools'
      BY <1>0, <1>11, <2>1 DEF Tools, Tool, OwnCalls, Query
    <3> QED
      BY <1>0, <2>1, <3>1, <3>2 DEF Rest
  <2>2. Tools' /\ before' \in [Threads -> Maybe(Payload)] /\ todo' \in [Threads -> SUBSET Jobs]
        /\ failed' \subseteq Jobs
    BY <1>0, <1>11, <1>b, <2>1 DEF Query, Rest
  <2> QED
    BY <1>0, <1>11, <2>2 DEF TypeInv, Rest, Query
<1>12. ASSUME NEW t \in Threads, CreateTask(t) PROVE TypeInv'
  <2>1. /\ pc[t] # "idle"
        /\ \/ \E j : todo' = [todo EXCEPT ![t] = @ \ {j}] /\ UNCHANGED <<pc, call, before, failed>>
           \/ BackendThrows(t)
    BY <1>12 DEF CreateTask
  <2>2. Tools' /\ before' \in [Threads -> Maybe(Payload)] /\ todo' \in [Threads -> SUBSET Jobs]
        /\ failed' \subseteq Jobs
    BY <1>0, <1>b, <2>1 DEF Tools, Tool, Rest
  <2> QED
    BY <1>0, <1>12, <2>2 DEF TypeInv, Rest, CreateTask
<1>13. ASSUME NEW t \in Threads, DeleteTask(t) PROVE TypeInv'
  <2>1. /\ UNCHANGED <<meta, drawn, pc, call, before, failed, settled, platform, crashes>>
        /\ \E j \in todo[t] : todo' = [todo EXCEPT ![t] = @ \ {j}]
    BY <1>13 DEF DeleteTask
  <2> QED
    BY <1>0, <2>1 DEF TypeInv, Rest, Tools, Tool
<1>14. ASSUME NEW t \in Threads, FinishTasks(t) PROVE TypeInv'
  <2>1. call[t].job \in Jobs
    BY <1>14, <1>c DEF FinishTasks
  <2> QED
    BY <1>0, <1>14, <1>r, <2>1 DEF TypeInv, Rest, FinishTasks
<1>15. ASSUME NEW t \in Threads, Rollback(t) PROVE TypeInv'
  <2>1. pc[t] # "idle"
    BY <1>15 DEF Rollback
  <2>2. Tools' /\ before' \in [Threads -> Maybe(Payload)] /\ todo' \in [Threads -> SUBSET Jobs]
        /\ failed' \subseteq Jobs
    BY <1>0, <1>15, <1>e, <1>r, <2>1 DEF Rollback, Rest
  <2> QED
    BY <1>0, <1>15, <2>2 DEF TypeInv, Rest, Rollback, Persist, PersistThrows, StoreUnchanged
<1>16. CASE CrashAndLoad
  BY <1>0, <1>16 DEF TypeInv, Rest, Tools, Tool, CrashAndLoad
<1>17. CASE UNCHANGED vars
  BY <1>0, <1>17 DEF TypeInv, Rest, Tools, Tool, vars
<1> QED
  BY <1>1, <1>2, <1>3, <1>4, <1>5, <1>6, <1>7, <1>8, <1>9, <1>10, <1>11, <1>12, <1>13, <1>14,
     <1>15, <1>16, <1>17 DEF Next, Step

\* TypeInv holds in every reachable state.
LEMMA TypeInvariant == Spec => []TypeInv
<1>1. Init /\ OwnerInv => TypeInv
  BY EmptyTyped, CronAssumption DEF Init, TypeInv, Rest, Tools, Tool, NoTable
<1>2. TypeInv /\ OwnerInv' /\ [Next]_vars => TypeInv'
  BY TypeStep
<1> QED
  BY <1>1, <1>2, OwnerInvariant, PTL DEF Spec

\* The four places a job lives in and the calls in progress are well typed in every
\* reachable state.
THEOREM TypeCorrect == Spec => []TypeOK
<1>1. TypeInv => TypeOK
  BY DEF TypeInv, OwnerInv, StoreDurable, OwnStore, OwnCrontab, OwnCalls, Rest, TypeOK
<1> QED
  BY <1>1, TypeInvariant, PTL

-----------------------------------------------------------------------------
(* A job belongs to one user: whoever holds a line, an entry, a list or a   *)
(* call with it is the one it was created for. While a user's calls do not  *)
(* overlap, a call therefore has its job to itself.                         *)

Past(t) == pc[t] \notin {"idle", "store"}

\* Thread t, serving user u, has to do with job j: it creates or has changed it, or
\* has it on its list.
Has(t, u, j) ==
    /\ pc[t] # "idle" /\ call[t].user = u
    /\ \/ call[t].job = j /\ (Past(t) \/ call[t].op = "create")
       \/ list[t][j] # Nothing

Seen(u, j) == crontab[u][j] # Nothing \/ Owned(j, u) \/ \E t \in Threads : Has(t, u, j)

\* Every job that is seen was drawn, and is seen with one user only.
Home ==
    /\ \A u \in Users, j \in Jobs : Seen(u, j) => j \in drawn
    /\ \A u, v \in Users, j \in Jobs : Seen(u, j) /\ Seen(v, j) => u = v
    /\ \A t \in Threads : pc[t] # "idle" => call[t].job \in drawn
    /\ failed \subseteq drawn

\* A step after which nobody sees a job he did not see before keeps Home.
LEMMA HomeKept ==
  ASSUME Home, \A u \in Users, j \in Jobs : Seen(u, j)' => Seen(u, j), drawn' = drawn,
         \A t \in Threads : pc'[t] # "idle" => pc[t] # "idle" /\ call'[t].job = call[t].job,
         failed' \subseteq drawn
  PROVE  Home'
BY DEF Home

\* What a step leaves of the calls: others are as they were, and the one that acts
\* has returned, or goes on with the job it has to do with.
LEMMA OthersSee ==
  ASSUME TypeInv, NEW t \in Threads, NEW u \in Users, NEW j \in Jobs,
         NEW s \in Threads, s # t, pc'[s] = pc[s], call'[s] = call[s], list'[s] = list[s],
         Has(s, u, j)'
  PROVE  Has(s, u, j)
BY DEF Has, Past

\* Every step preserves Home.
LEMMA HomeStep ==
  ASSUME TypeInv, TypeInv', Home, [Next]_vars
  PROVE  Home'
<1>0. /\ OwnStore /\ OwnCrontab /\ OwnCalls /\ Rest /\ Tools /\ StoreDurable
      /\ pc \in [Threads -> Pcs] /\ call \in [Threads -> Call] /\ list \in [Threads -> Table]
      /\ \A u \in Users : crontab[u] \in [Jobs -> Maybe(Payload)]
      /\ store \in [Jobs -> Maybe(Job)] /\ crontab \in [Users -> Table]
  BY DEF TypeInv, OwnerInv, OwnCalls, OwnCrontab, OwnStore, Table
<1>i. ASSUME NEW t \in Threads, pc[t] = "idle" PROVE \A j \in Jobs : list[t][j] = Nothing
  BY <1>0, <1>i DEF OwnCalls, NoTable
<1>c. ASSUME NEW t \in Threads, pc[t] # "idle"
      PROVE  call[t].user \in Users /\ call[t].job \in Jobs /\ call[t].job \in drawn
  BY <1>0, <1>c DEF OwnCalls, OwnCall, Home
\* thread t acts, and nobody else's call changes
<1>s. ASSUME NEW t \in Threads, pc[t] # "idle", drawn' = drawn,
             \A s \in Threads \ {t} : pc'[s] = pc[s] /\ call'[s] = call[s] /\ list'[s] = list[s],
             pc'[t] # "idle" => call'[t] = call[t],
             failed' \subseteq failed \cup {call[t].job},
             \A u \in Users, j \in Jobs : crontab'[u][j] # Nothing \/ Owned(j, u)' => Seen(u, j),
             \A u \in Users, j \in Jobs : Has(t, u, j)' => Seen(u, j)
      PROVE  Home'
  <2>1. \A u \in Users, j \in Jobs : Seen(u, j)' => Seen(u, j)
    BY <1>s, OthersSee DEF Seen
  <2>2. \A s \in Threads : pc'[s] # "idle" => pc[s] # "idle" /\ call'[s].job = call[s].job
    BY <1>s
  <2>3. failed' \subseteq drawn
    BY <1>c, <1>s DEF Home
  <2> QED
    BY <1>s, <2>1, <2>2, <2>3, HomeKept
<1>r. ASSUME NEW t \in Threads, Return(t)
      PROVE  /\ \A s \in Threads \ {t} : pc'[s] = pc[s] /\ call'[s] = call[s] /\ list'[s] = list[s]
             /\ pc'[t] = "idle" /\ \A u \in Users, j \in Jobs : ~Has(t, u, j)'
  BY <1>0, <1>r DEF Return, Has
<1>g. ASSUME NEW t \in Threads, NEW next, Goto(t, next)
      PROVE  /\ \A s \in Threads \ {t} : pc'[s] = pc[s] /\ call'[s] = call[s] /\ list'[s] = list[s]
             /\ call'[t] = call[t] /\ list'[t] = list[t]
  BY <1>0, <1>g DEF Goto
<1>b. ASSUME NEW t \in Threads, pc[t] # "idle", BackendThrows(t)
      PROVE  /\ \A s \in Threads \ {t} : pc'[s] = pc[s] /\ call'[s] = call[s] /\ list'[s] = list[s]
             /\ pc'[t] # "idle" => call'[t] = call[t] /\ list'[t] = list[t]
             /\ failed' \subseteq failed \cup {call[t].job}
  BY <1>b, <1>g, <1>r DEF BackendThrows, ReturnError
<1>h. ASSUME NEW t \in Threads, Past(t), NEW u \in Users, NEW j \in Jobs, Has(t, u, j)',
             pc'[t] # "idle" => call'[t] = call[t] /\ list'[t] = list[t]
      PROVE  Seen(u, j)
  BY <1>h DEF Has, Seen, Past
<1>o. ASSUME UNCHANGED store PROVE \A u \in Users, j \in Jobs : Owned(j, u)' => Seen(u, j)
  BY <1>o DEF Owned, Seen
<1>t. ASSUME UNCHANGED crontab
      PROVE  \A u \in Users, j \in Jobs : crontab'[u][j] # Nothing => Seen(u, j)
  BY <1>t DEF Seen
<1>p. ASSUME NEW t \in Threads, pc[t] # "idle", NEW v, Persist(call[t].job, v),
             v # Nothing => v.owner = call[t].user /\ Seen(call[t].user, call[t].job)
      PROVE  \A u \in Users, j \in Jobs : Owned(j, u)' => Seen(u, j)
  BY <1>0, <1>p DEF Persist, Owned, Seen
<1>1. ASSUME NEW t \in Threads, NEW u \in Users, NEW e \in Edits, CronCreate(t, u, e)
      PROVE  Home'
  <2>1. PICK j \in Jobs \ drawn : /\ drawn' = drawn \cup {j}
                                  /\ Begin(t, "create", u, j, [by |-> u, edit |-> e])
    BY <1>1 DEF CronCreate
  <2>2. /\ call'[t].user = u /\ call'[t].job = j /\ pc'[t] = "store" /\ pc[t] = "idle"
        /\ UNCHANGED <<crontab, store, list, failed>>
        /\ \A s \in Threads \ {t} : pc'[s] = pc[s] /\ call'[s] = call[s] /\ list'[s] = list[s]
    BY <1>0, <2>1 DEF Begin
  <2>3. ASSUME NEW v \in Users, NEW i \in Jobs, Seen(v, i)'
        PROVE  Seen(v, i) \/ (v = u /\ i = j)
    <3>1. ASSUME Has(t, v, i)' PROVE v = u /\ i = j
      BY <1>i, <2>2, <3>1 DEF Has
    <3> QED
      BY <2>2, <2>3, <3>1, OthersSee DEF Seen, Owned
  <2>4. \A v \in Users : ~Seen(v, j)
    BY <2>1 DEF Home
  <2>5. \A s \in Threads : pc'[s] # "idle" => call'[s].job \in drawn'
    BY <2>1, <2>2 DEF Home
  <2> QED
    BY <2>1, <2>2, <2>3, <2>4, <2>5 DEF Home
<1>2. ASSUME NEW t \in Threads, NEW op \in {"update", "delete"}, NEW u \in Users, NEW j \in drawn,
             NEW p, Begin(t, op, u, j, p), drawn' = drawn
      PROVE  Home'
  <2>2. /\ call'[t].op = op /\ call'[t].job = j /\ pc'[t] = "store" /\ pc[t] = "idle"
        /\ UNCHANGED <<crontab, store, list, failed>>
        /\ \A s \in Threads \ {t} : pc'[s] = pc[s] /\ call'[s] = call[s] /\ list'[s] = list[s]
    BY <1>0, <1>2 DEF Begin
  <2>3. \A v \in Users, i \in Jobs : ~Has(t, v, i)'
    BY <1>i, <2>2 DEF Has, Past
  <2>4. \A v \in Users, i \in Jobs : Seen(v, i)' => Seen(v, i)
    BY <2>2, <2>3, OthersSee DEF Seen, Owned
  <2>5. \A s \in Threads : pc'[s] # "idle" => call'[s].job \in drawn
    BY <2>2 DEF Home
  <2> QED
    BY <1>2, <2>2, <2>4, <2>5 DEF Home
<1>3. ASSUME NEW t \in Threads, Add(t) PROVE Home'
  <2>1. pc[t] # "idle" /\ call[t].op = "create" /\ UNCHANGED <<crontab, drawn>>
    BY <1>3 DEF Add
  <2>2. Seen(call[t].user, call[t].job)
    BY <2>1 DEF Seen, Has
  <2>3. \A u \in Users, j \in Jobs : Owned(j, u)' => Seen(u, j)
    BY <1>3, <1>o, <1>p, <2>1, <2>2 DEF Add, PersistThrows, StoreUnchanged
  <2>4. \A u \in Users, j \in Jobs : Has(t, u, j)' => Seen(u, j)
    <3>1. CASE Goto(t, "meta")
      BY <1>g, <2>1, <3>1 DEF Has, Seen
    <3> QED
      BY <1>3, <1>r, <3>1 DEF Add, ReturnError
  <2> QED
    BY <1>3, <1>g, <1>r, <1>s, <1>t, <2>1, <2>3, <2>4 DEF Add, ReturnError
<1>4. ASSUME NEW t \in Threads, Update(t) PROVE Home'
  <2>1. pc[t] # "idle" /\ UNCHANGED <<crontab, drawn>>
    BY <1>4 DEF Update
  <2>2. CASE /\ Owned(call[t].job, call[t].user)
             /\ Persist(call[t].job, [owner |-> store[call[t].job].owner,
                                      payload |-> call[t].payload])
             /\ pc' = [pc EXCEPT ![t] = "meta"] /\ UNCHANGED <<call, list>> /\ failed' = failed
    <3>1. Seen(call[t].user, call[t].job)
      BY <2>2 DEF Seen
    <3>2. \A u \in Users, j \in Jobs : Owned(j, u)' => Seen(u, j)
      BY <1>p, <2>1, <2>2, <3>1 DEF Owned
    <3>3. \A u \in Users, j \in Jobs : Has(t, u, j)' => Seen(u, j)
      BY <1>0, <2>1, <2>2, <3>1 DEF Has, Seen
    <3>4. \A s \in Threads \ {t} : pc'[s] = pc[s] /\ call'[s] = call[s] /\ list'[s] = list[s]
      BY <1>0, <2>2
    <3> QED
      BY <1>s, <1>t, <2>1, <2>2, <3>2, <3>3, <3>4
  <2>3. CASE StoreUnchanged /\ ReturnError(t)
    BY <1>o, <1>r, <1>s, <1>t, <2>1, <2>3 DEF StoreUnchanged, ReturnError
  <2> QED
    BY <1>4, <2>2, <2>3 DEF Update, PersistThrows
<1>5. ASSUME NEW t \in Threads, Remove(t) PROVE Home'
  <2>1. pc[t] # "idle" /\ UNCHANGED <<crontab, drawn>>
    BY <1>5 DEF Remove
  <2>2. CASE /\ Owned(call[t].job, call[t].user) /\ Persist(call[t].job, Nothing)
             /\ Goto(t, "unmeta") /\ failed' = failed
    <3>1. Seen(call[t].user, call[t].job)
      BY <2>2 DEF Seen
    <3>2. \A u \in Users, j \in Jobs : Owned(j, u)' => Seen(u, j)
      BY <1>p, <2>1, <2>2
    <3>3. \A u \in Users, j \in Jobs : Has(t, u, j)' => Seen(u, j)
      BY <1>g, <2>1, <2>2, <3>1 DEF Has, Seen
    <3> QED
      BY <1>g, <1>s, <1>t, <2>1, <2>2, <3>2, <3>3
  <2>3. CASE StoreUnchanged /\ ReturnError(t)
    BY <1>o, <1>r, <1>s, <1>t, <2>1, <2>3 DEF StoreUnchanged, ReturnError
  <2> QED
    BY <1>5, <2>2, <2>3 DEF Remove, PersistThrows
<1>6. ASSUME NEW t \in Threads, WriteMeta(t) \/ RemoveMeta(t) PROVE Home'
  <2>1. pc[t] # "idle" /\ Past(t) /\ UNCHANGED <<crontab, drawn, store>>
    BY <1>6 DEF WriteMeta, RemoveMeta, Past
  <2>2. /\ \A s \in Threads \ {t} : pc'[s] = pc[s] /\ call'[s] = call[s] /\ list'[s] = list[s]
        /\ pc'[t] # "idle" => call'[t] = call[t] /\ list'[t] = list[t]
        /\ failed' \subseteq failed \cup {call[t].job}
    BY <1>6, <1>b, <1>g, <2>1 DEF WriteMeta, RemoveMeta
  <2> QED
    BY <1>h, <1>o, <1>s, <1>t, <2>1, <2>2
<1>7. ASSUME NEW t \in Threads, List(t) PROVE Home'
  <2>1. /\ pc[t] # "idle" /\ Past(t) /\ UNCHANGED <<crontab, drawn, store, call, failed>>
        /\ list' = [list EXCEPT ![t] = ListForUser(call[t].user)]
        /\ \A s \in Threads \ {t} : pc'[s] = pc[s] /\ call'[s] = call[s] /\ list'[s] = list[s]
    BY <1>0, <1>7 DEF List, Past
  <2>2. \A u \in Users, j \in Jobs : Has(t, u, j)' => Seen(u, j)
    BY <1>0, <2>1 DEF Has, Seen, ListForUser
  <2> QED
    BY <1>o, <1>s, <1>t, <2>1, <2>2
<1>8. ASSUME NEW t \in Threads, Install(t) PROVE Home'
  <2>1. pc[t] # "idle" /\ Past(t) /\ UNCHANGED <<drawn, store>>
    BY <1>8 DEF Install, Past
  <2>2. /\ \A s \in Threads \ {t} : pc'[s] = pc[s] /\ call'[s] = call[s] /\ list'[s] = list[s]
        /\ pc'[t] # "idle" => call'[t] = call[t] /\ list'[t] = list[t]
        /\ failed' \subseteq failed \cup {call[t].job}
    BY <1>8, <1>b, <1>r, <2>1 DEF Install
  <2>3. \A u \in Users, j \in Jobs : crontab'[u][j] # Nothing => Seen(u, j)
    BY <1>0, <1>8, <1>c, <1>t, <2>1 DEF Install, Seen, Has
  <2> QED
    BY <1>h, <1>o, <1>s, <2>1, <2>2, <2>3
<1>9. ASSUME NEW t \in Threads, Query(t) PROVE Home'
  <2>1. pc[t] # "idle" /\ Past(t) /\ UNCHANGED <<drawn, store, crontab>>
    BY <1>9 DEF Query, Past
  <2>2. /\ \A s \in Threads \ {t} : pc'[s] = pc[s] /\ call'[s] = call[s] /\ list'[s] = list[s]
        /\ pc'[t] # "idle" => call'[t] = call[t] /\ list'[t] = list[t]
        /\ failed' \subseteq failed \cup {call[t].job}
    BY <1>0, <1>9, <1>b, <2>1 DEF Query
  <2> QED
    BY <1>h, <1>o, <1>s, <1>t, <2>1, <2>2
<1>10. ASSUME NEW t \in Threads, CreateTask(t) PROVE Home'
  <2>1. pc[t] # "idle" /\ Past(t) /\ UNCHANGED <<drawn, store>>
    BY <1>10 DEF CreateTask, Past
  <2>2. /\ \A s \in Threads \ {t} : pc'[s] = pc[s] /\ call'[s] = call[s] /\ list'[s] = list[s]
        /\ pc'[t] # "idle" => call'[t] = call[t] /\ list'[t] = list[t]
        /\ failed' \subseteq failed \cup {call[t].job}
    BY <1>10, <1>b, <2>1 DEF CreateTask
  <2>3. PICK j \in Jobs : /\ list[t][j] # Nothing
                          /\ crontab' \in {crontab, [crontab EXCEPT ![call[t].user][j] = list[t][j]]}
    BY <1>10 DEF CreateTask, Wanted
  <2>4. Seen(call[t].user, j)
    BY <2>1, <2>3 DEF Seen, Has
  <2>5. \A u \in Users, i \in Jobs : crontab'[u][i] # Nothing => Seen(u, i)
    BY <1>0, <1>c, <2>1, <2>3, <2>4 DEF Seen
  <2> QED
    BY <1>h, <1>o, <1>s, <2>1, <2>2, <2>5
<1>11. ASSUME NEW t \in Threads, DeleteTask(t) PROVE Home'
  <2>1. pc[t] # "idle" /\ Past(t) /\ UNCHANGED <<drawn, store, pc, call, list, failed>>
    BY <1>11 DEF DeleteTask, Past
  <2>2. PICK j \in Jobs : crontab' \in {crontab, [crontab EXCEPT ![call[t].user][j] = Nothing]}
    BY <1>0, <1>11 DEF DeleteTask, Rest
  <2>3. \A u \in Users, i \in Jobs : crontab'[u][i] # Nothing => Seen(u, i)
    BY <1>0, <1>c, <2>1, <2>2 DEF Seen
  <2> QED
    BY <1>h, <1>o, <1>s, <2>1, <2>3
<1>12. ASSUME NEW t \in Threads, FinishTasks(t) PROVE Home'
  <2>1. pc[t] # "idle" /\ UNCHANGED <<drawn, store, crontab, failed>> /\ Return(t)
    BY <1>12 DEF FinishTasks
  <2> QED
    BY <1>o, <1>r, <1>s, <1>t, <2>1
<1>13. ASSUME NEW t \in Threads, Rollback(t) PROVE Home'
  <2>1. pc[t] # "idle" /\ UNCHANGED <<drawn, crontab>> /\ Return(t)
        /\ failed' \subseteq failed \cup {call[t].job}
    BY <1>13 DEF Rollback, ReturnError
  <2>2. \A u \in Users, j \in Jobs : Owned(j, u)' => Seen(u, j)
    BY <1>13, <1>o, <1>p, <2>1 DEF Rollback, PersistThrows, StoreUnchanged
  <2> QED
    BY <1>r, <1>s, <1>t, <2>1, <2>2
<1>14. CASE CrashAndLoad
  <2>1. UNCHANGED <<store, crontab, drawn, failed>> /\ \A t \in Threads : pc'[t] = "idle"
    BY <1>0, <1>14 DEF CrashAndLoad, StoreDurable
  <2>2. \A u \in Users, j \in Jobs : Seen(u, j)' => Seen(u, j)
    BY <2>1 DEF Seen, Has, Owned
  <2> QED
    BY <2>1, <2>2, HomeKept DEF Home
<1>15. CASE UNCHANGED vars
  BY <1>15 DEF vars, Home, Seen, Has, Past, Owned
<1> QED
  BY <1>1, <1>2, <1>3, <1>4, <1>5, <1>6, <1>7, <1>8, <1>9, <1>10, <1>11, <1>12, <1>13, <1>14,
     <1>15 DEF Next, Step, CronUpdate, CronDelete

\* Home holds in every reachable state.
LEMMA HomeInvariant == Spec => []Home
<1>1. Init => Home
  BY DEF Init, Home, Seen, Has, Owned, NoTable
<1>2. TypeInv /\ TypeInv' /\ Home /\ [Next]_vars => Home'
  BY HomeStep
<1> QED
  BY <1>1, <1>2, TypeInvariant, PTL DEF Spec

-----------------------------------------------------------------------------
(* While a user's calls do not overlap. A call has its job to itself from   *)
(* the store on, so what it has done is still true at its next step.        *)

\* No two threads serve the same user.
One ==
    \A s, t \in Threads :
        pc[s] # "idle" /\ pc[t] # "idle" /\ call[s].user = call[t].user => s = t

\* What the steps of t's call so far have brought about.
Stage(t) ==
    LET j == call[t].job IN
    /\ Past(t) => j \notin settled
    /\ pc[t] = "meta" => (store[j] # Nothing => store[j].payload = call[t].payload)
    /\ pc[t] = "unmeta" => store[j] = Nothing
    /\ pc[t] \in {"list", "install", "query", "tasks"} =>
          (store[j] # Nothing => meta[j] = store[j].payload)
    /\ pc[t] \in {"install", "query", "tasks"} => list[t] = ListForUser(call[t].user)
    /\ "schtasks" \notin Faults /\ pc[t] = "tasks" =>
          \A i \in Jobs \ todo[t] : crontab[call[t].user][i] = list[t][i]
    /\ pc[t] # "idle" /\ call[t].op = "create" =>
          j \notin failed /\ (pc[t] = "store" => store[j] = Nothing)

Mine(t, j) == j = call[t].job /\ Seen(call[t].user, j)

\* What a step of thread t may change: its own call, the one job it serves, and that
\* only if it has to do with its user, and its user's schedule.
Frame(t) ==
    /\ \A s \in Threads \ {t} : /\ pc'[s] = pc[s] /\ call'[s] = call[s]
                                /\ list'[s] = list[s] /\ todo'[s] = todo[s]
    /\ pc'[t] # "idle" => call'[t] = call[t]
    /\ \A j \in Jobs : Mine(t, j) \/ /\ store'[j] = store[j] /\ meta'[j] = meta[j]
                                     /\ j \in settled' <=> j \in settled
                                     /\ j \in failed' <=> j \in failed
    /\ \A j \in Jobs : store'[j] \in {store[j], Nothing} \/ store'[j].owner = call[t].user
    /\ \A u \in Users \ {call[t].user} : crontab'[u] = crontab[u]

\* Every step of a call stays within its frame.
LEMMA Framed ==
  ASSUME TypeInv, NEW t \in Threads, Step(t)
  PROVE  Frame(t) /\ pc[t] # "idle"
<1>0. /\ OwnStore /\ OwnCrontab /\ OwnCalls /\ Rest /\ Tools
      /\ pc \in [Threads -> Pcs] /\ call \in [Threads -> Call] /\ list \in [Threads -> Table]
      /\ todo \in [Threads -> SUBSET Jobs] /\ meta \in [Jobs -> Maybe(Payload)]
      /\ store \in [Jobs -> Maybe(Job)] /\ crontab \in [Users -> Table]
  BY DEF TypeInv, OwnerInv, OwnCalls, OwnCrontab, OwnStore, Rest
<1>1. pc[t] # "idle"
  BY DEF Step, Add, Update, Remove, WriteMeta, RemoveMeta, List, Install, Query, CreateTask,
         DeleteTask, FinishTasks, Rollback
<1>2. /\ call[t].user \in Users /\ call[t].job \in Jobs
  BY <1>0, <1>1 DEF OwnCalls, OwnCall
<1> DEFINE Others == \A s \in Threads \ {t} : /\ pc'[s] = pc[s] /\ call'[s] = call[s]
                                              /\ list'[s] = list[s] /\ todo'[s] = todo[s]
           Mind == Others /\ (pc'[t] # "idle" => call'[t] = call[t])
           Failure == failed' = failed \/ (call[t].op = "create" /\ failed' = failed \cup {call[t].job})
<1>r. ASSUME Return(t) PROVE Mind
  BY <1>0, <1>r DEF Return
<1>g. ASSUME NEW next, Goto(t, next) PROVE Mind
  BY <1>0, <1>g DEF Goto
<1>e. ASSUME ReturnError(t) PROVE Mind /\ Failure
  BY <1>e, <1>r DEF ReturnError
<1>b. ASSUME BackendThrows(t) PROVE Mind /\ Failure
  BY <1>b, <1>e, <1>g DEF BackendThrows
<1>s. (call[t].op = "create" \/ Past(t)) => Seen(call[t].user, call[t].job)
  BY <1>1 DEF Seen, Has
<1>3. Mind /\ Failure
  <2>1. CASE Add(t)
    BY <1>e, <1>g, <2>1 DEF Add
  <2>2. CASE Update(t)
    BY <1>0, <1>e, <2>2 DEF Update
  <2>3. CASE Remove(t)
    BY <1>e, <1>g, <2>3 DEF Remove
  <2>4. CASE WriteMeta(t) \/ RemoveMeta(t) \/ Install(t)
    BY <1>b, <1>g, <1>r, <2>4 DEF WriteMeta, RemoveMeta, Install
  <2>5. CASE List(t) \/ DeleteTask(t)
    BY <1>0, <2>5 DEF List, DeleteTask
  <2>6. CASE Query(t) \/ CreateTask(t)
    BY <1>0, <1>b, <2>6 DEF Query, CreateTask
  <2>7. CASE FinishTasks(t) \/ Rollback(t)
    BY <1>e, <1>r, <2>7 DEF FinishTasks, Rollback
  <2> QED
    BY <2>1, <2>2, <2>3, <2>4, <2>5, <2>6, <2>7 DEF Step
<1> DEFINE Kept(j) == store'[j] = store[j] /\ meta'[j] = meta[j] /\ (j \in settled' <=> j \in settled)
<1> HIDE DEF Others, Mind, Failure
<1>p. ASSUME NEW v, Persist(call[t].job, v), v = Nothing \/ v.owner = call[t].user
      PROVE  /\ \A j \in Jobs : j # call[t].job => store'[j] = store[j] /\ (j \in settled' <=> j \in settled)
             /\ \A j \in Jobs : store'[j] \in {store[j], Nothing} \/ store'[j].owner = call[t].user
  BY <1>0, <1>p DEF Persist
<1>o. Owned(call[t].job, call[t].user) => Seen(call[t].user, call[t].job)
  BY DEF Seen
<1>4. /\ \A j \in Jobs : Mine(t, j) \/ Kept(j)
      /\ \A j \in Jobs : store'[j] \in {store[j], Nothing} \/ store'[j].owner = call[t].user
  <2>1. CASE Add(t)
    BY <1>p, <1>s, <2>1 DEF Add, PersistThrows, StoreUnchanged, Mine
  <2>2. CASE Update(t)
    <3>1. ASSUME Owned(call[t].job, call[t].user)
          PROVE  [owner |-> store[call[t].job].owner, payload |-> call[t].payload].owner = call[t].user
      BY <3>1 DEF Owned
    <3> QED
      BY <1>o, <1>p, <2>2, <3>1 DEF Update, PersistThrows, StoreUnchanged, Mine
  <2>3. CASE Remove(t)
    BY <1>o, <1>p, <2>3 DEF Remove, PersistThrows, StoreUnchanged, Mine
  <2>4. CASE WriteMeta(t) \/ RemoveMeta(t)
    BY <1>0, <1>s, <2>4 DEF WriteMeta, RemoveMeta, Mine, Past
  <2>5. CASE List(t) \/ DeleteTask(t) \/ Query(t) \/ CreateTask(t)
    BY <2>5 DEF List, DeleteTask, Query, CreateTask
  <2>6. CASE FinishTasks(t) \/ Install(t)
    BY <1>s, <2>6 DEF FinishTasks, Install, Mine, Past
  <2>7. CASE Rollback(t)
    BY <1>o, <1>p, <2>7 DEF Rollback, PersistThrows, StoreUnchanged, Mine
  <2> QED
    BY <2>1, <2>2, <2>3, <2>4, <2>5, <2>6, <2>7 DEF Step
<1>5. \A u \in Users \ {call[t].user} : crontab'[u] = crontab[u]
  BY <1>0, <1>2 DEF Step, Add, Update, Remove, WriteMeta, RemoveMeta, List, Install, Query,
     CreateTask, DeleteTask, FinishTasks, Rollback
<1>6. \A j \in Jobs : Mine(t, j) \/ (j \in failed' <=> j \in failed)
  BY <1>3, <1>s DEF Failure, Mine
<1> QED
  BY <1>1, <1>3, <1>4, <1>5, <1>6 DEF Frame, Mind, Others

\* A step of thread t leaves alone what another call has brought about.
LEMMA OthersStage ==
  ASSUME TypeInv, Home, One, NEW t \in Threads, pc[t] # "idle", Frame(t),
         NEW s \in Threads \ {t}, Stage(s)
  PROVE  Stage(s)'
<1>0. pc'[s] = pc[s] /\ call'[s] = call[s] /\ list'[s] = list[s] /\ todo'[s] = todo[s]
  BY DEF Frame
<1>1. CASE pc[s] = "idle"
  BY <1>0, <1>1 DEF Stage, Past
<1>2. CASE pc[s] # "idle"
  <2>1. /\ call[s].user \in Users /\ call[s].job \in Jobs
        /\ call[t].user \in Users /\ call[t].job \in Jobs
    BY <1>2 DEF TypeInv, OwnerInv, OwnCalls, OwnCall
  <2>2. call[s].user # call[t].user
    BY <1>2 DEF One
  <2>3. ASSUME NEW j \in Jobs, Seen(call[s].user, j)
        PROVE  /\ store'[j] = store[j] /\ meta'[j] = meta[j]
               /\ j \in settled' <=> j \in settled
               /\ j \in failed' <=> j \in failed
    BY <2>1, <2>2, <2>3 DEF Frame, Mine, Home
  <2>4. crontab'[call[s].user] = crontab[call[s].user]
    BY <2>1, <2>2 DEF Frame
  <2>5. ListForUser(call[s].user)' = ListForUser(call[s].user)
    <3>1. ASSUME NEW j \in Jobs, ~Owned(j, call[s].user)
          PROVE  ~(store'[j] # Nothing /\ store'[j].owner = call[s].user)
      BY <2>1, <2>2, <3>1 DEF Frame, Owned
    <3>2. ASSUME NEW j \in Jobs, Owned(j, call[s].user) PROVE store'[j] = store[j]
      BY <2>3, <3>2 DEF Seen
    <3> QED
      BY <1>0, <3>1, <3>2 DEF ListForUser, Owned
  <2>6. ASSUME Past(s) \/ call[s].op = "create"
        PROVE  /\ store'[call[s].job] = store[call[s].job] /\ meta'[call[s].job] = meta[call[s].job]
               /\ call[s].job \in settled' <=> call[s].job \in settled
               /\ call[s].job \in failed' <=> call[s].job \in failed
    BY <1>2, <2>1, <2>3, <2>6 DEF Seen, Has
  <2> QED
    BY <1>0, <1>2, <2>4, <2>5, <2>6 DEF Stage, Past
<1> QED
  BY <1>1, <1>2

\* The calls stay apart.
LEMMA OneStep ==
  ASSUME OneAtATime, TypeInv, One, [Next]_vars
  PROVE  One'
<1>0. pc \in [Threads -> Pcs] /\ call \in [Threads -> Call]
  BY DEF TypeInv, OwnerInv, OwnCalls
<1>1. ASSUME NEW t \in Threads, NEW op, NEW u \in Users, NEW j, NEW p, Begin(t, op, u, j, p)
      PROVE  One'
  <2>1. [op |-> op, user |-> u, job |-> j, payload |-> p].user = u
    OBVIOUS
  <2>2. call'[t].user = u /\ \A s \in Threads \ {t} : pc'[s] = pc[s] /\ call'[s] = call[s]
    BY <1>0, <1>1, <2>1 DEF Begin
  <2>3. \A s \in Threads : pc[s] # "idle" => call[s].user # u
    BY <1>1 DEF Begin, InProgress
  <2> QED
    BY <2>2, <2>3 DEF One
<1>2. ASSUME NEW t \in Threads, Step(t) PROVE One'
  BY <1>2, Framed DEF Frame, One
<1>3. CASE CrashAndLoad
  BY <1>3 DEF CrashAndLoad, One
<1>4. CASE UNCHANGED vars
  BY <1>4 DEF vars, One
<1> QED
  BY <1>1, <1>2, <1>3, <1>4 DEF Next, CronCreate, CronUpdate, CronDelete

\* Each step of a call brings about what its next step relies on.
LEMMA OwnStage ==
  ASSUME TypeInv, Home, One, NEW t \in Threads, Stage(t), Step(t)
  PROVE  Stage(t)'
<1>0. /\ OwnStore /\ OwnCrontab /\ OwnCalls /\ Rest /\ Tools
      /\ pc \in [Threads -> Pcs] /\ call \in [Threads -> Call] /\ list \in [Threads -> Table]
      /\ todo \in [Threads -> SUBSET Jobs] /\ meta \in [Jobs -> Maybe(Payload)]
      /\ store \in [Jobs -> Maybe(Job)] /\ crontab \in [Users -> Table]
  BY DEF TypeInv, OwnerInv, OwnCalls, OwnCrontab, OwnStore, Rest
<1>1. pc[t] # "idle" /\ Frame(t)
  BY Framed
<1>2. call[t].user \in Users /\ call[t].job \in Jobs
  BY <1>0, <1>1 DEF OwnCalls, OwnCall
<1>i. pc'[t] = "idle" => Stage(t)'
  BY DEF Stage, Past
<1>r. Return(t) => pc'[t] = "idle"
  BY <1>0 DEF Return
<1>b. ASSUME BackendThrows(t), Past(t), settled' = settled
      PROVE  Stage(t)'
  <2>1. CASE call[t].op # "create"
    BY <1>b, <1>i, <1>r, <2>1 DEF BackendThrows, ReturnError
  <2>2. CASE call[t].op = "create"
    <3>1. pc'[t] = "rollback" /\ call'[t] = call[t] /\ failed' = failed
      BY <1>0, <1>b, <2>2 DEF BackendThrows, Goto
    <3> QED
      BY <1>1, <1>b, <3>1 DEF Stage, Past
  <2> QED
    BY <2>1, <2>2
<1>3. CASE Add(t)
  <2>1. CASE /\ Persist(call[t].job, [owner |-> call[t].user, payload |-> call[t].payload])
             /\ Goto(t, "meta") /\ failed' = failed
    <3>1. /\ pc'[t] = "meta" /\ call'[t] = call[t] /\ call[t].job \notin settled'
          /\ store'[call[t].job].payload = call[t].payload
      BY <1>0, <1>2, <2>1 DEF Persist, Goto
    <3> QED
      BY <1>1, <2>1, <3>1 DEF Stage, Past
  <2> QED
    BY <1>3, <1>i, <1>r, <2>1 DEF Add, ReturnError
<1>4. CASE Update(t)
  <2>1. CASE /\ Persist(call[t].job, [owner |-> store[call[t].job].owner, payload |-> call[t].payload])
             /\ pc' = [pc EXCEPT ![t] = "meta"] /\ UNCHANGED call /\ failed' = failed
    <3>1. /\ pc'[t] = "meta" /\ call'[t] = call[t] /\ call[t].job \notin settled'
          /\ store'[call[t].job].payload = call[t].payload
      BY <1>0, <1>2, <2>1 DEF Persist
    <3> QED
      BY <1>1, <2>1, <3>1 DEF Stage, Past
  <2> QED
    BY <1>4, <1>i, <1>r, <2>1 DEF Update, ReturnError
<1>5. CASE Remove(t)
  <2>1. CASE Persist(call[t].job, Nothing) /\ Goto(t, "unmeta") /\ failed' = failed
    <3>1. /\ pc'[t] = "unmeta" /\ call'[t] = call[t] /\ call[t].job \notin settled'
          /\ store'[call[t].job] = Nothing
      BY <1>0, <1>2, <2>1 DEF Persist, Goto
    <3> QED
      BY <1>1, <2>1, <3>1 DEF Stage, Past
  <2> QED
    BY <1>5, <1>i, <1>r, <2>1 DEF Remove, ReturnError
<1>6. CASE WriteMeta(t)
  <2>1. CASE /\ meta' = [meta EXCEPT ![call[t].job] = call[t].payload] /\ Goto(t, "list")
             /\ failed' = failed
    <3>1. /\ pc'[t] = "list" /\ call'[t] = call[t] /\ UNCHANGED <<store, settled>>
          /\ meta'[call[t].job] = call[t].payload /\ pc[t] = "meta"
      BY <1>0, <1>2, <1>6, <2>1 DEF WriteMeta, Goto
    <3> QED
      BY <2>1, <3>1 DEF Stage, Past
  <2>2. CASE BackendThrows(t)
    BY <1>6, <1>b, <2>2 DEF WriteMeta, Past
  <2> QED
    BY <1>6, <2>1, <2>2 DEF WriteMeta
<1>7. CASE RemoveMeta(t)
  <2>1. /\ pc'[t] = "list" /\ call'[t] = call[t] /\ UNCHANGED <<store, settled, failed>>
        /\ pc[t] = "unmeta"
    BY <1>0, <1>7 DEF RemoveMeta, Goto
  <2> QED
    BY <2>1 DEF Stage, Past
<1>8. CASE List(t)
  <2>1. /\ pc'[t] \in {"install", "query"} /\ call'[t] = call[t]
        /\ UNCHANGED <<store, settled, failed, meta>> /\ pc[t] = "list"
        /\ list'[t] = ListForUser(call[t].user)
    BY <1>0, <1>8 DEF List
  <2>2. ListForUser(call[t].user)' = ListForUser(call[t].user)
    BY <2>1 DEF ListForUser, Owned
  <2> QED
    BY <2>1, <2>2 DEF Stage, Past
<1>9. CASE Install(t)
  BY <1>9, <1>b, <1>i, <1>r DEF Install, Past
<1>10. CASE Query(t)
  <2>1. CASE /\ \/ todo' = [todo EXCEPT ![t] = Wanted(t) \cup OnBox(call[t].user)]
                \/ "schtasks" \in Faults /\ todo' = [todo EXCEPT ![t] = Wanted(t)]
             /\ pc' = [pc EXCEPT ![t] = "tasks"] /\ UNCHANGED <<call, before, list, failed>>
    <3>1. /\ pc'[t] = "tasks" /\ call'[t] = call[t] /\ list'[t] = list[t] /\ pc[t] = "query"
          /\ UNCHANGED <<store, settled, failed, meta, crontab>>
          /\ "schtasks" \notin Faults => todo'[t] = Wanted(t) \cup OnBox(call[t].user)
      BY <1>0, <1>10, <2>1 DEF Query
    <3>2. ListForUser(call[t].user)' = ListForUser(call[t].user)
      BY <3>1 DEF ListForUser, Owned
    <3>3. \A i \in Jobs \ (Wanted(t) \cup OnBox(call[t].user)) :
             crontab[call[t].user][i] = list[t][i]
      BY DEF Wanted, OnBox
    <3> QED
      BY <3>1, <3>2, <3>3 DEF Stage, Past
  <2>2. CASE BackendThrows(t)
    BY <1>10, <1>b, <2>2 DEF Query, Past
  <2> QED
    BY <1>10, <2>1, <2>2 DEF Query
<1>d. ASSUME NEW j \in Jobs, pc[t] = "tasks", UNCHANGED <<pc, call, list, failed, store, settled, meta>>,
             todo' = [todo EXCEPT ![t] = @ \ {j}],
             \/ crontab' = [crontab EXCEPT ![call[t].user][j] = list[t][j]]
             \/ "schtasks" \in Faults
      PROVE  Stage(t)'
  <2>1. ListForUser(call[t].user)' = ListForUser(call[t].user)
    BY <1>d DEF ListForUser, Owned
  <2>2. todo'[t] = todo[t] \ {j}
    BY <1>0, <1>d
  <2>3. ASSUME "schtasks" \notin Faults, NEW i \in Jobs \ todo'[t]
        PROVE  crontab'[call[t].user][i] = list[t][i]
    <3>1. crontab[call[t].user] \in [Jobs -> Maybe(Payload)]
      BY <1>0, <1>2 DEF Table
    <3>2. crontab'[call[t].user] = [crontab[call[t].user] EXCEPT ![j] = list[t][j]]
      BY <1>0, <1>2, <1>d, <2>3
    <3>3. i # j => crontab[call[t].user][i] = list[t][i]
      BY <1>d, <2>2, <2>3 DEF Stage
    <3> QED
      BY <3>1, <3>2, <3>3
  <2> QED
    BY <1>d, <2>1, <2>3 DEF Stage, Past
<1>11. CASE CreateTask(t)
  <2>1. PICK j \in todo[t] \cap Wanted(t) :
           \/ /\ crontab' = [crontab EXCEPT ![call[t].user][j] = list[t][j]]
              /\ todo' = [todo EXCEPT ![t] = @ \ {j}]
              /\ UNCHANGED <<pc, call, before, list, failed>>
           \/ BackendThrows(t)
    BY <1>11 DEF CreateTask
  <2>2. pc[t] = "tasks" /\ UNCHANGED <<store, settled, meta>> /\ j \in Jobs
    BY <1>11, <2>1 DEF CreateTask, Wanted
  <2> QED
    BY <1>b, <1>d, <2>1, <2>2 DEF Past
<1>12. CASE DeleteTask(t)
  <2>1. PICK j \in todo[t] :
           /\ \/ crontab' = [crontab EXCEPT ![call[t].user][j] = Nothing]
              \/ "schtasks" \in Faults /\ crontab' = crontab
           /\ todo' = [todo EXCEPT ![t] = @ \ {j}]
    BY <1>12 DEF DeleteTask
  <2>2. j \in Jobs /\ list[t][j] = Nothing
    BY <1>0, <1>12, <2>1 DEF DeleteTask, Wanted
  <2> QED
    BY <1>12, <1>d, <2>1, <2>2 DEF DeleteTask
<1>13. CASE FinishTasks(t) \/ Rollback(t)
  BY <1>13, <1>i, <1>r DEF FinishTasks, Rollback, ReturnError
<1> QED
  BY <1>3, <1>4, <1>5, <1>6, <1>7, <1>8, <1>9, <1>10, <1>11, <1>12, <1>13 DEF Step

Stages == \A t \in Threads : Stage(t)

\* Every step of a reachable state preserves the stages.
LEMMA StagesStep ==
  ASSUME TypeInv, Home, One, Stages, [Next]_vars
  PROVE  Stages'
<1>0. /\ pc \in [Threads -> Pcs] /\ call \in [Threads -> Call] /\ list \in [Threads -> Table]
      /\ todo \in [Threads -> SUBSET Jobs] /\ store \in [Jobs -> Maybe(Job)] /\ StoreDurable
  BY DEF TypeInv, OwnerInv, OwnCalls, OwnStore, Rest
<1>1. ASSUME NEW t \in Threads, NEW op, NEW u \in Users, NEW j \in Jobs, NEW p, Begin(t, op, u, j, p),
             op = "create" => j \notin drawn
      PROVE  Stages'
  <2> DEFINE c == [op |-> op, user |-> u, job |-> j, payload |-> p]
  <2>1. c.op = op /\ c.job = j /\ c.user = u
    OBVIOUS
  <2> HIDE DEF c
  <2>2. call'[t] = c /\ pc'[t] = "store" /\ UNCHANGED <<store, meta, crontab, list, todo, failed, settled>>
        /\ \A s \in Threads \ {t} : pc'[s] = pc[s] /\ call'[s] = call[s]
    BY <1>0, <1>1 DEF Begin, c
  <2>3. \A v : ListForUser(v)' = ListForUser(v)
    BY <2>2 DEF ListForUser, Owned
  <2>4. ASSUME op = "create" PROVE j \notin failed /\ store[j] = Nothing
    <3>1. j \notin failed /\ \A v \in Users : ~Seen(v, j)
      BY <1>1, <2>4 DEF Home
    <3>2. store[j] # Nothing => store[j].owner \in Users
      BY <1>0 DEF Maybe, Job
    <3> QED
      BY <3>1, <3>2 DEF Seen, Owned
  <2>5. Stage(t)'
    BY <2>1, <2>2, <2>4 DEF Stage, Past
  <2>6. ASSUME NEW s \in Threads \ {t} PROVE Stage(s)'
    BY <2>2, <2>3 DEF Stages, Stage, Past
  <2> QED
    BY <2>5, <2>6 DEF Stages
<1>2. ASSUME NEW t \in Threads, Step(t) PROVE Stages'
  BY <1>2, Framed, OthersStage, OwnStage DEF Stages
<1>3. CASE CrashAndLoad
  BY <1>3 DEF CrashAndLoad, Stages, Stage, Past
<1>4. CASE UNCHANGED vars
  BY <1>4 DEF vars, Stages, Stage, Past, ListForUser, Owned
<1>5. ASSUME NEW t \in Threads, NEW u \in Users, NEW e \in Edits, CronCreate(t, u, e)
      PROVE  Stages'
  BY <1>1, <1>5 DEF CronCreate
<1>6. ASSUME NEW t \in Threads, NEW u \in Users, NEW j \in Jobs, NEW e \in Edits,
             CronUpdate(t, u, j, e)
      PROVE  Stages'
  BY <1>1, <1>6 DEF CronUpdate
<1>7. ASSUME NEW t \in Threads, NEW u \in Users, NEW j \in Jobs, CronDelete(t, u, j)
      PROVE  Stages'
  BY <1>1, <1>7 DEF CronDelete
<1> QED
  BY <1>2, <1>3, <1>4, <1>5, <1>6, <1>7 DEF Next

\* While a user's calls do not overlap, every call has its job to itself.
LEMMA Apart ==
  ASSUME OneAtATime
  PROVE  Spec => [](TypeInv /\ Home /\ One /\ Stages)
<1>1. Init => One /\ Stages
  BY DEF Init, One, Stages, Stage, Past
<1>2. TypeInv /\ Home /\ One /\ Stages /\ [Next]_vars => One' /\ Stages'
  BY OneStep, StagesStep
<1> QED
  BY <1>1, <1>2, TypeInvariant, HomeInvariant, PTL DEF Spec

\* While a user's calls do not overlap, and whatever fails, a job whose cron_create was
\* answered with an error is neither stored nor on a list a schedule is about to be
\* built from.
THEOREM FailedCreateGone ==
  ASSUME OneAtATime
  PROVE  Spec => []FailedCreateLeavesNothing
<1> DEFINE Inv == TypeInv /\ Home /\ One /\ Stages
<1>1. Init => FailedCreateLeavesNothing
  BY DEF Init, FailedCreateLeavesNothing
<1>2. ASSUME Inv, Inv', FailedCreateLeavesNothing, [Next]_vars
      PROVE  FailedCreateLeavesNothing'
  <2>0. /\ pc \in [Threads -> Pcs] /\ call \in [Threads -> Call] /\ list \in [Threads -> Table]
        /\ store \in [Jobs -> Maybe(Job)] /\ StoreDurable
        /\ failed \subseteq Jobs /\ failed' \subseteq Jobs
    BY <1>2 DEF TypeInv, OwnerInv, OwnCalls, OwnStore, Rest
  <2>1. ASSUME NEW t \in Threads, NEW op, NEW u, NEW j, NEW p, Begin(t, op, u, j, p)
        PROVE  FailedCreateLeavesNothing'
    BY <1>2, <2>1 DEF Begin, FailedCreateLeavesNothing
  <2>2. ASSUME NEW t \in Threads, Step(t) PROVE FailedCreateLeavesNothing'
    <3>0. pc[t] # "idle" /\ Frame(t) /\ call[t].user \in Users /\ call[t].job \in Jobs
      BY <1>2, <2>2, Framed DEF TypeInv, OwnerInv, OwnCalls, OwnCall
    <3>1. ASSUME NEW j \in failed', j \in failed
          PROVE  store'[j] = Nothing /\ \A s \in Threads : list'[s][j] = Nothing
      <4>1. store[j] = Nothing /\ \A s \in Threads : list[s][j] = Nothing
        BY <1>2, <3>1 DEF FailedCreateLeavesNothing
      <4>2. store'[j] = Nothing
        <5>1. CASE Add(t)
          <6>1. j # call[t].job
            BY <1>2, <3>0, <3>1, <5>1 DEF Add, Stages, Stage
          <6> QED
            BY <2>0, <3>0, <4>1, <5>1, <6>1 DEF Add, Persist, PersistThrows, StoreUnchanged
        <5>2. CASE Update(t)
          <6>1. Owned(call[t].job, call[t].user) => j # call[t].job
            BY <4>1 DEF Owned
          <6> QED
            BY <2>0, <3>0, <4>1, <5>2, <6>1 DEF Update, Persist, PersistThrows, StoreUnchanged
        <5>3. CASE Remove(t) \/ Rollback(t)
          BY <2>0, <3>0, <4>1, <5>3 DEF Remove, Rollback, Persist, PersistThrows, StoreUnchanged
        <5> QED
          BY <2>2, <4>1, <5>1, <5>2, <5>3 DEF Step, WriteMeta, RemoveMeta, List, Install, Query,
             CreateTask, DeleteTask, FinishTasks
      <4>3. list'[t][j] = Nothing
        <5>1. Return(t) => list'[t][j] = Nothing
          BY <2>0, <3>1 DEF Return, NoTable
        <5>2. BackendThrows(t) => list'[t][j] = Nothing
          BY <4>1, <5>1 DEF BackendThrows, ReturnError, Goto
        <5>3. List(t) => list'[t][j] = Nothing
          BY <2>0, <3>1, <4>1 DEF List, ListForUser, Owned
        <5> QED
          BY <2>2, <4>1, <5>1, <5>2, <5>3 DEF Step, Add, Update, Remove, WriteMeta, RemoveMeta,
             Install, Query, CreateTask, DeleteTask, FinishTasks, Rollback, ReturnError, Goto
      <4> QED
        BY <3>0, <4>1, <4>2, <4>3 DEF Frame
    <3>2. ASSUME NEW j \in failed', j \notin failed
          PROVE  store'[j] = Nothing /\ \A s \in Threads : list'[s][j] = Nothing
      <4>1. Mine(t, j)
        BY <2>0, <3>0, <3>2 DEF Frame
      <4>2. /\ Return(t) /\ call[t].op = "create"
            /\ (Add(t) /\ StoreUnchanged) \/ (Rollback(t) /\ ReturnError(t))
        BY <2>2, <3>2 DEF Step, Add, Update, Remove, WriteMeta, RemoveMeta, List, Install, Query,
           CreateTask, DeleteTask, FinishTasks, Rollback, BackendThrows, ReturnError, PersistThrows
      <4>3. ASSUME Add(t), StoreUnchanged PROVE store'[j] = Nothing
        <5>1. store[call[t].job] = Nothing
          BY <1>2, <3>0, <4>3 DEF Add, Stages, Stage
        <5>2. store' = store /\ j = call[t].job
          BY <4>1, <4>3 DEF StoreUnchanged, Mine
        <5> QED
          BY <5>1, <5>2
      <4>4. ASSUME Rollback(t), ReturnError(t) PROVE store'[j] = Nothing
        <5>1. ASSUME store[j] # Nothing PROVE Owned(j, call[t].user)
          <6>1. store[j].owner \in Users
            BY <2>0, <3>0, <4>1, <5>1 DEF Maybe, Job, Mine
          <6> QED
            BY <1>2, <3>0, <4>1, <5>1, <6>1 DEF Home, Seen, Owned, Mine
        <5>2. /\ \/ Persist(call[t].job, Nothing)
                 \/ ~Owned(call[t].job, call[t].user) /\ store' = store
              /\ j = call[t].job
          BY <3>2, <4>1, <4>4 DEF Rollback, StoreUnchanged, Mine
        <5>3. Persist(call[t].job, Nothing) => store'[call[t].job] = Nothing
          BY <2>0, <3>0 DEF Persist
        <5> QED
          BY <5>1, <5>2, <5>3
      <4>5. store'[j] = Nothing
        BY <4>2, <4>3, <4>4
      <4>6. list'[t][j] = Nothing
        BY <2>0, <3>2, <4>2 DEF Return, NoTable
      <4>7. ASSUME NEW s \in Threads \ {t} PROVE list'[s][j] = Nothing
        <5>1. list'[s] = list[s]
          BY <3>0 DEF Frame
        <5>2. ASSUME list[s][j] # Nothing PROVE FALSE
          <6>1. pc[s] # "idle" /\ call[s].user \in Users
            BY <1>2, <3>0, <4>1, <5>2 DEF TypeInv, OwnerInv, OwnCalls, OwnCall, NoTable, Mine
          <6>2. Seen(call[s].user, j)
            BY <5>2, <6>1 DEF Seen, Has
          <6> QED
            BY <1>2, <3>0, <4>1, <6>1, <6>2 DEF Home, One, Mine
        <5> QED
          BY <5>1, <5>2
      <4> QED
        BY <4>5, <4>6, <4>7
    <3> QED
      BY <3>1, <3>2 DEF FailedCreateLeavesNothing
  <2>3. CASE CrashAndLoad
    BY <1>2, <2>0, <2>3 DEF CrashAndLoad, FailedCreateLeavesNothing, StoreDurable, NoTable
  <2>4. CASE UNCHANGED vars
    BY <1>2, <2>4 DEF vars, FailedCreateLeavesNothing
  <2> QED
    BY <1>2, <2>1, <2>2, <2>3, <2>4 DEF Next, CronCreate, CronUpdate, CronDelete
<1>3. Spec => []Inv
  BY Apart
<1> HIDE DEF Inv
<1> QED
  BY <1>1, <1>2, <1>3, PTL DEF Spec

\* The call whose step settles a job has written its user's whole schedule.
LEMMA Settling ==
  ASSUME TypeInv, Stages, "schtasks" \notin Faults, NEW t \in Threads, Step(t),
         NEW j \in settled', j \notin settled
  PROVE  /\ j = call[t].job /\ pc[t] \in {"install", "tasks"} /\ UNCHANGED <<store, meta>>
         /\ crontab'[call[t].user] = ListForUser(call[t].user)
<1>0. /\ Stage(t) /\ OwnCalls /\ Rest /\ list \in [Threads -> Table]
      /\ crontab \in [Users -> Table] /\ todo \in [Threads -> SUBSET Jobs]
  BY DEF TypeInv, OwnerInv, OwnCalls, OwnCrontab, Rest, Stages
<1>1. (Install(t) /\ settled' = settled \cup {call[t].job}) \/ FinishTasks(t)
  BY DEF Step, Add, Update, Remove, WriteMeta, RemoveMeta, List, Install, Query, CreateTask,
         DeleteTask, Rollback, Persist, PersistThrows, StoreUnchanged
<1>2. CASE Install(t) /\ settled' = settled \cup {call[t].job}
  <2>1. call[t].user \in Users /\ pc[t] = "install" /\ UNCHANGED <<store, meta>>
    BY <1>0, <1>2 DEF Install, OwnCalls, OwnCall
  <2>2. crontab' = [crontab EXCEPT ![call[t].user] = list[t]]
    BY <1>2 DEF Install
  <2> QED
    BY <1>0, <1>2, <2>1, <2>2 DEF Stage
<1>3. CASE FinishTasks(t)
  <2>1. /\ call[t].user \in Users /\ pc[t] = "tasks" /\ todo[t] = {}
        /\ UNCHANGED <<store, meta, crontab>> /\ settled' = settled \cup {call[t].job}
    BY <1>0, <1>3 DEF FinishTasks, OwnCalls, OwnCall
  <2>2. \A i \in Jobs : crontab[call[t].user][i] = list[t][i]
    BY <1>0, <2>1 DEF Stage
  <2>3. crontab[call[t].user] = list[t]
    <3>1. crontab[call[t].user] \in [Jobs -> Maybe(Payload)] /\ list[t] \in [Jobs -> Maybe(Payload)]
      BY <1>0, <2>1 DEF Table
    <3> QED
      BY <2>2, <3>1
  <2> QED
    BY <1>0, <2>1, <2>3 DEF Stage
<1> QED
  BY <1>1, <1>2, <1>3

\* While a user's calls do not overlap and schtasks.exe does what it reports, a job
\* whose call was carried through stays in every schedule as the store has it, whatever
\* other calls, their failures at any step, and crashes do in between.
THEOREM SettledScheduled ==
  ASSUME OneAtATime, "schtasks" \notin Faults
  PROVE  Spec => []SettledIsScheduled
<1> DEFINE Inv == TypeInv /\ Home /\ One /\ Stages
<1>1. Init => SettledIsScheduled
  BY DEF Init, SettledIsScheduled
<1>2. ASSUME Inv, Inv', SettledIsScheduled, [Next]_vars
      PROVE  SettledIsScheduled'
  <2>0. /\ pc \in [Threads -> Pcs] /\ call \in [Threads -> Call] /\ list \in [Threads -> Table]
        /\ store \in [Jobs -> Maybe(Job)] /\ StoreDurable /\ crontab \in [Users -> Table]
        /\ settled \subseteq Jobs /\ settled' \subseteq Jobs /\ meta \in [Jobs -> Maybe(Payload)]
        /\ todo \in [Threads -> SUBSET Jobs]
    BY <1>2 DEF TypeInv, OwnerInv, OwnCalls, OwnStore, OwnCrontab, Rest
  <2>k. ASSUME UNCHANGED <<store, meta, crontab, settled>> PROVE SettledIsScheduled'
    BY <1>2, <2>k DEF SettledIsScheduled, ListForUser, Owned
  <2>1. ASSUME NEW t \in Threads, Step(t) PROVE SettledIsScheduled'
    <3>0. /\ pc[t] # "idle" /\ Frame(t) /\ call[t].user \in Users /\ call[t].job \in Jobs
          /\ Stage(t)
      BY <1>2, <2>1, Framed DEF TypeInv, OwnerInv, OwnCalls, OwnCall, Stages
    <3>l. ASSUME NEW j \in Jobs, store'[j] = store[j], NEW u \in Users
          PROVE  ListForUser(u)'[j] = ListForUser(u)[j]
      BY <3>l DEF ListForUser, Owned
    <3>1. ASSUME NEW j \in settled', j \in settled, NEW u \in Users
          PROVE  /\ crontab'[u][j] = ListForUser(u)'[j]
                 /\ store'[j] # Nothing => meta'[j] = store'[j].payload
      <4>1. /\ j \in Jobs /\ crontab[u][j] = ListForUser(u)[j]
            /\ store[j] # Nothing => meta[j] = store[j].payload
        BY <1>2, <2>0, <3>1 DEF SettledIsScheduled
      <4>2. store'[j] = store[j]
        BY <2>0, <2>1, <3>0, <3>1, <4>1 DEF Step, Add, Update, Remove, WriteMeta, RemoveMeta, List,
           Install, Query, CreateTask, DeleteTask, FinishTasks, Rollback, Persist, PersistThrows,
           StoreUnchanged
      <4>3. meta'[j] = meta[j]
        <5>1. Past(t) => j # call[t].job
          BY <3>0, <3>1 DEF Stage
        <5>2. CASE WriteMeta(t) \/ RemoveMeta(t)
          BY <2>0, <3>0, <4>1, <5>1, <5>2 DEF WriteMeta, RemoveMeta, Past
        <5> QED
          BY <2>1, <5>2 DEF Step, Add, Update, Remove, List, Install, Query, CreateTask, DeleteTask,
             FinishTasks, Rollback
      <4>4. crontab'[u][j] = ListForUser(u)[j]
        <5>1. CASE u # call[t].user
          BY <3>0, <4>1, <5>1 DEF Frame
        <5>2. CASE u = call[t].user
          <6>1. crontab[u] \in [Jobs -> Maybe(Payload)]
            BY <2>0 DEF Table
          <6>2. pc[t] \in {"install", "tasks"} => list[t] = ListForUser(u)
            BY <3>0, <5>2 DEF Stage
          <6>3. CASE Install(t)
            BY <2>0, <4>1, <5>2, <6>2, <6>3 DEF Install
          <6>4. CASE CreateTask(t)
            <7>1. PICK i \in Jobs : crontab' \in {crontab, [crontab EXCEPT ![u][i] = list[t][i]]}
              BY <2>0, <5>2, <6>4 DEF CreateTask
            <7>2. crontab'[u] \in {crontab[u], [crontab[u] EXCEPT ![i] = list[t][i]]}
              BY <2>0, <7>1
            <7>3. pc[t] = "tasks"
              BY <6>4 DEF CreateTask
            <7> QED
              BY <4>1, <6>1, <6>2, <7>2, <7>3
          <6>5. CASE DeleteTask(t)
            <7>1. PICK i \in todo[t] : crontab' = [crontab EXCEPT ![u][i] = Nothing]
              BY <5>2, <6>5 DEF DeleteTask
            <7>2. /\ i \in Jobs /\ list[t][i] = Nothing /\ pc[t] = "tasks"
                  /\ crontab'[u] = [crontab[u] EXCEPT ![i] = Nothing]
              BY <2>0, <6>5, <7>1 DEF DeleteTask, Wanted
            <7> QED
              BY <4>1, <6>1, <6>2, <7>2
          <6> QED
            BY <2>1, <4>1, <6>3, <6>4, <6>5 DEF Step, Add, Update, Remove, WriteMeta, RemoveMeta, List,
               Query, FinishTasks, Rollback
        <5> QED
          BY <5>1, <5>2
      <4> QED
        BY <3>l, <4>1, <4>2, <4>3, <4>4
    <3>2. ASSUME NEW j \in settled', j \notin settled, NEW u \in Users
          PROVE  /\ crontab'[u][j] = ListForUser(u)'[j]
                 /\ store'[j] # Nothing => meta'[j] = store'[j].payload
      <4>1. /\ j = call[t].job /\ pc[t] \in {"install", "tasks"} /\ UNCHANGED <<store, meta>>
            /\ crontab'[call[t].user] = ListForUser(call[t].user)
        BY <1>2, <2>1, <3>2, Settling
      <4>2. store[j] # Nothing => meta[j] = store[j].payload
        BY <3>0, <4>1 DEF Stage
      <4>3. ASSUME u # call[t].user PROVE crontab'[u][j] = ListForUser(u)[j]
        <5>1. Seen(call[t].user, j)
          BY <3>0, <4>1 DEF Seen, Has, Past
        <5>2. ~Seen(u, j)
          BY <1>2, <3>0, <4>1, <4>3, <5>1 DEF Home
        <5>3. crontab'[u][j] = Nothing
          BY <3>0, <4>3, <5>2 DEF Seen, Frame
        <5> QED
          BY <3>0, <4>1, <5>2, <5>3 DEF Seen, ListForUser
      <4> QED
        BY <3>0, <3>l, <4>1, <4>2, <4>3
    <3>3. ASSUME NEW j \in settled', NEW u \in Users
          PROVE  /\ crontab'[u][j] = ListForUser(u)'[j]
                 /\ store'[j] # Nothing => meta'[j] = store'[j].payload
      BY <3>1, <3>2
    <3> QED
      BY <3>0, <3>3 DEF SettledIsScheduled
  <2>2. ASSUME NEW t \in Threads, NEW op, NEW u, NEW j, NEW p, Begin(t, op, u, j, p)
        PROVE  SettledIsScheduled'
    BY <2>2, <2>k DEF Begin
  <2>3. CASE CrashAndLoad
    BY <2>0, <2>3, <2>k DEF CrashAndLoad, StoreDurable
  <2>4. CASE UNCHANGED vars
    BY <2>4, <2>k DEF vars
  <2> QED
    BY <1>2, <2>1, <2>2, <2>3, <2>4 DEF Next, CronCreate, CronUpdate, CronDelete
<1>3. Spec => []Inv
  BY Apart
<1> HIDE DEF Inv
<1> QED
  BY <1>1, <1>2, <1>3, PTL DEF Spec

\* Under the same conditions a call that succeeds leaves its user's whole schedule as
\* the store has it, whatever earlier failures left there.
THEOREM Rebuilt ==
  ASSUME OneAtATime, "schtasks" \notin Faults
  PROVE  Spec => RebuildExact
<1> DEFINE Inv == TypeInv /\ Home /\ One /\ Stages
           Exact == \A t \in Threads :
               (pc[t] \in {"install", "tasks"} /\ call[t].job \in settled' \ settled) =>
                   crontab'[call[t].user] = ListForUser(call[t].user)
<1>1. ASSUME Inv, Inv', Next PROVE Exact
  <2>1. ASSUME NEW s \in Threads, pc[s] \in {"install", "tasks"}, call[s].job \in settled' \ settled
        PROVE  crontab'[call[s].user] = ListForUser(call[s].user)
    <3>1. PICK t \in Threads : Step(t)
      BY <1>1, <2>1 DEF Next, CronCreate, CronUpdate, CronDelete, Begin, CrashAndLoad
    <3>2. /\ call[s].job = call[t].job /\ pc[t] \in {"install", "tasks"}
          /\ crontab'[call[t].user] = ListForUser(call[t].user)
      BY <1>1, <2>1, <3>1, Settling
    <3>3. /\ call[s].user \in Users /\ call[t].user \in Users /\ call[s].job \in Jobs
      BY <1>1, <2>1, <3>2 DEF TypeInv, OwnerInv, OwnCalls, OwnCall
    <3>4. Seen(call[s].user, call[s].job) /\ Seen(call[t].user, call[s].job)
      BY <2>1, <3>2 DEF Seen, Has, Past
    <3>5. call[s].user = call[t].user
      BY <1>1, <3>3, <3>4 DEF Home
    <3> QED
      BY <3>2, <3>5
  <2> QED
    BY <2>1
<1>2. Spec => []Inv
  BY Apart
<1>3. Inv /\ Inv' /\ [Next]_vars => [Exact]_vars
  BY <1>1
<1>4. RebuildExact <=> [][Exact]_vars
  BY DEF RebuildExact
<1> HIDE DEF Inv, Exact
<1> QED
  BY <1>2, <1>3, <1>4, PTL DEF Spec

-----------------------------------------------------------------------------
(* Schedules, for every set of numbers in fields and times. *)

Divisors == {1, 2, 3, 4, 5, 6, 10, 12, 15, 20, 30, 60}

\* The step values translate accepts after which the hour comes out even.
LEMMA DivisorsOf60 ==
  ASSUME NEW n \in MinuteSteps, 60 % n = 0 PROVE n \in Divisors
<1>0. n \in Nat \ {0}
  BY DEF MinuteSteps
<1>1. n \in 1..60
  <2>1. n > 60 => 60 % n = 60
    BY <1>0
  <2> QED
    BY <1>0, <2>1
<1>2. CASE n \in 1..30
  BY <1>2 DEF Divisors
<1>3. CASE n \in 31..60
  BY <1>3 DEF Divisors
<1> QED
  BY <1>1, <1>2, <1>3

\* From a multiple of such a step, also across the full hour, the next one is a step away.
LEMMA Period ==
  ASSUME NEW n \in Divisors, NEW m \in 0..59, m % n = 0, NEW k \in 1..n
  PROVE  ((m + k) % 60) % n = 0 <=> k = n
<1>1. CASE n = 1
  BY <1>1
<1>2. CASE n = 2
  BY <1>2
<1>3. CASE n = 3
  BY <1>3
<1>4. CASE n = 4
  BY <1>4
<1>5. CASE n = 5
  BY <1>5
<1>6. CASE n = 6
  BY <1>6
<1>7. CASE n = 10
  BY <1>7
<1>8. CASE n = 12
  BY <1>8
<1>9. CASE n = 15
  BY <1>9
<1>10. CASE n = 20
  BY <1>10
<1>11. CASE n = 30
  BY <1>11
<1>12. CASE n = 60
  BY <1>12
<1> QED
  BY <1>1, <1>2, <1>3, <1>4, <1>5, <1>6, <1>7, <1>8, <1>9, <1>10, <1>11, <1>12 DEF Divisors

\* What translate makes of an expression it accepts.
LEMMA Accepted ==
  ASSUME NEW e, translate(e) # Refused
  PROVE  /\ e.mon = Star
         /\ \/ /\ e.hr = Star /\ e.dom = Star /\ e.dow = Star
               /\ \/ e.min = Star /\ translate(e) = Task("MINUTE", 1, 0, 0, 0)
                  \/ /\ e.min.kind = "step" /\ e.min.n \in MinuteSteps
                     /\ translate(e) = Task("MINUTE", e.min.n, 0, 0, 0)
                  \/ /\ InRange(e.min, 0, 59)
                     /\ translate(e) = Task("HOURLY", 1, 0, 0, e.min.n)
            \/ /\ InRange(e.min, 0, 59) /\ InRange(e.hr, 0, 23)
               /\ \/ /\ e.dom = Star /\ IsWeekday(e.dow)
                     /\ translate(e) = Task("WEEKLY", 1, e.dow.n, e.hr.n, e.min.n)
                  \/ /\ e.dom = Star /\ e.dow = Star
                     /\ translate(e) = Task("DAILY", 1, 0, e.hr.n, e.min.n)
                  \/ /\ InRange(e.dom, 1, 31) /\ e.dow = Star
                     /\ translate(e) = Task("MONTHLY", 1, e.dom.n, e.hr.n, e.min.n)
<1>1. e.mon = Star
  BY DEF translate
<1>2. Star.kind = "any" /\ \A f, lo, hi : InRange(f, lo, hi) => f.kind = "number"
  BY DEF Star, Field, InRange
<1>3. CASE e.hr = Star /\ e.dom = Star /\ e.dow = Star
  <2>1. CASE e.min = Star
    <3>1. translate(e) = Task("MINUTE", 1, 0, 0, 0)
      BY <1>1, <1>2, <1>3, <2>1 DEF translate, MonthlyShape
    <3> QED
      BY <1>1, <1>3, <2>1, <3>1, Zenon
  <2>2. CASE e.min.kind = "step"
    <3>1. translate(e) = IF e.min.n \in MinuteSteps THEN Task("MINUTE", e.min.n, 0, 0, 0) ELSE Refused
      BY <1>1, <1>2, <1>3, <2>2 DEF translate, MonthlyShape
    <3>2. e.min.n \in MinuteSteps /\ translate(e) = Task("MINUTE", e.min.n, 0, 0, 0)
      BY <3>1
    <3> QED
      BY <1>1, <1>3, <2>2, <3>2, Zenon
  <2>3. CASE InRange(e.min, 0, 59)
    <3>1. translate(e) = Task("HOURLY", 1, 0, 0, e.min.n)
      BY <1>1, <1>2, <1>3, <2>3 DEF translate, MonthlyShape
    <3> QED
      BY <1>1, <1>3, <2>3, <3>1, Zenon
  <2>4. CASE e.min # Star /\ e.min.kind # "step" /\ ~InRange(e.min, 0, 59)
    <3>1. translate(e) = Refused
      BY <1>1, <1>3, <2>4 DEF translate
    <3> QED
      BY <3>1
  <2> QED
    BY <2>1, <2>2, <2>3, <2>4
<1>4. CASE ~(e.hr = Star /\ e.dom = Star /\ e.dow = Star)
  <2>1. InRange(e.min, 0, 59) /\ e.hr # Star
    <3>1. ~(InRange(e.min, 0, 59) /\ e.hr # Star) => translate(e) = Refused
      BY <1>1, <1>4 DEF translate, MonthlyShape
    <3> QED
      BY <3>1
  <2>2. CASE e.dom = Star /\ e.dow # Star
    <3>1. translate(e) = IF InRange(e.hr, 0, 23) /\ IsWeekday(e.dow)
                         THEN Task("WEEKLY", 1, e.dow.n, e.hr.n, e.min.n) ELSE Refused
      BY <1>1, <1>4, <2>1, <2>2 DEF translate, MonthlyShape
    <3>2. /\ InRange(e.hr, 0, 23) /\ IsWeekday(e.dow)
          /\ translate(e) = Task("WEEKLY", 1, e.dow.n, e.hr.n, e.min.n)
      BY <3>1
    <3> QED
      BY <1>1, <2>1, <2>2, <3>2, Zenon
  <2>3. CASE e.dom = Star /\ e.dow = Star
    <3>1. translate(e) = IF InRange(e.hr, 0, 23)
                         THEN Task("DAILY", 1, 0, e.hr.n, e.min.n) ELSE Refused
      BY <1>1, <1>4, <2>1, <2>3 DEF translate, MonthlyShape
    <3>2. InRange(e.hr, 0, 23) /\ translate(e) = Task("DAILY", 1, 0, e.hr.n, e.min.n)
      BY <3>1
    <3> QED
      BY <1>1, <2>1, <2>3, <3>2, Zenon
  <2>4. CASE e.dom # Star /\ e.dow = Star
    <3>1. translate(e) = IF InRange(e.hr, 0, 23) /\ InRange(e.dom, 1, 31)
                         THEN Task("MONTHLY", 1, e.dom.n, e.hr.n, e.min.n) ELSE Refused
      BY <1>1, <1>4, <2>1, <2>4 DEF translate, MonthlyShape
    <3>2. /\ InRange(e.hr, 0, 23) /\ InRange(e.dom, 1, 31)
          /\ translate(e) = Task("MONTHLY", 1, e.dom.n, e.hr.n, e.min.n)
      BY <3>1
    <3> QED
      BY <1>1, <2>1, <2>4, <3>2, Zenon
  <2>5. CASE e.dom # Star /\ e.dow # Star
    <3>1. translate(e) = Refused
      BY <1>1, <1>4, <2>5 DEF translate, MonthlyShape
    <3> QED
      BY <3>1
  <2> QED
    BY <2>2, <2>3, <2>4, <2>5
<1> QED
  BY <1>3, <1>4

\* A field that is a number or a weekday is not "*", and matches itself.
LEMMA Matching ==
  ASSUME NEW f, NEW x
  PROVE  /\ f = Star => Matches(f, x)
         /\ \A lo, hi \in Nat : InRange(f, lo, hi) => f # Star /\ f.kind # "step"
                                                     /\ (Matches(f, x) <=> f.n = x)
         /\ IsWeekday(f) => f # Star /\ (Matches(f, x) <=> f.n = x)
BY DEF Star, Field, Matches, InRange, IsWeekday

\* Whatever combination of fields translate accepts, the task it makes runs at exactly the
\* minutes cron would have run the job, for all numbers in the fields and all times; for
\* "*/n" where n divides 60, as often.
THEOREM ExactTranslation == TranslationExact
<1> SUFFICES ASSUME NEW e \in Expressions, translate(e) # Refused
             PROVE  IF e.min.kind = "step"
                    THEN 60 % e.min.n = 0 => EveryNMinutes(e.min, translate(e).mo)
                    ELSE \A at \in Moments : TaskFires(translate(e), at) <=> CronFires(e, at)
  BY DEF TranslationExact
<1> DEFINE t == translate(e)
<1>1. CASE e.min.kind = "step"
  <2>1. e.min.n \in MinuteSteps /\ translate(e) = Task("MINUTE", e.min.n, 0, 0, 0)
    BY <1>1, Accepted DEF InRange, Star, Field
  <2>2. ASSUME 60 % e.min.n = 0 PROVE EveryNMinutes(e.min, e.min.n)
    <3> DEFINE n == e.min.n
    <3>0. n \in MinuteSteps /\ 60 % n = 0
      BY <2>1, <2>2
    <3>1. n \in Divisors
      <4> HIDE DEF n
      <4> QED
        BY <3>0, DivisorsOf60
    <3>2. \A x : Matches(e.min, x) <=> x % n = 0
      <4>1. n # 0
        <5> HIDE DEF n
        <5> QED
          BY <3>0 DEF MinuteSteps
      <4> QED
        BY <1>1, <4>1 DEF Matches
    <3> HIDE DEF n
    <3> SUFFICES ASSUME NEW m \in 0..59, Matches(e.min, m), NEW k \in 1..n
                 PROVE  Matches(e.min, (m + k) % 60) <=> k = n
      BY DEF EveryNMinutes, n
    <3> QED
      BY <3>1, <3>2, Period
  <2>3. translate(e).mo = e.min.n
    BY <2>1 DEF Task
  <2> QED
    BY <1>1, <2>2, <2>3
<1>2. ASSUME e.min.kind # "step", NEW at \in Moments PROVE TaskFires(t, at) <=> CronFires(e, at)
  <2>0. \A f, x : f = Star => Matches(f, x)
    BY Matching
  <2>1. CASE /\ e.hr = Star /\ e.dom = Star /\ e.dow = Star
             /\ e.min = Star /\ t = Task("MINUTE", 1, 0, 0, 0)
    BY <2>0, <2>1 DEF TaskFires, CronFires, Task
  <2>2. ASSUME InRange(e.min, 0, 59) PROVE Matches(e.min, at.min) <=> e.min.n = at.min
    BY <2>2, Matching
  <2>3. ASSUME InRange(e.hr, 0, 23) PROVE Matches(e.hr, at.hr) <=> e.hr.n = at.hr
    BY <2>3, Matching
  <2>4. CASE /\ e.hr = Star /\ e.dom = Star /\ e.dow = Star
             /\ InRange(e.min, 0, 59) /\ t = Task("HOURLY", 1, 0, 0, e.min.n)
    BY <2>0, <2>2, <2>4 DEF TaskFires, CronFires, Task
  <2>5. CASE /\ InRange(e.min, 0, 59) /\ InRange(e.hr, 0, 23)
             /\ e.dom = Star /\ IsWeekday(e.dow)
             /\ t = Task("WEEKLY", 1, e.dow.n, e.hr.n, e.min.n)
    <3>1. Matches(e.dow, at.dow) <=> e.dow.n = at.dow
      BY <2>5, Matching
    <3> QED
      BY <2>0, <2>2, <2>3, <2>5, <3>1 DEF TaskFires, CronFires, Task
  <2>6. CASE /\ InRange(e.min, 0, 59) /\ InRange(e.hr, 0, 23)
             /\ e.dom = Star /\ e.dow = Star
             /\ t = Task("DAILY", 1, 0, e.hr.n, e.min.n)
    BY <2>0, <2>2, <2>3, <2>6 DEF TaskFires, CronFires, Task
  <2>7. CASE /\ InRange(e.min, 0, 59) /\ InRange(e.hr, 0, 23)
             /\ InRange(e.dom, 1, 31) /\ e.dow = Star
             /\ t = Task("MONTHLY", 1, e.dom.n, e.hr.n, e.min.n)
    <3>1. Matches(e.dom, at.dom) <=> e.dom.n = at.dom
      BY <2>7, Matching
    <3> QED
      BY <2>0, <2>2, <2>3, <2>7, <3>1 DEF TaskFires, CronFires, Task
  <2> HIDE DEF t
  <2> QED
    BY <1>2, <2>1, <2>4, <2>5, <2>6, <2>7, Accepted DEF t
<1> QED
  BY <1>1, <1>2

\* A job that the cron tools accept on Windows runs exactly when cron would have run it,
\* in every reachable state of the cron store and its backends.
THEOREM RunsAsWritten == Spec => []AcceptedRunsAsWritten
<1>1. AcceptedRunsAsWritten
  BY ExactTranslation DEF AcceptedRunsAsWritten
<1> QED
  BY <1>1, PTL
=============================================================================
