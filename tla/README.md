# A verification project for MCP Bridge

TLA+ models, TLC runs and TLAPS proofs for the parts of MCP Bridge that keep
state or run things concurrently: time-limited grants, user records and bearer
tokens, sessions and the rate limit before them, cron jobs on both backends, the
webhook configuration copied to every user, the Windows privileged service, and
the execution of commands. Paths below are relative to the repository's `src/`
directory.

## 1. The system

`mcp_bridge daemon` is a multi-threaded HTTP server (cpp-httplib worker
threads) that runs as user `mcp`. Privileged work is done by a setuid helper,
`mcp_bridge-priv`, one process per verb. `mcp_bridge auth ...` and
`mcp_bridge webhook ...` are separate processes that edit files and send SIGHUP.
On Windows the privileged work is done by a service behind a named pipe, with a
thread per connection and no lock.

| Component | State | Operations | Talks to |
|---|---|---|---|
| GrantManager (`core/grants.cpp`) | `grants_` under a mutex; `grants.json`; `grant_<id>.spec` files | request_grant, revoke_grant, sweep_expired (own thread), reconcile_at_startup | helper (install-grant, revoke-grant) |
| helper (`priv/main.c`) | `/etc/sudoers.d`, passwd, state dirs | install-grant, revoke-grant, useradd, userdel, prepare/cleanup-user-state, write-runtime | files |
| UserStore, auth (`core/user_store.cpp`, `core/auth.cpp`) | index of records by token hash | load_all, lookup_by_hash, auth_resolve | record files |
| user tools (`tools/admin/user_ops.cpp`) | record files | user_create, user_update, user_delete | helper, UserStore |
| auth commands (`cli/`) | record files | create, rotate | helper; daemon by SIGHUP |
| SessionStore (`core/session.cpp`) | sessions with bearer hash and last_seen | issue, validate, invalidate, gc_locked | HTTP handlers |
| HTTP handlers (`core/server.cpp`) | reload flag, configuration | handle_reload, POST, GET | all of the above |
| RateLimiter (`core/rate_limiter.cpp`) | times of recent requests per user | allow | HTTP handlers |
| CronStore, cron tools, both backends (`core/cron_store.cpp`, `tools/scheduling/`) | `jobs_`, `crons.json`, metadata files; crontabs or scheduled tasks | add, update, remove, list; create/update/delete tools | `crontab`, run as the user; `schtasks.exe`, run by the Windows service |
| RuntimeSync, webhook command (`core/runtime_sync.cpp`, `cli/webhook_set.cpp`) | `mcp.json`, `config_`, each user's `runtime.json` | webhook set/clear, write_for_user, write_all | helper (write-runtime); daemon by SIGHUP |
| Windows service (`priv_win/`, `platform/windows/priv_client.cpp`) | accounts, LSA secrets, `user_sids.json`, grant files, `system_admin.json` | useradd, userdel, install/revoke grant and system admin, run_as, background starts, task verbs | daemon, by pipe |
| process execution (`platform/*/process_*.cpp`, `priv_win/operations.cpp`) | pipes and processes of the calls in progress | run_process, run_process_as, spawn_with_token, run_system_tool, background starts | every tool |
| GrantTemplate, JSON-RPC, router, tool registry, stateless tools | see `PROJECT.json` | | |

What is hard here: no transaction spans memory, a state file and the operating
system's own files, so every operation is a sequence of steps with crashes,
errors and other threads between them; helper processes report an exit code
that need not say what happened; user records are changed by several processes
with no common lock; the index, the crontab and sessions are rebuilt from
values read earlier; and a child process inherits what is open when it is forked.
`PROJECT.json` lists the hazards at their lines, each with the properties that
would catch it and, where the code does run into it, the setting of the constants
with which TLC shows so.

What makes each component correct:

* grants: a live drop-in is always one the daemon will remove; it is removed at
  its expiry and not before; a revocation that was reported holds for ever;
* users: a withdrawn token is refused and never recorded again; the index
  follows the records; a record always has an account behind it;
* sessions: only the bearer it was issued to is served, not after its end, and a
  session in use is not lost;
* rate limit: at most `max_rpm` requests of a user pass in any minute, nobody is
  refused below that, and users who are gone leave no bucket;
* cron: memory and file agree, each user's schedule runs his own current jobs,
  a failed creation leaves nothing, the user's own crontab lines survive, and a
  task runs when the cron expression says;
* Windows service: a user that was added can be logged on; only a live grant, for
  this account, elevates a command;
* process execution: output is captured whole, nothing is left behind, and a call
  returns;
* runtime sync: every user's `runtime.json` ends up with the webhook of
  `mcp.json`, and never with a mixture of two.

## 2. The modules

| Module | Models |
|---|---|
| `Grants` | GrantManager, the sweeper, the install and revoke verbs of the helper, crash and restart |
| `GrantLease` | abstract specification of a time-limited grant, implemented by `Grants` |
| `GrantsProofs` | theorems about `Grants` |
| `Users`, `UsersProofs` | records, OS accounts, index, SIGHUP reload, user tools, auth commands; theorems |
| `Sessions` | SessionStore under the POST and GET handlers |
| `RateLimiter` | the rate limiter before it: `allow` and the collection of its buckets |
| `SessionsProofs` | theorems about `Sessions` and `RateLimiter` |
| `Cron` | CronStore, cron tools, both backends |
| `Schedule` | `cron_to_schtasks::translate` and what the two schedulers do |
| `Crontab`, `CrontabProofs` | `rebuild_user_schedule` on Linux, line by line, and a user who edits his crontab; theorems |
| `CronWindows` | `Cron` and `Schedule` together: jobs as scheduled tasks |
| `CronProofs` | theorems about `Cron`, `Schedule` and `CronWindows` |
| `Runtime`, `RuntimeProofs` | `mcp.json`, configuration reload, `runtime.json` files, the helper's write-runtime, provisioning; theorems |
| `PrivService`, `PrivServiceProofs` | the Windows service's handlers, their callers, lost answers, restarts; theorems |
| `Exec`, `ExecProofs` | running a command and capturing its output, on both platforms; theorems |
| `MCGrants`, `MCUsers`, `MCSessions`, `MCCron`, `MCRuntime`, `MCPrivService`, `MCExec` | instances for TLC: symmetry sets, commands, and two specifications side by side (`Sessions` and `RateLimiter`, `Cron` and `Crontab`) |

A step of a model is what runs between two points where another actor can get
in: a critical section of a mutex, or one system call that changes a file. Each
definition's source lines are in the `map` of `PROJECT.json`. Operators marked
`(mutant)` are deliberately wrong versions of the definition that follows them;
no specification uses them. They show that a property can fail.

### Grants

`mem`, `disk` and `sudoers` are the sets of grant ids in `grants_`, in
`grants.json` and in `/etc/sudoers.d`. `request_grant` is `Request`,
`RequestPersist`, `SpawnInstall`, then (the helper running as `HelperStage` and
`HelperInstall`, or failing) `RequestFinish` or `RequestFail`. A thread inside
`revoke_grant` goes through `RevokeHelper` and `RevokeErase`; `SweepCollect` and
`SweepNext` are `sweep_expired`. `Start`, `ReconcileRemove` and `Serve` are the
constructor, `reconcile_at_startup` and the start of the sweeper and of the
listener. What may go wrong is a set of fault kinds in the constants
`HelperFaults` and `PersistFaults`. `TimelyInstall` says that no grant expires
while its helper runs (the smallest ttl is one second), `DirReadable` that the
daemon can list `/etc/sudoers.d`. The rendered line, template, user and audit
log are data and left out, and so is waiting for `sweep_interval`.

### Users

A token is a number per user: the n-th made for him. `rec[u]` is the token whose
hash the record file holds, `index[u]` the one under which the user is indexed,
`dead[u]` the latest token that was withdrawn and reported as such.
`load_all` is `Scan` (unlocked) and `Swap`. `Exclusive` says that administrators
wait for each other's changes to finish. `runtime.json`, written by user_create,
belongs to runtime sync and is not in this model, and neither is a missing
users directory.

### Sessions

`validate` and `issue` read the clock first and take the mutex later;
`MaxDelay` bounds that wait. `Request` picks the path a method takes;
`Finish` is dispatch, reply and, for `shutdown`, `invalidate`. Requests are
already authenticated (`Users`) and let through by the rate limiter.

### RateLimiter

`allow` is one critical section that reads the clock inside it, so its calls are
totally ordered in time: `Allow(key, gap)` is one call, `gap` after the one before.
`calls` is the history of calls and verdicts. A bucket of `requests_` holds the
times of calls that were let through; here it is the set of their numbers in the
history, which tells equal times apart and makes `back()` its largest number.
`Collect` is the loop that drops buckets and `known` the keys of the map; a bucket
that was dropped is empty, as `requests_[key]` makes it on the next call.
`Reconstruct` is a restart: the counts are not kept.

### Cron

A job's schedule, command, description and context are one payload: who sent it
and which of his it was. `pc`, `call`, `before`, `list` hold the tool calls in
progress. A failing backend command may have taken effect before it was killed.
`settled` and `failed` remember how calls ended. `OneAtATime` says that the
cron calls of one user do not overlap. On Linux a crontab is replaced in one step,
`Install`. On Windows it is `Query` (the tasks in the user's folder), then
`CreateTask` and `DeleteTask` one by one, where an error leaves the rest undone,
then `FinishTasks`; `todo` is what is left to do. The fault `schtasks` is a
failing `schtasks.exe` that the service reports as success.

### Schedule

What the Windows backend writes: fields as the translator tells them apart,
`translate`, and when cron and Task Scheduler fire. `TranslationExact` says that an
accepted expression fires at the same minutes; `CronWindows` joins it to the
state machine `Cron`, as an invariant of the states in which that backend runs.

### Crontab

A crontab is a sequence of lines, each the user's own, a tag, or the schedule line
of a job. `Read` is `read_user_crontab`, where a failing `crontab -l` reads nothing;
`KeepOrDrop` and `AppendBlock` are one turn of the two loops of
`build_crontab_text`, with its `skip_next`; `Write` is `write_user_crontab`, which
may fail. `Edit` is the user, who may put his lines anywhere but leaves the blocks of
the bridge whole, and who may also do so between `Read` and `Write`. What jobs
are on the list, and calls that overlap, are in `Cron`, where the rewrite is one
step.

### Runtime

`conf` is the webhook in `mcp.json`, `cfg` the one in the daemon's `config_`,
`run[u]` and `tmp[u]` the user's `runtime.json` and its temporary. All threads
and command processes are actors with one record each in `act`; a helper is part
of the actor that waits for it. `handle_reload` is `Load`, `Compare`, `Assign`,
then `write_all` as a `Visit` per record and `EndWalk`. A helper is `HelperOpen`
(which truncates whatever temporary is there), `HelperWrite` and `HelperRename`;
`at` says under which name the file it has open is now found, so two helpers of
one user can spoil each other's file as they can in reality. `ReadConfig` gives
a thread that reads `config_` during an assignment any mixture of the two
webhooks. `missed` and `broken` remember which failures were logged or printed.
`AfterReload` says that an administrator changes the webhook again only once the
daemon has read the last change. base64 between `write_for_user` and the helper
and the other settings of `mcp.json` are left out; record files are written in
one step.

### PrivService

`acct`, `lsa`, `ledger` and `files`/`admin` are the account database, the LSA
secrets, `user_sids.json` and the grant and admin records. A SID is a number never
used twice; a password is named after the account it was made for. A daemon thread
has at most one call in `act`; its handler is a chain of steps (`NetUserAdd`,
`StorePassword`, `SidAfterAdd`, `ReadLedger`, `OpenTmp`, `WriteTmp`, `MoveTmp`, ...)
that interleaves with all others. run_as is `LookupUser`, `CheckLedger`, `TryAdmin`,
`TryGrants`, then `AcquireToken` or the elevated `Spawn`. `Restart` ends all
handlers; with the fault `answer` a response is lost after the work was done.
`RecordSids` says whether a grant record carries a SID: what `request_grant` sends
does not, what the record's format provides for does. `holder`, `revoked`, `usable`
and a call's `over` and `calm` are history. `OneAtATime` says that useradd and
userdel calls do not overlap, `Readd` that useradd may name an existing account.
Passwords, ACLs and the audit log are data.

### Exec

A command is a shell and the worker it starts, described by how much it writes,
whether it ends by itself, whether SIGTERM ends it and whether the shell leaves it
in the background. `Begin`, `Start`, `CloseWriteEnd`, `Read`, `Eof`, `Wait` and
`WaitTimesOut` are a call's thread, `WorkerWrites`, `WorkerEnds`, `ShellExits` and
`TimeoutKills` its processes. A pipe holds `Cap` chunks. `heirs[c]` are the calls
whose processes were forked while `c`'s pipe was open for writing and so keep it
open; the reader sees its end only when they are gone. `cut` says why a capture is
not whole. The functions differ in what they do first, read or wait, and in where
a timeout and a limit apply. What is captured is a number of chunks; the command
line and the user switch are data.

## 3. The runs

| Run | Shows |
|---|---|
| `grants_tracking` | with a truthful helper, every way in which writing `grants.json` can fail, and two crashes: types, `NoUntrackedDropIn`, `RevokedMeansRemoved` |
| `grants_files` | with a helper killed at any point and grants expiring during installation: `MemOnDisk`, `NoEarlyRemoval`, `ReconcileExact` |
| `grants_lease` | under fairness: `ExpiredRemoved`, and the refinement `LeaseSpec` |
| `users` | types, `WithdrawnTokenRefused`, `IndexFresh`, `WithdrawnTokenStaysOut`, `ToolsKeepAccounts` |
| `sessions` | sessions: types, `ServedSessionIsOwn`, `InUseIsKept`; the rate limiter, with calls of two users at, below and above every boundary: types, `LimitHeld`, `RefusedAtLimit`, `BucketsCollected` |
| `cron` | on both backends, with failing steps and a crash: types, `StoreDurable`, `OnlyOwnerDecides`, `SettledIsScheduled`, `RebuildExact`, `FailedCreateLeavesNothing`, `AcceptedRunsAsWritten`; one crontab through rebuilds, failures and edits of the user: `CrontabTypeOK` (types and whole blocks), `TextExact` |
| `runtime` | with one failure or restart of any kind: types, `SyncedInOneRun`, `PairAsConfigured` |
| `priv` | overlapping handlers, failing steps, lost answers and restarts: types, `AddedUserRuns`, `ElevationIsCovered`, `BoundNotInherited` |
| `exec` | two commands at once, on either platform: types, `OutputComplete`, `NothingLeftBehind` and, under fairness, `Returns` |
| `grants_revoke_fails` | (violated) a failing revoke-grant is reported as a success and the grant forgotten |
| `cron_update_fails` | (violated) cron_update reports an error and keeps the change |
| `priv_grant_sid` | (violated) a grant record without a SID elevates a later account of the same name |

`MCSessions` and `MCCron` hold two specifications each that share no variable. In
their runs a behaviour is one of the first or one of the second, the other staying in
its initial state (`AllNext`): every reachable state of each is reached, and not
every pair of them.

The three violated runs are disagreements between the code and what its comments
or its README say; `findings` in `PROJECT.json` quotes both sides.

The assumptions of the passing runs are real ones, and dropping them is
instructive.

* `grants_*`: with `TimelyInstall = FALSE`, `NoUntrackedDropIn`,
  `RevokedMeansRemoved` and `ExpiredRemoved` fail: the sweeper revokes a grant
  whose helper has not yet renamed its file. With `DirReadable = FALSE`,
  `ReconcileExact` fails: every restart forgets every grant. That is also what
  the start does on Windows, where the directory does not exist.
* `users`: with two `Threads`, `WithdrawnTokenRefused` fails (one request reloads
  while another is served from the old index) and so does `IndexFresh` (of two
  overlapping reloads the older scan is swapped in last, though the repository's
  README says, line 251, that rotated users are picked up on SIGHUP). With
  `Exclusive = FALSE`, `WithdrawnTokenStaysOut` fails: user_update restores the
  token that auth rotate withdrew between its read and its write, though its
  description (`tools/admin/user_ops.cpp:190`) says that it leaves tokens alone.
* `cron`: with `OneAtATime = FALSE`, `SettledIsScheduled` fails: the older of two
  lists is installed last. With the fault `schtasks`, `SettledIsScheduled` and
  `RebuildExact` fail: a task that could not be deleted goes on running.
* `runtime`: with two `Threads`, `SyncedInOneRun` fails (a user is recorded after
  the walk that should have reached him) and so does `PairAsConfigured` (the
  unlocked assignment of `config_`). With `AfterReload = FALSE`, `SyncedInOneRun`
  fails: webhook set, user creation and webhook clear between two requests leave
  the user with the cleared webhook (README, line 408).
* `priv`: `AddedUserRuns` fails with `Readd = TRUE` (a useradd of an existing
  account stores a password that the account does not have), with
  `OneAtATime = FALSE` (one rewrite of `user_sids.json` loses the other's entry,
  or tears the shared temporary) and with the fault `ledger` and `MaxSid = 3` (an
  unwritten `user_sids.json` keeps the SID of the account before).
  `ElevationIsCovered` fails with the fault `remove`: revoke_grant ignores that
  the file is still there.
* `exec`: `Returns` says in `Returnable` which commands hang a call: those that do
  not end and are not ended by timeout(1); on Windows those that fill the pipe
  while the caller, without a timeout, waits for the process first; and those
  that inherit the pipe of another call.

### Bounds

Two grants, one administrator and the sweeper allow every pairwise race (two
revocations of one grant, a revocation of one while another is requested); the
actions on different ids only meet in the files, which are sets. Ttl and time of
2 or 3 seconds let a grant expire before, during and after each step; ttls of 0
and one above the bound are offered to `Request` and refused. Two crashes let a
restart be interrupted and repeated. Two users, three tokens and one thread
cover rotate, delete and create of different users in any order. Two sessions,
bearers and threads with `IdleTtl = 2`, `GcEvery = 1`, `MaxDelay = 1` let a session
be collected, be touched in time and be touched late. Five calls of two users with
gaps from 0 to 4 around `Minute = 2` and `Stale = 3`, with limits from 0 to 2, fill a
window, leave it, and have it collected by another user's call, at, below and above
each boundary. Two
jobs, two users, two threads and two payloads let an update be told from what it
replaced and a foreign job from an own one. `Numbers` are the boundaries of every
field of a cron expression, one beyond each, and some inside. Crontabs of up to
four lines (`MaxLines`) and all lists of up to two jobs put blocks before, between
and after own lines, current, stale and repeated. One existing and one new user, one
thread and one command process make the daemon's walk meet a user being created or
deleted, and two helpers meet in one temporary; `MaxFaults = 1` puts one failure
anywhere. In `priv` two users, two callers and one grant let any two handlers
overlap; `MaxSid = 2` makes a name be used twice, `MaxTime = 1` lets the grant
expire. In `exec` two calls are enough for one to inherit the other's pipe; the
five commands of `Shapes` fill the pipe, write from the background, hang, ignore
SIGTERM and leave a server behind, with `Cap = Bound = 1`. `MaxTime`, `MaxCrashes`
and `MaxTokens` only stop counters.

### Fairness

`Grants!Fairness` is weak fairness of each thread's and helper's steps (the
scheduler runs them; the helper does nothing that waits for the daemon), of the
sweep (its thread wakes up every `sweep_interval`), and of the restart
(`Restart=on-failure` in `debian/mcp-bridge.service`). Clients, crashes and the
clock owe nothing. `Exec!Fairness` is weak fairness of each call's thread and of
its processes and timers: the operating system schedules them, and none waits for
another but through the pipe and the wait that are modelled. Which commands end is
not assumed but part of the command. The run has `CHECK_DEADLOCK FALSE` because
every call may have returned, or hang for the reasons above. The other runs use no
fairness.

### Refinement

`Grants` implements `GrantLease` with `lease[id]` "live" while the drop-in
exists, "none" while it may still appear and "ended" afterwards. The abstract
steps are issue, expire, revoke, abandon, ask, tick; all else stutters.

## 4. What is proved

Each theorem holds for every value of the constants that satisfies the named
assumption of its module (`GrantsAssumption`, `CronAssumption`,
`ScheduleAssumption`, `CrontabAssumption`, `ExecAssumption`, `SessionsAssumption`,
`RateLimiterAssumption`, `PrivServiceAssumption`, `UsersAssumption`,
`RuntimeAssumption`): any number of users, threads, grants, jobs and faults, any time
and any bound. These assumptions say that sets of names do not meet, that bounds are
natural numbers, that a value standing for "nothing" or for a torn file is no real
one, and that a bucket is not stale before its window is over (five minutes and one
in the code). Whatever else a
theorem needs is in its statement, and is one of the conditions that section 3
shows to be needed.

| Theorem | States | If |
|---|---|---|
| `GrantsProofs!TypeCorrect` | `[]TypeOK` | |
| `GrantsProofs!Durable` | `[]MemOnDisk` | no fault `rename` |
| `GrantsProofs!Tracked` | `[]NoUntrackedDropIn` | `Reliable` |
| `GrantsProofs!RevokedForEver` | `[]RevokedMeansRemoved` | `Reliable` |
| `GrantsProofs!Reconciled` | `ReconcileExact` | `Removable` |
| `GrantsProofs!NotEarly` | `NoEarlyRemoval` | no fault `rename` |
| `GrantsProofs!ImplementsLease` | `Lease!Spec`, the safety part of `GrantLease` | `LeaseReliable` |
| `CronProofs!TypeCorrect` | `[]TypeOK` | |
| `CronProofs!Durable` | `[]StoreDurable` | |
| `CronProofs!OwnerDecides` | `[]OnlyOwnerDecides` | |
| `CronProofs!FailedCreateGone` | `[]FailedCreateLeavesNothing` | `OneAtATime` |
| `CronProofs!SettledScheduled` | `[]SettledIsScheduled` | `OneAtATime`, no fault `schtasks` |
| `CronProofs!Rebuilt` | `RebuildExact` | `OneAtATime`, no fault `schtasks` |
| `CronProofs!ExactTranslation` | `TranslationExact` | |
| `CronProofs!RunsAsWritten` | `[]AcceptedRunsAsWritten` | |
| `ExecProofs!TypeCorrect` | `[]TypeOK` | |
| `ExecProofs!CapturedWhole` | `[]OutputComplete` | |
| `ExecProofs!NothingLeft` | `[]NothingLeftBehind` | |
| `SessionsProofs!TypeCorrect` | `[]TypeOK` | |
| `SessionsProofs!ServedIsOwn` | `[]ServedSessionIsOwn` | |
| `SessionsProofs!InUseKept` | `InUseIsKept` | |
| `SessionsProofs!LimiterTypes` | `[]LimiterTypeOK` | |
| `SessionsProofs!LimitNeverExceeded` | `[]LimitHeld` | |
| `SessionsProofs!RefusalJustified` | `[]RefusedAtLimit` | |
| `SessionsProofs!NoBucketLeft` | `[]BucketsCollected` | |
| `CrontabProofs!TypeCorrect` | `[]CrontabTypeOK` | |
| `CrontabProofs!RebuiltText` | `[]TextExact` | |
| `PrivServiceProofs!TypeCorrect` | `[]TypeOK` | |
| `PrivServiceProofs!ElevationCovered` | `[]ElevationIsCovered` | no fault `remove` |
| `PrivServiceProofs!BoundElevation` | `[]BoundNotInherited` | |
| `PrivServiceProofs!AddedRuns` | `[]AddedUserRuns` | `Orderly` |
| `UsersProofs!TypeCorrect` | `[]TypeOK` | |
| `UsersProofs!StaysOut` | `[]WithdrawnTokenStaysOut` | `Exclusive` |
| `UsersProofs!AccountsKept` | `ToolsKeepAccounts` | `Exclusive` |
| `UsersProofs!IndexIsFresh` | `[]IndexFresh` | `OneThread` |
| `UsersProofs!WithdrawnRefused` | `[]WithdrawnTokenRefused` | `OneThread`, `Exclusive` |
| `RuntimeProofs!TypeCorrect` | `[]TypeOK` | |
| `RuntimeProofs!PairConfigured` | `[]PairAsConfigured` | `OneThread` |
| `RuntimeProofs!SyncedRun` | `[]SyncedInOneRun` | `AfterReload`, one thread, one command at a time |

`Reliable` is a helper that is neither killed nor fails to revoke, a readable
directory and `TimelyInstall`; writing `grants.json` may fail in every way.
`Removable` is a readable directory and a revoke-grant that works. The
fault `rename` is that `grants.json` is lost because both renames failed;
`LeaseReliable` is `Reliable` without it. `Orderly` is
`OneAtATime`, no useradd of an existing account and a ledger that can be replaced.
`OneThread` says that the HTTP server has one worker thread.

Few of these properties are inductive as they stand. What the proofs add, and why:

**Grants.** A drop-in appears long after the grant was recorded, and in between
the sweeper, an administrator or a crash could remove the entry. `TrackInv` adds
what excludes that: a grant in flight or with a running helper is recorded
(`Recorded`) and unexpired (`Unexpired`), so no sweep holds it (`Targets`) and no
administrator knows its id (`Requested`); a thread about to erase a grant has
removed the drop-in (`Removed`); during reconciliation an untracked drop-in is in
the list of those to remove (`Covered`); a helper's exit code says whether the
drop-in exists (`ExitCodes`); and a revoked grant has no request or helper left
that could install it (`RevokedForGood`). `ReconcileInv` says that
reconciliation runs alone and that `mem` and `todo` split the drop-ins.
`EarlyInv` says why each list of grants to remove is justified (`Justified`) and
that a drop-in, or what may become one, is known to the daemon, or to `grants.json`
while it is down, until it is over (`Held`), which is why the file must not be lost.
`LeaseInv` joins the two and adds that no helper outlives its grant
(`HelperTimely`) and a failed request has left nothing (`FailedGone`); from it every
step is shown to be one of the abstract steps, or to change no lease.

**Cron.** A crontab is written from a list, so `OwnerInv` says of each call in
progress that its payload and its list are its own user's, and of an idle thread
that it holds no list. On Windows the list outlives many steps: every task is
created from it. `Home` says that a job is seen (stored, scheduled, listed or at
work on) with one user only, and only after its id was drawn. With `One` (no two
calls of one user) a call has its job to itself, and `Stages` says what it has
brought about so far: at the install its list is what the store holds for its
user, and on Windows a task not in `todo` is already as the list has it.

**Schedule.** `translate` takes finitely many forms; for each, both schedulers'
firing times are reduced to arithmetic on the minute and hour. The step form rests
on the lemma `Period`: from a multiple of a divisor n of 60, the next minute that
is a multiple of n, also across the full hour, is n minutes away.

**Exec.** `Conserved` says that until something cuts the capture short every chunk
is still to be written, in the pipe, or captured; `ReadToEnd` that a reader that saw
the end of the pipe left nothing in it; `Returned` follows for a finished call.
That other calls inherit the pipe delays its end and loses nothing.

**Sessions.** For `ServedIsOwn`: the stored bearer is the one the session was
issued to (`Stored`), an ended session is not live (`Closed`), and what a
request was to be refused for had ended when it came (`Earlier`). For
`InUseKept`: the time a thread read is at most `MaxDelay` old (`Waits`), so
`last_seen` lags the real last use by no more (`Lag`).

**RateLimiter.** `BucketsExact` says that a bucket holds every call of its user that
was let through and is still in the window, and nothing but calls of his that were
let through; and that a bucket that is not empty has a last element. It is kept by
the collection because times grow along the history (`Ordered`), so that a bucket
whose last time is stale holds nothing a window sees. Hence each verdict counts
exactly the requests of the minute before (`Verdicts`), which is `RefusedAtLimit`;
and when a request is let through, what a minute that ends with it or later holds
is in the caller's bucket, which keeps the limit for every minute (`HeldFrom`).
`KeysRecent` bounds the age of the last collection and of what it left. TLC checked
these on the instance of the run before they were proved.

**Crontab.** `LinesLoop` and `BlocksLoop` are the invariants of the two loops: what
`TextExact` says, of the lines and jobs gone over, with `skip_next` saying that the
line before was a tag and the text so far holding own lines only. An own line is
found by its rank among the own lines (lemma `Ranks`), and a line that is kept is an
own one because blocks are whole in what was read (`WholeNext`), which installing
what was built preserves (`WholeBlock`).

**PrivService.** `ElevationCovered` needs that a grant file is as its install
made it (`Issued`), that nobody else has to do with a grant id before it is saved
(`Alone`) and that a run_as knows only drawn ids, of its user (`Known`).
`BoundElevation` follows a run_as during which the account stayed, from its lookup
to its end (`BoundCalls`). `AddedRuns` goes through useradd and userdel
step by step (`Progress`): account, secret, temporary and ledger fit each other
because one of these calls runs at a time.

**Users.** With `Exclusive`, one change is under way (`Alone`) and what it read is
still so when it writes (`ToolReady`, `CliReady`). With one thread, the index is
what the records say or a reload is due or running, and what a reload has read is
what the records say or the next one is due (`FreshInv`). `WithdrawnRefused`
combines both: the index holds no withdrawn token, or a reload comes before the
next authentication (`Clear`), and what a request will be judged by is newer than
what was withdrawn when it came in (`Judged`).

**Runtime.** `PairInv` says that every webhook an actor carries, and every whole
file, is one that `mcp.json` has held; with one thread nobody reads `config_`
during its assignment. `SyncInv` says where the daemon is with the last change:
either `mcp.json` will be loaded (`Pending`) or what was loaded is current
(`Coming`), and then the walk has still to come to each user (`WillVisit`) or his
file is in hand: a helper is about to open the temporary, or the temporary and the
file each hold what `mcp.json` says or belong to a helper that will write it
(`TmpFine`, `RunFine`), also when two helpers share one temporary. TLC checked
`SyncInv` on the instance of the run before it was proved.

Only model-checked: liveness (`ExpiredRemoved`, `Returns`) and the refinement of the
fair lease `LeaseSpec`, because the prover does not treat fairness. Every other
property of a passing run is a theorem. The inductive invariants are steps of the
proofs and not runs of their own.

## 5. Not modelled, and the plan

What is left to prove: what still holds without the single-threading of `Users` and
`Runtime` (with several threads the index is that of some earlier state of each
record, and a `runtime.json` mixes only webhooks that `mcp.json` has held).

What could still be modelled: the start-up of the daemon (the pid file is written
before the SIGHUP handler is installed, `core/server.cpp:79`), install-system-admin
and the waits for locked passwd files in the Linux helper.

Known, and outside the models:

* two user_update calls write one temporary file (`tools/admin/user_ops.cpp:48`):
  a record is rewritten in one step;
* `CronStore::add` looks its new id up before it takes the mutex
  (`core/cron_store.cpp:156`): a data race on the map; ids are fresh in the model;
* a user who deletes the schedule line under a tag loses the line after it, and a
  `crontab -l` that is killed halfway is taken for the whole crontab
  (`tools/scheduling/cron_backend_linux.cpp:62`, `:50`): in `Crontab` blocks are
  whole and the reading succeeds or gives nothing. That a failed reading or an edit
  between reading and installing loses the user's own lines is in the model:
  `TextExact` speaks of what was read;
* only POST passes the rate limiter (`core/server.cpp:133`), and a restart forgets
  its counts;
* a stop of the Windows service that falls between two pipe instances waits for one
  more client (`priv_win/main.cpp:203`), and the client does not wait for a pipe
  that does not exist (`platform/windows/priv_client.cpp:50`): neither changes state;
* run_process bounds only the first of several commands, and background processes
  are never waited for (`platform/linux/process_linux.cpp:22`, `:272`).

Left out for good, because they keep no state and have no steps to interleave:
JSON-RPC parsing and the router, the text checks and rendering of grant templates,
tools that run one command (files, databases, ports, firewall, web server,
processes, sandbox), hashing and random ids, logging, installers and vendored
libraries. `PROJECT.json` gives the reason for each.
