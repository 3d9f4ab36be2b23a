------------------------------ MODULE Runtime -------------------------------
(***************************************************************************)
(* How the webhook (a URL and a secret) gets from mcp.json into each user's*)
(* runtime.json: the commands webhook set, webhook clear and auth create in*)
(* processes of their own, the daemon's handle_reload and the tools        *)
(* user_create and user_delete on HTTP threads, and the helper that writes *)
(* runtime.json through a temporary file of a fixed name. Nothing is locked*)
(* between them.                                                           *)
(*                                                                         *)
(* A file is the set of its contents, at most one: {} is no file, {c} a    *)
(* file. Contents are the set of webhooks its text may be taken from: {} is*)
(* empty, {h} is whole, Hook is torn.                                      *)
(***************************************************************************)
EXTENDS Naturals

CONSTANTS
    UserIds,      \* shortids
    NoUser,       \* the user field of an actor that has none
    Existing,     \* the ones provisioned before the first step
    Threads,      \* HTTP worker threads of the daemon
    Procs,        \* command processes an administrator runs side by side
    Urls, Secrets,
    Faults,       \* what may fail, a subset of FaultKinds
    MaxFaults,    \* bound on the number of failures
    AfterReload   \* TRUE: the webhook is changed again only once the daemon has
                  \* read mcp.json after the last signal

FaultKinds == {"account", "config", "dir", "file", "helper", "restart"}
Actors == Threads \cup Procs

ASSUME RuntimeAssumption ==
    /\ NoUser \notin UserIds /\ Existing \subseteq UserIds
    /\ Threads \cap Procs = {}
    /\ Faults \subseteq FaultKinds
    /\ MaxFaults \in Nat
    /\ AfterReload \in BOOLEAN

VARIABLES
    conf,     \* the webhook in mcp.json
    cfg,      \* the webhook in the daemon's config_
    hup,      \* g_reload_users
    rec,      \* users with a record file
    acct,     \* users with an OS account
    ids,      \* shortids made so far
    run,      \* runtime.json of each user
    tmp,      \* runtime.json.tmp of each user
    act,      \* what each actor is doing
    held,     \* history: the webhooks mcp.json has held
    missed,   \* history: users of whom the log or a command's output said that
              \* runtime.json was not written, and no writing began since
    faults,   \* history: how many failures there were
    broken    \* history: the daemon was restarted, or could not read mcp.json

vars == <<conf, cfg, hup, rec, acct, ids, run, tmp, act, held, missed,
          faults, broken>>
files == <<run, tmp, missed>>
people == <<rec, acct, ids>>
daemon == <<cfg, hup, broken>>

Hook == [url : Urls \cup {""}, secret : Secrets \cup {""}]
NoHook == [url |-> "", secret |-> ""]
File == {{}, {{}}, {Hook}} \cup {{{h}} : h \in Hook}

Idle == [pc |-> "idle", next |-> "idle", user |-> NoUser, hook |-> NoHook,
         due |-> {}, seen |-> {}, at |-> "none", ret |-> "idle"]
ToolPcs == {"idle", "useradd", "unlink"}
ReloadPcs == {"load", "compare", "assign", "assignSame", "walk"}
HelperPcs == {"open", "write", "rename"}
CommandPcs == {"replace", "authrecord", "account", "hup"}
Pcs == ToolPcs \cup ReloadPcs \cup HelperPcs \cup CommandPcs
           \cup {"record", "userdel", "cleanup"}

\* Types of the state; a helper has its file open exactly between its open and
\* its exit.
TypeOK ==
    /\ conf \in Hook /\ cfg \in Hook /\ held \subseteq Hook
    /\ hup \in BOOLEAN /\ broken \in BOOLEAN /\ faults \in 0..MaxFaults
    /\ rec \subseteq ids /\ acct \subseteq ids /\ ids \subseteq UserIds
    /\ missed \subseteq UserIds
    /\ run \in [UserIds -> File] /\ tmp \in [UserIds -> File]
    /\ act \in [Actors -> [pc : Pcs, next : ToolPcs, user : UserIds \cup {NoUser},
                           hook : Hook, due : SUBSET UserIds, seen : SUBSET UserIds,
                           at : {"none", "tmp", "run", "gone"},
                           ret : {"idle", "walk", "record", "hup"}]]
    /\ \A a \in Actors : act[a].at # "none" <=> act[a].pc \in {"write", "rename"}

Init ==
    /\ conf = NoHook /\ cfg = NoHook /\ held = {NoHook}
    /\ hup = FALSE /\ broken = FALSE /\ faults = 0 /\ missed = {}
    /\ rec = Existing /\ acct = Existing /\ ids = Existing
    /\ run = [u \in UserIds |-> IF u \in Existing THEN {{NoHook}} ELSE {}]
    /\ tmp = [u \in UserIds |-> {}]
    /\ act = [a \in Actors |-> Idle]

\* something of kind k fails, or nothing does
Fault(k) == k \in Faults /\ faults < MaxFaults /\ faults' = faults + 1
NoFault == faults' = faults

Goto(a, pc) == act' = [act EXCEPT ![a].pc = pc]
Return(a) == act' = [act EXCEPT ![a] = Idle]

\* the reload is over: on to the tool that was called
EndReload(t) == act' = [act EXCEPT ![t] = [Idle EXCEPT !.pc = act[t].next]]

\* What a thread finds in config_. It is assigned without a lock, so a reader
\* that meets an assignment gets each of the two strings as it was before or
\* as it is after.
ReadConfig(t) ==
    {cfg} \cup
    UNION {[url : {cfg.url, act[b].hook.url}, secret : {cfg.secret, act[b].hook.secret}] :
           b \in {b \in Threads \ {t} : act[b].pc \in {"assign", "assignSame"}}}

-----------------------------------------------------------------------------
(* The helper's write-runtime verb, run by write_for_user *)

\* write_for_user(cfg, u), with the webhook h in cfg. (With no helper configured
\* it runs a shell pipeline with the same open, write and rename, which leaves
\* its temporary behind when it fails.)
WriteForUser(a, u, h, ret) ==
    act' = [act EXCEPT ![a].pc = "open", ![a].user = u, ![a].hook = h, ![a].ret = ret]

\* Where an open file of user u is found once his runtime.json.tmp was renamed
\* or removed: a descriptor follows its file, not the name.
Renamed(x, u) ==
    IF x.user # u THEN x
    ELSE [x EXCEPT !.at = CASE @ = "tmp" -> "run" [] @ = "run" -> "gone" [] OTHER -> @]
Unlinked(x, u, names) ==
    IF x.user = u /\ x.at \in names THEN [x EXCEPT !.at = "gone"] ELSE x

Exited(x) ==
    [x EXCEPT !.pc = x.ret, !.at = "none", !.hook = NoHook, !.ret = "idle",
              !.user = IF x.ret = "record" THEN @ ELSE NoUser]

\* open with O_TRUNC, creating the file or emptying the one of another helper;
\* a user without an account is refused
HelperOpen(a) ==
    LET u == act[a].user IN
    /\ act[a].pc = "open"
    /\ \/ /\ u \in acct
          /\ tmp' = [tmp EXCEPT ![u] = {{}}]
          /\ act' = [act EXCEPT ![a].pc = "write", ![a].at = "tmp"]
          /\ missed' = missed \ {u}
          /\ NoFault
       \/ /\ Fault("helper") \/ (u \notin acct /\ NoFault)
          /\ act' = [act EXCEPT ![a] = Exited(@)]
          /\ missed' = missed \cup {u}
          /\ tmp' = tmp
    /\ UNCHANGED <<conf, run, held, people, daemon>>

\* what writing h at the start of a file leaves: a longer text shows behind it
Overwrite(c, h) == {{h}} \cup IF c \subseteq {h} THEN {} ELSE {Hook}

HelperWrite(a) ==
    LET u == act[a].user
        h == act[a].hook
        Written(f) == {[f EXCEPT ![u] = {c}] : c \in UNION {Overwrite(d, h) : d \in f[u]}}
    IN
    /\ act[a].pc = "write"
    /\ tmp' \in IF act[a].at = "tmp" THEN Written(tmp) ELSE {tmp}
    /\ run' \in IF act[a].at = "run" THEN Written(run) ELSE {run}
    /\ Goto(a, "rename")
    /\ UNCHANGED <<conf, held, faults, missed, people, daemon>>

\* chown, chmod and rename go by name, whoever's file that now is
HelperRename(a) ==
    LET u == act[a].user IN
    /\ act[a].pc = "rename" /\ tmp[u] # {}
    /\ run' = [run EXCEPT ![u] = tmp[u]]
    /\ tmp' = [tmp EXCEPT ![u] = {}]
    /\ act' = [b \in Actors |-> IF b = a THEN Exited(act[b]) ELSE Renamed(act[b], u)]
    /\ UNCHANGED <<conf, held, faults, missed, people, daemon>>

\* (mutant) the helper leaves its file open when it gives up
HelperFailOpen(a) ==
    /\ act[a].pc \in {"write", "rename"}
    /\ Goto(a, act[a].ret)
    /\ missed' = missed \cup {act[a].user}
    /\ UNCHANGED <<conf, run, tmp, held, faults, people, daemon>>

\* an error unlinks the temporary, a signal leaves it
HelperFail(a) ==
    LET u == act[a].user IN
    /\ act[a].pc \in {"write", "rename"}
    /\ Fault("helper") \/ (act[a].pc = "rename" /\ tmp[u] = {} /\ NoFault)
    /\ \/ /\ tmp' = [tmp EXCEPT ![u] = {}]
          /\ act' = [b \in Actors |-> IF b = a THEN Exited(act[b])
                                      ELSE Unlinked(act[b], u, {"tmp"})]
       \/ tmp' = tmp /\ act' = [act EXCEPT ![a] = Exited(@)]
    /\ missed' = missed \cup {u}
    /\ UNCHANGED <<conf, run, held, people, daemon>>

-----------------------------------------------------------------------------
(* HTTP threads: handle_reload, then the tool *)

\* a request, for the tool that starts at pc next ("idle": any other call)
Request(t, next) ==
    /\ act[t].pc = "idle"
    /\ hup \/ next # "idle"
    /\ act' = [act EXCEPT ![t] = [Idle EXCEPT !.pc = IF hup THEN "load" ELSE next,
                                              !.next = next]]
    /\ hup' = FALSE
    /\ UNCHANGED <<conf, cfg, held, faults, broken, files, people>>

\* load_config(config_path_), which may throw: "config reload failed"
Load(t) ==
    /\ act[t].pc = "load"
    /\ \/ /\ act' = [act EXCEPT ![t].pc = "compare", ![t].hook = conf]
          /\ broken' = broken
          /\ NoFault
       \/ /\ Fault("config")
          /\ EndReload(t)
          /\ broken' = TRUE
    /\ UNCHANGED <<conf, cfg, hup, held, files, people>>

\* (mutant) only a new URL counts as a change
CompareUrl(t) ==
    /\ act[t].pc = "compare"
    /\ Goto(t, IF act[t].hook.url # cfg.url THEN "assign" ELSE "assignSame")
    /\ UNCHANGED <<conf, held, faults, files, people, daemon>>

\* webhook_changed
Compare(t) ==
    /\ act[t].pc = "compare"
    /\ Goto(t, IF act[t].hook # cfg THEN "assign" ELSE "assignSame")
    /\ UNCHANGED <<conf, held, faults, files, people, daemon>>

\* (mutant) the secret is left out of the assignment
AssignUrl(t) ==
    /\ act[t].pc \in {"assign", "assignSame"}
    /\ cfg' = [cfg EXCEPT !.url = act[t].hook.url]
    /\ act' = [act EXCEPT ![t].pc = "walk", ![t].due = rec, ![t].seen = {}]
    /\ UNCHANGED <<conf, hup, held, faults, broken, files, people>>

\* config_ = new_cfg; after a change write_all opens the users directory
Assign(t) ==
    /\ cfg' = act[t].hook
    /\ \/ /\ act[t].pc = "assignSame"
          /\ EndReload(t)
          /\ missed' = missed
          /\ NoFault
       \/ /\ act[t].pc = "assign"
          /\ act' = [act EXCEPT ![t].pc = "walk", ![t].due = rec, ![t].seen = {}]
          /\ missed' = missed
          /\ NoFault
       \/ /\ act[t].pc = "assign" /\ Fault("dir")
          /\ EndReload(t)
          /\ missed' = UserIds
    /\ UNCHANGED <<conf, hup, run, tmp, held, broken, people>>

\* write_all: readdir returns every record that stays, and any of the new ones;
\* each user's webhook is read from config_ again
Visit(t, u) ==
    /\ act[t].pc = "walk" /\ u \in rec \ act[t].seen
    /\ \E h \in ReadConfig(t) :
          act' = [act EXCEPT ![t].pc = "open", ![t].user = u, ![t].hook = h,
                             ![t].ret = "walk", ![t].seen = @ \cup {u}]
    /\ UNCHANGED <<conf, held, faults, files, people, daemon>>

EndWalk(t) ==
    /\ act[t].pc = "walk" /\ act[t].due \cap rec \subseteq act[t].seen
    /\ EndReload(t)
    /\ UNCHANGED <<conf, held, faults, files, people, daemon>>

-----------------------------------------------------------------------------
(* Provisioning: the outcomes of the helper's other verbs *)

\* useradd; a helper that fails may have been killed once the account was made
Useradd(u) == acct' = acct \cup {u} /\ NoFault
UseraddFails(u) == Fault("account") /\ acct' \in {acct, acct \cup {u}}

\* prepare-user-state after a useradd that went well
PrepareFails(u) == Fault("account") /\ acct' = acct \cup {u}

\* userdel; its exit code is only reported
Userdel(u) ==
    \/ acct' = acct \ {u} /\ NoFault
    \/ acct' = acct /\ Fault("account")

\* the bound on shortids: with none left a creation ends before it begins
NoIdLeft(a) ==
    /\ act[a].pc \in {"useradd", "authrecord"} /\ ids = UserIds
    /\ Return(a)
    /\ UNCHANGED <<conf, held, faults, files, people, daemon>>

\* user_create: account and state directory, then runtime.json ...
CreateUseradd(t) ==
    /\ act[t].pc = "useradd"
    /\ \E u \in UserIds \ ids :
          /\ ids' = ids \cup {u}
          /\ \/ Useradd(u) /\ \E h \in ReadConfig(t) : WriteForUser(t, u, h, "record")
             \/ (UseraddFails(u) \/ PrepareFails(u)) /\ Return(t)
    /\ UNCHANGED <<conf, rec, held, files, daemon>>

\* ... and, whatever came of that, the record, or an exception
CreateRecord(t) ==
    /\ act[t].pc = "record"
    /\ \/ rec' = rec \cup {act[t].user} /\ NoFault
       \/ rec' = rec /\ Fault("file")
    /\ Return(t)
    /\ UNCHANGED <<conf, acct, ids, held, files, daemon>>

\* user_delete: the record, ...
DeleteUnlink(t) ==
    /\ act[t].pc = "unlink"
    /\ \E u \in ids :
          \/ /\ rec' = rec \ {u} /\ NoFault
             /\ missed' = missed \ {u}
             /\ act' = [act EXCEPT ![t].pc = "userdel", ![t].user = u]
          \/ u \in rec /\ Fault("file") /\ rec' = rec /\ missed' = missed /\ Return(t)
    /\ UNCHANGED <<conf, acct, ids, run, tmp, held, daemon>>

\* ... the account, ...
DeleteAccount(t) ==
    /\ act[t].pc = "userdel"
    /\ Userdel(act[t].user)
    /\ Goto(t, "cleanup")
    /\ UNCHANGED <<conf, rec, ids, held, files, daemon>>

\* ... and, by cleanup-user-state, the state directory, if rm -rf can
DeleteState(t) ==
    LET u == act[t].user IN
    /\ act[t].pc = "cleanup"
    /\ \/ /\ run' = [run EXCEPT ![u] = {}] /\ tmp' = [tmp EXCEPT ![u] = {}]
          /\ NoFault
          /\ act' = [b \in Actors |-> IF b = t THEN Idle
                                      ELSE Unlinked(act[b], u, {"tmp", "run"})]
       \/ Fault("file") /\ run' = run /\ tmp' = tmp /\ Return(t)
    /\ UNCHANGED <<conf, held, missed, people, daemon>>

-----------------------------------------------------------------------------
(* Commands *)

MayChange(p) ==
    /\ act[p].pc = "idle"
    /\ AfterReload => ~hup /\ \A t \in Threads : act[t].pc # "load"

\* webhook set reads mcp.json; a secret that is not given stays what it was
WebhookSet(p, url) ==
    /\ MayChange(p)
    /\ \E secret \in Secrets \cup {conf.secret} :
          act' = [act EXCEPT ![p].pc = "replace",
                             ![p].hook = [url |-> url, secret |-> secret]]
    /\ UNCHANGED <<conf, held, faults, files, people, daemon>>

WebhookClear(p) ==
    /\ MayChange(p)
    /\ act' = [act EXCEPT ![p].pc = "replace", ![p].hook = NoHook]
    /\ UNCHANGED <<conf, held, faults, files, people, daemon>>

\* atomic_replace, or an error message
WebhookReplace(p) ==
    /\ act[p].pc = "replace"
    /\ \/ /\ conf' = act[p].hook
          /\ held' = held \cup {conf'}
          /\ Goto(p, "hup")
          /\ NoFault
       \/ Fault("file") /\ conf' = conf /\ held' = held /\ Return(p)
    /\ UNCHANGED <<files, people, daemon>>

\* auth create loads mcp.json before it asks for name and e-mail, ...
AuthCreate(p) ==
    /\ act[p].pc = "idle"
    /\ act' = [act EXCEPT ![p].pc = "authrecord", ![p].hook = conf]
    /\ UNCHANGED <<conf, held, faults, files, people, daemon>>

\* ... writes the record, ...
AuthRecord(p) ==
    /\ act[p].pc = "authrecord"
    /\ \E u \in UserIds \ ids :
          /\ ids' = ids \cup {u}
          /\ \/ /\ rec' = rec \cup {u} /\ NoFault
                /\ act' = [act EXCEPT ![p].pc = "account", ![p].user = u]
             \/ Fault("file") /\ rec' = rec /\ Return(p)
    /\ UNCHANGED <<conf, acct, held, files, daemon>>

\* ... and has the account, the state directory and runtime.json made, with a
\* warning and no more than that where one of them fails
AuthAccount(p) ==
    LET u == act[p].user IN
    /\ act[p].pc = "account"
    /\ \/ /\ Useradd(u)
          /\ WriteForUser(p, u, act[p].hook, "hup")
          /\ missed' = missed
       \/ /\ UseraddFails(u) \/ PrepareFails(u)
          /\ Goto(p, "hup")
          /\ missed' = missed \cup {u}
    /\ UNCHANGED <<conf, rec, ids, run, tmp, held, daemon>>

\* try_sighup_daemon
Sighup(p) ==
    /\ act[p].pc = "hup"
    /\ hup' = TRUE
    /\ Return(p)
    /\ UNCHANGED <<conf, cfg, held, faults, broken, files, people>>

\* The daemon dies, its helpers with it (they are in its control group), and is
\* started again: it loads mcp.json, and no signal is pending.
Restart ==
    /\ Fault("restart")
    /\ broken' = TRUE
    /\ cfg' = conf /\ hup' = FALSE
    /\ act' = [a \in Actors |-> IF a \in Threads THEN Idle ELSE act[a]]
    /\ UNCHANGED <<conf, held, files, people>>

-----------------------------------------------------------------------------
Helper(a) ==
    \/ HelperOpen(a)
    \/ HelperWrite(a)
    \/ HelperRename(a)
    \/ HelperFail(a)

Next ==
    \/ \E a \in Actors : Helper(a)
    \/ \E a \in Actors : NoIdLeft(a)
    \/ \E t \in Threads, next \in ToolPcs : Request(t, next)
    \/ \E t \in Threads :
          \/ Load(t)
          \/ Compare(t)
          \/ Assign(t)
          \/ EndWalk(t)
          \/ CreateUseradd(t)
          \/ CreateRecord(t)
          \/ DeleteUnlink(t)
          \/ DeleteAccount(t)
          \/ DeleteState(t)
    \/ \E t \in Threads, u \in UserIds : Visit(t, u)
    \/ \E p \in Procs, url \in Urls : WebhookSet(p, url)
    \/ \E p \in Procs :
          \/ WebhookClear(p)
          \/ WebhookReplace(p)
          \/ AuthCreate(p)
          \/ AuthRecord(p)
          \/ AuthAccount(p)
          \/ Sighup(p)
    \/ Restart

Spec == Init /\ [][Next]_vars

-----------------------------------------------------------------------------
(* Properties *)

Quiet == ~hup /\ \A a \in Actors : act[a].pc = "idle"

\* "webhook set atomically rewrites mcp.json and SIGHUPs the daemon, which
\* re-syncs every user's runtime.json. New users created after the change pick
\* up the current values automatically": when nothing is pending or running,
\* every user's runtime.json holds, whole, the webhook of mcp.json, but for
\* users of whom a failure was reported.
SyncedWhenQuiet ==
    Quiet => \A u \in (rec \cap acct) \ missed : run[u] = {{conf}}

\* The same for the life of one daemon process that could read mcp.json: through
\* overlapping writers of one runtime.json, changes made while an earlier one is
\* still being copied, users that come and go meanwhile, and failing steps.
SyncedInOneRun == ~broken => SyncedWhenQuiet

\* No runtime.json pairs the secret of one webhook with the URL of another (the
\* cron runner would post it there): what is whole is a pair mcp.json has held.
PairAsConfigured ==
    \A u \in UserIds, h \in Hook : run[u] = {{h}} => h \in held
=============================================================================
