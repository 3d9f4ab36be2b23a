------------------------------- MODULE Users --------------------------------
(***************************************************************************)
(* Who may talk to the daemon: the user records (<users_dir>/<shortid>.json*)
(* files), UserStore's index of them by token hash, the SIGHUP flag that   *)
(* makes the next request rebuild the index, and the operations that change*)
(* the records: the tools user_create, user_update, user_delete on HTTP    *)
(* threads, and the commands auth create and auth rotate in a process of   *)
(* their own. No lock spans a record file and the index.                   *)
(*                                                                         *)
(* A token is (user, n), the n-th bearer token made for that user; salted  *)
(* SHA-256 tells tokens apart, so the hash kept in a record is its n.      *)
(***************************************************************************)
EXTENDS Naturals

CONSTANTS
    UserIds,     \* shortids
    NoUser,      \* the user field of an idle thread
    Existing,    \* the ones provisioned before the first step
    Threads,     \* HTTP worker threads
    MaxTokens,   \* bound on tokens per user
    Tools,       \* user tools in use, a subset of ToolKinds
    Commands,    \* auth commands in use, a subset of CommandKinds
    Exclusive    \* TRUE: administrators wait for each other's changes to end

ToolKinds == {"create", "update", "delete"}
CommandKinds == {"create", "rotate"}

ASSUME UsersAssumption ==
    /\ NoUser \notin UserIds /\ Existing \subseteq UserIds
    /\ MaxTokens \in Nat \ {0}
    /\ Tools \subseteq ToolKinds
    /\ Commands \subseteq CommandKinds
    /\ Exclusive \in BOOLEAN

VARIABLES
    rec,    \* token in the user's record file, 0: no file
    acct,   \* users that have an OS account
    made,   \* tokens made for the user so far
    index,  \* UserStore::by_hash_: the token under which the user is indexed
    hup,    \* g_reload_users
    thr,    \* HTTP threads
    cli,    \* the auth command being run
    dead    \* history: tokens up to this one were rotated away or deleted,
            \* and whoever did it has been told so

vars == <<rec, acct, made, index, hup, thr, cli, dead>>

Token == 0..MaxTokens
Image == [UserIds -> Token]
NoImage == [u \in UserIds |-> 0]
IdleThread == [pc |-> "idle", op |-> "call", user |-> NoUser, tok |-> 0,
               floor |-> 0, snap |-> NoImage]
IdleCli == [pc |-> "idle", user |-> NoUser, tok |-> 0]
ReloadPcs == {"scan", "swap", "scanAfter", "swapAfter"}
ToolPcs == {"useradd", "record", "read", "rewrite", "unlink", "userdel"}

\* Types of the state; a token is indexed or recorded only once it was made.
TypeOK ==
    /\ rec \in Image /\ made \in Image /\ index \in Image /\ dead \in Image
    /\ acct \subseteq UserIds
    /\ hup \in BOOLEAN
    /\ thr \in [Threads -> [pc : {"idle", "auth", "served"} \cup ReloadPcs \cup ToolPcs,
                            op : {"call"} \cup ToolKinds, user : UserIds \cup {NoUser},
                            tok : Token, floor : Token, snap : Image]]
    /\ cli \in [pc : {"idle", "rewrite", "useradd", "hup"},
                user : UserIds \cup {NoUser}, tok : Token]
    /\ \A u \in UserIds : rec[u] <= made[u] /\ index[u] <= made[u]

Init ==
    /\ rec = [u \in UserIds |-> IF u \in Existing THEN 1 ELSE 0]
    /\ acct = Existing
    /\ made = rec /\ index = rec
    /\ hup = FALSE
    /\ thr = [t \in Threads |-> IdleThread]
    /\ cli = IdleCli
    /\ dead = NoImage

-----------------------------------------------------------------------------
Administering(t) == thr[t].pc # "idle" /\ thr[t].op # "call"
MayAdminister ==
    Exclusive => cli.pc = "idle" /\ \A t \in Threads : ~Administering(t)

Goto(t, pc) == thr' = [thr EXCEPT ![t].pc = pc]
EndRequest(t) == thr' = [thr EXCEPT ![t] = IdleThread]

-----------------------------------------------------------------------------
(* HTTP threads: handle_reload, then auth_resolve, then the tool *)

\* (mutant) the flag is not looked at before authenticating
EnterUnreloaded(t, op, u, tok) ==
    /\ thr[t].pc = "idle"
    /\ thr' = [thr EXCEPT ![t] = [pc |-> "auth", op |-> op, user |-> u, tok |-> tok,
                                  floor |-> dead[u], snap |-> NoImage]]
    /\ UNCHANGED <<rec, acct, made, index, hup, cli, dead>>

\* a request comes in; g_reload_users.exchange(false) decides who reloads
Enter(t, op, u, tok) ==
    /\ thr[t].pc = "idle"
    /\ thr' = [thr EXCEPT ![t] = [pc |-> IF hup THEN "scan" ELSE "auth",
                                  op |-> op, user |-> u, tok |-> tok,
                                  floor |-> dead[u], snap |-> NoImage]]
    /\ hup' = FALSE
    /\ UNCHANGED <<rec, acct, made, index, cli, dead>>

\* any call with a token the client was once given
Call(t, u) == \E tok \in 1..made[u] : Enter(t, "call", u, tok)

\* an admin calls one of the user tools
ToolCall(t, op, u) ==
    /\ op \in Tools /\ MayAdminister
    /\ op = "create" => made[u] = 0
    /\ Enter(t, op, u, 0)

\* load_all reads the directory without a lock ...
Scan(t) ==
    /\ thr[t].pc \in {"scan", "scanAfter"}
    /\ thr' = [thr EXCEPT ![t].snap = rec,
                          ![t].pc = IF @ = "scan" THEN "swap" ELSE "swapAfter"]
    /\ UNCHANGED <<rec, acct, made, index, hup, cli, dead>>

\* ... and swaps the result in under it. A tool's own reload ends the tool: it
\* replies, and a deleted user's tokens are dead.
Swap(t) ==
    /\ thr[t].pc \in {"swap", "swapAfter"}
    /\ index' = thr[t].snap
    /\ \/ /\ thr[t].pc = "swap"
          /\ Goto(t, "auth")
          /\ dead' = dead
       \/ /\ thr[t].pc = "swapAfter"
          /\ EndRequest(t)
          /\ dead' = IF thr[t].op = "delete"
                     THEN [dead EXCEPT ![thr[t].user] = made[thr[t].user]]
                     ELSE dead
    /\ UNCHANGED <<rec, acct, made, hup, cli>>

\* auth_resolve: the hash of the presented token is looked up in the index; a
\* tool call carries the install's admin token, which is not in the index
Auth(t) ==
    /\ thr[t].pc = "auth"
    /\ \/ /\ thr[t].op = "call"
          /\ IF index[thr[t].user] = thr[t].tok THEN Goto(t, "served") ELSE EndRequest(t)
       \/ /\ thr[t].op # "call"
          /\ Goto(t, CASE thr[t].op = "create" -> "useradd"
                       [] thr[t].op = "update" -> "read"
                       [] thr[t].op = "delete" -> "unlink")
    /\ UNCHANGED <<rec, acct, made, index, hup, cli, dead>>

\* the reply to an accepted call
Reply(t) ==
    /\ thr[t].pc = "served"
    /\ EndRequest(t)
    /\ UNCHANGED <<rec, acct, made, index, hup, cli, dead>>

\* (mutant) user_create writes the record before the account exists
CreateUseraddLate(t) ==
    LET u == thr[t].user IN
    /\ thr[t].pc = "useradd"
    /\ made' = [made EXCEPT ![u] = 1]
    /\ rec' = [rec EXCEPT ![u] = 1]
    /\ Goto(t, "scanAfter")
    /\ UNCHANGED <<acct, index, hup, cli, dead>>

\* user_create: the helper's useradd and prepare-user-state; a failure of
\* either ends the request, the second one leaving the account behind. (The
\* shortid is fresh and its token is made here.)
CreateUseradd(t) ==
    LET u == thr[t].user IN
    /\ thr[t].pc = "useradd" /\ made[u] = 0
    /\ made' = [made EXCEPT ![u] = 1]
    /\ \/ acct' = acct \cup {u} /\ Goto(t, "record")
       \/ acct' \in {acct, acct \cup {u}} /\ EndRequest(t)
    /\ UNCHANGED <<rec, index, hup, cli, dead>>

\* then the record (O_EXCL; a failing write ends the request)
CreateRecord(t) ==
    /\ thr[t].pc = "record"
    /\ \/ rec' = [rec EXCEPT ![thr[t].user] = 1] /\ Goto(t, "scanAfter")
       \/ rec' = rec /\ EndRequest(t)
    /\ UNCHANGED <<acct, made, index, hup, cli, dead>>

\* user_update reads the whole record, token hash included ...
UpdateRead(t) ==
    LET u == thr[t].user IN
    /\ thr[t].pc = "read"
    /\ IF rec[u] = 0
       THEN EndRequest(t)
       ELSE thr' = [thr EXCEPT ![t].tok = rec[u], ![t].pc = "rewrite"]
    /\ UNCHANGED <<rec, acct, made, index, hup, cli, dead>>

\* ... and renames a new file with that content over it, or throws
UpdateRewrite(t) ==
    /\ thr[t].pc = "rewrite"
    /\ \/ rec' = [rec EXCEPT ![thr[t].user] = thr[t].tok] /\ Goto(t, "scanAfter")
       \/ rec' = rec /\ EndRequest(t)
    /\ UNCHANGED <<acct, made, index, hup, cli, dead>>

\* user_delete unlinks the record if there is one, or throws ...
DeleteUnlink(t) ==
    LET u == thr[t].user IN
    /\ thr[t].pc = "unlink"
    /\ \/ rec' = [rec EXCEPT ![u] = 0] /\ Goto(t, "userdel")
       \/ rec[u] # 0 /\ rec' = rec /\ EndRequest(t)
    /\ UNCHANGED <<acct, made, index, hup, cli, dead>>

\* (mutant) the tool returns without reloading the index
DeleteAccountOnly(t) ==
    /\ thr[t].pc = "userdel"
    /\ acct' = acct \ {thr[t].user}
    /\ EndRequest(t)
    /\ UNCHANGED <<rec, made, index, hup, cli, dead>>

\* ... and the account; the helper's exit code is only reported
DeleteAccount(t) ==
    /\ thr[t].pc = "userdel"
    /\ acct' \in {acct, acct \ {thr[t].user}}
    /\ Goto(t, "scanAfter")
    /\ UNCHANGED <<rec, made, index, hup, cli, dead>>

-----------------------------------------------------------------------------
(* The auth commands, a process that shares only the files with the daemon *)

\* (mutant) the token made is not a fresh one
RotateReadUncounted(u) ==
    /\ "rotate" \in Commands /\ cli.pc = "idle" /\ MayAdminister
    /\ rec[u] # 0 /\ made[u] < MaxTokens
    /\ cli' = [pc |-> "rewrite", user |-> u, tok |-> made[u] + 1]
    /\ UNCHANGED <<rec, acct, made, index, hup, thr, dead>>

\* auth rotate: read the record, make a token
RotateRead(u) ==
    /\ "rotate" \in Commands /\ cli.pc = "idle" /\ MayAdminister
    /\ rec[u] # 0 /\ made[u] < MaxTokens
    /\ made' = [made EXCEPT ![u] = @ + 1]
    /\ cli' = [pc |-> "rewrite", user |-> u, tok |-> made[u] + 1]
    /\ UNCHANGED <<rec, acct, index, hup, thr, dead>>

\* (mutant) the rewritten record keeps the old hash
RotateRewriteStale ==
    /\ cli.pc = "rewrite"
    /\ cli' = [cli EXCEPT !.pc = "hup"]
    /\ UNCHANGED <<rec, acct, made, index, hup, thr, dead>>

\* atomic_replace the record with the new hash in it, or give up
RotateRewrite ==
    /\ cli.pc = "rewrite"
    /\ \/ /\ rec' = [rec EXCEPT ![cli.user] = cli.tok]
          /\ cli' = [cli EXCEPT !.pc = "hup"]
       \/ rec' = rec /\ cli' = IdleCli
    /\ UNCHANGED <<acct, made, index, hup, thr, dead>>

\* auth create: the record first ...
CliCreateRecord(u) ==
    /\ "create" \in Commands /\ cli.pc = "idle" /\ MayAdminister
    /\ made[u] = 0
    /\ made' = [made EXCEPT ![u] = 1]
    /\ rec' = [rec EXCEPT ![u] = 1]
    /\ cli' = [pc |-> "useradd", user |-> u, tok |-> 1]
    /\ UNCHANGED <<acct, index, hup, thr, dead>>

\* ... then the account; a failing helper is a warning
CliCreateUseradd ==
    /\ cli.pc = "useradd"
    /\ acct' \in {acct, acct \cup {cli.user}}
    /\ cli' = [cli EXCEPT !.pc = "hup"]
    /\ UNCHANGED <<rec, made, index, hup, thr, dead>>

\* try_sighup_daemon, then the new token is printed
CliSighup ==
    /\ cli.pc = "hup"
    /\ hup' = TRUE
    /\ dead' = [dead EXCEPT ![cli.user] = cli.tok - 1]
    /\ cli' = IdleCli
    /\ UNCHANGED <<rec, acct, made, index, thr>>

\* the daemon dies and is started again: load_all runs before it listens
Restart ==
    /\ index' = rec /\ hup' = FALSE
    /\ thr' = [t \in Threads |-> IdleThread]
    /\ UNCHANGED <<rec, acct, made, cli, dead>>

-----------------------------------------------------------------------------
Step(t) ==
    \/ Scan(t)
    \/ Swap(t)
    \/ Auth(t)
    \/ Reply(t)
    \/ CreateUseradd(t)
    \/ CreateRecord(t)
    \/ UpdateRead(t)
    \/ UpdateRewrite(t)
    \/ DeleteUnlink(t)
    \/ DeleteAccount(t)

Next ==
    \/ \E t \in Threads, u \in UserIds : Call(t, u)
    \/ \E t \in Threads, u \in UserIds, op \in ToolKinds : ToolCall(t, op, u)
    \/ \E t \in Threads : Step(t)
    \/ \E u \in UserIds : RotateRead(u)
    \/ \E u \in UserIds : CliCreateRecord(u)
    \/ RotateRewrite
    \/ CliCreateUseradd
    \/ CliSighup
    \/ Restart

Spec == Init /\ [][Next]_vars

-----------------------------------------------------------------------------
(* Properties *)

\* "Rotating that user's token invalidates every active session": a call that
\* comes in after auth rotate (or user_delete) reported success is never served
\* on one of the tokens it withdrew.
WithdrawnTokenRefused ==
    \A t \in Threads : thr[t].pc = "served" => thr[t].tok > thr[t].floor

\* "The daemon picks up new/rotated users on SIGHUP": once no reload is pending
\* or running and no change is half done, the index is what the records say.
IndexFresh ==
    (~hup /\ cli.pc = "idle" /\ \A t \in Threads : thr[t].pc \in {"idle", "served"})
        => index = rec

\* A token that was rotated away or whose user was deleted never finds its way
\* back into a record file.
WithdrawnTokenStaysOut ==
    \A u \in UserIds : rec[u] = 0 \/ rec[u] > dead[u]

\* No step of a user tool, whether the tool goes on, fails or is cut short by a
\* crash, makes a record of a user without an OS account ("we must not leave
\* behind an auth-able user record (token) that can't execute anything").
ToolsKeepAccounts ==
    [][thr' # thr => \A u \in UserIds :
          (rec'[u] # 0 /\ u \notin acct') => (rec[u] # 0 /\ u \notin acct)]_vars
=============================================================================
