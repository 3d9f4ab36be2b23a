----------------------------- MODULE PrivService -----------------------------
(***************************************************************************)
(* The Windows privileged service (priv_win/main.cpp, operations.cpp) and  *)
(* its callers in the daemon (platform/windows/priv_client.cpp). Every     *)
(* connection is a detached thread without any lock, so handlers overlap.  *)
(* What a user is, is spread over four places:                             *)
(*   acct    the local account; a new one has a SID never used before      *)
(*   lsa     the password kept as an LSA secret, to log the user on        *)
(*   ledger  user_sids.json: user name -> SID, read, changed and rewritten *)
(*   files   grants\<id>.json, and admin, system_admin.json                *)
(* A password is named after the SID of the account made with it; Stray is *)
(* one that no account has. SID 0 is no account, no entry, an empty field. *)
(***************************************************************************)
EXTENDS Integers

CONSTANTS
    Users,       \* short ids
    Callers,     \* daemon threads, each with at most one call on the pipe
    GrantIds,    \* grant ids, each drawn once
    Admin,       \* stands for system_admin.json where a grant id is expected
    Nothing,     \* no user, no grant, no file
    Torn,        \* a user_sids.json that does not parse
    Ttls,        \* ttls of requested grants
    RecordSids,  \* what SID a grant record carries, a subset of SidSources
    Faults,      \* what may fail, a subset of FaultKinds
    OneAtATime,  \* TRUE: useradd and userdel calls do not overlap
    Readd,       \* TRUE: useradd may name an existing account
    MaxSid, MaxTime   \* bounds on accounts and clock

\* empty: what GrantManager::request_grant sends; captured: the SID of the account
\* the grant is for, which the record's format provides for
SidSources == {"empty", "captured"}

\* account: NetUserAdd or NetUserDel fails; lsa: the secret is not stored;
\* ledger: user_sids.json is not replaced; grant: a grant file is not written;
\* remove: a grant file is not removed; spawn: no token or no process; answer:
\* the response does not reach the caller.
FaultKinds == {"account", "lsa", "ledger", "grant", "remove", "spawn", "answer"}

ASSUME PrivServiceAssumption ==
    /\ Nothing \notin Users \cup GrantIds \cup {Admin, Torn} /\ Admin \notin GrantIds
    /\ Nothing \notin [Users -> 0..MaxSid] /\ Torn \notin [Users -> 0..MaxSid]
    /\ Ttls \subseteq Nat \ {0}
    /\ RecordSids \subseteq SidSources /\ Faults \subseteq FaultKinds
    /\ OneAtATime \in BOOLEAN /\ Readd \in BOOLEAN
    /\ MaxSid \in Nat /\ MaxTime \in Nat

VARIABLES
    acct, lsa, ledger,
    tmp,      \* user_sids.json.tmp.<pid>, one name for all threads
    files,    \* grants\<id>.json: user, sid and expires_at, or Nothing
    admin,    \* system_admin.json: user and sid
    made,     \* SIDs given out so far
    act,      \* calls in progress
    now,
    drawn,    \* grant ids used so far
    holder,   \* history: the account each saved grant was issued to, and whether
              \* the record names its SID
    revoked,  \* history: grants whose revocation was answered
    usable    \* history: users whose useradd was answered ok, with nothing since

vars == <<acct, lsa, ledger, tmp, files, admin, made, act, now,
          drawn, holder, revoked, usable>>

Sids == 0..MaxSid
Stray == -1
Ledger == [Users -> Sids]
NoLedger == [u \in Users |-> 0]
Holder == [user : Users \cup {Nothing}, sid : Sids]
Nobody == [user |-> Nothing, sid |-> 0]
NoHolder == [user |-> Nothing, sid |-> 0, bound |-> FALSE]
Record == [user : Users, sid : Sids, exp : Nat]
Maybe(S) == S \cup {Nothing}

\* a call: where its handler is, what it is about, the SID and the ledger it has
\* read and the grant it found; as history, the grants that were over when it was
\* sent, and whether the user's account has stayed the same since
NoCall == [pc |-> "idle", op |-> "none", user |-> Nothing, id |-> Nothing,
           sid |-> 0, doc |-> NoLedger, grant |-> Nothing, over |-> {}, calm |-> TRUE]
AccountOps == {"useradd", "userdel"}
Ops == {"none", "useradd", "userdel", "install", "admin", "run", "background"}
Pcs == {"idle", "account", "secret", "sid", "read", "open", "write", "move",
        "check", "save", "lookup", "ledger", "admin", "grants", "token", "spawn"}

\* Types of the state.
TypeOK ==
    /\ acct \in [Users -> Sids] /\ lsa \in [Users -> Sids \cup {Stray}]
    /\ ledger \in Ledger \cup {Torn} /\ tmp \in Ledger \cup {Torn, Nothing}
    /\ files \in [GrantIds -> Maybe(Record)]
    /\ drawn \subseteq GrantIds /\ revoked \subseteq drawn
    /\ admin \in Holder
    /\ made \in Sids /\ now \in 0..MaxTime
    /\ act \in [Callers -> [pc : Pcs, op : Ops, user : Maybe(Users),
                            id : GrantIds \cup {Admin, Nothing},
                            sid : Sids \cup {Stray},
                            doc : Ledger, grant : Maybe(Record),
                            over : SUBSET GrantIds, calm : BOOLEAN]]
    /\ holder \in [GrantIds -> [user : Maybe(Users), sid : Sids, bound : BOOLEAN]] /\ usable \subseteq Users

Init ==
    /\ made = 0 /\ now = 0
    /\ acct = NoLedger /\ lsa = NoLedger /\ ledger = NoLedger /\ tmp = Nothing
    /\ files = [g \in GrantIds |-> Nothing] /\ drawn = {} /\ revoked = {} /\ usable = {}
    /\ admin = Nobody
    /\ act = [c \in Callers |-> NoCall]
    /\ holder = [g \in GrantIds |-> NoHolder]

-----------------------------------------------------------------------------
(* The pipe: priv_client::call and handle_connection *)

users == <<acct, lsa, ledger, tmp, made>>
grants == <<files, admin, drawn, holder>>

\* a connection is accepted, its request read and a thread started for it
Send(c, call) ==
    /\ act[c].pc = "idle"
    /\ act' = [act EXCEPT ![c] = call]
Request(op, u, pc) == [NoCall EXCEPT !.op = op, !.user = u, !.pc = pc]
Goto(c, pc) == act' = [act EXCEPT ![c].pc = pc]

\* the handler returns. A response that is too long or meets a broken pipe is
\* lost: the caller then reports an error whatever the handler did.
Answer(c) == act' = [act EXCEPT ![c] = NoCall]
Answered == {TRUE} \cup (IF "answer" \in Faults THEN {FALSE} ELSE {})

\* the account of u comes or goes: a run_as of u no longer finds what it found
AccountChanges(c, u, call) ==
    act' = [d \in Callers |->
               IF d = c THEN call
               ELSE [act[d] EXCEPT !.calm = @ /\ ~(act[d].op = "run" /\ act[d].user = u)]]

-----------------------------------------------------------------------------
(* useradd and userdel *)

Serial == OneAtATime => \A d \in Callers : act[d].op \notin AccountOps

CallUserAdd(c, u) ==
    /\ Serial
    /\ made < MaxSid /\ (acct[u] # 0 => Readd)
    /\ Send(c, Request("useradd", u, "account"))
    /\ usable' = usable \ {u}
    /\ UNCHANGED <<users, grants, now, revoked>>

CallUserDel(c, u) ==
    /\ Serial
    /\ Send(c, Request("userdel", u, "account"))
    /\ usable' = usable \ {u}
    /\ UNCHANGED <<users, grants, now, revoked>>

\* NetUserAdd with a password made for this call; an existing account keeps the
\* password it has
NetUserAdd(c) ==
    LET u == act[c].user IN
    /\ act[c].pc = "account" /\ act[c].op = "useradd"
    /\ \/ /\ acct[u] = 0 /\ made < MaxSid
          /\ acct' = [acct EXCEPT ![u] = made + 1]
          /\ made' = made + 1
          /\ AccountChanges(c, u, [act[c] EXCEPT !.pc = "secret", !.sid = made + 1])
       \/ /\ acct[u] # 0
          /\ act' = [act EXCEPT ![c].pc = "secret", ![c].sid = Stray]
          /\ UNCHANGED <<acct, made>>
       \/ /\ "account" \in Faults
          /\ Answer(c)
          /\ UNCHANGED <<acct, made>>
    /\ UNCHANGED <<lsa, ledger, tmp, grants, now, revoked, usable>>

\* (mutant) a secret that cannot be stored does not end the call
StorePasswordIfPossible(c) ==
    LET u == act[c].user IN
    /\ act[c].pc = "secret" /\ act[c].op = "useradd"
    /\ \/ lsa' = [lsa EXCEPT ![u] = act[c].sid]
       \/ "lsa" \in Faults /\ lsa' = lsa
    /\ Goto(c, "sid")
    /\ UNCHANGED <<acct, ledger, tmp, made, grants, now, revoked, usable>>

\* lsa_store_password
StorePassword(c) ==
    LET u == act[c].user IN
    /\ act[c].pc = "secret" /\ act[c].op = "useradd"
    /\ \/ /\ lsa' = [lsa EXCEPT ![u] = act[c].sid]
          /\ Goto(c, "sid")
       \/ "lsa" \in Faults /\ lsa' = lsa /\ Answer(c)
    /\ UNCHANGED <<acct, ledger, tmp, made, grants, now, revoked, usable>>

\* sid_string_for_user, after the account was made
SidAfterAdd(c) ==
    LET u == act[c].user IN
    /\ act[c].pc = "sid"
    /\ \/ acct[u] # 0 /\ act' = [act EXCEPT ![c].pc = "read", ![c].sid = acct[u]]
       \/ acct[u] = 0 /\ Answer(c)
    /\ UNCHANGED <<users, grants, now, revoked, usable>>

NetUserDel(c) ==
    LET u == act[c].user IN
    /\ act[c].pc = "account" /\ act[c].op = "userdel"
    /\ \/ /\ acct' = [acct EXCEPT ![u] = 0]
          /\ AccountChanges(c, u, [act[c] EXCEPT !.pc = "secret"])
       \/ "account" \in Faults /\ acct' = acct /\ Answer(c)
    /\ UNCHANGED <<lsa, ledger, tmp, made, grants, now, revoked, usable>>

\* lsa_delete_password
DeletePassword(c) ==
    /\ act[c].pc = "secret" /\ act[c].op = "userdel"
    /\ lsa' = [lsa EXCEPT ![act[c].user] = 0]
    /\ Goto(c, "read")
    /\ UNCHANGED <<acct, ledger, tmp, made, grants, now, revoked, usable>>

-----------------------------------------------------------------------------
(* user_sids.json: persist_user_sid, forget_persisted_sid, atomic_write_file *)

\* the file is read and changed in memory. One that does not parse is taken for
\* empty by useradd and left alone by userdel.
ReadLedger(c) ==
    LET u == act[c].user
        found == IF ledger = Torn THEN NoLedger ELSE ledger
        entry == IF act[c].op = "useradd" THEN act[c].sid ELSE 0 IN
    /\ act[c].pc = "read"
    /\ IF act[c].op = "userdel" /\ ledger = Torn
       THEN Answer(c)
       ELSE act' = [act EXCEPT ![c].pc = "open", ![c].sid = 0,
                                ![c].doc = [found EXCEPT ![u] = entry]]
    /\ UNCHANGED <<users, grants, now, revoked, usable>>

\* the temporary is truncated, by every thread under the same name
OpenTmp(c) ==
    /\ act[c].pc = "open"
    /\ tmp' = Torn
    /\ Goto(c, "write")
    /\ UNCHANGED <<acct, lsa, ledger, made, grants, now, revoked, usable>>

\* written from the start of the file, over what another thread wrote meanwhile
WriteTmp(c) ==
    /\ act[c].pc = "write"
    /\ tmp' \in {act[c].doc} \cup (IF tmp = Torn THEN {} ELSE {Torn})
    /\ act' = [act EXCEPT ![c].pc = "move", ![c].doc = NoLedger]
    /\ UNCHANGED <<acct, lsa, ledger, made, grants, now, revoked, usable>>

\* MoveFileEx fails when another thread has moved the temporary or has it open;
\* nobody looks at the result, and the handler answers ok
MoveTmp(c) ==
    /\ act[c].pc = "move"
    /\ \/ /\ tmp # Nothing /\ \A d \in Callers : act[d].pc # "write"
          /\ ledger' = tmp /\ tmp' = Nothing
       \/ /\ tmp = Nothing \/ (\E d \in Callers : act[d].pc = "write") \/ "ledger" \in Faults
          /\ UNCHANGED <<ledger, tmp>>
    /\ \E ok \in Answered :
          usable' = IF ok /\ act[c].op = "useradd" THEN usable \cup {act[c].user} ELSE usable
    /\ Answer(c)
    /\ UNCHANGED <<acct, lsa, made, grants, now, revoked>>

-----------------------------------------------------------------------------
(* Grants *)

\* (mutant) any account of that name will do
BoundByName(sid, live) == TRUE

\* the SID binding shared by install_grant and find_grant_for: an empty field on
\* either side binds nothing
Bound(sid, live) == sid = 0 \/ live = 0 \/ sid = live

CallInstallGrant(c, g, u, ttl, src) ==
    LET sid == IF src = "captured" THEN acct[u] ELSE 0 IN
    /\ g \notin drawn /\ acct[u] # 0
    /\ Send(c, [Request("install", u, "check") EXCEPT
                   !.id = g, !.sid = acct[u],
                   !.grant = [user |-> u, sid |-> sid, exp |-> now + ttl]])
    /\ drawn' = drawn \cup {g}
    /\ UNCHANGED <<users, files, admin, holder, now, revoked, usable>>

\* handle_install_grant: a record bound to another account is refused
CheckBinding(c) ==
    LET bound == Bound(act[c].grant.sid, acct[act[c].user]) IN
    /\ act[c].pc = "check" /\ act[c].op = "install"
    /\ \/ bound /\ Goto(c, "save")
       \/ ~bound /\ Answer(c)
    /\ UNCHANGED <<users, grants, now, revoked, usable>>

\* the record is written as it came
SaveGrant(c) ==
    LET g == act[c].id IN
    /\ act[c].pc = "save" /\ act[c].op = "install"
    /\ \/ /\ files' = [files EXCEPT ![g] = act[c].grant]
          /\ holder' = [holder EXCEPT ![g] = [user |-> act[c].user, sid |-> act[c].sid,
                                            bound |-> act[c].grant.sid # 0]]
       \/ "grant" \in Faults /\ UNCHANGED <<files, holder>>
    /\ Answer(c)
    /\ UNCHANGED <<users, admin, drawn, now, revoked, usable>>

\* (mutant) the file is left to expire
RevokeGrantLater(c, g) ==
    /\ act[c].pc = "idle"
    /\ files[g] # Nothing
    /\ revoked' = revoked \cup {g}
    /\ UNCHANGED <<users, grants, act, now, usable>>

\* handle_revoke_grant; an error of fs::remove is ignored, and a file that is not
\* there is nothing to remove
RevokeGrant(c, g) ==
    /\ act[c].pc = "idle"
    /\ files[g] # Nothing
    /\ \/ files' = [files EXCEPT ![g] = Nothing]
       \/ "remove" \in Faults /\ files' = files
    /\ \E ok \in Answered : revoked' = IF ok THEN revoked \cup {g} ELSE revoked
    /\ UNCHANGED <<users, admin, drawn, holder, act, now, usable>>

CallInstallAdmin(c, u) ==
    /\ Send(c, Request("admin", u, "check"))
    /\ UNCHANGED <<users, grants, now, revoked, usable>>

\* handle_install_system_admin: the service looks the SID up itself
LookupAdmin(c) ==
    LET live == acct[act[c].user] IN
    /\ act[c].pc = "check" /\ act[c].op = "admin"
    /\ \/ live # 0 /\ act' = [act EXCEPT ![c].pc = "save", ![c].sid = live]
       \/ live = 0 /\ Answer(c)
    /\ UNCHANGED <<users, grants, now, revoked, usable>>

SaveAdmin(c) ==
    /\ act[c].pc = "save" /\ act[c].op = "admin"
    /\ \/ admin' = [user |-> act[c].user, sid |-> act[c].sid]
       \/ "grant" \in Faults /\ admin' = admin
    /\ Answer(c)
    /\ UNCHANGED <<users, files, drawn, holder, now, revoked, usable>>

\* handle_revoke_system_admin
RevokeAdmin(c) ==
    /\ act[c].pc = "idle" /\ admin # Nobody
    /\ \/ admin' = Nobody
       \/ "remove" \in Faults /\ admin' = admin
    /\ UNCHANGED <<users, files, drawn, holder, act, now, revoked, usable>>

-----------------------------------------------------------------------------
(* run_as and spawn_background_as *)

Expired(grant) == grant.exp <= now

CallRunAs(c, u) ==
    /\ Send(c, [Request("run", u, "lookup") EXCEPT
                   !.over = revoked \cup {g \in GrantIds : files[g] # Nothing /\ Expired(files[g])}])
    /\ UNCHANGED <<users, grants, now, revoked, usable>>

CallSpawnBackground(c, u) ==
    /\ Send(c, Request("background", u, "token"))
    /\ UNCHANGED <<users, grants, now, revoked, usable>>

LookupUser(c) ==
    LET live == acct[act[c].user] IN
    /\ act[c].pc = "lookup"
    /\ \/ live # 0 /\ act' = [act EXCEPT ![c].pc = "ledger", ![c].sid = live]
       \/ live = 0 /\ Answer(c)
    /\ UNCHANGED <<users, grants, now, revoked, usable>>

\* lookup_persisted_sid: a file that does not parse has no entry
Persisted(u) == IF ledger = Torn THEN 0 ELSE ledger[u]

\* "SID rebinding detected"
CheckLedger(c) ==
    LET known == Persisted(act[c].user) IN
    /\ act[c].pc = "ledger"
    /\ \/ known \in {0, act[c].sid} /\ Goto(c, "admin")
       \/ known \notin {0, act[c].sid} /\ Answer(c)
    /\ UNCHANGED <<users, grants, now, revoked, usable>>

\* try_file on a grant of user u whose SID is live
Covers(g, u, live) ==
    /\ files[g] # Nothing
    /\ files[g].user = u
    /\ Bound(files[g].sid, live)
    /\ ~Expired(files[g])

\* find_grant_for looks the SID up again and tries system_admin.json first; the SID
\* of a record that elevates is kept as history
TryAdmin(c) ==
    LET u == act[c].user
        live == acct[u] IN
    /\ act[c].pc = "admin"
    /\ IF admin.user = u /\ Bound(admin.sid, live)
       THEN act' = [act EXCEPT ![c].pc = "token", ![c].sid = admin.sid, ![c].id = Admin]
       ELSE act' = [act EXCEPT ![c].pc = "grants", ![c].sid = live]
    /\ UNCHANGED <<users, grants, now, revoked, usable>>

\* then the files of the grants directory, up to the first that covers the
\* command: which of the covering ones names it, if any, is the caller's choice
TryGrants(c) ==
    /\ act[c].pc = "grants"
    /\ \E g \in Maybe({g \in GrantIds : Covers(g, act[c].user, act[c].sid)}) :
          act' = [act EXCEPT ![c].pc = "token", ![c].id = g, ![c].sid = 0]
    /\ UNCHANGED <<users, grants, now, revoked, usable>>

Elevated(c) == act[c].id # Nothing

\* (mutant) a failed logon ends the thread without an answer
AcquireTokenUnanswered(c) ==
    LET u == act[c].user
        logon == acct[u] # 0 /\ lsa[u] = acct[u] IN
    /\ act[c].pc = "token"
    /\ Goto(c, IF Elevated(c) \/ logon THEN "spawn" ELSE "ended")
    /\ UNCHANGED <<users, grants, now, revoked, usable>>

\* acquire_token_for: the service's own token, or a logon with the LSA secret
AcquireToken(c) ==
    LET u == act[c].user
        logon == acct[u] # 0 /\ lsa[u] = acct[u] IN
    /\ act[c].pc = "token"
    /\ \/ (Elevated(c) \/ logon) /\ Goto(c, "spawn")
       \/ (~Elevated(c) /\ ~logon) /\ Answer(c)
       \/ (Elevated(c) \/ logon) /\ "spawn" \in Faults /\ Answer(c)
    /\ UNCHANGED <<users, grants, now, revoked, usable>>

\* spawn_with_token, the audit record and the answer
Spawn(c) ==
    /\ act[c].pc = "spawn"
    /\ Answer(c)
    /\ UNCHANGED <<users, grants, now, revoked, usable>>

-----------------------------------------------------------------------------
(* The service and the clock *)

\* service_ctrl, serve_loop and service_main: the process ends with its detached
\* threads wherever they are, the callers' reads fail, and it is started again. A
\* temporary that is left over is truncated by whoever opens it next.
Restart ==
    /\ act' = [c \in Callers |-> NoCall]
    /\ tmp' = Nothing
    /\ UNCHANGED <<acct, lsa, ledger, made, grants, now, revoked, usable>>

Tick ==
    /\ now < MaxTime
    /\ now' = now + 1
    /\ UNCHANGED <<users, grants, act, revoked, usable>>

-----------------------------------------------------------------------------
\* dispatch: one step of the handler of a call
Handle(c) ==
    \/ NetUserAdd(c)
    \/ StorePassword(c)
    \/ SidAfterAdd(c)
    \/ NetUserDel(c)
    \/ DeletePassword(c)
    \/ ReadLedger(c)
    \/ OpenTmp(c)
    \/ WriteTmp(c)
    \/ MoveTmp(c)
    \/ CheckBinding(c)
    \/ SaveGrant(c)
    \/ LookupAdmin(c)
    \/ SaveAdmin(c)
    \/ LookupUser(c)
    \/ CheckLedger(c)
    \/ TryAdmin(c)
    \/ TryGrants(c)
    \/ AcquireToken(c)
    \/ Spawn(c)

Next ==
    \/ \E c \in Callers, u \in Users : CallUserAdd(c, u)
    \/ \E c \in Callers, u \in Users : CallUserDel(c, u)
    \/ \E c \in Callers, g \in GrantIds, u \in Users, ttl \in Ttls, src \in RecordSids :
          CallInstallGrant(c, g, u, ttl, src)
    \/ \E c \in Callers, g \in GrantIds : RevokeGrant(c, g)
    \/ \E c \in Callers, u \in Users : CallInstallAdmin(c, u)
    \/ \E c \in Callers : RevokeAdmin(c)
    \/ \E c \in Callers, u \in Users : CallRunAs(c, u)
    \/ \E c \in Callers, u \in Users : CallSpawnBackground(c, u)
    \/ \E c \in Callers : Handle(c)
    \/ Restart
    \/ Tick

Spec == Init /\ [][Next]_vars

-----------------------------------------------------------------------------
(* Properties *)

\* A user whose useradd was answered ok can be used until the next useradd or
\* userdel names him: run_as accepts his SID and logs him on. What other calls,
\* failing calls and stops of the service leave in the account database, the LSA
\* store and user_sids.json never stands in the way.
AddedUserRuns ==
    \A u \in usable : acct[u] # 0 /\ lsa[u] = acct[u] /\ Persisted(u) \in {0, acct[u]}

\* A command runs with the service's own token only on a grant that covered it
\* when it was sent: one for this user, unexpired, not revoked by an answered
\* revoke_grant.
ElevationIsCovered ==
    \A c \in Callers :
        (act[c].op = "run" /\ act[c].id \in GrantIds) =>
            /\ holder[act[c].id].user = act[c].user
            /\ act[c].id \notin act[c].over

\* An elevation ends with the account it was given to, if the record names its
\* SID: while an account stays as it is, no run_as of its user is elevated by such
\* a grant, or by the system_admin record, of an earlier account of the same name.
BoundNotInherited ==
    \A c \in Callers :
        (act[c].op = "run" /\ act[c].calm) =>
            /\ (act[c].id \in GrantIds /\ holder[act[c].id].bound) =>
                  holder[act[c].id].sid = acct[act[c].user]
            /\ act[c].id = Admin => act[c].sid = acct[act[c].user]

\* "Each record binds the grant to the user's SID captured at issue time": no
\* grant at all elevates a later account of the same name. A record that
\* request_grant sends carries no SID, and the service does not add it.
GrantNotInherited ==
    \A c \in Callers :
        (act[c].op = "run" /\ act[c].calm /\ act[c].id \in GrantIds) =>
            holder[act[c].id].sid = acct[act[c].user]
=============================================================================
