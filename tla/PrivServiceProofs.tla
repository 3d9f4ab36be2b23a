-------------------------- MODULE PrivServiceProofs --------------------------
(***************************************************************************)
(* Theorems about PrivService for every number of users, callers, grants   *)
(* and accounts, and for the faults each theorem allows.                   *)
(***************************************************************************)
EXTENDS PrivService, TLAPS

-----------------------------------------------------------------------------
(* Type correctness *)

Call == [pc : Pcs, op : Ops, user : Maybe(Users), id : GrantIds \cup {Admin, Nothing},
         sid : Sids \cup {Stray}, doc : Ledger, grant : Maybe(Record),
         over : SUBSET GrantIds, calm : BOOLEAN]

\* Which handler a call is in, by where it is, and what it then works on.
Shape(a) ==
    /\ a.pc = "idle" <=> a.op = "none"
    /\ a.op # "none" => a.user \in Users
    /\ a.pc \in {"account", "secret", "sid", "read", "open", "write", "move"} =>
          a.op \in AccountOps
    /\ a.pc \in {"check", "save"} => a.op \in {"install", "admin"}
    /\ a.pc \in {"lookup", "ledger", "admin", "grants"} => a.op = "run"
    /\ a.pc \in {"token", "spawn"} => a.op \in {"run", "background"}
    /\ a.op = "install" => a.id \in GrantIds /\ a.grant \in Record
    /\ a.sid = Stray => a.op = "useradd" /\ a.pc \in {"secret", "sid"}

Calls == act \in [Callers -> Call] /\ \A c \in Callers : Shape(act[c])

\* What is typed of the machine, apart from the calls.
Stores ==
    /\ acct \in [Users -> Sids] /\ lsa \in [Users -> Sids \cup {Stray}]
    /\ ledger \in Ledger \cup {Torn} /\ tmp \in Ledger \cup {Torn, Nothing}
    /\ files \in [GrantIds -> Maybe(Record)]
    /\ drawn \subseteq GrantIds /\ revoked \subseteq drawn
    /\ admin \in Holder
    /\ made \in Sids /\ now \in 0..MaxTime
    /\ holder \in [GrantIds -> [user : Maybe(Users), sid : Sids, bound : BOOLEAN]]
    /\ usable \subseteq Users

\* A file on disk is one of a grant id that was drawn.
Drawn ==
    /\ \A g \in GrantIds : files[g] # Nothing => g \in drawn
    /\ \A c \in Callers : act[c].op = "install" => act[c].id \in drawn

TypeInv == Stores /\ Calls /\ Drawn

\* Zero is a SID, no ledger a ledger and no call a call.
LEMMA NoneTyped == 0 \in Sids /\ NoLedger \in Ledger /\ NoCall \in Call /\ Shape(NoCall)
<1>1. 0 \in Sids /\ Stray \notin Sids
  BY PrivServiceAssumption DEF Sids, Stray
<1>2. NoLedger \in Ledger
  BY <1>1 DEF NoLedger, Ledger
<1>3. NoCall \in Call
  BY <1>1, <1>2 DEF NoCall, Call, Pcs, Ops, Maybe
<1>4. Shape(NoCall)
  BY <1>1 DEF NoCall, Shape, Stray
<1> QED
  BY <1>1, <1>2, <1>3, <1>4

\* One call changes, into a well-formed one.
LEMMA OneCall ==
  ASSUME Calls, NEW c \in Callers, NEW a, a \in Call, Shape(a), act' = [act EXCEPT ![c] = a]
  PROVE  Calls'
BY DEF Calls

\* When an account comes or goes, the calls of others stay what they are.
LEMMA OtherCalls ==
  ASSUME Calls, NEW c \in Callers, NEW u, NEW x, AccountChanges(c, u, x),
         NEW d \in Callers, d # c
  PROVE  /\ act'[d] \in Call /\ Shape(act'[d])
         /\ act'[d].op = act[d].op /\ act'[d].id = act[d].id
<1>1. act[d] \in Call /\ Shape(act[d])
  BY DEF Calls
<1>2. act'[d] = [act[d] EXCEPT !.calm = act[d].calm /\ ~(act[d].op = "run" /\ act[d].user = u)]
  BY DEF AccountChanges
<1> QED
  BY <1>1, <1>2 DEF Call, Shape

\* Every call, every step of a handler, a restart and a tick keep the state well
\* typed: what is saved of a user is a SID, never a stray password.
LEMMA TypeStep == TypeInv /\ [Next]_vars => TypeInv'
<1> SUFFICES ASSUME TypeInv, [Next]_vars PROVE TypeInv'
  OBVIOUS
<1> USE PrivServiceAssumption, NoneTyped
<1>0. Stores /\ Calls /\ Drawn
  BY DEF TypeInv
<1>a. ASSUME NEW c \in Callers, Answer(c), UNCHANGED <<files, drawn>> PROVE Calls' /\ Drawn'
  <2>1. Calls'
    BY <1>0, <1>a, OneCall DEF Answer
  <2> QED
    BY <1>0, <1>a, <2>1 DEF Answer, Calls, Drawn, NoCall
<1>s. ASSUME NEW c \in Callers, NEW x, x \in Call, Shape(x), act' = [act EXCEPT ![c] = x],
             UNCHANGED <<files, drawn>>,
             x.op = "install" => act[c].op = "install" /\ x.id = act[c].id
      PROVE  Calls' /\ Drawn'
  <2>1. Calls'
    BY <1>0, <1>s, OneCall
  <2> QED
    BY <1>0, <1>s, <2>1 DEF Calls, Drawn
<1>r. ASSUME NEW op \in Ops \ {"none", "install"}, NEW u \in Users, NEW pc \in Pcs \ {"idle"},
             Shape(Request(op, u, pc)), NEW c \in Callers, Send(c, Request(op, u, pc)),
             UNCHANGED <<files, drawn>>
      PROVE  Calls' /\ Drawn'
  <2>1. Request(op, u, pc) \in Call /\ Request(op, u, pc).op # "install"
    BY DEF Request, NoCall, Call, Maybe
  <2> QED
    BY <1>r, <1>s, <2>1 DEF Send
<1>1. ASSUME NEW c \in Callers, NEW u \in Users, CallUserAdd(c, u) PROVE TypeInv'
  <2>1. Shape(Request("useradd", u, "account"))
    BY DEF Shape, Request, NoCall, AccountOps, Stray
  <2>2. Calls' /\ Drawn'
    BY <1>1, <1>r, <2>1 DEF CallUserAdd, grants, Ops, Pcs
  <2> QED
    BY <1>0, <1>1, <2>2 DEF CallUserAdd, users, grants, TypeInv, Stores
<1>2. ASSUME NEW c \in Callers, NEW u \in Users, CallUserDel(c, u) PROVE TypeInv'
  <2>1. Shape(Request("userdel", u, "account"))
    BY DEF Shape, Request, NoCall, AccountOps, Stray
  <2>2. Calls' /\ Drawn'
    BY <1>2, <1>r, <2>1 DEF CallUserDel, grants, Ops, Pcs
  <2> QED
    BY <1>0, <1>2, <2>2 DEF CallUserDel, users, grants, TypeInv, Stores
<1>3. ASSUME NEW c \in Callers, NEW g \in GrantIds, NEW u \in Users, NEW ttl \in Ttls,
             NEW src \in RecordSids, CallInstallGrant(c, g, u, ttl, src)
      PROVE  TypeInv'
  <2> DEFINE sid == IF src = "captured" THEN acct[u] ELSE 0
             grant == [user |-> u, sid |-> sid, exp |-> now + ttl]
             x == [Request("install", u, "check") EXCEPT
                     !.id = g, !.sid = acct[u], !.grant = grant]
  <2>1. acct[u] \in Sids /\ sid \in Sids /\ now + ttl \in Nat
    BY <1>0 DEF Stores
  <2>2. grant \in Record
    BY <2>1 DEF Record
  <2>3. x \in Call /\ x.op = "install" /\ x.id = g
    BY <2>1, <2>2 DEF Request, NoCall, Call, Maybe, Ops, Pcs
  <2>4. Shape(x)
    BY <2>1, <2>2 DEF Shape, Request, NoCall, AccountOps, Stray, Sids
  <2>5. act' = [act EXCEPT ![c] = x] /\ drawn' = drawn \cup {g} /\ files' = files
    BY <1>3 DEF CallInstallGrant, Send
  <2>6. Calls'
    BY <1>0, <2>3, <2>4, <2>5, OneCall
  <2>7. Drawn'
    BY <1>0, <2>3, <2>5 DEF Drawn, Calls
  <2> QED
    BY <1>0, <1>3, <2>6, <2>7 DEF CallInstallGrant, users, TypeInv, Stores
<1>4. ASSUME NEW c \in Callers, NEW g \in GrantIds, RevokeGrant(c, g) PROVE TypeInv'
  BY <1>0, <1>4 DEF RevokeGrant, users, TypeInv, Stores, Calls, Drawn, Maybe
<1>5. ASSUME NEW c \in Callers, NEW u \in Users, CallInstallAdmin(c, u) PROVE TypeInv'
  <2>1. Shape(Request("admin", u, "check"))
    BY DEF Shape, Request, NoCall, AccountOps, Stray
  <2>2. Calls' /\ Drawn'
    BY <1>5, <1>r, <2>1 DEF CallInstallAdmin, grants, Ops, Pcs
  <2> QED
    BY <1>0, <1>5, <2>2 DEF CallInstallAdmin, users, grants, TypeInv, Stores
<1>6. ASSUME NEW c \in Callers, RevokeAdmin(c) PROVE TypeInv'
  <2>1. Nobody \in Holder
    BY DEF Nobody, Holder
  <2> QED
    BY <1>0, <1>6, <2>1 DEF RevokeAdmin, users, TypeInv, Stores, Calls, Drawn
<1>7. ASSUME NEW c \in Callers, NEW u \in Users, CallRunAs(c, u) PROVE TypeInv'
  <2> DEFINE over == revoked \cup {g \in GrantIds : files[g] # Nothing /\ Expired(files[g])}
             x == [Request("run", u, "lookup") EXCEPT !.over = over]
  <2>1. over \subseteq GrantIds
    BY <1>0 DEF Stores
  <2>2. x \in Call /\ Shape(x) /\ x.op = "run"
    BY <2>1 DEF Request, NoCall, Call, Maybe, Ops, Pcs, Shape, AccountOps, Stray
  <2>3. act' = [act EXCEPT ![c] = x] /\ UNCHANGED <<files, drawn>>
    BY <1>7 DEF CallRunAs, Send, grants
  <2>4. Calls' /\ Drawn'
    BY <1>s, <2>2, <2>3
  <2> QED
    BY <1>0, <1>7, <2>4 DEF CallRunAs, users, grants, TypeInv, Stores
<1>8. ASSUME NEW c \in Callers, NEW u \in Users, CallSpawnBackground(c, u) PROVE TypeInv'
  <2>1. Shape(Request("background", u, "token"))
    BY DEF Shape, Request, NoCall, AccountOps, Stray
  <2>2. Calls' /\ Drawn'
    BY <1>8, <1>r, <2>1 DEF CallSpawnBackground, grants, Ops, Pcs
  <2> QED
    BY <1>0, <1>8, <2>2 DEF CallSpawnBackground, users, grants, TypeInv, Stores
<1>9. ASSUME NEW c \in Callers, Handle(c) PROVE TypeInv'
  <2> DEFINE a == act[c]
  <2>0. a \in Call /\ Shape(a)
    BY <1>0 DEF Calls
  <2>1. CASE NetUserAdd(c)
    <3>0. a.user \in Users /\ a.op = "useradd" /\ a.pc = "account" /\ acct[a.user] \in Sids
      BY <1>0, <2>0, <2>1 DEF NetUserAdd, Shape, Stores
    <3>1. CASE /\ acct[a.user] = 0 /\ made < MaxSid
               /\ acct' = [acct EXCEPT ![a.user] = made + 1]
               /\ made' = made + 1
               /\ AccountChanges(c, a.user, [a EXCEPT !.pc = "secret", !.sid = made + 1])
      <4> DEFINE x == [a EXCEPT !.pc = "secret", !.sid = made + 1]
      <4>1. made + 1 \in Sids
        BY <1>0, <3>1 DEF Stores, Sids
      <4>2. x \in Call /\ Shape(x) /\ x.op = a.op /\ x.id = a.id
        BY <2>0, <3>0, <4>1 DEF Call, Pcs, Shape, AccountOps, Stray, Sids
      <4>3. ASSUME NEW d \in Callers, d # c
            PROVE  act'[d] \in Call /\ Shape(act'[d]) /\ act'[d].op = act[d].op
                   /\ act'[d].id = act[d].id
        BY <1>0, <3>1, <4>3, OtherCalls
      <4>4. act'[c] = x /\ act' \in [Callers -> Call]
        BY <3>1, <4>2, <4>3 DEF AccountChanges
      <4>5. Calls' /\ Drawn'
        BY <1>0, <2>1, <3>0, <4>2, <4>3, <4>4 DEF Calls, Drawn, NetUserAdd, grants
      <4> QED
        BY <1>0, <2>1, <3>0, <3>1, <4>1, <4>5 DEF NetUserAdd, TypeInv, Stores, grants
    <3>2. CASE /\ act' = [act EXCEPT ![c].pc = "secret", ![c].sid = Stray]
               /\ UNCHANGED <<acct, made>>
      <4> DEFINE x == [a EXCEPT !.pc = "secret", !.sid = Stray]
      <4>1. x \in Call /\ Shape(x) /\ x.op = a.op /\ x.id = a.id
        BY <2>0, <3>0 DEF Call, Pcs, Shape, AccountOps
      <4>2. Calls' /\ Drawn'
        BY <1>s, <2>1, <3>0, <3>2, <4>1 DEF NetUserAdd, grants
      <4> QED
        BY <1>0, <2>1, <3>2, <4>2 DEF NetUserAdd, TypeInv, Stores, grants
    <3>3. CASE Answer(c) /\ UNCHANGED <<acct, made>>
      BY <1>0, <1>a, <2>1, <3>3 DEF NetUserAdd, TypeInv, Stores, grants
    <3> QED
      BY <2>1, <3>1, <3>2, <3>3 DEF NetUserAdd
  <2>2. CASE StorePassword(c)
    <3> DEFINE x == [a EXCEPT !.pc = "sid"]
    <3>1. x \in Call /\ Shape(x) /\ x.op = a.op /\ x.id = a.id
      BY <1>0, <2>0, <2>2 DEF StorePassword, Call, Pcs, Shape, AccountOps, Stores
    <3>2. a.user \in Users /\ (act' = [act EXCEPT ![c] = x] \/ Answer(c))
      BY <2>0, <2>2 DEF StorePassword, Goto, Shape
    <3>3. Calls' /\ Drawn'
      BY <1>a, <1>s, <2>2, <3>1, <3>2 DEF StorePassword, grants
    <3> QED
      BY <1>0, <2>0, <2>2, <3>2, <3>3 DEF StorePassword, TypeInv, Stores, users, grants, Call
  <2>3. CASE SidAfterAdd(c)
    <3> DEFINE x == [a EXCEPT !.pc = "read", !.sid = acct[a.user]]
    <3>0. acct[a.user] \in Sids /\ acct[a.user] # Stray /\ a.op \in AccountOps /\ a.user \in Users
      BY <1>0, <2>0, <2>3 DEF SidAfterAdd, Shape, AccountOps, Stores, Sids, Stray
    <3>a. x \in Call /\ x.op = a.op /\ x.id = a.id
      BY <2>0, <3>0 DEF Call, Pcs
    <3>b. Shape(x)
      BY <2>0, <3>0 DEF Call, Shape, AccountOps
    <3>1. x \in Call /\ Shape(x) /\ x.op = a.op /\ x.id = a.id
      BY <3>a, <3>b
    <3>2. a.user \in Users /\ (act' = [act EXCEPT ![c] = x] \/ Answer(c))
      BY <2>0, <2>3 DEF SidAfterAdd, Goto, Shape
    <3>3. Calls' /\ Drawn'
      BY <1>a, <1>s, <2>3, <3>1, <3>2 DEF SidAfterAdd, grants
    <3> QED
      BY <1>0, <2>0, <2>3, <3>2, <3>3 DEF SidAfterAdd, TypeInv, Stores, users, grants
  <2>4. CASE NetUserDel(c)
    <3>0. a.user \in Users /\ a.op = "userdel" /\ a.pc = "account"
      BY <2>0, <2>4 DEF NetUserDel, Shape
    <3>1. CASE /\ acct' = [acct EXCEPT ![a.user] = 0]
               /\ AccountChanges(c, a.user, [a EXCEPT !.pc = "secret"])
      <4> DEFINE x == [a EXCEPT !.pc = "secret"]
      <4>2. x \in Call /\ Shape(x) /\ x.op = a.op /\ x.id = a.id
        BY <2>0, <3>0 DEF Call, Pcs, Shape, AccountOps
      <4>3. ASSUME NEW d \in Callers, d # c
            PROVE  act'[d] \in Call /\ Shape(act'[d]) /\ act'[d].op = act[d].op
                   /\ act'[d].id = act[d].id
        BY <1>0, <3>1, <4>3, OtherCalls
      <4>4. act'[c] = x /\ act' \in [Callers -> Call]
        BY <3>1, <4>2, <4>3 DEF AccountChanges
      <4>5. Calls' /\ Drawn'
        BY <1>0, <2>4, <3>0, <4>2, <4>3, <4>4 DEF Calls, Drawn, NetUserDel, grants
      <4> QED
        BY <1>0, <2>4, <3>0, <3>1, <4>5 DEF NetUserDel, TypeInv, Stores, grants
    <3>2. CASE Answer(c) /\ acct' = acct
      BY <1>0, <1>a, <2>4, <3>2 DEF NetUserDel, TypeInv, Stores, grants
    <3> QED
      BY <2>4, <3>1, <3>2 DEF NetUserDel
  <2>5. CASE DeletePassword(c)
    <3> DEFINE x == [a EXCEPT !.pc = "read"]
    <3>1. x \in Call /\ Shape(x) /\ x.op = a.op /\ x.id = a.id
      BY <1>0, <2>0, <2>5 DEF DeletePassword, Call, Pcs, Shape, AccountOps, Stores
    <3>2. a.user \in Users /\ (act' = [act EXCEPT ![c] = x])
      BY <2>0, <2>5 DEF DeletePassword, Goto, Shape
    <3>3. Calls' /\ Drawn'
      BY <1>a, <1>s, <2>5, <3>1, <3>2 DEF DeletePassword, grants
    <3> QED
      BY <1>0, <2>0, <2>5, <3>2, <3>3 DEF DeletePassword, TypeInv, Stores, users, grants
  <2>6. CASE ReadLedger(c)
    <3> DEFINE found == IF ledger = Torn THEN NoLedger ELSE ledger
               entry == IF a.op = "useradd" THEN a.sid ELSE 0
               doc == [found EXCEPT ![a.user] = entry]
               x == [a EXCEPT !.pc = "open", !.sid = 0, !.doc = doc]
    <3>1. a.user \in Users /\ a.op \in AccountOps /\ a.sid \in Sids
      BY <2>0, <2>6 DEF ReadLedger, Shape, Call
    <3>2. doc \in Ledger
      BY <1>0, <3>1 DEF Stores, Ledger
    <3>a. x \in Call /\ x.op = a.op /\ x.id = a.id
      BY <2>0, <3>2 DEF Call, Pcs
    <3>b. Shape(x)
      BY <2>0, <3>1 DEF Call, Shape, AccountOps, Stray
    <3>3. x \in Call /\ Shape(x) /\ x.op = a.op /\ x.id = a.id
      BY <3>a, <3>b
    <3>4. act' = [act EXCEPT ![c] = x] \/ Answer(c)
      BY <2>6 DEF ReadLedger
    <3>5. Calls' /\ Drawn'
      BY <1>a, <1>s, <2>6, <3>3, <3>4 DEF ReadLedger, grants
    <3> QED
      BY <1>0, <2>6, <3>5 DEF ReadLedger, TypeInv, Stores, users, grants
  <2>7. CASE OpenTmp(c)
    <3> DEFINE x == [a EXCEPT !.pc = "write"]
    <3>1. x \in Call /\ Shape(x) /\ x.op = a.op /\ x.id = a.id
      BY <1>0, <2>0, <2>7 DEF OpenTmp, Call, Pcs, Shape, AccountOps, Stores
    <3>2. a.user \in Users /\ (act' = [act EXCEPT ![c] = x])
      BY <2>0, <2>7 DEF OpenTmp, Goto, Shape
    <3>3. Calls' /\ Drawn'
      BY <1>a, <1>s, <2>7, <3>1, <3>2 DEF OpenTmp, grants
    <3> QED
      BY <1>0, <2>0, <2>7, <3>2, <3>3 DEF OpenTmp, TypeInv, Stores, users, grants
  <2>8. CASE WriteTmp(c)
    <3> DEFINE x == [a EXCEPT !.pc = "move", !.doc = NoLedger]
    <3>1. x \in Call /\ Shape(x) /\ x.op = a.op /\ x.id = a.id
      BY <1>0, <2>0, <2>8 DEF WriteTmp, Call, Pcs, Shape, AccountOps, Stores
    <3>2. a.user \in Users /\ (act' = [act EXCEPT ![c] = x])
      BY <2>0, <2>8 DEF WriteTmp, Goto, Shape
    <3>3. Calls' /\ Drawn'
      BY <1>a, <1>s, <2>8, <3>1, <3>2 DEF WriteTmp, grants
    <3> QED
      BY <1>0, <2>0, <2>8, <3>2, <3>3 DEF WriteTmp, TypeInv, Stores, users, grants, Call
  <2>9. CASE MoveTmp(c)
    <3>1. a.user \in Users
      BY <2>0, <2>9 DEF MoveTmp, Shape, AccountOps
    <3>2. Calls' /\ Drawn'
      BY <1>a, <2>9 DEF MoveTmp, grants
    <3> QED
      BY <1>0, <2>9, <3>1, <3>2 DEF MoveTmp, TypeInv, Stores, grants
  <2>10. CASE CheckBinding(c)
    <3> DEFINE x == [a EXCEPT !.pc = "save"]
    <3>1. x \in Call /\ Shape(x) /\ x.op = a.op /\ x.id = a.id
      BY <1>0, <2>0, <2>10 DEF CheckBinding, Call, Pcs, Shape, AccountOps, Stores
    <3>2. a.user \in Users /\ (act' = [act EXCEPT ![c] = x] \/ Answer(c))
      BY <2>0, <2>10 DEF CheckBinding, Goto, Shape
    <3>3. Calls' /\ Drawn'
      BY <1>a, <1>s, <2>10, <3>1, <3>2 DEF CheckBinding, grants
    <3> QED
      BY <1>0, <2>0, <2>10, <3>2, <3>3 DEF CheckBinding, TypeInv, Stores, users, grants
  <2>11. CASE SaveGrant(c)
    <3>1. /\ a.user \in Users /\ a.id \in GrantIds /\ a.id \in drawn
          /\ a.grant \in Record /\ a.sid \in Sids
      BY <1>0, <2>0, <2>11 DEF SaveGrant, Shape, Drawn, Call
    <3>2. Calls'
      BY <1>0, <2>11, OneCall DEF SaveGrant, Answer
    <3>3. files' \in [GrantIds -> Maybe(Record)]
      BY <1>0, <2>11, <3>1 DEF SaveGrant, Stores, Maybe
    <3>4. holder' \in [GrantIds -> [user : Maybe(Users), sid : Sids, bound : BOOLEAN]]
      <4> DEFINE h == [user |-> a.user, sid |-> a.sid, bound |-> a.grant.sid # 0]
      <4>1. h \in [user : Maybe(Users), sid : Sids, bound : BOOLEAN]
        BY <3>1 DEF Maybe
      <4>2. holder' = holder \/ holder' = [holder EXCEPT ![a.id] = h]
        BY <2>11 DEF SaveGrant
      <4>3. holder \in [GrantIds -> [user : Maybe(Users), sid : Sids, bound : BOOLEAN]]
        BY <1>0 DEF Stores
      <4> HIDE DEF h
      <4> QED
        BY <4>1, <4>2, <4>3, Zenon
    <3>5. Drawn'
      BY <1>0, <2>11, <3>1 DEF SaveGrant, Stores, Drawn, Answer, NoCall, Calls
    <3> QED
      BY <1>0, <2>11, <3>2, <3>3, <3>4, <3>5 DEF SaveGrant, TypeInv, Stores, users
  <2>12. CASE LookupAdmin(c)
    <3> DEFINE x == [a EXCEPT !.pc = "save", !.sid = acct[a.user]]
    <3>0. acct[a.user] \in Sids /\ acct[a.user] # Stray /\ a.op = "admin" /\ a.user \in Users
      BY <1>0, <2>0, <2>12 DEF LookupAdmin, Shape, AccountOps, Stores, Sids, Stray
    <3>a. x \in Call /\ x.op = a.op /\ x.id = a.id
      BY <2>0, <3>0 DEF Call, Pcs
    <3>b. Shape(x)
      BY <2>0, <3>0 DEF Call, Shape, AccountOps
    <3>1. x \in Call /\ Shape(x) /\ x.op = a.op /\ x.id = a.id
      BY <3>a, <3>b
    <3>2. a.user \in Users /\ (act' = [act EXCEPT ![c] = x] \/ Answer(c))
      BY <2>0, <2>12 DEF LookupAdmin, Goto, Shape
    <3>3. Calls' /\ Drawn'
      BY <1>a, <1>s, <2>12, <3>1, <3>2 DEF LookupAdmin, grants
    <3> QED
      BY <1>0, <2>0, <2>12, <3>2, <3>3 DEF LookupAdmin, TypeInv, Stores, users, grants
  <2>13. CASE SaveAdmin(c)
    <3>1. [user |-> a.user, sid |-> a.sid] \in Holder
      BY <2>0, <2>13 DEF SaveAdmin, Shape, Call, Holder
    <3>2. Calls' /\ Drawn'
      BY <1>a, <2>13 DEF SaveAdmin
    <3> QED
      BY <1>0, <2>13, <3>1, <3>2 DEF SaveAdmin, TypeInv, Stores, users
  <2>14. CASE LookupUser(c)
    <3> DEFINE x == [a EXCEPT !.pc = "ledger", !.sid = acct[a.user]]
    <3>0. acct[a.user] \in Sids /\ acct[a.user] # Stray /\ a.op = "run" /\ a.user \in Users
      BY <1>0, <2>0, <2>14 DEF LookupUser, Shape, AccountOps, Stores, Sids, Stray
    <3>a. x \in Call /\ x.op = a.op /\ x.id = a.id
      BY <2>0, <3>0 DEF Call, Pcs
    <3>b. Shape(x)
      BY <2>0, <3>0 DEF Call, Shape, AccountOps
    <3>1. x \in Call /\ Shape(x) /\ x.op = a.op /\ x.id = a.id
      BY <3>a, <3>b
    <3>2. a.user \in Users /\ (act' = [act EXCEPT ![c] = x] \/ Answer(c))
      BY <2>0, <2>14 DEF LookupUser, Goto, Shape
    <3>3. Calls' /\ Drawn'
      BY <1>a, <1>s, <2>14, <3>1, <3>2 DEF LookupUser, grants
    <3> QED
      BY <1>0, <2>0, <2>14, <3>2, <3>3 DEF LookupUser, TypeInv, Stores, users, grants
  <2>15. CASE CheckLedger(c)
    <3> DEFINE x == [a EXCEPT !.pc = "admin"]
    <3>1. x \in Call /\ Shape(x) /\ x.op = a.op /\ x.id = a.id
      BY <1>0, <2>0, <2>15 DEF CheckLedger, Call, Pcs, Shape, AccountOps, Stores
    <3>2. a.user \in Users /\ (act' = [act EXCEPT ![c] = x] \/ Answer(c))
      BY <2>0, <2>15 DEF CheckLedger, Goto, Shape
    <3>3. Calls' /\ Drawn'
      BY <1>a, <1>s, <2>15, <3>1, <3>2 DEF CheckLedger, grants
    <3> QED
      BY <1>0, <2>0, <2>15, <3>2, <3>3 DEF CheckLedger, TypeInv, Stores, users, grants
  <2>16. CASE TryAdmin(c)
    <3> DEFINE x == [a EXCEPT !.pc = "token", !.sid = admin.sid, !.id = Admin]
               y == [a EXCEPT !.pc = "grants", !.sid = acct[a.user]]
    <3>1. a.op = "run" /\ a.user \in Users /\ admin.sid \in Sids /\ acct[a.user] \in Sids
      BY <1>0, <2>0, <2>16 DEF TryAdmin, Shape, Stores, Holder
    <3>0. admin.sid # Stray /\ acct[a.user] # Stray
      BY <3>1 DEF Sids, Stray
    <3>2. x \in Call /\ Shape(x) /\ x.op = "run"
      <4>1. x \in Call /\ x.op = "run"
        BY <2>0, <3>1 DEF Call, Pcs
      <4> QED
        BY <2>0, <3>0, <3>1, <4>1 DEF Call, Shape, AccountOps
    <3>3. y \in Call /\ Shape(y) /\ y.op = "run"
      <4>1. y \in Call /\ y.op = "run"
        BY <2>0, <3>1 DEF Call, Pcs
      <4> QED
        BY <2>0, <3>0, <3>1, <4>1 DEF Call, Shape, AccountOps
    <3>4. act' = [act EXCEPT ![c] = x] \/ act' = [act EXCEPT ![c] = y]
      BY <2>16 DEF TryAdmin
    <3>5. Calls' /\ Drawn'
      BY <1>s, <2>16, <3>2, <3>3, <3>4 DEF TryAdmin, grants
    <3> QED
      BY <1>0, <2>16, <3>5 DEF TryAdmin, TypeInv, Stores, users, grants
  <2>17. CASE TryGrants(c)
    <3> PICK g \in Maybe(GrantIds) :
          act' = [act EXCEPT ![c].pc = "token", ![c].id = g, ![c].sid = 0]
      BY <2>17 DEF TryGrants, Maybe
    <3> DEFINE x == [a EXCEPT !.pc = "token", !.id = g, !.sid = 0]
    <3>1. a.op = "run"
      BY <2>0, <2>17 DEF TryGrants, Shape
    <3>2. x \in Call /\ Shape(x) /\ x.op = "run"
      <4>1. x \in Call /\ x.op = "run"
        BY <2>0, <3>1 DEF Call, Pcs, Maybe
      <4> QED
        BY <2>0, <3>1, <4>1 DEF Call, Shape, AccountOps, Stray
    <3>4. act' = [act EXCEPT ![c] = x]
      OBVIOUS
    <3>3. Calls' /\ Drawn'
      BY <1>s, <2>17, <3>2, <3>4 DEF TryGrants, grants
    <3> QED
      BY <1>0, <2>17, <3>3 DEF TryGrants, TypeInv, Stores, users, grants
  <2>18. CASE AcquireToken(c)
    <3> DEFINE x == [a EXCEPT !.pc = "spawn"]
    <3>1. x \in Call /\ Shape(x) /\ x.op = a.op /\ x.id = a.id
      BY <1>0, <2>0, <2>18 DEF AcquireToken, Call, Pcs, Shape, AccountOps, Stores
    <3>2. a.user \in Users /\ (act' = [act EXCEPT ![c] = x] \/ Answer(c))
      BY <2>0, <2>18 DEF AcquireToken, Goto, Shape
    <3>3. Calls' /\ Drawn'
      BY <1>a, <1>s, <2>18, <3>1, <3>2 DEF AcquireToken, grants
    <3> QED
      BY <1>0, <2>0, <2>18, <3>2, <3>3 DEF AcquireToken, TypeInv, Stores, users, grants
  <2>19. CASE Spawn(c)
    BY <1>0, <1>a, <2>19 DEF Spawn, TypeInv, Stores, users, grants
  <2> QED
    BY <1>9, <2>1, <2>2, <2>3, <2>4, <2>5, <2>6, <2>7, <2>8, <2>9, <2>10, <2>11, <2>12, <2>13, <2>14, <2>15, <2>16, <2>17, <2>18, <2>19 DEF Handle
<1>10. CASE Restart
  BY <1>0, <1>10 DEF Restart, TypeInv, Stores, grants, Calls, Drawn, NoCall
<1>11. CASE Tick
  BY <1>0, <1>11 DEF Tick, TypeInv, Stores, users, grants, Calls, Drawn
<1>12. CASE UNCHANGED vars
  BY <1>0, <1>12 DEF vars, TypeInv, Stores, Calls, Drawn
<1> QED
  BY <1>1, <1>2, <1>3, <1>4, <1>5, <1>6, <1>7, <1>8, <1>9, <1>10, <1>11, <1>12 DEF Next

\* TypeInv holds in every reachable state.
LEMMA TypeInvariant == Spec => []TypeInv
<1>1. Init => TypeInv
  <2> SUFFICES ASSUME Init PROVE TypeInv
    OBVIOUS
  <2>1. Stores
    BY NoneTyped, PrivServiceAssumption DEF Init, Stores, Ledger, NoLedger, Nobody, Holder,
       NoHolder, Maybe
  <2>2. Calls /\ Drawn
    BY NoneTyped DEF Init, Calls, Drawn, NoCall
  <2> QED
    BY <2>1, <2>2 DEF TypeInv
<1> QED
  BY <1>1, TypeStep, PTL DEF Spec

\* The service's records and the calls in progress are well typed in every
\* reachable state, however handlers overlap.
THEOREM TypeCorrect == Spec => []TypeOK
<1>1. TypeInv => TypeOK
  BY DEF TypeInv, Stores, Calls, Call, TypeOK
<1> QED
  BY <1>1, TypeInvariant, PTL

-----------------------------------------------------------------------------
(* Grants. An id is drawn once, so an install in progress is alone with its *)
(* id until it saves the file; from then on the file says what the holder   *)
(* history says.                                                            *)

\* A file, and a record on its way to one, is for the account it was issued to.
Issued ==
    /\ \A g \in GrantIds : files[g] # Nothing =>
          /\ holder[g].user = files[g].user
          /\ holder[g].bound => files[g].sid # 0
          /\ files[g].sid # 0 => files[g].sid = holder[g].sid
    /\ \A c \in Callers : act[c].op = "install" =>
          /\ act[c].grant.user = act[c].user
          /\ act[c].grant.sid # 0 => act[c].grant.sid = act[c].sid

\* Nobody but its install has to do with the id of a grant not saved yet.
Alone ==
    \A c \in Callers : act[c].op = "install" =>
        /\ files[act[c].id] = Nothing
        /\ act[c].id \notin revoked
        /\ \A d \in Callers :
              /\ act[c].id \notin act[d].over
              /\ act[d].op = "run" => act[d].id # act[c].id
              /\ d # c /\ act[d].op = "install" => act[d].id # act[c].id

\* A run_as knows only of ids that were drawn, and a grant that elevates it is one
\* of its user.
Known ==
    \A c \in Callers :
        /\ act[c].over \subseteq drawn
        /\ act[c].op = "run" /\ act[c].id \in GrantIds =>
              act[c].id \in drawn /\ holder[act[c].id].user = act[c].user

GrantInv == TypeInv /\ Issued /\ Alone /\ Known

\* A step that has nothing to do with grants: files and history stay, and a call
\* ends, begins, or keeps what it says of grants.
Aside ==
    /\ UNCHANGED <<files, holder, drawn, revoked>> /\ now' \in {now, now + 1}
    /\ \A d \in Callers :
          \/ act'[d].op \notin {"install", "run"} /\ act'[d].over = {}
          \/ /\ act'[d].op = act[d].op /\ act'[d].user = act[d].user
             /\ act'[d].over = act[d].over /\ act'[d].grant = act[d].grant
             /\ act[d].op = "install" => act'[d].sid = act[d].sid
             /\ \/ act'[d].id = act[d].id
                \/ act[d].op = "run" /\ act'[d].id = Admin

\* What is done about accounts, about the system_admin record and before and after
\* the search for a grant has nothing to do with grants.
LEMMA AsideSteps ==
  ASSUME TypeInv, NEW c \in Callers, NEW u,
         \/ CallUserAdd(c, u) \/ CallUserDel(c, u) \/ CallInstallAdmin(c, u) \/ RevokeAdmin(c)
         \/ CallSpawnBackground(c, u)
         \/ NetUserAdd(c) \/ StorePassword(c) \/ SidAfterAdd(c) \/ NetUserDel(c)
         \/ DeletePassword(c) \/ ReadLedger(c) \/ OpenTmp(c) \/ WriteTmp(c) \/ MoveTmp(c)
         \/ CheckBinding(c) \/ LookupAdmin(c) \/ SaveAdmin(c) \/ LookupUser(c)
         \/ CheckLedger(c) \/ TryAdmin(c) \/ AcquireToken(c) \/ Spawn(c)
  PROVE  Aside
<1> DEFINE a == act[c]
           Kept(x) == /\ x.op = a.op /\ x.user = a.user /\ x.over = a.over /\ x.grant = a.grant
                      /\ a.op = "install" => x.sid = a.sid
                      /\ x.id = a.id \/ (a.op = "run" /\ x.id = Admin)
<1>0. Calls /\ a \in Call /\ Shape(a)
  BY DEF TypeInv, Calls
<1>s. ASSUME NEW x, act' = [act EXCEPT ![c] = x], Kept(x),
             UNCHANGED <<files, holder, drawn, revoked, now>>
      PROVE  Aside
  BY <1>0, <1>s DEF Aside, Calls
<1>n. ASSUME NEW x, act' = [act EXCEPT ![c] = x], x.op \notin {"install", "run"}, x.over = {},
             UNCHANGED <<files, holder, drawn, revoked, now>>
      PROVE  Aside
  BY <1>0, <1>n DEF Aside, Calls
<1>a. ASSUME Answer(c), UNCHANGED <<files, holder, drawn, revoked, now>> PROVE Aside
  <2>1. NoCall.op \notin {"install", "run"} /\ NoCall.over = {}
    BY DEF NoCall
  <2> QED
    BY <1>a, <1>n, <2>1 DEF Answer
<1>b. ASSUME NEW op \in {"useradd", "userdel", "admin", "background"}, NEW pc,
             Send(c, Request(op, u, pc)), UNCHANGED <<files, holder, drawn, revoked, now>>
      PROVE  Aside
  <2>1. Request(op, u, pc).op \notin {"install", "run"} /\ Request(op, u, pc).over = {}
    BY DEF Request, NoCall
  <2> QED
    BY <1>b, <1>n, <2>1 DEF Send
<1>c. ASSUME NEW x, AccountChanges(c, a.user, x), Kept(x),
             UNCHANGED <<files, holder, drawn, revoked, now>>
      PROVE  Aside
  <2>1. ASSUME NEW d \in Callers, d # c
        PROVE  /\ act'[d].op = act[d].op /\ act'[d].user = act[d].user
               /\ act'[d].over = act[d].over /\ act'[d].grant = act[d].grant
               /\ act'[d].sid = act[d].sid /\ act'[d].id = act[d].id
    <3>1. act[d] \in Call
      BY <1>0 DEF Calls
    <3>2. act'[d] = [act[d] EXCEPT
             !.calm = act[d].calm /\ ~(act[d].op = "run" /\ act[d].user = a.user)]
      BY <1>c, <2>1 DEF AccountChanges
    <3> QED
      BY <3>1, <3>2 DEF Call
  <2>2. act'[c] = x
    BY <1>c DEF AccountChanges
  <2> QED
    BY <1>c, <2>1, <2>2 DEF Aside
<1>1. CASE CallUserAdd(c, u) \/ CallUserDel(c, u)
  BY <1>1, <1>b DEF CallUserAdd, CallUserDel, grants
<1>2. CASE CallInstallAdmin(c, u) \/ CallSpawnBackground(c, u)
  BY <1>2, <1>b DEF CallInstallAdmin, CallSpawnBackground, grants
<1>3. CASE NetUserAdd(c)
  <2>1. \/ AccountChanges(c, a.user, [a EXCEPT !.pc = "secret", !.sid = made + 1])
        \/ act' = [act EXCEPT ![c] = [a EXCEPT !.pc = "secret", !.sid = Stray]]
        \/ Answer(c)
    BY <1>3 DEF NetUserAdd
  <2>2. ASSUME NEW sid PROVE Kept([a EXCEPT !.pc = "secret", !.sid = sid])
    BY <1>0, <1>3 DEF NetUserAdd, Call, Kept
  <2> QED
    BY <1>3, <1>a, <1>c, <1>s, <2>1, <2>2 DEF NetUserAdd, grants
<1>4. CASE NetUserDel(c)
  <2>1. AccountChanges(c, a.user, [a EXCEPT !.pc = "secret"]) \/ Answer(c)
    BY <1>4 DEF NetUserDel
  <2>2. Kept([a EXCEPT !.pc = "secret"])
    BY <1>0 DEF Call, Kept
  <2> QED
    BY <1>4, <1>a, <1>c, <2>1, <2>2 DEF NetUserDel, grants
<1>5. CASE StorePassword(c)
  <2>1. act' = [act EXCEPT ![c] = [a EXCEPT !.pc = "sid"]] \/ Answer(c)
    BY <1>5 DEF StorePassword, Goto
  <2>2. Kept([a EXCEPT !.pc = "sid"])
    BY <1>0, <1>5 DEF StorePassword, Call, Shape, Kept
  <2> QED
    BY <1>5, <1>a, <1>s, <2>1, <2>2 DEF StorePassword, grants
<1>6. CASE SidAfterAdd(c)
  <2>1. act' = [act EXCEPT ![c] = [a EXCEPT !.pc = "read", !.sid = acct[a.user]]] \/ Answer(c)
    BY <1>6 DEF SidAfterAdd, Goto
  <2>2. Kept([a EXCEPT !.pc = "read", !.sid = acct[a.user]])
    BY <1>0, <1>6 DEF SidAfterAdd, Call, Shape, AccountOps, Kept
  <2> QED
    BY <1>6, <1>a, <1>s, <2>1, <2>2 DEF SidAfterAdd, grants
<1>7. CASE DeletePassword(c)
  <2>1. act' = [act EXCEPT ![c] = [a EXCEPT !.pc = "read"]]
    BY <1>7 DEF DeletePassword, Goto
  <2>2. Kept([a EXCEPT !.pc = "read"])
    BY <1>0, <1>7 DEF DeletePassword, Call, Shape, Kept
  <2> QED
    BY <1>7, <1>a, <1>s, <2>1, <2>2 DEF DeletePassword, grants
<1>8. CASE ReadLedger(c)
  <2> PICK doc : act' = [act EXCEPT ![c] = [a EXCEPT !.pc = "open", !.sid = 0, !.doc = doc]]
                 \/ Answer(c)
    BY <1>8 DEF ReadLedger
  <2>1. Kept([a EXCEPT !.pc = "open", !.sid = 0, !.doc = doc])
    BY <1>0, <1>8 DEF ReadLedger, Call, Shape, AccountOps, Kept
  <2> QED
    BY <1>8, <1>a, <1>s, <2>1 DEF ReadLedger, grants
<1>9. CASE OpenTmp(c)
  <2>1. act' = [act EXCEPT ![c] = [a EXCEPT !.pc = "write"]]
    BY <1>9 DEF OpenTmp, Goto
  <2>2. Kept([a EXCEPT !.pc = "write"])
    BY <1>0, <1>9 DEF OpenTmp, Call, Shape, Kept
  <2> QED
    BY <1>9, <1>a, <1>s, <2>1, <2>2 DEF OpenTmp, grants
<1>10. CASE WriteTmp(c)
  <2>1. act' = [act EXCEPT ![c] = [a EXCEPT !.pc = "move", !.doc = NoLedger]]
    BY <1>10 DEF WriteTmp, Goto
  <2>2. Kept([a EXCEPT !.pc = "move", !.doc = NoLedger])
    BY <1>0, <1>10 DEF WriteTmp, Call, Shape, Kept
  <2> QED
    BY <1>10, <1>a, <1>s, <2>1, <2>2 DEF WriteTmp, grants
<1>11. CASE MoveTmp(c) \/ SaveAdmin(c) \/ Spawn(c)
  BY <1>11, <1>a DEF MoveTmp, SaveAdmin, Spawn, grants
<1>12. CASE CheckBinding(c)
  <2>1. act' = [act EXCEPT ![c] = [a EXCEPT !.pc = "save"]] \/ Answer(c)
    BY <1>12 DEF CheckBinding, Goto
  <2>2. Kept([a EXCEPT !.pc = "save"])
    BY <1>0, <1>12 DEF CheckBinding, Call, Shape, Kept
  <2> QED
    BY <1>12, <1>a, <1>s, <2>1, <2>2 DEF CheckBinding, grants
<1>13. CASE LookupAdmin(c)
  <2>1. act' = [act EXCEPT ![c] = [a EXCEPT !.pc = "save", !.sid = acct[a.user]]] \/ Answer(c)
    BY <1>13 DEF LookupAdmin, Goto
  <2>2. Kept([a EXCEPT !.pc = "save", !.sid = acct[a.user]])
    BY <1>0, <1>13 DEF LookupAdmin, Call, Shape, Kept
  <2> QED
    BY <1>13, <1>a, <1>s, <2>1, <2>2 DEF LookupAdmin, grants
<1>14. CASE LookupUser(c)
  <2>1. act' = [act EXCEPT ![c] = [a EXCEPT !.pc = "ledger", !.sid = acct[a.user]]] \/ Answer(c)
    BY <1>14 DEF LookupUser, Goto
  <2>2. Kept([a EXCEPT !.pc = "ledger", !.sid = acct[a.user]])
    BY <1>0, <1>14 DEF LookupUser, Call, Shape, Kept
  <2> QED
    BY <1>14, <1>a, <1>s, <2>1, <2>2 DEF LookupUser, grants
<1>15. CASE CheckLedger(c)
  <2>1. act' = [act EXCEPT ![c] = [a EXCEPT !.pc = "admin"]] \/ Answer(c)
    BY <1>15 DEF CheckLedger, Goto
  <2>2. Kept([a EXCEPT !.pc = "admin"])
    BY <1>0, <1>15 DEF CheckLedger, Call, Shape, Kept
  <2> QED
    BY <1>15, <1>a, <1>s, <2>1, <2>2 DEF CheckLedger, grants
<1>16. CASE TryAdmin(c)
  <2>1. \/ act' = [act EXCEPT ![c] = [a EXCEPT !.pc = "token", !.sid = admin.sid, !.id = Admin]]
        \/ act' = [act EXCEPT ![c] = [a EXCEPT !.pc = "grants", !.sid = acct[a.user]]]
    BY <1>16 DEF TryAdmin
  <2>2. /\ Kept([a EXCEPT !.pc = "token", !.sid = admin.sid, !.id = Admin])
        /\ Kept([a EXCEPT !.pc = "grants", !.sid = acct[a.user]])
    BY <1>0, <1>16 DEF TryAdmin, Call, Shape, Kept
  <2> QED
    BY <1>16, <1>s, <2>1, <2>2 DEF TryAdmin, grants
<1>17. CASE AcquireToken(c)
  <2>1. act' = [act EXCEPT ![c] = [a EXCEPT !.pc = "spawn"]] \/ Answer(c)
    BY <1>17 DEF AcquireToken, Goto
  <2>2. Kept([a EXCEPT !.pc = "spawn"])
    BY <1>0, <1>17 DEF AcquireToken, Call, Shape, Kept
  <2> QED
    BY <1>17, <1>a, <1>s, <2>1, <2>2 DEF AcquireToken, grants
<1>18. CASE RevokeAdmin(c)
  BY <1>0, <1>18 DEF RevokeAdmin, Aside
<1> HIDE DEF Kept
<1> QED
  BY <1>1, <1>2, <1>3, <1>4, <1>5, <1>6, <1>7, <1>8, <1>9, <1>10, <1>11, <1>12, <1>13, <1>14, <1>15, <1>16, <1>17, <1>18

\* A step has nothing to do with grants, or it is one of five.
LEMMA NextAside ==
  ASSUME TypeInv, Next
  PROVE  \/ Aside
         \/ \E c \in Callers, g \in GrantIds, u \in Users, ttl \in Ttls, src \in RecordSids :
               CallInstallGrant(c, g, u, ttl, src)
         \/ \E c \in Callers, u \in Users : CallRunAs(c, u)
         \/ \E c \in Callers : SaveGrant(c) \/ TryGrants(c)
         \/ \E c \in Callers, g \in GrantIds : RevokeGrant(c, g)
<1>1. ASSUME NEW c \in Callers, Handle(c), ~SaveGrant(c), ~TryGrants(c) PROVE Aside
  BY <1>1, AsideSteps DEF Handle
<1>2. ASSUME NEW c \in Callers, NEW u \in Users,
             CallUserAdd(c, u) \/ CallUserDel(c, u) \/ CallInstallAdmin(c, u)
               \/ CallSpawnBackground(c, u)
      PROVE  Aside
  BY <1>2, AsideSteps
<1>3. ASSUME NEW c \in Callers, RevokeAdmin(c) PROVE Aside
  BY <1>3, AsideSteps
<1>4. CASE Restart
  BY <1>4 DEF Restart, NoCall, Aside, grants
<1>5. CASE Tick
  BY <1>5 DEF Tick, Aside, grants
<1> QED
  BY <1>1, <1>2, <1>3, <1>4, <1>5 DEF Next

\* Such a step keeps what is known of grants.
LEMMA AsideKeeps == GrantInv /\ Aside => Issued' /\ Alone' /\ Known'
<1> SUFFICES ASSUME GrantInv, Aside PROVE Issued' /\ Alone' /\ Known'
  OBVIOUS
<1>0. Admin \notin GrantIds /\ \A c \in Callers : act[c].op = "install" => act[c].id \in GrantIds
  BY PrivServiceAssumption DEF GrantInv, TypeInv, Calls, Shape
<1>1. Issued'
  BY <1>0 DEF GrantInv, Issued, Aside
<1>2. Alone'
  BY <1>0 DEF GrantInv, Alone, Aside
<1>3. Known'
  BY <1>0 DEF GrantInv, Known, Aside
<1> QED
  BY <1>1, <1>2, <1>3

\* A call is sent to install a grant: its id is new to everybody.
LEMMA InstallSent ==
  ASSUME GrantInv, NEW c \in Callers, NEW g \in GrantIds, NEW u \in Users, NEW ttl \in Ttls,
         NEW src \in RecordSids, CallInstallGrant(c, g, u, ttl, src)
  PROVE  Issued' /\ Alone' /\ Known'
<1> DEFINE sid == IF src = "captured" THEN acct[u] ELSE 0
           grant == [user |-> u, sid |-> sid, exp |-> now + ttl]
           x == [Request("install", u, "check") EXCEPT !.id = g, !.sid = acct[u], !.grant = grant]
<1>0. act \in [Callers -> Call] /\ Stores /\ Drawn
  BY DEF GrantInv, TypeInv, Calls
<1>1. /\ x.op = "install" /\ x.id = g /\ x.user = u /\ x.over = {} /\ x.sid = acct[u]
      /\ x.grant = grant
  BY DEF Request, NoCall
<1>2. grant.user = u /\ (grant.sid # 0 => grant.sid = acct[u])
  OBVIOUS
<1>3. /\ act' = [act EXCEPT ![c] = x] /\ g \notin drawn /\ drawn' = drawn \cup {g}
      /\ UNCHANGED <<files, holder, revoked>>
  BY DEF CallInstallGrant, Send
<1> HIDE DEF x, grant
<1>4. files[g] = Nothing /\ g \notin revoked
  BY <1>0, <1>3 DEF Drawn, Stores
<1>5. ASSUME NEW d \in Callers
      PROVE  /\ g \notin act[d].over /\ (act[d].op = "run" => act[d].id # g)
             /\ act[d].op = "install" => act[d].id # g
  BY <1>0, <1>3 DEF GrantInv, Known, Drawn
<1>6. Issued'
  BY <1>0, <1>1, <1>2, <1>3 DEF GrantInv, Issued
<1>7. Alone'
  BY <1>0, <1>1, <1>3, <1>4, <1>5 DEF GrantInv, Alone
<1>8. Known'
  BY <1>0, <1>1, <1>3 DEF GrantInv, Known
<1> QED
  BY <1>6, <1>7, <1>8

\* A call is sent to run a command: it remembers the grants that are over.
LEMMA RunSent ==
  ASSUME GrantInv, NEW c \in Callers, NEW u \in Users, CallRunAs(c, u)
  PROVE  Issued' /\ Alone' /\ Known'
<1> DEFINE over == revoked \cup {g \in GrantIds : files[g] # Nothing /\ Expired(files[g])}
           x == [Request("run", u, "lookup") EXCEPT !.over = over]
<1>0. act \in [Callers -> Call] /\ Stores /\ Drawn /\ Nothing \notin GrantIds
  BY PrivServiceAssumption DEF GrantInv, TypeInv, Calls
<1>1. x.op = "run" /\ x.id = Nothing /\ x.over = over
  BY DEF Request, NoCall
<1>2. act' = [act EXCEPT ![c] = x] /\ UNCHANGED <<files, holder, drawn, revoked>>
  BY DEF CallRunAs, Send, grants
<1>3. over \subseteq drawn
  BY <1>0 DEF Drawn, Stores
<1>4. ASSUME NEW d \in Callers, act[d].op = "install"
      PROVE  act[d].id \notin over /\ act[d].id # Nothing
  BY <1>0, <1>4 DEF GrantInv, Alone, TypeInv, Calls, Shape
<1> HIDE DEF x, over
<1>5. Issued'
  BY <1>0, <1>1, <1>2 DEF GrantInv, Issued
<1>6. Alone'
  BY <1>0, <1>1, <1>2, <1>4 DEF GrantInv, Alone
<1>7. Known'
  BY <1>0, <1>1, <1>2, <1>3 DEF GrantInv, Known
<1> QED
  BY <1>5, <1>6, <1>7

\* The file of a grant is written as it came, and its install is over.
LEMMA GrantSaved ==
  ASSUME GrantInv, NEW c \in Callers, SaveGrant(c)
  PROVE  Issued' /\ Alone' /\ Known'
<1> DEFINE a == act[c]
           g == act[c].id
           h == [user |-> a.user, sid |-> a.sid, bound |-> a.grant.sid # 0]
<1>0. act \in [Callers -> Call] /\ Stores /\ a.op = "install" /\ g \in GrantIds /\ a.grant \in Record
  BY DEF GrantInv, TypeInv, Calls, Shape, SaveGrant
<1>1. NoCall.op = "none" /\ NoCall.over = {}
  BY DEF NoCall
<1>2. act' = [act EXCEPT ![c] = NoCall] /\ UNCHANGED <<drawn, revoked>>
  BY DEF SaveGrant, Answer
<1>3. \/ files' = [files EXCEPT ![g] = a.grant] /\ holder' = [holder EXCEPT ![g] = h]
      \/ UNCHANGED <<files, holder>>
  BY DEF SaveGrant
<1>4. /\ h.user = a.grant.user /\ (h.bound => a.grant.sid # 0)
      /\ a.grant.sid # 0 => a.grant.sid = h.sid
  BY <1>0 DEF GrantInv, Issued
<1>5. ASSUME NEW d \in Callers, d # c
      PROVE  /\ act[d].op = "install" => act[d].id # g /\ act[d].id \in GrantIds
             /\ act[d].op = "run" => act[d].id # g
  BY <1>0, <1>5 DEF GrantInv, Alone, TypeInv, Calls, Shape
<1>6. holder \in [GrantIds -> [user : Maybe(Users), sid : Sids, bound : BOOLEAN]]
      /\ files \in [GrantIds -> Maybe(Record)]
  BY <1>0 DEF Stores
<1> HIDE DEF h
<1>7. ASSUME NEW d \in Callers, act'[d].op \in {"install", "run"}
      PROVE  d # c /\ act'[d] = act[d]
  BY <1>0, <1>1, <1>2, <1>7
<1>8. Issued'
  <2>1. ASSUME NEW k \in GrantIds, files'[k] # Nothing
        PROVE  /\ holder'[k].user = files'[k].user
               /\ holder'[k].bound => files'[k].sid # 0
               /\ files'[k].sid # 0 => files'[k].sid = holder'[k].sid
    <3>1. CASE files'[k] = files[k] /\ holder'[k] = holder[k]
      BY <2>1, <3>1 DEF GrantInv, Issued
    <3>2. CASE files'[k] = a.grant /\ holder'[k] = h
      BY <1>4, <3>2
    <3> QED
      BY <1>3, <1>6, <3>1, <3>2
  <2>2. ASSUME NEW d \in Callers, act'[d].op = "install"
        PROVE  /\ act'[d].grant.user = act'[d].user
               /\ act'[d].grant.sid # 0 => act'[d].grant.sid = act'[d].sid
    BY <1>7, <2>2 DEF GrantInv, Issued
  <2> QED
    BY <2>1, <2>2 DEF Issued
<1>9. Alone'
  BY <1>0, <1>1, <1>2, <1>3, <1>5, <1>6 DEF GrantInv, Alone
<1>10. Known'
  BY <1>0, <1>1, <1>2, <1>3, <1>5, <1>6 DEF GrantInv, Known
<1> QED
  BY <1>8, <1>9, <1>10

\* A run_as settles on a grant whose file covers it, or on none.
LEMMA GrantFound ==
  ASSUME GrantInv, NEW c \in Callers, TryGrants(c)
  PROVE  Issued' /\ Alone' /\ Known'
<1> PICK g \in Maybe({g \in GrantIds : Covers(g, act[c].user, act[c].sid)}) :
      act' = [act EXCEPT ![c].pc = "token", ![c].id = g, ![c].sid = 0]
  BY DEF TryGrants
<1> DEFINE x == [act[c] EXCEPT !.pc = "token", !.id = g, !.sid = 0]
<1>0. act \in [Callers -> Call] /\ Drawn /\ act[c].op = "run" /\ Nothing \notin GrantIds
  BY PrivServiceAssumption DEF GrantInv, TypeInv, Calls, Shape, TryGrants
<1>1. act' = [act EXCEPT ![c] = x] /\ UNCHANGED <<files, holder, drawn, revoked>>
  BY DEF TryGrants, grants
<1>2. x.op = "run" /\ x.id = g /\ x.over = act[c].over /\ x.user = act[c].user
  BY <1>0 DEF Call
<1>3. g \in GrantIds => g \in drawn /\ files[g] # Nothing /\ files[g].user = act[c].user
  BY <1>0 DEF Maybe, Covers, Drawn
<1>4. ASSUME NEW d \in Callers, act[d].op = "install"
      PROVE  act[d].id \in GrantIds /\ files[act[d].id] = Nothing
  BY <1>4 DEF GrantInv, Alone, TypeInv, Calls, Shape
<1>5. g \in GrantIds => holder[g].user = act[c].user
  BY <1>3 DEF GrantInv, Issued
<1> HIDE DEF x
<1>6. Issued'
  BY <1>0, <1>1, <1>2 DEF GrantInv, Issued
<1>7. Alone'
  BY <1>0, <1>1, <1>2, <1>3, <1>4 DEF GrantInv, Alone
<1>8. Known'
  BY <1>0, <1>1, <1>2, <1>3, <1>5 DEF GrantInv, Known
<1> QED
  BY <1>6, <1>7, <1>8

\* Every step preserves GrantInv.
LEMMA GrantStep == GrantInv /\ [Next]_vars => GrantInv'
<1> SUFFICES ASSUME GrantInv, [Next]_vars PROVE GrantInv'
  OBVIOUS
<1>0. TypeInv /\ TypeInv'
  BY TypeStep DEF GrantInv
<1>1. CASE \E c \in Callers, g \in GrantIds, u \in Users, ttl \in Ttls, src \in RecordSids :
              CallInstallGrant(c, g, u, ttl, src)
  BY <1>0, <1>1, InstallSent DEF GrantInv
<1>2. CASE \E c \in Callers, u \in Users : CallRunAs(c, u)
  BY <1>0, <1>2, RunSent DEF GrantInv
<1>3. CASE \E c \in Callers : SaveGrant(c) \/ TryGrants(c)
  BY <1>0, <1>3, GrantSaved, GrantFound DEF GrantInv
<1>4. ASSUME NEW c \in Callers, NEW g \in GrantIds, RevokeGrant(c, g) PROVE GrantInv'
  <2>1. \A d \in Callers : act[d].op = "install" => act[d].id # g /\ act[d].id \in GrantIds
    BY <1>0, <1>4 DEF RevokeGrant, GrantInv, Alone, TypeInv, Calls, Shape
  <2>2. /\ files' = [files EXCEPT ![g] = Nothing] \/ files' = files
        /\ revoked' \subseteq revoked \cup {g} /\ UNCHANGED <<act, holder, drawn>>
    BY <1>4 DEF RevokeGrant
  <2>3. files \in [GrantIds -> Maybe(Record)]
    BY <1>0 DEF TypeInv, Stores
  <2>4. Issued' /\ Alone' /\ Known'
    BY <2>1, <2>2, <2>3 DEF GrantInv, Issued, Alone, Known
  <2> QED
    BY <1>0, <2>4 DEF GrantInv
<1>5. CASE Aside
  BY <1>0, <1>5, AsideKeeps DEF GrantInv
<1>6. CASE UNCHANGED vars
  BY <1>0, <1>6 DEF vars, GrantInv, Issued, Alone, Known
<1> QED
  BY <1>0, <1>1, <1>2, <1>3, <1>4, <1>5, <1>6, NextAside

\* GrantInv holds in every reachable state.
LEMMA GrantInvariant == Spec => []GrantInv
<1>1. Init /\ TypeInv => GrantInv
  BY DEF Init, GrantInv, Issued, Alone, Known, NoCall
<1> QED
  BY <1>1, GrantStep, TypeInvariant, PTL DEF Spec

\* What is over stays over, if files can be removed: a revoked grant has no file,
\* and what a run_as knows to be over has none or an expired one.
Over ==
    /\ \A g \in revoked : files[g] = Nothing
    /\ \A c \in Callers : \A g \in act[c].over : files[g] = Nothing \/ Expired(files[g])
    /\ \A c \in Callers : act[c].op = "run" /\ act[c].id \in GrantIds =>
          act[c].id \notin act[c].over

\* Every step preserves Over.
LEMMA OverStep ==
  ASSUME "remove" \notin Faults, GrantInv, Over, [Next]_vars
  PROVE  Over'
<1>0. /\ act \in [Callers -> Call] /\ Stores /\ Drawn /\ now \in Nat
      /\ Nothing \notin GrantIds /\ Admin \notin GrantIds
      /\ \A c \in Callers : act[c].over \subseteq GrantIds
  BY PrivServiceAssumption DEF GrantInv, TypeInv, Calls, Stores, Call
<1>1. ASSUME NEW c \in Callers, NEW g \in GrantIds, NEW u \in Users, NEW ttl \in Ttls,
             NEW src \in RecordSids, CallInstallGrant(c, g, u, ttl, src)
      PROVE  Over'
  <2> PICK grant : Send(c, [Request("install", u, "check") EXCEPT
                              !.id = g, !.sid = acct[u], !.grant = grant])
    BY <1>1 DEF CallInstallGrant
  <2> DEFINE x == [Request("install", u, "check") EXCEPT
                     !.id = g, !.sid = acct[u], !.grant = grant]
  <2>1. x.op = "install" /\ x.over = {}
    BY DEF Request, NoCall
  <2>2. act' = [act EXCEPT ![c] = x]
    BY DEF Send
  <2> HIDE DEF x
  <2> QED
    BY <1>0, <1>1, <2>1, <2>2 DEF CallInstallGrant, Over, Expired
<1>2. ASSUME NEW c \in Callers, NEW u \in Users, CallRunAs(c, u) PROVE Over'
  <2> DEFINE over == revoked \cup {g \in GrantIds : files[g] # Nothing /\ Expired(files[g])}
             x == [Request("run", u, "lookup") EXCEPT !.over = over]
  <2>1. x.op = "run" /\ x.over = over /\ x.id = Nothing
    BY DEF Request, NoCall
  <2>2. act' = [act EXCEPT ![c] = x] /\ UNCHANGED <<files, revoked, now>>
    BY <1>2 DEF CallRunAs, Send, grants
  <2>3. \A g \in over : files[g] = Nothing \/ Expired(files[g])
    BY DEF Over
  <2> HIDE DEF x, over
  <2> QED
    BY <1>0, <2>1, <2>2, <2>3 DEF Over, Expired
<1>3. ASSUME NEW c \in Callers, SaveGrant(c) PROVE Over'
  <2> DEFINE g == act[c].id
  <2>1. /\ g \in GrantIds /\ g \notin revoked /\ \A d \in Callers : g \notin act[d].over
    BY <1>3 DEF SaveGrant, GrantInv, TypeInv, Calls, Shape, Alone
  <2>2. /\ \A k \in GrantIds : k # g => files'[k] = files[k]
        /\ act' = [act EXCEPT ![c] = NoCall] /\ UNCHANGED <<revoked, now>>
    BY <1>0, <1>3 DEF SaveGrant, Answer, Stores
  <2>3. NoCall.op = "none" /\ NoCall.over = {}
    BY DEF NoCall
  <2>4. revoked \subseteq GrantIds
    BY <1>0 DEF Stores
  <2> QED
    BY <1>0, <2>1, <2>2, <2>3, <2>4 DEF Over, Expired
<1>4. ASSUME NEW c \in Callers, TryGrants(c) PROVE Over'
  <2> PICK g \in Maybe({g \in GrantIds : Covers(g, act[c].user, act[c].sid)}) :
        act' = [act EXCEPT ![c].pc = "token", ![c].id = g, ![c].sid = 0]
    BY <1>4 DEF TryGrants
  <2> DEFINE x == [act[c] EXCEPT !.pc = "token", !.id = g, !.sid = 0]
  <2>1. act' = [act EXCEPT ![c] = x] /\ UNCHANGED <<files, revoked, now>>
    BY <1>4 DEF TryGrants, grants
  <2>2. x.id = g /\ x.over = act[c].over
    BY <1>0 DEF Call
  <2>3. g \in GrantIds => files[g] # Nothing /\ ~Expired(files[g])
    BY <1>0 DEF Maybe, Covers
  <2>4. g \in GrantIds => g \notin act[c].over
    BY <2>3 DEF Over
  <2> HIDE DEF x
  <2> QED
    BY <1>0, <2>1, <2>2, <2>4 DEF Over, Expired
<1>5. ASSUME NEW c \in Callers, NEW g \in GrantIds, RevokeGrant(c, g) PROVE Over'
  <2>1. /\ files' = [files EXCEPT ![g] = Nothing] /\ UNCHANGED <<act, now>>
        /\ revoked' \subseteq revoked \cup {g}
    BY <1>5 DEF RevokeGrant
  <2>2. files \in [GrantIds -> Maybe(Record)] /\ revoked \subseteq GrantIds
    BY <1>0 DEF Stores
  <2> QED
    BY <1>0, <2>1, <2>2 DEF Over, Expired
<1>6. CASE Aside
  <2>1. \A g \in GrantIds : files[g] # Nothing => files[g].exp \in Nat
    BY <1>0 DEF Stores, Maybe, Record
  <2>2. \A g \in GrantIds : files[g] # Nothing /\ Expired(files[g]) => Expired(files[g])'
    BY <1>0, <1>6, <2>1 DEF Aside, Expired
  <2>3. \A c \in Callers : act'[c].over = {} \/ act'[c].over = act[c].over
    BY <1>6 DEF Aside
  <2>4. \A c \in Callers : act'[c].op = "run" /\ act'[c].id \in GrantIds =>
          /\ act'[c].over = act[c].over /\ act'[c].id = act[c].id /\ act[c].op = "run"
    BY <1>0, <1>6 DEF Aside
  <2>5. UNCHANGED <<files, revoked>>
    BY <1>6 DEF Aside
  <2> QED
    BY <1>0, <2>2, <2>3, <2>4, <2>5 DEF Over
<1>7. CASE UNCHANGED vars
  BY <1>7 DEF vars, Over, Expired
<1>8. TypeInv
  BY DEF GrantInv
<1> QED
  BY <1>1, <1>2, <1>3, <1>4, <1>5, <1>6, <1>7, <1>8, NextAside

\* A command runs with the service's own token only on a grant of its user that
\* was neither expired nor revoked by an answered revoke_grant when the command was
\* sent, if the service can remove its files: however installs, revocations, runs
\* and restarts overlap, and for every other fault.
THEOREM ElevationCovered ==
  ASSUME "remove" \notin Faults
  PROVE  Spec => []ElevationIsCovered
<1>1. Init => Over
  BY DEF Init, Over, NoCall
<1>2. GrantInv /\ Over /\ [Next]_vars => Over'
  BY OverStep
<1>3. GrantInv /\ Over => ElevationIsCovered
  BY DEF GrantInv, Known, Over, ElevationIsCovered
<1> QED
  BY <1>1, <1>2, <1>3, GrantInvariant, PTL DEF Spec

-----------------------------------------------------------------------------
(* Accounts. An elevation bound to a SID ends with the account: a run_as    *)
(* that stayed calm sees one account from its lookup to its end.            *)

\* While the account of its user stays, a run_as that found it works with its SID,
\* and what elevates it is bound to that SID or to none; the system_admin record
\* that is to be saved names the SID of an account.
BoundCall(a) ==
    /\ a.op = "run" /\ a.calm =>
          /\ a.pc \in {"ledger", "admin", "grants", "token", "spawn"} => acct[a.user] # 0
          /\ a.pc = "grants" => a.sid = acct[a.user]
          /\ (a.id \in GrantIds /\ holder[a.id].bound) => holder[a.id].sid = acct[a.user]
          /\ a.id = Admin => a.sid = acct[a.user]
    /\ a.op = "admin" /\ a.pc = "save" => a.sid # 0

\* The same of every call, and the system_admin record names a SID.
BoundCalls == (\A c \in Callers : BoundCall(act[c])) /\ (admin.user \in Users => admin.sid # 0)

\* One call changes, accounts, holders and system_admin.json stay.
LEMMA BoundOne ==
  ASSUME Calls, BoundCalls, NEW c \in Callers, NEW x, BoundCall(x),
         act' = [act EXCEPT ![c] = x], UNCHANGED <<acct, holder, admin>>
  PROVE  BoundCalls'
BY DEF Calls, BoundCalls, BoundCall

\* The account of a user comes or goes, and every run_as of that user is not calm
\* any more.
LEMMA BoundAccount ==
  ASSUME Calls, BoundCalls, NEW c \in Callers, NEW x, x.op \in AccountOps,
         AccountChanges(c, act[c].user, x), UNCHANGED <<holder, admin>>,
         act[c].user \in Users, acct \in [Users -> Sids],
         NEW n, acct' = [acct EXCEPT ![act[c].user] = n]
  PROVE  BoundCalls'
<1> DEFINE u == act[c].user
<1>1. ASSUME NEW d \in Callers, d # c PROVE BoundCall(act[d])'
  <2>1. act[d] \in Call /\ Shape(act[d]) /\ BoundCall(act[d])
    BY DEF Calls, BoundCalls
  <2>2. act'[d] = [act[d] EXCEPT !.calm = act[d].calm /\ ~(act[d].op = "run" /\ act[d].user = u)]
    BY <1>1 DEF AccountChanges
  <2>3. /\ act'[d].op = act[d].op /\ act'[d].pc = act[d].pc /\ act'[d].sid = act[d].sid
        /\ act'[d].id = act[d].id /\ act'[d].user = act[d].user
        /\ act'[d].calm = (act[d].calm /\ ~(act[d].op = "run" /\ act[d].user = u))
    BY <2>1, <2>2 DEF Call
  <2>4. act[d].op = "run" /\ act'[d].calm =>
          act[d].calm /\ act[d].user # u /\ acct'[act[d].user] = acct[act[d].user]
    BY <2>1, <2>3 DEF Shape
  <2> QED
    BY <2>1, <2>3, <2>4 DEF BoundCall
<1>2. act'[c] = x
  BY DEF AccountChanges
<1>3. BoundCall(act[c])'
  BY <1>2 DEF BoundCall, AccountOps
<1> QED
  BY <1>1, <1>3 DEF BoundCalls

\* Every step preserves BoundCalls.
LEMMA BoundStep ==
  ASSUME GrantInv, BoundCalls, [Next]_vars
  PROVE  BoundCalls'
<1>0. Stores /\ Calls /\ Drawn /\ Nothing \notin GrantIds \cup {Admin} /\ Admin \notin GrantIds
  BY PrivServiceAssumption DEF GrantInv, TypeInv
<1>n. BoundCall(NoCall)
  BY DEF BoundCall, NoCall
<1>a. ASSUME NEW c \in Callers, Answer(c), UNCHANGED <<acct, holder, admin>>
      PROVE  BoundCalls'
  BY <1>0, <1>n, <1>a, BoundOne DEF Answer
<1>s. ASSUME NEW c \in Callers, NEW x, act' = [act EXCEPT ![c] = x],
             x.op \notin {"run", "admin"} \/ (x.op = "admin" /\ x.pc # "save"),
             UNCHANGED <<acct, holder, admin>>
      PROVE  BoundCalls'
  <2>1. BoundCall(x)
    BY <1>s DEF BoundCall
  <2> QED
    BY <1>0, <1>s, <2>1, BoundOne
<1>1. ASSUME NEW c \in Callers, NEW u \in Users,
             CallUserAdd(c, u) \/ CallUserDel(c, u) \/ CallInstallAdmin(c, u)
               \/ CallSpawnBackground(c, u)
      PROVE  BoundCalls'
  <2>1. ASSUME NEW op \in {"useradd", "userdel", "admin", "background"},
               NEW pc \in {"account", "check", "token"}, Send(c, Request(op, u, pc)),
               UNCHANGED <<acct, holder, admin>>
        PROVE  BoundCalls'
    <3>1. Request(op, u, pc).op = op /\ Request(op, u, pc).pc = pc
      BY DEF Request, NoCall
    <3> QED
      BY <1>s, <2>1, <3>1 DEF Send
  <2> QED
    BY <1>1, <2>1 DEF CallUserAdd, CallUserDel, CallInstallAdmin, CallSpawnBackground, users,
       grants
<1>2. ASSUME NEW c \in Callers, NEW g \in GrantIds, NEW u \in Users, NEW ttl \in Ttls,
             NEW src \in RecordSids, CallInstallGrant(c, g, u, ttl, src)
      PROVE  BoundCalls'
  <2> PICK grant : Send(c, [Request("install", u, "check") EXCEPT
                              !.id = g, !.sid = acct[u], !.grant = grant])
    BY <1>2 DEF CallInstallGrant
  <2> DEFINE x == [Request("install", u, "check") EXCEPT
                     !.id = g, !.sid = acct[u], !.grant = grant]
  <2>1. x.op = "install"
    BY DEF Request, NoCall
  <2>2. act' = [act EXCEPT ![c] = x]
    BY DEF Send
  <2> HIDE DEF x
  <2> QED
    BY <1>2, <1>s, <2>1, <2>2 DEF CallInstallGrant, users
<1>3. ASSUME NEW c \in Callers, NEW u \in Users, CallRunAs(c, u) PROVE BoundCalls'
  <2> PICK over : Send(c, [Request("run", u, "lookup") EXCEPT !.over = over])
    BY <1>3 DEF CallRunAs
  <2> DEFINE x == [Request("run", u, "lookup") EXCEPT !.over = over]
  <2>1. x.op = "run" /\ x.pc = "lookup" /\ x.id = Nothing
    BY DEF Request, NoCall
  <2>2. act' = [act EXCEPT ![c] = x]
    BY DEF Send
  <2> HIDE DEF x
  <2>3. BoundCall(x)
    BY <1>0, <2>1 DEF BoundCall
  <2> QED
    BY <1>0, <1>3, <2>2, <2>3, BoundOne DEF CallRunAs, users, grants
<1>4. ASSUME NEW c \in Callers, Handle(c) PROVE BoundCalls'
  <2> DEFINE a == act[c]
  <2>0. a \in Call /\ Shape(a) /\ BoundCall(a) /\ acct \in [Users -> Sids]
    BY <1>0 DEF Calls, BoundCalls, Stores
  <2>1. CASE NetUserAdd(c)
    <3>1. a.op = "useradd" /\ a.user \in Users
      BY <2>0, <2>1 DEF NetUserAdd, Shape
    <3>2. ASSUME NEW sid PROVE [a EXCEPT !.pc = "secret", !.sid = sid].op = "useradd"
      BY <2>0, <3>1 DEF Call
    <3>3. CASE /\ acct' = [acct EXCEPT ![a.user] = made + 1]
               /\ AccountChanges(c, a.user, [a EXCEPT !.pc = "secret", !.sid = made + 1])
      <4> DEFINE x == [a EXCEPT !.pc = "secret", !.sid = made + 1]
      <4>1. x.op \in AccountOps /\ AccountChanges(c, act[c].user, x)
        BY <3>2, <3>3 DEF AccountOps
      <4>2. UNCHANGED <<holder, admin>>
        BY <2>1 DEF NetUserAdd, grants
      <4> HIDE DEF x
      <4> QED
        BY <1>0, <2>0, <3>1, <3>3, <4>1, <4>2, BoundAccount
    <3>4. CASE /\ act' = [act EXCEPT ![c].pc = "secret", ![c].sid = Stray]
               /\ UNCHANGED <<acct, made>>
      <4>1. act' = [act EXCEPT ![c] = [a EXCEPT !.pc = "secret", !.sid = Stray]]
        BY <3>4
      <4> QED
        BY <1>s, <2>1, <3>2, <3>4, <4>1 DEF NetUserAdd, grants
    <3> QED
      BY <1>a, <2>1, <3>3, <3>4 DEF NetUserAdd, grants
  <2>2. CASE NetUserDel(c)
    <3>1. a.op = "userdel" /\ a.user \in Users
      BY <2>0, <2>2 DEF NetUserDel, Shape
    <3>2. [a EXCEPT !.pc = "secret"].op = "userdel"
      BY <2>0, <3>1 DEF Call
    <3>3. CASE /\ acct' = [acct EXCEPT ![a.user] = 0]
               /\ AccountChanges(c, a.user, [a EXCEPT !.pc = "secret"])
      <4> DEFINE x == [a EXCEPT !.pc = "secret"]
      <4>1. x.op \in AccountOps /\ AccountChanges(c, act[c].user, x)
        BY <3>2, <3>3 DEF AccountOps
      <4>2. UNCHANGED <<holder, admin>>
        BY <2>2 DEF NetUserDel, grants
      <4> HIDE DEF x
      <4> QED
        BY <1>0, <2>0, <3>1, <3>3, <4>1, <4>2, BoundAccount
    <3> QED
      BY <1>a, <2>2, <3>3 DEF NetUserDel, grants
  <2>3. CASE StorePassword(c) \/ SidAfterAdd(c) \/ DeletePassword(c) \/ OpenTmp(c)
             \/ WriteTmp(c) \/ ReadLedger(c)
    <3>1. a.op \in AccountOps
      BY <2>0, <2>3 DEF StorePassword, SidAfterAdd, DeletePassword, OpenTmp, WriteTmp,
         ReadLedger, Shape
    <3>2. UNCHANGED <<acct, holder, admin>>
      BY <2>3 DEF StorePassword, SidAfterAdd, DeletePassword, OpenTmp, WriteTmp, ReadLedger,
         users, grants
    <3>3. ASSUME NEW x, act' = [act EXCEPT ![c] = x], x.op = a.op PROVE BoundCalls'
      BY <1>s, <3>1, <3>2, <3>3 DEF AccountOps
    <3>4. ASSUME NEW pc, act' = [act EXCEPT ![c] = [a EXCEPT !.pc = pc]] PROVE BoundCalls'
      <4>1. [a EXCEPT !.pc = pc].op = a.op
        BY <2>0 DEF Call
      <4> QED
        BY <3>3, <3>4, <4>1
    <3>5. CASE StorePassword(c) \/ DeletePassword(c) \/ OpenTmp(c)
      BY <1>a, <3>2, <3>4, <3>5 DEF StorePassword, DeletePassword, OpenTmp, Goto
    <3>6. CASE SidAfterAdd(c)
      <4>1. [a EXCEPT !.pc = "read", !.sid = acct[a.user]].op = a.op
        BY <2>0 DEF Call
      <4>2. act' = [act EXCEPT ![c] = [a EXCEPT !.pc = "read", !.sid = acct[a.user]]] \/ Answer(c)
        BY <3>6 DEF SidAfterAdd
      <4> QED
        BY <1>a, <3>2, <3>3, <4>1, <4>2
    <3>7. CASE WriteTmp(c)
      <4>1. [a EXCEPT !.pc = "move", !.doc = NoLedger].op = a.op
        BY <2>0 DEF Call
      <4>2. act' = [act EXCEPT ![c] = [a EXCEPT !.pc = "move", !.doc = NoLedger]]
        BY <3>7 DEF WriteTmp
      <4> QED
        BY <3>3, <4>1, <4>2
    <3>8. CASE ReadLedger(c)
      <4> PICK doc : \/ act' = [act EXCEPT ![c] = [a EXCEPT !.pc = "open", !.sid = 0, !.doc = doc]]
                     \/ Answer(c)
        BY <3>8 DEF ReadLedger
      <4>1. [a EXCEPT !.pc = "open", !.sid = 0, !.doc = doc].op = a.op
        BY <2>0 DEF Call
      <4> QED
        BY <1>a, <3>2, <3>3, <4>1
    <3> QED
      BY <2>3, <3>5, <3>6, <3>7, <3>8
  <2>4. CASE MoveTmp(c) \/ Spawn(c)
    BY <1>a, <2>4 DEF MoveTmp, Spawn, users, grants
  <2>5. CASE CheckBinding(c)
    <3>1. [a EXCEPT !.pc = "save"].op = "install"
      BY <2>0, <2>5 DEF CheckBinding, Call
    <3>2. act' = [act EXCEPT ![c] = [a EXCEPT !.pc = "save"]] \/ Answer(c)
      BY <2>5 DEF CheckBinding, Goto
    <3> QED
      BY <1>a, <1>s, <2>5, <3>1, <3>2 DEF CheckBinding, users, grants
  <2>6. CASE SaveGrant(c)
    <3>1. a.op = "install" /\ a.id \in GrantIds
      BY <2>0, <2>6 DEF SaveGrant, Shape
    <3>2. \A d \in Callers : act[d].op = "run" => act[d].id # a.id
      BY <3>1 DEF GrantInv, Alone
    <3>3. \A g \in GrantIds : g # a.id => holder'[g] = holder[g]
      BY <1>0, <2>6 DEF SaveGrant, Stores
    <3>4. act' = [act EXCEPT ![c] = NoCall] /\ UNCHANGED <<acct, admin>>
      BY <2>6 DEF SaveGrant, Answer, users
    <3>5. ASSUME NEW d \in Callers PROVE BoundCall(act[d])'
      <4>1. CASE d = c
        BY <1>0, <3>4, <4>1 DEF BoundCall, Calls, NoCall
      <4>2. CASE d # c
        <5>1. act'[d] = act[d] /\ BoundCall(act[d])
          BY <1>0, <3>4, <4>2 DEF Calls, BoundCalls
        <5> QED
          BY <3>2, <3>3, <3>4, <5>1 DEF BoundCall
      <4> QED
        BY <4>1, <4>2
    <3> QED
      BY <3>4, <3>5 DEF BoundCalls
  <2>7. CASE LookupAdmin(c)
    <3> DEFINE x == [a EXCEPT !.pc = "save", !.sid = acct[a.user]]
    <3>1. x.op = "admin" /\ x.sid = acct[a.user]
      BY <2>0, <2>7 DEF LookupAdmin, Call
    <3>2. (act' = [act EXCEPT ![c] = x] /\ acct[a.user] # 0) \/ Answer(c)
      BY <2>7 DEF LookupAdmin
    <3>3. acct[a.user] # 0 => BoundCall(x)
      BY <3>1 DEF BoundCall
    <3> QED
      BY <1>0, <1>a, <2>7, <3>2, <3>3, BoundOne DEF LookupAdmin, users, grants
  <2>8. CASE SaveAdmin(c)
    <3>1. a.sid # 0
      BY <2>0, <2>8 DEF SaveAdmin, BoundCall
    <3>2. /\ act' = [act EXCEPT ![c] = NoCall] /\ UNCHANGED <<acct, holder>>
          /\ admin' \in {[user |-> a.user, sid |-> a.sid], admin}
      BY <2>8 DEF SaveAdmin, Answer, users
    <3>3. \A d \in Callers : BoundCall(act'[d])
      BY <1>0, <1>n, <3>2 DEF Calls, BoundCalls
    <3>4. \A d \in Callers : BoundCall(act[d])'
      BY <3>2, <3>3 DEF BoundCall
    <3> QED
      BY <3>1, <3>2, <3>4 DEF BoundCalls
  <2>9. CASE LookupUser(c)
    <3> DEFINE x == [a EXCEPT !.pc = "ledger", !.sid = acct[a.user]]
    <3>1. /\ x.op = a.op /\ x.sid = acct[a.user] /\ x.pc = "ledger" /\ x.user = a.user
          /\ x.id = a.id /\ x.calm = a.calm /\ a.op = "run"
      BY <2>0, <2>9 DEF LookupUser, Call, Shape
    <3>2. (act' = [act EXCEPT ![c] = x] /\ acct[a.user] # 0) \/ Answer(c)
      BY <2>9 DEF LookupUser
    <3>3. acct[a.user] # 0 => BoundCall(x)
      BY <2>0, <3>1 DEF BoundCall
    <3> QED
      BY <1>0, <1>a, <2>9, <3>2, <3>3, BoundOne DEF LookupUser, users, grants
  <2>10. CASE CheckLedger(c)
    <3> DEFINE x == [a EXCEPT !.pc = "admin"]
    <3>1. /\ x.op = a.op /\ x.sid = a.sid /\ x.pc = "admin" /\ x.user = a.user
          /\ x.id = a.id /\ x.calm = a.calm /\ a.op = "run" /\ a.pc = "ledger"
      BY <2>0, <2>10 DEF CheckLedger, Call, Shape
    <3>2. act' = [act EXCEPT ![c] = x] \/ Answer(c)
      BY <2>10 DEF CheckLedger, Goto
    <3>3. BoundCall(x)
      BY <2>0, <3>1 DEF BoundCall
    <3> QED
      BY <1>0, <1>a, <2>10, <3>2, <3>3, BoundOne DEF CheckLedger, users, grants
  <2>11. CASE TryAdmin(c)
    <3> DEFINE x == [a EXCEPT !.pc = "token", !.sid = admin.sid, !.id = Admin]
               y == [a EXCEPT !.pc = "grants", !.sid = acct[a.user]]
    <3>1. /\ x.op = a.op /\ x.sid = admin.sid /\ x.pc = "token" /\ x.user = a.user
          /\ x.id = Admin /\ x.calm = a.calm
          /\ y.op = a.op /\ y.sid = acct[a.user] /\ y.pc = "grants" /\ y.user = a.user
          /\ y.id = a.id /\ y.calm = a.calm
      BY <2>0 DEF Call
    <3>2. a.op = "run" /\ a.pc = "admin" /\ a.user \in Users
      BY <2>0, <2>11 DEF TryAdmin, Shape
    <3>3. CASE admin.user = a.user /\ Bound(admin.sid, acct[a.user])
      <4>1. act' = [act EXCEPT ![c] = x]
        BY <2>11, <3>3 DEF TryAdmin
      <4>2. admin.sid # 0
        BY <3>2, <3>3 DEF BoundCalls
      <4>3. a.calm => admin.sid = acct[a.user] /\ acct[a.user] # 0
        BY <2>0, <3>2, <3>3, <4>2 DEF BoundCall, Bound
      <4>4. BoundCall(x)
        BY <1>0, <2>0, <3>1, <4>3 DEF BoundCall
      <4> QED
        BY <1>0, <2>11, <4>1, <4>4, BoundOne DEF TryAdmin, users, grants
    <3>4. CASE ~(admin.user = a.user /\ Bound(admin.sid, acct[a.user]))
      <4>1. act' = [act EXCEPT ![c] = y]
        BY <2>11, <3>4 DEF TryAdmin
      <4>2. BoundCall(y)
        BY <2>0, <3>1, <3>2 DEF BoundCall
      <4> QED
        BY <1>0, <2>11, <4>1, <4>2, BoundOne DEF TryAdmin, users, grants
    <3> QED
      BY <3>3, <3>4
  <2>12. CASE TryGrants(c)
    <3> PICK g \in Maybe({g \in GrantIds : Covers(g, a.user, a.sid)}) :
          act' = [act EXCEPT ![c].pc = "token", ![c].id = g, ![c].sid = 0]
      BY <2>12 DEF TryGrants
    <3> DEFINE x == [a EXCEPT !.pc = "token", !.id = g, !.sid = 0]
    <3>1. /\ x.op = a.op /\ x.pc = "token" /\ x.user = a.user /\ x.id = g /\ x.calm = a.calm
      BY <2>0 DEF Call
    <3>2. a.op = "run" /\ a.pc = "grants"
      BY <2>0, <2>12 DEF TryGrants, Shape
    <3>3. g \in GrantIds => files[g] # Nothing /\ Bound(files[g].sid, a.sid)
      BY <1>0 DEF Maybe, Covers
    <3>4. a.calm => a.sid = acct[a.user] /\ a.sid # 0
      BY <2>0, <3>2 DEF BoundCall
    <3>5. a.calm /\ g \in GrantIds /\ holder[g].bound => holder[g].sid = acct[a.user]
      BY <3>3, <3>4 DEF GrantInv, Issued, Bound
    <3>6. g # Admin
      BY <1>0 DEF Maybe
    <3>7. BoundCall(x)
      BY <3>1, <3>2, <3>4, <3>5, <3>6 DEF BoundCall
    <3>8. act' = [act EXCEPT ![c] = x]
      OBVIOUS
    <3> QED
      BY <1>0, <2>12, <3>7, <3>8, BoundOne DEF TryGrants, users, grants
  <2>13. CASE AcquireToken(c)
    <3> DEFINE x == [a EXCEPT !.pc = "spawn"]
    <3>1. /\ x.op = a.op /\ x.sid = a.sid /\ x.pc = "spawn" /\ x.user = a.user
          /\ x.id = a.id /\ x.calm = a.calm /\ a.op \in {"run", "background"} /\ a.pc = "token"
      BY <2>0, <2>13 DEF AcquireToken, Call, Shape
    <3>2. act' = [act EXCEPT ![c] = x] \/ Answer(c)
      BY <2>13 DEF AcquireToken, Goto
    <3>3. BoundCall(x)
      BY <2>0, <3>1 DEF BoundCall
    <3> QED
      BY <1>0, <1>a, <2>13, <3>2, <3>3, BoundOne DEF AcquireToken, users, grants
  <2> QED
    BY <1>4, <2>1, <2>2, <2>3, <2>4, <2>5, <2>6, <2>7, <2>8, <2>9, <2>10, <2>11, <2>12, <2>13
       DEF Handle
<1>5. CASE Restart
  BY <1>n, <1>5 DEF Restart, BoundCalls, BoundCall, grants
<1>6. CASE Tick
  BY <1>6 DEF Tick, BoundCalls, BoundCall, users, grants
<1>7. ASSUME NEW c \in Callers, RevokeAdmin(c) PROVE BoundCalls'
  BY <1>7, PrivServiceAssumption DEF RevokeAdmin, BoundCalls, BoundCall, users, Nobody
<1>8. ASSUME NEW c \in Callers, NEW g \in GrantIds, RevokeGrant(c, g) PROVE BoundCalls'
  BY <1>8 DEF RevokeGrant, BoundCalls, BoundCall, users
<1>9. CASE UNCHANGED vars
  BY <1>9 DEF vars, BoundCalls, BoundCall
<1> QED
  BY <1>1, <1>2, <1>3, <1>4, <1>5, <1>6, <1>7, <1>8, <1>9 DEF Next

\* An elevation given to an account by SID, by a grant or by the system_admin
\* record, is never that of a later account of the same name, for every fault and
\* however useradd and userdel overlap with installs and runs.
THEOREM BoundElevation == Spec => []BoundNotInherited
<1>1. Init => BoundCalls
  BY PrivServiceAssumption DEF Init, BoundCalls, BoundCall, NoCall, Nobody
<1>2. GrantInv /\ BoundCalls /\ [Next]_vars => BoundCalls'
  BY BoundStep
<1>3. BoundCalls => BoundNotInherited
  BY DEF BoundCalls, BoundCall, BoundNotInherited
<1> QED
  BY <1>1, <1>2, <1>3, GrantInvariant, PTL DEF Spec

-----------------------------------------------------------------------------
(* Users. A useradd leaves its traces in the account database, the LSA      *)
(* store, the temporary and user_sids.json, one after the other; while it   *)
(* is the only useradd or userdel, each trace fits the ones before it.      *)

\* useradd and userdel calls are made one after the other and name no account that
\* is there, and the ledger can be replaced.
Orderly == OneAtATime /\ ~Readd /\ "ledger" \notin Faults

\* One useradd or userdel at a time.
Single ==
    \A c, d \in Callers : act[c].op \in AccountOps /\ act[d].op \in AccountOps => c = d

\* A ledger has no SID but the right one for a user who is to be usable.
Fits(doc) == \A v \in usable : doc[v] \in {0, acct[v]}

\* How far a useradd or userdel has come, and what it has left behind.
Progress(a) ==
    LET u == a.user IN
    a.op \in AccountOps =>
        /\ u \notin usable
        /\ a.op = "useradd" =>
              /\ a.pc = "account" => acct[u] = 0
              /\ a.pc \in {"secret", "read"} => a.sid = acct[u]
              /\ a.pc \in {"secret", "sid", "read", "open", "write", "move"} => acct[u] # 0
              /\ a.pc \in {"sid", "read", "open", "write", "move"} => lsa[u] = acct[u]
              /\ a.pc \in {"open", "write"} => a.doc[u] = acct[u]
              /\ a.pc = "move" => tmp[u] = acct[u]
        /\ a.pc \in {"open", "write"} => Fits(a.doc)
        /\ a.pc = "write" => tmp = Torn
        /\ a.pc = "move" => tmp \in Ledger /\ Fits(tmp)

AddedParts == Single /\ (\A c \in Callers : Progress(act[c])) /\ AddedUserRuns

\* A step that touches neither accounts nor the calls about them keeps AddedParts.
LEMMA AddedAside ==
  ASSUME AddedParts, UNCHANGED <<acct, lsa, ledger, tmp, usable>>,
         \A d \in Callers : act'[d] = act[d] \/ act'[d].op \notin AccountOps
  PROVE  AddedParts'
<1>1. Single'
  BY DEF AddedParts, Single
<1>2. \A c \in Callers : Progress(act[c])'
  BY DEF AddedParts, Progress, Fits
<1>3. AddedUserRuns'
  BY DEF AddedParts, AddedUserRuns, Persisted
<1> QED
  BY <1>1, <1>2, <1>3 DEF AddedParts

\* A step of a useradd or userdel: the others are not about accounts, so what is
\* to be shown is the progress of this one and that the usable users stay so.
LEMMA AddedMine ==
  ASSUME Calls, AddedParts, NEW c \in Callers, act[c].op \in AccountOps,
         \A d \in Callers : d # c => act'[d].op = act[d].op,
         Progress(act[c])', AddedUserRuns'
  PROVE  AddedParts'
<1>1. \A d \in Callers : d # c => act'[d].op \notin AccountOps
  BY DEF AddedParts, Single
<1>2. Single'
  BY <1>1 DEF Single
<1>3. \A d \in Callers : Progress(act[d])'
  BY <1>1 DEF Progress
<1> QED
  BY <1>2, <1>3 DEF AddedParts

\* A step of the one useradd or userdel in progress preserves AddedParts.
LEMMA AccountStep ==
  ASSUME Orderly, TypeInv, AddedParts, NEW c \in Callers, Handle(c), act[c].op \in AccountOps
  PROVE  AddedParts'
<1> DEFINE a == act[c]
           u == act[c].user
           Others == \A d \in Callers : d # c => act'[d].op = act[d].op
<1>0. Stores /\ Calls /\ a \in Call /\ Shape(a) /\ u \in Users /\ u \notin usable /\ Progress(a)
  BY DEF TypeInv, Calls, Shape, AccountOps, AddedParts, Progress
<1>n. NoCall.op \notin AccountOps
  BY DEF NoCall, AccountOps
<1>a. ASSUME Answer(c), AddedUserRuns' PROVE AddedParts'
  <2>1. act'[c] = NoCall /\ Others
    BY <1>0, <1>a DEF Answer, Calls
  <2>2. Progress(act[c])'
    BY <1>n, <2>1 DEF Progress
  <2> QED
    BY <1>0, <1>a, <2>1, <2>2, AddedMine
<1>e. ASSUME NEW x, act' = [act EXCEPT ![c] = x]
      PROVE  act'[c] = x /\ Others
  BY <1>0, <1>e DEF Calls
<1>f. ASSUME NEW x, AccountChanges(c, u, x)
      PROVE  act'[c] = x /\ Others
  <2>1. Others
    BY <1>0, <1>f, OtherCalls
  <2> QED
    BY <1>f, <2>1 DEF AccountChanges
<1>s. ASSUME \A d \in Callers : d # c => act'[d].op = act[d].op, Progress(act[c])', AddedUserRuns'
      PROVE  AddedParts'
  BY <1>0, <1>s, AddedMine
<1>u. ASSUME \A v \in usable : acct'[v] = acct[v] /\ lsa'[v] = lsa[v], UNCHANGED <<ledger, usable>>
      PROVE  AddedUserRuns'
  BY <1>u DEF AddedParts, AddedUserRuns, Persisted
<1>1. CASE NetUserAdd(c)
  <2>1. a.op = "useradd" /\ a.pc = "account" /\ acct[u] = 0 /\ acct \in [Users -> Sids]
    BY <1>0, <1>1 DEF NetUserAdd, Progress, Stores
  <2>2. CASE /\ acct' = [acct EXCEPT ![u] = made + 1]
             /\ AccountChanges(c, u, [a EXCEPT !.pc = "secret", !.sid = made + 1])
    <3> DEFINE x == [a EXCEPT !.pc = "secret", !.sid = made + 1]
    <3>1. x.op = a.op /\ x.pc = "secret" /\ x.sid = made + 1 /\ x.user = u
      BY <1>0 DEF Call
    <3>2. acct'[u] = made + 1 /\ made + 1 # 0 /\ usable' = usable
      BY <1>0, <1>1, <2>1, <2>2 DEF Stores, Sids, NetUserAdd
    <3>5. act'[c] = x /\ Others
      BY <1>f, <2>2
    <3> HIDE DEF x
    <3>3. Progress(act[c])'
      BY <1>0, <2>1, <3>1, <3>2, <3>5 DEF Progress
    <3>4. AddedUserRuns'
      BY <1>0, <1>1, <1>u, <2>1, <2>2 DEF NetUserAdd, Stores
    <3> QED
      BY <1>s, <3>3, <3>4, <3>5
  <2>3. CASE Answer(c) /\ acct' = acct
    BY <1>a, <1>1, <1>u, <2>3 DEF NetUserAdd
  <2> QED
    BY <1>1, <2>1, <2>2, <2>3 DEF NetUserAdd
<1>2. CASE StorePassword(c)
  <2> DEFINE x == [a EXCEPT !.pc = "sid"]
  <2>1. x.op = a.op /\ x.pc = "sid" /\ x.user = u
    BY <1>0 DEF Call
  <2>2. AddedUserRuns'
    BY <1>0, <1>2, <1>u DEF StorePassword, Stores
  <2>3. CASE lsa' = [lsa EXCEPT ![u] = a.sid] /\ Goto(c, "sid")
    <3>1. act'[c] = x /\ Others
      BY <1>e, <2>3 DEF Goto
    <3>2. /\ lsa'[u] = a.sid /\ a.sid = acct[u] /\ acct[u] # 0 /\ UNCHANGED <<acct, usable>>
          /\ a.op = "useradd"
      BY <1>0, <1>2, <2>3 DEF StorePassword, Stores, Progress, AccountOps
    <3> HIDE DEF x
    <3>3. Progress(act[c])'
      BY <1>0, <2>1, <3>1, <3>2 DEF Progress
    <3> QED
      BY <1>s, <2>2, <3>1, <3>3
  <2> QED
    BY <1>a, <1>2, <2>2, <2>3 DEF StorePassword
<1>3. CASE SidAfterAdd(c)
  <2> DEFINE x == [a EXCEPT !.pc = "read", !.sid = acct[u]]
  <2>1. x.op = a.op /\ x.pc = "read" /\ x.sid = acct[u] /\ x.user = u
    BY <1>0 DEF Call
  <2>2. UNCHANGED <<acct, lsa, ledger, tmp, usable>>
    BY <1>3 DEF SidAfterAdd, users
  <2>3. AddedUserRuns'
    BY <1>u, <2>2
  <2>4. (act'[c] = x /\ Others) \/ Answer(c)
    <3>1. act' = [act EXCEPT ![c] = x] \/ Answer(c)
      BY <1>3 DEF SidAfterAdd
    <3> QED
      BY <1>e, <3>1
  <2> HIDE DEF x
  <2>5. act'[c] = x => Progress(act[c])'
    BY <1>0, <1>3, <2>1, <2>2 DEF Progress, SidAfterAdd
  <2> QED
    BY <1>a, <1>s, <2>3, <2>4, <2>5
<1>4. CASE NetUserDel(c)
  <2>1. a.op = "userdel" /\ acct \in [Users -> Sids]
    BY <1>0, <1>4 DEF NetUserDel, Stores
  <2>2. AddedUserRuns'
    <3>1. \A v \in usable : acct'[v] = acct[v]
      BY <1>0, <1>4, <2>1 DEF NetUserDel, Stores
    <3> QED
      BY <1>4, <1>u, <3>1 DEF NetUserDel
  <2> DEFINE x == [a EXCEPT !.pc = "secret"]
  <2>3. x.op = a.op /\ x.pc = "secret" /\ x.user = u
    BY <1>0 DEF Call
  <2>4. (act'[c] = x /\ Others) \/ Answer(c)
    BY <1>4, <1>f DEF NetUserDel
  <2> HIDE DEF x
  <2>5. act'[c] = x => Progress(act[c])'
    BY <1>0, <1>4, <2>1, <2>3 DEF Progress, NetUserDel
  <2> QED
    BY <1>a, <1>s, <2>2, <2>4, <2>5
<1>5. CASE DeletePassword(c)
  <2> DEFINE x == [a EXCEPT !.pc = "read"]
  <2>1. x.op = a.op /\ x.pc = "read" /\ x.user = u /\ a.op = "userdel"
    BY <1>0, <1>5 DEF Call, DeletePassword
  <2>2. AddedUserRuns'
    BY <1>0, <1>5, <1>u DEF DeletePassword, Stores
  <2>3. act'[c] = x /\ usable' = usable /\ Others
    BY <1>5, <1>e DEF DeletePassword, Goto
  <2> HIDE DEF x
  <2>4. Progress(act[c])'
    BY <1>0, <2>1, <2>3 DEF Progress
  <2> QED
    BY <1>s, <2>2, <2>3, <2>4
<1>6. CASE ReadLedger(c)
  <2> DEFINE found == IF ledger = Torn THEN NoLedger ELSE ledger
             entry == IF a.op = "useradd" THEN a.sid ELSE 0
             doc == [found EXCEPT ![u] = entry]
             x == [a EXCEPT !.pc = "open", !.sid = 0, !.doc = doc]
  <2>1. x.op = a.op /\ x.pc = "open" /\ x.user = u /\ x.doc = doc
    BY <1>0 DEF Call
  <2>2. UNCHANGED <<acct, lsa, ledger, tmp, usable>>
    BY <1>6 DEF ReadLedger, users
  <2>3. (act'[c] = x /\ Others) \/ Answer(c)
    <3>1. act' = [act EXCEPT ![c] = x] \/ Answer(c)
      BY <1>6 DEF ReadLedger
    <3> QED
      BY <1>e, <3>1
  <2>4. found \in [Users -> Sids] /\ \A v \in usable : found[v] \in {0, acct[v]}
    BY <1>0, NoneTyped DEF Stores, Ledger, AddedParts, AddedUserRuns, Persisted, NoLedger
  <2>5. doc[u] = entry /\ \A v \in usable : doc[v] \in {0, acct[v]}
    <3> HIDE DEF found
    <3> QED
      BY <1>0, <2>4 DEF Stores
  <2>6. a.op = "useradd" => entry = acct[u] /\ acct[u] # 0 /\ lsa[u] = acct[u]
    BY <1>0, <1>6 DEF Progress, ReadLedger
  <2> HIDE DEF x, doc, entry
  <2>7. act'[c] = x => Progress(act[c])'
    BY <1>0, <2>1, <2>2, <2>5, <2>6 DEF Progress, Fits
  <2>8. AddedUserRuns'
    BY <1>u, <2>2
  <2> QED
    BY <1>a, <1>s, <2>3, <2>7, <2>8
<1>7. CASE OpenTmp(c)
  <2> DEFINE x == [a EXCEPT !.pc = "write"]
  <2>1. x.op = a.op /\ x.pc = "write" /\ x.user = u /\ x.doc = a.doc /\ a.pc = "open"
    BY <1>0, <1>7 DEF Call, OpenTmp
  <2>2. /\ UNCHANGED <<acct, lsa, ledger, usable>> /\ tmp' = Torn
        /\ act'[c] = x /\ Others
    BY <1>7, <1>e DEF OpenTmp, Goto
  <2> HIDE DEF x
  <2>3. Progress(act[c])'
    BY <1>0, <2>1, <2>2 DEF Progress, Fits
  <2>4. AddedUserRuns'
    BY <1>u, <2>2
  <2> QED
    BY <1>s, <2>2, <2>3, <2>4
<1>8. CASE WriteTmp(c)
  <2> DEFINE x == [a EXCEPT !.pc = "move", !.doc = NoLedger]
  <2>1. x.op = a.op /\ x.pc = "move" /\ x.user = u /\ a.pc = "write" /\ a.doc \in Ledger
    BY <1>0, <1>8 DEF Call, WriteTmp
  <2>2. tmp = Torn
    BY <1>0, <2>1 DEF Progress
  <2>3. /\ UNCHANGED <<acct, lsa, ledger, usable>> /\ tmp' = a.doc
        /\ act'[c] = x /\ Others
    BY <1>8, <1>e, <2>2 DEF WriteTmp
  <2> HIDE DEF x
  <2>4. Progress(act[c])'
    BY <1>0, <2>1, <2>3 DEF Progress, Fits
  <2>5. AddedUserRuns'
    BY <1>u, <2>3
  <2> QED
    BY <1>s, <2>3, <2>4, <2>5
<1>9. CASE MoveTmp(c)
  <2>1. tmp \in Ledger /\ Fits(tmp) /\ a.pc = "move"
    BY <1>0, <1>9 DEF Progress, MoveTmp
  <2>2. tmp # Nothing
    BY <2>1, PrivServiceAssumption DEF Ledger, Sids
  <2>3. \A d \in Callers : act[d].pc # "write"
    BY <1>0, <2>1 DEF Calls, Shape, AddedParts, Single
  <2>4. ledger' = tmp
    BY <1>9, <2>2, <2>3 DEF MoveTmp, Orderly
  <2>5. UNCHANGED <<acct, lsa>> /\ Answer(c)
    BY <1>9 DEF MoveTmp
  <2>6. \/ usable' = usable
        \/ a.op = "useradd" /\ usable' = usable \cup {u}
    BY <1>9 DEF MoveTmp
  <2>7. a.op = "useradd" => acct[u] # 0 /\ lsa[u] = acct[u] /\ tmp[u] = acct[u]
    BY <1>0, <2>1 DEF Progress
  <2>8. AddedUserRuns'
    BY <2>1, <2>4, <2>5, <2>6, <2>7 DEF AddedParts, AddedUserRuns, Persisted, Fits
  <2> QED
    BY <1>a, <2>5, <2>8
<1> QED
  BY <1>0, <1>1, <1>2, <1>3, <1>4, <1>5, <1>6, <1>7, <1>8, <1>9 DEF Handle, Shape, AccountOps,
     CheckBinding, SaveGrant, LookupAdmin, SaveAdmin, LookupUser, CheckLedger, TryAdmin,
     TryGrants, AcquireToken, Spawn

\* Every step preserves AddedParts.
LEMMA AddedStep ==
  ASSUME Orderly, TypeInv, AddedParts, [Next]_vars
  PROVE  AddedParts'
<1>0. Stores /\ Calls
  BY DEF TypeInv
<1>n. NoCall.op \notin AccountOps
  BY DEF NoCall, AccountOps
<1>a. ASSUME NEW c \in Callers, Answer(c), UNCHANGED <<acct, lsa, ledger, tmp, usable>>
      PROVE  AddedParts'
  BY <1>0, <1>a, <1>n, AddedAside DEF Answer, Calls
<1>s. ASSUME NEW c \in Callers, NEW x, act' = [act EXCEPT ![c] = x], x.op \notin AccountOps,
             UNCHANGED <<acct, lsa, ledger, tmp, usable>>
      PROVE  AddedParts'
  BY <1>0, <1>s, AddedAside DEF Calls
<1>1. ASSUME NEW c \in Callers, NEW u \in Users, CallUserAdd(c, u) \/ CallUserDel(c, u)
      PROVE  AddedParts'
  <2>1. PICK op \in AccountOps :
          /\ act' = [act EXCEPT ![c] = Request(op, u, "account")] /\ usable' = usable \ {u}
          /\ Serial /\ (op = "useradd" => acct[u] = 0) /\ UNCHANGED <<acct, lsa, ledger, tmp>>
    BY <1>1 DEF CallUserAdd, CallUserDel, Send, users, Orderly, AccountOps
  <2> DEFINE x == Request(op, u, "account")
  <2>2. x.op = op /\ x.user = u /\ x.pc = "account"
    BY DEF Request, NoCall
  <2> HIDE DEF x
  <2>3. \A d \in Callers : d # c => act'[d].op \notin AccountOps
    BY <1>0, <2>1 DEF Serial, Orderly, Calls
  <2>4. act'[c] = x
    BY <1>0, <2>1 DEF Calls, x
  <2>5. Single'
    BY <2>3 DEF Single
  <2>6. Progress(act[c])'
    BY <2>1, <2>2, <2>4 DEF Progress, AccountOps
  <2>7. \A d \in Callers : Progress(act[d])'
    BY <2>3, <2>6 DEF Progress
  <2>8. AddedUserRuns'
    BY <2>1 DEF AddedParts, AddedUserRuns, Persisted
  <2> QED
    BY <2>5, <2>7, <2>8 DEF AddedParts
<1>2. ASSUME NEW c \in Callers, NEW u \in Users, CallInstallAdmin(c, u) \/ CallSpawnBackground(c, u)
      PROVE  AddedParts'
  <2>1. ASSUME NEW op \in {"admin", "background"}, NEW pc
        PROVE  Request(op, u, pc).op \notin AccountOps
    BY DEF Request, NoCall, AccountOps
  <2> QED
    BY <1>2, <1>s, <2>1 DEF CallInstallAdmin, CallSpawnBackground, Send, users
<1>3. ASSUME NEW c \in Callers, NEW u \in Users, CallRunAs(c, u) PROVE AddedParts'
  <2> PICK over : Send(c, [Request("run", u, "lookup") EXCEPT !.over = over])
    BY <1>3 DEF CallRunAs
  <2>1. [Request("run", u, "lookup") EXCEPT !.over = over].op \notin AccountOps
    BY DEF Request, NoCall, AccountOps
  <2> QED
    BY <1>3, <1>s, <2>1 DEF CallRunAs, Send, users
<1>4. ASSUME NEW c \in Callers, NEW g \in GrantIds, NEW u \in Users, NEW ttl \in Ttls,
             NEW src \in RecordSids, CallInstallGrant(c, g, u, ttl, src)
      PROVE  AddedParts'
  <2> PICK grant : Send(c, [Request("install", u, "check") EXCEPT
                              !.id = g, !.sid = acct[u], !.grant = grant])
    BY <1>4 DEF CallInstallGrant
  <2>1. [Request("install", u, "check") EXCEPT
           !.id = g, !.sid = acct[u], !.grant = grant].op \notin AccountOps
    BY DEF Request, NoCall, AccountOps
  <2> QED
    BY <1>4, <1>s, <2>1 DEF CallInstallGrant, Send, users
<1>5. ASSUME NEW c \in Callers, Handle(c), act[c].op \notin AccountOps PROVE AddedParts'
  <2> DEFINE a == act[c]
  <2>0. a \in Call /\ Shape(a)
    BY <1>0 DEF Calls
  <2>1. /\ a.pc \notin {"account", "secret", "sid", "read", "open", "write", "move"}
        /\ UNCHANGED <<acct, lsa, ledger, tmp, usable>>
    <3>1. a.pc \notin {"account", "secret", "sid", "read", "open", "write", "move"}
      BY <1>5, <2>0 DEF Shape
    <3> QED
      BY <1>5, <3>1 DEF Handle, NetUserAdd, StorePassword, SidAfterAdd, NetUserDel,
         DeletePassword, ReadLedger, OpenTmp, WriteTmp, MoveTmp, CheckBinding, SaveGrant,
         LookupAdmin, SaveAdmin, LookupUser, CheckLedger, TryAdmin, TryGrants, AcquireToken,
         Spawn, users
  <2>2. ASSUME NEW pc, act' = [act EXCEPT ![c].pc = pc] PROVE AddedParts'
    <3>1. [a EXCEPT !.pc = pc].op \notin AccountOps
      BY <1>5, <2>0 DEF Call
    <3> QED
      BY <1>s, <2>1, <2>2, <3>1
  <2>3. ASSUME NEW pc, NEW sid, act' = [act EXCEPT ![c].pc = pc, ![c].sid = sid] PROVE AddedParts'
    <3>1. [a EXCEPT !.pc = pc, !.sid = sid].op \notin AccountOps
      BY <1>5, <2>0 DEF Call
    <3> QED
      BY <1>s, <2>1, <2>3, <3>1
  <2>4. CASE CheckBinding(c) \/ CheckLedger(c) \/ AcquireToken(c) \/ SaveGrant(c) \/ SaveAdmin(c)
             \/ Spawn(c)
    BY <1>a, <2>1, <2>2, <2>4 DEF CheckBinding, CheckLedger, AcquireToken, SaveGrant, SaveAdmin,
       Spawn, Goto
  <2>5. CASE LookupAdmin(c) \/ LookupUser(c)
    BY <1>a, <2>1, <2>3, <2>5 DEF LookupAdmin, LookupUser
  <2>6. CASE TryAdmin(c)
    <3>1. [a EXCEPT !.pc = "token", !.sid = admin.sid, !.id = Admin].op \notin AccountOps
      BY <1>5, <2>0 DEF Call
    <3> QED
      BY <1>s, <2>1, <2>3, <2>6, <3>1 DEF TryAdmin
  <2>7. CASE TryGrants(c)
    <3> PICK g : act' = [act EXCEPT ![c].pc = "token", ![c].id = g, ![c].sid = 0]
      BY <2>7 DEF TryGrants
    <3>1. [a EXCEPT !.pc = "token", !.id = g, !.sid = 0].op \notin AccountOps
      BY <1>5, <2>0 DEF Call
    <3> QED
      BY <1>s, <2>1, <3>1
  <2> QED
    BY <1>5, <2>1, <2>4, <2>5, <2>6, <2>7 DEF Handle, NetUserAdd, StorePassword, SidAfterAdd,
       NetUserDel, DeletePassword, ReadLedger, OpenTmp, WriteTmp, MoveTmp
<1>6. ASSUME NEW c \in Callers, Handle(c), act[c].op \in AccountOps PROVE AddedParts'
  BY <1>0, <1>6, AccountStep DEF TypeInv
<1>7. CASE Restart
  <2>1. \A c \in Callers : act'[c] = NoCall
    BY <1>7 DEF Restart
  <2>2. Single' /\ \A c \in Callers : Progress(act[c])'
    BY <1>n, <2>1 DEF Single, Progress
  <2>3. AddedUserRuns'
    BY <1>7 DEF Restart, AddedParts, AddedUserRuns, Persisted
  <2> QED
    BY <2>2, <2>3 DEF AddedParts
<1>8. CASE Tick \/ UNCHANGED vars
  BY <1>8, AddedAside DEF Tick, users, vars
<1>9. ASSUME NEW c \in Callers, RevokeAdmin(c) \/ \E g \in GrantIds : RevokeGrant(c, g)
      PROVE  AddedParts'
  BY <1>9, AddedAside DEF RevokeAdmin, RevokeGrant, users
<1> QED
  BY <1>1, <1>2, <1>3, <1>4, <1>5, <1>6, <1>7, <1>8, <1>9 DEF Next

\* A user whose useradd was answered ok can be used until the next useradd or
\* userdel names him, wherever other calls fail or the service stops, if useradd and
\* userdel are made one at a time and name no account that is there, and the ledger
\* can be replaced.
THEOREM AddedRuns ==
  ASSUME Orderly
  PROVE  Spec => []AddedUserRuns
<1>1. Init => AddedParts
  BY DEF Init, AddedParts, Single, Progress, AddedUserRuns, NoCall, AccountOps
<1>2. TypeInv /\ AddedParts /\ [Next]_vars => AddedParts'
  BY AddedStep
<1>3. AddedParts => AddedUserRuns
  BY DEF AddedParts
<1> QED
  BY <1>1, <1>2, <1>3, TypeInvariant, PTL DEF Spec
=============================================================================
