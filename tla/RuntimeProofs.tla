--------------------------- MODULE RuntimeProofs ----------------------------
(***************************************************************************)
(* Proofs about Runtime: the webhook on its way from mcp.json into each    *)
(* user's runtime.json.                                                    *)
(***************************************************************************)
EXTENDS Runtime, TLAPS

Actor == [pc : Pcs, next : ToolPcs, user : UserIds \cup {NoUser},
          hook : Hook, due : SUBSET UserIds, seen : SUBSET UserIds,
          at : {"none", "tmp", "run", "gone"}, ret : {"idle", "walk", "record", "hup"}]

State ==
    /\ conf \in Hook /\ cfg \in Hook /\ held \subseteq Hook
    /\ hup \in BOOLEAN /\ broken \in BOOLEAN /\ faults \in 0..MaxFaults
    /\ rec \subseteq ids /\ acct \subseteq ids /\ ids \subseteq UserIds
    /\ missed \subseteq UserIds
    /\ run \in [UserIds -> File] /\ tmp \in [UserIds -> File]
    /\ act \in [Actors -> Actor]

\* An actor that works on a user's files has a user whose shortid was made, and a file
\* open exactly from the helper's open to its exit.
Sound(x, made) ==
    /\ x.at # "none" <=> x.pc \in {"write", "rename"}
    /\ x.pc \in HelperPcs \cup {"record", "userdel", "cleanup", "account"} => x.user \in made

TypeInv == State /\ \A a \in Actors : Sound(act[a], ids)

\* The values the actors start from.
LEMMA Empty ==
    /\ NoHook \in Hook /\ Idle \in Actor /\ Idle.pc = "idle" /\ Idle.at = "none"
    /\ Idle.hook = NoHook
    /\ {} \in File /\ {{}} \in File /\ {Hook} \in File /\ \A h \in Hook : {{h}} \in File
<1>1. NoHook \in Hook
  BY DEF NoHook, Hook
<1>2. Idle \in Actor
  BY <1>1 DEF Idle, Actor, Pcs, ToolPcs
<1> QED
  BY <1>1, <1>2 DEF Idle, File

\* An actor at rest, or sent on to a tool, is sound.
LEMMA RestingSound ==
  ASSUME NEW I PROVE Sound(Idle, I)
BY Empty DEF Sound, HelperPcs

\* What handle_reload leaves.
LEMMA ReloadEnds ==
  ASSUME act \in [Actors -> Actor], NEW t \in Actors, EndReload(t)
  PROVE  /\ act' \in [Actors -> Actor] /\ \A b \in Actors \ {t} : act'[b] = act[b]
         /\ act'[t].pc = act[t].next /\ act[t].next \in ToolPcs /\ act'[t].at = "none"
         /\ act'[t].hook = NoHook
<1> DEFINE x == [Idle EXCEPT !.pc = act[t].next]
<1>1. act[t].next \in ToolPcs /\ act[t].next \in Pcs
  BY DEF Actor, Pcs
<1>2. x \in Actor /\ x.pc = act[t].next /\ x.at = "none" /\ x.hook = NoHook
  BY <1>1, Empty DEF Actor
<1>3. act' = [act EXCEPT ![t] = x]
  BY DEF EndReload
<1> HIDE DEF x
<1> QED
  BY <1>1, <1>2, <1>3

\* What the helper's exit leaves of the one who ran it.
LEMMA ExitSound ==
  ASSUME NEW x \in Actor, NEW I, x.user \in I
  PROVE  /\ Exited(x) \in Actor /\ Exited(x).pc = x.ret /\ Exited(x).at = "none"
         /\ Exited(x).hook = NoHook /\ Sound(Exited(x), I)
<1> DEFINE y == Exited(x)
<1>1. /\ y.pc = x.ret /\ y.at = "none" /\ y.hook = NoHook /\ y.ret = "idle"
      /\ y.user = (IF x.ret = "record" THEN x.user ELSE NoUser)
      /\ y.next = x.next /\ y.due = x.due /\ y.seen = x.seen
  BY DEF Exited, Actor
<1>2. y \in Actor
  <2>1. x.ret \in Pcs /\ x.user \in UserIds \cup {NoUser}
    BY DEF Actor, Pcs, ReloadPcs, ToolPcs, CommandPcs
  <2> QED
    BY <2>1, Empty DEF Exited, Actor
<1>3. x.ret \in {"idle", "walk", "record", "hup"}
  BY DEF Actor
<1> HIDE DEF y
<1>4. Sound(y, I)
  BY <1>1, <1>3 DEF Sound, HelperPcs
<1> QED
  BY <1>1, <1>2, <1>4 DEF y

\* Another's rename, or removal of the file, keeps an actor sound.
LEMMA MovedSound ==
  ASSUME NEW x \in Actor, NEW u, NEW names \in SUBSET {"tmp", "run"}, NEW I, Sound(x, I)
  PROVE  \A y \in {Renamed(x, u), Unlinked(x, u, names)} :
            y \in Actor /\ Sound(y, I) /\ y.pc = x.pc /\ y.hook = x.hook
<1>1. ASSUME NEW y, y = Renamed(x, u)
      PROVE  y \in Actor /\ Sound(y, I) /\ y.pc = x.pc /\ y.hook = x.hook
  <2>1. CASE x.user # u
    BY <1>1, <2>1 DEF Renamed
  <2>2. CASE x.user = u
    <3> DEFINE n == CASE x.at = "tmp" -> "run" [] x.at = "run" -> "gone" [] OTHER -> x.at
    <3>1. n \in {"none", "tmp", "run", "gone"} /\ (n = "none" <=> x.at = "none")
      BY DEF Actor
    <3>2. y = [x EXCEPT !.at = n]
      BY <1>1, <2>2 DEF Renamed
    <3> HIDE DEF n
    <3>3. y \in Actor /\ y.at = n /\ y.pc = x.pc /\ y.hook = x.hook /\ y.user = x.user
      BY <3>1, <3>2 DEF Actor
    <3> QED
      BY <3>1, <3>3 DEF Sound
  <2> QED
    BY <2>1, <2>2
<1>2. ASSUME NEW y, y = Unlinked(x, u, names)
      PROVE  y \in Actor /\ Sound(y, I) /\ y.pc = x.pc /\ y.hook = x.hook
  <2>1. CASE ~(x.user = u /\ x.at \in names)
    BY <1>2, <2>1 DEF Unlinked
  <2>2. CASE x.user = u /\ x.at \in names
    <3>1. x.at # "none" /\ y = [x EXCEPT !.at = "gone"]
      BY <1>2, <2>2 DEF Unlinked
    <3>2. y \in Actor /\ y.at = "gone" /\ y.pc = x.pc /\ y.hook = x.hook /\ y.user = x.user
      BY <3>1 DEF Actor
    <3> QED
      BY <3>1, <3>2 DEF Sound
  <2> QED
    BY <2>1, <2>2
<1> QED
  BY <1>1, <1>2

\* A step that gives actor a another, sound state keeps all of them so.
LEMMA OneMoves ==
  ASSUME act \in [Actors -> Actor], \A b \in Actors : Sound(act[b], ids),
         NEW a \in Actors, NEW x \in Actor, act' = [act EXCEPT ![a] = x],
         ids \subseteq ids', Sound(x, ids')
  PROVE  act' \in [Actors -> Actor] /\ \A b \in Actors : Sound(act'[b], ids')
<1>1. act'[a] = x /\ \A b \in Actors \ {a} : act'[b] = act[b]
  OBVIOUS
<1>2. \A b \in Actors \ {a} : Sound(act[b], ids')
  BY DEF Sound
<1> QED
  BY <1>1, <1>2

\* The actors stay typed and sound in every step.
LEMMA ActorsStep ==
  ASSUME TypeInv, Next, ids \subseteq ids'
  PROVE  act' \in [Actors -> Actor] /\ \A b \in Actors : Sound(act'[b], ids')
<1> DEFINE Goal == act' \in [Actors -> Actor] /\ \A b \in Actors : Sound(act'[b], ids')
<1> SUFFICES Goal
  OBVIOUS
<1>0. /\ act \in [Actors -> Actor] /\ \A b \in Actors : Sound(act[b], ids)
      /\ conf \in Hook /\ cfg \in Hook /\ rec \subseteq ids /\ acct \subseteq ids
      /\ ids \subseteq UserIds /\ Threads \subseteq Actors /\ Procs \subseteq Actors
  BY DEF TypeInv, State, Actors
<1>m. ASSUME NEW a \in Actors, NEW x \in Actor, act' = [act EXCEPT ![a] = x], Sound(x, ids')
      PROVE  Goal
  BY <1>0, <1>m, OneMoves
<1>r. ASSUME NEW a \in Actors, Return(a) PROVE Goal
  BY <1>m, <1>r, Empty, RestingSound DEF Return
<1>e. ASSUME NEW t \in Actors, EndReload(t) PROVE Goal
  <2>1. /\ act' \in [Actors -> Actor] /\ \A b \in Actors \ {t} : act'[b] = act[b]
        /\ act'[t].pc = act[t].next /\ act[t].next \in ToolPcs /\ act'[t].at = "none"
    BY <1>0, <1>e, ReloadEnds
  <2>2. Sound(act'[t], ids') /\ \A b \in Actors \ {t} : Sound(act[b], ids')
    BY <1>0, <2>1 DEF Sound, ToolPcs, HelperPcs
  <2> QED
    BY <2>1, <2>2
<1>x. ASSUME NEW a \in Actors, act' = [act EXCEPT ![a] = Exited(@)], act[a].pc \in HelperPcs
      PROVE  Goal
  <2>1. act[a] \in Actor /\ act[a].user \in ids'
    BY <1>0, <1>x DEF Sound
  <2>2. act' = [act EXCEPT ![a] = Exited(act[a])]
    BY <1>0, <1>x
  <2> QED
    BY <1>m, <2>1, <2>2, ExitSound
<1>a. ASSUME NEW a \in Actors
      PROVE  /\ act[a] \in Actor /\ act[a].user \in UserIds \cup {NoUser} /\ act[a].hook \in Hook
             /\ act[a].due \in SUBSET UserIds /\ act[a].seen \in SUBSET UserIds
             /\ act[a].ret \in {"idle", "walk", "record", "hup"}
  BY <1>0 DEF Actor
\* a move to a pc at which no file is open
<1>k. ASSUME NEW a \in Actors, NEW pc \in Pcs \ {"write", "rename"}, Goto(a, pc),
             act[a].pc \notin {"write", "rename"},
             pc \in {"open", "record", "userdel", "cleanup", "account"} => act[a].user \in ids'
      PROVE  Goal
  <2> DEFINE x == [act[a] EXCEPT !.pc = pc]
  <2>1. act[a] \in Actor /\ act[a].at = "none"
    BY <1>0, <1>k DEF Sound
  <2>2. x \in Actor /\ x.pc = pc /\ x.user = act[a].user /\ x.at = "none"
    BY <2>1 DEF Actor
  <2>3. act' = [act EXCEPT ![a] = x]
    BY <1>0, <1>k DEF Goto
  <2> HIDE DEF x
  <2>4. Sound(x, ids')
    BY <1>k, <2>2 DEF Sound, HelperPcs
  <2> QED
    BY <1>m, <2>2, <2>3, <2>4
<1>p. /\ {"open", "record", "userdel", "cleanup", "account", "hup", "walk", "compare", "assign", "assignSame",
          "load", "replace", "authrecord"} \subseteq Pcs \ {"write", "rename"}
      /\ ToolPcs \subseteq Pcs \ {"write", "rename"}
  BY DEF Pcs, ToolPcs, ReloadPcs, HelperPcs, CommandPcs
<1>h. ASSUME NEW t \in Threads PROVE ReadConfig(t) \subseteq Hook
  <2>1. ASSUME NEW b \in Threads
        PROVE  [url : {cfg.url, act[b].hook.url}, secret : {cfg.secret, act[b].hook.secret}] \subseteq Hook
    <3>1. act[b].hook \in Hook
      BY <1>0, <1>a
    <3> QED
      BY <1>0, <3>1 DEF Hook
  <2> QED
    BY <1>0, <2>1 DEF ReadConfig
<1>1. ASSUME NEW a \in Actors, HelperOpen(a) PROVE Goal
  <2>1. act[a].pc = "open" /\ act[a].pc \in HelperPcs /\ act[a] \in Actor
    BY <1>0, <1>1 DEF HelperOpen, HelperPcs
  <2>2. CASE act' = [act EXCEPT ![a].pc = "write", ![a].at = "tmp"]
    <3> DEFINE x == [act[a] EXCEPT !.pc = "write", !.at = "tmp"]
    <3>1. x \in Actor /\ x.pc = "write" /\ x.at = "tmp" /\ x.user = act[a].user
      BY <2>1 DEF Actor, Pcs, HelperPcs
    <3>2. act' = [act EXCEPT ![a] = x]
      BY <1>0, <2>2
    <3> HIDE DEF x
    <3>3. Sound(x, ids')
      BY <1>0, <2>1, <3>1 DEF Sound
    <3> QED
      BY <1>m, <3>1, <3>2, <3>3
  <2>3. CASE act' = [act EXCEPT ![a] = Exited(@)]
    BY <1>x, <2>1, <2>3
  <2> QED
    BY <1>1, <2>2, <2>3 DEF HelperOpen
<1>2. ASSUME NEW a \in Actors, HelperWrite(a) PROVE Goal
  <2> DEFINE x == [act[a] EXCEPT !.pc = "rename"]
  <2>1. act[a] \in Actor /\ act[a].pc = "write" /\ act' = [act EXCEPT ![a] = x]
    BY <1>0, <1>2 DEF HelperWrite, Goto
  <2>2. x \in Actor /\ x.pc = "rename" /\ x.user = act[a].user /\ x.at = act[a].at
    BY <2>1 DEF Actor, Pcs, HelperPcs
  <2> HIDE DEF x
  <2>3. Sound(x, ids')
    BY <1>0, <2>1, <2>2 DEF Sound, HelperPcs
  <2> QED
    BY <1>m, <2>1, <2>2, <2>3
\* one exits, and the others' files are moved
<1>o. ASSUME NEW a \in Actors, act[a].pc \in HelperPcs, NEW f,
             act' = [b \in Actors |-> IF b = a THEN Exited(act[b]) ELSE f[b]],
             \A b \in Actors : f[b] \in Actor /\ Sound(f[b], ids)
      PROVE  Goal
  <2>1. act[a] \in Actor /\ act[a].user \in ids'
    BY <1>0, <1>o DEF Sound
  <2>2. Exited(act[a]) \in Actor /\ Sound(Exited(act[a]), ids')
    BY <2>1, ExitSound
  <2>3. \A b \in Actors : Sound(f[b], ids')
    BY <1>o DEF Sound
  <2> QED
    BY <1>o, <2>2, <2>3
<1>3. ASSUME NEW a \in Actors, HelperRename(a) PROVE Goal
  <2> DEFINE f == [b \in Actors |-> Renamed(act[b], act[a].user)]
  <2>1. \A b \in Actors : f[b] \in Actor /\ Sound(f[b], ids)
    BY <1>0, MovedSound
  <2>2. /\ act[a].pc \in HelperPcs
        /\ act' = [b \in Actors |-> IF b = a THEN Exited(act[b]) ELSE f[b]]
    BY <1>3 DEF HelperRename, HelperPcs
  <2> HIDE DEF f
  <2> QED
    BY <1>o, <2>1, <2>2
<1>4. ASSUME NEW a \in Actors, HelperFail(a) PROVE Goal
  <2> DEFINE f == [b \in Actors |-> Unlinked(act[b], act[a].user, {"tmp"})]
  <2>1. \A b \in Actors : f[b] \in Actor /\ Sound(f[b], ids)
    BY <1>0, MovedSound
  <2>2. /\ act[a].pc \in HelperPcs
        /\ \/ act' = [b \in Actors |-> IF b = a THEN Exited(act[b]) ELSE f[b]]
           \/ act' = [act EXCEPT ![a] = Exited(@)]
    BY <1>4 DEF HelperFail, HelperPcs
  <2> HIDE DEF f
  <2> QED
    BY <1>o, <1>x, <2>1, <2>2
<1>5. ASSUME NEW a \in Actors, NoIdLeft(a) PROVE Goal
  BY <1>5, <1>r DEF NoIdLeft
<1>6. ASSUME NEW t \in Threads, NEW next \in ToolPcs, Request(t, next) PROVE Goal
  <2> DEFINE x == [Idle EXCEPT !.pc = IF hup THEN "load" ELSE next, !.next = next]
  <2>1. /\ x \in Actor /\ x.at = "none" /\ x.pc \in ToolPcs \cup {"load"}
    BY <1>p, Empty DEF Actor
  <2>2. act' = [act EXCEPT ![t] = x]
    BY <1>6 DEF Request
  <2> HIDE DEF x
  <2>3. Sound(x, ids')
    BY <2>1 DEF Sound, HelperPcs, ToolPcs
  <2> QED
    BY <1>0, <1>m, <2>1, <2>2, <2>3
<1>7. ASSUME NEW t \in Threads, Load(t) PROVE Goal
  <2>1. act[t].pc = "load" /\ t \in Actors
    BY <1>0, <1>7 DEF Load
  <2>2. CASE act' = [act EXCEPT ![t].pc = "compare", ![t].hook = conf]
    <3> DEFINE x == [act[t] EXCEPT !.pc = "compare", !.hook = conf]
    <3>1. x \in Actor /\ x.pc = "compare" /\ x.at = "none"
      <4>1. act[t] \in Actor /\ act[t].at = "none"
        BY <1>0, <2>1 DEF Sound
      <4> QED
        BY <1>0, <1>p, <4>1 DEF Actor
    <3>2. act' = [act EXCEPT ![t] = x]
      BY <1>0, <2>2
    <3> HIDE DEF x
    <3>3. Sound(x, ids')
      BY <3>1 DEF Sound, HelperPcs
    <3> QED
      BY <1>m, <2>1, <3>1, <3>2, <3>3
  <2> QED
    BY <1>7, <1>e, <2>1, <2>2 DEF Load
<1>8. ASSUME NEW t \in Threads, Compare(t) PROVE Goal
  BY <1>0, <1>8, <1>k, <1>p DEF Compare
<1>9. ASSUME NEW t \in Threads, Assign(t) PROVE Goal
  <2>1. act[t].pc \in {"assign", "assignSame"} /\ t \in Actors
    BY <1>0, <1>9 DEF Assign
  <2>2. CASE act' = [act EXCEPT ![t].pc = "walk", ![t].due = rec, ![t].seen = {}]
    <3> DEFINE x == [act[t] EXCEPT !.pc = "walk", !.due = rec, !.seen = {}]
    <3>1. x \in Actor /\ x.pc = "walk" /\ x.at = "none"
      <4>1. act[t] \in Actor /\ act[t].at = "none"
        BY <1>0, <2>1 DEF Sound
      <4>2. rec \in SUBSET UserIds
        BY <1>0
      <4> QED
        BY <1>p, <4>1, <4>2 DEF Actor
    <3>2. act' = [act EXCEPT ![t] = x]
      BY <1>0, <2>2
    <3> HIDE DEF x
    <3>3. Sound(x, ids')
      BY <3>1 DEF Sound, HelperPcs
    <3> QED
      BY <1>m, <2>1, <3>1, <3>2, <3>3
  <2> QED
    BY <1>9, <1>e, <2>1, <2>2 DEF Assign
<1>10. ASSUME NEW t \in Threads, EndWalk(t) PROVE Goal
  BY <1>0, <1>10, <1>e DEF EndWalk
\* write_for_user
<1>w. ASSUME NEW a \in Actors, NEW u \in UserIds, u \in ids', NEW h \in Hook,
             NEW ret \in {"walk", "record", "hup"}, WriteForUser(a, u, h, ret),
             act[a].pc \notin {"write", "rename"}
      PROVE  Goal
  <2> DEFINE x == [act[a] EXCEPT !.pc = "open", !.user = u, !.hook = h, !.ret = ret]
  <2>1. act[a] \in Actor /\ act[a].at = "none"
    BY <1>0, <1>w DEF Sound
  <2>2. x \in Actor /\ x.pc = "open" /\ x.user = u /\ x.at = "none"
    BY <1>p, <2>1 DEF Actor
  <2>3. act' = [act EXCEPT ![a] = x]
    BY <1>0, <1>w DEF WriteForUser
  <2> HIDE DEF x
  <2>4. Sound(x, ids')
    BY <1>w, <2>2 DEF Sound, HelperPcs
  <2> QED
    BY <1>m, <2>2, <2>3, <2>4
<1>11. ASSUME NEW t \in Threads, NEW u \in UserIds, Visit(t, u) PROVE Goal
  <2>1. PICK h \in ReadConfig(t) :
           act' = [act EXCEPT ![t].pc = "open", ![t].user = u, ![t].hook = h,
                              ![t].ret = "walk", ![t].seen = @ \cup {u}]
    BY <1>11 DEF Visit
  <2> DEFINE x == [act[t] EXCEPT !.pc = "open", !.user = u, !.hook = h, !.ret = "walk",
                                 !.seen = act[t].seen \cup {u}]
  <2>2. act[t] \in Actor /\ act[t].at = "none" /\ u \in ids' /\ h \in Hook /\ t \in Actors
    BY <1>0, <1>11, <1>h DEF Sound, Visit
  <2>3. x \in Actor /\ x.pc = "open" /\ x.user = u /\ x.at = "none"
    <3>1. act[t].seen \cup {u} \in SUBSET UserIds
      BY <2>2 DEF Actor
    <3> QED
      BY <1>p, <2>2, <3>1 DEF Actor
  <2>4. act' = [act EXCEPT ![t] = x]
    BY <1>0, <2>1
  <2> HIDE DEF x
  <2>5. Sound(x, ids')
    BY <2>2, <2>3 DEF Sound, HelperPcs
  <2> QED
    BY <1>m, <2>2, <2>3, <2>4, <2>5
<1>12. ASSUME NEW t \in Threads, CreateUseradd(t) PROVE Goal
  <2>1. PICK u \in UserIds \ ids :
           /\ ids' = ids \cup {u}
           /\ \/ \E h \in ReadConfig(t) : WriteForUser(t, u, h, "record")
              \/ Return(t)
    BY <1>12 DEF CreateUseradd
  <2>2. act[t].pc = "useradd" /\ u \in ids' /\ t \in Actors
    BY <1>0, <1>12, <2>1 DEF CreateUseradd
  <2> QED
    BY <1>h, <1>r, <1>w, <2>1, <2>2
<1>13. ASSUME NEW t \in Threads, CreateRecord(t) PROVE Goal
  BY <1>0, <1>13, <1>r DEF CreateRecord
<1>14. ASSUME NEW t \in Threads, DeleteUnlink(t) PROVE Goal
  <2>1. PICK u \in ids : act' = [act EXCEPT ![t].pc = "userdel", ![t].user = u] \/ Return(t)
    BY <1>14 DEF DeleteUnlink
  <2>2. CASE act' = [act EXCEPT ![t].pc = "userdel", ![t].user = u]
    <3> DEFINE x == [act[t] EXCEPT !.pc = "userdel", !.user = u]
    <3>1. act[t] \in Actor /\ act[t].at = "none" /\ u \in ids' /\ u \in UserIds /\ t \in Actors
      BY <1>0, <1>14 DEF Sound, DeleteUnlink
    <3>2. x \in Actor /\ x.pc = "userdel" /\ x.user = u /\ x.at = "none"
      BY <1>p, <3>1 DEF Actor
    <3>3. act' = [act EXCEPT ![t] = x]
      BY <1>0, <2>2
    <3> HIDE DEF x
    <3>4. Sound(x, ids')
      BY <3>1, <3>2 DEF Sound, HelperPcs
    <3> QED
      BY <1>m, <3>1, <3>2, <3>3, <3>4
  <2> QED
    BY <1>0, <1>r, <2>1, <2>2
<1>15. ASSUME NEW t \in Threads, DeleteAccount(t) PROVE Goal
  <2>1. act[t].pc = "userdel" /\ Goto(t, "cleanup") /\ t \in Actors
    BY <1>0, <1>15 DEF DeleteAccount
  <2>2. act[t].user \in ids'
    BY <1>0, <2>1 DEF Sound
  <2> QED
    BY <1>k, <1>p, <2>1, <2>2
<1>16. ASSUME NEW t \in Threads, DeleteState(t) PROVE Goal
  <2> DEFINE f == [b \in Actors |-> Unlinked(act[b], act[t].user, {"tmp", "run"})]
  <2>1. \A b \in Actors : f[b] \in Actor /\ Sound(f[b], ids')
    <3>1. \A b \in Actors : Sound(act[b], ids')
      BY <1>0 DEF Sound
    <3> QED
      BY <1>0, <3>1, MovedSound
  <2>2. act' = [b \in Actors |-> IF b = t THEN Idle ELSE f[b]] \/ Return(t)
    BY <1>16 DEF DeleteState
  <2> HIDE DEF f
  <2> QED
    BY <1>0, <1>r, <2>1, <2>2, Empty, RestingSound
\* a command that starts or goes on, with another webhook in hand
<1>c. ASSUME NEW p \in Procs, NEW pc \in {"replace", "authrecord"}, NEW h \in Hook, act[p].pc = "idle",
             act' = [act EXCEPT ![p].pc = pc, ![p].hook = h]
      PROVE  Goal
  <2> DEFINE x == [act[p] EXCEPT !.pc = pc, !.hook = h]
  <2>1. act[p] \in Actor /\ act[p].at = "none" /\ p \in Actors
    BY <1>0, <1>c DEF Sound
  <2>2. x \in Actor /\ x.pc = pc /\ x.at = "none"
    BY <1>p, <2>1 DEF Actor
  <2>3. act' = [act EXCEPT ![p] = x]
    BY <1>0, <1>c
  <2> HIDE DEF x
  <2>4. Sound(x, ids')
    BY <2>2 DEF Sound, HelperPcs
  <2> QED
    BY <1>m, <2>1, <2>2, <2>3, <2>4
<1>17. ASSUME NEW p \in Procs, NEW url \in Urls, WebhookSet(p, url) PROVE Goal
  <2>1. PICK secret \in Secrets \cup {conf.secret} :
           act' = [act EXCEPT ![p].pc = "replace", ![p].hook = [url |-> url, secret |-> secret]]
    BY <1>17 DEF WebhookSet
  <2>2. [url |-> url, secret |-> secret] \in Hook
    BY <1>0 DEF Hook
  <2> QED
    BY <1>17, <1>c, <2>1, <2>2 DEF WebhookSet, MayChange
<1>18. ASSUME NEW p \in Procs, WebhookClear(p) \/ AuthCreate(p) PROVE Goal
  BY <1>0, <1>18, <1>c, Empty DEF WebhookClear, AuthCreate, MayChange
<1>19. ASSUME NEW p \in Procs, WebhookReplace(p) PROVE Goal
  BY <1>0, <1>19, <1>k, <1>p, <1>r DEF WebhookReplace
<1>20. ASSUME NEW p \in Procs, AuthRecord(p) PROVE Goal
  <2>1. PICK u \in UserIds \ ids :
           /\ ids' = ids \cup {u}
           /\ \/ act' = [act EXCEPT ![p].pc = "account", ![p].user = u]
              \/ Return(p)
    BY <1>20 DEF AuthRecord
  <2>2. CASE act' = [act EXCEPT ![p].pc = "account", ![p].user = u]
    <3> DEFINE x == [act[p] EXCEPT !.pc = "account", !.user = u]
    <3>1. act[p] \in Actor /\ act[p].at = "none" /\ u \in ids' /\ p \in Actors
      BY <1>0, <1>20, <2>1 DEF Sound, AuthRecord
    <3>2. x \in Actor /\ x.pc = "account" /\ x.user = u /\ x.at = "none"
      BY <1>p, <3>1 DEF Actor
    <3>3. act' = [act EXCEPT ![p] = x]
      BY <1>0, <2>2
    <3> HIDE DEF x
    <3>4. Sound(x, ids')
      BY <3>1, <3>2 DEF Sound, HelperPcs
    <3> QED
      BY <1>m, <3>1, <3>2, <3>3, <3>4
  <2> QED
    BY <1>0, <1>r, <2>1, <2>2
<1>21. ASSUME NEW p \in Procs, AuthAccount(p) PROVE Goal
  <2>1. /\ act[p].pc = "account" /\ p \in Actors
        /\ WriteForUser(p, act[p].user, act[p].hook, "hup") \/ Goto(p, "hup")
    BY <1>0, <1>21 DEF AuthAccount
  <2>2. act[p].user \in UserIds /\ act[p].user \in ids' /\ act[p].hook \in Hook
    BY <1>0, <1>a, <2>1 DEF Sound
  <2> QED
    BY <1>k, <1>p, <1>w, <2>1, <2>2
<1>22. ASSUME NEW p \in Procs, Sighup(p) PROVE Goal
  BY <1>0, <1>22, <1>r DEF Sighup
<1>23. CASE Restart
  <2>1. \A b \in Actors : Sound(act[b], ids')
    BY <1>0 DEF Sound
  <2> QED
    BY <1>0, <1>23, <2>1, Empty, RestingSound DEF Restart
<1> QED
  BY <1>1, <1>2, <1>3, <1>4, <1>5, <1>6, <1>7, <1>8, <1>9, <1>10, <1>11, <1>12, <1>13, <1>14, <1>15,
     <1>16, <1>17, <1>18, <1>19, <1>20, <1>21, <1>22, <1>23 DEF Next, Helper

\* What HelperWrite may leave in a file: the webhook, whole, or a torn text.
LEMMA Writes ==
  ASSUME NEW f \in [UserIds -> File], NEW u \in UserIds, NEW h \in Hook,
         NEW g \in {[f EXCEPT ![u] = {c}] : c \in UNION {Overwrite(d, h) : d \in f[u]}}
  PROVE  /\ g \in [UserIds -> File]
         /\ g[u] = {{h}} \/ g[u] = {Hook}
         /\ \A v \in UserIds \ {u} : g[v] = f[v]
<1>1. PICK c \in UNION {Overwrite(d, h) : d \in f[u]} : g = [f EXCEPT ![u] = {c}]
  OBVIOUS
<1>2. c = {h} \/ c = Hook
  BY DEF Overwrite
<1> QED
  BY <1>1, <1>2, Empty

\* Files, users and the configuration stay typed in every step.
LEMMA FilesStep ==
  ASSUME TypeInv, Next
  PROVE  /\ conf' \in Hook /\ cfg' \in Hook /\ held' \subseteq Hook
         /\ hup' \in BOOLEAN /\ broken' \in BOOLEAN /\ faults' \in 0..MaxFaults
         /\ rec' \subseteq ids' /\ acct' \subseteq ids' /\ ids' \subseteq UserIds /\ ids \subseteq ids'
         /\ missed' \subseteq UserIds
         /\ run' \in [UserIds -> File] /\ tmp' \in [UserIds -> File]
<1> DEFINE Goal ==
      /\ conf' \in Hook /\ cfg' \in Hook /\ held' \subseteq Hook
      /\ hup' \in BOOLEAN /\ broken' \in BOOLEAN /\ faults' \in 0..MaxFaults
      /\ rec' \subseteq ids' /\ acct' \subseteq ids' /\ ids' \subseteq UserIds /\ ids \subseteq ids'
      /\ missed' \subseteq UserIds
      /\ run' \in [UserIds -> File] /\ tmp' \in [UserIds -> File]
<1> SUFFICES Goal
  OBVIOUS
<1>0. /\ act \in [Actors -> Actor] /\ \A b \in Actors : Sound(act[b], ids)
      /\ conf \in Hook /\ cfg \in Hook /\ rec \subseteq ids /\ acct \subseteq ids
      /\ held \subseteq Hook /\ hup \in BOOLEAN /\ broken \in BOOLEAN /\ faults \in 0..MaxFaults
      /\ ids \subseteq UserIds /\ Threads \subseteq Actors /\ Procs \subseteq Actors
      /\ missed \subseteq UserIds /\ run \in [UserIds -> File] /\ tmp \in [UserIds -> File]
  BY DEF TypeInv, State, Actors
<1>t. run \in [UserIds -> File] /\ tmp \in [UserIds -> File]
  BY <1>0
<1>u. ASSUME NEW a \in Actors,
             act[a].pc \in HelperPcs \cup {"record", "userdel", "cleanup", "account"}
      PROVE  act[a].user \in ids /\ act[a].user \in UserIds
  BY <1>0, <1>u DEF Sound
<1>h. \A a \in Actors : act[a].hook \in Hook
  BY <1>0 DEF Actor
<1>f. ASSUME NoFault \/ \E k : Fault(k) PROVE faults' \in 0..MaxFaults
  BY <1>0, <1>f, RuntimeAssumption DEF NoFault, Fault
<1>e. ASSUME NEW f \in [UserIds -> File], NEW g, NEW u \in UserIds, NEW c \in {{}, {{}}},
             g = [f EXCEPT ![u] = c] \/ g = f
      PROVE  g \in [UserIds -> File]
  BY <1>e, Empty
<1>2. ASSUME NEW a \in Actors, Helper(a)
      PROVE  /\ UNCHANGED <<conf, held, people, daemon>> /\ missed' \subseteq UserIds
             /\ faults' \in 0..MaxFaults
             /\ run' \in [UserIds -> File] /\ tmp' \in [UserIds -> File]
  <2>1. act[a].user \in UserIds /\ act[a].hook \in Hook
    BY <1>2, <1>h, <1>u DEF Helper, HelperOpen, HelperWrite, HelperRename, HelperFail, HelperPcs
  <2>2. CASE HelperOpen(a)
    <3>1. UNCHANGED <<conf, run, held, people, daemon>> /\ (NoFault \/ \E k : Fault(k))
      BY <2>2 DEF HelperOpen
    <3>2. missed' \subseteq UserIds
      BY <1>0, <2>1, <2>2 DEF HelperOpen
    <3>3. tmp' = [tmp EXCEPT ![act[a].user] = {{}}] \/ tmp' = tmp
      BY <2>2 DEF HelperOpen
    <3>4. tmp' \in [UserIds -> File]
      BY <1>t, <1>e, <2>1, <3>3
    <3>5. faults' \in 0..MaxFaults
      BY <1>f, <3>1
    <3> QED
      BY <1>t, <3>1, <3>2, <3>4, <3>5
  <2>3. CASE HelperWrite(a)
    <3> DEFINE Written(f) == {[f EXCEPT ![act[a].user] = {c}] :
                                 c \in UNION {Overwrite(d, act[a].hook) : d \in f[act[a].user]}}
    <3>1. UNCHANGED <<conf, held, faults, missed, people, daemon>>
      BY <2>3 DEF HelperWrite
    <3>2. (tmp' \in Written(tmp) \/ tmp' = tmp) /\ (run' \in Written(run) \/ run' = run)
      BY <2>3 DEF HelperWrite
    <3>3. ASSUME NEW f \in [UserIds -> File], NEW g \in Written(f) PROVE g \in [UserIds -> File]
      <4>1. PICK c \in UNION {Overwrite(d, act[a].hook) : d \in f[act[a].user]} :
               g = [f EXCEPT ![act[a].user] = {c}]
        BY <3>3
      <4>2. c = {act[a].hook} \/ c = Hook
        BY <4>1 DEF Overwrite
      <4> QED
        BY <2>1, <4>1, <4>2, Empty
    <3> HIDE DEF Written
    <3>4. run' \in [UserIds -> File] /\ tmp' \in [UserIds -> File]
      BY <1>t, <3>2, <3>3
    <3> QED
      BY <1>0, <3>1, <3>4
  <2>4. CASE HelperRename(a)
    BY <1>0, <1>e, <2>1, <2>4 DEF HelperRename
  <2>5. CASE HelperFail(a)
    <3>1. /\ UNCHANGED <<conf, run, held, people, daemon>> /\ missed' = missed \cup {act[a].user}
          /\ NoFault \/ \E k : Fault(k)
          /\ tmp' = [tmp EXCEPT ![act[a].user] = {}] \/ tmp' = tmp
      BY <2>5 DEF HelperFail
    <3>2. tmp' \in [UserIds -> File]
      BY <1>t, <1>e, <2>1, <3>1
    <3>3. faults' \in 0..MaxFaults
      BY <1>f, <3>1
    <3>4. missed' \subseteq UserIds
      BY <1>0, <2>1, <3>1
    <3> QED
      BY <1>t, <3>1, <3>2, <3>3, <3>4
  <2> QED
    BY <1>2, <2>2, <2>3, <2>4, <2>5 DEF Helper
<1>3. ASSUME NEW a \in Actors, Helper(a) \/ NoIdLeft(a) PROVE Goal
  BY <1>0, <1>2, <1>3 DEF NoIdLeft, people, daemon, files
<1>4. ASSUME NEW t \in Threads,
             (\E next \in ToolPcs : Request(t, next)) \/ Compare(t) \/ EndWalk(t)
                \/ \E u \in UserIds : Visit(t, u)
      PROVE  Goal
  BY <1>0, <1>4 DEF Request, Compare, EndWalk, Visit, people, daemon, files
<1>5. ASSUME NEW t \in Threads, Load(t) PROVE Goal
  BY <1>0, <1>5, <1>f DEF Load, people, files
<1>6. ASSUME NEW t \in Threads, Assign(t) PROVE Goal
  BY <1>0, <1>6, <1>f, <1>h DEF Assign, people
<1>7. ASSUME NEW t \in Threads, CreateUseradd(t) PROVE Goal
  <2>1. PICK u \in UserIds \ ids :
           /\ ids' = ids \cup {u} /\ acct' \subseteq acct \cup {u}
           /\ NoFault \/ \E k : Fault(k)
    BY <1>7 DEF CreateUseradd, Useradd, UseraddFails, PrepareFails
  <2>2. UNCHANGED <<conf, rec, held, files, daemon>>
    BY <1>7 DEF CreateUseradd
  <2> QED
    BY <1>0, <1>f, <2>1, <2>2 DEF files, daemon
<1>8. ASSUME NEW t \in Threads, CreateRecord(t) PROVE Goal
  <2>1. rec' \subseteq rec \cup {act[t].user} /\ act[t].user \in ids /\ (NoFault \/ \E k : Fault(k))
    BY <1>0, <1>8, <1>u DEF CreateRecord
  <2>2. UNCHANGED <<conf, acct, ids, held, files, daemon>>
    BY <1>8 DEF CreateRecord
  <2> QED
    BY <1>0, <1>f, <2>1, <2>2 DEF files, daemon
<1>9. ASSUME NEW t \in Threads, DeleteUnlink(t) PROVE Goal
  <2>1. rec' \subseteq rec /\ missed' \subseteq missed /\ (NoFault \/ \E k : Fault(k))
    BY <1>9 DEF DeleteUnlink
  <2>2. UNCHANGED <<conf, acct, ids, run, tmp, held, daemon>>
    BY <1>9 DEF DeleteUnlink
  <2> QED
    BY <1>0, <1>f, <2>1, <2>2 DEF daemon
<1>10. ASSUME NEW t \in Threads, DeleteAccount(t) PROVE Goal
  <2>1. acct' \subseteq acct /\ (NoFault \/ \E k : Fault(k))
    BY <1>10 DEF DeleteAccount, Userdel
  <2>2. UNCHANGED <<conf, rec, ids, held, files, daemon>>
    BY <1>10 DEF DeleteAccount
  <2> QED
    BY <1>0, <1>f, <2>1, <2>2 DEF files, daemon
<1>11. ASSUME NEW t \in Threads, DeleteState(t) PROVE Goal
  <2>1. act[t].user \in UserIds
    BY <1>0, <1>11, <1>u DEF DeleteState
  <2>2. /\ run' = [run EXCEPT ![act[t].user] = {}] \/ run' = run
        /\ tmp' = [tmp EXCEPT ![act[t].user] = {}] \/ tmp' = tmp
        /\ NoFault \/ \E k : Fault(k)
    BY <1>11 DEF DeleteState
  <2>3. UNCHANGED <<conf, held, missed, people, daemon>>
    BY <1>11 DEF DeleteState
  <2>4. run' \in [UserIds -> File] /\ tmp' \in [UserIds -> File]
    BY <1>t, <1>e, <2>1, <2>2
  <2>5. faults' \in 0..MaxFaults
    BY <1>f, <2>2
  <2> QED
    BY <1>0, <2>3, <2>4, <2>5 DEF people, daemon
<1>12. ASSUME NEW p \in Procs,
              (\E url \in Urls : WebhookSet(p, url)) \/ WebhookClear(p) \/ AuthCreate(p) \/ Sighup(p)
       PROVE  Goal
  BY <1>0, <1>12 DEF WebhookSet, WebhookClear, AuthCreate, Sighup, people, daemon, files
<1>13. ASSUME NEW p \in Procs, WebhookReplace(p) PROVE Goal
  <2>1. conf' \in Hook /\ held' \subseteq held \cup {conf'} /\ (NoFault \/ \E k : Fault(k))
    BY <1>0, <1>13, <1>h DEF WebhookReplace
  <2>2. UNCHANGED <<files, people, daemon>>
    BY <1>13 DEF WebhookReplace
  <2> QED
    BY <1>0, <1>f, <2>1, <2>2 DEF files, people, daemon
<1>14. ASSUME NEW p \in Procs, AuthRecord(p) PROVE Goal
  <2>1. PICK u \in UserIds \ ids :
           /\ ids' = ids \cup {u} /\ rec' \subseteq rec \cup {u}
           /\ NoFault \/ \E k : Fault(k)
    BY <1>14 DEF AuthRecord
  <2>2. UNCHANGED <<conf, acct, held, files, daemon>>
    BY <1>14 DEF AuthRecord
  <2> QED
    BY <1>0, <1>f, <2>1, <2>2 DEF files, daemon
<1>15. ASSUME NEW p \in Procs, AuthAccount(p) PROVE Goal
  <2>1. act[p].user \in ids
    BY <1>0, <1>15, <1>u DEF AuthAccount
  <2>2. acct' \subseteq acct \cup {act[p].user} /\ missed' \subseteq missed \cup {act[p].user}
        /\ (NoFault \/ \E k : Fault(k))
    BY <1>15 DEF AuthAccount, Useradd, UseraddFails, PrepareFails
  <2>3. UNCHANGED <<conf, rec, ids, run, tmp, held, daemon>>
    BY <1>15 DEF AuthAccount
  <2> QED
    BY <1>0, <1>f, <2>1, <2>2, <2>3 DEF daemon
<1>16. CASE Restart
  BY <1>0, <1>16, <1>f DEF Restart, files, people
<1> QED
  BY <1>3, <1>4, <1>5, <1>6, <1>7, <1>8, <1>9, <1>10, <1>11, <1>12, <1>13, <1>14, <1>15, <1>16
  DEF Next

\* TypeInv holds in every reachable state.
LEMMA TypeInvariant == Spec => []TypeInv
<1>1. Init => TypeInv
  <2> SUFFICES ASSUME Init PROVE TypeInv
    OBVIOUS
  <2>1. run \in [UserIds -> File] /\ tmp \in [UserIds -> File]
    BY Empty DEF Init
  <2>2. faults \in 0..MaxFaults
    BY RuntimeAssumption DEF Init
  <2>3. act \in [Actors -> Actor]
    BY Empty DEF Init
  <2>4. State
    BY <2>1, <2>2, <2>3, Empty, RuntimeAssumption DEF Init, State
  <2> QED
    BY <2>4, RestingSound DEF Init, TypeInv
<1>2. TypeInv /\ [Next]_vars => TypeInv'
  <2>1. ASSUME TypeInv, Next PROVE TypeInv'
    BY <2>1, FilesStep, ActorsStep DEF TypeInv, State
  <2>2. TypeInv /\ UNCHANGED vars => TypeInv'
    BY DEF vars, TypeInv, State
  <2> QED
    BY <2>1, <2>2
<1> QED
  BY <1>1, <1>2, PTL DEF Spec

\* The files, the configuration and the actors are well typed in every reachable state,
\* and a helper has its file open exactly between its open and its exit, with any number
\* of threads and commands, and whatever fails.
THEOREM TypeCorrect == Spec => []TypeOK
<1>1. TypeInv => TypeOK
  BY DEF TypeInv, State, Sound, TypeOK, Actor
<1> QED
  BY <1>1, TypeInvariant, PTL

-----------------------------------------------------------------------------
(* With one HTTP thread, nothing but pairs of mcp.json goes round *)

OneThread == \A s, t \in Threads : s = t

\* where an actor's webhook is one it read from mcp.json or config_
Carrying == {"compare", "assign", "assignSame", "authrecord", "account"} \cup HelperPcs

Carries(x, known) == x.pc \in Carrying => x.hook \in known
Whole(file, known) == \A h \in Hook : file = {{h}} => h \in known

PairInv ==
    /\ conf \in held /\ cfg \in held /\ NoHook \in held
    /\ \A a \in Actors : Carries(act[a], held)
    /\ \A u \in UserIds : Whole(run[u], held) /\ Whole(tmp[u], held)

\* With one thread, nobody meets an assignment to config_.
LEMMA ConfigRead ==
  ASSUME OneThread, NEW t \in Threads PROVE ReadConfig(t) = {cfg}
BY DEF OneThread, ReadConfig

\* A step that moves actor a alone, to a webhook mcp.json has held.
LEMMA OneCarries ==
  ASSUME \A b \in Actors : Carries(act[b], held), held \subseteq held', NEW a \in Actors,
         \A b \in Actors \ {a} : act'[b].pc = act[b].pc /\ act'[b].hook = act[b].hook,
         Carries(act'[a], held')
  PROVE  \A b \in Actors : Carries(act'[b], held')
BY DEF Carries

\* The same where act' is a function changed at a.
LEMMA OneCarriesAt ==
  ASSUME act \in [Actors -> Actor], \A b \in Actors : Carries(act[b], held),
         held \subseteq held', NEW a \in Actors, NEW x, act' = [act EXCEPT ![a] = x],
         Carries(x, held')
  PROVE  \A b \in Actors : Carries(act'[b], held')
<1>1. act'[a] = x /\ \A b \in Actors \ {a} : act'[b] = act[b]
  OBVIOUS
<1> QED
  BY <1>1, OneCarries

\* The helper's steps carry no other webhook.
LEMMA HelperCarries ==
  ASSUME TypeInv, PairInv, NEW a \in Actors, Helper(a)
  PROVE  \A b \in Actors : Carries(act'[b], held')
<1>0. /\ act \in [Actors -> Actor] /\ act[a] \in Actor /\ act[a].user \in ids
      /\ \A b \in Actors : Sound(act[b], ids)
      /\ \A b \in Actors : Carries(act[b], held)
      /\ act[a].pc \in HelperPcs /\ act[a].hook \in held
      /\ NoHook \in held
  <2>1. act[a].pc \in HelperPcs
    BY DEF Helper, HelperOpen, HelperWrite, HelperRename, HelperFail, HelperPcs
  <2> QED
    BY <2>1 DEF TypeInv, State, Sound, PairInv, Carries, Carrying
<1>1. held' = held
  BY DEF Helper, HelperOpen, HelperWrite, HelperRename, HelperFail
<1>2. Carries(Exited(act[a]), held)
  BY <1>0, ExitSound DEF Carries
<1>3. ASSUME act' = [act EXCEPT ![a] = Exited(act[a])]
      PROVE  \A b \in Actors : Carries(act'[b], held')
  BY <1>0, <1>1, <1>2, <1>3, OneCarriesAt
<1>4. CASE HelperOpen(a)
  <2>1. CASE act' = [act EXCEPT ![a].pc = "write", ![a].at = "tmp"]
    <3>1. act'[a].hook = act[a].hook /\ \A b \in Actors \ {a} : act'[b] = act[b]
      BY <1>0, <2>1 DEF Actor
    <3> QED
      BY <1>0, <1>1, <3>1, OneCarries DEF Carries
  <2> QED
    BY <1>3, <1>4, <2>1 DEF HelperOpen
<1>5. CASE HelperWrite(a)
  <2>1. act'[a].hook = act[a].hook /\ \A b \in Actors \ {a} : act'[b] = act[b]
    BY <1>0, <1>5 DEF HelperWrite, Goto, Actor
  <2> QED
    BY <1>0, <1>1, <2>1, OneCarries DEF Carries
<1>6. CASE HelperRename(a)
  <2> DEFINE f == [b \in Actors |-> Renamed(act[b], act[a].user)]
  <2>1. \A b \in Actors : f[b].pc = act[b].pc /\ f[b].hook = act[b].hook
    BY <1>0, MovedSound
  <2>2. act'[a] = Exited(act[a]) /\ \A b \in Actors \ {a} : act'[b] = f[b]
    BY <1>6 DEF HelperRename
  <2> HIDE DEF f
  <2> QED
    BY <1>0, <1>1, <1>2, <2>1, <2>2, OneCarries
<1>7. CASE HelperFail(a)
  <2>1. CASE act' = [b \in Actors |-> IF b = a THEN Exited(act[b])
                                      ELSE Unlinked(act[b], act[a].user, {"tmp"})]
    <3>1. act'[a] = Exited(act[a])
          /\ \A b \in Actors \ {a} : act'[b] = Unlinked(act[b], act[a].user, {"tmp"})
      BY <2>1
    <3>2. \A b \in Actors \ {a} : act'[b].pc = act[b].pc /\ act'[b].hook = act[b].hook
      BY <1>0, <3>1, MovedSound
    <3> QED
      BY <1>0, <1>1, <1>2, <3>1, <3>2, OneCarries
  <2> QED
    BY <1>3, <1>7, <2>1 DEF HelperFail
<1> QED
  BY <1>4, <1>5, <1>6, <1>7 DEF Helper

\* Neither do the other steps of threads and commands, with one thread.
LEMMA ActorsCarry ==
  ASSUME TypeInv, PairInv, OneThread, Next
  PROVE  /\ \A b \in Actors : Carries(act'[b], held')
         /\ held \subseteq held' /\ conf' \in held' /\ cfg' \in held'
<1> DEFINE Goal == \A b \in Actors : Carries(act'[b], held')
           Kept == held \subseteq held' /\ conf' \in held' /\ cfg' \in held'
           Others(a) == \A b \in Actors \ {a} : act'[b] = act[b]
<1>0. /\ act \in [Actors -> Actor] /\ \A b \in Actors : Sound(act[b], ids)
      /\ \A b \in Actors : Carries(act[b], held)
      /\ conf \in held /\ cfg \in held /\ NoHook \in held
      /\ Threads \subseteq Actors /\ Procs \subseteq Actors
  BY DEF TypeInv, State, PairInv, Actors
<1>c. ASSUME UNCHANGED <<conf, held, cfg>> PROVE Kept
  BY <1>0, <1>c
<1>r. ASSUME NEW a \in Actors, Return(a), held' = held PROVE Goal
  <2>1. act' = [act EXCEPT ![a] = Idle] /\ Carries(Idle, held') /\ held \subseteq held'
    BY <1>0, <1>r, Empty DEF Return, Carries
  <2> QED
    BY <1>0, <2>1, OneCarriesAt
<1>e. ASSUME NEW a \in Actors, EndReload(a), held' = held PROVE Goal
  <2>1. act'[a].hook = NoHook /\ Others(a)
    BY <1>0, <1>e, ReloadEnds
  <2> QED
    BY <1>0, <1>e, <2>1, OneCarries DEF Carries
<1>g. ASSUME NEW a \in Actors, NEW pc, Goto(a, pc), held' = held,
             pc \notin Carrying \/ act[a].pc \in Carrying
      PROVE  Goal
  <2>1. act'[a].hook = act[a].hook /\ act'[a].pc = pc /\ Others(a)
    BY <1>0, <1>g DEF Goto, Actor
  <2> QED
    BY <1>0, <1>g, <2>1, OneCarries DEF Carries
<1>h. ASSUME NEW a \in Actors, NEW h \in held, act'[a].hook = h, Others(a), held' = held
      PROVE  Goal
  BY <1>0, <1>h, OneCarries DEF Carries
<1>2. ASSUME NEW a \in Actors, Helper(a) PROVE Goal /\ Kept
  <2>1. UNCHANGED <<conf, held, cfg>>
    BY <1>2 DEF Helper, HelperOpen, HelperWrite, HelperRename, HelperFail, daemon
  <2> QED
    BY <1>2, <1>c, <2>1, HelperCarries
<1>3. ASSUME NEW a \in Actors, NoIdLeft(a) PROVE Goal /\ Kept
  BY <1>3, <1>c, <1>r DEF NoIdLeft, daemon
<1>4. ASSUME NEW t \in Threads, NEW next \in ToolPcs, Request(t, next) PROVE Goal /\ Kept
  <2>1. act'[t].hook = NoHook /\ Others(t)
    BY <1>0, <1>4, Empty DEF Request, Idle
  <2> QED
    BY <1>0, <1>4, <1>c, <1>h, <2>1 DEF Request
<1>5. ASSUME NEW t \in Threads, Load(t) PROVE Goal /\ Kept
  <2>1. CASE act' = [act EXCEPT ![t].pc = "compare", ![t].hook = conf]
    <3>1. act'[t].hook = conf /\ Others(t)
      BY <1>0, <2>1 DEF Actor
    <3> QED
      BY <1>0, <1>5, <1>c, <1>h, <3>1 DEF Load
  <2> QED
    BY <1>0, <1>5, <1>c, <1>e, <2>1 DEF Load
<1>6. ASSUME NEW t \in Threads, Compare(t) PROVE Goal /\ Kept
  <2>1. /\ Goto(t, IF act[t].hook # cfg THEN "assign" ELSE "assignSame")
        /\ act[t].pc \in Carrying /\ t \in Actors
        /\ UNCHANGED <<conf, held, cfg>>
    BY <1>0, <1>6 DEF Compare, Carrying, daemon
  <2> QED
    BY <1>c, <1>g, <2>1
<1>7. ASSUME NEW t \in Threads, Assign(t) PROVE Goal /\ Kept
  <2>1. act[t].hook \in held /\ held' = held /\ conf' = conf /\ cfg' = act[t].hook /\ t \in Actors
    BY <1>0, <1>7 DEF Assign, Carries, Carrying
  <2>2. Kept
    BY <1>0, <2>1
  <2>3. CASE act' = [act EXCEPT ![t].pc = "walk", ![t].due = rec, ![t].seen = {}]
    <3>1. act'[t].hook = act[t].hook /\ Others(t)
      BY <1>0, <2>1, <2>3 DEF Actor
    <3> QED
      BY <1>h, <2>1, <2>2, <3>1
  <2>4. CASE EndReload(t)
    BY <1>e, <2>1, <2>2, <2>4
  <2> QED
    BY <1>7, <2>3, <2>4 DEF Assign
<1>8. ASSUME NEW t \in Threads, NEW u \in UserIds, Visit(t, u) PROVE Goal /\ Kept
  <2>1. UNCHANGED <<conf, held, cfg>>
    BY <1>8 DEF Visit, daemon
  <2>2. act'[t].hook = cfg /\ Others(t) /\ t \in Actors
    <3>1. PICK h \in ReadConfig(t) :
             act' = [act EXCEPT ![t].pc = "open", ![t].user = u, ![t].hook = h,
                                ![t].ret = "walk", ![t].seen = @ \cup {u}]
      BY <1>8 DEF Visit
    <3>2. h = cfg
      BY <3>1, ConfigRead
    <3> QED
      BY <1>0, <3>1, <3>2 DEF Actor
  <2> QED
    BY <1>0, <1>c, <1>h, <2>1, <2>2
<1>9. ASSUME NEW t \in Threads, EndWalk(t) PROVE Goal /\ Kept
  BY <1>0, <1>9, <1>c, <1>e DEF EndWalk, daemon
<1>10. ASSUME NEW t \in Threads, CreateUseradd(t) PROVE Goal /\ Kept
  <2>1. UNCHANGED <<conf, held, cfg>> /\ t \in Actors
    BY <1>0, <1>10 DEF CreateUseradd, daemon
  <2>2. ASSUME NEW u, WriteForUser(t, u, cfg, "record") PROVE Goal
    <3>1. act'[t].hook = cfg /\ Others(t)
      BY <1>0, <2>1, <2>2 DEF WriteForUser, Actor
    <3> QED
      BY <1>0, <1>h, <2>1, <3>1
  <2>3. Return(t) \/ \E u : WriteForUser(t, u, cfg, "record")
    BY <1>10, ConfigRead DEF CreateUseradd
  <2> QED
    BY <1>c, <1>r, <2>1, <2>2, <2>3
<1>11. ASSUME NEW t \in Threads, CreateRecord(t) PROVE Goal /\ Kept
  BY <1>0, <1>11, <1>c, <1>r DEF CreateRecord, daemon
<1>12. ASSUME NEW t \in Threads, DeleteUnlink(t) PROVE Goal /\ Kept
  <2>1. UNCHANGED <<conf, held, cfg>> /\ t \in Actors
    BY <1>0, <1>12 DEF DeleteUnlink, daemon
  <2>2. ASSUME NEW u, act' = [act EXCEPT ![t].pc = "userdel", ![t].user = u] PROVE Goal
    <3>1. act'[t].pc = "userdel" /\ Others(t)
      BY <1>0, <2>1, <2>2 DEF Actor
    <3>2. Carries(act'[t], held')
      BY <3>1 DEF Carries, Carrying, HelperPcs
    <3> QED
      BY <1>0, <2>1, <3>1, <3>2, OneCarries
  <2> QED
    BY <1>12, <1>c, <1>r, <2>1, <2>2 DEF DeleteUnlink
<1>13. ASSUME NEW t \in Threads, DeleteAccount(t) PROVE Goal /\ Kept
  <2>1. UNCHANGED <<conf, held, cfg>> /\ t \in Actors /\ Goto(t, "cleanup")
    BY <1>0, <1>13 DEF DeleteAccount, daemon
  <2>2. "cleanup" \notin Carrying
    BY DEF Carrying, HelperPcs
  <2> QED
    BY <1>c, <1>g, <2>1, <2>2
<1>14. ASSUME NEW t \in Threads, DeleteState(t) PROVE Goal /\ Kept
  <2>1. UNCHANGED <<conf, held, cfg>> /\ t \in Actors
    BY <1>0, <1>14 DEF DeleteState, daemon
  <2>2. CASE act' = [b \in Actors |-> IF b = t THEN Idle
                                      ELSE Unlinked(act[b], act[t].user, {"tmp", "run"})]
    <3>1. act'[t] = Idle
          /\ \A b \in Actors \ {t} : act'[b] = Unlinked(act[b], act[t].user, {"tmp", "run"})
      BY <1>0, <2>2
    <3>2. \A b \in Actors \ {t} : act'[b].pc = act[b].pc /\ act'[b].hook = act[b].hook
      BY <1>0, <3>1, MovedSound
    <3> QED
      BY <1>0, <2>1, <3>1, <3>2, Empty, OneCarries DEF Carries
  <2> QED
    BY <1>14, <1>c, <1>r, <2>1, <2>2 DEF DeleteState
<1>15. ASSUME NEW p \in Procs, (\E url \in Urls : WebhookSet(p, url)) \/ WebhookClear(p)
       PROVE  Goal /\ Kept
  <2>1. UNCHANGED <<conf, held, cfg>> /\ p \in Actors
    BY <1>0, <1>15 DEF WebhookSet, WebhookClear, daemon
  <2>2. PICK h : act' = [act EXCEPT ![p].pc = "replace", ![p].hook = h]
    BY <1>15 DEF WebhookSet, WebhookClear
  <2>3. act'[p].pc = "replace" /\ Others(p)
    BY <1>0, <2>1, <2>2 DEF Actor
  <2>4. Carries(act'[p], held')
    BY <2>3 DEF Carries, Carrying, HelperPcs
  <2> QED
    BY <1>0, <1>c, <2>1, <2>3, <2>4, OneCarries
<1>16. ASSUME NEW p \in Procs, WebhookReplace(p) PROVE Goal /\ Kept
  <2>1. CASE /\ conf' = act[p].hook /\ held' = held \cup {conf'} /\ Goto(p, "hup")
    <3>1. act'[p].pc = "hup" /\ Others(p) /\ p \in Actors
      BY <1>0, <2>1 DEF Goto, Actor
    <3>2. Carries(act'[p], held') /\ held \subseteq held'
      BY <2>1, <3>1 DEF Carries, Carrying, HelperPcs
    <3>3. Goal
      BY <1>0, <3>1, <3>2, OneCarries
    <3> QED
      BY <1>0, <1>16, <2>1, <3>3 DEF WebhookReplace, daemon
  <2>2. CASE conf' = conf /\ held' = held /\ Return(p)
    BY <1>0, <1>16, <1>c, <1>r, <2>2 DEF WebhookReplace, daemon
  <2> QED
    BY <1>16, <2>1, <2>2 DEF WebhookReplace
<1>17. ASSUME NEW p \in Procs, AuthCreate(p) PROVE Goal /\ Kept
  <2>1. act'[p].hook = conf /\ Others(p) /\ p \in Actors
    BY <1>0, <1>17 DEF AuthCreate, Actor
  <2> QED
    BY <1>0, <1>17, <1>c, <1>h, <2>1 DEF AuthCreate, daemon
<1>18. ASSUME NEW p \in Procs, AuthRecord(p) PROVE Goal /\ Kept
  <2>1. UNCHANGED <<conf, held, cfg>> /\ p \in Actors /\ act[p].hook \in held
    BY <1>0, <1>18 DEF AuthRecord, daemon, Carries, Carrying
  <2>2. ASSUME NEW u, act' = [act EXCEPT ![p].pc = "account", ![p].user = u] PROVE Goal
    <3>1. act'[p].hook = act[p].hook /\ Others(p)
      BY <1>0, <2>1, <2>2 DEF Actor
    <3> QED
      BY <1>h, <2>1, <3>1
  <2> QED
    BY <1>18, <1>c, <1>r, <2>1, <2>2 DEF AuthRecord
<1>19. ASSUME NEW p \in Procs, AuthAccount(p) PROVE Goal /\ Kept
  <2>1. UNCHANGED <<conf, held, cfg>> /\ p \in Actors /\ act[p].hook \in held
        /\ act[p].pc \in Carrying
    BY <1>0, <1>19 DEF AuthAccount, daemon, Carries, Carrying
  <2>2. ASSUME NEW u, WriteForUser(p, u, act[p].hook, "hup") PROVE Goal
    <3>1. act'[p].hook = act[p].hook /\ Others(p)
      BY <1>0, <2>1, <2>2 DEF WriteForUser, Actor
    <3> QED
      BY <1>h, <2>1, <3>1
  <2> QED
    BY <1>19, <1>c, <1>g, <2>1, <2>2 DEF AuthAccount
<1>20. ASSUME NEW p \in Procs, Sighup(p) PROVE Goal /\ Kept
  BY <1>0, <1>20, <1>c, <1>r DEF Sighup
<1>21. CASE Restart
  <2>1. \A b \in Actors : act'[b] = Idle \/ act'[b] = act[b]
    BY <1>21 DEF Restart
  <2> QED
    BY <1>0, <1>21, <2>1, Empty DEF Restart, Carries
<1> QED
  BY <1>2, <1>3, <1>4, <1>5, <1>6, <1>7, <1>8, <1>9, <1>10, <1>11, <1>12, <1>13, <1>14, <1>15,
     <1>16, <1>17, <1>18, <1>19, <1>20, <1>21
  DEF Next

\* A file no helper has written whole stays one, or is of no webhook.
LEMMA NotWhole ==
  ASSUME NEW known, NoHook \in known
  PROVE  Whole({}, known) /\ Whole({{}}, known) /\ Whole({Hook}, known)
<1>1. Whole({}, known) /\ Whole({{}}, known)
  BY DEF Whole
<1>2. ASSUME NEW h \in Hook, {Hook} = {{h}} PROVE h = NoHook
  <2>1. Hook = {h}
    BY <1>2
  <2> QED
    BY <2>1, Empty
<1> QED
  BY <1>1, <1>2 DEF Whole

\* What is whole in runtime.json and its temporary is a webhook mcp.json has held.
LEMMA FilesCarry ==
  ASSUME TypeInv, PairInv, Next, held \subseteq held'
  PROVE  \A u \in UserIds : Whole(run'[u], held') /\ Whole(tmp'[u], held')
<1> DEFINE Good(f, known) == \A u \in UserIds : Whole(f[u], known)
<1>0. /\ Good(run, held) /\ Good(tmp, held) /\ NoHook \in held
      /\ run \in [UserIds -> File] /\ tmp \in [UserIds -> File]
      /\ Threads \subseteq Actors /\ Procs \subseteq Actors
  BY DEF TypeInv, State, PairInv, Actors
<1>1. Good(run, held') /\ Good(tmp, held')
  BY <1>0 DEF Whole
<1> SUFFICES Good(run', held') /\ Good(tmp', held')
  OBVIOUS
<1>e. ASSUME NEW f \in [UserIds -> File], NEW g, NEW u \in UserIds, NEW c,
             Good(f, held'), Whole(c, held'), g = [f EXCEPT ![u] = c] \/ g = f
      PROVE  Good(g, held')
  BY <1>e
<1>n. Whole({}, held') /\ Whole({{}}, held') /\ Whole({Hook}, held')
  BY <1>0, NotWhole
<1>u. ASSUME NEW a \in Actors, act[a].pc \in HelperPcs \cup {"cleanup"}
      PROVE  act[a].user \in UserIds
  BY <1>u DEF TypeInv, State, Sound
<1> HIDE DEF Good
<1>2. ASSUME NEW a \in Actors, HelperOpen(a) PROVE Good(run', held') /\ Good(tmp', held')
  <2>1. /\ act[a].user \in UserIds /\ run' = run
        /\ tmp' = [tmp EXCEPT ![act[a].user] = {{}}] \/ tmp' = tmp
    BY <1>2, <1>u DEF HelperOpen, HelperPcs
  <2> QED
    BY <1>0, <1>1, <1>e, <1>n, <2>1
<1>3. ASSUME NEW a \in Actors, HelperWrite(a) PROVE Good(run', held') /\ Good(tmp', held')
  <2> DEFINE u == act[a].user
             h == act[a].hook
             Written(f) == {[f EXCEPT ![u] = {c}] : c \in UNION {Overwrite(d, h) : d \in f[u]}}
  <2>1. u \in UserIds /\ h \in Hook /\ h \in held'
    <3>1. act[a].pc = "write"
      BY <1>3 DEF HelperWrite
    <3>2. act[a] \in Actor
      BY DEF TypeInv, State
    <3> QED
      BY <1>u, <3>1, <3>2 DEF HelperPcs, PairInv, Carries, Carrying, Actor
  <2>2. (tmp' \in Written(tmp) \/ tmp' = tmp) /\ (run' \in Written(run) \/ run' = run)
    BY <1>3 DEF HelperWrite
  <2>3. ASSUME NEW f \in [UserIds -> File], NEW g \in Written(f), Good(f, held')
        PROVE  Good(g, held')
    <3>1. g \in {[f EXCEPT ![u] = {c}] : c \in UNION {Overwrite(d, h) : d \in f[u]}}
      BY <2>3
    <3> HIDE DEF u, h, Written
    <3>2. (g[u] = {{h}} \/ g[u] = {Hook}) /\ \A v \in UserIds \ {u} : g[v] = f[v]
      BY <2>1, <3>1, Writes
    <3>3. Whole({{h}}, held')
      BY <2>1 DEF Whole
    <3> QED
      BY <1>n, <2>1, <2>3, <3>2, <3>3 DEF Good
  <2> HIDE DEF Written
  <2> QED
    BY <1>0, <1>1, <2>2, <2>3
<1>4. ASSUME NEW a \in Actors, HelperRename(a) PROVE Good(run', held') /\ Good(tmp', held')
  <2>1. /\ act[a].user \in UserIds
        /\ run' = [run EXCEPT ![act[a].user] = tmp[act[a].user]]
        /\ tmp' = [tmp EXCEPT ![act[a].user] = {}]
    BY <1>4, <1>u DEF HelperRename, HelperPcs
  <2>2. Whole(tmp[act[a].user], held')
    BY <1>1, <2>1 DEF Good
  <2>3. Good(tmp', held')
    BY <1>0, <1>1, <1>e, <1>n, <2>1
  <2> DEFINE u == act[a].user
             c == tmp[u]
  <2>4. u \in UserIds /\ Whole(c, held') /\ run' = [run EXCEPT ![u] = c]
    BY <2>1, <2>2
  <2> HIDE DEF u, c
  <2>5. Good(run', held')
    BY <1>0, <1>1, <1>e, <2>4
  <2> QED
    BY <2>3, <2>5
<1>5. ASSUME NEW a \in Actors, HelperFail(a) PROVE Good(run', held') /\ Good(tmp', held')
  <2>1. /\ act[a].user \in UserIds /\ run' = run
        /\ tmp' = [tmp EXCEPT ![act[a].user] = {}] \/ tmp' = tmp
    BY <1>5, <1>u DEF HelperFail, HelperPcs
  <2> QED
    BY <1>0, <1>1, <1>e, <1>n, <2>1
<1>6. ASSUME NEW t \in Threads, DeleteState(t) PROVE Good(run', held') /\ Good(tmp', held')
  <2>1. /\ act[t].user \in UserIds
        /\ run' = [run EXCEPT ![act[t].user] = {}] \/ run' = run
        /\ tmp' = [tmp EXCEPT ![act[t].user] = {}] \/ tmp' = tmp
    BY <1>0, <1>6, <1>u DEF DeleteState
  <2> QED
    BY <1>0, <1>1, <1>e, <1>n, <2>1
<1>7. \/ \E a \in Actors : Helper(a)
      \/ \E t \in Threads : DeleteState(t)
      \/ run' = run /\ tmp' = tmp
  <2>1. ASSUME NEW t \in Threads,
               \/ Load(t) \/ Compare(t) \/ Assign(t) \/ EndWalk(t) \/ CreateUseradd(t)
               \/ CreateRecord(t) \/ DeleteUnlink(t) \/ DeleteAccount(t)
        PROVE  run' = run /\ tmp' = tmp
    BY <2>1 DEF Load, Compare, Assign, EndWalk, CreateUseradd, CreateRecord, DeleteUnlink,
                DeleteAccount, files
  <2>2. ASSUME NEW t \in Threads,
               (\E next \in ToolPcs : Request(t, next)) \/ \E u \in UserIds : Visit(t, u)
        PROVE  run' = run /\ tmp' = tmp
    BY <2>2 DEF Request, Visit, files
  <2>3. ASSUME NEW p \in Procs,
               \/ \E url \in Urls : WebhookSet(p, url)
               \/ WebhookClear(p) \/ WebhookReplace(p) \/ AuthCreate(p) \/ AuthRecord(p)
               \/ AuthAccount(p) \/ Sighup(p)
        PROVE  run' = run /\ tmp' = tmp
    BY <2>3 DEF WebhookSet, WebhookClear, WebhookReplace, AuthCreate, AuthRecord, AuthAccount,
                Sighup, files
  <2>4. (Restart \/ \E a \in Actors : NoIdLeft(a)) => run' = run /\ tmp' = tmp
    BY DEF Restart, NoIdLeft, files
  <2> QED
    BY <2>1, <2>2, <2>3, <2>4 DEF Next
<1> QED
  BY <1>1, <1>2, <1>3, <1>4, <1>5, <1>6, <1>7 DEF Helper

\* No runtime.json pairs the secret of one webhook with the URL of another: with one HTTP
\* thread, and any number of commands beside it, what the helpers leave whole under the
\* name of runtime.json is a pair mcp.json has held, however the writers of one file
\* overlap and whatever of it fails. (With two threads, one copies config_ while the
\* other assigns it, and the pair may be of two webhooks.)
THEOREM PairConfigured ==
  ASSUME OneThread PROVE Spec => []PairAsConfigured
<1>1. Init => PairInv
  <2> SUFFICES ASSUME Init PROVE PairInv
    OBVIOUS
  <2>1. conf \in held /\ cfg \in held /\ NoHook \in held
    BY DEF Init
  <2>2. \A a \in Actors : Carries(act[a], held)
    BY <2>1, Empty DEF Init, Carries
  <2>3. \A u \in UserIds : Whole({{NoHook}}, held) /\ Whole({}, held)
    BY <2>1 DEF Whole
  <2>4. \A u \in UserIds : Whole(run[u], held) /\ Whole(tmp[u], held)
    BY <2>3 DEF Init
  <2> QED
    BY <2>1, <2>2, <2>4 DEF PairInv
<1>2. TypeInv /\ PairInv /\ [Next]_vars => PairInv'
  <2>1. ASSUME TypeInv, PairInv, Next PROVE PairInv'
    <3>1. /\ \A b \in Actors : Carries(act'[b], held')
          /\ held \subseteq held' /\ conf' \in held' /\ cfg' \in held'
      BY <2>1, ActorsCarry
    <3>2. \A u \in UserIds : Whole(run'[u], held') /\ Whole(tmp'[u], held')
      BY <2>1, <3>1, FilesCarry
    <3>3. NoHook \in held'
      BY <2>1, <3>1 DEF PairInv
    <3> QED
      BY <3>1, <3>2, <3>3 DEF PairInv
  <2>2. PairInv /\ UNCHANGED vars => PairInv'
    BY DEF vars, PairInv
  <2> QED
    BY <2>1, <2>2
<1>3. PairInv => PairAsConfigured
  BY DEF PairInv, Whole, PairAsConfigured
<1> QED
  BY <1>1, <1>2, <1>3, TypeInvariant, PTL DEF Spec

-----------------------------------------------------------------------------
(* With one HTTP thread t and one command process p, every user is served *)

Single(t, p) == Threads = {t} /\ Procs = {p}

ProcPcs == {"idle", "replace", "authrecord", "account", "hup"} \cup HelperPcs

\* what config_ is once the reload that has read mcp.json assigned it
Coming(t) ==
    IF act[t].pc \in {"compare", "assign", "assignSame"} THEN act[t].hook ELSE cfg

\* mcp.json will be loaded
Pending(t, p) == hup \/ act[t].pc = "load" \/ act[p].pc = "hup"

\* user_create is at work on u and has not recorded him
Making(t, u) ==
    /\ act[t].user = u
    /\ act[t].pc = "record" \/ (act[t].pc \in HelperPcs /\ act[t].ret = "record")

\* write_all has still to come to u
WillVisit(t, u) ==
    \/ act[t].pc = "assign"
    \/ act[t].pc = "compare" /\ act[t].hook # cfg
    \/ /\ act[t].pc = "walk" \/ (act[t].pc \in HelperPcs /\ act[t].ret = "walk")
       /\ u \in act[t].due \ act[t].seen

Opening(u) == \E a \in Actors : act[a].user = u /\ act[a].pc = "open"
AtTmp(a, u) == act[a].user = u /\ act[a].at = "tmp"
AtRun(a, u) == act[a].user = u /\ act[a].at = "run"

\* The temporary is there while a helper has it open under its name, and holds
\* nothing else than what the helper is to write.
TmpFine(u) ==
    \/ tmp[u] = {} /\ \A a \in Actors : ~AtTmp(a, u)
    \/ tmp[u] = {{}} /\ \E a \in Actors : AtTmp(a, u) /\ act[a].pc = "write"
    \/ tmp[u] = {{conf}} /\ \E a \in Actors : AtTmp(a, u)

\* runtime.json is as mcp.json has it, or a helper will make it so.
RunFine(u) ==
    \/ run[u] = {{conf}}
    \/ run[u] = {{}} /\ \E a \in Actors : AtRun(a, u) /\ act[a].pc = "write"
    \/ \E a \in Actors : AtTmp(a, u)

InHand(u) == Opening(u) \/ (TmpFine(u) /\ RunFine(u))

Served(t, u) == u \in acct \ missed /\ (u \in rec \/ Making(t, u))

Roles(t, p) ==
    /\ act[p].pc \in ProcPcs
    /\ act[p].pc \in HelperPcs => act[p].ret = "hup"
    /\ act[t].pc \notin CommandPcs
    /\ act[t].pc \in HelperPcs => act[t].ret \in {"walk", "record"}

Carried(t, p) ==
    /\ act[t].pc \in HelperPcs => act[t].hook = cfg
    /\ act[p].pc \in HelperPcs \cup {"authrecord", "account"} => act[p].hook = conf
    /\ act[t].pc \in {"userdel", "cleanup"} => act[t].user \notin rec
    /\ conf = Coming(t) \/ Pending(t, p)
    /\ act[p].pc = "replace" => conf = Coming(t)

Synced(t) ==
    \A u \in UserIds : conf = Coming(t) /\ Served(t, u) => WillVisit(t, u) \/ InHand(u)

SyncInv(t, p) == broken \/ (Roles(t, p) /\ Carried(t, p) /\ Synced(t))

\* A rename or removal by another changes nothing of an actor but where its open file is.
LEMMA MovedSame ==
  ASSUME NEW x \in Actor, NEW u, NEW names
  PROVE  /\ x.user # u => Renamed(x, u) = x /\ Unlinked(x, u, names) = x
         /\ \A y \in {Renamed(x, u), Unlinked(x, u, names)} :
               /\ y.pc = x.pc /\ y.hook = x.hook /\ y.user = x.user /\ y.ret = x.ret
               /\ y.due = x.due /\ y.seen = x.seen
         /\ x.user = u => /\ Renamed(x, u).at # "tmp"
                          /\ x.at = "tmp" => Renamed(x, u).at = "run"
BY DEF Renamed, Unlinked, Actor

\* InHand(u) holds on, when nothing changed of u's files and of who works on them, but
\* that one more may have come to do so.
LEMMA HandFrame ==
  ASSUME NEW u, InHand(u), run'[u] = run[u], tmp'[u] = tmp[u], conf' = conf,
         \A b \in Actors :
            \/ act'[b] = act[b]
            \/ act[b].user # u /\ act'[b].user # u
            \/ act[b].at = "none" /\ act[b].pc # "open" /\ act'[b].at = "none"
  PROVE  InHand(u)'
<1>1. \A b \in Actors : AtTmp(b, u)' <=> AtTmp(b, u)
  BY DEF AtTmp
<1>2. \A b \in Actors : AtTmp(b, u) \/ AtRun(b, u) => act'[b] = act[b]
  BY DEF AtTmp, AtRun
<1>3. \A b \in Actors : AtRun(b, u) => AtRun(b, u)'
  BY <1>2 DEF AtRun
<1>4. Opening(u) => Opening(u)'
  BY DEF Opening
<1>5. TmpFine(u) => TmpFine(u)'
  BY <1>1, <1>2 DEF TmpFine
<1>6. RunFine(u) => RunFine(u)'
  BY <1>1, <1>2, <1>3 DEF RunFine
<1> QED
  BY <1>4, <1>5, <1>6 DEF InHand

\* A helper of another user's file leaves InHand(u) alone.
LEMMA HandOther ==
  ASSUME TypeInv, NEW a \in Actors, Helper(a), NEW u \in UserIds, act[a].user # u, InHand(u)
  PROVE  InHand(u)'
<1> DEFINE v == act[a].user
<1>0. /\ act \in [Actors -> Actor] /\ run \in [UserIds -> File] /\ tmp \in [UserIds -> File]
      /\ conf' = conf /\ u # NoUser
  BY RuntimeAssumption DEF TypeInv, State, Helper, HelperOpen, HelperWrite, HelperRename, HelperFail
<1>1. run'[u] = run[u] /\ tmp'[u] = tmp[u]
  <2>1. CASE HelperOpen(a)
    BY <1>0, <2>1 DEF HelperOpen
  <2>2. CASE HelperWrite(a)
    <3> DEFINE Written(f) == {[f EXCEPT ![v] = {c}] :
                                 c \in UNION {Overwrite(d, act[a].hook) : d \in f[v]}}
    <3>1. (tmp' \in Written(tmp) \/ tmp' = tmp) /\ (run' \in Written(run) \/ run' = run)
      BY <2>2 DEF HelperWrite
    <3>2. \A f \in [UserIds -> File] : \A g \in Written(f) : g[u] = f[u]
      OBVIOUS
    <3> HIDE DEF Written
    <3> QED
      BY <1>0, <3>1, <3>2
  <2>3. CASE HelperRename(a)
    BY <1>0, <2>3 DEF HelperRename
  <2>4. CASE HelperFail(a)
    BY <1>0, <2>4 DEF HelperFail
  <2> QED
    BY <2>1, <2>2, <2>3, <2>4 DEF Helper
<1>2. Exited(act[a]).user # u
  BY <1>0 DEF Exited, Actor
<1>3. ASSUME NEW b \in Actors PROVE act'[b] = act[b] \/ (act[b].user # u /\ act'[b].user # u)
  <2>0. act[b] \in Actor
    BY <1>0
  <2>1. CASE b = a
    <3>1. CASE act'[a] = Exited(act[a])
      BY <1>2, <2>1, <3>1
    <3>2. CASE act'[a].user = act[a].user
      BY <2>1, <3>2
    <3>3. act'[a] = Exited(act[a]) \/ act'[a].user = act[a].user
      <4>1. CASE HelperOpen(a)
        BY <1>0, <4>1 DEF HelperOpen, Actor
      <4>2. CASE HelperWrite(a)
        BY <1>0, <4>2 DEF HelperWrite, Goto, Actor
      <4>3. CASE HelperRename(a)
        BY <1>0, <4>3 DEF HelperRename
      <4>4. CASE HelperFail(a)
        BY <1>0, <4>4 DEF HelperFail
      <4> QED
        BY <4>1, <4>2, <4>3, <4>4 DEF Helper
    <3> QED
      BY <3>1, <3>2, <3>3
  <2>2. CASE b # a
    <3>1. \/ act'[b] = act[b] \/ act'[b] = Renamed(act[b], v) \/ act'[b] = Unlinked(act[b], v, {"tmp"})
      <4>1. CASE HelperOpen(a)
        BY <1>0, <2>2, <4>1 DEF HelperOpen
      <4>2. CASE HelperWrite(a)
        BY <1>0, <2>2, <4>2 DEF HelperWrite, Goto
      <4>3. CASE HelperRename(a)
        BY <1>0, <2>2, <4>3 DEF HelperRename
      <4>4. CASE HelperFail(a)
        BY <1>0, <2>2, <4>4 DEF HelperFail
      <4> QED
        BY <4>1, <4>2, <4>3, <4>4 DEF Helper
    <3>2. act[b].user # v => act'[b] = act[b]
      BY <3>1 DEF Renamed, Unlinked
    <3>3. act'[b].user = act[b].user
      BY <2>0, <3>1 DEF Renamed, Unlinked, Actor
    <3> QED
      BY <3>2, <3>3
  <2> QED
    BY <2>1, <2>2
<1> QED
  BY <1>0, <1>1, <1>3, HandFrame

\* A helper that works on u's file, with the webhook of mcp.json, keeps it in hand or
\* puts it on the list of those not written.
LEMMA HandOwn ==
  ASSUME TypeInv, NEW a \in Actors, Helper(a), NEW u \in UserIds, act[a].user = u,
         act[a].hook = conf, u \notin missed', InHand(u) \/ u \in missed
  PROVE  InHand(u)'
<1>0. /\ act \in [Actors -> Actor] /\ run \in [UserIds -> File] /\ tmp \in [UserIds -> File]
      /\ act[a] \in Actor /\ Sound(act[a], ids)
      /\ conf' = conf
  BY DEF TypeInv, State, Helper, HelperOpen, HelperWrite, HelperRename, HelperFail
<1>1. CASE HelperOpen(a)
  <2>1. act' = [act EXCEPT ![a].pc = "write", ![a].at = "tmp"] /\ tmp' = [tmp EXCEPT ![u] = {{}}]
    BY <1>1 DEF HelperOpen
  <2>2. act'[a].pc = "write" /\ act'[a].at = "tmp" /\ act'[a].user = u /\ tmp'[u] = {{}}
    BY <1>0, <2>1 DEF Actor
  <2> QED
    BY <2>2 DEF InHand, TmpFine, RunFine, AtTmp
<1>2. CASE HelperWrite(a)
  <2> DEFINE Written(f) == {[f EXCEPT ![u] = {c}] : c \in UNION {Overwrite(d, conf) : d \in f[u]}}
  <2>1. /\ act'[a].pc = "rename" /\ act'[a].at = act[a].at /\ act'[a].user = u
        /\ \A b \in Actors \ {a} : act'[b] = act[b]
        /\ act[a].pc = "write" /\ missed' = missed
    BY <1>0, <1>2 DEF HelperWrite, Goto, Actor
  <2>2. /\ IF act[a].at = "tmp" THEN tmp' \in Written(tmp) ELSE tmp' = tmp
        /\ IF act[a].at = "run" THEN run' \in Written(run) ELSE run' = run
    BY <1>2 DEF HelperWrite
  <2>3. ASSUME NEW f \in [UserIds -> File], f[u] = {{}} \/ f[u] = {{conf}}, NEW g \in Written(f)
        PROVE  g[u] = {{conf}}
    <3>1. \A c \in UNION {Overwrite(d, conf) : d \in f[u]} : c = {conf}
      BY <2>3 DEF Overwrite
    <3>2. PICK c \in UNION {Overwrite(d, conf) : d \in f[u]} : g = [f EXCEPT ![u] = {c}]
      BY <2>3
    <3>3. g[u] = {c}
      BY <3>2
    <3> QED
      BY <3>1, <3>3
  <2> HIDE DEF Written
  <2>4. InHand(u)
    BY <2>1
  <2>5. CASE Opening(u)
    BY <2>1, <2>5 DEF Opening, InHand
  <2>6. CASE TmpFine(u) /\ RunFine(u) /\ act[a].at = "tmp"
    <3>1. tmp[u] = {{}} \/ tmp[u] = {{conf}}
      BY <2>6 DEF TmpFine, AtTmp
    <3>2. tmp'[u] = {{conf}}
      BY <1>0, <2>2, <2>3, <2>6, <3>1
    <3> QED
      BY <1>0, <2>1, <2>6, <3>2 DEF InHand, TmpFine, RunFine, AtTmp
  <2>7. CASE TmpFine(u) /\ RunFine(u) /\ act[a].at # "tmp"
    <3>1. tmp' = tmp
      BY <2>2, <2>7
    <3>2. \A b \in Actors : AtTmp(b, u)' <=> AtTmp(b, u)
      BY <2>1 DEF AtTmp
    <3>3. TmpFine(u)'
      BY <1>0, <2>1, <2>7, <3>1, <3>2 DEF TmpFine, AtTmp
    <3>4. RunFine(u)'
      <4>1. CASE \E b \in Actors : AtTmp(b, u)
        BY <3>2, <4>1 DEF RunFine
      <4>2. CASE (run[u] = {{}} \/ run[u] = {{conf}}) /\ act[a].at = "run"
        <5>1. run'[u] = {{conf}}
          BY <1>0, <2>2, <2>3, <4>2
        <5> QED
          BY <1>0, <5>1 DEF RunFine
      <4>3. CASE (run[u] = {{}} \/ run[u] = {{conf}}) /\ act[a].at # "run"
        <5>1. run' = run
          BY <2>2, <4>3
        <5> QED
          BY <1>0, <2>1, <2>7, <3>2, <4>3, <5>1 DEF RunFine, AtRun
      <4> QED
        BY <2>7, <4>1, <4>2, <4>3 DEF RunFine
    <3> QED
      BY <3>3, <3>4 DEF InHand
  <2> QED
    BY <2>4, <2>5, <2>6, <2>7 DEF InHand
<1>3. CASE HelperRename(a)
  <2>1. /\ run'[u] = tmp[u] /\ tmp'[u] = {} /\ tmp[u] # {} /\ missed' = missed
        /\ act[a].pc = "rename" /\ act'[a] = Exited(act[a])
        /\ \A b \in Actors \ {a} : act'[b] = Renamed(act[b], u)
    BY <1>0, <1>3 DEF HelperRename
  <2>2. ASSUME NEW b \in Actors \ {a}, act[b].user = u
        PROVE  /\ act'[b].user = u /\ act'[b].pc = act[b].pc /\ act'[b].at # "tmp"
               /\ act[b].at = "tmp" => act'[b].at = "run"
    <3>1. act[b] \in Actor /\ act'[b] = Renamed(act[b], u)
      BY <1>0, <2>1
    <3> QED
      BY <2>2, <3>1, MovedSame
  <2>3. ASSUME NEW b \in Actors \ {a}, act[b].user # u PROVE act'[b] = act[b]
    BY <2>1, <2>3 DEF Renamed
  <2>4. act'[a].at = "none"
    BY <1>0, <2>1 DEF Exited, Actor
  <2>5. \A b \in Actors : ~AtTmp(b, u)'
    BY <2>2, <2>3, <2>4 DEF AtTmp
  <2>6. TmpFine(u)'
    BY <2>1, <2>5 DEF TmpFine
  <2>7. InHand(u)
    BY <2>1
  <2>8. CASE Opening(u)
    <3>1. PICK b \in Actors : act[b].user = u /\ act[b].pc = "open"
      BY <2>8 DEF Opening
    <3> QED
      BY <2>1, <2>2, <3>1 DEF Opening, InHand
  <2>9. CASE tmp[u] = {{conf}}
    BY <1>0, <2>1, <2>6, <2>9 DEF InHand, RunFine
  <2>10. CASE tmp[u] = {{}} /\ \E b \in Actors : AtTmp(b, u) /\ act[b].pc = "write"
    <3>1. PICK b \in Actors : AtTmp(b, u) /\ act[b].pc = "write"
      BY <2>10
    <3>2. AtRun(b, u)' /\ act'[b].pc = "write"
      BY <2>1, <2>2, <3>1 DEF AtTmp, AtRun
    <3> QED
      BY <2>1, <2>6, <2>10, <3>2 DEF InHand, RunFine
  <2> QED
    BY <2>1, <2>7, <2>8, <2>9, <2>10 DEF InHand, TmpFine
<1>4. CASE HelperFail(a)
  BY <1>4 DEF HelperFail
<1> QED
  BY <1>1, <1>2, <1>3, <1>4 DEF Helper

\* A step of the thread outside the helper keeps the invariant, if what it leaves to be
\* written is about to be, or was in hand before.
LEMMA ThreadStep ==
  ASSUME NEW t, NEW p, Single(t, p), TypeInv, Roles(t, p), Carried(t, p), Synced(t),
         act'[p] = act[p], conf' = conf, run' = run, tmp' = tmp,
         act[t].pc \notin HelperPcs, act'[t].at = "none", act'[t].pc \notin CommandPcs,
         act'[t].pc \in HelperPcs => act'[t].ret \in {"walk", "record"} /\ act'[t].hook = cfg',
         act'[t].pc \in {"userdel", "cleanup"} => act'[t].user \notin rec',
         Coming(t)' = Coming(t) \/ Coming(t)' = conf,
         Pending(t, p) => Pending(t, p)' \/ conf = Coming(t)',
         \A u \in UserIds : conf = Coming(t)' /\ Served(t, u)' =>
            \/ WillVisit(t, u)' \/ Opening(u)'
            \/ conf = Coming(t) /\ Served(t, u) /\ ~WillVisit(t, u)
  PROVE  Roles(t, p)' /\ Carried(t, p)' /\ Synced(t)'
<1>0. Actors = {t, p} /\ t \in Actors /\ p \in Actors
  BY DEF Single, Actors
<1>1. act[t].at = "none" /\ act[t].pc # "open"
  BY <1>0 DEF TypeInv, Sound, HelperPcs
<1>2. Roles(t, p)'
  BY DEF Roles
<1>3. Carried(t, p)'
  BY DEF Carried
<1>4. \A u \in UserIds : InHand(u) => InHand(u)'
  BY <1>0, <1>1, HandFrame
<1>5. \A u \in UserIds : Opening(u)' => InHand(u)'
  BY DEF InHand
<1>6. Synced(t)'
  BY <1>4, <1>5 DEF Synced
<1> QED
  BY <1>2, <1>3, <1>6

\* The same of a step of the command outside the helper.
LEMMA ProcStep ==
  ASSUME NEW t, NEW p, Single(t, p), TypeInv, Roles(t, p), Carried(t, p), Synced(t),
         act'[t] = act[t], cfg' = cfg, run' = run, tmp' = tmp,
         act[p].pc \notin HelperPcs, act'[p].at = "none", act'[p].pc \in ProcPcs,
         act'[p].pc \in HelperPcs => act'[p].ret = "hup",
         act'[p].pc \in HelperPcs \cup {"authrecord", "account"} => act'[p].hook = conf',
         act[t].pc \in {"userdel", "cleanup"} => act[t].user \notin rec',
         conf' = Coming(t) \/ Pending(t, p)',
         act'[p].pc = "replace" => conf' = Coming(t),
         \A u \in UserIds : conf' = Coming(t) /\ Served(t, u)' =>
            Opening(u)' \/ (conf' = conf /\ Served(t, u))
  PROVE  Roles(t, p)' /\ Carried(t, p)' /\ Synced(t)'
<1>0. Actors = {t, p} /\ t \in Actors /\ p \in Actors
  BY DEF Single, Actors
<1>1. act[p].at = "none" /\ act[p].pc # "open"
  BY <1>0 DEF TypeInv, Sound, HelperPcs
<1>2. Coming(t)' = Coming(t) /\ \A u \in UserIds : WillVisit(t, u)' <=> WillVisit(t, u)
  BY DEF Coming, WillVisit
<1>3. Roles(t, p)'
  BY DEF Roles
<1>4. Carried(t, p)'
  BY <1>2 DEF Carried
<1>5. \A u \in UserIds : conf' = conf /\ InHand(u) => InHand(u)'
  BY <1>0, <1>1, HandFrame
<1>6. \A u \in UserIds : Opening(u)' => InHand(u)'
  BY DEF InHand
<1>7. Synced(t)'
  BY <1>2, <1>5, <1>6 DEF Synced
<1> QED
  BY <1>3, <1>4, <1>7

\* The helper's steps, whoever waits for it.
LEMMA HelperSync ==
  ASSUME NEW t, NEW p, Single(t, p), TypeInv, Roles(t, p), Carried(t, p), Synced(t),
         NEW a \in Actors, Helper(a)
  PROVE  Roles(t, p)' /\ Carried(t, p)' /\ Synced(t)'
<1>0. /\ Actors = {t, p} /\ t \in Actors /\ p \in Actors
      /\ act \in [Actors -> Actor] /\ act[a] \in Actor /\ act[a].pc \in HelperPcs
      /\ act[a].user \in UserIds
  <2>1. act[a].pc \in HelperPcs
    BY DEF Helper, HelperOpen, HelperWrite, HelperRename, HelperFail, HelperPcs
  <2> QED
    BY <2>1 DEF Single, Actors, TypeInv, State, Sound
<1>1. UNCHANGED <<conf, cfg, hup, rec, acct>>
  BY DEF Helper, HelperOpen, HelperWrite, HelperRename, HelperFail, people, daemon
<1>2. ASSUME NEW b \in Actors, b # a
      PROVE  /\ act'[b].pc = act[b].pc /\ act'[b].hook = act[b].hook /\ act'[b].user = act[b].user
             /\ act'[b].ret = act[b].ret /\ act'[b].due = act[b].due /\ act'[b].seen = act[b].seen
  <2>1. act[b] \in Actor
    BY <1>0
  <2>2. \/ act'[b] = act[b] \/ act'[b] = Renamed(act[b], act[a].user)
        \/ act'[b] = Unlinked(act[b], act[a].user, {"tmp"})
    <3>1. CASE HelperOpen(a)
      BY <1>0, <1>2, <3>1 DEF HelperOpen
    <3>2. CASE HelperWrite(a)
      BY <1>0, <1>2, <3>2 DEF HelperWrite, Goto
    <3>3. CASE HelperRename(a)
      BY <1>0, <1>2, <3>3 DEF HelperRename
    <3>4. CASE HelperFail(a)
      BY <1>0, <1>2, <3>4 DEF HelperFail
    <3> QED
      BY <3>1, <3>2, <3>3, <3>4 DEF Helper
  <2> QED
    BY <2>1, <2>2 DEF Renamed, Unlinked, Actor
<1>3. /\ act'[a].due = act[a].due /\ act'[a].seen = act[a].seen
      /\ \/ /\ act'[a].pc \in HelperPcs /\ act'[a].hook = act[a].hook
            /\ act'[a].user = act[a].user /\ act'[a].ret = act[a].ret
         \/ /\ act'[a].pc = act[a].ret
            /\ act[a].ret = "record" => act'[a].user = act[a].user
  <2>1. CASE act'[a] = Exited(act[a])
    BY <1>0, <2>1 DEF Exited, Actor
  <2>2. CASE \/ act' = [act EXCEPT ![a].pc = "write", ![a].at = "tmp"]
             \/ act' = [act EXCEPT ![a].pc = "rename"]
    BY <1>0, <2>2 DEF Actor, HelperPcs
  <2>3. act'[a] = Exited(act[a]) \/ act' = [act EXCEPT ![a].pc = "write", ![a].at = "tmp"]
          \/ act' = [act EXCEPT ![a].pc = "rename"]
    <3>1. CASE HelperOpen(a)
      BY <1>0, <3>1 DEF HelperOpen
    <3>2. CASE HelperWrite(a)
      BY <1>0, <3>2 DEF HelperWrite, Goto
    <3>3. CASE HelperRename(a)
      BY <1>0, <3>3 DEF HelperRename
    <3>4. CASE HelperFail(a)
      BY <1>0, <3>4 DEF HelperFail
    <3> QED
      BY <3>1, <3>2, <3>3, <3>4 DEF Helper
  <2> QED
    BY <2>1, <2>2, <2>3
<1>4. t # p
  BY RuntimeAssumption DEF Single
<1>5. Roles(t, p)' /\ Coming(t)' = Coming(t)
      /\ \A u \in UserIds : (WillVisit(t, u)' <=> WillVisit(t, u)) /\ (Making(t, u)' => Making(t, u))
  <2>1. CASE a = t
    BY <1>0, <1>1, <1>2, <1>3, <1>4, <2>1
    DEF Roles, Coming, WillVisit, Making, HelperPcs, CommandPcs
  <2>2. CASE a = p
    BY <1>0, <1>1, <1>2, <1>3, <1>4, <2>2
    DEF Roles, Coming, WillVisit, Making, HelperPcs, CommandPcs, ProcPcs
  <2> QED
    BY <1>0, <2>1, <2>2
<1>6. Carried(t, p)'
  <2>1. CASE a = t
    BY <1>0, <1>1, <1>2, <1>3, <1>4, <1>5, <2>1 DEF Roles, Carried, Pending, HelperPcs
  <2>2. CASE a = p
    BY <1>0, <1>1, <1>2, <1>3, <1>4, <1>5, <2>2 DEF Roles, Carried, Pending, HelperPcs
  <2> QED
    BY <1>0, <2>1, <2>2
<1>7. ASSUME NEW u \in UserIds, conf' = Coming(t)', Served(t, u)'
      PROVE  WillVisit(t, u)' \/ InHand(u)'
  <2>1. act[a].hook = conf
    <3>1. conf = Coming(t)
      BY <1>1, <1>5, <1>7
    <3> QED
      BY <1>0, <3>1 DEF Carried, Coming, HelperPcs
  <2>2. u \in missed \/ WillVisit(t, u) \/ InHand(u)
    BY <1>1, <1>5, <1>7 DEF Synced, Served
  <2>3. u \notin missed'
    BY <1>7 DEF Served
  <2>4. CASE act[a].user = u
    BY <1>5, <2>1, <2>2, <2>3, <2>4, HandOwn
  <2>5. CASE act[a].user # u
    <3>1. u \notin missed
      BY <2>3, <2>5 DEF Helper, HelperOpen, HelperWrite, HelperRename, HelperFail
    <3> QED
      BY <1>5, <2>2, <2>5, <3>1, HandOther
  <2> QED
    BY <2>4, <2>5
<1> QED
  BY <1>5, <1>6, <1>7 DEF Synced

\* handle_reload and write_all.
LEMMA ReloadSync ==
  ASSUME NEW t, NEW p, Single(t, p), TypeInv, Roles(t, p), Carried(t, p), Synced(t), ~broken',
         \/ \E next \in ToolPcs : Request(t, next)
         \/ Load(t) \/ Compare(t) \/ Assign(t) \/ EndWalk(t)
         \/ \E u \in UserIds : Visit(t, u)
  PROVE  Roles(t, p)' /\ Carried(t, p)' /\ Synced(t)'
<1>0. /\ act \in [Actors -> Actor] /\ t \in Actors /\ p \in Actors /\ t # p
      /\ act[t] \in Actor /\ Sound(act[t], ids)
  BY RuntimeAssumption DEF TypeInv, State, Single, Actors
<1>e. ASSUME EndReload(t) PROVE act'[p] = act[p] /\ act'[t].pc \in ToolPcs /\ act'[t].at = "none"
  BY <1>0, <1>e, ReloadEnds
<1>1. ASSUME NEW next \in ToolPcs, Request(t, next) PROVE Roles(t, p)' /\ Carried(t, p)' /\ Synced(t)'
  <2>1. /\ act[t].pc = "idle" /\ act'[p] = act[p] /\ act'[t].at = "none"
        /\ act'[t].pc = IF hup THEN "load" ELSE next
    BY <1>0, <1>1, Empty DEF Request, Idle
  <2>2. UNCHANGED <<conf, cfg, run, tmp, missed, rec, acct>> /\ hup' = FALSE
    BY <1>1 DEF Request, files, people
  <2>3. Coming(t)' = Coming(t)
    BY <2>1, <2>2 DEF Coming, ToolPcs
  <2>4. Pending(t, p) => Pending(t, p)'
    BY <2>1, <2>2 DEF Pending
  <2>5. \A u \in UserIds : Served(t, u)' => Served(t, u) /\ ~WillVisit(t, u)
    BY <2>1, <2>2 DEF Served, Making, WillVisit, HelperPcs, ToolPcs
  <2>6. act[t].pc \notin HelperPcs /\ act'[t].pc \notin HelperPcs \cup CommandPcs \cup {"userdel", "cleanup"}
    BY <2>1 DEF HelperPcs, CommandPcs, ToolPcs
  <2> QED
    BY <2>1, <2>2, <2>3, <2>4, <2>5, <2>6, ThreadStep
<1>2. CASE Load(t)
  <2>1. act' = [act EXCEPT ![t].pc = "compare", ![t].hook = conf] /\ act[t].pc = "load"
    BY <1>2 DEF Load
  <2>2. act'[p] = act[p] /\ act'[t].pc = "compare" /\ act'[t].hook = conf /\ act'[t].at = act[t].at
    BY <1>0, <2>1 DEF Actor
  <2>3. UNCHANGED <<conf, cfg, run, tmp, missed, rec, acct>>
    BY <1>2 DEF Load, files, people
  <2>4. Coming(t)' = conf /\ Coming(t) = cfg
    BY <2>1, <2>2 DEF Coming
  <2>5. act[t].at = "none"
    BY <1>0, <2>1 DEF Sound
  <2>6. \A u \in UserIds : Served(t, u)' =>
           WillVisit(t, u)' \/ (conf = Coming(t) /\ Served(t, u) /\ ~WillVisit(t, u))
    BY <2>1, <2>2, <2>3, <2>4 DEF Served, Making, WillVisit, HelperPcs
  <2>7. act[t].pc \notin HelperPcs /\ act'[t].pc \notin HelperPcs \cup CommandPcs \cup {"userdel", "cleanup"}
    BY <2>1, <2>2 DEF HelperPcs, CommandPcs
  <2> QED
    BY <2>2, <2>3, <2>4, <2>5, <2>6, <2>7, ThreadStep
<1>3. CASE Compare(t)
  <2>1. /\ act[t].pc = "compare" /\ act'[p] = act[p] /\ act'[t].at = act[t].at
        /\ act'[t].hook = act[t].hook
        /\ act'[t].pc = IF act[t].hook # cfg THEN "assign" ELSE "assignSame"
    BY <1>0, <1>3 DEF Compare, Goto, Actor
  <2>2. UNCHANGED <<conf, cfg, hup, run, tmp, missed, rec, acct>>
    BY <1>3 DEF Compare, files, people, daemon
  <2>3. Coming(t)' = Coming(t) /\ (Pending(t, p) => Pending(t, p)')
    BY <2>1, <2>2 DEF Coming, Pending
  <2>4. act[t].at = "none"
    BY <1>0, <2>1 DEF Sound
  <2>5. \A u \in UserIds : Served(t, u)' => WillVisit(t, u)' \/ (Served(t, u) /\ ~WillVisit(t, u))
    BY <2>1, <2>2 DEF Served, Making, WillVisit, HelperPcs
  <2>6. act[t].pc \notin HelperPcs /\ act'[t].pc \notin HelperPcs \cup CommandPcs \cup {"userdel", "cleanup"}
    BY <2>1 DEF HelperPcs, CommandPcs
  <2> QED
    BY <2>1, <2>2, <2>3, <2>4, <2>5, <2>6, ThreadStep
<1>4. CASE Assign(t)
  <2>1. UNCHANGED <<conf, hup, run, tmp, rec, acct>> /\ cfg' = act[t].hook
        /\ act[t].pc \in {"assign", "assignSame"}
    BY <1>4 DEF Assign, people
  <2>2. act[t].at = "none" /\ Coming(t) = act[t].hook /\ act[t].pc \notin HelperPcs
    BY <1>0, <2>1 DEF Sound, Coming, HelperPcs
  <2>3. ASSUME EndReload(t), (missed' = missed /\ act[t].pc = "assignSame") \/ missed' = UserIds
        PROVE  Roles(t, p)' /\ Carried(t, p)' /\ Synced(t)'
    <3>1. Coming(t)' = Coming(t) /\ (Pending(t, p) => Pending(t, p)')
      BY <1>e, <2>1, <2>2, <2>3 DEF Coming, Pending, ToolPcs
    <3>2. \A u \in UserIds : Served(t, u)' => Served(t, u) /\ ~WillVisit(t, u)
      BY <1>e, <2>1, <2>3 DEF Served, Making, WillVisit, HelperPcs, ToolPcs
    <3>3. act'[t].pc \notin HelperPcs \cup CommandPcs \cup {"userdel", "cleanup"}
      BY <1>e, <2>3 DEF HelperPcs, CommandPcs, ToolPcs
    <3> QED
      BY <1>e, <2>1, <2>2, <2>3, <3>1, <3>2, <3>3, ThreadStep
  <2>4. ASSUME act' = [act EXCEPT ![t].pc = "walk", ![t].due = rec, ![t].seen = {}]
        PROVE  Roles(t, p)' /\ Carried(t, p)' /\ Synced(t)'
    <3>1. /\ act'[p] = act[p] /\ act'[t].pc = "walk" /\ act'[t].due = rec /\ act'[t].seen = {}
          /\ act'[t].at = act[t].at
      BY <1>0, <2>4 DEF Actor
    <3>2. Coming(t)' = Coming(t) /\ (Pending(t, p) => Pending(t, p)')
      BY <2>1, <2>2, <3>1 DEF Coming, Pending
    <3>3. \A u \in UserIds : Served(t, u)' => WillVisit(t, u)'
      BY <2>1, <3>1 DEF Served, Making, WillVisit, HelperPcs
    <3>4. act'[t].pc \notin HelperPcs \cup CommandPcs \cup {"userdel", "cleanup"}
      BY <3>1 DEF HelperPcs, CommandPcs
    <3> QED
      BY <2>1, <2>2, <3>1, <3>2, <3>3, <3>4, ThreadStep
  <2> QED
    BY <1>4, <2>3, <2>4 DEF Assign
<1>5. CASE EndWalk(t)
  <2>1. UNCHANGED <<conf, cfg, hup, run, tmp, missed, rec, acct>> /\ act[t].pc = "walk"
        /\ act[t].due \cap rec \subseteq act[t].seen /\ EndReload(t)
    BY <1>5 DEF EndWalk, files, people, daemon
  <2>2. act[t].pc \notin HelperPcs /\ act'[t].pc \notin HelperPcs \cup CommandPcs \cup {"userdel", "cleanup"}
    BY <1>e, <2>1 DEF HelperPcs, CommandPcs, ToolPcs
  <2>3. Coming(t)' = Coming(t) /\ (Pending(t, p) => Pending(t, p)')
    BY <1>e, <2>1 DEF Coming, Pending, ToolPcs
  <2>4. \A u \in UserIds : Served(t, u)' => Served(t, u) /\ ~WillVisit(t, u)
    BY <1>e, <2>1 DEF Served, Making, WillVisit, HelperPcs, ToolPcs
  <2> QED
    BY <1>e, <2>1, <2>2, <2>3, <2>4, ThreadStep
<1>6. ASSUME NEW v \in UserIds, Visit(t, v) PROVE Roles(t, p)' /\ Carried(t, p)' /\ Synced(t)'
  <2>1. PICK h \in ReadConfig(t) :
           act' = [act EXCEPT ![t].pc = "open", ![t].user = v, ![t].hook = h,
                              ![t].ret = "walk", ![t].seen = @ \cup {v}]
    BY <1>6 DEF Visit
  <2>2. h = cfg
    <3>1. OneThread /\ t \in Threads
      BY DEF OneThread, Single
    <3> QED
      BY <2>1, <3>1, ConfigRead
  <2>3. UNCHANGED <<conf, cfg, hup, run, tmp, missed, rec, acct>> /\ act[t].pc = "walk"
    BY <1>6 DEF Visit, files, people, daemon
  <2>4. /\ act'[p] = act[p] /\ act'[t].pc = "open" /\ act'[t].user = v /\ act'[t].hook = cfg
        /\ act'[t].ret = "walk" /\ act'[t].seen = act[t].seen \cup {v}
        /\ act'[t].due = act[t].due /\ act'[t].at = act[t].at
    BY <1>0, <2>1, <2>2 DEF Actor
  <2>5. act[t].at = "none" /\ act[t].pc \notin HelperPcs
    BY <1>0, <2>3 DEF Sound, HelperPcs
  <2>6. Coming(t)' = Coming(t) /\ (Pending(t, p) => Pending(t, p)')
    BY <2>3, <2>4 DEF Coming, Pending
  <2>7. Opening(v)'
    BY <1>0, <2>4 DEF Opening
  <2>8. \A u \in UserIds : Served(t, u)' =>
           WillVisit(t, u)' \/ u = v \/ (Served(t, u) /\ ~WillVisit(t, u))
    BY <2>3, <2>4 DEF Served, Making, WillVisit, HelperPcs
  <2>9. act'[t].pc \notin CommandPcs \cup {"userdel", "cleanup"}
    BY <2>4 DEF CommandPcs
  <2> QED
    BY <2>3, <2>4, <2>5, <2>6, <2>7, <2>8, <2>9, ThreadStep
<1> QED
  BY <1>1, <1>2, <1>3, <1>4, <1>5, <1>6

\* user_create and user_delete.
LEMMA ToolSync ==
  ASSUME NEW t, NEW p, Single(t, p), TypeInv, Roles(t, p), Carried(t, p), Synced(t),
         \/ NoIdLeft(t) \/ CreateUseradd(t) \/ CreateRecord(t)
         \/ DeleteUnlink(t) \/ DeleteAccount(t) \/ DeleteState(t)
  PROVE  Roles(t, p)' /\ Carried(t, p)' /\ Synced(t)'
<1>0. /\ act \in [Actors -> Actor] /\ t \in Actors /\ p \in Actors /\ t # p
      /\ act[t] \in Actor /\ Sound(act[t], ids) /\ Actors = {t, p}
      /\ rec \subseteq ids /\ acct \subseteq ids /\ act[p] \in Actor
      /\ run \in [UserIds -> File] /\ tmp \in [UserIds -> File]
  BY RuntimeAssumption DEF TypeInv, State, Single, Actors
<1>1. /\ act[t].pc \in {"useradd", "record", "unlink", "userdel", "cleanup"}
      /\ UNCHANGED <<conf, cfg, hup>>
  <2>1. act[t].pc # "authrecord"
    BY DEF Roles, CommandPcs
  <2> QED
    BY <2>1 DEF NoIdLeft, CreateUseradd, CreateRecord, DeleteUnlink, DeleteAccount, DeleteState, daemon
<1>2. /\ act[t].at = "none" /\ act[t].pc \notin HelperPcs /\ Coming(t) = cfg
      /\ \A u \in UserIds : ~WillVisit(t, u)
  BY <1>0, <1>1 DEF Sound, HelperPcs, Coming, WillVisit
<1>p. ASSUME act'[t].pc \notin {"compare", "assign", "assignSame"}, act'[p].pc = act[p].pc
      PROVE  Coming(t)' = Coming(t) /\ (Pending(t, p) => Pending(t, p)')
  BY <1>1, <1>2, <1>p DEF Coming, Pending
<1>r. ASSUME Return(t)
      PROVE  /\ act'[p] = act[p] /\ act'[t].at = "none" /\ act'[t].pc = "idle"
             /\ act'[t].pc \notin HelperPcs \cup CommandPcs \cup {"userdel", "cleanup"}
             /\ \A u \in UserIds : ~Making(t, u)'
  BY <1>0, <1>r, Empty DEF Return, HelperPcs, CommandPcs, Making
<1>3. ASSUME Return(t), run' = run, tmp' = tmp, \A u \in UserIds : Served(t, u)' => Served(t, u)
      PROVE  Roles(t, p)' /\ Carried(t, p)' /\ Synced(t)'
  <2>1. Coming(t)' = Coming(t) /\ (Pending(t, p) => Pending(t, p)')
    BY <1>3, <1>p, <1>r
  <2> QED
    BY <1>1, <1>2, <1>3, <1>r, <2>1, ThreadStep
<1>4. CASE NoIdLeft(t)
  <2>1. Return(t) /\ UNCHANGED <<run, tmp, missed, rec, acct>>
    BY <1>4 DEF NoIdLeft, files, people
  <2>2. \A u \in UserIds : Served(t, u)' => Served(t, u)
    BY <1>r, <2>1 DEF Served
  <2> QED
    BY <1>3, <2>1, <2>2
<1>5. CASE CreateUseradd(t)
  <2>1. UNCHANGED <<run, tmp, missed, rec>> /\ act[t].pc = "useradd"
    BY <1>5 DEF CreateUseradd, files
  <2>2. PICK v \in UserIds \ ids :
           \/ Useradd(v) /\ \E h \in ReadConfig(t) : WriteForUser(t, v, h, "record")
           \/ (UseraddFails(v) \/ PrepareFails(v)) /\ Return(t)
    BY <1>5 DEF CreateUseradd
  <2>3. CASE (UseraddFails(v) \/ PrepareFails(v)) /\ Return(t)
    <3>1. acct' \subseteq acct \cup {v} /\ v \notin rec'
      BY <1>0, <2>1, <2>3 DEF UseraddFails, PrepareFails
    <3>2. \A u \in UserIds : Served(t, u)' => Served(t, u)
      BY <1>r, <2>1, <2>3, <3>1 DEF Served
    <3> QED
      BY <1>3, <2>1, <2>3, <3>2
  <2>4. CASE Useradd(v) /\ \E h \in ReadConfig(t) : WriteForUser(t, v, h, "record")
    <3>1. PICK h \in ReadConfig(t) : WriteForUser(t, v, h, "record")
      BY <2>4
    <3>2. h = cfg
      <4>1. OneThread /\ t \in Threads
        BY DEF OneThread, Single
      <4> QED
        BY <3>1, <4>1, ConfigRead
    <3>3. /\ act'[p] = act[p] /\ act'[t].pc = "open" /\ act'[t].user = v /\ act'[t].hook = cfg
          /\ act'[t].ret = "record" /\ act'[t].at = act[t].at
      BY <1>0, <3>1, <3>2 DEF WriteForUser, Actor
    <3>4. Coming(t)' = Coming(t) /\ (Pending(t, p) => Pending(t, p)')
      BY <1>p, <3>3
    <3>5. Opening(v)' /\ acct' = acct \cup {v}
      BY <1>0, <2>4, <3>3 DEF Opening, Useradd
    <3>6. \A u \in UserIds : Served(t, u)' => u = v \/ Served(t, u)
      BY <2>1, <3>3, <3>5 DEF Served, Making
    <3>7. act'[t].pc \notin CommandPcs \cup {"userdel", "cleanup"}
      BY <3>3 DEF CommandPcs
    <3> QED
      BY <1>1, <1>2, <2>1, <3>3, <3>4, <3>5, <3>6, <3>7, ThreadStep
  <2> QED
    BY <2>2, <2>3, <2>4
<1>6. CASE CreateRecord(t)
  <2>1. /\ Return(t) /\ UNCHANGED <<run, tmp, missed, acct>> /\ act[t].pc = "record"
        /\ rec' \subseteq rec \cup {act[t].user}
    BY <1>6 DEF CreateRecord, files
  <2>2. \A u \in UserIds : Served(t, u)' => Served(t, u)
    BY <1>r, <2>1 DEF Served, Making
  <2> QED
    BY <1>3, <2>1, <2>2
<1>7. CASE DeleteUnlink(t)
  <2>1. UNCHANGED <<run, tmp, acct>> /\ act[t].pc = "unlink"
    BY <1>7 DEF DeleteUnlink
  <2>2. CASE Return(t) /\ rec' = rec /\ missed' = missed
    <3>1. \A u \in UserIds : Served(t, u)' => Served(t, u)
      BY <1>r, <2>1, <2>2 DEF Served
    <3> QED
      BY <1>3, <2>1, <2>2, <3>1
  <2>3. ASSUME NEW v \in ids, rec' = rec \ {v}, missed' = missed \ {v},
               act' = [act EXCEPT ![t].pc = "userdel", ![t].user = v]
        PROVE  Roles(t, p)' /\ Carried(t, p)' /\ Synced(t)'
    <3>1. act'[p] = act[p] /\ act'[t].pc = "userdel" /\ act'[t].user = v /\ act'[t].at = act[t].at
      BY <1>0, <2>3 DEF Actor
    <3>2. Coming(t)' = Coming(t) /\ (Pending(t, p) => Pending(t, p)')
      BY <1>p, <3>1
    <3>3. \A u \in UserIds : Served(t, u)' => Served(t, u)
      BY <2>1, <2>3, <3>1 DEF Served, Making, HelperPcs
    <3>4. act'[t].pc \notin HelperPcs \cup CommandPcs /\ act'[t].user \notin rec'
      BY <2>3, <3>1 DEF HelperPcs, CommandPcs
    <3> QED
      BY <1>1, <1>2, <2>1, <3>1, <3>2, <3>3, <3>4, ThreadStep
  <2> QED
    BY <1>7, <2>2, <2>3 DEF DeleteUnlink
<1>8. CASE DeleteAccount(t)
  <2>1. UNCHANGED <<run, tmp, missed, rec>> /\ act[t].pc = "userdel" /\ acct' \subseteq acct
    BY <1>8 DEF DeleteAccount, Userdel, files
  <2>2. /\ act'[p] = act[p] /\ act'[t].pc = "cleanup" /\ act'[t].user = act[t].user
        /\ act'[t].at = act[t].at
    BY <1>0, <1>8 DEF DeleteAccount, Goto, Actor
  <2>3. Coming(t)' = Coming(t) /\ (Pending(t, p) => Pending(t, p)')
    BY <1>p, <2>2
  <2>4. \A u \in UserIds : Served(t, u)' => Served(t, u)
    BY <2>1, <2>2 DEF Served, Making, HelperPcs
  <2>5. act'[t].pc \notin HelperPcs \cup CommandPcs /\ act'[t].user \notin rec'
    BY <2>1, <2>2 DEF HelperPcs, CommandPcs, Carried
  <2> QED
    BY <1>1, <1>2, <2>1, <2>2, <2>3, <2>4, <2>5, ThreadStep
<1>9. CASE DeleteState(t)
  <2> DEFINE v == act[t].user
  <2>1. UNCHANGED <<missed, rec, acct>> /\ act[t].pc = "cleanup" /\ v \notin rec
    BY <1>9 DEF DeleteState, people, Carried
  <2>2. CASE run' = run /\ tmp' = tmp /\ Return(t)
    <3>1. \A u \in UserIds : Served(t, u)' => Served(t, u)
      BY <1>r, <2>1, <2>2 DEF Served
    <3> QED
      BY <1>3, <2>2, <3>1
  <2>3. CASE /\ run' = [run EXCEPT ![v] = {}] /\ tmp' = [tmp EXCEPT ![v] = {}]
             /\ act' = [b \in Actors |-> IF b = t THEN Idle
                                         ELSE Unlinked(act[b], v, {"tmp", "run"})]
    <3>1. act'[t] = Idle /\ act'[p] = Unlinked(act[p], v, {"tmp", "run"})
      BY <1>0, <2>3
    <3>2. /\ act'[t].pc = "idle" /\ act'[t].at = "none"
          /\ act'[p].pc = act[p].pc /\ act'[p].hook = act[p].hook /\ act'[p].user = act[p].user
          /\ act'[p].ret = act[p].ret /\ (act[p].user # v => act'[p] = act[p])
      BY <1>0, <3>1, Empty DEF Unlinked, Actor
    <3>3. Coming(t)' = Coming(t) /\ (Pending(t, p) => Pending(t, p)')
      BY <1>p, <3>2
    <3>4. Roles(t, p)'
      BY <3>2 DEF Roles, HelperPcs, CommandPcs
    <3>5. Carried(t, p)'
      BY <1>1, <3>2, <3>3 DEF Carried, HelperPcs
    <3>6. ASSUME NEW u \in UserIds, conf' = Coming(t)', Served(t, u)' PROVE InHand(u)'
      <4>1. u \in rec /\ Served(t, u) /\ u # v /\ conf = Coming(t)
        BY <1>1, <2>1, <3>2, <3>3, <3>6 DEF Served, Making, HelperPcs
      <4>2. InHand(u)
        BY <1>2, <4>1 DEF Synced
      <4>3. run'[u] = run[u] /\ tmp'[u] = tmp[u]
        BY <1>0, <2>3, <4>1
      <4>4. act[t].pc # "open"
        BY <2>1
      <4>5. \A b \in Actors :
               \/ act'[b] = act[b]
               \/ act[b].user # u /\ act'[b].user # u
               \/ act[b].at = "none" /\ act[b].pc # "open" /\ act'[b].at = "none"
        BY <1>0, <1>2, <3>2, <4>1, <4>4
      <4> QED
        BY <1>1, <4>2, <4>3, <4>5, HandFrame
    <3> QED
      BY <3>4, <3>5, <3>6 DEF Synced
  <2> QED
    BY <1>9, <2>2, <2>3 DEF DeleteState
<1> QED
  BY <1>4, <1>5, <1>6, <1>7, <1>8, <1>9

\* The commands, where the webhook is changed only once the last change was read.
LEMMA CommandSync ==
  ASSUME AfterReload,
         NEW t, NEW p, Single(t, p), TypeInv, Roles(t, p), Carried(t, p), Synced(t),
         \/ \E url \in Urls : WebhookSet(p, url)
         \/ NoIdLeft(p) \/ WebhookClear(p) \/ WebhookReplace(p) \/ AuthCreate(p)
         \/ AuthRecord(p) \/ AuthAccount(p) \/ Sighup(p)
  PROVE  Roles(t, p)' /\ Carried(t, p)' /\ Synced(t)'
<1>0. /\ act \in [Actors -> Actor] /\ t \in Actors /\ p \in Actors /\ t # p
      /\ act[p] \in Actor /\ Sound(act[p], ids) /\ Sound(act[t], ids)
      /\ rec \subseteq ids /\ acct \subseteq ids
  BY RuntimeAssumption DEF TypeInv, State, Single, Actors
<1>1. /\ act[p].pc \in {"idle", "replace", "useradd", "authrecord", "account", "hup"}
      /\ UNCHANGED <<cfg, run, tmp>>
  BY DEF WebhookSet, WebhookClear, MayChange, NoIdLeft, WebhookReplace, AuthCreate, AuthRecord,
         AuthAccount, Sighup, daemon, files
<1>2. act[p].at = "none" /\ act[p].pc \notin HelperPcs /\ act[p].pc # "useradd"
  BY <1>0, <1>1 DEF Sound, HelperPcs, Roles, ProcPcs
<1>d. ASSUME rec' = rec PROVE act[t].pc \in {"userdel", "cleanup"} => act[t].user \notin rec'
  BY <1>d DEF Carried
<1>s. ASSUME act'[t] = act[t], UNCHANGED <<rec, acct, missed>>
      PROVE  \A u \in UserIds : Served(t, u)' => Served(t, u)
  BY <1>s DEF Served, Making
<1>r. ASSUME Return(p)
      PROVE  /\ act'[t] = act[t] /\ act'[p].at = "none" /\ act'[p].pc = "idle"
             /\ act'[p].pc \in ProcPcs
             /\ act'[p].pc \notin HelperPcs \cup {"authrecord", "account"}
  BY <1>0, <1>r, Empty DEF Return, ProcPcs, HelperPcs
<1>3. ASSUME Return(p), act[p].pc # "hup", UNCHANGED <<conf, hup, missed, rec, acct>>
      PROVE  Roles(t, p)' /\ Carried(t, p)' /\ Synced(t)'
  <2>1. conf' = Coming(t) \/ Pending(t, p)'
    BY <1>3, <1>r DEF Carried, Pending
  <2> QED
    BY <1>1, <1>2, <1>3, <1>d, <1>r, <1>s, <2>1, ProcStep
<1>4. CASE NoIdLeft(p)
  <2>1. Return(p) /\ act[p].pc # "hup" /\ UNCHANGED <<conf, hup, missed, rec, acct>>
    BY <1>4 DEF NoIdLeft, files, people, daemon
  <2> QED
    BY <1>3, <2>1
<1>5. CASE (\E url \in Urls : WebhookSet(p, url)) \/ WebhookClear(p)
  <2>1. /\ UNCHANGED <<conf, hup, missed, rec, acct>> /\ MayChange(p)
        /\ \E h : act' = [act EXCEPT ![p].pc = "replace", ![p].hook = h]
    BY <1>5 DEF WebhookSet, WebhookClear, files, people, daemon
  <2>2. act'[t] = act[t] /\ act'[p].pc = "replace" /\ act'[p].at = act[p].at
    BY <1>0, <2>1 DEF Actor
  <2>3. ~Pending(t, p)
    BY <2>1 DEF MayChange, Pending, Single
  <2>4. conf' = Coming(t)
    BY <2>1, <2>3 DEF Carried
  <2>5. act'[p].pc \in ProcPcs /\ act'[p].pc \notin HelperPcs \cup {"authrecord", "account"}
    BY <2>2 DEF ProcPcs, HelperPcs
  <2> QED
    BY <1>1, <1>2, <1>d, <1>s, <2>1, <2>2, <2>4, <2>5, ProcStep
<1>6. CASE WebhookReplace(p)
  <2>1. UNCHANGED <<hup, missed, rec, acct>> /\ act[p].pc = "replace" /\ conf = Coming(t)
    BY <1>6 DEF WebhookReplace, files, people, daemon, Carried
  <2>2. CASE Goto(p, "hup")
    <3>1. act'[t] = act[t] /\ act'[p].pc = "hup" /\ act'[p].at = act[p].at
      BY <1>0, <2>2 DEF Goto, Actor
    <3>2. act'[p].pc \in ProcPcs /\ act'[p].pc \notin HelperPcs \cup {"authrecord", "account"}
          /\ Pending(t, p)'
      BY <3>1 DEF ProcPcs, HelperPcs, Pending
    <3> QED
      BY <1>1, <1>2, <1>d, <1>s, <2>1, <3>1, <3>2, ProcStep
  <2> QED
    BY <1>3, <1>6, <2>1, <2>2 DEF WebhookReplace
<1>7. CASE AuthCreate(p)
  <2>1. UNCHANGED <<conf, hup, missed, rec, acct>> /\ act[p].pc = "idle"
    BY <1>7 DEF AuthCreate, files, people, daemon
  <2>2. /\ act'[t] = act[t] /\ act'[p].pc = "authrecord" /\ act'[p].hook = conf
        /\ act'[p].at = act[p].at
    BY <1>0, <1>7 DEF AuthCreate, Actor
  <2>3. act'[p].pc \in ProcPcs /\ act'[p].pc \notin HelperPcs
    BY <2>2 DEF ProcPcs, HelperPcs
  <2>4. conf' = Coming(t) \/ Pending(t, p)'
    BY <2>1, <2>2 DEF Carried, Pending
  <2> QED
    BY <1>1, <1>2, <1>d, <1>s, <2>1, <2>2, <2>3, <2>4, ProcStep
<1>8. CASE AuthRecord(p)
  <2>1. UNCHANGED <<conf, hup, missed, acct>> /\ act[p].pc = "authrecord"
    BY <1>8 DEF AuthRecord, files, daemon
  <2>2. CASE Return(p) /\ rec' = rec
    BY <1>3, <2>1, <2>2
  <2>3. ASSUME NEW v \in UserIds \ ids, rec' = rec \cup {v},
               act' = [act EXCEPT ![p].pc = "account", ![p].user = v]
        PROVE  Roles(t, p)' /\ Carried(t, p)' /\ Synced(t)'
    <3>1. /\ act'[t] = act[t] /\ act'[p].pc = "account" /\ act'[p].hook = act[p].hook
          /\ act'[p].at = act[p].at
      BY <1>0, <2>3 DEF Actor
    <3>2. act'[p].pc \in ProcPcs /\ act'[p].pc \notin HelperPcs
      BY <3>1 DEF ProcPcs, HelperPcs
    <3>3. act'[p].hook = conf'
      BY <2>1, <3>1 DEF Carried
    <3>4. conf' = Coming(t) \/ Pending(t, p)'
      BY <2>1, <3>1 DEF Carried, Pending
    <3>5. act[t].pc \in {"userdel", "cleanup"} => act[t].user \notin rec'
      BY <1>0, <2>3 DEF Carried, Sound
    <3>6. \A u \in UserIds : Served(t, u)' => Served(t, u)
      BY <1>0, <2>1, <2>3, <3>1 DEF Served, Making
    <3> QED
      BY <1>1, <1>2, <2>1, <3>1, <3>2, <3>3, <3>4, <3>5, <3>6, ProcStep
  <2> QED
    BY <1>8, <2>2, <2>3 DEF AuthRecord
<1>9. CASE AuthAccount(p)
  <2> DEFINE v == act[p].user
  <2>1. UNCHANGED <<conf, hup, rec>> /\ act[p].pc = "account" /\ act[p].hook = conf
    BY <1>9 DEF AuthAccount, daemon, Carried
  <2>2. CASE Useradd(v) /\ WriteForUser(p, v, act[p].hook, "hup") /\ missed' = missed
    <3>1. /\ act'[t] = act[t] /\ act'[p].pc = "open" /\ act'[p].hook = conf
          /\ act'[p].at = act[p].at /\ act'[p].ret = "hup" /\ act'[p].user = v
      BY <1>0, <2>1, <2>2 DEF WriteForUser, Actor
    <3>2. act'[p].pc \in ProcPcs
      BY <3>1 DEF ProcPcs, HelperPcs
    <3>3. conf' = Coming(t) \/ Pending(t, p)'
      BY <2>1, <3>1 DEF Carried, Pending
    <3>4. Opening(v)' /\ acct' = acct \cup {v}
      BY <1>0, <2>2, <3>1 DEF Opening, Useradd
    <3>5. \A u \in UserIds : Served(t, u)' => u = v \/ Served(t, u)
      BY <2>1, <2>2, <3>1, <3>4 DEF Served, Making
    <3> QED
      BY <1>1, <1>2, <1>d, <2>1, <3>1, <3>2, <3>3, <3>4, <3>5, ProcStep
  <2>3. CASE (UseraddFails(v) \/ PrepareFails(v)) /\ Goto(p, "hup") /\ missed' = missed \cup {v}
    <3>1. act'[t] = act[t] /\ act'[p].pc = "hup" /\ act'[p].at = act[p].at
      BY <1>0, <2>3 DEF Goto, Actor
    <3>2. act'[p].pc \in ProcPcs /\ act'[p].pc \notin HelperPcs \cup {"authrecord", "account"}
          /\ Pending(t, p)'
      BY <3>1 DEF ProcPcs, HelperPcs, Pending
    <3>3. acct' \subseteq acct \cup {v}
      BY <2>3 DEF UseraddFails, PrepareFails
    <3>4. \A u \in UserIds : Served(t, u)' => Served(t, u)
      BY <2>1, <2>3, <3>1, <3>3 DEF Served, Making
    <3> QED
      BY <1>1, <1>2, <1>d, <2>1, <3>1, <3>2, <3>4, ProcStep
  <2> QED
    BY <1>9, <2>2, <2>3 DEF AuthAccount
<1>10. CASE Sighup(p)
  <2>1. UNCHANGED <<conf, missed, rec, acct>> /\ Return(p) /\ Pending(t, p)'
    BY <1>10 DEF Sighup, files, people, Pending
  <2> QED
    BY <1>1, <1>2, <1>d, <1>r, <1>s, <2>1, ProcStep
<1> QED
  BY <1>4, <1>5, <1>6, <1>7, <1>8, <1>9, <1>10

\* A daemon that was restarted, or could not read mcp.json, remains one.
LEMMA BrokenStays ==
  ASSUME Next, broken PROVE broken'
<1>1. ASSUME NEW a \in Actors, Helper(a) \/ NoIdLeft(a) PROVE broken'
  BY <1>1 DEF Helper, HelperOpen, HelperWrite, HelperRename, HelperFail, NoIdLeft, daemon
<1>2. ASSUME NEW t \in Threads,
             \/ Load(t) \/ Compare(t) \/ Assign(t) \/ EndWalk(t) \/ CreateUseradd(t)
             \/ CreateRecord(t) \/ DeleteUnlink(t) \/ DeleteAccount(t) \/ DeleteState(t)
      PROVE  broken'
  BY <1>2 DEF Load, Compare, Assign, EndWalk, CreateUseradd, CreateRecord, DeleteUnlink,
              DeleteAccount, DeleteState, daemon
<1>3. ASSUME NEW t \in Threads,
             (\E next \in ToolPcs : Request(t, next)) \/ \E u \in UserIds : Visit(t, u)
      PROVE  broken'
  BY <1>3 DEF Request, Visit, daemon
<1>4. ASSUME NEW p \in Procs,
             \/ \E url \in Urls : WebhookSet(p, url)
             \/ WebhookClear(p) \/ WebhookReplace(p) \/ AuthCreate(p) \/ AuthRecord(p)
             \/ AuthAccount(p) \/ Sighup(p)
      PROVE  broken'
  BY <1>4 DEF WebhookSet, WebhookClear, WebhookReplace, AuthCreate, AuthRecord, AuthAccount,
              Sighup, daemon
<1>5. Restart => broken'
  BY DEF Restart
<1> QED
  BY <1>1, <1>2, <1>3, <1>4, <1>5 DEF Next

\* Every step preserves SyncInv.
LEMMA SyncStep ==
  ASSUME AfterReload, NEW t, NEW p, Single(t, p), TypeInv, SyncInv(t, p), Next
  PROVE  SyncInv(t, p)'
<1> SUFFICES ASSUME ~broken' PROVE Roles(t, p)' /\ Carried(t, p)' /\ Synced(t)'
  BY DEF SyncInv
<1>0. /\ Actors = {t, p} /\ Threads = {t} /\ Procs = {p}
      /\ Roles(t, p) /\ Carried(t, p) /\ Synced(t)
  BY BrokenStays DEF Single, Actors, SyncInv
<1>1. ASSUME NEW a \in Actors, Helper(a) PROVE Roles(t, p)' /\ Carried(t, p)' /\ Synced(t)'
  BY <1>0, <1>1, HelperSync
<1>2. ASSUME \/ \E next \in ToolPcs : Request(t, next)
             \/ Load(t) \/ Compare(t) \/ Assign(t) \/ EndWalk(t)
             \/ \E u \in UserIds : Visit(t, u)
      PROVE  Roles(t, p)' /\ Carried(t, p)' /\ Synced(t)'
  BY <1>0, <1>2, ReloadSync
<1>3. ASSUME \/ NoIdLeft(t) \/ CreateUseradd(t) \/ CreateRecord(t)
             \/ DeleteUnlink(t) \/ DeleteAccount(t) \/ DeleteState(t)
      PROVE  Roles(t, p)' /\ Carried(t, p)' /\ Synced(t)'
  BY <1>0, <1>3, ToolSync
<1>4. ASSUME \/ \E url \in Urls : WebhookSet(p, url)
             \/ NoIdLeft(p) \/ WebhookClear(p) \/ WebhookReplace(p) \/ AuthCreate(p)
             \/ AuthRecord(p) \/ AuthAccount(p) \/ Sighup(p)
      PROVE  Roles(t, p)' /\ Carried(t, p)' /\ Synced(t)'
  BY <1>0, <1>4, CommandSync
<1>5. ~Restart
  BY DEF Restart
<1> QED
  BY <1>0, <1>1, <1>2, <1>3, <1>4, <1>5 DEF Next

\* For the life of one daemon process that could read mcp.json: when nothing is pending
\* or running, every user's runtime.json holds, whole, the webhook of mcp.json, but for
\* those a failure was reported of. There is one HTTP thread and one command at a time,
\* which changes the webhook only once the last change was read; their helpers may
\* overlap in one user's files in every way, fail at every step, and users come and go.
THEOREM SyncedRun ==
  ASSUME AfterReload, NEW t, NEW p, Single(t, p)
  PROVE  Spec => []SyncedInOneRun
<1> DEFINE Inv == SyncInv(t, p)
<1>0. Actors = {t, p} /\ t \in Actors /\ p \in Actors
  BY DEF Single, Actors
<1>1. Init => Inv
  <2> SUFFICES ASSUME Init PROVE Roles(t, p) /\ Carried(t, p) /\ Synced(t)
    BY DEF SyncInv
  <2>1. act[t] = Idle /\ act[p] = Idle
    BY <1>0 DEF Init
  <2>2. Roles(t, p)
    BY <2>1, Empty DEF Roles, ProcPcs, HelperPcs, CommandPcs
  <2>3. Carried(t, p)
    BY <2>1, Empty DEF Init, Carried, Coming, HelperPcs
  <2>4. ASSUME NEW u \in UserIds, Served(t, u) PROVE InHand(u)
    <3>1. u \in Existing
      BY <2>1, <2>4, Empty DEF Init, Served, Making, HelperPcs
    <3>2. run[u] = {{conf}} /\ tmp[u] = {} /\ \A a \in Actors : ~AtTmp(a, u)
      BY <1>0, <2>1, <3>1, Empty DEF Init, AtTmp
    <3> QED
      BY <3>2 DEF InHand, TmpFine, RunFine
  <2> QED
    BY <2>2, <2>3, <2>4 DEF Synced
<1>2. TypeInv /\ Inv /\ [Next]_vars => Inv'
  <2>1. TypeInv /\ Inv /\ Next => Inv'
    BY SyncStep
  <2>2. Inv /\ UNCHANGED vars => Inv'
    BY DEF vars, SyncInv, Roles, Carried, Synced, Coming, Pending, Served, Making, WillVisit,
           InHand, Opening, TmpFine, RunFine, AtTmp, AtRun
  <2> QED
    BY <2>1, <2>2
<1>3. TypeInv /\ Inv => SyncedInOneRun
  <2> SUFFICES ASSUME TypeInv, Roles(t, p), Carried(t, p), Synced(t), Quiet,
                      NEW u \in (rec \cap acct) \ missed
               PROVE  run[u] = {{conf}}
    BY DEF SyncedInOneRun, SyncedWhenQuiet, SyncInv
  <2>1. act[t].pc = "idle" /\ act[p].pc = "idle" /\ ~hup /\ u \in UserIds
        /\ \A a \in Actors : act[a].pc = "idle" /\ act[a].at = "none"
    BY <1>0 DEF Quiet, TypeInv, State, Sound
  <2>2. conf = Coming(t) /\ Served(t, u) /\ ~WillVisit(t, u)
    BY <2>1 DEF Carried, Pending, Served, WillVisit, HelperPcs
  <2>3. InHand(u)
    BY <2>1, <2>2 DEF Synced
  <2> QED
    BY <2>1, <2>3 DEF InHand, Opening, RunFine, AtTmp, AtRun
<1> HIDE DEF Inv
<1> QED
  BY <1>1, <1>2, <1>3, TypeInvariant, PTL DEF Spec
=============================================================================
