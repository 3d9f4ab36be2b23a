---------------------------- MODULE UsersProofs -----------------------------
(***************************************************************************)
(* Proofs about Users: the user records, the index by token hash, and the  *)
(* tools and commands that change them.                                    *)
(***************************************************************************)
EXTENDS Users, TLAPS

Pcs == {"idle", "auth", "served"} \cup ReloadPcs \cup ToolPcs
Thread == [pc : Pcs, op : {"call"} \cup ToolKinds, user : UserIds \cup {NoUser},
           tok : Token, floor : Token, snap : Image]
Cli == [pc : {"idle", "rewrite", "useradd", "hup"}, user : UserIds \cup {NoUser}, tok : Token]

Files ==
    /\ rec \in Image /\ made \in Image /\ index \in Image /\ dead \in Image
    /\ acct \subseteq UserIds /\ hup \in BOOLEAN
    /\ thr \in [Threads -> Thread] /\ cli \in Cli

\* What a request holds: a user, tokens that were made for him, and for a tool the
\* place it has got to.
Holds(t) ==
    /\ thr[t].pc # "idle" => thr[t].user \in UserIds
    /\ \A u \in UserIds : thr[t].snap[u] <= made[u]
    /\ thr[t].pc = "record" => made[thr[t].user] >= 1
    /\ thr[t].pc = "rewrite" => thr[t].tok <= made[thr[t].user]
    /\ thr[t].pc \in {"useradd", "record"} => thr[t].op = "create"
    /\ thr[t].pc \in {"read", "rewrite"} => thr[t].op = "update"
    /\ thr[t].pc \in {"unlink", "userdel"} => thr[t].op = "delete"
    /\ thr[t].pc \in {"scanAfter", "swapAfter"} => thr[t].op # "call"
    /\ thr[t].pc = "served" => thr[t].op = "call"
    /\ thr[t].pc # "idle" /\ thr[t].op = "call" => thr[t].tok >= 1

CliHolds ==
    cli.pc # "idle" => cli.user \in UserIds /\ cli.tok >= 1 /\ cli.tok <= made[cli.user]

\* A token is recorded, indexed or withdrawn only once it was made.
Made == \A u \in UserIds : rec[u] <= made[u] /\ index[u] <= made[u] /\ dead[u] <= made[u]

TypeInv == Files /\ Made /\ CliHolds /\ \A t \in Threads : Holds(t)

\* The values an idle thread and an idle command hold are well typed.
LEMMA Empty ==
    /\ NoImage \in Image /\ \A u \in UserIds : NoImage[u] = 0
    /\ 0 \in Token /\ 1 \in Token /\ Token \subseteq Nat /\ MaxTokens \in Nat
    /\ IdleThread \in Thread /\ IdleThread.pc = "idle" /\ IdleThread.op = "call"
    /\ IdleThread.snap = NoImage
    /\ IdleCli \in Cli /\ IdleCli.pc = "idle"
<1>1. 0 \in Token /\ 1 \in Token /\ Token \subseteq Nat /\ MaxTokens \in Nat
  BY UsersAssumption DEF Token
<1>2. NoImage \in Image /\ \A u \in UserIds : NoImage[u] = 0
  BY <1>1 DEF NoImage, Image
<1> QED
  BY <1>1, <1>2 DEF IdleThread, IdleCli, Thread, Cli, Pcs

\* What Goto does to the request of thread t.
LEMMA GotoMoves ==
  ASSUME thr \in [Threads -> Thread], NEW t \in Threads, NEW pc \in Pcs, Goto(t, pc)
  PROVE  /\ thr' \in [Threads -> Thread] /\ \A s \in Threads \ {t} : thr'[s] = thr[s]
         /\ thr'[t].pc = pc /\ thr'[t].op = thr[t].op /\ thr'[t].user = thr[t].user
         /\ thr'[t].tok = thr[t].tok /\ thr'[t].floor = thr[t].floor
         /\ thr'[t].snap = thr[t].snap
BY DEF Goto, Thread

\* What EndRequest does.
LEMMA EndMoves ==
  ASSUME thr \in [Threads -> Thread], NEW t \in Threads, EndRequest(t)
  PROVE  /\ thr' \in [Threads -> Thread] /\ \A s \in Threads \ {t} : thr'[s] = thr[s]
         /\ thr'[t] = IdleThread
BY Empty DEF EndRequest

\* What a request that comes in starts with.
LEMMA EnterMoves ==
  ASSUME Files, NEW t \in Threads, NEW op \in {"call"} \cup ToolKinds, NEW u \in UserIds,
         NEW tok \in Token, Enter(t, op, u, tok)
  PROVE  /\ thr' \in [Threads -> Thread] /\ \A s \in Threads \ {t} : thr'[s] = thr[s]
         /\ thr'[t].pc = (IF hup THEN "scan" ELSE "auth") /\ thr'[t].op = op
         /\ thr'[t].user = u /\ thr'[t].tok = tok /\ thr'[t].floor = dead[u]
         /\ thr'[t].snap = NoImage
<1> DEFINE r == [pc |-> IF hup THEN "scan" ELSE "auth", op |-> op, user |-> u, tok |-> tok,
                 floor |-> dead[u], snap |-> NoImage]
<1>1. /\ r.pc = (IF hup THEN "scan" ELSE "auth") /\ r.op = op /\ r.user = u /\ r.tok = tok
      /\ r.floor = dead[u] /\ r.snap = NoImage
  OBVIOUS
<1>2. dead[u] \in Token /\ (IF hup THEN "scan" ELSE "auth") \in Pcs /\ thr \in [Threads -> Thread]
  BY DEF Files, Image, Pcs, ReloadPcs
<1>3. r \in Thread
  BY <1>2, Empty DEF Thread
<1>4. thr' = [thr EXCEPT ![t] = r]
  BY DEF Enter
<1> HIDE DEF r
<1> QED
  BY <1>1, <1>2, <1>3, <1>4

\* What Scan does.
LEMMA ScanMoves ==
  ASSUME Files, NEW t \in Threads, Scan(t)
  PROVE  /\ thr' \in [Threads -> Thread] /\ \A s \in Threads \ {t} : thr'[s] = thr[s]
         /\ thr'[t].pc = (IF thr[t].pc = "scan" THEN "swap" ELSE "swapAfter")
         /\ thr'[t].op = thr[t].op /\ thr'[t].user = thr[t].user
         /\ thr'[t].tok = thr[t].tok /\ thr'[t].floor = thr[t].floor /\ thr'[t].snap = rec
<1>1. thr \in [Threads -> Thread] /\ rec \in Image /\ {"swap", "swapAfter"} \subseteq Pcs
  BY DEF Files, Pcs, ReloadPcs
<1> QED
  BY <1>1 DEF Scan, Thread

\* What UpdateRead does when there is a record.
LEMMA ReadMoves ==
  ASSUME Files, NEW t \in Threads, UpdateRead(t), thr[t].user \in UserIds, rec[thr[t].user] # 0
  PROVE  /\ thr' \in [Threads -> Thread] /\ \A s \in Threads \ {t} : thr'[s] = thr[s]
         /\ thr'[t].pc = "rewrite" /\ thr'[t].op = thr[t].op /\ thr'[t].user = thr[t].user
         /\ thr'[t].tok = rec[thr[t].user] /\ thr'[t].floor = thr[t].floor
         /\ thr'[t].snap = thr[t].snap
<1>1. thr \in [Threads -> Thread] /\ rec[thr[t].user] \in Token /\ "rewrite" \in Pcs
  BY DEF Files, Pcs, ToolPcs, Image
<1> QED
  BY <1>1 DEF UpdateRead, Thread

\* Every step preserves TypeInv.
LEMMA TypeStep ==
  ASSUME TypeInv, [Next]_vars
  PROVE  TypeInv'
<1>0. /\ Files /\ Made /\ CliHolds /\ \A t \in Threads : Holds(t)
      /\ rec \in Image /\ made \in Image /\ index \in Image /\ dead \in Image
      /\ acct \subseteq UserIds /\ hup \in BOOLEAN
      /\ thr \in [Threads -> Thread] /\ cli \in Cli
  BY DEF TypeInv, Files
<1>n. /\ Token \subseteq Nat /\ 0 \in Token /\ 1 \in Token
      /\ \A f \in Image, u \in UserIds : f[u] \in Nat
  BY Empty DEF Image
<1>u. ASSUME NEW u \in UserIds, NEW f \in Image, NEW n \in Token
      PROVE  [f EXCEPT ![u] = n] \in Image
  BY DEF Image
<1>h. ASSUME NEW s \in Threads, thr'[s] = thr[s], \A u \in UserIds : made[u] <= made'[u],
             made' \in Image
      PROVE  Holds(s)'
  <2>1. thr[s] \in Thread
    BY <1>0
  <2>2. /\ \A u \in UserIds : thr[s].snap[u] \in Nat /\ made[u] \in Nat /\ made'[u] \in Nat
        /\ thr[s].tok \in Nat
    BY <1>0, <1>h, <1>n, <2>1 DEF Thread
  <2> QED
    BY <1>0, <1>h, <2>2 DEF Holds
<1>e. ASSUME NEW t \in Threads, EndRequest(t), \A u \in UserIds : made[u] <= made'[u], made' \in Image
      PROVE  thr' \in [Threads -> Thread] /\ \A s \in Threads : Holds(s)'
  <2>1. /\ thr' \in [Threads -> Thread] /\ \A s \in Threads \ {t} : thr'[s] = thr[s]
        /\ thr'[t] = IdleThread
    BY <1>0, <1>e, EndMoves
  <2>2. Holds(t)'
    <3>1. \A u \in UserIds : made'[u] \in Nat
      BY <1>e, <1>n
    <3> QED
      BY <2>1, <3>1, Empty DEF Holds
  <2> QED
    BY <1>e, <1>h, <2>1, <2>2
<1>g. ASSUME NEW t \in Threads, NEW pc \in Pcs, Goto(t, pc), thr[t].pc # "idle",
             \A u \in UserIds : made[u] <= made'[u], made' \in Image,
             pc = "record" => made'[thr[t].user] >= 1,
             pc # "rewrite",
             pc \in {"useradd", "record"} => thr[t].op = "create",
             pc = "read" => thr[t].op = "update",
             pc \in {"unlink", "userdel"} => thr[t].op = "delete",
             pc \in {"scanAfter", "swapAfter"} => thr[t].op # "call",
             pc = "served" => thr[t].op = "call"
      PROVE  thr' \in [Threads -> Thread] /\ \A s \in Threads : Holds(s)'
  <2>1. /\ thr' \in [Threads -> Thread] /\ \A s \in Threads \ {t} : thr'[s] = thr[s]
        /\ thr'[t].pc = pc /\ thr'[t].op = thr[t].op /\ thr'[t].user = thr[t].user
        /\ thr'[t].tok = thr[t].tok /\ thr'[t].floor = thr[t].floor
        /\ thr'[t].snap = thr[t].snap
    BY <1>0, <1>g, GotoMoves
  <2>2. /\ \A u \in UserIds : thr[t].snap[u] \in Nat /\ made[u] \in Nat /\ made'[u] \in Nat
        /\ thr[t].tok \in Nat
    BY <1>0, <1>g, <1>n DEF Thread
  <2>3. Holds(t)'
    BY <1>0, <1>g, <2>1, <2>2 DEF Holds
  <2> QED
    BY <1>g, <1>h, <2>1, <2>3
<1>m. UNCHANGED made => (\A u \in UserIds : made[u] <= made'[u]) /\ made' \in Image
  BY <1>0, <1>n
<1>w. ASSUME NEW t \in Threads, thr[t].pc # "idle"
      PROVE  thr[t].user \in UserIds /\ thr[t] \in Thread /\ Holds(t)
  BY <1>0, <1>w DEF Holds
<1>1. ASSUME NEW t \in Threads, NEW op \in {"call"} \cup ToolKinds, NEW u \in UserIds,
             NEW tok \in Token, Enter(t, op, u, tok), op = "call" => tok >= 1
      PROVE  TypeInv'
  <2>1. /\ thr' \in [Threads -> Thread] /\ \A s \in Threads \ {t} : thr'[s] = thr[s]
        /\ thr'[t].pc = (IF hup THEN "scan" ELSE "auth") /\ thr'[t].op = op
        /\ thr'[t].user = u /\ thr'[t].tok = tok /\ thr'[t].snap = NoImage
    BY <1>0, <1>1, EnterMoves
  <2>2. UNCHANGED <<rec, acct, made, index, cli, dead>> /\ hup' \in BOOLEAN
    BY <1>1 DEF Enter
  <2>3. Holds(t)'
    BY <1>0, <1>1, <1>n, <2>1, <2>2, Empty DEF Holds
  <2>4. \A s \in Threads : Holds(s)'
    BY <1>h, <1>m, <2>1, <2>2, <2>3
  <2> QED
    BY <1>0, <2>1, <2>2, <2>4 DEF TypeInv, Files, Made, CliHolds
<1>2. ASSUME NEW t \in Threads, NEW u \in UserIds, Call(t, u) PROVE TypeInv'
  <2>1. PICK tok \in 1..made[u] : Enter(t, "call", u, tok)
    BY <1>2 DEF Call
  <2>2. tok \in Token /\ tok >= 1
    BY <1>0, <1>n, UsersAssumption DEF Image, Token
  <2> QED
    BY <1>1, <2>1, <2>2
<1>3. ASSUME NEW t \in Threads, NEW op \in ToolKinds, NEW u \in UserIds, ToolCall(t, op, u)
      PROVE  TypeInv'
  BY <1>1, <1>3, <1>n DEF ToolCall, ToolKinds
<1>4. ASSUME NEW t \in Threads, Scan(t) PROVE TypeInv'
  <2>1. /\ thr' \in [Threads -> Thread] /\ \A s \in Threads \ {t} : thr'[s] = thr[s]
        /\ thr'[t].pc = (IF thr[t].pc = "scan" THEN "swap" ELSE "swapAfter")
        /\ thr'[t].op = thr[t].op /\ thr'[t].user = thr[t].user
        /\ thr'[t].tok = thr[t].tok /\ thr'[t].snap = rec
    BY <1>0, <1>4, ScanMoves
  <2>2. UNCHANGED <<rec, acct, made, index, hup, cli, dead>> /\ thr[t].pc \in {"scan", "scanAfter"}
    BY <1>4 DEF Scan
  <2>3. Holds(t)'
    BY <1>0, <2>1, <2>2 DEF Holds, Made
  <2>4. \A s \in Threads : Holds(s)'
    BY <1>h, <1>m, <2>1, <2>2, <2>3
  <2> QED
    BY <1>0, <2>1, <2>2, <2>4 DEF TypeInv, Files, Made, CliHolds
<1>5. ASSUME NEW t \in Threads, Swap(t) PROVE TypeInv'
  <2>1. /\ UNCHANGED <<rec, acct, made, hup, cli>> /\ thr[t].pc \in {"swap", "swapAfter"}
        /\ index' = thr[t].snap /\ thr[t].pc # "idle" /\ thr[t].user \in UserIds /\ Holds(t)
        /\ thr[t] \in Thread
    BY <1>5, <1>w DEF Swap
  <2>2. index' \in Image /\ \A u \in UserIds : index'[u] <= made[u]
    BY <2>1 DEF Holds, Thread
  <2>3. dead' \in Image /\ \A u \in UserIds : dead'[u] <= made[u]
    <3>1. made[thr[t].user] \in Token /\ made[thr[t].user] \in Nat
      BY <1>0, <1>n, <2>1 DEF Image
    <3>2. CASE dead' = dead
      BY <1>0, <3>2 DEF Made
    <3>3. CASE dead' = [dead EXCEPT ![thr[t].user] = made[thr[t].user]]
      BY <1>0, <1>u, <2>1, <3>1, <3>3 DEF Made, Image
    <3> QED
      BY <1>5, <3>2, <3>3 DEF Swap
  <2>4. thr' \in [Threads -> Thread] /\ \A s \in Threads : Holds(s)'
    <3>1. CASE Goto(t, "auth")
      BY <1>g, <1>m, <2>1, <3>1 DEF Pcs
    <3>2. CASE EndRequest(t)
      BY <1>e, <1>m, <2>1, <3>2
    <3> QED
      BY <1>5, <3>1, <3>2 DEF Swap
  <2> QED
    BY <1>0, <2>1, <2>2, <2>3, <2>4 DEF TypeInv, Files, Made, CliHolds
\* the steps of a tool: what they do to the records, and that the request stays in shape
<1>t. ASSUME NEW t \in Threads, thr' \in [Threads -> Thread], \A s \in Threads : Holds(s)',
             UNCHANGED <<index, hup, cli, dead>>, rec' \in Image, made' \in Image,
             acct' \subseteq UserIds, \A u \in UserIds : made[u] <= made'[u] /\ rec'[u] <= made'[u]
      PROVE  TypeInv'
  <2>1. Made'
    BY <1>0, <1>n, <1>t DEF Made
  <2>2. CliHolds'
    <3>1. cli.tok \in Nat
      BY <1>0, <1>n DEF Cli
    <3> QED
      BY <1>0, <1>n, <1>t, <3>1 DEF CliHolds
  <2> QED
    BY <1>0, <1>t, <2>1, <2>2 DEF TypeInv, Files
<1>6. ASSUME NEW t \in Threads, Auth(t) \/ Reply(t) PROVE TypeInv'
  <2>1. UNCHANGED <<rec, acct, made, index, hup, cli, dead>> /\ thr[t].pc # "idle"
    BY <1>6 DEF Auth, Reply
  <2>2. thr[t].op \in {"call", "create", "update", "delete"}
    BY <1>w, <2>1 DEF Thread, ToolKinds
  <2>3. thr' \in [Threads -> Thread] /\ \A s \in Threads : Holds(s)'
    <3>1. CASE EndRequest(t)
      BY <1>e, <1>m, <2>1, <3>1
    <3>2. CASE Goto(t, "served") /\ thr[t].op = "call"
      BY <1>g, <1>m, <2>1, <3>2 DEF Pcs
    <3>3. CASE \/ Goto(t, "useradd") /\ thr[t].op = "create"
               \/ Goto(t, "read") /\ thr[t].op = "update"
               \/ Goto(t, "unlink") /\ thr[t].op = "delete"
      BY <1>g, <1>m, <2>1, <3>3 DEF Pcs, ToolPcs
    <3> QED
      BY <1>6, <2>2, <3>1, <3>2, <3>3 DEF Auth, Reply
  <2> QED
    BY <1>0, <1>n, <1>t, <2>1, <2>3 DEF Made
<1>7. ASSUME NEW t \in Threads, CreateUseradd(t) PROVE TypeInv'
  <2>1. /\ UNCHANGED <<rec, index, hup, cli, dead>> /\ thr[t].pc = "useradd"
        /\ thr[t].user \in UserIds /\ thr[t].op = "create" /\ made[thr[t].user] = 0
        /\ made' = [made EXCEPT ![thr[t].user] = 1] /\ acct' \subseteq UserIds
    BY <1>0, <1>7, <1>w DEF CreateUseradd, Holds
  <2>2. /\ made' \in Image /\ made'[thr[t].user] = 1
        /\ \A u \in UserIds : made[u] <= made'[u] /\ rec'[u] <= made'[u]
    BY <1>0, <1>n, <1>u, <2>1 DEF Made, Image
  <2>3. thr' \in [Threads -> Thread] /\ \A s \in Threads : Holds(s)'
    <3>1. CASE EndRequest(t)
      BY <1>e, <2>2, <3>1
    <3>2. CASE Goto(t, "record")
      BY <1>g, <2>1, <2>2, <3>2 DEF Pcs, ToolPcs
    <3> QED
      BY <1>7, <3>1, <3>2 DEF CreateUseradd
  <2> QED
    BY <1>0, <1>t, <2>1, <2>2, <2>3
<1>8. ASSUME NEW t \in Threads, CreateRecord(t) \/ UpdateRewrite(t) \/ DeleteUnlink(t)
      PROVE TypeInv'
  <2>1. /\ UNCHANGED <<acct, made, index, hup, cli, dead>> /\ thr[t].pc # "idle"
        /\ thr[t].pc \in {"record", "rewrite", "unlink"} /\ thr[t].user \in UserIds
    BY <1>8, <1>w DEF CreateRecord, UpdateRewrite, DeleteUnlink
  <2>2. thr' \in [Threads -> Thread] /\ \A s \in Threads : Holds(s)'
    <3>1. CASE EndRequest(t)
      BY <1>e, <1>m, <2>1, <3>1
    <3>2. CASE Goto(t, "scanAfter")
      <4>1. thr[t].op # "call"
        BY <1>w, <2>1 DEF Holds
      <4> QED
        BY <1>g, <1>m, <2>1, <3>2, <4>1 DEF Pcs, ReloadPcs
    <3>3. CASE Goto(t, "userdel") /\ thr[t].pc = "unlink"
      <4>1. thr[t].op = "delete"
        BY <1>w, <3>3 DEF Holds
      <4> QED
        BY <1>g, <1>m, <2>1, <3>3, <4>1 DEF Pcs, ToolPcs
    <3> QED
      BY <1>8, <3>1, <3>2, <3>3 DEF CreateRecord, UpdateRewrite, DeleteUnlink
  <2>3. rec' \in Image /\ \A u \in UserIds : rec'[u] <= made[u]
    <3>1. ASSUME NEW n \in Token, n <= made[thr[t].user], rec' = [rec EXCEPT ![thr[t].user] = n]
          PROVE  rec' \in Image /\ \A u \in UserIds : rec'[u] <= made[u]
      BY <1>0, <1>u, <2>1, <3>1 DEF Made, Image
    <3>2. CASE rec' = rec
      BY <1>0, <3>2 DEF Made
    <3>3. CASE CreateRecord(t) /\ rec' = [rec EXCEPT ![thr[t].user] = 1]
      <4>1. 1 <= made[thr[t].user]
        BY <1>0, <1>n, <1>w, <2>1, <3>3 DEF CreateRecord, Holds
      <4> QED
        BY <1>n, <3>1, <3>3, <4>1
    <3>4. CASE UpdateRewrite(t) /\ rec' = [rec EXCEPT ![thr[t].user] = thr[t].tok]
      <4>1. thr[t].pc = "rewrite"
        BY <3>4 DEF UpdateRewrite
      <4>2. thr[t].tok \in Token /\ thr[t].tok <= made[thr[t].user]
        BY <1>w, <4>1 DEF Holds, Thread
      <4> QED
        BY <3>1, <3>4, <4>2
    <3>5. CASE rec' = [rec EXCEPT ![thr[t].user] = 0]
      <4>1. 0 \in Token /\ 0 <= made[thr[t].user]
        BY <1>0, <1>n, <2>1
      <4> QED
        BY <3>1, <3>5, <4>1
    <3> QED
      BY <1>8, <3>2, <3>3, <3>4, <3>5 DEF CreateRecord, UpdateRewrite, DeleteUnlink
  <2> QED
    BY <1>0, <1>n, <1>t, <2>1, <2>2, <2>3
<1>9. ASSUME NEW t \in Threads, UpdateRead(t) PROVE TypeInv'
  <2>1. /\ UNCHANGED <<rec, acct, made, index, hup, cli, dead>> /\ thr[t].pc = "read"
        /\ thr[t].user \in UserIds /\ thr[t].op = "update" /\ Holds(t)
    BY <1>9, <1>w DEF UpdateRead, Holds
  <2>2. thr' \in [Threads -> Thread] /\ \A s \in Threads : Holds(s)'
    <3>1. CASE rec[thr[t].user] = 0
      BY <1>9, <1>e, <1>m, <2>1, <3>1 DEF UpdateRead
    <3>2. CASE rec[thr[t].user] # 0
      <4>1. /\ thr' \in [Threads -> Thread] /\ \A s \in Threads \ {t} : thr'[s] = thr[s]
            /\ thr'[t].pc = "rewrite" /\ thr'[t].op = thr[t].op /\ thr'[t].user = thr[t].user
            /\ thr'[t].tok = rec[thr[t].user] /\ thr'[t].snap = thr[t].snap
        BY <1>0, <1>9, <2>1, <3>2, ReadMoves
      <4>2. Holds(t)'
        BY <1>0, <2>1, <4>1 DEF Holds, Made
      <4> QED
        BY <1>h, <1>m, <2>1, <4>1, <4>2
    <3> QED
      BY <3>1, <3>2
  <2> QED
    BY <1>0, <1>n, <1>t, <2>1, <2>2 DEF Made
<1>10. ASSUME NEW t \in Threads, DeleteAccount(t) PROVE TypeInv'
  <2>1. /\ UNCHANGED <<rec, made, index, hup, cli, dead>> /\ thr[t].pc = "userdel"
        /\ thr[t].op = "delete" /\ acct' \subseteq UserIds /\ Goto(t, "scanAfter")
    BY <1>0, <1>10, <1>w DEF DeleteAccount, Holds
  <2>2. thr' \in [Threads -> Thread] /\ \A s \in Threads : Holds(s)'
    BY <1>g, <1>m, <2>1 DEF Pcs, ReloadPcs
  <2> QED
    BY <1>0, <1>n, <1>t, <2>1, <2>2 DEF Made
\* the auth commands leave the requests alone
<1>c. ASSUME UNCHANGED <<index, thr>>, hup' \in BOOLEAN, acct' \subseteq UserIds, made' \in Image,
             rec' \in Image, dead' \in Image, cli' \in Cli, CliHolds',
             \A u \in UserIds : made[u] <= made'[u] /\ rec'[u] <= made'[u] /\ dead'[u] <= made'[u]
      PROVE  TypeInv'
  <2>1. \A s \in Threads : Holds(s)'
    BY <1>c, <1>h
  <2>2. Made'
    BY <1>0, <1>c, <1>n DEF Made
  <2> QED
    BY <1>0, <1>c, <2>1, <2>2 DEF TypeInv, Files
<1>d. \A u \in UserIds : made[u] <= made[u] /\ rec[u] <= made[u] /\ dead[u] <= made[u]
  BY <1>0, <1>n DEF Made
<1>11. ASSUME NEW u \in UserIds, RotateRead(u) PROVE TypeInv'
  <2> DEFINE c == [pc |-> "rewrite", user |-> u, tok |-> made[u] + 1]
  <2>0. c.pc = "rewrite" /\ c.user = u /\ c.tok = made[u] + 1
    OBVIOUS
  <2>1. made[u] + 1 \in Token /\ made[u] \in Nat
    BY <1>0, <1>11, <1>n, UsersAssumption DEF RotateRead, Token, Image
  <2>2. c \in Cli
    BY <2>1 DEF Cli
  <2>3. /\ UNCHANGED <<rec, acct, index, hup, thr, dead>> /\ cli' = c
        /\ made' = [made EXCEPT ![u] = made[u] + 1]
    BY <1>11 DEF RotateRead
  <2> HIDE DEF c
  <2>4. /\ made' \in Image /\ made'[u] = made[u] + 1
        /\ \A v \in UserIds : made[v] <= made'[v] /\ rec'[v] <= made'[v] /\ dead'[v] <= made'[v]
    BY <1>0, <1>n, <1>u, <2>1, <2>3 DEF Made, Image
  <2>5. CliHolds'
    BY <2>0, <2>1, <2>3, <2>4 DEF CliHolds
  <2> QED
    BY <1>0, <1>c, <2>2, <2>3, <2>4, <2>5
<1>12. ASSUME NEW u \in UserIds, CliCreateRecord(u) PROVE TypeInv'
  <2> DEFINE c == [pc |-> "useradd", user |-> u, tok |-> 1]
  <2>0. c.pc = "useradd" /\ c.user = u /\ c.tok = 1
    OBVIOUS
  <2>2. c \in Cli
    BY <1>n DEF Cli
  <2>3. /\ UNCHANGED <<acct, index, hup, thr, dead>> /\ cli' = c /\ made[u] = 0
        /\ made' = [made EXCEPT ![u] = 1] /\ rec' = [rec EXCEPT ![u] = 1]
    BY <1>12 DEF CliCreateRecord
  <2> HIDE DEF c
  <2>4. /\ made' \in Image /\ rec' \in Image /\ made'[u] = 1
        /\ \A v \in UserIds : made[v] <= made'[v] /\ rec'[v] <= made'[v] /\ dead'[v] <= made'[v]
    BY <1>0, <1>n, <1>u, <2>3 DEF Made, Image
  <2>5. CliHolds'
    BY <2>0, <2>3, <2>4 DEF CliHolds
  <2> QED
    BY <1>0, <1>c, <2>2, <2>3, <2>4, <2>5
<1>v. ASSUME NEW pc \in {"idle", "rewrite", "useradd", "hup"}, cli' = [cli EXCEPT !.pc = pc]
      PROVE  cli' \in Cli /\ cli'.user = cli.user /\ cli'.tok = cli.tok /\ cli'.pc = pc
  BY <1>0, <1>v DEF Cli
<1>i. cli' = IdleCli => cli' \in Cli /\ CliHolds'
  BY Empty DEF CliHolds
<1>13. CASE RotateRewrite
  <2>1. /\ UNCHANGED <<acct, made, index, hup, thr, dead>> /\ cli.user \in UserIds
        /\ cli.tok <= made[cli.user] /\ cli.tok \in Token /\ cli.tok >= 1
    BY <1>0, <1>13 DEF RotateRewrite, CliHolds, Cli
  <2>2. CASE rec' = [rec EXCEPT ![cli.user] = cli.tok] /\ cli' = [cli EXCEPT !.pc = "hup"]
    <3>1. rec' \in Image /\ \A u \in UserIds : rec'[u] <= made[u]
      BY <1>0, <1>u, <2>1, <2>2 DEF Made, Image
    <3>2. cli' \in Cli /\ CliHolds'
      BY <1>v, <2>1, <2>2 DEF CliHolds
    <3> QED
      BY <1>0, <1>c, <1>d, <2>1, <3>1, <3>2
  <2>3. CASE rec' = rec /\ cli' = IdleCli
    BY <1>0, <1>c, <1>d, <1>i, <2>1, <2>3
  <2> QED
    BY <1>13, <2>2, <2>3 DEF RotateRewrite
<1>14. CASE CliCreateUseradd
  <2>1. /\ UNCHANGED <<rec, made, index, hup, thr, dead>> /\ cli.user \in UserIds
        /\ cli.tok <= made[cli.user] /\ cli.tok >= 1 /\ cli' = [cli EXCEPT !.pc = "hup"]
        /\ acct' \subseteq UserIds
    BY <1>0, <1>14 DEF CliCreateUseradd, CliHolds
  <2>2. cli' \in Cli /\ CliHolds'
    BY <1>v, <2>1 DEF CliHolds
  <2> QED
    BY <1>0, <1>c, <1>d, <2>1, <2>2
<1>15. CASE CliSighup
  <2>1. /\ UNCHANGED <<rec, acct, made, index, thr>> /\ cli.user \in UserIds /\ hup' \in BOOLEAN
        /\ cli.tok <= made[cli.user] /\ cli.tok >= 1 /\ cli.tok \in Token /\ cli' = IdleCli
        /\ dead' = [dead EXCEPT ![cli.user] = cli.tok - 1]
    BY <1>0, <1>15 DEF CliSighup, CliHolds, Cli
  <2>2. cli.tok - 1 \in Token /\ cli.tok - 1 <= made[cli.user] /\ made[cli.user] \in Nat
    BY <1>0, <1>n, <2>1, UsersAssumption DEF Token
  <2>3. dead' \in Image /\ \A u \in UserIds : dead'[u] <= made[u]
    BY <1>0, <1>u, <2>1, <2>2 DEF Made, Image
  <2> QED
    BY <1>0, <1>c, <1>d, <1>i, <2>1, <2>3
<1>16. CASE Restart
  <2>1. /\ UNCHANGED <<rec, acct, made, cli, dead>> /\ index' = rec /\ hup' = FALSE
        /\ thr' = [t \in Threads |-> IdleThread]
    BY <1>16 DEF Restart
  <2>2. thr' \in [Threads -> Thread] /\ \A s \in Threads : Holds(s)'
    BY <1>0, <1>n, <2>1, Empty DEF Holds
  <2> QED
    BY <1>0, <2>1, <2>2 DEF TypeInv, Files, Made, CliHolds
<1>17. CASE UNCHANGED vars
  BY <1>0, <1>17 DEF vars, TypeInv, Files, Made, CliHolds, Holds
<1> QED
  BY <1>2, <1>3, <1>4, <1>5, <1>6, <1>7, <1>8, <1>9, <1>10, <1>11, <1>12, <1>13, <1>14, <1>15,
     <1>16, <1>17 DEF Next, Step

\* TypeInv holds in every reachable state.
LEMMA TypeInvariant == Spec => []TypeInv
<1>1. Init => TypeInv
  <2> SUFFICES ASSUME Init PROVE TypeInv
    OBVIOUS
  <2>1. rec \in Image /\ made = rec /\ index = rec /\ dead \in Image /\ hup \in BOOLEAN
        /\ acct \subseteq UserIds
    BY Empty, UsersAssumption DEF Init, Image
  <2>2. \A u \in UserIds : rec[u] \in Nat /\ dead[u] = 0
    BY <2>1, Empty DEF Init, Image
  <2>3. thr \in [Threads -> Thread] /\ cli \in Cli /\ cli.pc = "idle"
    BY Empty DEF Init
  <2>4. \A t \in Threads : Holds(t)
    BY <2>1, <2>2, Empty DEF Init, Holds
  <2> QED
    BY <2>1, <2>2, <2>3, <2>4 DEF TypeInv, Files, Made, CliHolds
<1>2. TypeInv /\ [Next]_vars => TypeInv'
  BY TypeStep
<1> QED
  BY <1>1, <1>2, PTL DEF Spec

\* The records, the index and whoever works on them are well typed, and no token is
\* recorded or indexed before it was made, in every reachable state, with any number of
\* threads and administrators at once.
THEOREM TypeCorrect == Spec => []TypeOK
<1>1. TypeInv => TypeOK
  BY DEF TypeInv, Files, Made, TypeOK, Thread, Cli, Pcs
<1> QED
  BY <1>1, TypeInvariant, PTL

-----------------------------------------------------------------------------
(* While administrators wait for each other, with any number of threads.    *)

\* At most one change is under way.
Alone ==
    /\ \A s, t \in Threads : Administering(s) /\ Administering(t) => s = t
    /\ cli.pc # "idle" => \A t \in Threads : ~Administering(t)

\* What the tool on thread t relies on at its next step.
ToolReady(t) ==
    LET u == thr[t].user IN
    /\ thr[t].pc = "record" => dead[u] = 0 /\ u \in acct
    /\ thr[t].pc = "rewrite" => rec[u] = thr[t].tok /\ rec[u] # 0
    /\ thr[t].op = "delete" /\ thr[t].pc \in {"userdel", "scanAfter", "swapAfter"} => rec[u] = 0

\* What the auth command relies on.
CliReady ==
    /\ cli.pc = "rewrite" => cli.tok > dead[cli.user]
    /\ cli.pc \in {"useradd", "hup"} => rec[cli.user] = cli.tok /\ cli.tok > dead[cli.user]

AdminInv == Alone /\ CliReady /\ WithdrawnTokenStaysOut /\ \A t \in Threads : ToolReady(t)

\* Every step preserves AdminInv, and none takes a token out of the withdrawn ones or
\* gives a record to a user without an account.
LEMMA AdminStep ==
  ASSUME Exclusive, TypeInv, TypeInv', AdminInv, [Next]_vars
  PROVE  /\ AdminInv' /\ \A u \in UserIds : dead[u] <= dead'[u]
         /\ thr' # thr => \A u \in UserIds :
               (rec'[u] # 0 /\ u \notin acct') => (rec[u] # 0 /\ u \notin acct)
<1> DEFINE Goal ==
      /\ AdminInv' /\ \A u \in UserIds : dead[u] <= dead'[u]
      /\ thr' # thr => \A u \in UserIds :
            (rec'[u] # 0 /\ u \notin acct') => (rec[u] # 0 /\ u \notin acct)
<1> SUFFICES Goal
  OBVIOUS
<1>0. /\ Files /\ Made /\ CliHolds /\ \A t \in Threads : Holds(t)
      /\ rec \in Image /\ made \in Image /\ index \in Image /\ dead \in Image
      /\ acct \subseteq UserIds /\ thr \in [Threads -> Thread] /\ cli \in Cli
      /\ Alone /\ CliReady /\ WithdrawnTokenStaysOut /\ \A t \in Threads : ToolReady(t)
  BY DEF TypeInv, Files, AdminInv
<1>n. /\ Token \subseteq Nat /\ cli.tok \in Nat
      /\ \A u \in UserIds : rec[u] \in Nat /\ made[u] \in Nat /\ dead[u] \in Nat /\ index[u] \in Nat
  BY <1>0, Empty DEF Image, Cli
<1>p. ASSUME NEW t \in Threads, thr[t].pc # "idle"
      PROVE  thr[t].user \in UserIds /\ Holds(t) /\ ToolReady(t) /\ thr[t].tok \in Nat
  BY <1>0, <1>n, <1>p DEF Holds, Thread
\* a request that changes no record moves
<1>q. ASSUME NEW t \in Threads, \A s \in Threads \ {t} : thr'[s] = thr[s],
             UNCHANGED <<rec, acct, dead, cli>>, ToolReady(t)',
             Administering(t)' => Administering(t)
      PROVE  Goal
  <2>1. Alone'
    BY <1>0, <1>q DEF Alone, Administering
  <2>2. \A s \in Threads : ToolReady(s)'
    BY <1>0, <1>q DEF ToolReady
  <2> QED
    BY <1>0, <1>n, <1>q, <2>1, <2>2 DEF AdminInv, CliReady, WithdrawnTokenStaysOut
\* the one administrator's tool takes a step
<1>a. ASSUME NEW t \in Threads, \A s \in Threads \ {t} : thr'[s] = thr[s],
             Administering(t), UNCHANGED cli, ToolReady(t)', WithdrawnTokenStaysOut',
             \A u \in UserIds : dead[u] <= dead'[u],
             \A u \in UserIds : (rec'[u] # 0 /\ u \notin acct') => (rec[u] # 0 /\ u \notin acct)
      PROVE  Goal
  <2>1. cli.pc = "idle" /\ \A s \in Threads \ {t} : ~Administering(s)
    BY <1>0, <1>a DEF Alone
  <2>2. Alone'
    BY <1>a, <2>1 DEF Alone, Administering
  <2>3. ASSUME NEW s \in Threads \ {t} PROVE ToolReady(s)'
    <3>1. thr'[s] = thr[s] /\ (thr[s].pc = "idle" \/ thr[s].op = "call") /\ Holds(s)
      BY <1>0, <1>a, <2>1 DEF Administering
    <3> QED
      BY <3>1 DEF ToolReady, Holds
  <2> QED
    BY <1>a, <2>1, <2>2, <2>3 DEF AdminInv, CliReady
<1>e. ASSUME NEW t \in Threads, EndRequest(t)
      PROVE  /\ \A s \in Threads \ {t} : thr'[s] = thr[s]
             /\ thr'[t] = IdleThread /\ ToolReady(t)' /\ ~Administering(t)'
  BY <1>0, <1>e, EndMoves, Empty DEF ToolReady, Administering
<1>g. ASSUME NEW t \in Threads, NEW pc \in Pcs, Goto(t, pc)
      PROVE  /\ \A s \in Threads \ {t} : thr'[s] = thr[s]
             /\ thr'[t].pc = pc /\ thr'[t].op = thr[t].op /\ thr'[t].user = thr[t].user
             /\ thr'[t].tok = thr[t].tok
  BY <1>0, <1>g, GotoMoves
<1>x. /\ "auth" \in Pcs /\ "served" \in Pcs /\ "useradd" \in Pcs /\ "read" \in Pcs /\ "unlink" \in Pcs
      /\ "record" \in Pcs /\ "scanAfter" \in Pcs /\ "userdel" \in Pcs
  BY DEF Pcs, ReloadPcs, ToolPcs
<1>1. ASSUME NEW t \in Threads, NEW op \in {"call"} \cup ToolKinds, NEW u \in UserIds,
             NEW tok \in Token, Enter(t, op, u, tok), op # "call" => MayAdminister
      PROVE  Goal
  <2>1. /\ \A s \in Threads \ {t} : thr'[s] = thr[s]
        /\ thr'[t].pc \in {"scan", "auth"} /\ thr'[t].op = op
        /\ UNCHANGED <<rec, acct, dead, cli>>
    BY <1>0, <1>1, EnterMoves DEF Enter
  <2>2. Alone'
    <3>1. CASE op = "call"
      BY <1>0, <2>1, <3>1 DEF Alone, Administering
    <3>2. CASE op # "call"
      BY <1>1, <2>1, <3>2 DEF Alone, Administering, MayAdminister
    <3> QED
      BY <3>1, <3>2
  <2>3. \A s \in Threads : ToolReady(s)'
    BY <1>0, <2>1 DEF ToolReady
  <2> QED
    BY <1>0, <1>n, <2>1, <2>2, <2>3 DEF AdminInv, CliReady, WithdrawnTokenStaysOut
<1>2. ASSUME NEW t \in Threads, NEW u \in UserIds, Call(t, u) PROVE Goal
  <2>1. PICK tok \in 1..made[u] : Enter(t, "call", u, tok)
    BY <1>2 DEF Call
  <2>2. tok \in Token
    BY <1>0, UsersAssumption DEF Image, Token
  <2> QED
    BY <1>1, <2>1, <2>2
<1>3. ASSUME NEW t \in Threads, NEW op \in ToolKinds, NEW u \in UserIds, ToolCall(t, op, u)
      PROVE  Goal
  BY <1>1, <1>3, Empty DEF ToolCall
<1>4. ASSUME NEW t \in Threads, Scan(t) PROVE Goal
  <2>1. /\ \A s \in Threads \ {t} : thr'[s] = thr[s]
        /\ thr[t].pc \in {"scan", "scanAfter"}
        /\ thr'[t].pc = (IF thr[t].pc = "scan" THEN "swap" ELSE "swapAfter")
        /\ thr'[t].op = thr[t].op /\ thr'[t].user = thr[t].user
        /\ UNCHANGED <<rec, acct, dead, cli>>
    BY <1>0, <1>4, ScanMoves DEF Scan
  <2>2. ToolReady(t)'
    BY <1>0, <2>1 DEF ToolReady
  <2> QED
    BY <1>q, <2>1, <2>2 DEF Administering
<1>5. ASSUME NEW t \in Threads, Swap(t) PROVE Goal
  <2>1. CASE Goto(t, "auth") /\ dead' = dead
    <3>1. UNCHANGED <<rec, acct, dead, cli>> /\ thr[t].pc # "idle"
      BY <1>5, <2>1 DEF Swap
    <3>2. ToolReady(t)'
      BY <1>g, <1>x, <2>1 DEF ToolReady
    <3> QED
      BY <1>g, <1>q, <1>x, <2>1, <3>1, <3>2 DEF Administering
  <2>2. CASE /\ thr[t].pc = "swapAfter" /\ EndRequest(t)
             /\ dead' = IF thr[t].op = "delete"
                        THEN [dead EXCEPT ![thr[t].user] = made[thr[t].user]]
                        ELSE dead
    <3>1. UNCHANGED <<rec, acct, cli>> /\ Administering(t) /\ thr[t].user \in UserIds
      BY <1>5, <1>p, <2>2 DEF Swap, Administering, Holds
    <3>2. CASE thr[t].op # "delete"
      BY <1>e, <1>q, <2>2, <3>1, <3>2
    <3>3. CASE thr[t].op = "delete"
      <4>1. rec[thr[t].user] = 0
        BY <1>0, <2>2, <3>3 DEF ToolReady
      <4>2. \A u \in UserIds : dead[u] <= dead'[u] /\ (u # thr[t].user => dead'[u] = dead[u])
        BY <1>0, <1>n, <2>2, <3>1, <3>3 DEF Made, Image
      <4>3. WithdrawnTokenStaysOut'
        BY <1>0, <3>1, <4>1, <4>2 DEF WithdrawnTokenStaysOut
      <4> QED
        BY <1>a, <1>e, <2>2, <3>1, <4>2, <4>3
    <3> QED
      BY <3>2, <3>3
  <2> QED
    BY <1>5, <2>1, <2>2 DEF Swap
<1>6. ASSUME NEW t \in Threads, Auth(t) \/ Reply(t) PROVE Goal
  <2>1. UNCHANGED <<rec, acct, cli, dead>> /\ thr[t].pc # "idle"
    BY <1>6 DEF Auth, Reply
  <2>2. thr[t].op \in {"call", "create", "update", "delete"}
    BY <1>0 DEF Thread, ToolKinds
  <2>3. CASE EndRequest(t)
    BY <1>e, <1>q, <2>1, <2>3
  <2>4. CASE Goto(t, "served") \/ Goto(t, "useradd") \/ Goto(t, "read") \/ Goto(t, "unlink")
    <3>1. ToolReady(t)'
      BY <1>g, <1>x, <2>4 DEF ToolReady
    <3> QED
      BY <1>g, <1>q, <1>x, <2>1, <2>4, <3>1 DEF Administering
  <2> QED
    BY <1>6, <2>2, <2>3, <2>4 DEF Auth, Reply
<1>7. ASSUME NEW t \in Threads, CreateUseradd(t) PROVE Goal
  <2>1. /\ UNCHANGED <<rec, cli, dead>> /\ Administering(t) /\ thr[t].user \in UserIds
        /\ made[thr[t].user] = 0
    BY <1>7, <1>p DEF CreateUseradd, Administering, Holds
  <2>2. dead[thr[t].user] = 0
    BY <1>0, <1>n, <2>1 DEF Made
  <2>3. /\ \A s \in Threads \ {t} : thr'[s] = thr[s]
        /\ ToolReady(t)'
    <3>1. CASE EndRequest(t)
      BY <1>e, <3>1
    <3>2. CASE acct' = acct \cup {thr[t].user} /\ Goto(t, "record")
      BY <1>g, <1>x, <2>1, <2>2, <3>2 DEF ToolReady
    <3> QED
      BY <1>7, <3>1, <3>2 DEF CreateUseradd
  <2>4. acct \subseteq acct'
    BY <1>7 DEF CreateUseradd
  <2>5. WithdrawnTokenStaysOut'
    BY <1>0, <2>1 DEF WithdrawnTokenStaysOut
  <2> QED
    BY <1>a, <1>n, <2>1, <2>3, <2>4, <2>5
<1>8. ASSUME NEW t \in Threads, CreateRecord(t) \/ UpdateRewrite(t) \/ DeleteUnlink(t)
      PROVE  Goal
  <2>1. /\ UNCHANGED <<acct, cli, dead>> /\ Administering(t) /\ thr[t].user \in UserIds
        /\ thr[t].pc \in {"record", "rewrite", "unlink"} /\ ToolReady(t)
    BY <1>8, <1>p DEF CreateRecord, UpdateRewrite, DeleteUnlink, Administering, Holds
  <2>2. CASE EndRequest(t) /\ rec' = rec
    BY <1>e, <1>q, <2>1, <2>2
  <2>3. CASE CreateRecord(t) /\ rec' = [rec EXCEPT ![thr[t].user] = 1] /\ Goto(t, "scanAfter")
    <3>1. thr[t].pc = "record" /\ thr[t].op = "create"
      BY <1>p, <2>3 DEF CreateRecord, Holds
    <3>2. dead[thr[t].user] = 0 /\ thr[t].user \in acct
      BY <2>1, <3>1 DEF ToolReady
    <3>3. rec'[thr[t].user] = 1 /\ \A u \in UserIds \ {thr[t].user} : rec'[u] = rec[u]
      BY <1>0, <2>1, <2>3 DEF Image
    <3>4. WithdrawnTokenStaysOut'
      BY <1>0, <2>1, <3>2, <3>3 DEF WithdrawnTokenStaysOut
    <3>5. ToolReady(t)'
      BY <1>g, <1>x, <2>3, <3>1 DEF ToolReady
    <3> QED
      BY <1>a, <1>g, <1>n, <1>x, <2>1, <2>3, <3>2, <3>3, <3>4, <3>5
  <2>4. CASE /\ UpdateRewrite(t) /\ rec' = [rec EXCEPT ![thr[t].user] = thr[t].tok]
             /\ Goto(t, "scanAfter")
    <3>1. thr[t].pc = "rewrite" /\ thr[t].op = "update"
      BY <1>p, <2>4 DEF UpdateRewrite, Holds
    <3>2. rec[thr[t].user] = thr[t].tok
      BY <2>1, <3>1 DEF ToolReady
    <3>3. rec' = rec
      BY <1>0, <2>1, <2>4, <3>2 DEF Image
    <3>4. ToolReady(t)'
      BY <1>g, <1>x, <2>4, <3>1 DEF ToolReady
    <3> QED
      BY <1>g, <1>q, <1>x, <2>1, <2>4, <3>3, <3>4
  <2>5. CASE DeleteUnlink(t) /\ rec' = [rec EXCEPT ![thr[t].user] = 0] /\ Goto(t, "userdel")
    <3>1. rec'[thr[t].user] = 0 /\ \A u \in UserIds \ {thr[t].user} : rec'[u] = rec[u]
      BY <1>0, <2>1, <2>5 DEF Image
    <3>2. WithdrawnTokenStaysOut'
      BY <1>0, <2>1, <3>1 DEF WithdrawnTokenStaysOut
    <3>3. ToolReady(t)'
      BY <1>g, <1>x, <2>5, <3>1 DEF ToolReady
    <3> QED
      BY <1>a, <1>g, <1>n, <1>x, <2>1, <2>5, <3>1, <3>2, <3>3
  <2> QED
    BY <1>8, <2>2, <2>3, <2>4, <2>5 DEF CreateRecord, UpdateRewrite, DeleteUnlink
<1>9. ASSUME NEW t \in Threads, UpdateRead(t) PROVE Goal
  <2>1. /\ UNCHANGED <<rec, acct, cli, dead>> /\ Administering(t) /\ thr[t].user \in UserIds
    BY <1>9, <1>p DEF UpdateRead, Administering, Holds
  <2>2. CASE rec[thr[t].user] = 0
    BY <1>9, <1>e, <1>q, <2>1, <2>2 DEF UpdateRead
  <2>3. CASE rec[thr[t].user] # 0
    <3>1. /\ \A s \in Threads \ {t} : thr'[s] = thr[s]
          /\ thr'[t].pc = "rewrite" /\ thr'[t].user = thr[t].user
          /\ thr'[t].tok = rec[thr[t].user]
      BY <1>0, <1>9, <2>1, <2>3, ReadMoves
    <3>2. ToolReady(t)'
      BY <2>1, <2>3, <3>1 DEF ToolReady
    <3> QED
      BY <1>q, <2>1, <3>1, <3>2
  <2> QED
    BY <2>2, <2>3
<1>10. ASSUME NEW t \in Threads, DeleteAccount(t) PROVE Goal
  <2>1. /\ UNCHANGED <<rec, cli, dead>> /\ Administering(t) /\ rec[thr[t].user] = 0
        /\ Goto(t, "scanAfter") /\ acct' \in {acct, acct \ {thr[t].user}}
    BY <1>10, <1>p DEF DeleteAccount, Administering, Holds, ToolReady
  <2>2. ToolReady(t)'
    BY <1>g, <1>x, <2>1 DEF ToolReady
  <2>3. WithdrawnTokenStaysOut'
    BY <1>0, <2>1 DEF WithdrawnTokenStaysOut
  <2> QED
    BY <1>a, <1>g, <1>n, <1>x, <2>1, <2>2, <2>3
\* the auth commands, which find no tool at work
<1>c. ASSUME UNCHANGED thr, \A t \in Threads : ~Administering(t), CliReady',
             WithdrawnTokenStaysOut', \A u \in UserIds : dead[u] <= dead'[u]
      PROVE  Goal
  <2>1. Alone'
    BY <1>c DEF Alone, Administering
  <2>2. ASSUME NEW t \in Threads PROVE ToolReady(t)'
    <3>1. (thr[t].pc = "idle" \/ thr[t].op = "call") /\ Holds(t)
      BY <1>0, <1>c DEF Administering
    <3> QED
      BY <1>c, <3>1 DEF ToolReady, Holds
  <2> QED
    BY <1>c, <2>1, <2>2 DEF AdminInv
<1>11. ASSUME NEW u \in UserIds, RotateRead(u) PROVE Goal
  <2>1. /\ UNCHANGED <<rec, thr, dead>> /\ \A t \in Threads : ~Administering(t)
        /\ cli'.pc = "rewrite" /\ cli'.user = u /\ cli'.tok = made[u] + 1
    BY <1>11 DEF RotateRead, MayAdminister
  <2>2. CliReady'
    BY <1>0, <1>n, <2>1 DEF CliReady, Made
  <2> QED
    BY <1>0, <1>c, <1>n, <2>1, <2>2 DEF WithdrawnTokenStaysOut
<1>12. ASSUME NEW u \in UserIds, CliCreateRecord(u) PROVE Goal
  <2>1. /\ UNCHANGED <<thr, dead>> /\ made[u] = 0 /\ \A t \in Threads : ~Administering(t)
        /\ cli'.pc = "useradd" /\ cli'.user = u /\ cli'.tok = 1 /\ rec' = [rec EXCEPT ![u] = 1]
    BY <1>12 DEF CliCreateRecord, MayAdminister
  <2>2. dead[u] = 0 /\ rec'[u] = 1 /\ \A v \in UserIds \ {u} : rec'[v] = rec[v]
    BY <1>0, <1>n, <2>1 DEF Made, Image
  <2>3. CliReady' /\ WithdrawnTokenStaysOut'
    BY <1>0, <2>1, <2>2 DEF CliReady, WithdrawnTokenStaysOut
  <2> QED
    BY <1>c, <1>n, <2>1, <2>3
<1>v. ASSUME cli' = [cli EXCEPT !.pc = "hup"]
      PROVE  cli'.user = cli.user /\ cli'.tok = cli.tok /\ cli'.pc = "hup"
  BY <1>0, <1>v DEF Cli
<1>y. cli.pc # "idle" => cli.user \in UserIds /\ cli.tok >= 1 /\ \A t \in Threads : ~Administering(t)
  BY <1>0 DEF CliHolds, Alone
<1>13. CASE RotateRewrite
  <2>1. UNCHANGED <<thr, dead>> /\ cli.pc = "rewrite" /\ cli.tok > dead[cli.user]
    BY <1>0, <1>13 DEF RotateRewrite, CliReady
  <2>2. CASE rec' = [rec EXCEPT ![cli.user] = cli.tok] /\ cli' = [cli EXCEPT !.pc = "hup"]
    <3>1. rec'[cli.user] = cli.tok /\ \A v \in UserIds \ {cli.user} : rec'[v] = rec[v]
      BY <1>0, <1>y, <2>1, <2>2 DEF Image
    <3>2. CliReady' /\ WithdrawnTokenStaysOut'
      BY <1>0, <1>v, <2>1, <2>2, <3>1 DEF CliReady, WithdrawnTokenStaysOut
    <3> QED
      BY <1>c, <1>n, <1>y, <2>1, <3>2
  <2>3. CASE rec' = rec /\ cli' = IdleCli
    <3>1. CliReady' /\ WithdrawnTokenStaysOut'
      BY <1>0, <2>1, <2>3, Empty DEF CliReady, WithdrawnTokenStaysOut
    <3> QED
      BY <1>c, <1>n, <1>y, <2>1, <3>1
  <2> QED
    BY <1>13, <2>2, <2>3 DEF RotateRewrite
<1>14. CASE CliCreateUseradd
  <2>1. UNCHANGED <<rec, thr, dead>> /\ cli.pc = "useradd" /\ cli' = [cli EXCEPT !.pc = "hup"]
    BY <1>14 DEF CliCreateUseradd
  <2>2. CliReady' /\ WithdrawnTokenStaysOut'
    BY <1>0, <1>v, <2>1 DEF CliReady, WithdrawnTokenStaysOut
  <2> QED
    BY <1>c, <1>n, <1>y, <2>1, <2>2
<1>15. CASE CliSighup
  <2>1. /\ UNCHANGED <<rec, thr>> /\ cli.pc = "hup" /\ cli' = IdleCli
        /\ dead' = [dead EXCEPT ![cli.user] = cli.tok - 1]
        /\ rec[cli.user] = cli.tok /\ cli.tok > dead[cli.user]
    BY <1>0, <1>15 DEF CliSighup, CliReady
  <2>2. /\ dead'[cli.user] = cli.tok - 1 /\ \A v \in UserIds \ {cli.user} : dead'[v] = dead[v]
        /\ cli.user \in UserIds
    BY <1>0, <1>y, <2>1 DEF Image
  <2>3. \A u \in UserIds : dead[u] <= dead'[u]
    BY <1>n, <2>1, <2>2
  <2>4. CliReady' /\ WithdrawnTokenStaysOut'
    BY <1>0, <1>n, <2>1, <2>2, Empty DEF CliReady, WithdrawnTokenStaysOut
  <2> QED
    BY <1>c, <1>y, <2>1, <2>3, <2>4
<1>16. CASE Restart
  <2>1. UNCHANGED <<rec, acct, cli, dead>> /\ \A t \in Threads : thr'[t] = IdleThread
    BY <1>16 DEF Restart
  <2>2. Alone' /\ \A t \in Threads : ToolReady(t)'
    BY <2>1, Empty DEF Alone, Administering, ToolReady
  <2> QED
    BY <1>0, <1>n, <2>1, <2>2 DEF AdminInv, CliReady, WithdrawnTokenStaysOut
<1>17. CASE UNCHANGED vars
  <2>1. UNCHANGED <<rec, acct, cli, dead, thr>>
    BY <1>17 DEF vars
  <2> QED
    BY <1>0, <1>n, <2>1 DEF AdminInv, Alone, Administering, CliReady, WithdrawnTokenStaysOut, ToolReady
<1> QED
  BY <1>2, <1>3, <1>4, <1>5, <1>6, <1>7, <1>8, <1>9, <1>10, <1>11, <1>12, <1>13, <1>14, <1>15,
     <1>16, <1>17 DEF Next, Step

\* AdminInv holds in every reachable state.
LEMMA AdminInvariant ==
  ASSUME Exclusive
  PROVE  Spec => [](TypeInv /\ AdminInv)
<1>1. Init => AdminInv
  <2> SUFFICES ASSUME Init PROVE AdminInv
    OBVIOUS
  <2>1. cli.pc = "idle" /\ \A t \in Threads : thr[t] = IdleThread
    BY Empty DEF Init
  <2>2. Alone /\ CliReady /\ \A t \in Threads : ToolReady(t)
    BY <2>1, Empty DEF Alone, Administering, CliReady, ToolReady
  <2>3. WithdrawnTokenStaysOut
    <3>1. ASSUME NEW u \in UserIds PROVE rec[u] = 0 \/ rec[u] > dead[u]
      <4>1. rec[u] = (IF u \in Existing THEN 1 ELSE 0) /\ dead[u] = 0
        BY Empty DEF Init
      <4> QED
        BY <4>1
    <3> QED
      BY <3>1 DEF WithdrawnTokenStaysOut
  <2> QED
    BY <2>2, <2>3 DEF AdminInv
<1>2. TypeInv /\ TypeInv' /\ AdminInv /\ [Next]_vars => AdminInv'
  BY AdminStep
<1> QED
  BY <1>1, <1>2, TypeInvariant, PTL DEF Spec

\* While administrators wait for each other, a token that was rotated away or whose
\* user was deleted never finds its way back into a record file, however many requests
\* and reloads run at the same time and wherever the daemon is restarted.
THEOREM StaysOut ==
  ASSUME Exclusive
  PROVE  Spec => []WithdrawnTokenStaysOut
<1>1. AdminInv => WithdrawnTokenStaysOut
  BY DEF AdminInv
<1> QED
  BY <1>1, AdminInvariant, PTL

\* Under the same condition no step of a user tool makes a record of a user without an
\* OS account.
THEOREM AccountsKept ==
  ASSUME Exclusive
  PROVE  Spec => ToolsKeepAccounts
<1> DEFINE Keeps == thr' # thr => \A u \in UserIds :
               (rec'[u] # 0 /\ u \notin acct') => (rec[u] # 0 /\ u \notin acct)
<1>1. TypeInv /\ TypeInv' /\ AdminInv /\ [Next]_vars => Keeps
  BY AdminStep
<1>2. ToolsKeepAccounts <=> [][Keeps]_vars
  BY DEF ToolsKeepAccounts
<1> HIDE DEF Keeps
<1> QED
  BY <1>1, <1>2, AdminInvariant, PTL DEF Spec

-----------------------------------------------------------------------------
(* With a single worker thread. A second one may authenticate against the   *)
(* old index while the first, which took the flag, is still reading the     *)
(* directory, or swap in what it read before.                               *)

OneThread == \A s, t \in Threads : s = t

\* A command has changed a record and not yet signalled.
CliPending == cli.pc \in {"useradd", "hup"}

\* The index is what the records say, or a reload is due or under way; what one has
\* read is what the records say, or the next is due.
FreshInv ==
    /\ \/ index = rec \/ hup \/ CliPending
       \/ \E t \in Threads : thr[t].pc \in ReloadPcs \cup {"userdel"}
    /\ \A t \in Threads : thr[t].pc \in {"swap", "swapAfter"} =>
          thr[t].snap = rec \/ hup \/ CliPending

\* Every step preserves FreshInv.
LEMMA FreshStep ==
  ASSUME OneThread, TypeInv, FreshInv, [Next]_vars
  PROVE  FreshInv'
<1>0. /\ Files /\ thr \in [Threads -> Thread] /\ cli \in Cli /\ hup \in BOOLEAN
      /\ \A t \in Threads : thr[t].pc # "idle" => thr[t].user \in UserIds
      /\ \A s, t \in Threads : s = t
  BY DEF TypeInv, Files, Holds, OneThread
<1>x. /\ "auth" \in Pcs /\ "served" \in Pcs /\ "useradd" \in Pcs /\ "read" \in Pcs /\ "unlink" \in Pcs
      /\ "record" \in Pcs /\ "scanAfter" \in Pcs /\ "userdel" \in Pcs
  BY DEF Pcs, ReloadPcs, ToolPcs
<1>e. ASSUME NEW t \in Threads, EndRequest(t) PROVE thr'[t].pc = "idle"
  BY <1>0, <1>e, EndMoves, Empty
<1>g. ASSUME NEW t \in Threads, NEW pc \in Pcs, Goto(t, pc) PROVE thr'[t].pc = pc
  BY <1>0, <1>g, GotoMoves
\* a step that changes no record, on a thread that was not reloading and does not
<1>q. ASSUME NEW t \in Threads, UNCHANGED <<rec, index, hup, cli>>,
             thr[t].pc \notin ReloadPcs \cup {"userdel"}, thr'[t].pc \notin {"swap", "swapAfter"}
      PROVE  FreshInv'
  <2>1. ~ \E s \in Threads : thr[s].pc \in ReloadPcs \cup {"userdel"}
    BY <1>0, <1>q
  <2>2. \A s \in Threads : thr'[s].pc \notin {"swap", "swapAfter"}
    BY <1>0, <1>q
  <2> QED
    BY <1>q, <2>1, <2>2 DEF FreshInv, CliPending
\* a thread that is about to read the directory
<1>s. ASSUME NEW t \in Threads, thr'[t].pc \in {"scan", "scanAfter", "userdel"}
      PROVE  FreshInv'
  <2>1. \E s \in Threads : thr'[s].pc \in ReloadPcs \cup {"userdel"}
    BY <1>s DEF ReloadPcs
  <2>2. \A s \in Threads : thr'[s].pc \notin {"swap", "swapAfter"}
    BY <1>0, <1>s
  <2> QED
    BY <2>1, <2>2 DEF FreshInv
<1>1. ASSUME NEW t \in Threads, NEW op \in {"call"} \cup ToolKinds, NEW u \in UserIds,
             NEW tok \in Token, Enter(t, op, u, tok)
      PROVE  FreshInv'
  <2>1. /\ thr'[t].pc = (IF hup THEN "scan" ELSE "auth") /\ thr[t].pc = "idle" /\ hup' = FALSE
        /\ UNCHANGED <<rec, index, cli>>
    BY <1>0, <1>1, EnterMoves DEF Enter
  <2>2. CASE hup
    BY <1>s, <2>1, <2>2
  <2>3. CASE ~hup
    BY <1>0, <1>q, <2>1, <2>3 DEF ReloadPcs
  <2> QED
    BY <2>2, <2>3
<1>2. ASSUME NEW t \in Threads, NEW u \in UserIds, Call(t, u) PROVE FreshInv'
  <2>1. PICK tok \in 1..made[u] : Enter(t, "call", u, tok)
    BY <1>2 DEF Call
  <2>2. tok \in Token
    BY <1>0, UsersAssumption DEF Files, Image, Token
  <2> QED
    BY <1>1, <2>1, <2>2
<1>3. ASSUME NEW t \in Threads, NEW op \in ToolKinds, NEW u \in UserIds, ToolCall(t, op, u)
      PROVE  FreshInv'
  BY <1>1, <1>3, Empty DEF ToolCall
<1>4. ASSUME NEW t \in Threads, Scan(t) PROVE FreshInv'
  <2>1. /\ thr'[t].pc \in {"swap", "swapAfter"} /\ thr'[t].snap = rec /\ UNCHANGED rec
    BY <1>0, <1>4, ScanMoves DEF Scan
  <2> QED
    BY <1>0, <2>1 DEF FreshInv, ReloadPcs
<1>5. ASSUME NEW t \in Threads, Swap(t) PROVE FreshInv'
  <2>1. /\ UNCHANGED <<rec, hup, cli>> /\ index' = thr[t].snap
        /\ thr[t].snap = rec \/ hup \/ CliPending
    BY <1>5 DEF Swap, FreshInv
  <2>2. thr'[t].pc \in {"auth", "idle"}
    BY <1>5, <1>e, <1>g, <1>x DEF Swap
  <2>3. \A s \in Threads : thr'[s].pc \notin {"swap", "swapAfter"}
    BY <1>0, <2>2
  <2> QED
    BY <2>1, <2>3 DEF FreshInv, CliPending
<1>6. ASSUME NEW t \in Threads, Auth(t) \/ Reply(t) \/ CreateUseradd(t) PROVE FreshInv'
  <2>1. /\ UNCHANGED <<rec, index, hup, cli>> /\ thr[t].pc \in {"auth", "served", "useradd"}
    BY <1>6 DEF Auth, Reply, CreateUseradd
  <2>2. thr[t].op \in {"call", "create", "update", "delete"}
    BY <1>0 DEF Thread, ToolKinds
  <2>3. thr'[t].pc \in {"idle", "served", "useradd", "read", "unlink", "record"}
    BY <1>6, <1>e, <1>g, <1>x, <2>2 DEF Auth, Reply, CreateUseradd
  <2> QED
    BY <1>q, <2>1, <2>3 DEF ReloadPcs
<1>7. ASSUME NEW t \in Threads, CreateRecord(t) \/ UpdateRewrite(t) \/ DeleteUnlink(t)
      PROVE  FreshInv'
  <2>1. CASE rec' = rec /\ EndRequest(t)
    <3>1. UNCHANGED <<rec, index, hup, cli>> /\ thr[t].pc \in {"record", "rewrite", "unlink"}
      BY <1>7, <2>1 DEF CreateRecord, UpdateRewrite, DeleteUnlink
    <3> QED
      BY <1>e, <1>q, <2>1, <3>1 DEF ReloadPcs
  <2>2. CASE Goto(t, "scanAfter") \/ Goto(t, "userdel")
    BY <1>g, <1>s, <1>x, <2>2
  <2> QED
    BY <1>7, <2>1, <2>2 DEF CreateRecord, UpdateRewrite, DeleteUnlink
<1>8. ASSUME NEW t \in Threads, UpdateRead(t) PROVE FreshInv'
  <2>1. UNCHANGED <<rec, index, hup, cli>> /\ thr[t].pc = "read"
    BY <1>8 DEF UpdateRead
  <2>2. thr'[t].pc \in {"idle", "rewrite"}
    BY <1>0, <1>8, <1>e, <2>1, ReadMoves DEF UpdateRead
  <2> QED
    BY <1>q, <2>1, <2>2 DEF ReloadPcs
<1>9. ASSUME NEW t \in Threads, DeleteAccount(t) PROVE FreshInv'
  BY <1>9, <1>g, <1>s, <1>x DEF DeleteAccount
<1>10. ASSUME NEW u \in UserIds, RotateRead(u) PROVE FreshInv'
  BY <1>10 DEF RotateRead, FreshInv, CliPending
<1>11. ASSUME NEW u \in UserIds, CliCreateRecord(u) PROVE FreshInv'
  <2>1. cli'.pc = "useradd"
    BY <1>11 DEF CliCreateRecord
  <2> QED
    BY <2>1 DEF FreshInv, CliPending
<1>12. CASE RotateRewrite \/ CliCreateUseradd
  <2>1. CASE cli' = [cli EXCEPT !.pc = "hup"]
    <3>1. cli'.pc = "hup"
      BY <1>0, <2>1 DEF Cli
    <3> QED
      BY <3>1 DEF FreshInv, CliPending
  <2>2. CASE RotateRewrite /\ rec' = rec /\ cli' = IdleCli
    <3>1. ~CliPending /\ UNCHANGED <<rec, index, hup, thr>>
      BY <2>2 DEF RotateRewrite, CliPending
    <3> QED
      BY <3>1 DEF FreshInv
  <2> QED
    BY <1>12, <2>1, <2>2 DEF RotateRewrite, CliCreateUseradd
<1>13. CASE CliSighup
  BY <1>13 DEF CliSighup, FreshInv
<1>14. CASE Restart
  BY <1>14, Empty DEF Restart, FreshInv
<1>15. CASE UNCHANGED vars
  BY <1>15 DEF vars, FreshInv, CliPending
<1> QED
  BY <1>2, <1>3, <1>4, <1>5, <1>6, <1>7, <1>8, <1>9, <1>10, <1>11, <1>12, <1>13, <1>14, <1>15
  DEF Next, Step

\* With a single worker thread, and however the commands overlap with the tools, the
\* index is what the records say as soon as no reload is pending or running and no
\* change is half done.
THEOREM IndexIsFresh ==
  ASSUME OneThread
  PROVE  Spec => []IndexFresh
<1>1. Init => FreshInv
  BY Empty DEF Init, FreshInv
<1>2. TypeInv /\ FreshInv /\ [Next]_vars => FreshInv'
  BY FreshStep
<1>3. FreshInv => IndexFresh
  BY DEF FreshInv, IndexFresh, CliPending, ReloadPcs
<1> QED
  BY <1>1, <1>2, <1>3, TypeInvariant, PTL DEF Spec

\* Table f holds no withdrawn token of user u.
Current(f, u, n) == f[u] = 0 \/ f[u] > n

\* What the request on thread t was told, has read, and is about to be judged by.
Judged(t) ==
    LET u == thr[t].user IN
    /\ thr[t].pc # "idle" => thr[t].floor <= dead[u]
    /\ thr[t].pc \in {"swap", "swapAfter"} => hup \/ \A v \in UserIds : Current(thr[t].snap, v, dead[v])
    /\ thr[t].pc = "swapAfter" /\ thr[t].op = "delete" => thr[t].snap[u] = 0
    /\ thr[t].pc = "swap" => Current(thr[t].snap, u, thr[t].floor)
    /\ thr[t].pc = "auth" => Current(index, u, thr[t].floor)
    /\ thr[t].pc = "served" => thr[t].tok > thr[t].floor

\* The index holds no withdrawn token, or a reload is due before the next request is
\* authenticated.
Clear ==
    \/ hup \/ \E t \in Threads : thr[t].pc \in {"scan", "swap"}
    \/ \A v \in UserIds : Current(index, v, dead[v])

\* Every step preserves Clear and what the requests are judged by.
LEMMA ClearStep ==
  ASSUME OneThread, Exclusive, TypeInv, TypeInv', AdminInv, AdminInv', Clear,
         \A t \in Threads : Judged(t), [Next]_vars
  PROVE  Clear' /\ \A t \in Threads : Judged(t)'
<1> DEFINE Goal == Clear' /\ \A t \in Threads : Judged(t)'
<1> SUFFICES Goal
  OBVIOUS
<1>0. /\ Files /\ thr \in [Threads -> Thread] /\ cli \in Cli /\ hup \in BOOLEAN
      /\ rec \in Image /\ index \in Image /\ dead \in Image /\ made \in Image /\ dead' \in Image
      /\ \A t \in Threads : Holds(t) /\ ToolReady(t)
      /\ \A s, t \in Threads : s = t
      /\ \A u \in UserIds : Current(rec, u, dead[u])
  BY DEF TypeInv, Files, OneThread, AdminInv, WithdrawnTokenStaysOut, Current
<1>n. /\ Token \subseteq Nat
      /\ \A f \in Image, u \in UserIds : f[u] \in Nat
  BY Empty DEF Image
<1>m. \A u \in UserIds : dead[u] <= dead'[u]
  BY AdminStep
<1>p. ASSUME NEW t \in Threads
      PROVE  /\ Judged(t) /\ thr[t].tok \in Nat /\ thr[t].floor \in Nat /\ thr[t].snap \in Image
             /\ thr[t].pc # "idle" => thr[t].user \in UserIds
             /\ thr[t].op \in {"call", "create", "update", "delete"}
  BY <1>0, <1>n DEF Holds, Thread, ToolKinds
<1>x. /\ "auth" \in Pcs /\ "served" \in Pcs /\ "useradd" \in Pcs /\ "read" \in Pcs /\ "unlink" \in Pcs
      /\ "record" \in Pcs /\ "scanAfter" \in Pcs /\ "userdel" \in Pcs
  BY DEF Pcs, ReloadPcs, ToolPcs
<1>e. ASSUME NEW t \in Threads, EndRequest(t) PROVE thr'[t].pc = "idle"
  BY <1>0, <1>e, EndMoves, Empty
<1>g. ASSUME NEW t \in Threads, NEW pc \in Pcs, Goto(t, pc)
      PROVE  /\ thr'[t].pc = pc /\ thr'[t].op = thr[t].op /\ thr'[t].user = thr[t].user
             /\ thr'[t].tok = thr[t].tok /\ thr'[t].floor = thr[t].floor
             /\ thr'[t].snap = thr[t].snap
  BY <1>0, <1>g, GotoMoves
\* a step of a tool or a reply: index and withdrawn tokens stay
<1>q. ASSUME NEW t \in Threads, UNCHANGED <<index, hup, dead>>,
             thr[t].pc \notin {"idle", "scan", "swap"},
             \/ thr'[t].pc = "idle"
             \/ /\ thr'[t].pc \in ToolPcs \cup {"scanAfter"}
                /\ thr'[t].user = thr[t].user /\ thr'[t].floor = thr[t].floor
      PROVE  Goal
  <2>1. Clear'
    <3>1. ~ \E s \in Threads : thr[s].pc \in {"scan", "swap"}
      BY <1>0, <1>q
    <3> QED
      BY <1>q, <3>1 DEF Clear, Current
  <2>2. Judged(t)'
    BY <1>p, <1>q DEF Judged, ToolPcs
  <2> QED
    BY <1>0, <2>1, <2>2
<1>1. ASSUME NEW t \in Threads, NEW op \in {"call"} \cup ToolKinds, NEW u \in UserIds,
             NEW tok \in Token, Enter(t, op, u, tok)
      PROVE  Goal
  <2>1. /\ thr'[t].pc = (IF hup THEN "scan" ELSE "auth") /\ thr[t].pc = "idle" /\ hup' = FALSE
        /\ thr'[t].user = u /\ thr'[t].floor = dead[u] /\ UNCHANGED <<index, dead>>
    BY <1>0, <1>1, EnterMoves DEF Enter
  <2>2. dead[u] <= dead[u]
    BY <1>0, <1>n
  <2>3. CASE hup
    <3>1. Judged(t)'
      BY <2>1, <2>2, <2>3 DEF Judged
    <3> QED
      BY <1>0, <2>1, <2>3, <3>1 DEF Clear
  <2>4. CASE ~hup
    <3>1. \A v \in UserIds : Current(index, v, dead[v])
      <4>1. ~ \E s \in Threads : thr[s].pc \in {"scan", "swap"}
        BY <1>0, <2>1
      <4> QED
        BY <2>4, <4>1 DEF Clear
    <3>2. \A v \in UserIds : Current(index, v, dead[v])'
      BY <2>1, <3>1 DEF Current
    <3>3. Judged(t)'
      BY <2>1, <2>2, <2>4, <3>1 DEF Judged, Current
    <3> QED
      BY <1>0, <2>1, <3>2, <3>3 DEF Clear
  <2> QED
    BY <2>3, <2>4
<1>2. ASSUME NEW t \in Threads, NEW u \in UserIds, Call(t, u) PROVE Goal
  <2>1. PICK tok \in 1..made[u] : Enter(t, "call", u, tok)
    BY <1>2 DEF Call
  <2>2. tok \in Token
    BY <1>0, UsersAssumption DEF Image, Token
  <2> QED
    BY <1>1, <2>1, <2>2
<1>3. ASSUME NEW t \in Threads, NEW op \in ToolKinds, NEW u \in UserIds, ToolCall(t, op, u)
      PROVE  Goal
  BY <1>1, <1>3, Empty DEF ToolCall
<1>4. ASSUME NEW t \in Threads, Scan(t) PROVE Goal
  <2>1. /\ thr[t].pc \in {"scan", "scanAfter"} /\ thr[t].user \in UserIds
        /\ thr'[t].pc = (IF thr[t].pc = "scan" THEN "swap" ELSE "swapAfter")
        /\ thr'[t].op = thr[t].op /\ thr'[t].user = thr[t].user
        /\ thr'[t].floor = thr[t].floor /\ thr'[t].snap = rec
        /\ UNCHANGED <<rec, index, hup, dead>>
    BY <1>0, <1>4, <1>p, ScanMoves DEF Scan
  <2>2. thr[t].floor <= dead[thr[t].user]
    BY <1>p, <2>1 DEF Judged
  <2>3. Current(rec, thr[t].user, thr[t].floor)
    BY <1>0, <1>n, <1>p, <2>1, <2>2 DEF Current
  <2>4. thr[t].pc = "scanAfter" /\ thr[t].op = "delete" => rec[thr[t].user] = 0
    BY <1>0 DEF ToolReady
  <2>5. Judged(t)'
    BY <1>0, <2>1, <2>2, <2>3, <2>4 DEF Judged, Current
  <2>6. Clear'
    <3>1. CASE thr[t].pc = "scan"
      BY <2>1, <3>1 DEF Clear
    <3>2. CASE thr[t].pc = "scanAfter"
      <4>1. ~ \E s \in Threads : thr[s].pc \in {"scan", "swap"}
        BY <1>0, <3>2
      <4> QED
        BY <2>1, <4>1 DEF Clear, Current
    <3> QED
      BY <2>1, <3>1, <3>2
  <2> QED
    BY <1>0, <2>5, <2>6
<1>5. ASSUME NEW t \in Threads, Swap(t) PROVE Goal
  <2>1. /\ UNCHANGED hup /\ index' = thr[t].snap /\ thr[t].pc \in {"swap", "swapAfter"}
        /\ hup \/ \A v \in UserIds : Current(thr[t].snap, v, dead[v])
        /\ thr[t].user \in UserIds /\ thr[t].floor <= dead[thr[t].user]
    BY <1>5, <1>p DEF Swap, Judged
  <2>2. CASE thr[t].pc = "swap" /\ Goto(t, "auth") /\ dead' = dead
    <3>1. Current(thr[t].snap, thr[t].user, thr[t].floor)
      BY <1>p, <2>2 DEF Judged
    <3>2. Judged(t)'
      BY <1>g, <1>x, <2>1, <2>2, <3>1 DEF Judged, Current
    <3>3. Clear'
      BY <2>1, <2>2 DEF Clear, Current
    <3> QED
      BY <1>0, <3>2, <3>3
  <2>3. CASE /\ thr[t].pc = "swapAfter" /\ EndRequest(t)
             /\ dead' = IF thr[t].op = "delete"
                        THEN [dead EXCEPT ![thr[t].user] = made[thr[t].user]]
                        ELSE dead
    <3>1. thr'[t].pc = "idle"
      BY <1>e, <2>3
    <3>2. Judged(t)'
      BY <3>1 DEF Judged
    <3>3. \A v \in UserIds : dead'[v] = dead[v] \/ thr[t].snap[v] = 0
      <4>1. CASE thr[t].op = "delete"
        <5>1. thr[t].snap[thr[t].user] = 0
          BY <1>p, <2>3, <4>1 DEF Judged
        <5> QED
          BY <1>0, <2>3, <4>1, <5>1 DEF Image
      <4>2. CASE thr[t].op # "delete"
        BY <2>3, <4>2
      <4> QED
        BY <4>1, <4>2
    <3>4. Clear'
      BY <2>1, <3>3 DEF Clear, Current
    <3> QED
      BY <1>0, <3>2, <3>4
  <2> QED
    BY <1>5, <2>2, <2>3 DEF Swap
<1>6. ASSUME NEW t \in Threads, Auth(t) PROVE Goal
  <2>1. UNCHANGED <<index, hup, dead>> /\ thr[t].pc = "auth"
    BY <1>6 DEF Auth
  <2>2. CASE thr[t].op = "call" /\ index[thr[t].user] = thr[t].tok /\ Goto(t, "served")
    <3>1. thr[t].tok >= 1 /\ Current(index, thr[t].user, thr[t].floor)
          /\ thr[t].floor <= dead[thr[t].user]
      BY <1>0, <1>p, <2>1, <2>2 DEF Holds, Judged
    <3>2. thr[t].tok > thr[t].floor
      BY <1>p, <2>2, <3>1 DEF Current
    <3>3. Judged(t)'
      BY <1>g, <1>x, <2>1, <2>2, <3>1, <3>2 DEF Judged
    <3>4. Clear'
      <4>1. ~ \E s \in Threads : thr[s].pc \in {"scan", "swap"}
        BY <1>0, <2>1
      <4> QED
        BY <2>1, <4>1 DEF Clear, Current
    <3> QED
      BY <1>0, <3>3, <3>4
  <2>3. CASE EndRequest(t)
    BY <1>e, <1>q, <2>1, <2>3
  <2>4. CASE Goto(t, "useradd") \/ Goto(t, "read") \/ Goto(t, "unlink")
    BY <1>g, <1>q, <1>x, <2>1, <2>4 DEF ToolPcs
  <2> QED
    BY <1>6, <1>p, <2>2, <2>3, <2>4 DEF Auth
<1>7. ASSUME NEW t \in Threads, \/ Reply(t) \/ CreateUseradd(t) \/ CreateRecord(t)
                                \/ UpdateRewrite(t) \/ DeleteUnlink(t) \/ DeleteAccount(t)
      PROVE  Goal
  <2>1. /\ UNCHANGED <<index, hup, dead>>
        /\ thr[t].pc \in {"served", "useradd", "record", "rewrite", "unlink", "userdel"}
    BY <1>7 DEF Reply, CreateUseradd, CreateRecord, UpdateRewrite, DeleteUnlink, DeleteAccount
  <2>2. EndRequest(t) \/ Goto(t, "record") \/ Goto(t, "scanAfter") \/ Goto(t, "userdel")
    BY <1>7 DEF Reply, CreateUseradd, CreateRecord, UpdateRewrite, DeleteUnlink, DeleteAccount
  <2> QED
    BY <1>e, <1>g, <1>q, <1>x, <2>1, <2>2 DEF ToolPcs
<1>8. ASSUME NEW t \in Threads, UpdateRead(t) PROVE Goal
  <2>1. UNCHANGED <<index, hup, dead>> /\ thr[t].pc = "read" /\ thr[t].user \in UserIds
    BY <1>8, <1>p DEF UpdateRead
  <2>2. CASE rec[thr[t].user] = 0
    BY <1>8, <1>e, <1>q, <2>1, <2>2 DEF UpdateRead
  <2>3. CASE rec[thr[t].user] # 0
    BY <1>0, <1>8, <1>q, <2>1, <2>3, ReadMoves DEF ToolPcs
  <2> QED
    BY <2>2, <2>3
<1>c. ASSUME UNCHANGED <<index, hup, thr, dead>> PROVE Goal
  <2>1. Clear'
    BY <1>c DEF Clear, Current
  <2>2. \A t \in Threads : Judged(t)'
    BY <1>c DEF Judged, Current
  <2> QED
    BY <2>1, <2>2
<1>9. ASSUME \/ \E u \in UserIds : RotateRead(u) \/ CliCreateRecord(u)
             \/ RotateRewrite \/ CliCreateUseradd
      PROVE  Goal
  BY <1>9, <1>c DEF RotateRead, CliCreateRecord, RotateRewrite, CliCreateUseradd
<1>10. CASE CliSighup
  <2>1. hup' = TRUE /\ UNCHANGED <<index, thr>>
    BY <1>10 DEF CliSighup
  <2>2. ASSUME NEW t \in Threads PROVE Judged(t)'
    <3>1. CASE thr[t].pc = "idle"
      BY <2>1, <3>1 DEF Judged
    <3>2. CASE thr[t].pc # "idle"
      <4>1. thr[t].user \in UserIds /\ thr[t].floor \in Nat /\ Judged(t)
        BY <1>p, <3>2
      <4>2. dead[thr[t].user] \in Nat /\ dead'[thr[t].user] \in Nat
            /\ dead[thr[t].user] <= dead'[thr[t].user]
        BY <1>0, <1>m, <1>n, <4>1
      <4>3. thr[t].floor <= dead'[thr[t].user]
        BY <3>2, <4>1, <4>2 DEF Judged
      <4> QED
        BY <2>1, <4>1, <4>3 DEF Judged, Current
    <3> QED
      BY <3>1, <3>2
  <2> QED
    BY <2>1, <2>2 DEF Clear
<1>11. CASE Restart
  <2>1. /\ UNCHANGED dead /\ index' = rec /\ \A t \in Threads : thr'[t] = IdleThread
    BY <1>11 DEF Restart
  <2>2. Clear'
    BY <1>0, <2>1 DEF Clear, Current
  <2> QED
    BY <2>1, <2>2, Empty DEF Judged
<1>12. CASE UNCHANGED vars
  BY <1>12, <1>c DEF vars
<1> QED
  BY <1>2, <1>3, <1>4, <1>5, <1>6, <1>7, <1>8, <1>9, <1>10, <1>11, <1>12 DEF Next, Step

\* With a single worker thread and administrators who wait for each other, a call that
\* comes in after auth rotate or user_delete reported success is never served on a
\* token it withdrew, wherever commands, reloads and restarts fall in between.
THEOREM WithdrawnRefused ==
  ASSUME OneThread, Exclusive
  PROVE  Spec => []WithdrawnTokenRefused
<1> DEFINE Inv == Clear /\ \A t \in Threads : Judged(t)
           Base == TypeInv /\ AdminInv
<1>1. Init => Inv
  <2> SUFFICES ASSUME Init PROVE Inv
    OBVIOUS
  <2>1. \A t \in Threads : thr[t].pc = "idle"
    BY Empty DEF Init
  <2>2. Clear
    <3>1. ASSUME NEW u \in UserIds PROVE index[u] = 0 \/ index[u] > dead[u]
      <4>1. index[u] = (IF u \in Existing THEN 1 ELSE 0) /\ dead[u] = 0
        BY Empty DEF Init
      <4> QED
        BY <4>1
    <3> QED
      BY <3>1 DEF Clear, Current
  <2> QED
    BY <2>1, <2>2 DEF Judged
<1>2. Base /\ Base' /\ Inv /\ [Next]_vars => Inv'
  BY ClearStep
<1>3. Inv => WithdrawnTokenRefused
  BY DEF Judged, WithdrawnTokenRefused
<1>4. Spec => []Base
  BY AdminInvariant
<1> HIDE DEF Inv, Base
<1> QED
  BY <1>1, <1>2, <1>3, <1>4, PTL DEF Spec
=============================================================================
