----------------------------- MODULE ExecProofs -----------------------------
(***************************************************************************)
(* Theorems about Exec for every number of calls, every command and every  *)
(* size of the pipe.                                                       *)
(***************************************************************************)
EXTENDS Exec, TLAPS

-----------------------------------------------------------------------------
(* The inductive invariant: where the chunks of a command are, and what is  *)
(* over when. It speaks of one call at a time; calls only meet in heirs,    *)
(* which delay the end of a pipe and change nothing else.                   *)

AllFunctions == LinuxFunctions \cup WindowsFunctions
Request == [fun : AllFunctions, cmd : Commands \cup {NoCommand}, timed : BOOLEAN]

\* The state as functions over the calls.
Shape ==
    /\ platform \in Platforms
    /\ pc \in [Calls -> {"idle", "piped", "forked", "read", "wait", "drain", "done"}]
    /\ call \in [Calls -> Request]
    /\ \A c \in Calls : pc[c] # "idle" => call[c].fun \in Functions /\ call[c].cmd \in Commands
    /\ shell \in [Calls -> {"none", "running", "exited", "reaped"}]
    /\ worker \in [Calls -> {"none", "running", "ended"}]
    /\ left \in [Calls -> Nat] /\ got \in [Calls -> Nat] /\ pipe \in [Calls -> Nat]
    /\ heirs \in [Calls -> SUBSET Calls]
    /\ cut \in [Calls -> {"no", "timeout", "limit", "failed"}]

\* No chunk is made up, and a pipe is never over its capacity.
Bounded(c) == got[c] + pipe[c] + left[c] <= call[c].cmd.out /\ pipe[c] <= Cap

\* Before the fork there is no process and no output.
Fresh(c) == pc[c] \in {"idle", "piped"} =>
    /\ shell[c] = "none" /\ worker[c] = "none" /\ cut[c] = "no"
    /\ left[c] = 0 /\ pipe[c] = 0 /\ got[c] = 0

\* From the fork on there is a shell and a worker.
Forked(c) == pc[c] \in {"forked", "read", "wait", "drain"} =>
    shell[c] # "none" /\ worker[c] # "none"

\* Which functions read when.
Order(c) ==
    /\ pc[c] = "read" => call[c].fun \in ReadFirst
    /\ pc[c] = "drain" => call[c].fun \notin ReadFirst /\ shell[c] = "reaped"
    /\ pc[c] \in {"read", "wait", "drain"} => call[c].fun # "background"
    /\ cut[c] = "limit" => pc[c] \in {"wait", "done"} /\ call[c].fun \in Limited
    /\ pc[c] = "wait" /\ cut[c] = "limit" => call[c].fun \in ReadFirst

\* A worker that ended of its own accord has written everything.
Written(c) == worker[c] = "ended" /\ cut[c] = "no" => left[c] = 0

\* While nothing cuts the capture short, every chunk is written, piped or captured.
Conserved(c) ==
    pc[c] \in {"forked", "read", "wait", "drain"} /\ call[c].fun # "background" /\ cut[c] = "no"
        => got[c] + pipe[c] + left[c] = call[c].cmd.out

\* After the end of the pipe was seen, the worker has ended and the pipe is empty.
ReadToEnd(c) ==
    (pc[c] = "wait" /\ call[c].fun \in ReadFirst /\ cut[c] # "limit") =>
        worker[c] = "ended" /\ pipe[c] = 0

\* What a call that has returned leaves behind.
Returned(c) == pc[c] = "done" /\ call[c].fun # "background" =>
    /\ cut[c] = "no" => got[c] = call[c].cmd.out
    /\ shell[c] \in {"none", "reaped"}
    /\ cut[c] # "limit" => worker[c] # "running"

CallInv(c) ==
    /\ Bounded(c) /\ Fresh(c) /\ Forked(c) /\ Order(c) /\ Written(c) /\ Conserved(c)
    /\ ReadToEnd(c) /\ Returned(c)
Inv == Shape /\ \A c \in Calls : CallInv(c)

\* Reading a chunk from a pipe loses and makes none.
LEMMA ChunkRead ==
  ASSUME NEW g \in Nat, NEW p \in Nat, NEW l \in Nat
  PROVE  (g + 1) + (p - 1) + l = g + p + l /\ (p <= Cap => p - 1 <= Cap)
BY ExecAssumption

\* A step of another call changes nothing of c but its heirs.
Same(c) ==
    /\ pc'[c] = pc[c] /\ call'[c] = call[c] /\ shell'[c] = shell[c]
    /\ worker'[c] = worker[c] /\ left'[c] = left[c] /\ pipe'[c] = pipe[c]
    /\ got'[c] = got[c] /\ cut'[c] = cut[c]

\* What the invariant says of a call, a step of another call keeps.
LEMMA SameKeeps == ASSUME NEW c \in Calls, CallInv(c), Same(c) PROVE CallInv(c)'
BY DEF CallInv, Same, Bounded, Fresh, Forked, Order, Written, Conserved, ReadToEnd, Returned

\* A step of call c preserves what the invariant says of c.
LEMMA OwnStep ==
  ASSUME Inv, NEW c \in Calls,
         \/ \E f \in Functions, cmd \in Commands, timed \in BOOLEAN : Begin(c, f, cmd, timed)
         \/ Thread(c)
         \/ Process(c)
  PROVE  CallInv(c)' /\ Shape' /\ \A d \in Calls \ {c} : Same(d)
<1> USE ExecAssumption DEF Inv, Shape, Same, AllFunctions, LinuxFunctions, WindowsFunctions,
        Functions, Request, CommandType, NoCommand
<1>1. ASSUME NEW f \in Functions, NEW cmd \in Commands, NEW timed \in BOOLEAN,
             Begin(c, f, cmd, timed)
      PROVE  CallInv(c)' /\ Shape' /\ \A d \in Calls \ {c} : Same(d)
  <2>1. [fun |-> f, cmd |-> cmd, timed |-> timed] \in Request
    OBVIOUS
  <2>2. Shape' /\ \A d \in Calls \ {c} : Same(d)
    BY <1>1, <2>1 DEF Begin
  <2>3. CallInv(c)'
    BY <1>1 DEF Begin, CallInv, Bounded, Fresh, Forked, Order,
         Written, Conserved, ReadToEnd, Returned
  <2> QED
    BY <2>2, <2>3
<1>2. CASE Start(c)
  <2>0. call[c].cmd.out \in Nat
    BY <1>2 DEF Start
  <2>1. Shape' /\ \A d \in Calls \ {c} : Same(d)
    <3>1. heirs' \in [Calls -> SUBSET Calls]
      BY <1>2 DEF Start
    <3>2. left' \in [Calls -> Nat]
      BY <1>2, <2>0 DEF Start
    <3>3. UNCHANGED <<platform, call, pipe, got>>
      BY <1>2 DEF Start
    <3>4. pc' \in [Calls -> {"idle", "piped", "forked", "read", "wait", "drain", "done"}]
      BY <1>2 DEF Start
    <3>5. /\ shell' \in [Calls -> {"none", "running", "exited", "reaped"}]
          /\ worker' \in [Calls -> {"none", "running", "ended"}]
          /\ cut' \in [Calls -> {"no", "timeout", "limit", "failed"}]
      BY <1>2 DEF Start
    <3>6. \A d \in Calls \ {c} : Same(d)
      BY <1>2 DEF Start
    <3> QED
      BY <1>2, <3>1, <3>2, <3>3, <3>4, <3>5, <3>6 DEF Start
  <2>2. CallInv(c)'
    BY <1>2 DEF Start, CallInv, Bounded, Fresh, Forked, Order,
         Written, Conserved, ReadToEnd, Returned
  <2> QED
    BY <2>1, <2>2
<1>3. CASE StartFails(c)
  BY <1>3 DEF StartFails, CallInv, Bounded, Fresh, Forked, Order, Written, Conserved, ReadToEnd, Returned
<1>4. CASE CloseWriteEnd(c)
  BY <1>4 DEF CloseWriteEnd, CallInv, Bounded, Fresh, Forked, Order, Written, Conserved, ReadToEnd, Returned
<1>5. CASE Read(c)
  <2>0. /\ pipe[c] - 1 \in Nat /\ got[c] + 1 \in Nat /\ pipe[c] \in Nat /\ got[c] \in Nat
        /\ left[c] \in Nat /\ call[c].cmd.out \in Nat
    BY <1>5 DEF Read
  <2>1. Shape' /\ \A d \in Calls \ {c} : Same(d)
    <3>1. got' \in [Calls -> Nat] /\ pipe' \in [Calls -> Nat]
      BY <1>5, <2>0 DEF Read
    <3> QED
      BY <1>5, <3>1 DEF Read, Reading, AfterReading
  <2>2. CASE call[c].fun \in Limited /\ got[c] = Bound
    BY <1>5, <2>0, <2>1, <2>2 DEF Read, Reading, AfterReading, ReadFirst, CallInv, Bounded, Fresh,
       Forked, Order, Written, Conserved, ReadToEnd, Returned
  <2>3. CASE ~(call[c].fun \in Limited /\ got[c] = Bound)
    <3>1. /\ pc' = pc /\ cut' = cut /\ pipe'[c] = pipe[c] - 1 /\ got'[c] = got[c] + 1
          /\ pc[c] \in {"read", "drain"} /\ UNCHANGED <<call, shell, worker, left>>
      BY <1>5, <2>3 DEF Read, Reading
    <3>2. Bounded(c)' /\ Conserved(c)'
      <4>1. /\ got'[c] + pipe'[c] + left'[c] = got[c] + pipe[c] + left[c]
            /\ pipe[c] <= Cap => pipe'[c] <= Cap
        <5>1. left'[c] = left[c] /\ pipe'[c] = pipe[c] - 1 /\ got'[c] = got[c] + 1
          BY <3>1
        <5> HIDE DEF Inv, Shape
        <5> QED
          BY <2>0, <5>1, ChunkRead
      <4>2. Bounded(c)'
        BY <3>1, <4>1 DEF CallInv, Bounded
      <4>3. Conserved(c)'
        BY <3>1, <4>1 DEF CallInv, Conserved
      <4> QED
        BY <4>2, <4>3
    <3>3. Fresh(c)' /\ Forked(c)' /\ Order(c)'
      BY <3>1 DEF CallInv, Fresh, Forked, Order
    <3>4. Written(c)' /\ ReadToEnd(c)' /\ Returned(c)'
      BY <3>1 DEF CallInv, Written, ReadToEnd, Returned
    <3> QED
      BY <2>1, <3>2, <3>3, <3>4 DEF CallInv
  <2> QED
    BY <2>2, <2>3
<1>6. CASE Eof(c)
  BY <1>6 DEF Eof, Over, Reading, AfterReading, CallInv, Bounded, Fresh, Forked, Order, Written, Conserved,
     ReadToEnd, Returned
<1>7. CASE Wait(c)
  BY <1>7 DEF Wait, AfterWait, CallInv, Bounded, Fresh, Forked, Order, Written, Conserved, ReadToEnd, Returned
<1>8. CASE WaitTimesOut(c)
  BY <1>8 DEF WaitTimesOut, AfterWait, ReadFirst, CallInv, Bounded, Fresh, Forked, Order, Written, Conserved,
     ReadToEnd, Returned
<1>9. CASE WorkerWrites(c)
  <2>0. /\ left[c] - 1 \in Nat /\ pipe[c] + 1 \in Nat /\ pipe[c] \in Nat /\ got[c] \in Nat
        /\ left[c] \in Nat /\ call[c].cmd.out \in Nat
    BY <1>9 DEF WorkerWrites
  <2>1. Shape' /\ \A d \in Calls \ {c} : Same(d)
    <3>1. CASE pipe' = [pipe EXCEPT ![c] = @ + 1] /\ left' = [left EXCEPT ![c] = @ - 1]
      BY <1>9, <2>0, <3>1 DEF WorkerWrites
    <3>2. CASE pipe' = pipe /\ left' = [left EXCEPT ![c] = 0]
      BY <1>9, <2>0, <3>2 DEF WorkerWrites
    <3> QED
      BY <1>9, <3>1, <3>2 DEF WorkerWrites
  <2>2. /\ UNCHANGED <<pc, call, shell, worker, got, cut>> /\ worker[c] = "running"
        /\ \/ ~Unread(c) /\ pipe[c] < Cap /\ pipe'[c] = pipe[c] + 1 /\ left'[c] = left[c] - 1
           \/ Unread(c) /\ pipe'[c] = pipe[c] /\ left'[c] = 0
    BY <1>9 DEF WorkerWrites
  <2>3. Bounded(c)' /\ Conserved(c)'
    <3>1. CASE pipe'[c] = pipe[c] + 1 /\ left'[c] = left[c] - 1 /\ pipe[c] < Cap
      BY <2>0, <2>2, <3>1 DEF CallInv, Bounded, Conserved
    <3>2. CASE Unread(c) /\ pipe'[c] = pipe[c] /\ left'[c] = 0
      BY <2>0, <2>2, <3>2 DEF CallInv, Bounded, Conserved, Unread
    <3> QED
      BY <2>2, <3>1, <3>2
  <2>4. CallInv(c)'
    BY <2>2, <2>3 DEF CallInv, Fresh, Forked, Order, Written, ReadToEnd, Returned
  <2> QED
    BY <2>1, <2>4
<1>10. CASE WorkerEnds(c)
  BY <1>10 DEF WorkerEnds, CallInv, Bounded, Fresh, Forked, Order, Written, Conserved, ReadToEnd, Returned
<1>11. CASE ShellExits(c)
  BY <1>11 DEF ShellExits, CallInv, Bounded, Fresh, Forked, Order, Written, Conserved, ReadToEnd, Returned
<1>12. CASE TimeoutKills(c)
  <2>1. Shape' /\ \A d \in Calls \ {c} : Same(d)
    BY <1>12 DEF TimeoutKills, Limited
  <2>2. CallInv(c)'
    BY <1>12 DEF TimeoutKills, Limited, CallInv, Bounded, Fresh, Forked, Order,
         Written, Conserved, ReadToEnd, Returned
  <2> QED
    BY <2>1, <2>2
<1> QED
  BY <1>1, <1>2, <1>3, <1>4, <1>5, <1>6, <1>7, <1>8, <1>9, <1>10, <1>11, <1>12
     DEF Thread, Process

\* Every step preserves the invariant.
LEMMA InvStep == Inv /\ [Next]_vars => Inv'
<1> SUFFICES ASSUME Inv, [Next]_vars PROVE Inv'
  OBVIOUS
<1>1. ASSUME NEW c \in Calls, CallInv(c)', Shape', \A d \in Calls \ {c} : Same(d)
      PROVE  Inv'
  BY <1>1, SameKeeps DEF Inv
<1>2. CASE UNCHANGED vars
  <2>1. Shape'
    BY <1>2 DEF vars, Inv, Shape, Functions
  <2>2. \A c \in Calls : Same(c)
    BY <1>2 DEF vars, Same
  <2> QED
    BY <2>1, <2>2, SameKeeps DEF Inv
<1> QED
  BY <1>1, <1>2, OwnStep DEF Next

\* Inv holds in every reachable state.
LEMMA Invariant == Spec => []Inv
<1>1. Init => Inv
  BY ExecAssumption DEF Init, Inv, Shape, CallInv, Bounded, Fresh, Forked, Order, Written,
     Conserved, ReadToEnd, Returned, AllFunctions, LinuxFunctions, WindowsFunctions, Request,
     NoCommand
<1> QED
  BY <1>1, InvStep, PTL DEF Spec

-----------------------------------------------------------------------------
\* The state of every call is well typed: what is captured, piped and left to write
\* never exceeds what the command writes, nor the pipe what it holds.
THEOREM TypeCorrect == Spec => []TypeOK
<1>1. Inv => TypeOK
  <2> SUFFICES ASSUME Inv PROVE TypeOK
    OBVIOUS
  <2>1. ASSUME NEW c \in Calls
        PROVE  \E n \in Outs \cup {0} : left[c] \in 0..n /\ got[c] \in 0..n
    <3>1. call[c].cmd.out \in Outs \cup {0} /\ call[c].cmd.out \in Nat
      BY ExecAssumption DEF Inv, Shape, Request, Outs, CommandType, NoCommand
    <3>2. left[c] \in 0..call[c].cmd.out /\ got[c] \in 0..call[c].cmd.out
      BY <3>1 DEF Inv, Shape, CallInv, Bounded
    <3> QED
      BY <3>1, <3>2
  <2>2. pipe \in [Calls -> 0..Cap]
    BY ExecAssumption DEF Inv, Shape, CallInv, Bounded
  <2> QED
    BY <2>1, <2>2 DEF Inv, Shape, TypeOK, Request
<1> QED
  BY <1>1, Invariant, PTL

\* Output is captured whole by every call that no timeout, limit or failure cut
\* short, on both platforms, whether it reads or waits first, also when the worker
\* outlives its shell and when other calls have inherited the pipe.
THEOREM CapturedWhole == Spec => []OutputComplete
<1>1. Inv => OutputComplete
  BY DEF Inv, CallInv, Returned, OutputComplete
<1> QED
  BY <1>1, Invariant, PTL

\* No call that waits returns before its process was waited for or while something
\* could still write into its pipe, unless it gave up reading at the limit.
THEOREM NothingLeft == Spec => []NothingLeftBehind
<1>1. Inv => NothingLeftBehind
  BY DEF Inv, CallInv, Returned, NothingLeftBehind
<1> QED
  BY <1>1, Invariant, PTL
=============================================================================
