--------------------------- MODULE CrontabProofs ----------------------------
(***************************************************************************)
(* Theorems about Crontab for every set of jobs and of lines, and crontabs *)
(* and lists of every length.                                              *)
(***************************************************************************)
EXTENDS Crontab, FiniteSetTheorems, TLAPS

\* A line has one of three kinds.
LEMMA LineKinds ==
  /\ \A l \in Lines : l.kind \in {"own", "tag", "run"}
  /\ \A kind, of : Line(kind, of).kind = kind /\ Line(kind, of).of = of
  /\ \A j \in JobIds : Line("tag", j) \in Lines /\ Line("run", j) \in Lines
<1>1. \A kind, of : Line(kind, of).kind = kind /\ Line(kind, of).of = of
  BY DEF Line
<1>2. ASSUME NEW l \in Lines PROVE l.kind \in {"own", "tag", "run"}
  <2>1. CASE l \in {Line("own", o) : o \in OwnLines}
    <3>1. PICK o \in OwnLines : l = Line("own", o)
      BY <2>1
    <3> QED
      BY <1>1, <3>1
  <2>2. CASE l \in {Line(kind, j) : kind \in {"tag", "run"}, j \in JobIds}
    <3>1. PICK kind \in {"tag", "run"}, j \in JobIds : l = Line(kind, j)
      BY <2>2
    <3> QED
      BY <1>1, <3>1
  <2> QED
    BY <2>1, <2>2 DEF Lines
<1>3. \A j \in JobIds : Line("tag", j) \in Lines /\ Line("run", j) \in Lines
  BY DEF Lines
<1> QED
  BY <1>1, <1>2, <1>3

\* Rank counts own lines one by one and grows with the position.
LEMMA Ranks ==
  ASSUME NEW i \in Nat
  PROVE  /\ Rank(0) = 0 /\ Rank(i) \in Nat
         /\ Rank(i + 1) = IF existing[i + 1].kind = "own" THEN Rank(i) + 1 ELSE Rank(i)
         /\ \A j \in 1..i : /\ Rank(j) \in Nat /\ Rank(j) <= Rank(i)
                            /\ existing[j].kind = "own" => Rank(j) >= 1
<1> DEFINE Own(n) == {j \in 1..n : existing[j].kind = "own"}
<1>1. ASSUME NEW n \in Nat PROVE IsFiniteSet(Own(n)) /\ Cardinality(Own(n)) \in Nat
  <2>1. IsFiniteSet(1..n)
    BY FS_Interval
  <2>2. Own(n) \in SUBSET (1..n)
    OBVIOUS
  <2> QED
    BY <2>1, <2>2, FS_Subset, FS_CardinalityType
<1>2. Cardinality(Own(0)) = 0
  <2>1. Own(0) = {}
    OBVIOUS
  <2> QED
    BY <2>1, FS_EmptySet
<1>3. Cardinality(Own(i + 1)) =
         IF existing[i + 1].kind = "own" THEN Cardinality(Own(i)) + 1 ELSE Cardinality(Own(i))
  <2>1. CASE existing[i + 1].kind = "own"
    <3>1. Own(i + 1) = Own(i) \cup {i + 1} /\ i + 1 \notin Own(i)
      BY <2>1
    <3> QED
      BY <1>1, <2>1, <3>1, FS_AddElement
  <2>2. CASE existing[i + 1].kind # "own"
    <3>1. Own(i + 1) = Own(i)
      BY <2>2
    <3> QED
      BY <2>2, <3>1
  <2> QED
    BY <2>1, <2>2
<1>4. ASSUME NEW j \in 1..i
      PROVE  /\ Cardinality(Own(j)) \in Nat /\ Cardinality(Own(j)) <= Cardinality(Own(i))
             /\ existing[j].kind = "own" => Cardinality(Own(j)) >= 1
  <2>1. Own(j) \in SUBSET Own(i)
    OBVIOUS
  <2>2. existing[j].kind = "own" => Own(j) # {}
    OBVIOUS
  <2>3. Cardinality(Own(j)) \in Nat /\ (Cardinality(Own(j)) = 0 <=> Own(j) = {})
    BY <1>1, FS_EmptySet
  <2> HIDE DEF Own
  <2> QED
    BY <1>1, <2>1, <2>2, <2>3, FS_Subset
<1> QED
  BY <1>1, <1>2, <1>3, <1>4 DEF Rank

-----------------------------------------------------------------------------
(* The loops. After each turn the text so far is what TextExact says of the *)
(* lines and jobs gone over, and skip_next says that the last line was a    *)
(* tag: a line that is not dropped is the user's own.                       *)

\* the own lines among the first i are at their places
OwnTo(i) ==
    \A j \in 1..i : existing[j].kind = "own" => out[Rank(j)] = existing[j]

BlocksTo(n) ==
    \A m \in 1..n : LET at == Rank(Len(existing)) + 2 * m IN
        out[at - 1] = Line("tag", jobs[m]) /\ out[at] = Line("run", jobs[m])

LinesLoop ==
    loop = "lines" =>
        /\ pos <= Len(existing) /\ Len(out) = Rank(pos) /\ OwnTo(pos)
        /\ skip_next <=> (pos > 0 /\ existing[pos].kind = "tag")
        /\ \A m \in DOMAIN out : out[m].kind = "own"

BlocksLoop ==
    loop = "blocks" =>
        /\ pos <= Len(jobs) /\ Len(out) = Rank(Len(existing)) + 2 * pos
        /\ OwnTo(Len(existing)) /\ BlocksTo(pos) /\ Whole(out)

LoopInv == CrontabTypeOK /\ Whole(existing) /\ LinesLoop /\ BlocksLoop

\* A line that follows no tag and is none is the user's own, and one that follows a
\* tag is the schedule line under it.
LEMMA WholeNext ==
  ASSUME Whole(existing), existing \in Seq(Lines), NEW i \in DOMAIN existing
  PROVE  /\ i > 1 /\ existing[i - 1].kind = "tag" => existing[i].kind = "run"
         /\ ~(i > 1 /\ existing[i - 1].kind = "tag") /\ existing[i].kind # "tag"
               => existing[i].kind = "own"
<1>1. CASE i > 1 /\ existing[i - 1].kind = "tag"
  <2>1. i - 1 \in DOMAIN existing /\ (i - 1) + 1 = i
    BY <1>1
  <2>2. existing[i] = Line("run", existing[i - 1].of)
    BY <1>1, <2>1 DEF Whole
  <2> QED
    BY <1>1, <2>2, LineKinds
<1>2. CASE ~(i > 1 /\ existing[i - 1].kind = "tag") /\ existing[i].kind # "tag"
  <2>1. existing[i].kind \in {"own", "tag", "run"}
    BY LineKinds
  <2>2. existing[i].kind # "run"
    BY <1>2, LineKinds DEF Whole
  <2> QED
    BY <1>2, <2>1, <2>2
<1> QED
  BY <1>1, <1>2

\* A block appended to whole blocks leaves them whole.
LEMMA WholeBlock ==
  ASSUME NEW t \in Seq(Lines), Whole(t), NEW j \in JobIds
  PROVE  /\ t \o Block(j) \in Seq(Lines) /\ Whole(t \o Block(j))
         /\ Len(t \o Block(j)) = Len(t) + 2
         /\ \A i \in DOMAIN t : (t \o Block(j))[i] = t[i]
         /\ (t \o Block(j))[Len(t) + 1] = Line("tag", j)
         /\ (t \o Block(j))[Len(t) + 2] = Line("run", j)
<1> DEFINE s == t \o Block(j)
<1>1. /\ s \in Seq(Lines) /\ Len(s) = Len(t) + 2
      /\ \A i \in DOMAIN t : s[i] = t[i]
      /\ s[Len(t) + 1] = Line("tag", j) /\ s[Len(t) + 2] = Line("run", j)
  BY LineKinds DEF Block
<1>2. ASSUME NEW i \in DOMAIN s
      PROVE  /\ s[i].kind = "tag" => i < Len(s) /\ s[i + 1] = Line("run", s[i].of)
             /\ s[i].kind = "run" => i > 1 /\ s[i - 1] = Line("tag", s[i].of)
  <2> HIDE DEF s
  <2>1. CASE i \in DOMAIN t
    <3>1. t[i].kind = "tag" => i + 1 \in DOMAIN t
      BY <2>1 DEF Whole
    <3>2. t[i].kind = "run" => i - 1 \in DOMAIN t
      BY <2>1 DEF Whole
    <3> QED
      BY <1>1, <2>1, <3>1, <3>2 DEF Whole
  <2>2. CASE i = Len(t) + 1
    BY <1>1, <2>2, LineKinds
  <2>3. CASE i = Len(t) + 2
    BY <1>1, <2>3, LineKinds
  <2> QED
    BY <1>1, <1>2, <2>1, <2>2, <2>3
<1> QED
  BY <1>1, <1>2 DEF Whole

\* What the user leaves in an editor is a crontab with whole blocks.
LEMMA CrontabsTyped == \A t \in Crontabs : t \in Seq(Lines) /\ Whole(t)
BY CrontabAssumption DEF Crontabs

\* list_for_user returns a list of jobs.
LEMMA ListsTyped == \A list \in Lists : list \in Seq(JobIds)
BY CrontabAssumption DEF Lists

\* Every turn of the two loops, every edit and every installation keeps the invariant
\* of the loops.
LEMMA LoopStep == LoopInv /\ [CrontabNext]_crontabVars => LoopInv'
<1> SUFFICES ASSUME LoopInv, [CrontabNext]_crontabVars PROVE LoopInv'
  OBVIOUS
<1> USE CrontabAssumption DEF LoopInv
<1>a. existing' = existing => \A i : Rank(i)' = Rank(i)
  BY DEF Rank
<1>1. CASE Edit
  <2>1. text' \in Seq(Lines) /\ Whole(text')
    BY <1>1, CrontabsTyped DEF Edit
  <2>2. UNCHANGED building
    BY <1>1 DEF Edit
  <2>3. CrontabTypeOK' /\ Whole(existing)'
    BY <2>1, <2>2 DEF CrontabTypeOK, building, Whole
  <2>4. LinesLoop' /\ BlocksLoop'
    BY <1>a, <2>2 DEF LinesLoop, BlocksLoop, OwnTo, BlocksTo, building, Whole
  <2> QED
    BY <2>3, <2>4
<1>2. ASSUME NEW list \in Lists, Read(list) PROVE LoopInv'
  <2>0. /\ existing' \in {text, <<>>} /\ UNCHANGED text /\ jobs' \in Seq(JobIds)
        /\ loop' = "lines" /\ pos' = 0 /\ skip_next' = FALSE /\ out' = <<>>
    BY <1>2, ListsTyped DEF Read
  <2>1. CrontabTypeOK' /\ Whole(existing)'
    <3>1. text \in Seq(Lines) /\ Whole(text)
      BY DEF CrontabTypeOK
    <3>2. out' \in Seq(Lines)
      BY <2>0
    <3>3. Whole(<<>>) /\ <<>> \in Seq(Lines)
      BY DEF Whole
    <3>4. Whole(existing') /\ Whole(text') /\ existing' \in Seq(Lines) /\ text' \in Seq(Lines)
      BY <2>0, <3>1, <3>3
    <3> QED
      BY <2>0, <3>2, <3>4 DEF CrontabTypeOK
  <2>2. Rank(0)' = 0
    <3>1. {j \in 1..0 : existing'[j].kind = "own"} = {}
      OBVIOUS
    <3> QED
      BY <3>1, FS_EmptySet DEF Rank
  <2>3. LinesLoop' /\ BlocksLoop'
    BY <2>0, <2>1, <2>2 DEF LinesLoop, BlocksLoop, OwnTo, CrontabTypeOK
  <2> QED
    BY <2>1, <2>3
<1>3. CASE KeepOrDrop
  <2> DEFINE next == pos + 1
  <2>1. /\ loop = "lines" /\ loop' = loop /\ next \in DOMAIN existing /\ pos \in Nat
        /\ UNCHANGED <<text, existing, jobs>> /\ pos' = next
        /\ existing[next] \in Lines
    BY <1>3 DEF KeepOrDrop, CrontabTypeOK
  <2>2. /\ Len(out) = Rank(pos) /\ OwnTo(pos) /\ out \in Seq(Lines)
        /\ skip_next <=> (pos > 0 /\ existing[pos].kind = "tag")
        /\ \A m \in DOMAIN out : out[m].kind = "own"
    BY <2>1 DEF LinesLoop, CrontabTypeOK
  <2>3. /\ skip_next => existing[next].kind = "run"
        /\ ~skip_next /\ existing[next].kind # "tag" => existing[next].kind = "own"
    <3>1. existing \in Seq(Lines) /\ Whole(existing) /\ next \in DOMAIN existing
      BY <2>1 DEF CrontabTypeOK
    <3>2. next - 1 = pos /\ (next > 1 <=> pos > 0)
      BY <2>1
    <3> HIDE DEF next
    <3> QED
      BY <2>2, <3>1, <3>2, WholeNext
  <2>4. /\ Rank(pos) \in Nat
        /\ Rank(next) = IF existing[next].kind = "own" THEN Rank(pos) + 1 ELSE Rank(pos)
        /\ \A j \in 1..pos : /\ Rank(j) \in Nat /\ Rank(j) <= Rank(pos)
                             /\ existing[j].kind = "own" => Rank(j) >= 1
    BY <2>1, Ranks
  <2>5. CASE existing[next].kind = "own"
    <3>1. out' = Append(out, existing[next]) /\ skip_next = FALSE /\ skip_next' = skip_next
      BY <1>3, <2>3, <2>5 DEF KeepOrDrop, CrontabTypeOK
    <3>2. /\ out' \in Seq(Lines) /\ Len(out') = Rank(next)
          /\ out'[Rank(next)] = existing[next]
          /\ \A m \in 1..Rank(pos) : out'[m] = out[m]
      BY <2>1, <2>2, <2>4, <2>5, <3>1
    <3>3. \A m \in DOMAIN out' : out'[m].kind = "own"
      BY <2>2, <2>4, <2>5, <3>2
    <3>4. \A j \in 1..next : existing[j].kind = "own" => out'[Rank(j)] = existing[j]
      BY <2>1, <2>2, <2>4, <3>2 DEF OwnTo
    <3>5. OwnTo(pos)'
      BY <1>a, <2>1, <3>4 DEF OwnTo
    <3>6. Len(out') = Rank(pos)' /\ pos' <= Len(existing')
      BY <1>a, <2>1, <3>2 DEF CrontabTypeOK
    <3>7. ~skip_next' /\ existing'[pos'].kind # "tag"
      BY <2>1, <2>5, <3>1
    <3>8. LinesLoop'
      BY <3>3, <3>5, <3>6, <3>7 DEF LinesLoop
    <3> QED
      BY <2>1, <3>1, <3>2, <3>8 DEF CrontabTypeOK, BlocksLoop, Whole
  <2>6. CASE existing[next].kind # "own"
    <3>1. /\ out' = out /\ skip_next' \in BOOLEAN
          /\ skip_next' <=> existing[next].kind = "tag"
      BY <1>3, <2>3, <2>6 DEF KeepOrDrop, CrontabTypeOK
    <3>2. \A j \in 1..next : existing[j].kind = "own" => out'[Rank(j)] = existing[j]
      BY <2>1, <2>2, <2>6, <3>1 DEF OwnTo
    <3>3. LinesLoop'
      BY <1>a, <2>1, <2>2, <2>4, <2>6, <3>1, <3>2 DEF LinesLoop, OwnTo
    <3> QED
      BY <2>1, <3>1, <3>3 DEF CrontabTypeOK, BlocksLoop, Whole
  <2> QED
    BY <2>5, <2>6
<1>4. CASE LinesDone
  <2>1. /\ loop' = "blocks" /\ pos' = 0 /\ UNCHANGED <<text, existing, jobs, skip_next, out>>
        /\ Len(out) = Rank(Len(existing)) /\ OwnTo(Len(existing)) /\ out \in Seq(Lines)
        /\ \A m \in DOMAIN out : out[m].kind = "own"
    BY <1>4 DEF LinesDone, LinesLoop, CrontabTypeOK
  <2>2. Whole(out)
    BY <2>1 DEF Whole
  <2>3. CrontabTypeOK' /\ Whole(existing)'
    BY <2>1 DEF CrontabTypeOK, Whole
  <2>4. Len(existing) \in Nat /\ Len(jobs) \in Nat /\ Rank(Len(existing)) \in Nat
    <3>1. Len(existing) \in Nat /\ Len(jobs) \in Nat
      BY DEF CrontabTypeOK
    <3> QED
      BY <3>1, Ranks
  <2>5. BlocksLoop'
    BY <1>a, <2>1, <2>2, <2>4 DEF BlocksLoop, OwnTo, BlocksTo, Whole
  <2> QED
    BY <2>1, <2>3, <2>5 DEF LinesLoop
<1>5. CASE AppendBlock
  <2> DEFINE next == pos + 1
             own == Rank(Len(existing))
  <2>1. /\ loop = "blocks" /\ loop' = loop /\ next \in DOMAIN jobs /\ pos \in Nat
        /\ UNCHANGED <<text, existing, jobs, skip_next>> /\ pos' = next
        /\ out' = out \o Block(jobs[next]) /\ jobs[next] \in JobIds
    BY <1>5 DEF AppendBlock, CrontabTypeOK
  <2>2. /\ out \in Seq(Lines) /\ Whole(out) /\ Len(out) = own + 2 * pos
        /\ OwnTo(Len(existing)) /\ BlocksTo(pos)
    BY <2>1 DEF BlocksLoop, CrontabTypeOK
  <2>3. /\ out' \in Seq(Lines) /\ Whole(out') /\ Len(out') = Len(out) + 2
        /\ \A i \in DOMAIN out : out'[i] = out[i]
        /\ out'[Len(out) + 1] = Line("tag", jobs[next])
        /\ out'[Len(out) + 2] = Line("run", jobs[next])
    BY <2>1, <2>2, WholeBlock
  <2>4. /\ own \in Nat /\ Len(existing) \in Nat
        /\ \A j \in 1..Len(existing) :
              /\ Rank(j) \in Nat /\ Rank(j) <= own
              /\ existing[j].kind = "own" => Rank(j) >= 1
    <3>1. Len(existing) \in Nat
      BY DEF CrontabTypeOK
    <3> QED
      BY <3>1, Ranks
  <2>5. \A j \in 1..Len(existing) :
           existing[j].kind = "own" => out'[Rank(j)] = existing[j]
    <3> SUFFICES ASSUME NEW j \in 1..Len(existing), existing[j].kind = "own"
                 PROVE  out'[Rank(j)] = existing[j]
      OBVIOUS
    <3>1. out[Rank(j)] = existing[j]
      BY <2>2 DEF OwnTo
    <3>2. Rank(j) \in 1..Len(out) /\ DOMAIN out = 1..Len(out)
      <4>1. Rank(j) \in Nat /\ 1 <= Rank(j) /\ Rank(j) <= own
        BY <2>4
      <4> HIDE DEF own
      <4> QED
        BY <2>1, <2>2, <2>4, <4>1
    <3> QED
      BY <2>3, <3>1, <3>2
  <2>6. ASSUME NEW m \in 1..next
        PROVE  /\ out'[(own + 2 * m) - 1] = Line("tag", jobs[m])
               /\ out'[own + 2 * m] = Line("run", jobs[m])
    <3>0. m \in 1..pos \/ m = next
      BY <2>1
    <3>1. CASE m \in 1..pos
      <4>1. (own + 2 * m) - 1 \in DOMAIN out /\ own + 2 * m \in DOMAIN out
        BY <2>1, <2>2, <2>4, <3>1
      <4>2. /\ out[(own + 2 * m) - 1] = Line("tag", jobs[m])
            /\ out[own + 2 * m] = Line("run", jobs[m])
        BY <2>2, <3>1 DEF BlocksTo
      <4> QED
        BY <2>3, <4>1, <4>2
    <3>2. CASE m = next
      <4>1. (own + 2 * m) - 1 = Len(out) + 1 /\ own + 2 * m = Len(out) + 2
        BY <2>1, <2>2, <2>4, <3>2
      <4> QED
        BY <2>3, <3>2, <4>1
    <3> QED
      BY <3>0, <3>1, <3>2
  <2>7. Rank(Len(existing))' = own
    BY <1>a, <2>1
  <2>8. OwnTo(Len(existing))' /\ BlocksTo(pos)'
    BY <1>a, <2>1, <2>5, <2>6, <2>7 DEF OwnTo, BlocksTo
  <2>9. BlocksLoop'
    <3> HIDE DEF own
    <3>1. Len(out') = own + 2 * next /\ next <= Len(jobs)
      BY <2>1, <2>2, <2>3, <2>4
    <3> QED
      BY <2>1, <2>3, <2>7, <2>8, <3>1 DEF BlocksLoop, Whole
  <2> QED
    BY <2>1, <2>3, <2>9 DEF CrontabTypeOK, LinesLoop, Whole
<1>6. CASE Write
  <2>1. Whole(text') /\ text' \in Seq(Lines)
    BY <1>6 DEF Write, Built, BlocksLoop, CrontabTypeOK
  <2>2. /\ loop' = "idle" /\ existing' = <<>> /\ out' = <<>> /\ jobs' = <<>>
        /\ pos' = 0 /\ skip_next' = FALSE
    BY <1>6 DEF Write
  <2>3. existing' \in Seq(Lines) /\ out' \in Seq(Lines) /\ jobs' \in Seq(JobIds) /\ Whole(existing')
    BY <2>2 DEF Whole
  <2> QED
    BY <2>1, <2>2, <2>3 DEF CrontabTypeOK, LinesLoop, BlocksLoop
<1>7. CASE UNCHANGED crontabVars
  BY <1>a, <1>7 DEF crontabVars, CrontabTypeOK, LinesLoop, BlocksLoop, OwnTo, BlocksTo, Whole
<1> QED
  BY <1>1, <1>2, <1>3, <1>4, <1>5, <1>6, <1>7 DEF CrontabNext

-----------------------------------------------------------------------------
(* Theorems *)

\* The invariant of the loops holds at every moment.
LEMMA LoopsHold == CrontabSpec => []LoopInv
<1>1. CrontabInit => LoopInv
  <2> SUFFICES ASSUME CrontabInit PROVE LoopInv
    OBVIOUS
  <2>1. text \in Seq(Lines) /\ existing \in Seq(Lines) /\ out \in Seq(Lines) /\ jobs \in Seq(JobIds)
    BY DEF CrontabInit
  <2>2. Whole(text) /\ Whole(existing)
    BY DEF CrontabInit, Whole
  <2> QED
    BY <2>1, <2>2 DEF CrontabInit, LoopInv, CrontabTypeOK, LinesLoop, BlocksLoop
<1> QED
  BY <1>1, LoopStep, PTL DEF CrontabSpec

\* The state is well typed, and rebuild_user_schedule never leaves a tag without its
\* schedule line or a schedule line without its tag in an installed crontab, whatever
\* the user wrote around the blocks and whichever installation failed.
THEOREM TypeCorrect == CrontabSpec => []CrontabTypeOK
<1>1. LoopInv => CrontabTypeOK
  BY DEF LoopInv
<1> QED
  BY <1>1, LoopsHold, PTL

\* build_crontab_text keeps the user's own lines, all of them and in their order, and
\* writes one block for each job of the list in its order and no other line: for
\* crontabs and lists of every length.
THEOREM RebuiltText == CrontabSpec => []TextExact
<1>1. LoopInv => TextExact
  <2> SUFFICES ASSUME LoopInv, Built
               PROVE  LET own == Rank(Len(existing)) IN
                      /\ Len(out) = own + 2 * Len(jobs)
                      /\ \A i \in DOMAIN existing :
                            existing[i].kind = "own" => out[Rank(i)] = existing[i]
                      /\ \A n \in DOMAIN jobs :
                            /\ out[own + 2 * n - 1] = Line("tag", jobs[n])
                            /\ out[own + 2 * n] = Line("run", jobs[n])
    BY DEF TextExact
  <2>1. /\ Len(out) = Rank(Len(existing)) + 2 * Len(jobs)
        /\ OwnTo(Len(existing)) /\ BlocksTo(Len(jobs))
    BY DEF LoopInv, BlocksLoop, Built
  <2>2. DOMAIN existing = 1..Len(existing) /\ DOMAIN jobs = 1..Len(jobs)
    BY DEF LoopInv, CrontabTypeOK
  <2>3. \A i \in DOMAIN existing : existing[i].kind = "own" => out[Rank(i)] = existing[i]
    BY <2>1, <2>2 DEF OwnTo
  <2>4. \A n \in DOMAIN jobs :
           /\ out[Rank(Len(existing)) + 2 * n - 1] = Line("tag", jobs[n])
           /\ out[Rank(Len(existing)) + 2 * n] = Line("run", jobs[n])
    <3> TAKE n \in DOMAIN jobs
    <3>1. Len(existing) \in Nat /\ n \in 1..Len(jobs) /\ n \in Nat
      BY <2>2 DEF LoopInv, CrontabTypeOK
    <3>2. Rank(Len(existing)) \in Nat
      BY <3>1, Ranks
    <3>3. Rank(Len(existing)) + 2 * n - 1 = (Rank(Len(existing)) + 2 * n) - 1
      BY <3>1, <3>2
    <3> QED
      BY <2>1, <3>1, <3>3 DEF BlocksTo
  <2> QED
    BY <2>1, <2>3, <2>4
<1> QED
  BY <1>1, LoopsHold, PTL
=============================================================================
