--------------------------- MODULE SessionsProofs ---------------------------
(***************************************************************************)
(* Theorems about Sessions for every number of sessions, bearers and       *)
(* threads, every ttl, every collection interval and every delay, and      *)
(* about RateLimiter, which every request passes, for every limit, window, *)
(* set of users and number of calls.                                       *)
(***************************************************************************)
EXTENDS Sessions, RateLimiter, FiniteSetTheorems, TLAPS

-----------------------------------------------------------------------------
(* Type correctness *)

\* A thread that serves nothing is well typed.
LEMMA IdleTyped == IdleThread.bearer \in Bearers
BY SessionsAssumption DEF IdleThread

\* A request that works on a session by name has one that was issued.
Named == \A t \in Threads :
    thr[t].pc \in {"invalidate", "validate", "served"} => thr[t].sid \in issued

TypeInv == TypeOK /\ Named

Pcs == {"idle", "invalidate", "issue", "validate", "served"}
Thread(n) == [pc : Pcs, bearer : Bearers, method : Methods,
              sid : Sids \cup {NoSid}, clock : 0..n, shut : SUBSET Sids]

\* Every handler step, restart and tick keeps the state well typed: no clock, no
\* last_seen and no collection time is ever ahead of now.
LEMMA TypeStep == TypeInv /\ [Next]_vars => TypeInv'
<1> SUFFICES ASSUME TypeInv, [Next]_vars PROVE TypeInv'
  OBVIOUS
<1> USE SessionsAssumption DEF TypeInv, TypeOK, Named, Methods
<1>0. IdleThread \in Thread(now) /\ IdleThread.pc = "idle"
  BY IdleTyped DEF IdleThread, Thread, Pcs
<1>1. ASSUME NEW t \in Threads, NEW b \in Bearers, NEW m \in Methods,
             NEW hdr \in issued \cup {NoSid}, Request(t, b, m, hdr)
      PROVE  TypeInv'
  BY <1>1 DEF Request
<1>2. ASSUME NEW t \in Threads, InvalidateOld(t) PROVE TypeInv'
  <2>0. thr[t] \in Thread(now) /\ now \in 0..now
    BY DEF Thread, Pcs
  <2>1. [thr[t] EXCEPT !.pc = "issue", !.clock = now] \in Thread(now)
    BY <2>0 DEF Thread, Pcs
  <2>2. thr' = [thr EXCEPT ![t] = [thr[t] EXCEPT !.pc = "issue", !.clock = now]]
    BY <1>2 DEF InvalidateOld
  <2> QED
    BY <1>2, <2>1, <2>2 DEF InvalidateOld, Thread, Pcs
<1>3. ASSUME NEW t \in Threads, Issue(t) PROVE TypeInv'
  <2> PICK s \in Sids \ issued :
        /\ issued' = issued \cup {s}
        /\ live' = (live \ Collected(thr[t].clock)) \cup {s}
        /\ sessions' = [sessions EXCEPT ![s] = [bearer |-> thr[t].bearer, seen |-> thr[t].clock]]
        /\ owner' = [owner EXCEPT ![s] = thr[t].bearer]
        /\ lastUse' = [lastUse EXCEPT ![s] = thr[t].clock]
        /\ thr' = [thr EXCEPT ![t].pc = "served", ![t].sid = s]
    BY <1>3 DEF Issue
  <2>1. [thr[t] EXCEPT !.pc = "served", !.sid = s] \in Thread(now)
    BY DEF Thread, Pcs
  <2>2. thr' = [thr EXCEPT ![t] = [thr[t] EXCEPT !.pc = "served", !.sid = s]]
    OBVIOUS
  <2>3. thr' \in [Threads -> Thread(now)] /\ Named'
    BY <2>1, <2>2 DEF Thread, Pcs
  <2>4. /\ sessions' \in [Sids -> [bearer : Bearers, seen : 0..now]]
        /\ owner' \in [Sids -> Bearers] /\ lastUse' \in [Sids -> 0..now]
    OBVIOUS
  <2> QED
    BY <1>3, <2>3, <2>4 DEF Issue, Thread, Pcs
<1>4. ASSUME NEW t \in Threads, Validate(t) PROVE TypeInv'
  <2> DEFINE s == thr[t].sid
  <2>1. CASE Accepts(s, thr[t].bearer, thr[t].clock)
    <3>1. s \in Sids /\ s \in issued
      BY <2>1 DEF Accepts
    <3>2. [thr[t] EXCEPT !.pc = "served"] \in Thread(now)
      BY DEF Thread, Pcs
    <3>3. thr' = [thr EXCEPT ![t] = [thr[t] EXCEPT !.pc = "served"]]
      BY <1>4, <2>1 DEF Validate
    <3>4. thr' \in [Threads -> Thread(now)] /\ Named'
      BY <1>4, <3>1, <3>2, <3>3 DEF Validate, Thread, Pcs
    <3>c. thr[t].clock \in 0..now
      OBVIOUS
    <3>5. sessions' \in [Sids -> [bearer : Bearers, seen : 0..now]]
      <4>1. [sessions[s] EXCEPT !.seen = thr[t].clock] \in [bearer : Bearers, seen : 0..now]
        BY <3>1, <3>c
      <4>2. sessions' = [sessions EXCEPT ![s] = [sessions[s] EXCEPT !.seen = thr[t].clock]]
        BY <1>4, <2>1 DEF Validate
      <4> QED
        BY <4>1, <4>2
    <3>6. lastUse' \in [Sids -> 0..now]
      <4>1. lastUse' = [lastUse EXCEPT ![s] = IF thr[t].clock > lastUse[s] THEN thr[t].clock
                                              ELSE lastUse[s]]
        BY <1>4, <2>1 DEF Validate
      <4>2. lastUse[s] \in 0..now
        BY <3>1
      <4> QED
        BY <3>c, <4>1, <4>2
    <3> QED
      BY <1>4, <2>1, <3>4, <3>5, <3>6 DEF Validate, Thread, Pcs
  <2>2. CASE ~Accepts(s, thr[t].bearer, thr[t].clock)
    <3>1. thr' = [thr EXCEPT ![t] = IdleThread] /\ live' \subseteq live
      BY <1>4, <2>2 DEF Validate, End
    <3>2. thr' \in [Threads -> Thread(now)] /\ Named'
      BY <1>0, <1>4, <3>1 DEF Validate, Thread, Pcs
    <3> QED
      BY <1>4, <2>2, <3>1, <3>2 DEF Validate, Thread, Pcs
  <2> QED
    BY <2>1, <2>2
<1>5. ASSUME NEW t \in Threads, Finish(t) PROVE TypeInv'
  BY <1>0, <1>5 DEF Finish, End, Thread, Pcs
<1>6. CASE Restart
  BY <1>0, <1>6 DEF Restart, Thread, Pcs
<1>7. CASE Tick
  BY <1>7 DEF Tick
<1>8. CASE UNCHANGED vars
  BY <1>8 DEF vars
<1> QED
  BY <1>1, <1>2, <1>3, <1>4, <1>5, <1>6, <1>7, <1>8 DEF Next

\* TypeInv holds in every reachable state.
LEMMA TypeInvariant == Spec => []TypeInv
<1>1. Init => TypeInv
  BY IdleTyped, SessionsAssumption DEF Init, TypeInv, TypeOK, Named, IdleThread, Methods
<1> QED
  BY <1>1, TypeStep, PTL DEF Spec

\* SessionStore and the requests in progress are well typed in every reachable
\* state.
THEOREM TypeCorrect == Spec => []TypeOK
BY TypeInvariant, PTL DEF TypeInv

-----------------------------------------------------------------------------
(* A session serves its own bearer, and nobody after its end. validate only *)
(* looks at what is stored, so the invariant relates that to the history.   *)

\* What is stored of a session is the bearer it was issued to.
Stored == \A s \in issued : sessions[s].bearer = owner[s]

\* What was closed is not live, and is never issued again.
Closed == closed \cap live = {}

\* What a request had to find closed is still closed.
Earlier == \A t \in Threads : thr[t].shut \subseteq closed

OwnInv == TypeInv /\ Stored /\ Closed /\ Earlier /\ ServedSessionIsOwn

\* Every step preserves OwnInv.
LEMMA OwnStep == OwnInv /\ [Next]_vars => OwnInv'
<1> SUFFICES ASSUME OwnInv, [Next]_vars PROVE OwnInv'
  OBVIOUS
<1>0. TypeInv' /\ TypeInv
  BY TypeStep DEF OwnInv
<1> USE DEF OwnInv, TypeInv, TypeOK, Named, Stored, Closed, Earlier, ServedSessionIsOwn
<1>1. ASSUME NEW t \in Threads, NEW b \in Bearers, NEW m \in Methods,
             NEW hdr \in issued \cup {NoSid}, Request(t, b, m, hdr)
      PROVE  OwnInv'
  BY <1>0, <1>1 DEF Request
<1>2. ASSUME NEW t \in Threads, InvalidateOld(t) PROVE OwnInv'
  BY <1>0, <1>2 DEF InvalidateOld
<1>3. ASSUME NEW t \in Threads, Issue(t) PROVE OwnInv'
  BY <1>0, <1>3 DEF Issue
<1>4. ASSUME NEW t \in Threads, Validate(t) PROVE OwnInv'
  <2> DEFINE s == thr[t].sid
  <2>1. CASE Accepts(s, thr[t].bearer, thr[t].clock)
    <3>1. s \in live /\ s \in issued /\ s \in Sids /\ sessions[s].bearer = thr[t].bearer
      BY <2>1 DEF Accepts
    <3>2. /\ sessions' = [sessions EXCEPT ![s].seen = thr[t].clock]
          /\ thr' = [thr EXCEPT ![t].pc = "served"]
          /\ UNCHANGED <<live, issued, owner, closed>>
      BY <1>4, <2>1 DEF Validate
    <3>3. Stored'
      BY <3>1, <3>2
    <3>4. owner[s] = thr[t].bearer /\ s \notin thr[t].shut
      BY <3>1
    <3>5. ServedSessionIsOwn'
      BY <3>2, <3>4
    <3> QED
      BY <1>0, <3>2, <3>3, <3>5
  <2>2. CASE ~Accepts(s, thr[t].bearer, thr[t].clock)
    <3>1. /\ thr' = [thr EXCEPT ![t] = IdleThread] /\ live' \subseteq live
          /\ UNCHANGED <<sessions, issued, owner, closed>>
      BY <1>4, <2>2 DEF Validate, End
    <3> QED
      BY <1>0, <3>1 DEF IdleThread
  <2> QED
    BY <2>1, <2>2
<1>5. ASSUME NEW t \in Threads, Finish(t) PROVE OwnInv'
  BY <1>0, <1>5 DEF Finish, End, IdleThread
<1>6. CASE Restart
  BY <1>0, <1>6 DEF Restart, IdleThread
<1>7. CASE Tick \/ UNCHANGED vars
  BY <1>0, <1>7 DEF Tick, vars
<1> QED
  BY <1>1, <1>2, <1>3, <1>4, <1>5, <1>6, <1>7 DEF Next

\* No request is served on a session of another bearer, nor on one whose shutdown
\* or replacement was answered before the request came in, however requests,
\* collections and restarts interleave.
THEOREM ServedIsOwn == Spec => []ServedSessionIsOwn
<1>1. Init => OwnInv
  BY IdleTyped, SessionsAssumption DEF Init, OwnInv, TypeInv, TypeOK, Named, Stored, Closed,
     Earlier, ServedSessionIsOwn, IdleThread, Methods
<1>2. OwnInv => ServedSessionIsOwn
  BY DEF OwnInv
<1> QED
  BY <1>1, <1>2, OwnStep, PTL DEF Spec

-----------------------------------------------------------------------------
(* A session in use is kept. A request reads the clock before it waits for  *)
(* the mutex and may put last_seen back, but by no more than its wait.      *)

\* Nobody has waited longer than MaxDelay with the clock in hand.
Waits == \A t \in Threads :
    thr[t].pc \in {"issue", "validate"} => now - thr[t].clock <= MaxDelay

\* last_seen lags behind the last use by no more than that.
Lag == \A s \in Sids : lastUse[s] - sessions[s].seen <= MaxDelay

KeptInv == TypeInv /\ Waits /\ Lag

\* Every step preserves KeptInv.
LEMMA KeptStep == KeptInv /\ [Next]_vars => KeptInv'
<1> SUFFICES ASSUME KeptInv, [Next]_vars PROVE KeptInv'
  OBVIOUS
<1>0. TypeInv' /\ TypeInv
  BY TypeStep DEF KeptInv
<1> USE SessionsAssumption DEF KeptInv, TypeInv, TypeOK, Waits, Lag
<1>1. ASSUME NEW t \in Threads, NEW b \in Bearers, NEW m \in Methods,
             NEW hdr \in issued \cup {NoSid}, Request(t, b, m, hdr)
      PROVE  KeptInv'
  BY <1>0, <1>1 DEF Request
<1>2. ASSUME NEW t \in Threads, InvalidateOld(t) PROVE KeptInv'
  BY <1>0, <1>2 DEF InvalidateOld
<1>3. ASSUME NEW t \in Threads, Issue(t) PROVE KeptInv'
  BY <1>0, <1>3 DEF Issue
<1>4. ASSUME NEW t \in Threads, Validate(t) PROVE KeptInv'
  <2> DEFINE s == thr[t].sid
  <2>1. CASE Accepts(s, thr[t].bearer, thr[t].clock)
    <3>1. /\ thr[t].pc = "validate" /\ s \in Sids
          /\ sessions' = [sessions EXCEPT ![s].seen = thr[t].clock]
          /\ lastUse' = [lastUse EXCEPT ![s] = IF thr[t].clock > @ THEN thr[t].clock ELSE @]
          /\ thr' = [thr EXCEPT ![t].pc = "served"] /\ now' = now
      BY <1>4, <2>1 DEF Validate, Accepts
    <3>2. Waits'
      BY <3>1
    <3>3. /\ now \in Nat /\ thr[t].clock \in 0..now /\ now - thr[t].clock <= MaxDelay
          /\ lastUse[s] \in 0..now /\ MaxDelay \in Nat
      BY <3>1
    <3>4. lastUse'[s] - sessions'[s].seen <= MaxDelay
      <4>1. sessions'[s].seen = thr[t].clock
        BY <3>1
      <4>2. lastUse'[s] \in {thr[t].clock, lastUse[s]}
        BY <3>1
      <4> QED
        BY <3>3, <4>1, <4>2
    <3>5. ASSUME NEW r \in Sids, r # s
          PROVE  lastUse'[r] - sessions'[r].seen <= MaxDelay
      BY <3>1, <3>5
    <3> QED
      BY <1>0, <3>2, <3>4, <3>5
  <2>2. CASE ~Accepts(s, thr[t].bearer, thr[t].clock)
    <3>1. thr' = [thr EXCEPT ![t] = IdleThread] /\ UNCHANGED <<now, sessions, lastUse>>
      BY <1>4, <2>2 DEF Validate, End
    <3> QED
      BY <1>0, <3>1 DEF IdleThread
  <2> QED
    BY <2>1, <2>2
<1>5. ASSUME NEW t \in Threads, Finish(t) PROVE KeptInv'
  BY <1>0, <1>5 DEF Finish, End, IdleThread
<1>6. CASE Restart
  BY <1>0, <1>6 DEF Restart, IdleThread
<1>7. CASE Tick
  BY <1>0, <1>7 DEF Tick
<1>8. CASE UNCHANGED vars
  BY <1>0, <1>8 DEF vars
<1> QED
  BY <1>1, <1>2, <1>3, <1>4, <1>5, <1>6, <1>7, <1>8 DEF Next

\* A session that idles out by the clock of a request, which is not ahead of now,
\* was not used for the idle ttl, short of a wait.
LEMMA IdledUnused ==
  ASSUME KeptInv, NEW s \in Sids, NEW read \in 0..now, Idled(s, read)
  PROVE  now - lastUse[s] > IdleTtl - MaxDelay
<1>1. /\ now \in Nat /\ read \in Nat /\ read <= now /\ IdleTtl \in Nat /\ MaxDelay \in Nat
      /\ lastUse[s] \in Nat /\ sessions[s].seen \in Nat
  BY SessionsAssumption DEF KeptInv, TypeInv, TypeOK
<1>2. lastUse[s] - sessions[s].seen <= MaxDelay /\ read - sessions[s].seen > IdleTtl
  BY DEF KeptInv, Lag, Idled
<1> QED
  BY <1>1, <1>2

\* A session leaves the store only because a request ended it by name, the daemon
\* restarted, or it was not used for the idle ttl short of the longest wait, for
\* every ttl, interval and delay: neither the collector nor validate loses a
\* session in use.
THEOREM InUseKept == Spec => InUseIsKept
<1>1. Init => KeptInv
  BY IdleTyped, SessionsAssumption DEF Init, KeptInv, TypeInv, TypeOK, Named, Waits, Lag,
     IdleThread, Methods
<1>2. KeptInv /\ [Next]_vars =>
        [\A s \in live \ live' :
          \/ now - lastUse[s] > IdleTtl - MaxDelay
          \/ Restart
          \/ \E t \in Threads : /\ thr[t].sid = s
                                /\ \/ thr[t].pc = "invalidate"
                                   \/ thr[t].pc = "served" /\ thr[t].method = "shutdown"]_vars
  <2> SUFFICES ASSUME KeptInv, Next, NEW s \in live \ live'
               PROVE  \/ now - lastUse[s] > IdleTtl - MaxDelay
                      \/ Restart
                      \/ \E t \in Threads :
                            /\ thr[t].sid = s
                            /\ \/ thr[t].pc = "invalidate"
                               \/ thr[t].pc = "served" /\ thr[t].method = "shutdown"
    BY DEF vars
  <2>0. s \in Sids /\ \A t \in Threads : thr[t].clock \in 0..now
    BY DEF KeptInv, TypeInv, TypeOK
  <2>1. ASSUME NEW t \in Threads, Issue(t) PROVE now - lastUse[s] > IdleTtl - MaxDelay
    <3>1. Idled(s, thr[t].clock)
      BY <2>1 DEF Issue, Collected
    <3> QED
      BY <2>0, <3>1, IdledUnused
  <2>2. ASSUME NEW t \in Threads, Validate(t) PROVE now - lastUse[s] > IdleTtl - MaxDelay
    <3>1. Idled(s, thr[t].clock)
      BY <2>2 DEF Validate
    <3> QED
      BY <2>0, <3>1, IdledUnused
  <2>3. ASSUME NEW t \in Threads, InvalidateOld(t)
        PROVE  thr[t].sid = s /\ thr[t].pc = "invalidate"
    BY <2>3 DEF InvalidateOld
  <2>4. ASSUME NEW t \in Threads, Finish(t)
        PROVE  thr[t].sid = s /\ thr[t].pc = "served" /\ thr[t].method = "shutdown"
    BY <2>4 DEF Finish
  <2> QED
    BY <2>1, <2>2, <2>3, <2>4 DEF Next, Request, Tick
<1> QED
  BY <1>1, <1>2, KeptStep, PTL DEF Spec, InUseIsKept

-----------------------------------------------------------------------------
(* The rate limiter. A bucket holds every call of its user that the window *)
(* still sees and only calls of his that were let through, so that the     *)
(* size of a bucket at a call is the number of his requests in the minute  *)
(* before: collecting a bucket must not lose one of them.                  *)

\* the clock is read under the lock
Ordered ==
    \A m, n \in DOMAIN calls : m <= n => calls[m].at <= calls[n].at

\* the state of the buckets `filled` at time t
BucketsExact(log, filled, t) ==
    \A k \in Keys :
        /\ \A n \in filled[k] : log[n].key = k /\ log[n].ok
        /\ \A n \in DOMAIN log :
              log[n].key = k /\ log[n].ok /\ InWindow(log[n].at, t) => n \in filled[k]
        /\ filled[k] # {} => \E n \in filled[k] : IsBack(n, filled[k])

KeysRecent ==
    /\ clock - last_gc <= Stale
    /\ \A k \in known : \E n \in DOMAIN calls :
          calls[n].key = k /\ calls[n].at >= last_gc - Stale

\* the calls let through that count against call n
Before(log, n) ==
    {m \in DOMAIN log : /\ m < n /\ log[m].key = log[n].key /\ log[m].ok
                        /\ log[m].at \in (log[n].at - Minute)..log[n].at}

Verdicts == \A n \in DOMAIN calls : calls[n].ok <=> Cardinality(Before(calls, n)) < max_rpm

HeldFrom ==
    \A k \in Keys, t \in Nat :
        LET passed == Passed(k, t, t + Minute) IN
        passed # {} => Cardinality(passed) <= max_rpm

LimiterInv ==
    /\ LimiterTypeOK /\ Ordered /\ BucketsExact(calls, requests, clock)
    /\ KeysRecent /\ Verdicts /\ HeldFrom

\* The constructor establishes the invariant.
LEMMA LimiterConstructed ==
  ASSUME max_rpm \in Limits, clock = 0, last_gc = 0, calls = <<>>, known = {},
         requests = [k \in Keys |-> {}]
  PROVE  LimiterInv
<1> USE RateLimiterAssumption
<1>1. calls \in Seq([key : Keys, at : 0..clock, ok : BOOLEAN]) /\ DOMAIN calls = {}
  OBVIOUS
<1>2. LimiterTypeOK
  BY <1>1 DEF LimiterTypeOK
<1>3. Ordered /\ BucketsExact(calls, requests, clock) /\ Verdicts
  BY <1>1 DEF Ordered, BucketsExact, Verdicts
<1>4. KeysRecent
  BY DEF KeysRecent
<1>5. HeldFrom
  BY <1>1 DEF HeldFrom, Passed
<1> QED
  BY <1>2, <1>3, <1>4, <1>5 DEF LimiterInv

\* the calls up to time t
Call(t) == [key : Keys, at : 0..t, ok : BOOLEAN]

\* The fields of a call.
LEMMA CallFields ==
  \A t : \A c \in Call(t) : c.key \in Keys /\ c.at \in 0..t /\ c.ok \in BOOLEAN
BY Zenon DEF Call

\* The history is a sequence of calls up to now.
LEMMA CallsTyped ==
  ASSUME LimiterTypeOK
  PROVE  /\ calls \in Seq(Call(clock)) /\ Len(calls) \in Nat /\ DOMAIN calls = 1..Len(calls)
         /\ \A n \in DOMAIN calls : calls[n] \in Call(clock) /\ calls[n].at \in 0..clock
<1>1. calls \in Seq(Call(clock))
  BY DEF LimiterTypeOK, Call
<1>2. \A n \in DOMAIN calls : calls[n] \in Call(clock)
  BY <1>1
<1> QED
  BY <1>1, <1>2, CallFields

\* Sets of calls are finite.
LEMMA CallsFinite ==
  ASSUME LimiterTypeOK, NEW S, S \subseteq DOMAIN calls
  PROVE  IsFiniteSet(S) /\ Cardinality(S) \in Nat
<1>1. Len(calls) \in Nat /\ DOMAIN calls = 1..Len(calls)
  BY DEF LimiterTypeOK
<1>2. IsFiniteSet(1..Len(calls))
  BY <1>1, FS_Interval
<1> QED
  BY <1>1, <1>2, FS_Subset, FS_CardinalityType

\* allow keeps the invariant: what it prunes from the caller's bucket and collects from
\* the others no window sees any more.
LEMMA AllowStep ==
  ASSUME LimiterInv, NEW key \in Keys, NEW gap \in Gaps, Allow(key, gap)
  PROVE  LimiterInv'
<1> USE RateLimiterAssumption
<1> DEFINE t == clock + gap
           recent == {n \in requests[key] : InWindow(calls[n].at, t)}
           ok == Cardinality(recent) < max_rpm
           num == Len(calls) + 1
           filled == [requests EXCEPT ![key] = IF ok THEN recent \cup {num} ELSE recent]
           keys == known \cup {key}
<1>1. /\ clock' = t /\ max_rpm' = max_rpm
      /\ calls' = Append(calls, [key |-> key, at |-> t, ok |-> ok])
      /\ \/ t - last_gc > Stale /\ Collect(keys, filled, t)
         \/ /\ t - last_gc <= Stale
            /\ known' = keys /\ requests' = filled /\ last_gc' = last_gc
  BY DEF Allow
<1>2. /\ max_rpm \in Int /\ clock \in Nat /\ last_gc \in 0..clock /\ gap \in Nat
      /\ known \subseteq Keys /\ requests \in [Keys -> SUBSET (1..Len(calls))]
      /\ calls \in Seq(Call(clock)) /\ Len(calls) \in Nat /\ max_rpm \in Limits
      /\ DOMAIN calls = 1..Len(calls) /\ \A n \in DOMAIN calls : calls[n].at \in 0..clock
  <2>1. LimiterTypeOK
    BY DEF LimiterInv
  <2>2. gap \in Nat /\ max_rpm \in Int
    BY <2>1 DEF LimiterTypeOK
  <2> QED
    BY <2>1, <2>2, CallsTyped DEF LimiterTypeOK
<1>3. t \in Nat /\ t >= clock /\ num \in Nat /\ ok \in BOOLEAN
  BY <1>2
<1>4. recent \subseteq DOMAIN calls
  BY <1>2
<1> HIDE DEF t, recent, ok, num, filled, keys
<1>5. /\ DOMAIN calls' = DOMAIN calls \cup {num} /\ DOMAIN calls' = 1..num
      /\ Len(calls') = num /\ num \notin DOMAIN calls
      /\ \A n \in DOMAIN calls :
            calls'[n] = calls[n] /\ n < num /\ n \in Nat /\ calls[n].at \in 0..clock
      /\ calls'[num].key = key /\ calls'[num].at = t /\ calls'[num].ok = ok
  <2> DEFINE rec == [key |-> key, at |-> t, ok |-> ok]
  <2>1. rec.key = key /\ rec.at = t /\ rec.ok = ok
    BY Zenon
  <2> HIDE DEF rec
  <2>2. /\ DOMAIN calls' = 1..num /\ Len(calls') = num /\ calls'[num] = rec
        /\ \A n \in 1..Len(calls) : calls'[n] = calls[n]
    <3>1. calls' = Append(calls, rec)
      BY <1>1 DEF rec
    <3> HIDE <1>1
    <3> QED
      BY <1>2, <3>1 DEF num
  <2>3. DOMAIN calls' = DOMAIN calls \cup {num} /\ num \notin DOMAIN calls
    BY <1>2, <2>2 DEF num
  <2>4. \A n \in DOMAIN calls : n < num /\ n \in Nat /\ calls[n].at \in 0..clock
    BY <1>2 DEF num
  <2> QED
    BY <1>2, <2>1, <2>2, <2>3, <2>4
<1>6. calls' \in Seq(Call(t))
  <2>1. \A n \in 1..Len(calls) : calls[n] \in Call(t)
    <3>1. 0..clock \subseteq 0..t
      BY <1>2, <1>3
    <3>2. \A c \in Call(clock) : c \in Call(t)
      BY <3>1, Zenon DEF Call
    <3> QED
      BY <1>2, <3>2
  <2>2. [key |-> key, at |-> t, ok |-> ok] \in Call(t)
    <3>1. t \in 0..t
      BY <1>3
    <3> QED
      BY <1>3, <3>1, Zenon DEF Call
  <2>3. calls \in Seq(Call(t))
    BY <1>2, <2>1
  <2> DEFINE rec == [key |-> key, at |-> t, ok |-> ok]
  <2>4. calls' = Append(calls, rec) /\ rec \in Call(t)
    BY <1>1, <2>2
  <2> HIDE DEF rec
  <2> QED
    BY <2>3, <2>4
<1>7. Ordered'
  BY <1>2, <1>3, <1>5 DEF LimiterInv, Ordered
\* the verdict
<1>8. recent = Before(calls', num)
  <2>1. ASSUME NEW m \in recent PROVE m \in Before(calls', num)
    <3>1. m \in requests[key] /\ calls[m].at >= t - Minute
      BY DEF recent, InWindow
    <3>2. m \in DOMAIN calls' /\ m < num /\ calls'[m] = calls[m] /\ calls[m].at \in 0..clock
      BY <1>4, <1>5
    <3>3. calls[m].key = key /\ calls[m].ok
      BY <3>1 DEF LimiterInv, BucketsExact
    <3>4. calls[m].at \in (t - Minute)..t
      BY <1>2, <1>3, <3>1, <3>2
    <3> QED
      BY <1>5, <3>2, <3>3, <3>4, Zenon DEF Before
  <2>2. ASSUME NEW m \in Before(calls', num) PROVE m \in recent
    <3>1. /\ m \in DOMAIN calls /\ calls[m].key = key /\ calls[m].ok
          /\ calls[m].at \in (t - Minute)..t
      <4>1. /\ m \in DOMAIN calls' /\ m < num /\ calls'[m].key = calls'[num].key /\ calls'[m].ok
            /\ calls'[m].at \in (calls'[num].at - Minute)..calls'[num].at
        BY Zenon DEF Before
      <4>2. m \in DOMAIN calls
        BY <1>3, <1>5, <4>1
      <4> QED
        BY <1>5, <4>1, <4>2
    <3>2. InWindow(calls[m].at, clock) /\ InWindow(calls[m].at, t)
      BY <1>2, <1>3, <1>5, <3>1 DEF InWindow
    <3> QED
      BY <3>1, <3>2 DEF recent, LimiterInv, BucketsExact
  <2> QED
    BY <2>1, <2>2
<1>9. Verdicts'
  <2>1. ASSUME NEW n \in DOMAIN calls PROVE Before(calls', n) = Before(calls, n)
    BY <1>2, <1>3, <1>5 DEF Before
  <2>2. \A n \in DOMAIN calls : calls'[n].ok <=> Cardinality(Before(calls', n)) < max_rpm'
    BY <1>1, <1>5, <2>1 DEF LimiterInv, Verdicts
  <2>3. calls'[num].ok <=> Cardinality(Before(calls', num)) < max_rpm'
    BY <1>1, <1>5, <1>8 DEF ok
  <2>4. \A n \in DOMAIN calls' : calls'[n].ok <=> Cardinality(Before(calls', n)) < max_rpm'
    BY <1>5, <2>2, <2>3, Zenon
  <2> QED
    BY <2>4 DEF Verdicts
<1>10. HeldFrom'
  <2> SUFFICES ASSUME NEW k \in Keys, NEW from \in Nat, Passed(k, from, from + Minute)' # {}
               PROVE  Cardinality(Passed(k, from, from + Minute)') <= max_rpm'
    BY DEF HeldFrom
  <2> DEFINE old == Passed(k, from, from + Minute)
             new == Passed(k, from, from + Minute)'
  <2>0. old \subseteq DOMAIN calls
    BY DEF Passed
  <2>1. CASE key = k /\ ok /\ t \in from..(from + Minute)
    <3>1. new = old \cup {num}
      BY <1>5, <2>1 DEF Passed
    <3>2. old \in SUBSET recent
      <4> SUFFICES ASSUME NEW m \in old PROVE m \in recent
        OBVIOUS
      <4>1. /\ m \in DOMAIN calls /\ calls[m].key = key /\ calls[m].ok
            /\ calls[m].at \in from..(from + Minute) /\ calls[m].at \in 0..clock
        BY <1>5, <2>1 DEF Passed
      <4>2. InWindow(calls[m].at, clock) /\ InWindow(calls[m].at, t)
        BY <1>2, <1>3, <2>1, <4>1 DEF InWindow
      <4> QED
        BY <4>1, <4>2 DEF recent, LimiterInv, BucketsExact
    <3>3. /\ IsFiniteSet(recent) /\ Cardinality(recent) \in Nat
          /\ IsFiniteSet(old) /\ Cardinality(old) \in Nat
      BY <1>4, <2>0, CallsFinite DEF LimiterInv
    <3>4. Cardinality(old) <= Cardinality(recent)
      BY <3>2, <3>3, FS_Subset
    <3>5. num \notin old
      BY <1>5, <2>0
    <3>6. Cardinality(new) = Cardinality(old) + 1
      BY <3>1, <3>3, <3>5, FS_AddElement
    <3>7. Cardinality(recent) < max_rpm
      BY <2>1 DEF ok
    <3> HIDE DEF old, new
    <3>8. Cardinality(new) <= max_rpm
      BY <1>2, <3>3, <3>4, <3>6, <3>7
    <3> QED
      BY <1>1, <3>8 DEF new
  <2>2. CASE ~(key = k /\ ok /\ t \in from..(from + Minute))
    <3>1. new = old
      BY <1>5, <2>2 DEF Passed
    <3>2. old # {} => Cardinality(old) <= max_rpm
      BY DEF LimiterInv, HeldFrom
    <3> QED
      BY <1>1, <3>1, <3>2
  <2> QED
    BY <2>1, <2>2
\* the buckets before the collection
<1>11. filled \in [Keys -> SUBSET (1..num)]
  BY <1>2, <1>3, <1>4, <1>5 DEF filled
<1>12. BucketsExact(calls', filled, t)
  <2> SUFFICES ASSUME NEW k \in Keys
               PROVE  /\ \A n \in filled[k] : calls'[n].key = k /\ calls'[n].ok
                      /\ \A n \in DOMAIN calls' :
                            calls'[n].key = k /\ calls'[n].ok /\ InWindow(calls'[n].at, t)
                               => n \in filled[k]
                      /\ filled[k] # {} => \E n \in filled[k] : IsBack(n, filled[k])
    BY DEF BucketsExact
  <2>1. /\ \A n \in requests[k] : calls[n].key = k /\ calls[n].ok /\ n \in DOMAIN calls
        /\ \A n \in DOMAIN calls :
              calls[n].key = k /\ calls[n].ok /\ InWindow(calls[n].at, clock)
                 => n \in requests[k]
        /\ requests[k] # {} => \E n \in requests[k] : IsBack(n, requests[k])
    BY <1>2 DEF LimiterInv, BucketsExact
  <2>2. \A n \in DOMAIN calls : InWindow(calls[n].at, t) => InWindow(calls[n].at, clock)
    BY <1>2, <1>3, <1>5 DEF InWindow
  <2>3. CASE k # key
    <3>1. filled[k] = requests[k]
      BY <1>2, <2>3 DEF filled
    <3> QED
      BY <1>5, <2>1, <2>2, <2>3, <3>1
  <2>4. CASE k = key
    <3>1. filled[k] = IF ok THEN recent \cup {num} ELSE recent
      BY <1>2, <2>4 DEF filled
    <3>2. \A n \in filled[k] : calls'[n].key = k /\ calls'[n].ok
      BY <1>4, <1>5, <2>1, <2>4, <3>1 DEF recent
    <3>3. ASSUME NEW n \in DOMAIN calls',
                 calls'[n].key = k, calls'[n].ok, InWindow(calls'[n].at, t)
          PROVE  n \in filled[k]
      <4>1. CASE n = num
        BY <1>5, <3>1, <3>3, <4>1
      <4>2. CASE n \in DOMAIN calls
        BY <1>5, <2>1, <2>2, <2>4, <3>1, <3>3, <4>2 DEF recent
      <4> QED
        BY <1>5, <4>1, <4>2
    <3>4. CASE ok
      <4>1. IsBack(num, filled[k])
        BY <1>2, <1>3, <1>4, <1>5, <3>1, <3>4 DEF IsBack
      <4> QED
        BY <3>2, <3>3, <4>1 DEF IsBack
    <3>5. ASSUME ~ok, filled[k] # {} PROVE \E n \in filled[k] : IsBack(n, filled[k])
      <4>1. PICK m \in recent : TRUE
        BY <3>1, <3>5
      <4>2. m \in requests[k] /\ InWindow(calls[m].at, t)
        BY <2>4, <4>1 DEF recent
      <4>3. PICK n \in requests[k] : IsBack(n, requests[k])
        BY <2>1, <4>2
      <4>4. calls[m].at <= calls[n].at /\ calls[m].at \in 0..clock /\ calls[n].at \in 0..clock
        BY <1>5, <2>1, <4>2, <4>3 DEF LimiterInv, Ordered, IsBack
      <4>5. InWindow(calls[n].at, t)
        BY <1>2, <1>3, <4>2, <4>4 DEF InWindow
      <4>6. n \in recent
        BY <2>4, <4>5 DEF recent
      <4>7. IsBack(n, recent)
        BY <2>4, <4>3, <4>6 DEF IsBack, recent
      <4> QED
        BY <3>1, <3>5, <4>6, <4>7
    <3> QED
      BY <3>2, <3>3, <3>4, <3>5
  <2> QED
    BY <2>3, <2>4
<1>13. keys \subseteq Keys
  BY <1>2 DEF keys
\* with the collection and without
<1>14. CASE t - last_gc > Stale /\ Collect(keys, filled, t)
  <2> DEFINE gone == {k \in keys : Idle(filled[k], calls', t)}
  <2>1. /\ known' = keys \ gone /\ last_gc' = t
        /\ requests' = [k \in Keys |-> IF k \in gone THEN {} ELSE filled[k]]
    BY <1>14 DEF Collect
  <2>2. LimiterTypeOK'
    <3>1. requests' \in [Keys -> SUBSET (1..num)]
      BY <1>11, <2>1
    <3> QED
      BY <1>1, <1>2, <1>3, <1>5, <1>6, <1>13, <2>1, <3>1 DEF LimiterTypeOK, Call
  <2>3. ASSUME NEW k \in gone, NEW n \in filled[k] PROVE ~InWindow(calls'[n].at, t)
    <3>1. k \in Keys /\ n \in 1..num
      BY <1>11, <1>13
    <3>2. PICK b \in filled[k] : IsBack(b, filled[k]) /\ calls'[b].at < t - Stale
      BY DEF Idle
    <3>3. b \in 1..num /\ n <= b
      BY <1>11, <3>1, <3>2 DEF IsBack
    <3>4. /\ calls'[n].at <= calls'[b].at /\ calls'[n].at \in Int /\ calls'[b].at \in Int
      <4>1. n \in DOMAIN calls' /\ b \in DOMAIN calls'
        BY <1>5, <3>1, <3>3
      <4>2. \A j \in DOMAIN calls' : calls'[j].at \in 0..t
        <5>1. \A j \in DOMAIN calls' : calls'[j] \in Call(t)
          BY <1>5, <1>6
        <5> QED
          BY <5>1, CallFields
      <4>3. calls'[n].at <= calls'[b].at
        BY <1>7, <3>3, <4>1 DEF Ordered
      <4> QED
        BY <1>3, <4>1, <4>2, <4>3
    <3> QED
      BY <1>3, <3>2, <3>4 DEF InWindow
  <2>4. BucketsExact(calls', requests', t)
    BY <1>12, <2>1, <2>3 DEF BucketsExact
  <2>5. KeysRecent'
    <3>1. clock' - last_gc' <= Stale
      BY <1>1, <1>3, <2>1
    <3>2. ASSUME NEW k \in known'
          PROVE  \E n \in DOMAIN calls' : calls'[n].key = k /\ calls'[n].at >= last_gc' - Stale
      <4>1. k \in Keys /\ ~Idle(filled[k], calls', t)
        BY <1>13, <2>1
      <4>2. filled[k] # {}
        BY <4>1 DEF Idle
      <4>3. PICK n \in filled[k] : IsBack(n, filled[k])
        BY <1>12, <4>1, <4>2 DEF BucketsExact
      <4>4. n \in DOMAIN calls' /\ calls'[n].key = k
        BY <1>5, <1>11, <1>12, <4>1 DEF BucketsExact
      <4>5. ~(calls'[n].at < t - Stale)
        BY <4>1, <4>3 DEF Idle
      <4>6. calls'[n].at >= t - Stale
        BY <1>3, <1>5, <1>6, <4>4, <4>5
      <4> QED
        BY <2>1, <4>4, <4>6
    <3> QED
      BY <3>1, <3>2 DEF KeysRecent
  <2> QED
    BY <1>1, <1>7, <1>9, <1>10, <2>2, <2>4, <2>5 DEF LimiterInv
<1>15. CASE t - last_gc <= Stale /\ known' = keys /\ requests' = filled /\ last_gc' = last_gc
  <2>1. LimiterTypeOK'
    BY <1>1, <1>2, <1>3, <1>5, <1>6, <1>11, <1>13, <1>15 DEF LimiterTypeOK, Call
  <2>2. ASSUME NEW k \in known'
        PROVE  \E n \in DOMAIN calls' : calls'[n].key = k /\ calls'[n].at >= last_gc' - Stale
    <3>1. CASE k = key
      BY <1>2, <1>3, <1>5, <1>15, <3>1
    <3>2. CASE k \in known
      <4>1. PICK n \in DOMAIN calls : calls[n].key = k /\ calls[n].at >= last_gc - Stale
        BY <3>2 DEF LimiterInv, KeysRecent
      <4> QED
        BY <1>5, <1>15, <4>1
    <3> QED
      BY <1>15, <3>1, <3>2 DEF keys
  <2>3. KeysRecent'
    BY <1>1, <1>15, <2>2 DEF KeysRecent
  <2> QED
    BY <1>1, <1>7, <1>9, <1>10, <1>12, <1>15, <2>1, <2>3 DEF LimiterInv
<1> QED
  BY <1>1, <1>14, <1>15

\* The limiter keeps its invariant over calls and restarts.
LEMMA LimiterHolds == LimiterSpec => []LimiterInv
<1>1. Construct => LimiterInv
  BY LimiterConstructed DEF Construct
<1>2. LimiterInv /\ [LimiterNext]_limiterVars => LimiterInv'
  <2> SUFFICES ASSUME LimiterInv, [LimiterNext]_limiterVars PROVE LimiterInv'
    OBVIOUS
  <2>1. ASSUME NEW k \in Keys, NEW gap \in Gaps, Allow(k, gap) PROVE LimiterInv'
    BY <2>1, AllowStep
  <2>2. CASE Reconstruct
    <3>1. Construct'
      BY <2>2 DEF Reconstruct, Construct
    <3>2. Construct' => LimiterInv'
      BY <1>1, PTL
    <3> QED
      BY <3>1, <3>2
  <2>3. CASE UNCHANGED limiterVars
    <3>1. LimiterTypeOK' /\ Ordered' /\ KeysRecent' /\ BucketsExact(calls, requests, clock)'
      BY <2>3 DEF limiterVars, LimiterInv, LimiterTypeOK, Ordered, KeysRecent, BucketsExact
    <3>2. Verdicts' /\ HeldFrom'
      <4>1. (\A n : Before(calls', n) = Before(calls, n)) /\ \A k, from, to : Passed(k, from, to)' = Passed(k, from, to)
        BY <2>3 DEF limiterVars, Before, Passed
      <4> QED
        BY <2>3, <4>1 DEF limiterVars, LimiterInv, Verdicts, HeldFrom
    <3> QED
      BY <3>1, <3>2 DEF LimiterInv
  <2> QED
    BY <2>1, <2>2, <2>3 DEF LimiterNext
<1> QED
  BY <1>1, <1>2, PTL DEF LimiterSpec

\* The state of the limiter is well typed; last_gc_ is never ahead of the clock.
THEOREM LimiterTypes == LimiterSpec => []LimiterTypeOK
<1>1. LimiterInv => LimiterTypeOK
  BY DEF LimiterInv
<1> QED
  BY <1>1, LimiterHolds, PTL

\* No minute of a user sees more requests let through than max_rpm_, wherever the minute
\* begins and whenever allow collects buckets.
THEOREM LimitNeverExceeded == LimiterSpec => []LimitHeld
<1>1. LimiterInv => LimitHeld
  <2>1. LimiterInv => 0..clock \subseteq Nat
    BY DEF LimiterInv, LimiterTypeOK
  <2> QED
    BY <2>1 DEF LimiterInv, HeldFrom, LimitHeld
<1> QED
  BY <1>1, LimiterHolds, PTL

\* A request that allow refuses found max_rpm_ of the same user in the minute before it.
THEOREM RefusalJustified == LimiterSpec => []RefusedAtLimit
<1>1. LimiterInv => RefusedAtLimit
  <2> SUFFICES ASSUME LimiterInv, NEW n \in DOMAIN calls, ~calls[n].ok
               PROVE  Cardinality({m \in Passed(calls[n].key, calls[n].at - Minute, calls[n].at) :
                                     m < n}) >= max_rpm
    BY DEF RefusedAtLimit
  <2>1. Before(calls, n) = {m \in Passed(calls[n].key, calls[n].at - Minute, calls[n].at) : m < n}
    BY DEF Before, Passed
  <2>2. ~(Cardinality(Before(calls, n)) < max_rpm)
    BY DEF LimiterInv, Verdicts
  <2>3. Before(calls, n) \subseteq DOMAIN calls
    BY DEF Before
  <2>4. Cardinality(Before(calls, n)) \in Nat
    BY <2>3, CallsFinite DEF LimiterInv
  <2>5. max_rpm \in Int
    BY RateLimiterAssumption DEF LimiterInv, LimiterTypeOK
  <2>6. Cardinality(Before(calls, n)) >= max_rpm
    BY <2>2, <2>4, <2>5
  <2> QED
    BY <2>1, <2>6
<1> QED
  BY <1>1, LimiterHolds, PTL

\* A key stays in requests_ only while its user has called within twice the time after
\* which buckets are stale.
THEOREM NoBucketLeft == LimiterSpec => []BucketsCollected
<1>1. LimiterInv => BucketsCollected
  <2> SUFFICES ASSUME LimiterInv, NEW k \in known
               PROVE  \E n \in DOMAIN calls : calls[n].key = k /\ calls[n].at >= clock - 2 * Stale
    BY DEF BucketsCollected
  <2>1. PICK n \in DOMAIN calls : calls[n].key = k /\ calls[n].at >= last_gc - Stale
    BY DEF LimiterInv, KeysRecent
  <2>2. clock \in Nat /\ last_gc \in Nat /\ calls[n].at \in Nat /\ clock - last_gc <= Stale
    <3>1. clock \in Nat /\ last_gc \in 0..clock /\ clock - last_gc <= Stale
      BY DEF LimiterInv, LimiterTypeOK, KeysRecent
    <3>2. calls[n].at \in 0..clock
      BY CallsTyped DEF LimiterInv
    <3> QED
      BY <3>1, <3>2
  <2> QED
    BY <2>1, <2>2, RateLimiterAssumption
<1> QED
  BY <1>1, LimiterHolds, PTL
=============================================================================
