----------------------------- MODULE RateLimiter -----------------------------
(***************************************************************************)
(* RateLimiter (core/rate_limiter.cpp), which every POST passes once it is *)
(* authenticated. allow is one critical section, and reads the clock in    *)
(* it. The times in a bucket are those of the calls that were let through, *)
(* so a bucket is the set of their numbers; its last time is that of the   *)
(* largest number.                                                         *)
(***************************************************************************)
EXTENDS Integers, Sequences, FiniteSets

CONSTANTS
    Keys,      \* user ids
    Minute,    \* the window
    Stale,     \* buckets are collected after this time, and at this interval
    Limits,    \* values of rate_limit in mcp.json
    Gaps,      \* times between two calls
    MaxCalls   \* bound on the number of calls

ASSUME RateLimiterAssumption ==
    /\ Minute \in Nat /\ Stale \in Nat /\ Stale >= Minute
    /\ Limits \subseteq Int /\ Gaps \subseteq Nat /\ MaxCalls \in Nat

VARIABLES
    max_rpm,    \* max_rpm_
    clock,      \* steady_clock, from the construction on
    known,      \* the keys of requests_
    requests,   \* their buckets
    last_gc,    \* last_gc_
    calls       \* history: the calls and their verdicts

limiterVars == <<max_rpm, clock, known, requests, last_gc, calls>>

\* Types of the state; a bucket holds numbers of calls.
LimiterTypeOK ==
    /\ max_rpm \in Limits /\ clock \in Nat /\ last_gc \in 0..clock
    /\ known \subseteq Keys /\ requests \in [Keys -> SUBSET (1..Len(calls))]
    /\ calls \in Seq([key : Keys, at : 0..clock, ok : BOOLEAN])

Construct ==
    /\ max_rpm \in Limits
    /\ clock = 0 /\ last_gc = 0 /\ calls = <<>>
    /\ known = {} /\ requests = [k \in Keys |-> {}]

-----------------------------------------------------------------------------
\* (mutant) a time stays until its bucket would be stale
InWindowLong(at, t) == at >= t - Stale
\* the times that remove_if keeps
InWindow(at, t) == at >= t - Minute

\* n is the last call in a bucket
IsBack(n, bucket) == n \in bucket /\ \A m \in bucket : m <= n

\* (mutant) the age of a bucket is that of its first request
IdleSinceFirst(bucket, log, t) ==
    bucket = {} \/ \E n \in bucket : (\A m \in bucket : n <= m) /\ log[n].at < t - Stale
\* a bucket that is collected
Idle(bucket, log, t) ==
    bucket = {} \/ \E n \in bucket : IsBack(n, bucket) /\ log[n].at < t - Stale

\* (mutant) only empty buckets are dropped
CollectEmpty(keys, filled, t) ==
    LET gone == {k \in keys : filled[k] = {}} IN
    /\ known' = keys \ gone
    /\ requests' = filled
    /\ last_gc' = t

\* (mutant) last_gc_ is the time of the next collection
CollectNext(keys, filled, t) ==
    LET gone == {k \in keys : Idle(filled[k], calls', t)} IN
    /\ known' = keys \ gone
    /\ requests' = [k \in Keys |-> IF k \in gone THEN {} ELSE filled[k]]
    /\ last_gc' = t + Stale

\* the loop that drops buckets
Collect(keys, filled, t) ==
    LET gone == {k \in keys : Idle(filled[k], calls', t)} IN
    /\ known' = keys \ gone
    /\ requests' = [k \in Keys |-> IF k \in gone THEN {} ELSE filled[k]]
    /\ last_gc' = t

\* allow(key), `gap` after the call before
Allow(key, gap) ==
    LET t == clock + gap
        recent == {n \in requests[key] : InWindow(calls[n].at, t)}
        ok == Cardinality(recent) < max_rpm
        filled == [requests EXCEPT
                      ![key] = IF ok THEN recent \cup {Len(calls) + 1} ELSE recent]
        keys == known \cup {key} IN
    /\ Len(calls) < MaxCalls
    /\ clock' = t
    /\ calls' = Append(calls, [key |-> key, at |-> t, ok |-> ok])
    /\ \/ t - last_gc > Stale /\ Collect(keys, filled, t)
       \/ /\ t - last_gc <= Stale
          /\ known' = keys /\ requests' = filled /\ UNCHANGED last_gc
    /\ UNCHANGED max_rpm

\* the daemon starts again, with a new limiter
Reconstruct ==
    /\ max_rpm' \in Limits
    /\ clock' = 0 /\ last_gc' = 0 /\ calls' = <<>>
    /\ known' = {} /\ requests' = [k \in Keys |-> {}]

LimiterNext ==
    \/ \E k \in Keys, gap \in Gaps : Allow(k, gap)
    \/ Reconstruct

LimiterSpec == Construct /\ [][LimiterNext]_limiterVars

-----------------------------------------------------------------------------
(* Properties *)

\* calls of key k let through from one time to another
Passed(k, from, to) ==
    {n \in DOMAIN calls : calls[n].key = k /\ calls[n].ok /\ calls[n].at \in from..to}

\* No minute, wherever it begins, sees more than max_rpm_ requests of one user let
\* through, whatever the calls of others make of his bucket.
LimitHeld ==
    \A k \in Keys, t \in 0..clock :
        LET passed == Passed(k, t, t + Minute) IN
        passed # {} => Cardinality(passed) <= max_rpm

\* Nobody is refused below the limit: max_rpm_ requests of the same user were let
\* through in the minute before.
RefusedAtLimit ==
    \A n \in DOMAIN calls : ~calls[n].ok =>
        LET c == calls[n] IN
        Cardinality({m \in Passed(c.key, c.at - Minute, c.at) : m < n}) >= max_rpm

\* requests_ does not grow with the users seen: a key is there only if its user
\* called within twice the time after which buckets are stale.
BucketsCollected ==
    \A k \in known : \E n \in DOMAIN calls :
        calls[n].key = k /\ calls[n].at >= clock - 2 * Stale
=============================================================================
