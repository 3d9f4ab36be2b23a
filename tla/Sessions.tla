------------------------------ MODULE Sessions ------------------------------
(***************************************************************************)
(* SessionStore (core/session.cpp) under the POST and GET handlers of      *)
(* core/server.cpp. Requests arrive already authenticated (Users.tla) and  *)
(* let through (RateLimiter.tla), on concurrent worker threads; each store *)
(* call is one critical section, but the clock it works with is read       *)
(* before the mutex is taken, and one request makes up to two calls with   *)
(* other threads in between.                                               *)
(***************************************************************************)
EXTENDS Integers

CONSTANTS
    Sids,        \* session ids (UUIDs, each issued once)
    NoSid,       \* no Mcp-Session-Id header
    Bearers,     \* bearer hashes
    Threads,     \* HTTP worker threads
    IdleTtl,     \* idle_ttl_, one hour in the code
    GcEvery,     \* gc_locked's interval, five minutes in the code
    MaxTime,     \* bound on the clock
    MaxDelay     \* longest wait for the mutex after the clock was read

ASSUME SessionsAssumption ==
    /\ NoSid \notin Sids /\ Bearers # {}
    /\ IdleTtl \in Nat /\ GcEvery \in Nat /\ MaxTime \in Nat /\ MaxDelay \in Nat

VARIABLES
    now,        \* steady_clock
    sessions,   \* sessions_: for the live ids, bearer_hash and last_seen
    live,       \* their ids
    lastGc,     \* last_gc_
    thr,        \* requests in progress
    issued,     \* ids issued so far
    owner,      \* history: the bearer an id was issued to
    lastUse,    \* history: clock of the latest accepted request on the id
    closed      \* history: ids whose shutdown or replacement was answered

vars == <<now, sessions, live, lastGc, thr, issued, owner, lastUse, closed>>

Methods == {"initialize", "call", "shutdown"}
IdleThread == [pc |-> "idle", bearer |-> CHOOSE b \in Bearers : TRUE,
               method |-> "call", sid |-> NoSid, clock |-> 0, shut |-> {}]

\* Types of the state; a session's last_seen is never in the future.
TypeOK ==
    /\ now \in 0..MaxTime /\ lastGc \in 0..now
    /\ sessions \in [Sids -> [bearer : Bearers, seen : 0..now]]
    /\ live \subseteq issued /\ issued \subseteq Sids /\ closed \subseteq issued
    /\ thr \in [Threads -> [pc : {"idle", "invalidate", "issue", "validate", "served"},
                            bearer : Bearers, method : Methods,
                            sid : Sids \cup {NoSid}, clock : 0..now, shut : SUBSET Sids]]
    /\ owner \in [Sids -> Bearers] /\ lastUse \in [Sids -> 0..now]

Init ==
    /\ now = 0 /\ lastGc = 0 /\ live = {} /\ issued = {} /\ closed = {}
    /\ sessions \in [Sids -> {[bearer |-> IdleThread.bearer, seen |-> 0]}]
    /\ owner = [s \in Sids |-> IdleThread.bearer]
    /\ lastUse = [s \in Sids |-> 0]
    /\ thr = [t \in Threads |-> IdleThread]

-----------------------------------------------------------------------------
Idled(s, clock) == clock - sessions[s].seen > IdleTtl
End(t) == thr' = [thr EXCEPT ![t] = IdleThread]

\* An authenticated request with or without a session header. `initialize`
\* first drops the session it names; the others (and the GET stream, which is
\* a call here) need one: without the header they end in 400.
Request(t, b, m, hdr) ==
    /\ thr[t].pc = "idle"
    /\ m # "initialize" => hdr # NoSid
    /\ thr' = [thr EXCEPT ![t] =
          [pc |-> IF m # "initialize" THEN "validate"
                  ELSE IF hdr = NoSid THEN "issue" ELSE "invalidate",
           bearer |-> b, method |-> m, sid |-> hdr, clock |-> now, shut |-> closed]]
    /\ UNCHANGED <<now, sessions, live, lastGc, issued, owner, lastUse, closed>>

\* invalidate, then issue reads the clock
InvalidateOld(t) ==
    /\ thr[t].pc = "invalidate"
    /\ live' = live \ {thr[t].sid}
    /\ closed' = closed \cup {thr[t].sid}
    /\ thr' = [thr EXCEPT ![t].pc = "issue", ![t].clock = now]
    /\ UNCHANGED <<now, sessions, lastGc, issued, owner, lastUse>>

\* (mutant) gc_locked drops sessions by the gc interval, not the idle ttl
CollectedByInterval(clock) ==
    IF clock - lastGc < GcEvery THEN {} ELSE {s \in live : clock - sessions[s].seen > GcEvery}

\* the sessions gc_locked drops
Collected(clock) ==
    IF clock - lastGc < GcEvery THEN {} ELSE {s \in live : Idled(s, clock)}

\* (mutant) the session is stored with its expiry instead of its last use
IssueExpiry(t) ==
    /\ thr[t].pc = "issue"
    /\ \E s \in Sids \ issued :
        /\ issued' = issued \cup {s}
        /\ live' = (live \ Collected(thr[t].clock)) \cup {s}
        /\ sessions' = [sessions EXCEPT ![s] =
              [bearer |-> thr[t].bearer, seen |-> thr[t].clock + IdleTtl]]
        /\ owner' = [owner EXCEPT ![s] = thr[t].bearer]
        /\ lastUse' = [lastUse EXCEPT ![s] = thr[t].clock]
        /\ thr' = [thr EXCEPT ![t].pc = "served", ![t].sid = s]
    /\ lastGc' = IF thr[t].clock - lastGc < GcEvery THEN lastGc ELSE thr[t].clock
    /\ UNCHANGED <<now, closed>>

\* issue: garbage collection, then the new session
Issue(t) ==
    /\ thr[t].pc = "issue"
    /\ \E s \in Sids \ issued :
        /\ issued' = issued \cup {s}
        /\ live' = (live \ Collected(thr[t].clock)) \cup {s}
        /\ sessions' = [sessions EXCEPT ![s] = [bearer |-> thr[t].bearer, seen |-> thr[t].clock]]
        /\ owner' = [owner EXCEPT ![s] = thr[t].bearer]
        /\ lastUse' = [lastUse EXCEPT ![s] = thr[t].clock]
        /\ thr' = [thr EXCEPT ![t].pc = "served", ![t].sid = s]
    /\ lastGc' = IF thr[t].clock - lastGc < GcEvery THEN lastGc ELSE thr[t].clock
    /\ UNCHANGED <<now, closed>>

\* validate's verdict
Accepts(s, b, clock) ==
    /\ s \in live
    /\ ~Idled(s, clock)
    /\ sessions[s].bearer = b

\* validate: a session that idled out is erased, an accepted one is touched
Validate(t) ==
    LET s == thr[t].sid
        clock == thr[t].clock IN
    /\ thr[t].pc = "validate"
    /\ \/ /\ Accepts(s, thr[t].bearer, clock)
          /\ sessions' = [sessions EXCEPT ![s].seen = clock]
          /\ lastUse' = [lastUse EXCEPT ![s] = IF clock > @ THEN clock ELSE @]
          /\ live' = live
          /\ thr' = [thr EXCEPT ![t].pc = "served"]
       \/ /\ ~Accepts(s, thr[t].bearer, clock)
          /\ live' = IF Idled(s, clock) THEN live \ {s} ELSE live
          /\ UNCHANGED <<sessions, lastUse>>
          /\ End(t)
    /\ UNCHANGED <<now, lastGc, issued, owner, closed>>

\* (mutant) shutdown forgets to invalidate
FinishOpen(t) ==
    /\ thr[t].pc = "served"
    /\ closed' = IF thr[t].method = "shutdown" THEN closed \cup {thr[t].sid} ELSE closed
    /\ End(t)
    /\ UNCHANGED <<now, sessions, live, lastGc, issued, owner, lastUse>>

\* dispatch and reply; shutdown invalidates its session first
Finish(t) ==
    /\ thr[t].pc = "served"
    /\ \/ /\ thr[t].method = "shutdown"
          /\ live' = live \ {thr[t].sid}
          /\ closed' = closed \cup {thr[t].sid}
       \/ /\ thr[t].method # "shutdown"
          /\ UNCHANGED <<live, closed>>
    /\ End(t)
    /\ UNCHANGED <<now, sessions, lastGc, issued, owner, lastUse>>

\* the daemon is restarted: sessions are kept in memory only
Restart ==
    /\ live' = {} /\ lastGc' = now
    /\ thr' = [t \in Threads |-> IdleThread]
    /\ UNCHANGED <<now, sessions, issued, owner, lastUse, closed>>

Tick ==
    /\ now < MaxTime
    /\ \A t \in Threads : thr[t].pc \in {"issue", "validate"} => now - thr[t].clock < MaxDelay
    /\ now' = now + 1
    /\ UNCHANGED <<sessions, live, lastGc, thr, issued, owner, lastUse, closed>>

Next ==
    \/ \E t \in Threads, b \in Bearers, m \in Methods, hdr \in issued \cup {NoSid} :
          Request(t, b, m, hdr)
    \/ \E t \in Threads : InvalidateOld(t)
    \/ \E t \in Threads : Issue(t)
    \/ \E t \in Threads : Validate(t)
    \/ \E t \in Threads : Finish(t)
    \/ Restart
    \/ Tick

Spec == Init /\ [][Next]_vars

-----------------------------------------------------------------------------
(* Properties *)

\* A session serves no bearer but the one it was issued to, and a request that
\* came in after its shutdown (or its replacement by a new initialize) was
\* answered is not served on it.
ServedSessionIsOwn ==
    \A t \in Threads :
        thr[t].pc = "served" => /\ owner[thr[t].sid] = thr[t].bearer
                                /\ thr[t].sid \notin thr[t].shut

\* A session in use is not lost: it leaves the store only because a request
\* ended it by name, because the daemon restarted, or because no request was
\* accepted on it for the idle ttl, short of the longest wait for the mutex (a
\* request that waited puts back last_seen to the time it came in).
InUseIsKept ==
    [][\A s \in live \ live' :
          \/ now - lastUse[s] > IdleTtl - MaxDelay
          \/ Restart
          \/ \E t \in Threads : /\ thr[t].sid = s
                                /\ \/ thr[t].pc = "invalidate"
                                   \/ thr[t].pc = "served" /\ thr[t].method = "shutdown"]_vars
=============================================================================
