---------------------------- MODULE MCSessions ------------------------------
(***************************************************************************)
(* Instances of Sessions and RateLimiter for TLC. The two share no state:  *)
(* a behaviour is one of the session store or one of the rate limiter. The *)
(* store does not look at the limit and is run under the smallest.         *)
(***************************************************************************)
EXTENDS Sessions, RateLimiter, TLC

AllInit == Init /\ Construct
AllNext ==
    \/ /\ calls = <<>> /\ \A l \in Limits : max_rpm <= l
       /\ Next /\ UNCHANGED limiterVars
    \/ Init /\ LimiterNext /\ UNCHANGED vars
AllSpec == AllInit /\ [][AllNext]_<<vars, limiterVars>>

\* Session ids, worker threads and the users of the limiter are interchangeable.
Symmetry == Permutations(Sids) \cup Permutations(Threads) \cup Permutations(Keys)
=============================================================================
