----------------------------- MODULE GrantLease -----------------------------
(***************************************************************************)
(* What a time-limited grant promises, without daemon, helper or files: a  *)
(* lease goes live at most once, before its deadline; it ends at or after  *)
(* the deadline, or when an admin asked for it; and past the deadline it   *)
(* does end. Grants.tla is shown to implement this.                        *)
(***************************************************************************)
EXTENDS Naturals

CONSTANTS Ids, MaxTime, MaxDeadline

VARIABLES clock, lease, deadline, asked

leaseVars == <<clock, lease, deadline, asked>>

Init ==
    /\ clock = 0
    /\ lease = [id \in Ids |-> "none"]
    /\ deadline = [id \in Ids |-> 0]
    /\ asked = {}

\* the grant takes effect, with a deadline still ahead
Issue(id) ==
    /\ lease[id] = "none"
    /\ lease' = [lease EXCEPT ![id] = "live"]
    /\ \E d \in (clock + 1)..MaxDeadline : deadline' = [deadline EXCEPT ![id] = d]
    /\ UNCHANGED <<clock, asked>>

\* grants that were being requested come to nothing
Abandon ==
    /\ \E S \in SUBSET {id \in Ids : lease[id] = "none"} :
        lease' = [id \in Ids |-> IF id \in S THEN "ended" ELSE lease[id]]
    /\ UNCHANGED <<clock, deadline, asked>>

End(id) ==
    /\ lease[id] = "live"
    /\ lease' = [lease EXCEPT ![id] = "ended"]
    /\ deadline' = [deadline EXCEPT ![id] = 0]
    /\ UNCHANGED <<clock, asked>>

Expire(id) == deadline[id] <= clock /\ End(id)

Revoke(id) == id \in asked /\ End(id)

Ask(id) ==
    /\ asked' = asked \cup {id}
    /\ UNCHANGED <<clock, lease, deadline>>

Tick ==
    /\ clock < MaxTime
    /\ clock' = clock + 1
    /\ UNCHANGED <<lease, deadline, asked>>

Next ==
    \/ \E id \in Ids : Issue(id) \/ Expire(id) \/ Revoke(id) \/ Ask(id)
    \/ Abandon
    \/ Tick

Spec == Init /\ [][Next]_leaseVars
FairSpec == Spec /\ \A id \in Ids : WF_leaseVars(Expire(id))
=============================================================================
