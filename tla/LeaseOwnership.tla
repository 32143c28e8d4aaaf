--------------------------- MODULE LeaseOwnership ---------------------------
(* What the handoff promises: whoever provisions a lease owns it until the  *)
(* handoff and may roll it back until then; afterwards the caller owns it,  *)
(* and closes it when nobody uses it and nobody will.                       *)
EXTENDS Integers

CONSTANT User

VARIABLES
    lease,  \* none, open, closed
    owner,  \* nobody, pool, caller
    using   \* the users at work on the lease

vars == <<lease, owner, using>>

Init == lease = "none" /\ owner = "nobody" /\ using = {}

Create ==
    /\ lease = "none"
    /\ lease' = "open" /\ owner' = "pool"
    /\ UNCHANGED using

RollBack ==
    /\ lease = "open" /\ owner = "pool"
    /\ lease' = "closed"
    /\ UNCHANGED <<owner, using>>

HandOver ==
    /\ lease = "open" /\ owner = "pool"
    /\ owner' = "caller"
    /\ UNCHANGED <<lease, using>>

Begin(u) ==
    /\ lease = "open" /\ owner = "caller"
    /\ using' = using \cup {u}
    /\ UNCHANGED <<lease, owner>>

End(u) ==
    /\ using' = using \ {u}
    /\ UNCHANGED <<lease, owner>>

Close ==
    /\ lease = "open" /\ owner = "caller" /\ using = {}
    /\ lease' = "closed"
    /\ UNCHANGED <<owner, using>>

Next ==
    \/ Create \/ RollBack \/ HandOver \/ Close
    \/ \E u \in User : Begin(u) \/ End(u)

Spec == Init /\ [][Next]_vars
=============================================================================
