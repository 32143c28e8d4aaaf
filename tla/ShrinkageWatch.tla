--------------------------- MODULE ShrinkageWatch ---------------------------
(* What the shrinkage rule is for: successive observations of a population, *)
(* each judged against the one before it.  The observations are kept the    *)
(* way the rule's signature and tests have them, {"count": n}.              *)
EXTENDS PopulationRules

VARIABLES
    truth,     \* registrations there really are
    prior,     \* the previous observation
    then,      \* registrations there really were at that time
    verdict    \* of the last observation, and the true numbers it compares

vars == <<truth, prior, then, verdict>>

NoVerdict == [status |-> "n-a", compared |-> FALSE, was |-> 0, is |-> 0]

(* Observations, stored state and verdicts have their types.                *)
TypeOK ==
    /\ truth \in Nat /\ then \in Nat
    /\ prior \in {Absent, Malformed, Dict(Observed(then))}
    /\ verdict \in [status: Statuses, compared: BOOLEAN, was: Nat, is: Nat]

Init ==
    /\ truth \in Nat /\ then = truth
    /\ prior = Absent
    /\ verdict = NoVerdict

Change ==
    /\ truth' \in Nat \ {truth}
    /\ UNCHANGED <<prior, then, verdict>>

Judgement ==
    [status |-> Shrinks(prior, Observed(truth)), compared |-> prior.kind = "dict",
     was |-> then, is |-> truth]

(* The new observation becomes the baseline, unless storing it fails.       *)
Observe ==
    /\ verdict' = Judgement
    /\ \/ prior' = Dict(Observed(truth)) /\ then' = truth
       \/ UNCHANGED <<prior, then>>
    /\ UNCHANGED truth

Unread ==
    /\ verdict' = NoVerdict
    /\ UNCHANGED <<truth, prior, then>>

(* The stored observation is gone, or what is stored holds no number.       *)
Lose ==
    /\ prior' \in {Absent, Malformed}
    /\ UNCHANGED <<truth, then, verdict>>

Next == Change \/ Observe \/ Unread \/ Lose

Spec == Init /\ [][Next]_vars

-----------------------------------------------------------------------------
(* A verdict is one on the population and not on the number that was read:  *)
(* a failure means it grew, a pass that it did not, and the rule abstains   *)
(* only where the cap hides the difference.                                 *)
VerdictSound == verdict.compared =>
    /\ verdict.status = "fail" => verdict.is > verdict.was
    /\ verdict.status = "pass" => verdict.is <= verdict.was
    /\ verdict.status = "n-a"  => verdict.is >= Cap /\ verdict.was >= Cap
=============================================================================
