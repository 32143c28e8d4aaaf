------------------------------ MODULE Provision ------------------------------
(***************************************************************************)
(* A job that decides whether to deploy, chooses a provider and creates    *)
(* the lease, while others draw on the same account and the same providers.*)
(***************************************************************************)
EXTENDS ProvisionRules

CONSTANTS
    Plans,     \* gates with the deployments behind them
    Deposits   \* at most so many whole deposits fit

ASSUME PlanAssumption ==
    /\ Plans \subseteq [gate: Gate, deploys: SUBSET Placement]
    /\ Deposits \in Nat

VARIABLES
    plan,     \* the workflow, and whether the rules have anything against it
    level,    \* the whole deposits that fit
    room,     \* per provider: a node it fits on, room in all of them, or none
    prov      \* the job

provisionVars == <<plan, level, room, prov>>

NotYetProvisioned ==
    [at |-> "waiting", env |-> "number", first |-> 0, seen |-> 0, blind |-> FALSE,
     verdict |-> "none", drawn |-> FALSE, deploy |-> {}, on |-> {}, fitted |-> FALSE,
     result |-> "none"]

NoPlan == [accepted |-> FALSE]

ProvisionInit ==
    /\ plan = NoPlan
    /\ level = Deposits
    /\ room = [p \in Provider |-> "node"]
    /\ prov = NotYetProvisioned

(* A deposit is a whole step.                                               *)
Verdict(n) == IF n >= 1 THEN "allow" ELSE "refuse"

Begin(p, env) ==
    /\ prov.at = "waiting"
    /\ plan' = [gate |-> p.gate, deploys |-> p.deploys,
                accepted |-> NothingAgainst(p.gate, p.deploys)]
    /\ prov' = [prov EXCEPT !.at = "sample", !.env = env]
    /\ UNCHANGED <<level, room>>

(* Others create and close.                                                 *)
Drift ==
    /\ prov.at \in {"sample", "decide", "create"}
    /\ level' \in {level + 1, level - 1} \cap 0 .. Deposits
    /\ prov' = [prov EXCEPT !.drawn = @ \/ level' < level]
    /\ UNCHANGED <<plan, room>>

Crowd ==
    /\ prov.at = "select"
    /\ \E p \in Provider, r \in {"node", "scattered", "none"} :
        r # room[p] /\ room' = [room EXCEPT ![p] = r]
    /\ UNCHANGED <<plan, level, prov>>

(* What does not gate a create says nothing of what does.                   *)
Reads(g) == IF Own(g) /\ g.quantity = "other" THEN 0 .. Deposits ELSE {level}

(* The instrument fails: that is said, or is a verdict like another.        *)
Unmeasured ==
    prov' = LET g == plan.gate
                blind == [prov EXCEPT !.blind = TRUE]
            IN  CASE g.failed = "told" ->
                        [blind EXCEPT !.at = "over", !.result = "undetermined"]
                  [] g.failed = "allow" ->
                        [blind EXCEPT !.at = "select", !.verdict = "allow"]
                  [] g.failed = "refuse" ->
                        [blind EXCEPT !.at = "over", !.verdict = "refuse"]

(* The first look, or the preflight job's.                                  *)
Sample ==
    /\ prov.at = "sample"
    /\ \/ \E n \in Reads(plan.gate) :
            prov' = [prov EXCEPT !.at = "decide", !.first = n, !.seen = level,
                                 !.drawn = FALSE]
       \/ Unmeasured
    /\ UNCHANGED <<plan, level, room>>

(* [ n -lt abc ] is an error, and an error is not true.                     *)
Compared(g, n) ==
    IF prov.env = "garbage" /\ g.threshold \notin {"literal", "validated"} THEN "allow"
    ELSE IF prov.env = "garbage" /\ g.threshold = "validated" THEN "rejected"
    ELSE Verdict(n)

(* The same step again after the same time.                                 *)
Projected(first, n) == IF n < 1 \/ 2 * n < first + 1 THEN "refuse" ELSE "allow"

(* The second look, but for what has only an output to look at.             *)
Measured ==
    \E n \in Reads(plan.gate) :
        LET g == plan.gate
            verdict == CASE g.how = "primitive" -> Verdict(n)
                         [] g.how = "output" -> Verdict(prov.first)
                         [] g.how = "level" -> Compared(g, n)
                         [] g.how = "projection" -> Projected(prov.first, n)
            decided == [prov EXCEPT !.at = IF verdict = "allow" THEN "select" ELSE "over",
                                    !.verdict = verdict]
        IN  prov' = IF g.how = "output" THEN decided
                    ELSE [decided EXCEPT !.seen = level, !.drawn = FALSE]

Decide ==
    /\ prov.at = "decide"
    /\ Measured \/ (plan.gate.how # "output" /\ Unmeasured)
    /\ UNCHANGED <<plan, level, room>>

(* Aware of requests: it is stamped, and it is what runs.                   *)
Aware(d) == d.source = "stamped" /\ (d.via = "pool" => d.agrees)

Eligible(d) ==
    IF d.via = "script" \/ d.ranked # "no" THEN Provider
    ELSE IF d.via = "direct" /\ OneProvider(d) THEN d.named
    ELSE LET open == IF d.via = "pool" THEN Provider \ d.denied ELSE Provider
         IN  IF d.select = "other" THEN open
             ELSE IF Aware(d) THEN {p \in open : room[p] = "node"}
             ELSE {p \in open : room[p] # "none"}

(* The emptiest, or the cheapest that bids; there may be none.              *)
Select(d) ==
    /\ prov.at = "select"
    /\ \/ \E p \in Eligible(d) :
            prov' = [prov EXCEPT !.at = "create", !.deploy = {d}, !.on = {p},
                                 !.fitted = room[p] = "node"]
       \/ /\ Eligible(d) = {}
          /\ prov' = [prov EXCEPT !.at = "over", !.result = "no_bid"]
    /\ UNCHANGED <<plan, level, room>>

(* A create draws its deposit or is refused (402).                          *)
Create ==
    /\ prov.at = "create"
    /\ IF level >= 1
       THEN prov' = [prov EXCEPT !.at = "created"] /\ level' = level - 1
       ELSE prov' = [prov EXCEPT !.at = "over", !.result = "402"] /\ UNCHANGED level
    /\ UNCHANGED <<plan, room>>

ProvisionNext ==
    \/ /\ prov.at = "waiting"
       /\ \E p \in Plans, env \in {"number", "garbage"} : Begin(p, env)
    \/ Drift \/ Crowd \/ Sample \/ Decide
    \/ prov.at = "select" /\ \E d \in plan.deploys : Select(d)
    \/ Create

-----------------------------------------------------------------------------
(* Arithmetic of one's own that the rules excuse: read and decided upon in  *)
(* two blocks, or beside the primitive's name, or behind a job that asked   *)
(* it; and that then looks at another quantity, projects in other words or  *)
(* projects room, or compares with a threshold that is not validated.       *)
Excused(g) == g.apart \/ g.names \/ (g.kind = "capacity" /\ "gate" \in Reaching(g))

Unrecognised(g) ==
    /\ Own(g) /\ Excused(g)
    /\ \/ g.quantity = "other"
       \/ g.how = "projection" /\ (g.kind = "capacity" \/ g.apart \/ ~g.waits \/ ~g.words)
       \/ g.how = "level" /\ g.threshold \in {"braced", "another_validated"}

(* "Every gate in this registry is checked" for it (l. 16), but who is      *)
(* excused, or asks the primitive or its output, is never looked at (l. 271)*)
(* and may make a verdict of a failed instrument.                           *)
Collapses(g) == (Own(g) => Excused(g)) /\ g.failed # "told"

(* "The two windows can end at the same funded level and get opposite       *)
(* verdicts" (projection rule, l. 20) must not be: where no rule has        *)
(* anything against it a gate that looks decides on what it saw: it allows  *)
(* if and only if a whole deposit fitted when it looked, a create is        *)
(* refused only if others drew since, and what it could not measure is no   *)
(* verdict, unless it is a gate that Collapses.                             *)
VerdictIsOfTheLevel ==
    (plan.accepted /\ ~Unrecognised(plan.gate)) =>
        \/ prov.blind /\ (Collapses(plan.gate) \/ prov.verdict = "none")
        \/ /\ ~prov.blind
           /\ prov.verdict = "allow" => prov.seen >= 1
           /\ prov.verdict = "refuse" => prov.seen = 0
           /\ prov.result = "402" => prov.drawn

(* "Request-aware placement at every Akash selection site" (check_standard, *)
(* l. 448): of a workflow that passes each deployment goes where a node has *)
(* room for it when it is selected, and by the pool to no provider it was   *)
(* denied, unless it names the one provider, is in a script or in words     *)
(* that are taken for data, or its prices are ranked in words of its own.   *)
LandsWhereItFits ==
    (plan.accepted /\ prov.at \in {"create", "created"}) =>
        \A d \in prov.deploy :
            \/ d.via = "script" \/ (d.via = "direct" /\ (~CallSite(d) \/ OneProvider(d)))
            \/ d.ranked = "other"
            \/ prov.fitted /\ (d.via = "pool" => prov.on \cap d.denied = {})
=============================================================================
