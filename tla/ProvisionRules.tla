--------------------------- MODULE ProvisionRules ---------------------------
(***************************************************************************)
(* Five rules about what comes before a lease: who decides whether there   *)
(* is money or room for it (check_funding_gate_is_not_re_derived and       *)
(* check_gate_is_not_re_derived), on what (_funding_projection_is_quantised*)
(* and _unvalidated_default), and where it may be placed (check_standard,  *)
(* the placement findings).                                                *)
(***************************************************************************)
EXTENDS Naturals, FiniteSets

CONSTANTS
    Provider,    \* the providers that bid
    Fleet        \* DF_PREFERRED

ASSUME ProviderAssumption == Fleet \subseteq Provider /\ Fleet # {}

GateJobs == {"preflight", "helper", "gate"}

(* A deployment: by the canonical pool; by just-akash deploy with literal   *)
(* providers (named) or without; or in a script that no rule reads.  as: a  *)
(* command with nothing, assignments or a known wrapper before it; behind   *)
(* if, !, timeout and the like; or on a line that shlex cannot split.       *)
(* source, agrees: of the code that selects.  ranked: prices are sorted by  *)
(* hand, in one of the spellings that are looked for or in another.         *)
Placement == [via: {"pool", "direct", "script"},
              as: {"command", "behind", "unparsed"}, named: SUBSET Provider,
              preferred: SUBSET Provider, denied: SUBSET Provider,
              select: {"emptiest", "other"},
              source: {"stamped", "unstamped", "floating"}, agrees: BOOLEAN,
              ranked: {"no", "known", "other"}]

(* The gate: how it decides (the primitive, or the output of a job that     *)
(* asked it, or its own arithmetic), on which quantity; apart: reads and    *)
(* decides in two run blocks or in words no pattern has; names: its block   *)
(* mentions the primitive; waits, words: whether the second sample and the  *)
(* projection are spelled as the rule expects; threshold: how its variable  *)
(* is defaulted, validated and used; failed: what it makes of an instrument *)
(* that failed.                                                             *)
Gate == [kind: {"funding", "capacity"}, parses: BOOLEAN,
         how: {"primitive", "output", "level", "projection"},
         quantity: {"right", "other"}, apart: BOOLEAN, names: BOOLEAN,
         needs: SUBSET (GateJobs \X GateJobs), waits: BOOLEAN, words: BOOLEAN,
         threshold: {"literal", "validated", "bare", "braced", "another_validated"},
         failed: {"told", "allow", "refuse"}]

Own(g) == g.how \in {"level", "projection"}

-----------------------------------------------------------------------------
(* gate_registry                                                            *)

(* A job in which a block names the primitive, or that needs one, or needs  *)
(* one that needs one.                                                      *)
Reaching(g) ==
    LET direct == {"preflight"} \cup {j \in {"gate"} : g.names}
        Closed(S) == \A e \in g.needs : e[2] \in S => e[1] \in S
    IN  {j \in GateJobs : \A S \in SUBSET GateJobs : direct \subseteq S /\ Closed(S) => j \in S}

(* It both reads and decides, with its own hands.  What it makes of a read  *)
(* that failed is asked only of what is found already, to name it.          *)
Gating(g) == Own(g) /\ ~g.apart

(* The action asks for --gate capacity.                                     *)
GateExit(g) ==
    IF ~g.parses THEN 2
    ELSE IF g.kind = "capacity" /\ Gating(g) /\ ~g.names /\ "gate" \notin Reaching(g)
         THEN 1 ELSE 0

(* check_funding_gate_is_not_re_derived asks for the name in the block.     *)
FundingExit(g) ==
    IF ~g.parses THEN 2
    ELSE IF g.kind = "funding" /\ Gating(g) /\ ~g.names THEN 1 ELSE 0

(* Bug: who names the primitive is not asked for its projections.           *)
ProjectionUnlessNamed(g) ==
    g.kind = "funding" /\ ~g.apart /\ g.how = "projection" /\ g.waits /\ g.words /\ ~g.names

(* A second sample and a forecast in one block, whoever is named there.     *)
ProjectionFinding(g) ==
    g.kind = "funding" /\ ~g.apart /\ g.how = "projection" /\ g.waits /\ g.words

(* A file that does not parse ends in a traceback.                          *)
ProjectionExit(g) == IF ~g.parses \/ ProjectionFinding(g) THEN 1 ELSE 0

(* The use of a variable in braces is not found, and a validation of any    *)
(* variable will do.  The rule warns and exits 0.                           *)
FindsUse(g) == g.how = "level" /\ g.threshold \in {"bare", "validated", "another_validated"}

ValidationPresent(g) == g.threshold \in {"validated", "another_validated"}

DefaultWarns(g) == g.parses /\ FindsUse(g) /\ ~ValidationPresent(g)

-----------------------------------------------------------------------------
(* check_standard: _placement_selection_findings, and the providers a pool  *)
(* is given.                                                                *)

FleetPreferred(d) ==
    d.preferred = Fleet /\ d.denied # {} /\ d.preferred \cap d.denied = {}

PoolPlaced(d) ==
    d.select = "emptiest" /\ d.agrees /\ d.source = "stamped" /\ FleetPreferred(d)

OneProvider(d) == Cardinality(d.named) = 1

DirectPlaced(d) == OneProvider(d) \/ (d.select = "emptiest" /\ d.source = "stamped")

(* A deployment that is not a command is data, and is not judged.           *)
CallSite(d) == d.via = "direct" /\ d.as = "command"

Placed(d) ==
    /\ d.ranked # "known"
    /\ d.via = "pool" => PoolPlaced(d)
    /\ CallSite(d) => DirectPlaced(d)

(* Bug: one conforming deployment vouches for those beside it.              *)
AnyPlaced(deploys) == \E d \in deploys : Placed(d)

AllPlaced(deploys) == \A d \in deploys : Placed(d)

NothingAgainst(g, deploys) ==
    /\ GateExit(g) = 0 /\ FundingExit(g) = 0 /\ ProjectionExit(g) = 0
    /\ ~DefaultWarns(g)
    /\ AllPlaced(deploys)
=============================================================================
