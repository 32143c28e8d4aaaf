--------------------------- MODULE PopulationRules ---------------------------
(* The two rules of baseline/check_population.py and what GitHub lets them  *)
(* see of the organisation's registrations.                                 *)
EXTENDS Naturals

CONSTANT Cap        \* total_count saturates here

ASSUME CapAssumption == Cap \in Nat

Statuses == {"pass", "warn", "fail", "n-a"}

(* total_count of an organisation with n registrations.                     *)
Observed(n) == IF n < Cap THEN n ELSE Cap

(* What may be handed to the shrinkage rule as the previous observation: no *)
(* value, the dictionary of its signature with or without a number in it,   *)
(* or a bare number.                                                        *)
Absent    == [kind |-> "none"]
Malformed == [kind |-> "malformed"]
Dict(n)   == [kind |-> "dict", count |-> n]
Bare(n)   == [kind |-> "int", count |-> n]

(* rule_reaper_matches_its_population, on a readable listing: all names, of *)
(* which ours begin with a claimed prefix.                                  *)
Matches(all, ours) ==
    IF all = 0 THEN "n-a" ELSE IF ours > 0 THEN "pass" ELSE "warn"

(* rule_claimed_population_shrinks.  A number has no method "get".          *)
Shrinks(previous, current) ==
    CASE previous.kind \in {"none", "malformed"} -> "n-a"
      [] previous.kind = "int" -> "raises"
      [] previous.kind = "dict" ->
            IF current >= Cap /\ previous.count >= Cap THEN "n-a"
            ELSE IF current > previous.count THEN "fail" ELSE "pass"
=============================================================================
