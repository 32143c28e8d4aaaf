----------------------- MODULE MCStaleRunnerReaper -----------------------
(* Instances of StaleRunnerReaper for TLC: registration 1 is named under   *)
(* "a" alone, 2 under "a" and under its extension "ab", 3 under "b".       *)
EXTENDS StaleRunnerReaper

OneReg == 1..1
ThreeRegs == 1..3

Prefixes == {"a", "ab", "b"}
Names == <<{"a"}, {"a", "ab"}, {"b"}>>
NamesOf1 == [n \in OneReg |-> Names[n]]
NamesOf3 == [n \in ThreeRegs |-> Names[n]]

Asks(prefixes, dryRun) ==
    [pat |-> TRUE, sops |-> "off", prefixes |-> prefixes, dryRun |-> dryRun]

(* One caller that reaps, one that only reports, one whose list holds a     *)
(* blank entry beside a prefix, one with nothing but commas, one blank.     *)
ReapersAndReporters ==
    {Asks({"a", "b"}, FALSE), Asks({"a"}, TRUE), Asks({"ab", Blank}, FALSE),
     Asks({Blank}, FALSE), Asks({}, FALSE)}

(* Every way of getting a token, for a caller that reaps.                   *)
EveryCredential ==
    {[Asks({"a"}, FALSE) EXCEPT !.pat = pat, !.sops = sops] :
        pat \in BOOLEAN, sops \in {"off", "pinned", "floating"}}

EveryCaller == ReapersAndReporters \cup EveryCredential

JustReaps == {Asks({"a"}, FALSE)}
ReapsEverything == {Asks({"a", "b"}, FALSE)}

-----------------------------------------------------------------------------
(* What the workflow's own words say of a sweep, and the code does not do.  *)

(* Lines 193-195: a failing gh makes the rate-limit read 0, so that the     *)
(* floor check stops the sweep; here, whatever gh leaves on stdout.         *)
StopsAtFloorAlways == \A s \in Sweep : attempts[s] > 0 => ~atFloor[s]
=============================================================================
