--------------------------- MODULE MCEscrowReaper ---------------------------
(* Repositories for EscrowReaper: one that varies, and beside it one that    *)
(* ships the mechanism or one with a shorter stamp.                         *)
EXTENDS EscrowReaper, TLC

Leases == Permutations(Lease)

Stamps == {"ci-", "ci-e2e-", "just-akash-"}
Prefixes == {<<p, p>> : p \in Stamps} \cup {<<"ci-", "ci-e2e-">>}

(* A caller that is in order.                                               *)
Caller(stamp, tracked) ==
    [files |-> "some", spells |-> {"pool"}, stamps |-> {stamp},
     ships |-> FALSE, invokes |-> FALSE, tracked |-> tracked,
     uses |-> "canonical", ref |-> "sha40", just_akash_ref |-> "sha40",
     declared |-> stamp, value |-> stamp,
     mentions |-> {p \in Prefix : Carries(stamp, p)} \cup {"expression", "next_line"}]

Mechanism == [Caller("just-akash-", FALSE) EXCEPT
                 !.spells = {"literal"}, !.uses = "other",
                 !.ships = TRUE, !.invokes = TRUE]

Beside(first, other) == {[r \in Repo |-> IF r = "consumer" THEN d ELSE other] : d \in first}

Declaring(tracked, declared) ==
    {[Caller("ci-e2e-", tracked) EXCEPT !.declared = d] : d \in declared}

Good == Caller("ci-e2e-", FALSE)
Literals == Prefix \cup {"none", "next_line"}

Stampers ==
    Declaring(FALSE, Literals) \cup Declaring(TRUE, {Default}) \cup
        {[Good EXCEPT !.declared = "expression", !.value = Default],
         [Good EXCEPT !.declared = Default, !.mentions = Prefix]} \cup
        {[Good EXCEPT !.spells = {"comment", "reassigned", "foreign_pool"}],
         [Good EXCEPT !.spells = {"variable"}, !.uses = "comment"]}
Moving == {"hex", "name"}
Pins ==
    {[Good EXCEPT !.ref = x] : x \in Moving} \cup
        {[Good EXCEPT !.just_akash_ref = x] : x \in Moving}

StampersAndPins ==
    Beside(Stampers \cup Pins, Mechanism) \cup Beside({Good}, Caller("ci-", FALSE))
=============================================================================
