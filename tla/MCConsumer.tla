----------------------------- MODULE MCConsumer -----------------------------
(* Checkouts that differ in what one rule looks at.                         *)
EXTENDS Consumer

MCSecret == {"GITHUB_TOKEN", "A", "B"}
MCAllowed == {"GITHUB_TOKEN"}

Sha(n) == [is |-> "sha", rev |-> n]
To(is) == [is |-> is, rev |-> 0]

AllRefs == {Sha(n) : n \in Revision} \cup {To(is) : is \in {"tag", "main", "branch", "short"}}

Own == [from |-> "first_party", ref |-> Sha(1)]
Pins == [pin |-> Sha(2), checker |-> Sha(2)]
NoRegistry == [readable |-> FALSE, secrets |-> {}]

Good == [ci |-> TRUE, parses |-> TRUE, calls |-> {Pins}, steps |-> {Own},
         mentions |-> {}, registry |-> NoRegistry, log |-> <<2, 1>>, manifest |-> 2,
         files |-> {"sops", "sops_yaml", "ignored", "dependabot"},
         advisoryOnly |-> FALSE]

CallTrees ==
    {[Good EXCEPT !.calls = {[pin |-> p, checker |-> c]}] :
        p \in AllRefs, c \in AllRefs \cup {To("absent"), To("empty")}}
    \cup {[Good EXCEPT !.calls = {Pins, [pin |-> Sha(3), checker |-> Sha(2)]}],
          [Good EXCEPT !.parses = FALSE], [Good EXCEPT !.ci = FALSE]}

StepTrees ==
    {[Good EXCEPT !.steps = {Own, [from |-> f, ref |-> r]}] :
        f \in {"docker", "first_party", "third_party"}, r \in AllRefs \cup {To("absent")}}

MentionTrees ==
    {[Good EXCEPT !.mentions = {[form |-> f, name |-> n, at |-> a]},
                  !.registry = [readable |-> ok, secrets |-> {e}]] :
        f \in {"name", "whole", "computed", "inherit", "star"}, n \in {"GITHUB_TOKEN", "A"},
        a \in {"code", "comment", "block_comment", "noted_block_comment"}, ok \in BOOLEAN,
        e \in [names: {{"A"}, {"B"}, {"A", "*"}, {"?"}}, type: {"sops", "external-kms"}]}

LogTrees ==
    {[Good EXCEPT !.calls = {}, !.steps = {}, !.log = l, !.manifest = m, !.advisoryOnly = a] :
        l \in BoundedSeq(1 .. 3, 3), m \in 0 .. 3, a \in BOOLEAN}

FileTrees == {[Good EXCEPT !.files = F] : F \in {{}, {"sops"}, {"ignored", "sops_yaml"}}}

(* Editing matters to what has been published; otherwise one checkout will do. *)
MCRepositories ==
    {{t} : t \in CallTrees \cup StepTrees \cup MentionTrees \cup FileTrees}
    \cup {{t \in LogTrees : t.advisoryOnly => t.manifest = 0}}
=============================================================================
