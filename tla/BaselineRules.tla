--------------------------- MODULE BaselineRules ----------------------------
(***************************************************************************)
(* Two judges of a consumer's checkout: check_conformance.py, the baseline *)
(* every repository of the organisation meets, and                         *)
(* check_conformance_pin_agrees_with_checker_ref, which compares the two   *)
(* revisions by which it takes the conformance workflow.                   *)
(***************************************************************************)
EXTENDS Integers, SequencesExt

CONSTANTS
    Secret,           \* the secrets of the organisation
    AllowedSecrets,   \* ALLOWED_SECRETS
    Revision          \* commits of what is used, in the order they were made

ASSUME BaselineAssumption ==
    /\ AllowedSecrets \subseteq Secret
    /\ Revision \subseteq Nat \ {0}
    /\ \A n \in {"*", "?"} : n \notin Secret

(* A 40-hex commit or a digest names a revision; a tag, main, master or     *)
(* HEAD, or another branch what it points to; a shortened commit nothing,   *)
(* and an empty one the default branch.                                     *)
Fixed == [is: {"sha", "digest"}, rev: Revision]
Moving == [is: {"tag", "main", "branch"}, rev: {0}]
Broken == [is: {"short", "absent", "empty"}, rev: {0}]
Ref == Fixed \cup Moving \cup Broken

(* A use of an action, and a call of the conformance workflow; only an      *)
(* input can be the empty string.                                           *)
Step == [from: {"local", "docker", "first_party", "third_party"},
         ref: {r \in Ref : r.is # "empty"}]
Call == [pin: Ref, checker: Ref]

(* A mention of a secret: by its name, in either notation; all of them;     *)
(* by a computed name; and two forms that pass all of them and are no       *)
(* expression a pattern matches.  A # in a block scalar is no comment, and  *)
(* is taken for one if the line that opens the block ends in a comment.     *)
Mention == [form: {"name", "whole", "computed", "inherit", "star"},
            name: Secret \cup {"*", "?"}, at: {"code", "comment", "block_comment", "noted_block_comment"}]

Registry == [readable: BOOLEAN,
             secrets: SUBSET [names: SUBSET (Secret \cup {"*", "?"}),
                              type: {"sops", "external-vault", "external-kms"}]]

(* The rest of a checkout: the versions of CHANGELOG.md from the top; what  *)
(* the manifest declares (0: nothing); which other files there are.         *)
Tree == [ci: BOOLEAN, parses: BOOLEAN, calls: SUBSET Call, steps: SUBSET Step,
         mentions: SUBSET Mention, registry: Registry,
         log: Seq(Nat), manifest: Nat,
         files: SUBSET {"sops", "sops_yaml", "ignored", "dependabot"},
         advisoryOnly: BOOLEAN]

-----------------------------------------------------------------------------
(* check_conformance_pin_agrees_with_checker_ref                            *)

(* Bug: the two are the same word.                                          *)
WordsDiffer(c) == c.checker.is = "absent" \/ c.pin # c.checker

(* Bug: both are immutable.                                                 *)
EitherMoves(c) == c.checker.is # "sha" \/ c.pin.is # "sha"

PinProblem(c) ==
    \/ c.checker.is = "absent"
    \/ c.pin.is # "sha" \/ c.checker.is # "sha"
    \/ c.pin # c.checker

(* No files, or one that is not YAML: the scan is broken.                   *)
PinsExit(t) ==
    IF ~t.ci \/ ~t.parses THEN 2
    ELSE IF \E c \in t.calls : PinProblem(c) THEN 1 ELSE 0

-----------------------------------------------------------------------------
(* The rules of the baseline: the severities of what each finds.            *)

(* No pattern matches these, or they are blanked as a comment.             *)
Overlooked(m) == m.form \in {"inherit", "star"} \/ m.at = "noted_block_comment"

(* The names a scan sees in the expressions; "*" is all, "?" a computed one.*)
SecretRefs(t) ==
    {IF m.form = "whole" THEN "*" ELSE IF m.form = "computed" THEN "?" ELSE m.name :
        m \in {n \in t.mentions : n.at # "comment" /\ ~Overlooked(n)}}

(* Bug: an entry may excuse a pseudo-name.                                  *)
ExternalAnything(t) ==
    IF ~t.registry.readable THEN {}
    ELSE UNION {e.names : e \in {r \in t.registry.secrets : r.type # "sops"}}

(* What cannot be read grants nothing; nothing excuses a pseudo-name.       *)
External(t) ==
    IF ~t.registry.readable THEN {}
    ELSE (UNION {e.names : e \in {r \in t.registry.secrets : r.type # "sops"}}) \ {"*", "?"}

SecretsOnlySops(t) ==
    IF ~t.ci THEN {}
    ELSE {IF n \in External(t) THEN "advisory" ELSE "required" :
            n \in SecretRefs(t) \ AllowedSecrets}

(* A branch is main, master or HEAD; any other word is taken for a tag, and *)
(* the organisation's own tags are exempt.  A docker tag is only advised on.*)
UseFinding(s) ==
    IF s.from = "local" THEN {}
    ELSE IF s.from = "docker" THEN (IF s.ref.is = "digest" THEN {} ELSE {"advisory"})
    ELSE IF s.ref.is \in {"absent", "main", "short"} THEN {"required"}
    ELSE IF s.ref.is = "sha" \/ s.from = "first_party" THEN {} ELSE {"advisory"}

ActionPinning(t) == IF ~t.ci THEN {} ELSE UNION {UseFinding(s) : s \in t.steps}

(* Bug: only the two newest sections are compared.                          *)
TopDescends(log) == Len(log) < 2 \/ log[1] > log[2]

Descends(log) == \A i \in 1 .. Len(log) - 1 : log[i] > log[i + 1]

(* Without a section of the form there is nothing to judge.                 *)
Changelog(t) ==
    IF t.log = <<>> \/ (Descends(t.log) /\ t.manifest \in {0, Head(t.log)})
    THEN {} ELSE {"required"}

SopsHygiene(t) ==
    IF t.files \cap {"sops", "sops_yaml"} = {} THEN {}
    ELSE (IF "sops_yaml" \in t.files THEN {} ELSE {"required"})
         \cup (IF "ignored" \in t.files THEN {} ELSE {"advisory"})

DependabotActions(t) == IF t.ci /\ "dependabot" \notin t.files THEN {"advisory"} ELSE {}

Conformant(t) ==
    "required" \notin SecretsOnlySops(t) \cup ActionPinning(t) \cup Changelog(t)
                      \cup SopsHygiene(t) \cup DependabotActions(t)

BaselineExit(t) == IF t.advisoryOnly \/ Conformant(t) THEN 0 ELSE 1
=============================================================================
