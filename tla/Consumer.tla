------------------------------ MODULE Consumer ------------------------------
(***************************************************************************)
(* A repository that uses the organisation's actions and workflows: its    *)
(* checkout is edited, its jobs run, it publishes releases; what it uses   *)
(* moves meanwhile.                                                        *)
(***************************************************************************)
EXTENDS BaselineRules

CONSTANTS
    Repositories, \* of each, the checkouts it may have
    RuleSince,    \* the revision that brought the rule about the two pins
    MaxReleases   \* releases published at most

ASSUME ConsumerAssumption ==
    /\ \A checkouts \in Repositories : checkouts \subseteq Tree
    /\ 1 \in Revision
    /\ RuleSince \in Revision /\ MaxReleases \in Nat

VARIABLES
    tree,       \* the checkout
    up,         \* what tags and branches point to
    ran,        \* the last run of this checkout
    released    \* what was published, in order

vars == <<tree, up, ran, released>>

NotRun == [said |-> "not_run"]

Ran == [said: {"nothing", "pass", "findings"}, call: Call,
        contract: Revision, checker: Revision,
        steps: SUBSET (Step \X (Revision \cup {0})),
        secrets: SUBSET (Secret \cup {"*", "?"})]

(* The checkout, what it uses, its runs and releases have their types.      *)
TypeOK ==
    /\ tree \in Tree
    /\ up \in [{"tag", "branch"} -> Revision]
    /\ ran \in {NotRun} \cup Ran
    /\ released \in Seq([version: Nat, rollout: BOOLEAN, kept: SUBSET Nat])

Init ==
    /\ tree \in UNION Repositories
    /\ up = [tag |-> 1, branch |-> 1]
    /\ ran = NotRun
    /\ released = <<>>

(* An empty ref checks out the default branch; 0: there is no such thing.   *)
Resolves(ref) ==
    CASE ref.is \in {"sha", "digest"} -> ref.rev
      [] ref.is \in {"short", "absent"} -> 0
      [] ref.is = "tag" -> up.tag
      [] OTHER -> up.branch

(* What a run hands out: a computed name may be any.                        *)
Handed(t) ==
    {UNION {IF m.form = "name" THEN {m.name}
            ELSE IF m.form = "computed" THEN {pick} ELSE Secret :
              m \in {n \in t.mentions : n.at # "comment"}} : pick \in Secret}

(* The checker that runs is the one the call names, with the rules of then. *)
Says(t, checker) ==
    IF checker < RuleSince THEN "nothing"
    ELSE IF PinsExit(t) = 0 THEN "pass" ELSE "findings"

(* A required input must be there, and every ref must resolve.              *)
Starts(c) ==
    /\ tree.ci /\ tree.parses
    /\ Resolves(c.pin) # 0 /\ Resolves(c.checker) # 0

Run(c, secrets) ==
    /\ Starts(c)
    /\ ran' = [said |-> Says(tree, Resolves(c.checker)), call |-> c,
               contract |-> Resolves(c.pin), checker |-> Resolves(c.checker),
               steps |-> {<<s, Resolves(s.ref)>> : s \in tree.steps},
               secrets |-> secrets]
    /\ UNCHANGED <<tree, up, released>>

(* The branches grow and a tag is moved.                                    *)
Move(name) ==
    /\ up[name] + 1 \in Revision
    /\ up' = [up EXCEPT ![name] = @ + 1]
    /\ UNCHANGED <<tree, ran, released>>

Published == {release.version : release \in ToSet(released)}

(* An edit, a merge or a revert: whatever sections the changelog has then.  *)
Edit(t) ==
    /\ t # tree
    /\ tree' = t /\ ran' = NotRun
    /\ UNCHANGED <<up, released>>

(* A release carries the manifest's version, or else the newest section's;  *)
(* a version is a tag, and is made once.  kept: the sections of what had    *)
(* been published that are still there.                                     *)
Publish ==
    /\ Len(released) < MaxReleases
    /\ BaselineExit(tree) = 0
    /\ tree.manifest # 0 \/ tree.log # <<>>
    /\ LET v == IF tree.manifest # 0 THEN tree.manifest ELSE Head(tree.log)
       IN  /\ v \notin Published
           /\ released' = Append(released, [version |-> v, rollout |-> tree.advisoryOnly,
                                            kept |-> Published \cap ToSet(tree.log)])
    /\ UNCHANGED <<tree, up, ran>>

Next ==
    \/ \E c \in tree.calls : \E secrets \in Handed(tree) : Run(c, secrets)
    \/ \E name \in DOMAIN up : Move(name)
    \/ \E checkouts \in Repositories : tree \in checkouts /\ \E t \in checkouts : Edit(t)
    \/ Publish

Spec == Init /\ [][Next]_vars

-----------------------------------------------------------------------------
(* "The contract from commit A is enforced by the checker from commit B"    *)
(* (l. 15): where the rule says pass, both come from one commit.            *)
ContractIsChecked == ran.said = "pass" => ran.contract = ran.checker

(* A pass is worth the same in every later run of the same checkout,        *)
(* whatever has been pushed or moved upstream since: the contract and the   *)
(* checker come from the same commit again; and "branch refs are never      *)
(* acceptable" (the baseline, l. 375): what a conformant checkout uses      *)
(* resolves, and is the same, except where a tag, or a branch that is not   *)
(* called main, master or HEAD, or a docker reference is used.              *)
PassIsRepeatable ==
    /\ [][(ran.said = "pass" /\ tree' = tree /\ ran' # ran /\ ran'.call = ran.call)
          => /\ ran'.said = "pass"
             /\ ran'.contract = ran.contract /\ ran'.checker = ran.checker]_vars
    /\ [][(ran # NotRun /\ tree' = tree /\ ran' # ran /\ Conformant(tree))
          => \A s \in tree.steps :
              \/ s.from \in {"local", "docker"} \/ s.ref.is \in {"tag", "branch"}
              \/ \E r \in Revision : <<s, r>> \in ran.steps \cap ran'.steps]_vars

(* "Everything else belongs in secrets/*.sops.env" (l. 46): a run of a      *)
(* conformant checkout hands out no secret that is neither allowlisted nor  *)
(* documented, except through secrets: inherit, secrets.* or a # line that   *)
(* is taken for a comment and is none.                                      *)
SecretsAreDocumented ==
    (ran # NotRun /\ Conformant(tree)) =>
        \/ ran.secrets \subseteq AllowedSecrets \cup External(tree)
        \/ \E m \in tree.mentions : Overlooked(m)

(* Of what a repository publishes while it is conformant, a later release   *)
(* has a higher version than every earlier one its changelog still has a    *)
(* section for, however those were merged in between.  That they are still  *)
(* there nothing asks (l. 467-518), nor that there be any section at all; a *)
(* rollout with --advisory-only is another matter.                          *)
ReleasesAscend ==
    \A i, j \in DOMAIN released :
        i < j /\ ~released[j].rollout /\ released[i].version \in released[j].kept
            => released[i].version < released[j].version
=============================================================================
