--------------------------- MODULE Consumer_proofs ---------------------------
(* The way from a rule to the repository that relies on it: what the        *)
(* repository may conclude from a pass (Consumer), what the action makes of *)
(* the rules' verdicts (Conformance), and what a rule judges (RuleTargets). *)
EXTENDS Consumer, Conformance, FiniteSetTheorems, WellFoundedInduction, TLAPS

(* A run is one of a call and of the files of this checkout.                *)
RanHere ==
    ran # NotRun =>
        /\ ran.call \in tree.calls /\ tree.ci
        /\ \A s \in tree.steps :
              s.ref.is \in {"sha", "digest"} => <<s, s.ref.rev>> \in ran.steps
        /\ ran.secrets \in Handed(tree)

(* A pass is one of two commits that are one.                               *)
PassedHere ==
    ran.said = "pass" =>
        /\ PinsExit(tree) = 0
        /\ ran.contract = ran.call.pin.rev /\ ran.checker = ran.call.pin.rev
        /\ ran.checker >= RuleSince

IInv == TypeOK /\ RanHere /\ PassedHere /\ ReleasesAscend

-----------------------------------------------------------------------------
(* A set of numbers has a least one: finite sets are well founded.          *)
LEMMA Least ==
    ASSUME NEW S \in SUBSET Nat, S # {}
    PROVE  \E m \in S : \A k \in S : m <= k
<1> DEFINE T == {0 .. m : m \in S}
<1>1. T \subseteq FiniteSubsetsOf(Nat)
  <2>1. ASSUME NEW m \in S
        PROVE  0 .. m \in FiniteSubsetsOf(Nat)
    <3>1. IsFiniteSet(0 .. m)
      BY FS_Interval
    <3>2. QED
      BY <3>1 DEF FiniteSubsetsOf
  <2>2. QED
    BY <2>1
<1>2. PICK x \in T : \A y \in T : <<y, x>> \notin StrictSubsetOrdering(Nat)
  <2>1. T # {}
    OBVIOUS
  <2> HIDE DEF T
  <2>2. QED
    BY <1>1, <2>1, WFMin, FS_StrictSubsetOrderingWellFounded
<1>3. PICK m \in S : x = 0 .. m
  OBVIOUS
<1>4. ASSUME NEW k \in S, k < m
      PROVE  FALSE
  <2>1. 0 .. k \in T /\ 0 .. k \in SUBSET Nat /\ x \in SUBSET Nat
    BY <1>3
  <2>2. 0 .. k \subseteq x /\ 0 .. k # x
    BY <1>3, <1>4
  <2>3. <<0 .. k, x>> \in StrictSubsetOrdering(Nat)
    BY <2>1, <2>2 DEF StrictSubsetOrdering
  <2>4. QED
    BY <1>2, <2>1, <2>3
<1>5. QED
  BY <1>4

(* A log whose neighbours descend has its highest version on top: a least   *)
(* section that is not below the top would follow one that is.              *)
LEMMA Descending ==
    ASSUME NEW log \in Seq(Nat), Descends(log), NEW k \in 2 .. Len(log)
    PROVE  log[1] > log[k]
<1> DEFINE Bad == {i \in 2 .. Len(log) : ~(log[1] > log[i])}
<1>1. SUFFICES ASSUME Bad # {} PROVE FALSE
  OBVIOUS
<1>2. Bad \in SUBSET Nat
  OBVIOUS
<1>3. PICK m \in Bad : \A i \in Bad : m <= i
  <2> HIDE DEF Bad
  <2>1. QED
    BY <1>1, <1>2, Least
<1>4. m \in 2 .. Len(log) /\ ~(log[1] > log[m]) /\ m - 1 \notin Bad
  BY <1>3
<1>5. log[m - 1] > log[m]
  BY <1>4 DEF Descends
<1>6. log[1] \in Nat /\ log[m] \in Nat /\ log[m - 1] \in Nat
  BY <1>4
<1>7. CASE m = 2
  BY <1>4, <1>5, <1>7
<1>8. CASE m > 2
  <2>1. log[1] > log[m - 1]
    BY <1>4, <1>8
  <2>2. QED
    BY <1>4, <1>5, <1>6, <2>1
<1>9. QED
  BY <1>4, <1>7, <1>8

(* What a ref resolves to is a revision or nothing; a fixed one to its own. *)
LEMMA ResolvesType ==
    ASSUME TypeOK, NEW ref \in Ref
    PROVE  /\ Resolves(ref) \in Revision \cup {0}
           /\ ref.is \in {"sha", "digest"} =>
                Resolves(ref) = ref.rev /\ ref.rev \in Revision
<1>1. ref.is \in {"sha", "digest", "short", "absent", "tag", "main", "branch", "empty"}
  BY DEF Ref, Fixed, Moving, Broken
<1>2. ref.is \in {"sha", "digest"} => ref.rev \in Revision
  BY DEF Ref, Fixed, Moving, Broken
<1>3. up.tag \in Revision /\ up.branch \in Revision
  BY DEF TypeOK
<1>4. QED
  BY <1>1, <1>2, <1>3 DEF Resolves

(* A call that the rule has nothing against names one commit twice.         *)
LEMMA NoProblem ==
    ASSUME TypeOK, NEW c \in Call, ~PinProblem(c)
    PROVE  /\ Resolves(c.pin) = c.pin.rev /\ Resolves(c.checker) = c.pin.rev
           /\ c.pin.rev \in Revision
<1>1. c.pin \in Ref /\ c.checker = c.pin /\ c.pin.is = "sha"
  BY DEF PinProblem, Call
<1>2. QED
  BY <1>1, ResolvesType

LEMMA HandedType ==
    ASSUME NEW t \in Tree, NEW S \in Handed(t)
    PROVE  S \subseteq Secret \cup {"*", "?"}
<1>1. PICK pick \in Secret :
        S = UNION {IF m.form = "name" THEN {m.name}
                   ELSE IF m.form = "computed" THEN {pick} ELSE Secret :
                     m \in {n \in t.mentions : n.at # "comment"}}
  BY DEF Handed
<1>2. \A m \in t.mentions : m.name \in Secret \cup {"*", "?"}
  BY DEF Tree, Mention
<1>3. QED
  BY <1>1, <1>2

(* What a conformant changelog with sections says the release is called.    *)
LEMMA NewestSection ==
    ASSUME NEW t \in Tree, Conformant(t), t.log # <<>>
    PROVE  Descends(t.log) /\ t.manifest \in {0, Head(t.log)}
BY DEF Conformant, Changelog

(* A conformant checkout mentions only what is allowed or documented, but   *)
(* for the forms that no pattern sees.                                      *)
LEMMA MentionsAreNamed ==
    ASSUME NEW t \in Tree, t.ci, Conformant(t), NEW m \in t.mentions,
           m.at # "comment", ~Overlooked(m)
    PROVE  m.form = "name" /\ m.name \in AllowedSecrets \cup External(t)
<1>1. \A n \in SecretRefs(t) : n \in AllowedSecrets \cup External(t)
  <2>1. "required" \notin SecretsOnlySops(t)
    BY DEF Conformant
  <2>2. QED
    BY <2>1 DEF SecretsOnlySops
<1>2. "*" \notin SecretRefs(t) /\ "?" \notin SecretRefs(t)
  <2>1. \A n \in {"*", "?"} : n \notin AllowedSecrets
    BY BaselineAssumption
  <2>2. \A n \in {"*", "?"} : n \notin External(t)
    BY DEF External
  <2>3. QED
    BY <1>1, <2>1, <2>2
<1>3. (IF m.form = "whole" THEN "*" ELSE IF m.form = "computed" THEN "?" ELSE m.name)
        \in SecretRefs(t)
  BY DEF SecretRefs
<1>4. m.form \in {"name", "whole", "computed", "inherit", "star"}
  BY DEF Tree, Mention
<1>5. m.form = "name"
  BY <1>2, <1>3, <1>4 DEF Overlooked
<1>6. QED
  BY <1>1, <1>3, <1>5

(* What a conformant checkout uses is fixed, but for the kinds of ref that  *)
(* the rule takes for a tag or only advises on.                             *)
LEMMA UsesAreFixed ==
    ASSUME NEW t \in Tree, t.ci, Conformant(t), NEW s \in t.steps,
           s.from \notin {"local", "docker"}, s.ref.is \notin {"tag", "branch"}
    PROVE  s.ref \in Ref /\ s.ref.is \in {"sha", "digest"}
<1>1. "required" \notin UseFinding(s)
  BY DEF Conformant, ActionPinning
<1>2. s.ref \in Ref /\ s.ref.is # "empty"
  BY DEF Tree, Step
<1>3. s.ref.is \in {"sha", "digest", "short", "absent", "tag", "main", "branch", "empty"}
  BY <1>2 DEF Ref, Fixed, Moving, Broken
<1>4. QED
  BY <1>1, <1>2, <1>3 DEF UseFinding

-----------------------------------------------------------------------------
(* The consumer: the invariant holds before anything has run.               *)
LEMMA ConsumerStarts == Init => IInv
<1> SUFFICES ASSUME Init PROVE IInv
  OBVIOUS
<1>1. tree \in Tree
  BY ConsumerAssumption DEF Init
<1>2. up \in [{"tag", "branch"} -> Revision]
  BY ConsumerAssumption DEF Init
<1>3. ran = NotRun /\ ran.said = "not_run" /\ released = <<>>
  BY DEF Init, NotRun
<1>4. TypeOK
  BY <1>1, <1>2, <1>3 DEF TypeOK
<1>5. ReleasesAscend
  BY <1>3 DEF ReleasesAscend
<1>6. QED
  BY <1>3, <1>4, <1>5 DEF IInv, RanHere, PassedHere

(* A run: its record is of this checkout, and a pass in it of one commit.   *)
LEMMA RunKeeps ==
    ASSUME IInv, NEW c \in tree.calls, NEW secrets \in Handed(tree), Run(c, secrets)
    PROVE  IInv'
<1> DEFINE now == [said |-> Says(tree, Resolves(c.checker)), call |-> c,
                   contract |-> Resolves(c.pin), checker |-> Resolves(c.checker),
                   steps |-> {<<s, Resolves(s.ref)>> : s \in tree.steps},
                   secrets |-> secrets]
<1>1. TypeOK /\ ReleasesAscend
  BY DEF IInv
<1>2. /\ ran' = now /\ tree' = tree /\ up' = up /\ released' = released
      /\ tree.ci /\ Resolves(c.pin) # 0 /\ Resolves(c.checker) # 0
  BY DEF Run, Starts
<1>3. /\ now.said = Says(tree, Resolves(c.checker)) /\ now.call = c
      /\ now.contract = Resolves(c.pin) /\ now.checker = Resolves(c.checker)
      /\ now.steps = {<<s, Resolves(s.ref)>> : s \in tree.steps}
      /\ now.secrets = secrets
  OBVIOUS
<1>4. tree \in Tree
  BY <1>1 DEF TypeOK
<1>5. c \in Call /\ c.pin \in Ref /\ c.checker \in Ref
  BY <1>4 DEF Tree, Call
<1>6. \A s \in tree.steps : s \in Step /\ s.ref \in Ref
  BY <1>4 DEF Tree, Step
<1>7. now \in Ran
  <2>1. Says(tree, Resolves(c.checker)) \in {"nothing", "pass", "findings"}
    BY DEF Says
  <2>2. Resolves(c.pin) \in Revision /\ Resolves(c.checker) \in Revision
    BY <1>1, <1>2, <1>5, ResolvesType
  <2>3. {<<s, Resolves(s.ref)>> : s \in tree.steps}
            \in SUBSET (Step \X (Revision \cup {0}))
    BY <1>1, <1>6, ResolvesType
  <2>4. secrets \in SUBSET (Secret \cup {"*", "?"})
    BY <1>4, HandedType
  <2>5. QED
    BY <1>5, <2>1, <2>2, <2>3, <2>4 DEF Ran
<1> HIDE DEF now
<1>8. TypeOK'
  BY <1>1, <1>2, <1>7 DEF TypeOK
<1>9. RanHere'
  <2>1. ASSUME NEW s \in tree.steps, s.ref.is \in {"sha", "digest"}
        PROVE  <<s, s.ref.rev>> \in now.steps
    <3>1. Resolves(s.ref) = s.ref.rev
      BY <1>1, <1>6, <2>1, ResolvesType
    <3>2. QED
      BY <1>3, <3>1
  <2>2. Handed(tree)' = Handed(tree)
    BY <1>2 DEF Handed
  <2>3. QED
    BY <1>2, <1>3, <2>1, <2>2 DEF RanHere
<1>10. PassedHere'
  <2>1. SUFFICES ASSUME now.said = "pass"
                 PROVE  /\ PinsExit(tree) = 0
                        /\ now.contract = c.pin.rev /\ now.checker = c.pin.rev
                        /\ now.checker >= RuleSince
    <3>1. PinsExit(tree)' = PinsExit(tree)
      BY <1>2 DEF PinsExit
    <3>2. QED
      BY <1>2, <1>3, <3>1 DEF PassedHere
  <2>2. PinsExit(tree) = 0 /\ ~(Resolves(c.checker) < RuleSince)
    BY <1>3, <2>1 DEF Says
  <2>3. ~PinProblem(c)
    BY <2>2 DEF PinsExit
  <2>4. /\ Resolves(c.pin) = c.pin.rev /\ Resolves(c.checker) = c.pin.rev
        /\ c.pin.rev \in Revision
    BY <1>1, <1>5, <2>3, NoProblem
  <2>5. c.pin.rev \in Nat /\ RuleSince \in Nat
    BY <2>4, BaselineAssumption, ConsumerAssumption
  <2>6. QED
    BY <1>3, <2>2, <2>4, <2>5
<1>11. ReleasesAscend'
  BY <1>1, <1>2 DEF ReleasesAscend
<1>12. QED
  BY <1>8, <1>9, <1>10, <1>11 DEF IInv

(* What moves upstream leaves the checkout, its run and its releases alone. *)
LEMMA MoveKeeps ==
    ASSUME IInv, NEW name \in {"tag", "branch"}, Move(name)
    PROVE  IInv'
<1>1. /\ tree' = tree /\ ran' = ran /\ released' = released
      /\ up' \in [{"tag", "branch"} -> Revision]
  BY DEF IInv, TypeOK, Move
<1>2. TypeOK'
  BY <1>1 DEF IInv, TypeOK
<1>3. RanHere' /\ PassedHere'
  BY <1>1 DEF IInv, RanHere, PassedHere, Handed, PinsExit
<1>4. ReleasesAscend'
  BY <1>1 DEF IInv, ReleasesAscend
<1>5. QED
  BY <1>2, <1>3, <1>4 DEF IInv

LEMMA EditKeeps ==
    ASSUME IInv, NEW t \in Tree, Edit(t)
    PROVE  IInv'
<1>1. /\ tree' = t /\ ran' = NotRun /\ up' = up /\ released' = released
  BY DEF Edit
<1>2. TypeOK'
  BY <1>1 DEF IInv, TypeOK
<1>3. RanHere' /\ PassedHere'
  BY <1>1 DEF RanHere, PassedHere, NotRun
<1>4. ReleasesAscend'
  BY <1>1 DEF IInv, ReleasesAscend
<1>5. QED
  BY <1>2, <1>3, <1>4 DEF IInv

(* A release: that of a conformant checkout is the newest section, above    *)
(* every version that has one below.                                        *)
LEMMA PublishKeeps ==
    ASSUME IInv, Publish
    PROVE  IInv'
<1> DEFINE v == IF tree.manifest # 0 THEN tree.manifest ELSE Head(tree.log)
           kept == Published \cap ToSet(tree.log)
           new == [version |-> v, rollout |-> tree.advisoryOnly, kept |-> kept]
           Release == [version: Nat, rollout: BOOLEAN, kept: SUBSET Nat]
           n == Len(released)
<1>1. TypeOK /\ ReleasesAscend /\ RanHere /\ PassedHere
  BY DEF IInv
<1>2. /\ tree' = tree /\ ran' = ran /\ up' = up /\ released' = Append(released, new)
      /\ tree.manifest # 0 \/ tree.log # <<>>
      /\ BaselineExit(tree) = 0 /\ v \notin Published
  BY DEF Publish
<1>3. /\ tree.log \in Seq(Nat) /\ tree.manifest \in Nat /\ tree.advisoryOnly \in BOOLEAN
      /\ tree \in Tree
  BY <1>1 DEF TypeOK, Tree
<1>4. tree.log # <<>> =>
        /\ Len(tree.log) \in Nat \ {0} /\ Head(tree.log) = tree.log[1]
        /\ tree.log[1] \in Nat
  BY <1>3
<1>5. /\ new \in Release
      /\ new.version = v /\ new.rollout = tree.advisoryOnly /\ new.kept = kept /\ v \in Nat
  <2>1. kept \subseteq Nat
    BY <1>3 DEF ToSet
  <2>2. v \in Nat
    BY <1>2, <1>3, <1>4
  <2>3. QED
    BY <1>3, <2>1, <2>2
<1>6. released \in Seq(Release) /\ n \in Nat
  BY <1>1 DEF TypeOK
<1>7. ASSUME ~tree.advisoryOnly, tree.log # <<>>
      PROVE  v = tree.log[1] /\ Descends(tree.log)
  <2>1. Conformant(tree)
    BY <1>2, <1>7 DEF BaselineExit
  <2>2. Descends(tree.log) /\ tree.manifest \in {0, Head(tree.log)}
    BY <1>3, <1>7, <2>1, NewestSection
  <2>3. QED
    BY <1>4, <1>7, <2>2
<1> HIDE DEF v, new, kept
<1>8. /\ Len(released') = n + 1 /\ released'[n + 1] = new
      /\ \A i \in 1 .. n : released'[i] = released[i]
  BY <1>2, <1>5, <1>6
<1>9. TypeOK'
  BY <1>1, <1>2, <1>5, <1>6 DEF TypeOK
<1>10. RanHere' /\ PassedHere'
  BY <1>1, <1>2 DEF RanHere, PassedHere, Handed, PinsExit
<1>11. ReleasesAscend'
  <2>1. ASSUME NEW i \in 1 .. n + 1, NEW j \in 1 .. n + 1, i < j, ~released'[j].rollout,
               released'[i].version \in released'[j].kept
        PROVE  released'[i].version < released'[j].version
    <3>1. CASE j # n + 1
      <4>1. i \in 1 .. n /\ j \in 1 .. n
        BY <1>6, <2>1, <3>1
      <4>2. i \in DOMAIN released /\ j \in DOMAIN released
        BY <1>6, <4>1
      <4>3. QED
        BY <1>1, <1>8, <2>1, <4>1, <4>2 DEF ReleasesAscend
    <3>2. CASE j = n + 1
      <4>1. i \in 1 .. n /\ released'[i] = released[i] /\ released'[j] = new
        BY <1>6, <1>8, <2>1, <3>2
      <4>2. ~tree.advisoryOnly /\ released[i].version \in kept
        BY <1>5, <2>1, <4>1
      <4>3. released[i].version \in Published
        BY <4>2 DEF kept
      <4>4. PICK k \in DOMAIN tree.log : tree.log[k] = released[i].version
        BY <4>2 DEF kept, ToSet
      <4>5. tree.log # <<>>
        BY <1>3, <4>4
      <4>6. k # 1
        BY <1>2, <1>7, <4>2, <4>3, <4>4, <4>5
      <4>7. k \in 2 .. Len(tree.log)
        BY <1>3, <4>4, <4>6
      <4>8. tree.log[1] > tree.log[k]
        BY <1>3, <1>7, <4>2, <4>5, <4>7, Descending
      <4>9. QED
        BY <1>3, <1>4, <1>5, <1>7, <4>1, <4>2, <4>4, <4>5, <4>8
    <3>3. QED
      BY <3>1, <3>2
  <2>2. DOMAIN released' = 1 .. n + 1
    BY <1>2, <1>5, <1>6, <1>8
  <2>3. QED
    BY <2>1, <2>2 DEF ReleasesAscend
<1>12. QED
  BY <1>9, <1>10, <1>11 DEF IInv

(* The invariant survives every step of the repository and of its sources.  *)
LEMMA ConsumerSteps == IInv /\ [Next]_vars => IInv'
<1> SUFFICES ASSUME IInv, [Next]_vars PROVE IInv'
  OBVIOUS
<1>1. CASE \E c \in tree.calls : \E secrets \in Handed(tree) : Run(c, secrets)
  BY <1>1, RunKeeps
<1>2. CASE \E name \in DOMAIN up : Move(name)
  <2>1. DOMAIN up = {"tag", "branch"}
    BY DEF IInv, TypeOK
  <2>2. QED
    BY <1>2, <2>1, MoveKeeps
<1>3. CASE \E checkouts \in Repositories :
              tree \in checkouts /\ \E t \in checkouts : Edit(t)
  BY <1>3, ConsumerAssumption, EditKeeps
<1>4. CASE Publish
  BY <1>4, PublishKeeps
<1>5. CASE UNCHANGED vars
  <2>1. tree' = tree /\ up' = up /\ ran' = ran /\ released' = released
    BY <1>5 DEF vars
  <2>2. TypeOK' /\ RanHere' /\ PassedHere'
    BY <2>1 DEF IInv, TypeOK, RanHere, PassedHere, Handed, PinsExit
  <2>3. ReleasesAscend'
    BY <2>1 DEF IInv, ReleasesAscend
  <2>4. QED
    BY <2>2, <2>3 DEF IInv
<1>6. QED
  BY <1>1, <1>2, <1>3, <1>4, <1>5 DEF Next

LEMMA ConsumerAlways == Spec => []IInv
BY ConsumerStarts, ConsumerSteps, PTL DEF Spec

(* The checkout, what it uses, its runs and its releases keep their types:  *)
(* a run always has a contract and a checker, and releases carry numbers.   *)
THEOREM TypeCorrect == Spec => []TypeOK
<1>1. IInv => TypeOK
  BY DEF IInv
<1>2. QED
  BY ConsumerAlways, <1>1, PTL

(* For every set of commits and of checkouts, wherever tags and branches    *)
(* have been moved to: a pass of the rule about the two pins means that the *)
(* contract and its checker were taken from one commit.                     *)
THEOREM PassMeansOneCommit == Spec => []ContractIsChecked
<1>1. IInv => ContractIsChecked
  BY DEF IInv, PassedHere, ContractIsChecked
<1>2. QED
  BY ConsumerAlways, <1>1, PTL

(* For every set of secrets and every allowlist: what a run of a conformant *)
(* checkout is handed is allowlisted or documented, unless it asks for all  *)
(* in a form that no scan sees.                                             *)
THEOREM ConformantHandsOut == Spec => []SecretsAreDocumented
<1>1. IInv => SecretsAreDocumented
  <2> SUFFICES ASSUME IInv, ran # NotRun, Conformant(tree),
                      ~\E m \in tree.mentions : Overlooked(m)
               PROVE  ran.secrets \subseteq AllowedSecrets \cup External(tree)
    BY DEF SecretsAreDocumented
  <2>1. tree \in Tree /\ tree.ci /\ ran.secrets \in Handed(tree)
    BY DEF IInv, TypeOK, RanHere
  <2>2. PICK pick \in Secret :
          ran.secrets = UNION {IF m.form = "name" THEN {m.name}
                               ELSE IF m.form = "computed" THEN {pick} ELSE Secret :
                                 m \in {n \in tree.mentions : n.at # "comment"}}
    BY <2>1 DEF Handed
  <2>3. \A m \in {n \in tree.mentions : n.at # "comment"} :
          m.form = "name" /\ m.name \in AllowedSecrets \cup External(tree)
    BY <2>1, MentionsAreNamed
  <2>4. QED
    BY <2>2, <2>3
<1>2. QED
  BY ConsumerAlways, <1>1, PTL

(* For every repository: what is released without --advisory-only is above  *)
(* every earlier release that its changelog still lists.                    *)
THEOREM ReleasesDoAscend == Spec => []ReleasesAscend
<1>1. IInv => ReleasesAscend
  BY DEF IInv
<1>2. QED
  BY ConsumerAlways, <1>1, PTL

(* Only a run changes what is known of a checkout that stays the same.      *)
LEMMA RunAgain ==
    ASSUME IInv, [Next]_vars, tree' = tree, ran' # ran
    PROVE  \E c \in tree.calls : \E secrets \in Handed(tree) : Run(c, secrets)
<1>1. ~UNCHANGED vars
  BY DEF vars
<1>2. ~Publish /\ ~\E name \in DOMAIN up : Move(name)
  BY DEF Publish, Move
<1>3. \A t : ~Edit(t)
  BY DEF Edit
<1>4. QED
  BY <1>1, <1>2, <1>3 DEF Next

(* A pass holds in every later run of the same call: the two pins name one  *)
(* commit, whose rules have not changed.                                    *)
LEMMA PassAgain ==
    ASSUME IInv, NEW c \in tree.calls, NEW secrets \in Handed(tree), Run(c, secrets),
           ran.said = "pass", ran.call = c
    PROVE  /\ ran'.said = "pass"
           /\ ran'.contract = ran.contract /\ ran'.checker = ran.checker
<1>1. TypeOK /\ c \in Call
  BY DEF IInv, TypeOK, Tree
<1>2. /\ PinsExit(tree) = 0 /\ ran.contract = c.pin.rev /\ ran.checker = c.pin.rev
      /\ ran.checker >= RuleSince
  BY DEF IInv, PassedHere
<1>3. /\ Resolves(c.pin) = c.pin.rev /\ Resolves(c.checker) = c.pin.rev
      /\ c.pin.rev \in Revision
  BY <1>1, <1>2, NoProblem DEF PinsExit
<1>4. /\ ran'.said = Says(tree, Resolves(c.checker))
      /\ ran'.contract = Resolves(c.pin) /\ ran'.checker = Resolves(c.checker)
  BY DEF Run
<1>5. c.pin.rev \in Nat /\ RuleSince \in Nat
  BY <1>3, BaselineAssumption, ConsumerAssumption
<1>6. Says(tree, Resolves(c.checker)) = "pass"
  BY <1>2, <1>3, <1>5 DEF Says
<1>7. QED
  BY <1>2, <1>3, <1>4, <1>6

(* What a conformant checkout pins is the same in every run of it.          *)
LEMMA StepsAgain ==
    ASSUME IInv, NEW c \in tree.calls, NEW secrets \in Handed(tree), Run(c, secrets),
           ran # NotRun, Conformant(tree), NEW s \in tree.steps,
           s.from \notin {"local", "docker"}, s.ref.is \notin {"tag", "branch"}
    PROVE  \E r \in Revision : <<s, r>> \in ran.steps \cap ran'.steps
<1>1. TypeOK /\ tree \in Tree /\ tree.ci
  BY DEF IInv, TypeOK, RanHere
<1>2. s.ref \in Ref /\ s.ref.is \in {"sha", "digest"}
  BY <1>1, UsesAreFixed
<1>3. Resolves(s.ref) = s.ref.rev /\ s.ref.rev \in Revision
  BY <1>1, <1>2, ResolvesType
<1>4. <<s, s.ref.rev>> \in ran.steps
  BY <1>2 DEF IInv, RanHere
<1>5. <<s, s.ref.rev>> \in ran'.steps
  BY <1>3 DEF Run
<1>6. QED
  BY <1>3, <1>4, <1>5

(* For every set of commits: a pass, and what a conformant checkout pins,   *)
(* are the same in every later run of that checkout.                        *)
THEOREM PassesRepeat == Spec => PassIsRepeatable
<1>1. IInv /\ [Next]_vars =>
        [(ran.said = "pass" /\ tree' = tree /\ ran' # ran /\ ran'.call = ran.call)
          => /\ ran'.said = "pass"
             /\ ran'.contract = ran.contract /\ ran'.checker = ran.checker]_vars
  <2> SUFFICES ASSUME IInv, [Next]_vars, ran.said = "pass", tree' = tree,
                      ran' # ran, ran'.call = ran.call
               PROVE  /\ ran'.said = "pass"
                      /\ ran'.contract = ran.contract /\ ran'.checker = ran.checker
    OBVIOUS
  <2>1. PICK c \in tree.calls, secrets \in Handed(tree) : Run(c, secrets)
    BY RunAgain
  <2>2. ran'.call = c
    BY <2>1 DEF Run
  <2>3. QED
    BY <2>1, <2>2, PassAgain
<1>2. IInv /\ [Next]_vars =>
        [(ran # NotRun /\ tree' = tree /\ ran' # ran /\ Conformant(tree))
          => \A s \in tree.steps :
              \/ s.from \in {"local", "docker"} \/ s.ref.is \in {"tag", "branch"}
              \/ \E r \in Revision : <<s, r>> \in ran.steps \cap ran'.steps]_vars
  <2> SUFFICES ASSUME IInv, [Next]_vars, ran # NotRun, tree' = tree, ran' # ran,
                      Conformant(tree), NEW s \in tree.steps,
                      s.from \notin {"local", "docker"}, s.ref.is \notin {"tag", "branch"}
               PROVE  \E r \in Revision : <<s, r>> \in ran.steps \cap ran'.steps
    OBVIOUS
  <2>1. PICK c \in tree.calls, secrets \in Handed(tree) : Run(c, secrets)
    BY RunAgain
  <2>2. QED
    BY <2>1, StepsAgain
<1>3. QED
  BY ConsumerAlways, <1>1, <1>2, PTL DEF Spec, PassIsRepeatable

-----------------------------------------------------------------------------
(* The action, for every set of rules.                                      *)

(* What the accumulated status means while the job is under way.            *)
StatusKept ==
    job.rc = 0 => \A r \in Enforcing : job.status[r] \in {"pass", "not_run"}

(* A job that got past the guard has something to judge, and ends once.     *)
Targeted ==
    /\ job.phase \in {"workflow", "dir", "exit"} \/ job.result = "green" =>
            job.workflow \/ job.workflows_dir
    /\ job.phase # "over" => job.result = "none"
    /\ job.result = "green" => job.rc = 0

(* Before the end of its scope a rule is not announced as skipped ...       *)
NotYet ==
    /\ job.phase \in {"setup", "targets", "workflow"} =>
            \A r \in Rule :
                /\ job.said[r] # "skipped"
                /\ job.status[r] # "not_run" => r \in WfRules /\ job.workflow
    /\ job.phase = "dir" =>
            \A r \in DirRules :
                /\ job.said[r] # "skipped"
                /\ job.status[r] # "not_run" => job.workflows_dir

(* ... and after it either it has run or it is.                             *)
RanOrNamed(asked, rules) ==
    \A r \in rules :
        /\ job.status[r] = "not_run" <=> job.said[r] = "skipped"
        /\ asked => job.status[r] # "not_run"

Accounted ==
    /\ job.phase \in {"dir", "exit"} \/ job.result = "green" =>
            RanOrNamed(job.workflow, WfRules)
    /\ job.phase = "exit" \/ job.result = "green" =>
            RanOrNamed(job.workflows_dir, DirRules)

PassIsPass == \A r \in Rule : job.said[r] = "pass" => job.status[r] = "pass"

JobInv == JobTypeOK /\ StatusKept /\ Targeted /\ NotYet /\ Accounted /\ PassIsPass

(* The invariant holds before the first step of the action's script.        *)
LEMMA JobStarts == JobInit => JobInv
BY DEF JobInit, JobInv, JobTypeOK, Job, StatusKept, Targeted, NotYet, Accounted, RanOrNamed,
       PassIsPass, Rule, Enforcing, Statuses, WfRules, DirRules

(* Ending a job changes its phase and its result alone.                     *)
LEMMA EndKeeps ==
    ASSUME JobInv, NEW how \in {"green", "red", "cancelled"}, Ends(how),
           how = "green" => job.phase = "exit" /\ job.rc = 0
    PROVE  JobInv'
<1> USE DEF JobInv
<1>1. /\ job'.phase = "over" /\ job'.result = how
      /\ job'.workflow = job.workflow /\ job'.workflows_dir = job.workflows_dir
      /\ job'.rc = job.rc /\ job'.status = job.status /\ job'.said = job.said
      /\ job' \in Job
    BY DEF Ends, JobTypeOK, Job
<1>2. JobTypeOK' /\ StatusKept' /\ Targeted' /\ NotYet' /\ PassIsPass'
    BY <1>1 DEF JobTypeOK, StatusKept, Targeted, NotYet, PassIsPass
<1>3. Accounted'
    BY <1>1 DEF Accounted, RanOrNamed
<1>4. QED
    BY <1>2, <1>3

(* The invariant survives every step of the script.                         *)
LEMMA JobSteps == JobInv /\ [JobNext]_job => JobInv'
<1> SUFFICES ASSUME JobInv, [JobNext]_job PROVE JobInv'
    OBVIOUS
<1> USE DEF JobInv
<1>1. CASE Setup
  <2>1. CASE job' = [job EXCEPT !.phase = "targets"]
    <3>1. /\ job.phase = "setup" /\ job'.phase = "targets" /\ job'.result = job.result
          /\ job'.workflow = job.workflow /\ job'.rc = job.rc
          /\ job'.status = job.status /\ job'.said = job.said /\ job' \in Job
        BY <1>1, <2>1 DEF Setup, JobTypeOK, Job
    <3>2. QED
        BY <3>1 DEF JobTypeOK, StatusKept, Targeted, NotYet, Accounted, RanOrNamed, PassIsPass
  <2>2. CASE Ends("red")
    BY <2>2, EndKeeps
  <2>3. QED
    BY <1>1, <2>1, <2>2 DEF Setup
<1>2. CASE Targets
  <2>1. CASE Refuses(job)
    BY <1>2, <2>1, EndKeeps DEF Targets
  <2>2. CASE ~Refuses(job)
    <3>1. /\ job.phase = "targets" /\ job'.phase = "workflow" /\ job'.result = job.result
          /\ job'.workflow = job.workflow /\ job'.workflows_dir = job.workflows_dir
          /\ job'.rc = job.rc /\ job'.status = job.status /\ job'.said = job.said
          /\ job' \in Job
        BY <1>2, <2>2 DEF Targets, JobTypeOK, Job
    <3>2. QED
        BY <2>2, <3>1 DEF Refuses, JobTypeOK, StatusKept, Targeted, NotYet, Accounted,
                          RanOrNamed, PassIsPass
  <2>3. QED
    BY <2>1, <2>2
<1>3. ASSUME NEW r \in Rule, NEW s \in Statuses, RunRule(r, s) PROVE JobInv'
  <2>1. /\ job'.phase = job.phase /\ job'.result = job.result
        /\ job'.workflow = job.workflow /\ job'.workflows_dir = job.workflows_dir
        /\ job'.rc = IF r \in Enforcing /\ Fails(s) THEN 1 ELSE job.rc
        /\ job'.status = [job.status EXCEPT ![r] = s]
        /\ job'.said = [job.said EXCEPT ![r] = Announces(r, s)]
      BY <1>3 DEF RunRule, JobTypeOK, Job
  <2>2. /\ job.status \in [Rule -> Statuses \cup {"not_run"}]
        /\ job.said \in
             [Rule -> {"nothing", "pass", "findings", "notice", "warning", "skipped"}]
      BY DEF JobTypeOK, Job
  <2>3. /\ s # "not_run" /\ Announces(r, s) \in {"pass", "findings", "notice", "warning"}
        /\ Announces(r, s) = "pass" => s = "pass"
      BY DEF Statuses, Announces
  <2>4. JobTypeOK'
      BY <1>3, <2>3 DEF RunRule, JobTypeOK, Job
  <2>5. StatusKept'
      BY <2>1, <2>2, <2>3 DEF StatusKept, Fails, Enforcing, Rule, WfRules, DirRules
  <2>6. Targeted'
      BY <1>3, <2>1 DEF Targeted, RunRule, JobTypeOK, Job
  <2>7. NotYet'
      BY <1>3, <2>1, <2>2, <2>3, RulesAssumption DEF NotYet, RunRule, Rule
  <2>8. Accounted'
      BY <1>3, <2>1, <2>2, <2>3, RulesAssumption DEF Accounted, RanOrNamed, RunRule, Rule,
         Targeted
  <2>9. PassIsPass'
      BY <2>1, <2>2, <2>3 DEF PassIsPass
  <2>10. QED
      BY <2>4, <2>5, <2>6, <2>7, <2>8, <2>9
<1>4. CASE WorkflowScope
  <2>1. /\ job.phase = "workflow" /\ job'.phase = "dir" /\ job'.result = job.result
        /\ job'.workflow = job.workflow /\ job'.workflows_dir = job.workflows_dir
        /\ job'.rc = job.rc /\ job'.status = job.status
        /\ job'.said = Announced(job.workflow, WfRules)
        /\ job.workflow => AllRan(WfRules)
      BY <1>4 DEF WorkflowScope, Done, JobTypeOK, Job
  <2>2. \A r \in Rule :
           job'.said[r] = IF ~job.workflow /\ r \in WfRules THEN "skipped" ELSE job.said[r]
      BY <2>1 DEF Announced
  <2>3. JobTypeOK'
    <3>1. Announced(job.workflow, WfRules) \in
            [Rule -> {"nothing", "pass", "findings", "notice", "warning", "skipped"}]
        BY DEF Announced, JobTypeOK, Job
    <3>2. QED
        BY <1>4, <3>1 DEF WorkflowScope, JobTypeOK, Job
  <2>4. StatusKept' /\ Targeted'
      BY <2>1 DEF StatusKept, Targeted
  <2>5. NotYet'
      BY <2>1, <2>2, RulesAssumption DEF NotYet, Rule
  <2>6. Accounted'
      BY <2>1, <2>2, RulesAssumption DEF Accounted, RanOrNamed, NotYet, AllRan, Rule, Targeted
  <2>7. PassIsPass'
      BY <2>1, <2>2 DEF PassIsPass
  <2>8. QED
      BY <2>3, <2>4, <2>5, <2>6, <2>7
<1>5. CASE DirScope
  <2>1. /\ job.phase = "dir" /\ job'.phase = "exit" /\ job'.result = job.result
        /\ job'.workflow = job.workflow /\ job'.workflows_dir = job.workflows_dir
        /\ job'.rc = job.rc /\ job'.status = job.status
        /\ job'.said = Announced(job.workflows_dir, DirRules)
        /\ job.workflows_dir => AllRan(DirRules)
      BY <1>5 DEF DirScope, Done, JobTypeOK, Job
  <2>2. \A r \in Rule :
           job'.said[r] = IF ~job.workflows_dir /\ r \in DirRules THEN "skipped" ELSE job.said[r]
      BY <2>1 DEF Announced
  <2>3. JobTypeOK'
    <3>1. Announced(job.workflows_dir, DirRules) \in
            [Rule -> {"nothing", "pass", "findings", "notice", "warning", "skipped"}]
        BY DEF Announced, JobTypeOK, Job
    <3>2. QED
        BY <1>5, <3>1 DEF DirScope, JobTypeOK, Job
  <2>4. StatusKept' /\ Targeted'
      BY <2>1 DEF StatusKept, Targeted
  <2>5. NotYet'
      BY <2>1, <2>2, RulesAssumption DEF NotYet, Rule
  <2>6. Accounted'
      BY <2>1, <2>2, RulesAssumption DEF Accounted, RanOrNamed, NotYet, AllRan, Rule, Targeted
  <2>7. PassIsPass'
      BY <2>1, <2>2 DEF PassIsPass
  <2>8. QED
      BY <2>3, <2>4, <2>5, <2>6, <2>7
<1>6. CASE Exit
    BY <1>6, EndKeeps DEF Exit, JobTypeOK, Job
<1>7. CASE Cancel
    BY <1>7, EndKeeps DEF Cancel
<1>8. CASE UNCHANGED job
    BY <1>8 DEF JobTypeOK, StatusKept, Targeted, NotYet, Accounted, RanOrNamed, PassIsPass
<1>9. QED
    BY <1>1, <1>2, <1>3, <1>4, <1>5, <1>6, <1>7, <1>8 DEF JobNext

(* The job's record keeps its type: every phase, status and announcement    *)
(* the action can reach is one of those named.                              *)
THEOREM JobTypeCorrect == JobSpec => []JobTypeOK
<1>1. JobInv => JobTypeOK
    BY DEF JobInv
<1>2. QED
    BY JobStarts, JobSteps, <1>1, PTL DEF JobSpec

(* A green job has a verdict of at least one enforcing rule, and of each    *)
(* that it did not announce as skipped.                                     *)
THEOREM GreenJudged == JobSpec => []GreenIsJudged
<1>1. JobInv => GreenIsJudged
    BY RulesAssumption
    DEF JobInv, Targeted, StatusKept, Accounted, RanOrNamed, GreenIsJudged,
        Rule, Enforcing, WfRules, DirRules
<1>2. QED
    BY JobStarts, JobSteps, <1>1, PTL DEF JobSpec

(* At the end of a job every rule has been run or named as skipped.         *)
THEOREM NoneSilent == JobSpec => []NothingIsSilent
<1>1. JobInv => NothingIsSilent
    BY DEF JobInv, Accounted, RanOrNamed, PassIsPass, NothingIsSilent, Rule
<1>2. QED
    BY JobStarts, JobSteps, <1>1, PTL DEF JobSpec

-----------------------------------------------------------------------------
(* The command line of a rule, for every set of paths.                      *)
CONSTANT Path

VARIABLES call, outcome

Cli == INSTANCE RuleTargets

CliInv == call \in Cli!Call /\ Cli!JudgesWhatItWasGiven

(* What judges at all judges what it was given.                            *)
LEMMA OnlyJudges ==
    ASSUME NEW S, NEW wrong \in BOOLEAN, NEW o,
           o = IF wrong THEN Cli!UsageError ELSE Cli!OrError(S), o.is = "judges"
    PROVE  ~wrong /\ S # {} /\ o.paths = S
<1>1. Cli!UsageError.is = "usage"
  BY DEF Cli!UsageError
<1>2. ~wrong /\ S # {}
  BY <1>1 DEF Cli!OrError
<1>3. o = Cli!Judges(S)
  BY <1>2 DEF Cli!OrError
<1>4. QED
  BY <1>2, <1>3 DEF Cli!Judges

(* Each resolver judges what it was given, or its default.                 *)
LEMMA Resolving ==
    ASSUME NEW c \in Cli!Call, ~(c.resolver = "dir" /\ c.spelling # "full"),
           NEW o, o = CASE c.resolver = "target" -> Cli!ResolveTarget(c)
                        [] c.resolver = "dir" -> Cli!ResolveDir(c)
                        [] c.resolver = "targets" -> Cli!ResolveTargets(c),
           o.is = "judges"
    PROVE  /\ o.paths # {}
           /\ o.paths = IF c.positional \cup c.flag = {} THEN c.default
                        ELSE c.positional \cup c.flag
<1> DEFINE given == c.positional \cup c.flag
<1>1. CASE c.resolver = "target"
  <2>1. o = IF ~Cli!One(given) THEN Cli!UsageError ELSE Cli!OrError(given)
    BY <1>1 DEF Cli!ResolveTarget
  <2>2. QED
    BY <2>1, OnlyJudges
<1>2. CASE c.resolver = "targets"
  <2>1. o = IF FALSE THEN Cli!UsageError ELSE Cli!OrError(given)
    BY <1>2 DEF Cli!ResolveTargets
  <2>2. QED
    BY <2>1, OnlyJudges
<1>3. CASE c.resolver = "dir"
  <2>1. Cli!Passed(c) <=> c.flag # {}
    BY <1>3 DEF Cli!Passed
  <2>2. CASE c.flag # {}
    <3>1. o = IF ~Cli!One(given) THEN Cli!UsageError ELSE Cli!OrError(c.flag)
      BY <1>3, <2>1, <2>2 DEF Cli!ResolveDir
    <3>2. Cli!One(given) /\ o.paths = c.flag
      BY <3>1, OnlyJudges
    <3>3. c.positional \subseteq c.flag
      BY <2>2, <3>2 DEF Cli!One
    <3>4. QED
      BY <2>2, <3>2, <3>3
  <2>3. CASE c.flag = {}
    <3> DEFINE S == IF c.positional # {} THEN c.positional ELSE c.default
    <3>1. o = IF FALSE THEN Cli!UsageError ELSE Cli!OrError(S)
      BY <1>3, <2>1, <2>3 DEF Cli!ResolveDir
    <3>2. S # {} /\ o.paths = S
      BY <3>1, OnlyJudges
    <3>3. QED
      BY <2>3, <3>2
  <2>4. QED
    BY <2>2, <2>3
<1>4. QED
  BY <1>1, <1>2, <1>3 DEF Cli!Call

(* For every set of paths: whatever a rule is given on its command line, it *)
(* judges all of it and nothing else, or it stops with a usage error.       *)
THEOREM TargetsAreWhatWasGiven == Cli!Spec => []Cli!JudgesWhatItWasGiven
<1>1. Cli!Init => CliInv
  BY DEF Cli!Init, CliInv, Cli!JudgesWhatItWasGiven
<1>2. CliInv /\ [Cli!Next]_(Cli!vars) => CliInv'
  <2> SUFFICES ASSUME CliInv, [Cli!Next]_(Cli!vars)
               PROVE  CliInv'
    OBVIOUS
  <2>1. CASE Cli!Resolve
    <3>1. call' = call /\ call \in Cli!Call
      BY <2>1 DEF Cli!Resolve, CliInv
    <3>2. Cli!JudgesWhatItWasGiven'
      BY <2>1, <3>1, Resolving DEF Cli!Resolve, Cli!JudgesWhatItWasGiven
    <3>3. QED
      BY <3>1, <3>2 DEF CliInv
  <2>2. CASE UNCHANGED Cli!vars
    BY <2>2 DEF Cli!vars, CliInv, Cli!JudgesWhatItWasGiven
  <2>3. QED
    BY <2>1, <2>2 DEF Cli!Next
<1>3. CliInv => Cli!JudgesWhatItWasGiven
  BY DEF CliInv
<1>4. QED
  BY <1>1, <1>2, <1>3, PTL DEF Cli!Spec
=============================================================================
