-------------------------- MODULE SharedOrg_proofs --------------------------
(* Proofs about SharedOrg, for every catalogue of workflows, every alphabet *)
(* and every number of repositories.                                        *)
EXTENDS SharedOrg, FiniteSetTheorems, TLAPS

(* A prefix, letter by letter.                                              *)
LEMMA PrefixByLetter ==
    ASSUME NEW p \in Seq(Letter), NEW s \in Seq(Letter)
    PROVE  IsPrefix(p, s) <=>
             /\ Len(p) <= Len(s)
             /\ \A i \in 1..Len(p) : p[i] = s[i]
<1>1. SubSeq(p, 1, Len(p)) = p
  OBVIOUS
<1>2. ASSUME Len(p) <= Len(s)
      PROVE  /\ SubSeq(s, 1, Len(p)) \in Seq(Letter)
             /\ Len(SubSeq(s, 1, Len(p))) = Len(p)
             /\ \A i \in 1..Len(p) : SubSeq(s, 1, Len(p))[i] = s[i]
  BY <1>2
<1>3. QED
  BY <1>1, <1>2 DEF IsPrefix

(* Two prefixes of one name: one of them begins with the other.             *)
LEMMA PrefixesCompare ==
    ASSUME NEW p \in Seq(Letter), NEW q \in Seq(Letter), NEW s \in Seq(Letter),
           IsPrefix(p, s), IsPrefix(q, s)
    PROVE  IsPrefix(p, q) \/ IsStrictPrefix(q, p)
<1>1. CASE Len(p) <= Len(q)
  BY <1>1, PrefixByLetter
<1>2. CASE Len(q) < Len(p)
  <2>1. IsPrefix(q, p)
    BY <1>2, PrefixByLetter
  <2>2. q # p
    BY <1>2
  <2>3. QED
    BY <2>1, <2>2 DEF IsStrictPrefix
<1>3. QED
  BY <1>1, <1>2

(* Being a prefix is transitive.                                            *)
LEMMA PrefixesCompose ==
    ASSUME NEW p \in Seq(Letter), NEW q \in Seq(Letter), NEW s \in Seq(Letter),
           IsPrefix(p, q), IsPrefix(q, s)
    PROVE  IsPrefix(p, s)
BY PrefixByLetter

-----------------------------------------------------------------------------
(* The inductive invariant.  The rules are remembered by what they decided: *)
(* every configuration that is in force passed the enforced rules, a        *)
(* standing audit is an audit of the present configurations, a registration *)
(* is named as its producer names, and what stands on a list, or was        *)
(* reaped, is there by a workflow that was in force when it was listed.     *)
TypeInv ==
    /\ conf \in [Repo -> Configs]
    /\ runner \in [Slot -> Runner \cup {Free}]
    /\ listed \in [Slot -> [Repo -> Line \cup {NoLine}]]
    /\ \A i \in Slot : runner[i] = Free => listed[i] = NoLines
    /\ audited \in SUBSET Repo
    /\ reap \in Reaped \cup {Nothing}

Enforced == \A r \in Repo : Compliant(conf[r])

Standing == audited = {} \/ AuditPasses(conf, audited)

NamedByProducer == \A i \in Slot :
    runner[i] # Free => StartsWith(runner[i].name, runner[i].by)

(* A workflow that was merged, and what it selects.                         *)
Lawful(w, status, name) ==
    /\ \E c \in Mergeable : w \in c
    /\ RunsUnattended(w) /\ MayTake(w, status) /\ Named(w, name)

LinesAreLawful == \A i \in Slot, r \in Repo :
    listed[i][r] # NoLine => Lawful(listed[i][r].flow, listed[i][r].saw, runner[i].name)

ReapIsLawful == reap # Nothing =>
    /\ Lawful(reap.flow, reap.saw, reap.runner.name)
    /\ StartsWith(reap.runner.name, reap.runner.by)

IInv ==
    TypeInv /\ Enforced /\ Standing /\ NamedByProducer /\ LinesAreLawful /\ ReapIsLawful

(* A free slot and no reap are told apart from the records they stand for.  *)
LEMMA Sentinels ==
    /\ \A g \in Runner : g # Free
    /\ \A g \in Reaped : g # Nothing
    /\ \A g \in Line : g # NoLine
<1>1. ASSUME NEW g \in Runner
      PROVE  g # Free
  <2>1. g.status \in {"offline", "idle", "busy"}
    BY DEF Runner, Status
  <2>2. Free.status = "free"
    BY DEF Free
  <2>3. QED
    BY <2>1, <2>2
<1>2. ASSUME NEW g \in Reaped
      PROVE  g # Nothing
  <2>1. DOMAIN g = {"by", "flow", "saw", "runner"} /\ DOMAIN Nothing = {"flow"}
    BY DEF Reaped, Nothing
  <2>2. "by" \notin DOMAIN Nothing
    BY <2>1
  <2>3. QED
    BY <2>1, <2>2
<1>3. ASSUME NEW g \in Line
      PROVE  g # NoLine
  <2>1. g.saw \in {"offline", "idle", "busy"} /\ NoLine.saw = "none"
    BY DEF Line, NoLine, Status
  <2>2. QED
    BY <2>1
<1>4. QED
  BY <1>1, <1>2, <1>3

(* The invariant holds of repositories that start compliant.                *)
LEMMA InitInv == Init => IInv
<1> SUFFICES ASSUME Init
             PROVE  IInv
  OBVIOUS
<1>1. TypeInv
  BY DEF Init, TypeInv, NoLines, Mergeable
<1>2. Enforced
  BY DEF Init, Enforced, Mergeable
<1>3. Standing /\ NamedByProducer /\ ReapIsLawful
  BY DEF Init, Standing, NamedByProducer, ReapIsLawful
<1>4. LinesAreLawful
  <2>1. \A i \in Slot, r \in Repo : listed[i][r] = NoLine
    BY DEF Init, NoLines
  <2>2. QED
    BY <2>1 DEF LinesAreLawful
<1>5. QED
  BY <1>1, <1>2, <1>3, <1>4 DEF IInv

(* A registration is named as the producer in force names it.               *)
LEMMA CreateInv ==
    ASSUME IInv, NEW r \in Repo, NEW w \in conf[r], NEW i \in Slot, Create(r, w, i)
    PROVE  IInv'
<1> USE DEF IInv
<1>1. PICK by \in IF w.emits = {} THEN {<<>>} ELSE w.emits, name \in Name :
        /\ StartsWith(name, by)
        /\ runner' = [runner EXCEPT ![i] =
              [owner |-> r, by |-> by, name |-> name, status |-> "offline"]]
  BY DEF Create
<1>2. w \in Workflow
  BY ConfigAssumption DEF TypeInv
<1>3. by \in Literal \cup {<<>>}
  BY <1>2 DEF Workflow
<1>4. [owner |-> r, by |-> by, name |-> name, status |-> "offline"] \in Runner
  BY <1>3 DEF Runner, Status
<1>5. UNCHANGED <<conf, listed, audited>> /\ reap' = Nothing /\ runner[i] = Free
  BY DEF Create
<1>6. TypeInv'
  BY <1>1, <1>4, <1>5, Sentinels DEF TypeInv
<1>7. NamedByProducer'
  BY <1>1, <1>5 DEF NamedByProducer, TypeInv
<1>8. Enforced' /\ Standing' /\ ReapIsLawful'
  BY <1>5 DEF Enforced, Standing, ReapIsLawful
<1>9. LinesAreLawful'
  <2>1. \A q \in Repo : listed[i][q] = NoLine
    BY <1>5 DEF TypeInv, NoLines
  <2>2. \A j \in Slot \ {i} : runner'[j] = runner[j]
    BY <1>1 DEF TypeInv
  <2>3. QED
    BY <1>5, <2>1, <2>2 DEF LinesAreLawful
<1>10. QED
  BY <1>6, <1>7, <1>8, <1>9

(* A change of a runner's status keeps its name.                            *)
LEMMA BecomesInv ==
    ASSUME IInv, NEW i \in Slot,
           NEW from \in {"offline", "idle", "busy"}, NEW to \in {"offline", "idle", "busy"},
           Becomes(i, from, to)
    PROVE  IInv'
<1> USE DEF IInv
<1>1. UNCHANGED <<conf, listed, audited>> /\ reap' = Nothing
      /\ runner' = [runner EXCEPT ![i].status = to] /\ runner[i].status = from
  BY DEF Becomes
<1>2. runner[i] # Free /\ runner[i] \in Runner
  BY <1>1 DEF TypeInv, Free
<1>3. [runner[i] EXCEPT !.status = to] \in Runner
  BY <1>2 DEF Runner, Status
<1>4. TypeInv'
  BY <1>1, <1>2, <1>3, Sentinels DEF TypeInv
<1>5. NamedByProducer' /\ LinesAreLawful'
  <2>1. runner'[i] = [runner[i] EXCEPT !.status = to]
    BY <1>1 DEF TypeInv
  <2>2. runner'[i].name = runner[i].name /\ runner'[i].by = runner[i].by
    BY <2>1, <1>2 DEF Runner
  <2>3. \A j \in Slot \ {i} : runner'[j] = runner[j]
    BY <1>1 DEF TypeInv
  <2>4. QED
    BY <1>1, <1>2, <2>2, <2>3 DEF NamedByProducer, LinesAreLawful
<1>6. Enforced' /\ Standing' /\ ReapIsLawful'
  BY <1>1 DEF Enforced, Standing, ReapIsLawful
<1>7. QED
  BY <1>4, <1>5, <1>6

(* What is gone frees its slot and no other, and stands on no list.         *)
LEMMA GoneInv ==
    ASSUME IInv, NEW i \in Slot, Gone(i)
    PROVE  /\ runner' \in [Slot -> Runner \cup {Free}]
           /\ listed' \in [Slot -> [Repo -> Line \cup {NoLine}]]
           /\ \A j \in Slot : runner'[j] = Free => listed'[j] = NoLines
           /\ NamedByProducer' /\ LinesAreLawful'
<1>1. /\ runner' = [runner EXCEPT ![i] = Free]
      /\ listed' = [listed EXCEPT ![i] = NoLines]
      /\ TypeInv /\ NamedByProducer /\ LinesAreLawful
  BY DEF Gone, IInv
<1>2. NoLines \in [Repo -> Line \cup {NoLine}]
  BY DEF NoLines
<1>3. runner'[i] = Free /\ listed'[i] = NoLines
  BY <1>1 DEF TypeInv
<1>4. \A j \in Slot \ {i} : runner'[j] = runner[j] /\ listed'[j] = listed[j]
  BY <1>1 DEF TypeInv
<1>5. \A r \in Repo : listed'[i][r] = NoLine
  BY <1>3 DEF NoLines
<1>6. NamedByProducer'
  BY <1>1, <1>3, <1>4 DEF NamedByProducer
<1>7. LinesAreLawful'
  BY <1>1, <1>4, <1>5 DEF LinesAreLawful
<1>8. QED
  BY <1>1, <1>2, <1>3, <1>4, <1>6, <1>7 DEF TypeInv

(* A deregistration is no reap.                                             *)
LEMMA LeaveInv ==
    ASSUME IInv, NEW i \in Slot, Leave(i)
    PROVE  IInv'
<1> USE DEF IInv
<1>1. TypeInv'
  BY GoneInv DEF Leave, TypeInv
<1>2. NamedByProducer' /\ LinesAreLawful'
  BY GoneInv DEF Leave
<1>3. Enforced' /\ Standing' /\ ReapIsLawful'
  BY DEF Leave, Enforced, Standing, ReapIsLawful
<1>4. QED
  BY <1>1, <1>2, <1>3

(* What is listed is listed by a workflow in force, which was merged.       *)
LEMMA ListInv ==
    ASSUME IInv, NEW r \in Repo, NEW w \in conf[r], NEW i \in Slot, List(r, w, i)
    PROVE  IInv'
<1> USE DEF IInv
<1>1. /\ UNCHANGED <<conf, runner, audited>> /\ reap' = Nothing
      /\ runner[i] # Free
      /\ listed' = [listed EXCEPT ![i][r] = [flow |-> w, saw |-> runner[i].status]]
      /\ RunsUnattended(w) /\ MayTake(w, runner[i].status) /\ Named(w, runner[i].name)
  BY DEF List
<1>2. conf[r] \in Mergeable /\ w \in UNION Configs
  BY DEF TypeInv, Enforced, Mergeable
<1>3. runner[i].status \in Status
  BY <1>1 DEF TypeInv, Runner
<1> DEFINE line == [flow |-> w, saw |-> runner[i].status]
<1>4. line \in Line
  BY <1>2, <1>3 DEF Line
<1>5. TypeInv'
  BY <1>1, <1>4 DEF TypeInv
<1>6. \A j \in Slot, q \in Repo :
        listed'[j][q] = IF j = i /\ q = r THEN line ELSE listed[j][q]
  BY <1>1 DEF TypeInv
<1>7. Lawful(w, runner[i].status, runner[i].name)
  BY <1>1, <1>2 DEF Lawful
<1>8. LinesAreLawful'
  <2> SUFFICES ASSUME NEW j \in Slot, NEW q \in Repo, listed'[j][q] # NoLine
               PROVE  Lawful(listed'[j][q].flow, listed'[j][q].saw, runner[j].name)
    BY <1>1 DEF LinesAreLawful
  <2>1. CASE j = i /\ q = r
    BY <1>6, <1>7, <2>1
  <2>2. CASE ~(j = i /\ q = r)
    BY <1>6, <2>2 DEF LinesAreLawful
  <2>3. QED
    BY <2>1, <2>2
<1>9. Enforced' /\ Standing' /\ NamedByProducer' /\ ReapIsLawful'
  BY <1>1 DEF Enforced, Standing, NamedByProducer, ReapIsLawful
<1>10. QED
  BY <1>5, <1>8, <1>9

(* A reap is of what a list says.                                           *)
LEMMA ReapInv ==
    ASSUME IInv, NEW r \in Repo, NEW i \in Slot, Reap(r, i)
    PROVE  IInv'
<1> USE DEF IInv
<1>1. /\ UNCHANGED <<conf, audited>>
      /\ listed[i][r] # NoLine
      /\ reap' = [by |-> r, flow |-> listed[i][r].flow, saw |-> listed[i][r].saw,
                  runner |-> runner[i]]
      /\ Gone(i)
  BY DEF Reap
<1>2. runner[i] # Free
  BY <1>1 DEF TypeInv, NoLines
<1>3. runner[i] \in Runner /\ listed[i][r] \in Line
  BY <1>1, <1>2 DEF TypeInv
<1>4. reap' \in Reaped
  BY <1>1, <1>3 DEF Reaped, Line
<1>5. TypeInv'
  BY <1>1, <1>4, GoneInv DEF TypeInv
<1>6. NamedByProducer' /\ LinesAreLawful'
  BY <1>1, GoneInv
<1>7. Enforced' /\ Standing'
  BY <1>1 DEF Enforced, Standing
<1>8. ReapIsLawful'
  <2>1. Lawful(listed[i][r].flow, listed[i][r].saw, runner[i].name)
    BY <1>1 DEF LinesAreLawful
  <2>2. StartsWith(runner[i].name, runner[i].by)
    BY <1>2 DEF NamedByProducer
  <2>3. /\ reap'.flow = listed[i][r].flow /\ reap'.saw = listed[i][r].saw
        /\ reap'.runner = runner[i]
    BY <1>1
  <2>4. QED
    BY <2>1, <2>2, <2>3 DEF ReapIsLawful
<1>9. QED
  BY <1>5, <1>6, <1>7, <1>8

(* A merge leaves each configuration in force compliant.                    *)
LEMMA EditInv ==
    ASSUME IInv, NEW r \in Repo, NEW c \in Mergeable, Edit(r, c)
    PROVE  IInv'
<1> USE DEF IInv
<1>1. TypeInv'
  BY DEF Edit, TypeInv, Mergeable
<1>2. Enforced'
  BY DEF Edit, Enforced, TypeInv, Mergeable
<1>3. Standing' /\ NamedByProducer' /\ LinesAreLawful' /\ ReapIsLawful'
  BY DEF Edit, Standing, NamedByProducer, LinesAreLawful, ReapIsLawful
<1>4. QED
  BY <1>1, <1>2, <1>3

(* An audit that stands is one of the present configurations.               *)
LEMMA AuditInv ==
    ASSUME IInv, NEW S \in SUBSET Repo, Audit(S)
    PROVE  IInv'
<1> USE DEF IInv
<1>1. TypeInv'
  BY DEF Audit, TypeInv
<1>2. Standing'
  <2>1. CASE AuditPasses(conf, S)
    <3>1. audited' = S /\ conf' = conf
      BY <2>1 DEF Audit
    <3>2. AuditPasses(conf', audited')
      BY <2>1, <3>1
    <3>3. QED
      BY <3>2 DEF Standing
  <2>2. CASE ~AuditPasses(conf, S)
    BY <2>2 DEF Audit, Standing
  <2>3. QED
    BY <2>1, <2>2
<1>3. Enforced' /\ NamedByProducer' /\ LinesAreLawful' /\ ReapIsLawful'
  BY DEF Audit, Enforced, NamedByProducer, LinesAreLawful, ReapIsLawful
<1>4. QED
  BY <1>1, <1>2, <1>3

(* The invariant is kept by every step.                                     *)
LEMMA StepInv == IInv /\ [Next]_vars => IInv'
<1> SUFFICES ASSUME IInv, [Next]_vars
             PROVE  IInv'
  OBVIOUS
<1>1. ASSUME NEW i \in Slot, NEW r \in Repo, NEW w \in conf[r], Create(r, w, i)
      PROVE  IInv'
  BY <1>1, CreateInv
<1>2. ASSUME NEW i \in Slot, \/ Becomes(i, "offline", "idle") \/ Becomes(i, "idle", "busy")
                             \/ Becomes(i, "busy", "idle") \/ Becomes(i, "idle", "offline")
      PROVE  IInv'
  BY <1>2, BecomesInv
<1>3. ASSUME NEW i \in Slot, Leave(i)
      PROVE  IInv'
  BY <1>3, LeaveInv
<1>4. ASSUME NEW i \in Slot, SomeReap(i)
      PROVE  IInv'
  BY <1>4, ReapInv DEF SomeReap
<1>5. ASSUME NEW r \in Repo, NEW c \in Mergeable, Edit(r, c)
      PROVE  IInv'
  BY <1>5, EditInv
<1>6. ASSUME NEW S \in SUBSET Repo, Audit(S)
      PROVE  IInv'
  BY <1>6, AuditInv
<1>7. CASE UNCHANGED vars
  BY <1>7 DEF vars, IInv, TypeInv, Enforced, Standing, NamedByProducer, LinesAreLawful,
              ReapIsLawful
<1>8. ASSUME NEW i \in Slot, SomeList(i)
      PROVE  IInv'
  BY <1>8, ListInv DEF SomeList
<1>9. QED
  BY <1>1, <1>2, <1>3, <1>4, <1>5, <1>6, <1>7, <1>8 DEF Next

(* The invariant of the shared organisation.                                *)
LEMMA Inductive == Spec => []IInv
<1>1. QED
  BY InitInv, StepInv, PTL DEF Spec

-----------------------------------------------------------------------------
(* An audit that passed had at least two checkouts.                         *)
LEMMA AuditedAreTwo ==
    ASSUME NEW S \in SUBSET Repo, AuditPasses(conf, S)
    PROVE  Cardinality(S) >= 2
<1> DEFINE described == {r \in S : conf[r] # {}}
<1>1. IsFiniteSet(S)
  BY NameAssumption, FS_Subset
<1>2. Cardinality(described) <= Cardinality(S)
  BY <1>1, FS_Subset
<1>3. Cardinality(described) >= 2
  BY DEF AuditPasses
<1>4. Cardinality(described) \in Nat /\ Cardinality(S) \in Nat
  BY <1>1, FS_Subset, FS_CardinalityType
<1>5. QED
  BY <1>2, <1>3, <1>4

(* Type correctness of the organisation, with an audit standing only over   *)
(* two checkouts or more (check_sibling_prefix_collisions.py, NON-VACUITY). *)
THEOREM TypeCorrect == Spec => []TypeOK
<1>1. IInv => TypeOK
  BY AuditedAreTwo DEF IInv, TypeInv, Standing, TypeOK
<1>2. QED
  BY <1>1, Inductive, PTL

(* For every catalogue, and whatever is merged between a listing and its    *)
(* DELETE: a reaper of repositories that pass check_dereg_backstop.py takes *)
(* a runner out of a job only if the job began after the listing, or if the *)
(* safe predicate that the rule found is that of another command.           *)
THEOREM BusyIsARace == Spec => []BusyOnlySinceListed
<1>1. IInv => BusyOnlySinceListed
  <2> SUFFICES ASSUME IInv, reap # Nothing, reap.saw = "busy"
               PROVE  reap.flow.reaper = "elsewhere"
    BY DEF BusyOnlySinceListed
  <2> DEFINE w == reap.flow
  <2>1. PICK c \in Mergeable : w \in c
    BY DEF IInv, ReapIsLawful, Lawful
  <2>2. w \in Workflow /\ Compliant(c)
    BY <2>1, ConfigAssumption DEF Mergeable
  <2>3. RunsUnattended(w) /\ MayTake(w, "busy")
    BY DEF IInv, ReapIsLawful, Lawful
  <2>4. w \in Parsed(c)
    BY <2>1, <2>3 DEF RunsUnattended, Parsed
  <2>5. w.reaper # "unsafe"
    BY <2>2, <2>4 DEF Compliant, DeregBackstop, NoHazard
  <2>6. QED
    BY <2>3, <2>5 DEF MayTake, Canonical
<1>2. QED
  BY <1>1, Inductive, PTL

(* While an audit of check_sibling_prefix_collisions.py stands, a reaper    *)
(* removes a registration of another audited repository only where the      *)
(* audit is blind, and Blind is the whole list of those cases.              *)
THEOREM SiblingsAreSpared == Spec => []SiblingsSpared
<1>1. IInv => SiblingsSpared
  <2> SUFFICES ASSUME IInv, reap # Nothing, reap.by # reap.runner.owner,
                      {reap.by, reap.runner.owner} \subseteq audited,
                      ~Blind(reap.by, reap.flow, reap.runner)
               PROVE  FALSE
    BY DEF SiblingsSpared
  <2> DEFINE w == reap.flow  g == reap.runner  r == reap.by
  <2>1. /\ r \in Repo /\ g \in Runner
        /\ w \in conf[r] /\ w.reads = "ok" /\ Named(w, g.name)
        /\ StartsWith(g.name, g.by)
    BY DEF IInv, TypeInv, ReapIsLawful, Lawful, Reaped, RunsUnattended, Blind
  <2>2. w \in Workflow
    BY <2>1, ConfigAssumption DEF IInv, TypeInv
  <2>3. /\ SeesOrg(conf[r]) /\ SeesOrg(conf[g.owner])
        /\ w.scope = "literal"
        /\ g.by \in Emits(conf[g.owner])
        /\ \A k \in DOMAIN w.prefixes :
              /\ w.prefixes[k].p \in SeenPrefixes(w)
              /\ StartsWith(g.name, w.prefixes[k].p)
                   => ~IsStrictPrefix(g.by, w.prefixes[k].p)
    BY DEF Blind
  <2>4. PICK k \in DOMAIN w.prefixes : StartsWith(g.name, w.prefixes[k].p)
    BY <2>1, <2>3 DEF Named
  <2> DEFINE p == w.prefixes[k].p
  <2>5. p \in FiltersOf(conf[r])
    BY <2>1, <2>3, <2>4 DEF FiltersOf, Parsed
  <2>6. StartsWith(g.by, p)
    <3>1. w.prefixes \in Seq(Entry)
      BY <2>2 DEF Workflow
    <3>2. w.prefixes[k] \in Entry
      BY <3>1, <2>4
    <3>3. p \in Literal
      BY <3>2 DEF Entry
    <3>4. g.by \in Literal \cup {<<>>} /\ g.name \in Name
      BY <2>1 DEF Runner
    <3>5. p \in Seq(Letter) /\ g.by \in Seq(Letter) /\ g.name \in Seq(Letter)
      <4>1. <<>> \in Seq(Letter)
        OBVIOUS
      <4>2. Literal \subseteq Seq(Letter) /\ Name \subseteq Seq(Letter)
        BY NameAssumption
      <4> HIDE DEF p, g
      <4>3. QED
        BY <3>3, <3>4, <4>1, <4>2
    <3>6. IsPrefix(p, g.name) /\ IsPrefix(g.by, g.name)
      BY <2>1, <2>4 DEF StartsWith
    <3>7. IsPrefix(p, g.by) \/ IsStrictPrefix(g.by, p)
      BY <3>5, <3>6, PrefixesCompare
    <3>8. QED
      BY <3>7, <2>3, <2>4 DEF StartsWith
  <2>7. Collides(conf[r], conf[g.owner])
    BY <2>3, <2>5, <2>6 DEF Collides
  <2>8. AuditPasses(conf, audited)
    BY DEF IInv, Standing
  <2>9. conf[r] # {} /\ conf[g.owner] # {}
    BY <2>1, <2>3 DEF Emits, Parsed
  <2>10. QED
    BY <2>7, <2>8, <2>9 DEF AuditPasses
<1>2. QED
  BY <1>1, Inductive, PTL

(* The reach of check_backstop_covers_producers.py: if every workflow it    *)
(* counts as a backstop runs unattended with a list that is spelled out,    *)
(* some backstop selects whatever the repository's producers leave offline. *)
THEOREM CoverageIsEnough == Spec => []CoveredIsReapable
<1>1. IInv => CoveredIsReapable
  <2> SUFFICES ASSUME IInv, NEW i \in Slot, Stuck(i), NEW c \in Configs, AsCounted(c),
                      c = conf[runner[i].owner]
               PROVE  \E w \in c : /\ RunsUnattended(w)
                                  /\ MayTake(w, "offline")
                                  /\ Named(w, runner[i].name)
    BY DEF CoveredIsReapable, Stuck, Counted
  <2> DEFINE g == runner[i]
  <2>1. /\ g \in Runner /\ conf[g.owner] = c /\ g.by \in Emits(c)
        /\ StartsWith(g.name, g.by)
    BY DEF Stuck, IInv, TypeInv, NamedByProducer
  <2>2. BackstopCovers(c)
    BY <2>1 DEF IInv, Enforced, Compliant, Runner
  <2>3. ASSUME NEW w \in Backstops(c)
        PROVE  /\ w \in c /\ w \in Workflow /\ RunsUnattended(w)
               /\ MayTake(w, "offline")
               /\ Canonical(w) => SeenPrefixes(w) # {}
    <3>1. w \in c /\ w \in Workflow /\ RunsUnattended(w)
          /\ (Canonical(w) => SeenPrefixes(w) # {})
      BY ConfigAssumption DEF AsCounted, Backstops, Parsed
    <3>2. w.reaper \in {"pinned", "moving", "safe", "elsewhere", "unsafe"}
      BY <3>1 DEF RunsUnattended, Deregisters, Workflow
    <3>3. QED
      BY <3>1, <3>2 DEF MayTake, Canonical
  <2>4. CASE \E w \in Backstops(c) : TakenForUnfiltered(w)
    <3>1. PICK w \in Backstops(c) : TakenForUnfiltered(w)
      BY <2>4
    <3>2. w.scope = "everything"
      BY <3>1, <2>3 DEF TakenForUnfiltered
    <3>3. QED
      BY <3>2, <2>3 DEF Named
  <2>5. CASE ~\E w \in Backstops(c) : TakenForUnfiltered(w)
    <3>1. PICK w \in Backstops(c) : \E f \in SeenPrefixes(w) : StartsWith(g.by, f)
      BY <2>1, <2>2, <2>5 DEF BackstopCovers, CoveredBy
    <3>2. PICK f \in SeenPrefixes(w) : StartsWith(g.by, f)
      BY <3>1
    <3>3. PICK k \in DOMAIN w.prefixes : f = w.prefixes[k].p
      BY <3>2 DEF SeenPrefixes
    <3>4. w.prefixes \in Seq(Entry)
      BY <2>3 DEF Workflow
    <3>5. w.prefixes[k] \in Entry
      BY <3>4, <3>3
    <3>6. f \in Literal /\ g.by \in Literal \cup {<<>>} /\ g.name \in Name
      BY <2>1, <3>3, <3>5 DEF Entry, Runner
    <3>7. f \in Seq(Letter) /\ g.by \in Seq(Letter) /\ g.name \in Seq(Letter)
      <4>1. <<>> \in Seq(Letter)
        OBVIOUS
      <4>2. Literal \subseteq Seq(Letter) /\ Name \subseteq Seq(Letter)
        BY NameAssumption
      <4> HIDE DEF g
      <4>3. QED
        BY <3>6, <4>1, <4>2
    <3>8. StartsWith(g.name, f)
      BY <2>1, <3>2, <3>7, PrefixesCompose DEF StartsWith
    <3>9. Named(w, g.name)
      BY <3>8, <3>3 DEF Named
    <3>10. QED
      BY <3>9, <2>3
  <2>6. QED
    BY <2>4, <2>5
<1>2. QED
  BY <1>1, Inductive, PTL
=============================================================================
