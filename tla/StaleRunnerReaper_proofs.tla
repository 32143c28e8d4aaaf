---------------------- MODULE StaleRunnerReaper_proofs ----------------------
(***************************************************************************)
(* Proofs about the reaper, for every set of sweeps, registrations and     *)
(* prefixes, every budget and floor, and every way a failed read answers.  *)
(***************************************************************************)
EXTENDS StaleRunnerReaper, FiniteSetTheorems, TLAPS

-----------------------------------------------------------------------------
(* Type correctness.                                                        *)

(* Runners and the provisioner keep the types of the organisation.          *)
LEMMA OrgStepTypes ==
    ASSUME OrgTypeOK, OrgStep
    PROVE  OrgTypeOK'
<1> USE OrgAssumption DEF OrgTypeOK
<1>1. CASE RunnerMoves
  <2>1. \E n \in Reg, to \in RegState :
            state' = [state EXCEPT ![n] = to] /\ UNCHANGED core
    BY <1>1 DEF RunnerMoves, Register, Connect, Disconnect, TakeJob, FinishJob,
                ExpireJob, Deregister, Becomes, RegState
  <2> QED
    BY <2>1
<1>2. CASE ProvisionerPoll
  BY <1>2 DEF ProvisionerPoll, Spend
<1>3. CASE WindowReset
  BY <1>3 DEF WindowReset
<1> QED
  BY <1>1, <1>2, <1>3 DEF OrgStep

(* Going on to a step keeps the types of the job.                           *)
LEMMA GoToTypes ==
    ASSUME JobTypeOK, NEW s \in Sweep, pc[s] # "done",
           NEW step \in Steps \ {"done"}, GoTo(s, step)
    PROVE  JobTypeOK'
BY DEF JobTypeOK, GoTo

(* Ending a sweep keeps the types of the job.                               *)
LEMMA EndTypes ==
    ASSUME JobTypeOK, NEW s \in Sweep,
           NEW how \in Outcomes \ {"none"}, End(s, how)
    PROVE  JobTypeOK'
BY DEF JobTypeOK, End, Steps

(* The core budget stays within its window.                                 *)
LEMMA SpendTypes ==
    ASSUME core \in 0..MaxCore, Spend
    PROVE  core' \in 0..MaxCore
BY OrgAssumption DEF Spend

(* Every step keeps the types.                                              *)
LEMMA TypeStep ==
    ASSUME TypeOK, [Next]_vars
    PROVE  TypeOK'
<1> USE OrgAssumption, ReaperAssumption DEF TypeOK, locals, history, watch, orgVars
<1>1. CASE EnvStep
  BY <1>1, OrgStepTypes DEF EnvStep, Watch, JobTypeOK
<1>2. ASSUME NEW s \in Sweep, Start(s)
      PROVE  TypeOK'
  <2>1. \/ \E how \in Outcomes \ {"none"} : End(s, how)
        \/ GoTo(s, "floor")
    BY <1>2, Zenon DEF Start, Outcomes
  <2>2. JobTypeOK'
    BY <1>2, <2>1, EndTypes, GoToTypes DEF Start, Steps
  <2> QED
    BY <1>2, <2>2 DEF Start, OrgTypeOK
<1>3. ASSUME NEW s \in Sweep, CheckFloor(s)
      PROVE  TypeOK'
  <2>1. End(s, "skipped") \/ GoTo(s, "list")
    BY <1>3, Zenon DEF CheckFloor
  <2>2. JobTypeOK'
    BY <1>3, <2>1, EndTypes, GoToTypes DEF CheckFloor, Steps, Outcomes
  <2> QED
    BY <1>3, <2>2 DEF CheckFloor, OrgTypeOK
<1>4. ASSUME NEW s \in Sweep, ListPage(s)
      PROVE  TypeOK'
  <2>1. JobTypeOK' /\ page' \in [Sweep -> Nat \ {0}]
    <3>1. CASE GoTo(s, "total") /\ UNCHANGED page
      BY <1>4, <3>1, GoToTypes DEF ListPage, Steps
    <3>2. CASE page' = [page EXCEPT ![s] = @ + 1] /\ UNCHANGED <<pc, outcome>>
      BY <1>4, <3>2 DEF JobTypeOK
    <3> QED
      BY <1>4, <3>1, <3>2 DEF ListPage
  <2>2. OrgTypeOK'
    BY <1>4, SpendTypes DEF ListPage, OrgTypeOK
  <2> QED
    BY <1>4, <2>1, <2>2 DEF ListPage, Selected, Page, Listed
<1>5. ASSUME NEW s \in Sweep, ListFails(s)
      PROVE  TypeOK'
  <2>1. JobTypeOK'
    BY <1>5, GoToTypes DEF ListFails, Steps
  <2>2. OrgTypeOK'
    BY <1>5, SpendTypes DEF ListFails, OrgTypeOK
  <2> QED
    BY <1>5, <2>1, <2>2 DEF ListFails
<1>6. ASSUME NEW s \in Sweep, ReadTotal(s)
      PROVE  TypeOK'
  <2>1. PICK answer \in Answers :
           /\ Read(answer)
           /\ total' = [total EXCEPT ![s] = answer]
           /\ \E mine \in SUBSET Reg :
                 /\ owned' = [owned EXCEPT ![s] = mine]
                 /\ todo' = [todo EXCEPT ![s] = mine]
           /\ IF AfterReads(s, answer) = "none"
              THEN GoTo(s, "loop") ELSE End(s, AfterReads(s, answer))
    BY <1>6 DEF ReadTotal
  <2>2. AfterReads(s, answer) \in Outcomes
    BY DEF AfterReads, Outcomes
  <2>3. JobTypeOK'
    BY <1>6, <2>1, <2>2, GoToTypes, EndTypes DEF ReadTotal, Steps
  <2>4. OrgTypeOK'
    BY <1>6, <2>1, SpendTypes DEF ReadTotal, Read, OrgTypeOK
  <2> QED
    BY <1>6, <2>1, <2>3, <2>4 DEF ReadTotal, Answers
<1>7. ASSUME NEW s \in Sweep, Recheck(s)
      PROVE  TypeOK'
  <2>1. GoTo(s, "after") \/ GoTo(s, "delete")
    BY <1>7 DEF Recheck
  <2>2. JobTypeOK'
    BY <1>7, <2>1, GoToTypes DEF Recheck, Steps
  <2> QED
    BY <1>7, <2>2 DEF Recheck, OrgTypeOK
<1>8. ASSUME NEW s \in Sweep, Delete(s)
      PROVE  TypeOK'
  <2>1. JobTypeOK'
    BY <1>8, GoToTypes DEF Delete, Steps
  <2>2. core' \in 0..MaxCore
    <3>1. Spend
      BY <1>8 DEF Delete
    <3> QED
      BY <3>1, SpendTypes DEF OrgTypeOK
  <2>3. D' \in [Sweep -> Nat] /\ wins' \in [Sweep -> Nat]
    BY <1>8 DEF Delete, Count
  <2>4. PICK n \in todo[s], rc \in {0, 1} :
           /\ NextLine(s, n, rc)
           /\ \/ /\ state' = [state EXCEPT ![n] = "gone"]
                 /\ reaped' = [reaped EXCEPT ![s] = @ \cup {n}]
              \/ UNCHANGED <<state, reaped>>
    BY <1>8 DEF Delete
  <2>5. n \in Reg
    BY <2>4
  <2>6. state' \in [Reg -> RegState]
    BY <2>4, <2>5 DEF OrgTypeOK, RegState
  <2>7. todo' \in [Sweep -> SUBSET Reg]
    BY <2>4 DEF NextLine
  <2>8. reaped' \in [Sweep -> SUBSET Reg]
    BY <2>4, <2>5
  <2>9. steady' \in [Sweep -> SUBSET Reg] /\ shifted' \in [Sweep -> BOOLEAN]
    BY <1>8 DEF Delete, Watch
  <2>10. /\ attempts' \in [Sweep -> Nat]
         /\ UNCHANGED <<input, page, offline, listRc, total, owned, atFloor>>
    BY <1>8 DEF Delete
  <2> QED
    BY <2>1, <2>2, <2>3, <2>6, <2>7, <2>8, <2>9, <2>10 DEF OrgTypeOK
<1>9. ASSUME NEW s \in Sweep, Summarise(s)
      PROVE  TypeOK'
  <2>1. PICK answer \in Answers : Read(answer) /\ End(s, FinalWord(s, answer))
    BY <1>9 DEF Summarise
  <2>2. JobTypeOK'
    BY <2>1, EndTypes DEF FinalWord, Outcomes
  <2>3. OrgTypeOK'
    BY <1>9, <2>1, SpendTypes DEF Summarise, Read, OrgTypeOK
  <2> QED
    BY <1>9, <2>2, <2>3 DEF Summarise
<1>10. ASSUME NEW s \in Sweep, Cancel(s)
       PROVE  TypeOK'
  <2>1. JobTypeOK'
    BY <1>10, EndTypes DEF Cancel, Outcomes
  <2> QED
    BY <1>10, <2>1 DEF Cancel, OrgTypeOK
<1>11. ASSUME NEW s \in Sweep, Schedule(s)
       PROVE  TypeOK'
  <2>1. JobTypeOK'
    BY <1>11 DEF Schedule, JobTypeOK, Steps, Outcomes
  <2> QED
    BY <1>11, <2>1 DEF Schedule, FreshJob, OrgTypeOK
<1>12. CASE UNCHANGED vars
  BY <1>12 DEF vars, OrgTypeOK, JobTypeOK
<1> QED
  BY <1>1, <1>2, <1>3, <1>4, <1>5, <1>6, <1>7, <1>8, <1>9, <1>10, <1>11, <1>12
  DEF Next, JobStep

(* Every variable of the reaper keeps its type, and a job has an outcome    *)
(* exactly when it has ended.                                               *)
THEOREM TypeCorrect == Spec => []TypeOK
<1>1. Init => TypeOK
  BY OrgAssumption, ReaperAssumption
  DEF Init, OrgInit, TypeOK, OrgTypeOK, JobTypeOK, RegState, Steps, Outcomes
<1>2. TypeOK /\ [Next]_vars => TypeOK'
  BY TypeStep
<1> QED
  BY <1>1, <1>2, PTL DEF Spec

-----------------------------------------------------------------------------
(* Ownership.  OnlyOwnedReaped is not inductive: it says nothing of the     *)
(* lines still in the loop, nor of the steps before owned.tsv is written,   *)
(* when offline.tsv still grows.                                            *)

OwnedInv ==
    \A s \in Sweep :
        /\ \A n \in owned[s] : n \in offline[s] /\ Matches(s, n)
        /\ todo[s] \subseteq owned[s]
        /\ reaped[s] \subseteq owned[s] \ todo[s]
        /\ pc[s] \in {"idle", "floor", "list", "total"} => owned[s] = {}
        /\ pc[s] \in {"loop", "delete", "after"} => ~input[s].dryRun
        /\ reaped[s] # {} => ~input[s].dryRun

(* What a sweep is about to delete, or deleted, is what it selected.        *)
LEMMA OwnedStep ==
    ASSUME TypeOK, OwnedInv, [Next]_vars
    PROVE  OwnedInv'
<1> USE DEF TypeOK, JobTypeOK, OwnedInv, Matches, locals, history, GoTo, End
<1>1. CASE EnvStep
  BY <1>1 DEF EnvStep
<1>2. ASSUME NEW s \in Sweep, Start(s)
      PROVE  OwnedInv'
  <2>1. (\E how \in Outcomes : End(s, how)) \/ GoTo(s, "floor")
    BY <1>2, Zenon DEF Start, Outcomes
  <2>2. pc[s] = "idle" /\ UNCHANGED <<input, offline, owned, todo, reaped>>
    BY <1>2 DEF Start
  <2>3. \E step \in {"done", "floor"} : pc' = [pc EXCEPT ![s] = step]
    BY <2>1
  <2> QED
    BY <2>2, <2>3
<1>3. ASSUME NEW s \in Sweep, CheckFloor(s)
      PROVE  OwnedInv'
  BY <1>3 DEF CheckFloor
<1>4. ASSUME NEW s \in Sweep, ListPage(s)
      PROVE  OwnedInv'
  BY <1>4 DEF ListPage
<1>5. ASSUME NEW s \in Sweep, ListFails(s)
      PROVE  OwnedInv'
  BY <1>5 DEF ListFails
<1>6. ASSUME NEW s \in Sweep, ReadTotal(s)
      PROVE  OwnedInv'
  <2>1. PICK answer \in Answers, mine \in SUBSET {n \in offline[s] : Matches(s, n)} :
           /\ owned' = [owned EXCEPT ![s] = mine]
           /\ todo' = [todo EXCEPT ![s] = mine]
           /\ \/ AfterReads(s, answer) = "none" /\ GoTo(s, "loop")
              \/ \E how \in Outcomes : End(s, how)
    <3>1. PICK answer \in Answers :
             LET ending == AfterReads(s, answer)
                 mine == IF ending \in {"listing_unreadable", "total_unreadable"}
                         THEN {} ELSE {n \in offline[s] : Matches(s, n)}
             IN  /\ owned' = [owned EXCEPT ![s] = mine]
                 /\ todo' = [todo EXCEPT ![s] = mine]
                 /\ IF ending = "none" THEN GoTo(s, "loop") ELSE End(s, ending)
      BY <1>6 DEF ReadTotal
    <3>2. AfterReads(s, answer) \in Outcomes
      BY DEF AfterReads, Outcomes
    <3> QED
      BY <3>1, <3>2
  <2>2. AfterReads(s, answer) = "none" => ~input[s].dryRun
    BY DEF AfterReads
  <2>3. owned[s] = {} /\ reaped[s] = {}
    BY <1>6 DEF ReadTotal
  <2>4. UNCHANGED <<input, offline, reaped>>
    BY <1>6 DEF ReadTotal
  <2> QED
    BY <2>1, <2>2, <2>3, <2>4
<1>7. ASSUME NEW s \in Sweep, Recheck(s)
      PROVE  OwnedInv'
  BY <1>7 DEF Recheck
<1>8. ASSUME NEW s \in Sweep, Delete(s)
      PROVE  OwnedInv'
  <2>1. PICK n \in todo[s] :
           /\ todo' = [todo EXCEPT ![s] = @ \ {n}]
           /\ \/ reaped' = [reaped EXCEPT ![s] = @ \cup {n}]
              \/ UNCHANGED reaped
    BY <1>8 DEF Delete, NextLine
  <2>2. /\ pc[s] \in {"loop", "delete"}
        /\ pc' = [pc EXCEPT ![s] = "loop"]
        /\ UNCHANGED <<input, offline, owned>>
    BY <1>8 DEF Delete
  <2> QED
    BY <2>1, <2>2
<1>9. ASSUME NEW s \in Sweep, Summarise(s)
      PROVE  OwnedInv'
  BY <1>9 DEF Summarise
<1>10. ASSUME NEW s \in Sweep, Cancel(s)
       PROVE  OwnedInv'
  BY <1>10 DEF Cancel
<1>11. ASSUME NEW s \in Sweep, Schedule(s)
       PROVE  OwnedInv'
  BY <1>11 DEF Schedule, FreshJob
<1>12. CASE UNCHANGED vars
  BY <1>12 DEF vars
<1> QED
  BY <1>1, <1>2, <1>3, <1>4, <1>5, <1>6, <1>7, <1>8, <1>9, <1>10, <1>11, <1>12
  DEF Next, JobStep

(* Selection is by the prefix throughout.                                   *)
LEMMA OwnedAlways == Spec => []OwnedInv
<1>1. Init => OwnedInv
  BY DEF Init, OwnedInv
<1>2. TypeOK /\ OwnedInv /\ [Next]_vars => OwnedInv'
  BY OwnedStep
<1> QED
  BY <1>1, <1>2, TypeCorrect, PTL DEF Spec

(* A sweep removes only what its own listing showed offline and idle, under *)
(* a non-blank prefix of its caller, and nothing at all in a dry run.       *)
THEOREM ReapsOnlyOwned == Spec => []OnlyOwnedReaped
<1>1. TypeOK /\ OwnedInv => OnlyOwnedReaped
  <2> SUFFICES ASSUME TypeOK, OwnedInv, NEW s \in Sweep, NEW n \in reaped[s]
               PROVE  /\ n \in offline[s]
                      /\ NameUnder[n] \cap (input[s].prefixes \ {Blank}) # {}
                      /\ ~input[s].dryRun
    BY DEF OnlyOwnedReaped
  <2>1. n \in offline[s] /\ Matches(s, n) /\ ~input[s].dryRun
    BY DEF OwnedInv
  <2>2. n \in Reg
    BY DEF TypeOK
  <2>3. NameUnder[n] \subseteq Prefix
    BY <2>2, ReaperAssumption
  <2> QED
    BY <2>1, <2>3, ReaperAssumption DEF Matches
<1> QED
  BY <1>1, TypeCorrect, OwnedAlways, PTL
-----------------------------------------------------------------------------
(* Corroboration.  owned.tsv is written in the step that passes both        *)
(* guards, and nothing touches LIST_RC or TOTAL from there on; before it,   *)
(* owned.tsv is empty.                                                      *)

CorroboratedInv ==
    \A s \in Sweep :
        owned[s] # {} => ~listRc[s] /\ total[s] \in Answers \ {"silent"}

(* Nothing is selected by a sweep whose listing failed or that read no total.*)
LEMMA CorroboratedStep ==
    ASSUME TypeOK, OwnedInv, CorroboratedInv, [Next]_vars
    PROVE  CorroboratedInv'
<1> USE DEF TypeOK, CorroboratedInv, locals, history
<1>1. CASE UNCHANGED <<owned, listRc, total>>
  BY <1>1
<1>2. ASSUME NEW s \in Sweep, ListFails(s)
      PROVE  CorroboratedInv'
  <2>1. owned[s] = {}
    BY <1>2 DEF ListFails, OwnedInv
  <2> QED
    BY <1>2, <2>1 DEF ListFails
<1>3. ASSUME NEW s \in Sweep, ReadTotal(s)
      PROVE  CorroboratedInv'
  <2>1. PICK answer \in Answers :
           /\ total' = [total EXCEPT ![s] = answer]
           /\ \/ owned' = [owned EXCEPT ![s] = {}]
              \/ /\ AfterReads(s, answer) \notin {"listing_unreadable", "total_unreadable"}
                 /\ \E mine : owned' = [owned EXCEPT ![s] = mine]
    BY <1>3 DEF ReadTotal
  <2>2. AfterReads(s, answer) \notin {"listing_unreadable", "total_unreadable"}
           => ~listRc[s] /\ answer # "silent"
    BY DEF AfterReads
  <2>3. UNCHANGED listRc
    BY <1>3 DEF ReadTotal
  <2> QED
    BY <2>1, <2>2, <2>3
<1>4. ASSUME NEW s \in Sweep, Schedule(s)
      PROVE  CorroboratedInv'
  BY <1>4 DEF Schedule, FreshJob
<1> QED
  BY <1>1, <1>2, <1>3, <1>4
  DEF Next, JobStep, EnvStep, Start, CheckFloor, ListPage, Recheck, Delete,
      Summarise, Cancel, vars

(* When a failed read leaves nothing on stdout, nothing is taken for        *)
(* reapable by a sweep that has not read both the listing and the org total.*)
THEOREM NothingUncorroborated == Spec => []Corroborated
<1>1. Init => CorroboratedInv
  BY DEF Init, CorroboratedInv
<1>2. TypeOK /\ OwnedInv /\ CorroboratedInv /\ [Next]_vars => CorroboratedInv'
  BY CorroboratedStep
<1>3. CorroboratedInv => Corroborated
  BY OrgAssumption DEF CorroboratedInv, Corroborated, Answers
<1> QED
  BY <1>1, <1>2, <1>3, TypeCorrect, OwnedAlways, PTL DEF Spec

(* Every step leaves a finished sweep that removed something its summary.   *)
LEMMA SummaryStep ==
    ASSUME TypeOK, OwnedInv, CorroboratedInv, SummaryFollows, [Next]_vars
    PROVE  SummaryFollows'
<1> SUFFICES ASSUME "text" \notin FailedRead, NEW s \in Sweep,
                    pc'[s] = "done", reaped'[s] # {}
             PROVE  outcome'[s] \in {"summary", "summary_unmeasured", "cancelled"}
  BY DEF SummaryFollows
<1> USE DEF TypeOK, JobTypeOK, locals, history
<1>1. CASE pc'[s] = pc[s] /\ outcome'[s] = outcome[s] /\ reaped'[s] = reaped[s]
  BY <1>1 DEF SummaryFollows
<1>2. CASE Start(s) \/ CheckFloor(s) \/ ReadTotal(s)
  <2>1. reaped[s] = {} /\ UNCHANGED reaped
    BY <1>2 DEF Start, CheckFloor, ReadTotal, OwnedInv
  <2> QED
    BY <2>1
<1>3. CASE ListPage(s) \/ ListFails(s) \/ Recheck(s) \/ Delete(s) \/ Schedule(s)
  BY <1>3 DEF ListPage, ListFails, Recheck, Delete, Schedule, GoTo
<1>4. CASE Summarise(s)
  <2>1. PICK answer \in Answers : End(s, FinalWord(s, answer))
    BY <1>4 DEF Summarise
  <2>2. owned[s] # {}
    BY <1>4 DEF Summarise, OwnedInv
  <2>3. total[s] # "text" /\ answer # "text"
    BY <2>2, OrgAssumption DEF CorroboratedInv, Answers
  <2>4. FinalWord(s, answer) \in {"summary", "summary_unmeasured"}
    BY <2>3 DEF FinalWord
  <2> QED
    BY <2>1, <2>4 DEF End
<1>5. CASE Cancel(s)
  BY <1>5 DEF Cancel, End
<1>6. CASE EnvStep \/ UNCHANGED vars
  BY <1>6, <1>1 DEF EnvStep, vars
<1>7. ASSUME NEW t \in Sweep \ {s}, JobStep(t) \/ Cancel(t) \/ Schedule(t)
      PROVE  pc'[s] = pc[s] /\ outcome'[s] = outcome[s] /\ reaped'[s] = reaped[s]
  <2>1. CASE Start(t)
    <3>1. (\E how : End(t, how)) \/ GoTo(t, "floor")
      BY <2>1, Zenon DEF Start
    <3>2. UNCHANGED reaped
      BY <2>1 DEF Start
    <3> QED
      BY <3>1, <3>2 DEF End, GoTo
  <2>2. CASE CheckFloor(t) \/ ListPage(t) \/ ListFails(t) \/ ReadTotal(t)
    BY <2>2 DEF CheckFloor, ListPage, ListFails, ReadTotal, GoTo, End
  <2>3. CASE Recheck(t) \/ Delete(t) \/ Summarise(t) \/ Cancel(t)
    BY <2>3 DEF Recheck, Delete, Summarise, Cancel, GoTo, End
  <2>4. CASE Schedule(t)
    BY <2>4 DEF Schedule, FreshJob
  <2> QED
    BY <1>7, <2>1, <2>2, <2>3, <2>4 DEF JobStep
<1> QED
  BY <1>1, <1>2, <1>3, <1>4, <1>5, <1>6, <1>7 DEF Next, JobStep

(* A sweep that removed something and was not cancelled ends with a         *)
(* summary, when a failed read leaves nothing on stdout.                    *)
THEOREM SummaryAfterDeletions == Spec => []SummaryFollows
<1>1. Init => CorroboratedInv /\ SummaryFollows
  BY DEF Init, CorroboratedInv, SummaryFollows
<1>2. TypeOK /\ OwnedInv /\ CorroboratedInv /\ SummaryFollows /\ [Next]_vars
        => CorroboratedInv' /\ SummaryFollows'
  BY CorroboratedStep, SummaryStep
<1> QED
  BY <1>1, <1>2, TypeCorrect, OwnedAlways, PTL DEF Spec

(* Neither a silent listing nor a silent end is an answer.                  *)
THEOREM SilenceIsHeard == Spec => []SilenceIsNoAnswer
<1>1. Corroborated /\ SummaryFollows => SilenceIsNoAnswer
  BY DEF SilenceIsNoAnswer
<1> QED
  BY <1>1, NothingUncorroborated, SummaryAfterDeletions, PTL

-----------------------------------------------------------------------------
(* The budget.                                                              *)

(* A multiple of k leaves nothing modulo k ...                              *)
LEMMA MultiplesLeaveNothing ==
    ASSUME NEW q \in Nat, NEW k \in Nat \ {0}
    PROVE  (q * k) % k = 0
  OBVIOUS

(* ... and what leaves nothing is a multiple.                               *)
LEMMA NothingLeftIsMultiple ==
    ASSUME NEW d \in Nat, NEW k \in Nat \ {0}, d % k = 0
    PROVE  \E q \in Nat : d = q * k
  OBVIOUS

(* The bound on the counted deletions needs to know where in its cycle of   *)
(* RecheckEvery the loop is: D is a multiple of it plus what has been       *)
(* counted since the last look, and the steps between a look and its first  *)
(* DELETE have counted nothing.                                             *)
InCycle(d, w) == \E q \in Nat : d = q * RecheckEvery + w

(* A look at the budget begins a cycle.                                     *)
LEMMA CycleBegins ==
    ASSUME NEW d \in Nat, d % RecheckEvery = 0
    PROVE  InCycle(d, 0)
<1>1. PICK q \in Nat : d = q * RecheckEvery
  BY ReaperAssumption, NothingLeftIsMultiple
<1>2. d = q * RecheckEvery + 0
  BY <1>1, ReaperAssumption
<1> QED
  BY <1>2 DEF InCycle

(* A counted deletion is the next of its cycle.                             *)
LEMMA CycleGoesOn ==
    ASSUME NEW d \in Nat, NEW w \in Nat, InCycle(d, w)
    PROVE  InCycle(d + 1, w + 1)
<1>1. PICK q \in Nat : d = q * RecheckEvery + w
  BY DEF InCycle
<1>2. d + 1 = q * RecheckEvery + (w + 1)
  BY <1>1, ReaperAssumption
<1> QED
  BY <1>2 DEF InCycle

(* A full cycle ends where the loop looks again.                            *)
LEMMA CycleEnds ==
    ASSUME NEW d \in Nat, InCycle(d, RecheckEvery)
    PROVE  d % RecheckEvery = 0
<1>1. PICK q \in Nat : d = q * RecheckEvery + RecheckEvery
  BY DEF InCycle
<1>2. d = (q + 1) * RecheckEvery /\ q + 1 \in Nat
  BY <1>1, ReaperAssumption
<1>3. ((q + 1) * RecheckEvery) % RecheckEvery = 0
  BY <1>2, ReaperAssumption, MultiplesLeaveNothing
<1> QED
  BY <1>2, <1>3

BudgetInv ==
    \A s \in Sweep :
        /\ InCycle(D[s], wins[s])
        /\ wins[s] <= RecheckEvery
        /\ pc[s] = "delete" => wins[s] = 0

(* Every step keeps the loop within its cycle.                              *)
LEMMA BudgetStep ==
    ASSUME TypeOK, BudgetInv, [Next]_vars
    PROVE  BudgetInv'
<1> USE ReaperAssumption DEF TypeOK, JobTypeOK, BudgetInv, locals, history, GoTo, End
<1>1. CASE UNCHANGED <<D, wins>> /\ \A s \in Sweep : pc'[s] = "delete" => pc[s] = "delete"
  BY <1>1 DEF InCycle
<1>2. ASSUME NEW s \in Sweep, Start(s)
      PROVE  UNCHANGED <<D, wins>> /\ \A t \in Sweep : pc'[t] = "delete" => pc[t] = "delete"
  <2>1. (\E how : End(s, how)) \/ GoTo(s, "floor")
    BY <1>2, Zenon DEF Start
  <2>2. UNCHANGED <<D, wins>>
    BY <1>2 DEF Start
  <2> QED
    BY <2>1, <2>2
<1>3. ASSUME NEW s \in Sweep,
             \/ CheckFloor(s) \/ ListPage(s) \/ ListFails(s) \/ ReadTotal(s)
             \/ Summarise(s) \/ Cancel(s)
      PROVE  UNCHANGED <<D, wins>> /\ \A t \in Sweep : pc'[t] = "delete" => pc[t] = "delete"
  BY <1>3 DEF CheckFloor, ListPage, ListFails, ReadTotal, Summarise, Cancel
<1>4. ASSUME NEW s \in Sweep, Recheck(s)
      PROVE  BudgetInv'
  <2>1. InCycle(D[s], 0)
    BY <1>4, CycleBegins DEF Recheck, RecheckDue
  <2>2. D' = D /\ wins' = [wins EXCEPT ![s] = 0]
    BY <1>4 DEF Recheck
  <2>3. \A t \in Sweep \ {s} : pc'[t] = pc[t]
    BY <1>4 DEF Recheck
  <2>4. \A t \in Sweep : InCycle(D'[t], wins'[t])
    BY <2>1, <2>2
  <2>5. \A t \in Sweep : wins'[t] <= RecheckEvery /\ (pc'[t] = "delete" => wins'[t] = 0)
    BY <2>2, <2>3
  <2> QED
    BY <2>4, <2>5 DEF InCycle
<1>5. ASSUME NEW s \in Sweep, Delete(s)
      PROVE  BudgetInv'
  <2>1. wins[s] # RecheckEvery
    <3>1. CASE ~RecheckDue(s)
      BY <3>1, CycleEnds DEF RecheckDue
    <3> QED
      BY <1>5, <3>1 DEF Delete
  <2>2. \/ UNCHANGED <<D, wins>>
        \/ /\ D' = [D EXCEPT ![s] = @ + 1]
           /\ wins' = [wins EXCEPT ![s] = @ + 1]
    BY <1>5 DEF Delete, Count
  <2>3. pc' = [pc EXCEPT ![s] = "loop"]
    BY <1>5 DEF Delete
  <2>4. \A t \in Sweep : InCycle(D'[t], wins'[t])
    <3>1. InCycle(D[s], wins[s]) /\ D[s] \in Nat /\ wins[s] \in Nat
      OBVIOUS
    <3>2. InCycle(D[s] + 1, wins[s] + 1)
      BY <3>1, CycleGoesOn
    <3> QED
      BY <2>2, <3>1, <3>2
  <2>5. \A t \in Sweep : wins'[t] <= RecheckEvery /\ (pc'[t] = "delete" => wins'[t] = 0)
    BY <2>1, <2>2, <2>3
  <2> QED
    BY <2>4, <2>5 DEF InCycle
<1>6. ASSUME NEW s \in Sweep, Schedule(s)
      PROVE  BudgetInv'
  <2>1. /\ D' = [D EXCEPT ![s] = 0]
        /\ wins' = [wins EXCEPT ![s] = 0]
        /\ pc' = [pc EXCEPT ![s] = "idle"]
    BY <1>6 DEF Schedule, FreshJob
  <2>2. InCycle(0, 0)
    <3>1. 0 % RecheckEvery = 0
      <4>1. 0 * RecheckEvery = 0
        BY ReaperAssumption
      <4> QED
        BY <4>1, ReaperAssumption, MultiplesLeaveNothing
    <3> QED
      BY <3>1, CycleBegins
  <2>3. \A t \in Sweep : InCycle(D'[t], wins'[t])
    BY <2>1, <2>2
  <2>4. \A t \in Sweep : wins'[t] <= RecheckEvery /\ (pc'[t] = "delete" => wins'[t] = 0)
    BY <2>1
  <2> QED
    BY <2>3, <2>4 DEF InCycle
<1>7. CASE EnvStep \/ UNCHANGED vars
  BY <1>1, <1>7 DEF EnvStep, vars
<1> QED
  BY <1>1, <1>2, <1>3, <1>4, <1>5, <1>6, <1>7 DEF Next, JobStep

(* The loop never counts more than RecheckEvery deletions between two looks *)
(* at the budget.                                                           *)
THEOREM BudgetLookedAt == Spec => []RecheckedOften
<1>1. Init => BudgetInv
  <2>1. InCycle(0, 0)
    BY CycleBegins, ReaperAssumption
  <2> QED
    BY <2>1, ReaperAssumption DEF Init, BudgetInv
<1>2. TypeOK /\ BudgetInv /\ [Next]_vars => BudgetInv'
  BY BudgetStep
<1>3. BudgetInv => RecheckedOften
  BY DEF BudgetInv, RecheckedOften
<1> QED
  BY <1>1, <1>2, <1>3, TypeCorrect, PTL DEF Spec

(* Stopping at the floor.  A DELETE follows either a look that found the    *)
(* budget above the floor or another DELETE that does; a loop with no       *)
(* DELETE behind it has counted none, so a look is due.                     *)
FloorInv ==
    "text" \notin FailedRead =>
        \A s \in Sweep :
            /\ attempts[s] > 0 \/ pc[s] = "delete" => ~atFloor[s]
            /\ attempts[s] = 0 => D[s] = 0 \/ pc[s] \in {"delete", "after", "done"}

(* Every step keeps the floor, unless the answer's text is taken for a      *)
(* number.                                                                  *)
LEMMA FloorStep ==
    ASSUME TypeOK, FloorInv, [Next]_vars
    PROVE  FloorInv'
<1> SUFFICES ASSUME "text" \notin FailedRead
             PROVE  FloorInv'
  BY DEF FloorInv
<1> USE OrgAssumption, ReaperAssumption
    DEF TypeOK, JobTypeOK, FloorInv, locals, history, GoTo, End
<1>1. CASE EnvStep \/ UNCHANGED vars
  BY <1>1 DEF EnvStep, vars
<1>2. ASSUME NEW s \in Sweep, Start(s)
      PROVE  FloorInv'
  <2>1. (\E how : End(s, how)) \/ GoTo(s, "floor")
    BY <1>2, Zenon DEF Start
  <2>2. pc[s] = "idle" /\ UNCHANGED <<D, attempts, atFloor>>
    BY <1>2 DEF Start
  <2> QED
    BY <2>1, <2>2
<1>3. ASSUME NEW s \in Sweep,
             \/ CheckFloor(s) \/ ListPage(s) \/ ListFails(s) \/ ReadTotal(s)
             \/ Summarise(s) \/ Cancel(s)
      PROVE  FloorInv'
  BY <1>3 DEF CheckFloor, ListPage, ListFails, ReadTotal, Summarise, Cancel
<1>4. ASSUME NEW s \in Sweep, Recheck(s)
      PROVE  FloorInv'
  <2>1. PICK answer \in Answers :
           GoTo(s, IF ReadsAtFloor(answer) THEN "after" ELSE "delete")
    BY <1>4 DEF Recheck
  <2>2. answer # "text"
    BY DEF Answers
  <2>3. pc'[s] = "delete" => ~(core <= ApiFloor)
    BY <2>1, <2>2 DEF ReadsAtFloor, Answers
  <2>4. /\ attempts' = [attempts EXCEPT ![s] = 0]
        /\ atFloor' = [atFloor EXCEPT ![s] = core <= ApiFloor]
        /\ D' = D
    BY <1>4 DEF Recheck
  <2>5. attempts'[s] = 0 /\ ~(attempts'[s] > 0) /\ (~(core <= ApiFloor) => ~atFloor'[s])
    <3>1. attempts'[s] = 0 /\ ~(attempts'[s] > 0)
      BY <2>4
    <3>2. atFloor'[s] = (core <= ApiFloor)
      BY <2>4, Zenon
    <3> QED
      BY <3>1, <3>2, Zenon
  <2>6. pc'[s] \in {"delete", "after"}
    BY <2>1
  <2>7. \A t \in Sweep \ {s} :
           /\ atFloor'[t] = atFloor[t]
           /\ attempts'[t] = attempts[t]
           /\ pc'[t] = pc[t]
    BY <2>1, <2>4, Zenon
  <2>8. /\ attempts'[s] > 0 \/ pc'[s] = "delete" => ~atFloor'[s]
        /\ attempts'[s] = 0 => D'[s] = 0 \/ pc'[s] \in {"delete", "after", "done"}
    BY <2>3, <2>5, <2>6, Zenon
  <2>9. \A t \in Sweep \ {s} :
           /\ attempts'[t] > 0 \/ pc'[t] = "delete" => ~atFloor'[t]
           /\ attempts'[t] = 0 => D'[t] = 0 \/ pc'[t] \in {"delete", "after", "done"}
    BY <2>4, <2>7
  <2> QED
    BY <2>8, <2>9
<1>5. ASSUME NEW s \in Sweep, Delete(s)
      PROVE  FloorInv'
  <2>1. ~atFloor[s]
    <3>1. CASE pc[s] = "loop" /\ ~RecheckDue(s)
      <4>1. D[s] # 0
        BY <3>1, MultiplesLeaveNothing DEF RecheckDue
      <4> QED
        BY <3>1, <4>1
    <3> QED
      BY <1>5, <3>1 DEF Delete
  <2>2. /\ attempts' = [attempts EXCEPT ![s] = @ + 1]
        /\ UNCHANGED atFloor
        /\ pc' = [pc EXCEPT ![s] = "loop"]
    BY <1>5 DEF Delete
  <2>3. \A t \in Sweep \ {s} : D'[t] = D[t]
    BY <1>5 DEF Delete, Count
  <2> QED
    BY <2>1, <2>2, <2>3
<1>6. ASSUME NEW s \in Sweep, Schedule(s)
      PROVE  FloorInv'
  BY <1>6 DEF Schedule, FreshJob
<1> QED
  BY <1>1, <1>2, <1>3, <1>4, <1>5, <1>6 DEF Next, JobStep

(* When a failed read leaves nothing on stdout, no DELETE follows a look at *)
(* a budget that was at or below the floor.                                 *)
THEOREM FloorRespected == Spec => []StopsAtFloor
<1>1. Init => FloorInv
  BY DEF Init, FloorInv
<1>2. TypeOK /\ FloorInv /\ [Next]_vars => FloorInv'
  BY FloorStep
<1>3. FloorInv => StopsAtFloor
  BY DEF FloorInv, StopsAtFloor
<1> QED
  BY <1>1, <1>2, <1>3, TypeCorrect, PTL DEF Spec

-----------------------------------------------------------------------------
(* Honest counts.  A registration that was removed stays removed, so no two *)
(* sweeps, and no two steps of one, can both have removed it; and a DELETE  *)
(* that is counted has removed one.                                         *)

CountInv ==
    \A s \in Sweep :
        /\ \A n \in reaped[s] : state[n] = "gone"
        /\ D[s] <= Cardinality(reaped[s])
        /\ \A t \in Sweep \ {s} : reaped[s] \cap reaped[t] = {}

(* A sweep deletes finitely many registrations.                             *)
LEMMA ReapedFinite ==
    ASSUME TypeOK, NEW s \in Sweep
    PROVE  IsFiniteSet(reaped[s]) /\ Cardinality(reaped[s]) \in Nat
<1>1. reaped[s] \in SUBSET Reg
  BY DEF TypeOK
<1> QED
  BY <1>1, OrgAssumption, FS_Subset, FS_CardinalityType

(* A registration that is gone is not registered again.                     *)
LEMMA GoneStays ==
    ASSUME TypeOK, OrgStep, NEW n \in Reg, state[n] = "gone"
    PROVE  state'[n] = "gone"
BY DEF OrgStep, RunnerMoves, ProvisionerPoll, WindowReset, Register, Connect,
       Disconnect, TakeJob, FinishJob, ExpireJob, Deregister, Becomes, TypeOK,
       OrgTypeOK

(* Every step keeps the count within what was deleted, once per name.       *)
LEMMA CountStep ==
    ASSUME TypeOK, CountInv, [Next]_vars
    PROVE  CountInv'
<1> USE DEF TypeOK, CountInv, locals, history, orgVars
<1>1. CASE UNCHANGED <<state, reaped, D>>
  BY <1>1
<1>2. CASE EnvStep
  <2>1. UNCHANGED <<reaped, D>>
    BY <1>2 DEF EnvStep
  <2>2. \A s \in Sweep : \A n \in reaped[s] : state'[n] = "gone"
    BY <1>2, GoneStays DEF EnvStep
  <2> QED
    BY <2>1, <2>2
<1>3. ASSUME NEW s \in Sweep, Delete(s)
      PROVE  CountInv'
  <2>1. CASE UNCHANGED <<state, reaped>> /\ UNCHANGED D
    BY <2>1
  <2>2. ASSUME NEW n \in todo[s], n \in Listed,
               state' = [state EXCEPT ![n] = "gone"],
               reaped' = [reaped EXCEPT ![s] = @ \cup {n}],
               D' = D \/ D' = [D EXCEPT ![s] = @ + 1]
        PROVE  CountInv'
    <3>1. n \in Reg /\ state[n] # "gone"
      BY <2>2 DEF Listed
    <3>2. \A t \in Sweep : n \notin reaped[t]
      BY <3>1
    <3>3. \A t \in Sweep : \A m \in reaped'[t] : state'[m] = "gone"
      BY <2>2, <3>1 DEF OrgTypeOK
    <3>4. Cardinality(reaped'[s]) = Cardinality(reaped[s]) + 1
      <4>1. reaped'[s] = reaped[s] \cup {n}
        BY <2>2
      <4> QED
        BY <4>1, <3>2, ReapedFinite, FS_AddElement, ZenonT(60)
    <3>5. \A t \in Sweep : D'[t] <= Cardinality(reaped'[t])
      BY <2>2, <3>4, ReapedFinite
    <3>6. \A t \in Sweep : \A u \in Sweep \ {t} : reaped'[t] \cap reaped'[u] = {}
      BY <2>2, <3>2
    <3> QED
      BY <3>3, <3>5, <3>6
  <2>3. PICK n \in todo[s], rc \in {0, 1} :
           /\ Count(s, rc)
           /\ \/ /\ n \in Listed
                 /\ state' = [state EXCEPT ![n] = "gone"]
                 /\ reaped' = [reaped EXCEPT ![s] = @ \cup {n}]
              \/ rc = 1 /\ UNCHANGED <<state, reaped>>
    BY <1>3 DEF Delete
  <2>4. CASE rc = 1 /\ UNCHANGED <<state, reaped>>
    BY <2>1, <2>3, <2>4 DEF Count
  <2>5. D' = D \/ D' = [D EXCEPT ![s] = @ + 1]
    BY <2>3 DEF Count
  <2> QED
    BY <2>2, <2>3, <2>4, <2>5
<1>4. ASSUME NEW s \in Sweep, Schedule(s)
      PROVE  CountInv'
  <2>1. /\ UNCHANGED state
        /\ reaped' = [reaped EXCEPT ![s] = {}]
        /\ D' = [D EXCEPT ![s] = 0]
    BY <1>4 DEF Schedule, FreshJob
  <2>2. \A t \in Sweep : D'[t] <= Cardinality(reaped'[t])
    BY <2>1, FS_EmptySet
  <2> QED
    BY <2>1, <2>2
<1> QED
  BY <1>1, <1>2, <1>3, <1>4
  DEF Next, JobStep, Start, CheckFloor, ListPage, ListFails, ReadTotal, Recheck,
      Summarise, Cancel, vars

(* The counts the sweeps report add up to at most what they removed.        *)
THEOREM CountsAreHonest == Spec => []HonestCount
<1>1. Init => CountInv
  BY FS_EmptySet DEF Init, CountInv
<1>2. TypeOK /\ CountInv /\ [Next]_vars => CountInv'
  BY CountStep
<1>3. TypeOK /\ OwnedInv /\ CountInv => HonestCount
  <2> SUFFICES ASSUME TypeOK, OwnedInv, CountInv, NEW s \in Sweep, NEW t \in Sweep, s # t
               PROVE  D[s] + D[t] <= Cardinality(reaped[s] \cup reaped[t])
    BY DEF HonestCount, OwnedInv, CountInv
  <2>1. Cardinality(reaped[s] \cup reaped[t])
           = Cardinality(reaped[s]) + Cardinality(reaped[t])
    <3>1. reaped[s] \cap reaped[t] = {}
      BY DEF CountInv
    <3>2. Cardinality(reaped[s] \cap reaped[t]) = 0
      BY <3>1, FS_EmptySet
    <3> QED
      <4>1. /\ IsFiniteSet(reaped[s]) /\ Cardinality(reaped[s]) \in Nat
            /\ IsFiniteSet(reaped[t]) /\ Cardinality(reaped[t]) \in Nat
        BY ReapedFinite
      <4>2. Cardinality(reaped[s] \cup reaped[t])
              = Cardinality(reaped[s]) + Cardinality(reaped[t])
                  - Cardinality(reaped[s] \cap reaped[t])
        BY <4>1, FS_Union
      <4> QED
        BY <3>2, <4>1, <4>2
  <2>2. D[s] <= Cardinality(reaped[s]) /\ D[t] <= Cardinality(reaped[t])
    BY DEF CountInv
  <2>3. D[s] \in Nat /\ D[t] \in Nat
    BY DEF TypeOK
  <2> QED
    BY <2>1, <2>2, <2>3, ReapedFinite
<1> QED
  BY <1>1, <1>2, <1>3, TypeCorrect, OwnedAlways, PTL DEF Spec

-----------------------------------------------------------------------------
(* The listing is read to its end.  ListingComplete says nothing of a       *)
(* listing in progress: there, what the pages behind it held is in          *)
(* offline.tsv, and a registration stays on its page as long as none before *)
(* it leaves, because a new one is behind them all.                         *)

IdsAscend == \A m, n \in Reg : m < n /\ state[m] = "none" => state[n] = "none"

UpTo(n) == {m \in Listed : m <= n}

PagesBehind(s) ==
    \A n \in steady[s] :
        Cardinality(UpTo(n)) <= PageSize * (page[s] - 1) => n \in offline[s]

ListingInv ==
    /\ IdsAscend
    /\ \A s \in Sweep :
          /\ \A n \in steady[s] : state[n] = "offline"
          /\ pc[s] \in {"idle", "floor"} => page[s] = 1
          /\ pc[s] = "list" /\ ~shifted[s] => PagesBehind(s)
    /\ ListingComplete

(* A registration appears behind all others, and does not go back to before *)
(* it was there.                                                            *)
Moves ==
    \/ UNCHANGED state
    \/ \E n \in Reg, to \in RegState \ {"none"} :
          /\ state[n] # "gone" /\ state' = [state EXCEPT ![n] = to]
          /\ state[n] = "none" =>
                to # "gone" /\ \A m \in Reg : m < n => state[m] # "none"

LEMMA OrgMoves ==
    ASSUME TypeOK, OrgStep
    PROVE  Moves
<1>1. CASE RunnerMoves
  <2>1. PICK n \in Reg : \/ Register(n) \/ Connect(n) \/ Disconnect(n) \/ TakeJob(n)
                         \/ FinishJob(n) \/ ExpireJob(n) \/ Deregister(n)
    BY <1>1 DEF RunnerMoves
  <2>2. CASE Register(n)
    <3>1. /\ state[n] = "none" /\ state' = [state EXCEPT ![n] = "offline"]
          /\ \A m \in Reg : m < n => state[m] # "none"
      BY <2>2 DEF Register, Becomes
    <3>2. "offline" \in RegState \ {"none"}
      BY DEF RegState
    <3> QED
      BY <3>1, <3>2 DEF Moves
  <2>3. CASE ~Register(n)
    <3>1. \E to \in RegState \ {"none"} :
             state[n] \notin {"none", "gone"} /\ state' = [state EXCEPT ![n] = to]
      BY <2>1, <2>3 DEF Connect, Disconnect, TakeJob, FinishJob, ExpireJob, Deregister,
                        Becomes, RegState
    <3> QED
      BY <3>1 DEF Moves
  <2> QED
    BY <2>2, <2>3
<1>2. CASE UNCHANGED state
  BY <1>2 DEF Moves
<1> QED
  BY <1>1, <1>2 DEF OrgStep, ProvisionerPoll, WindowReset

(* The ids go on ascending; and while none leaves the listing, what is      *)
(* listed stays listed, at its place.                                       *)
LEMMA PlacesStay ==
    ASSUME TypeOK, IdsAscend, Moves
    PROVE  /\ IdsAscend'
           /\ (\A n \in Listed : state'[n] # "gone")
                => \A k \in Listed : UpTo(k)' = UpTo(k)
<1> USE DEF TypeOK, OrgTypeOK
<1>1. CASE UNCHANGED state
  BY <1>1 DEF IdsAscend, UpTo, Listed
<1>2. ASSUME NEW n \in Reg, NEW to \in RegState \ {"none"},
             state[n] # "gone", state' = [state EXCEPT ![n] = to],
             state[n] = "none" =>
                to # "gone" /\ \A m \in Reg : m < n => state[m] # "none"
      PROVE  /\ IdsAscend'
             /\ (\A k \in Listed : state'[k] # "gone")
                  => \A k \in Listed : UpTo(k)' = UpTo(k)
  <2>1. \A m \in Reg : state'[m] = IF m = n THEN to ELSE state[m]
    BY <1>2
  <2>2. n \in Nat /\ \A m \in Reg : m \in Nat
    BY OrgAssumption
  <2>3. IdsAscend'
    BY <1>2, <2>1, <2>2 DEF IdsAscend
  <2>4. ASSUME \A k \in Listed : state'[k] # "gone", NEW k \in Listed
        PROVE  UpTo(k)' = UpTo(k)
    <3>1. ASSUME NEW m \in Reg, m <= k
          PROVE  m \in Listed' <=> m \in Listed
      <4>1. CASE m # n
        BY <2>1, <4>1 DEF Listed
      <4>2. CASE m = n /\ n \in Listed
        BY <2>1, <2>4, <4>2 DEF Listed
      <4>3. CASE m = n /\ state[n] = "none"
        <5>1. k \in Reg /\ k # n /\ state[k] # "none"
          BY <4>3 DEF Listed
        <5>2. n < k
          BY <2>2, <3>1, <4>3, <5>1
        <5> QED
          BY <4>3, <5>1, <5>2 DEF IdsAscend
      <4> QED
        BY <1>2, <4>1, <4>2, <4>3 DEF Listed
    <3>2. UpTo(k)' = {m \in Reg : m \in Listed' /\ m <= k}
      BY DEF UpTo, Listed
    <3>3. UpTo(k) = {m \in Reg : m \in Listed /\ m <= k}
      BY DEF UpTo, Listed
    <3> QED
      BY <3>1, <3>2, <3>3
  <2> QED
    BY <2>3, <2>4
<1> QED
  BY <1>1, <1>2 DEF Moves

(* A listing in progress sees the organisation move: what left it is noted. *)
LEMMA MoveKeepsListings ==
    ASSUME TypeOK, ListingInv, Moves, Watch, UNCHANGED <<page, offline, listRc>>,
           \A s \in Sweep :
              \/ pc'[s] = pc[s]
              \/ pc[s] \in {"loop", "delete"} /\ pc'[s] = "loop"
    PROVE  ListingInv'
<1> USE DEF TypeOK, OrgTypeOK, ListingInv
<1>1. IdsAscend'
  BY PlacesStay
<1>2. \A s \in Sweep :
        /\ steady'[s] = {n \in steady[s] : state'[n] = "offline"}
        /\ shifted'[s] = (\/ shifted[s]
                          \/ pc[s] = "list" /\ \E n \in Listed : state'[n] = "gone")
  BY DEF Watch
<1>3. ASSUME NEW s \in Sweep, pc'[s] = "list", ~shifted'[s]
      PROVE  PagesBehind(s)'
  <2>1. pc[s] = "list" /\ ~shifted[s] /\ \A n \in Listed : state'[n] # "gone"
    BY <1>2, <1>3
  <2>2. ASSUME NEW n \in steady'[s],
               Cardinality(UpTo(n)') <= PageSize * (page[s] - 1)
        PROVE  n \in offline[s]
    <3>1. n \in steady[s] /\ n \in Listed
      BY <1>2 DEF Listed
    <3>2. UpTo(n)' = UpTo(n)
      BY <2>1, <3>1, PlacesStay
    <3> QED
      BY <2>1, <2>2, <3>1, <3>2 DEF PagesBehind
  <2> QED
    BY <2>2 DEF PagesBehind
<1>4. ListingComplete'
  BY <1>2 DEF ListingComplete
<1>5. \A s \in Sweep :
        /\ \A n \in steady'[s] : state'[n] = "offline"
        /\ pc'[s] \in {"idle", "floor"} => page'[s] = 1
  <2>1. \A s \in Sweep : steady'[s] = {n \in steady[s] : state'[n] = "offline"}
    BY <1>2, Zenon
  <2>2. ASSUME NEW s \in Sweep, NEW n \in steady'[s]
        PROVE  state'[n] = "offline"
    BY <2>1
  <2> QED
    BY <2>2
<1>6. \A s \in Sweep : pc'[s] = "list" /\ ~shifted'[s] => PagesBehind(s)'
  BY <1>3, Zenon
<1> QED
  BY <1>1, <1>4, <1>5, <1>6

(* The place of a registration is a number within the length of the list.   *)
LEMMA PlaceType ==
    ASSUME TypeOK, NEW n \in Listed
    PROVE  /\ Cardinality(UpTo(n)) \in Nat \ {0}
           /\ Cardinality(Listed) \in Nat
           /\ Cardinality(UpTo(n)) <= Cardinality(Listed)
<1>1. IsFiniteSet(Listed)
  <2>1. Listed \in SUBSET Reg
    BY DEF Listed
  <2> QED
    BY <2>1, OrgAssumption, FS_Subset
<1>2. UpTo(n) \in SUBSET Listed /\ n \in UpTo(n)
  BY OrgAssumption DEF UpTo, Listed
<1>3. IsFiniteSet(UpTo(n)) /\ Cardinality(UpTo(n)) <= Cardinality(Listed)
  BY <1>1, <1>2, FS_Subset
<1>4. Cardinality(UpTo(n)) \in Nat /\ Cardinality(Listed) \in Nat
  BY <1>1, <1>3, FS_CardinalityType
<1>5. Cardinality(UpTo(n)) # 0
  BY <1>2, <1>3, FS_EmptySet
<1> QED
  BY <1>3, <1>4, <1>5

(* A page adds what stands on it; the last one, all that is left.           *)
LEMMA PageAdds ==
    ASSUME TypeOK, ListingInv, NEW s \in Sweep, ListPage(s)
    PROVE  ListingInv'
<1> USE DEF TypeOK, ListingInv
<1>1. /\ pc[s] = "list" /\ UNCHANGED <<state, listRc, steady, shifted>>
      /\ offline' = [offline EXCEPT ![s] = @ \cup Selected(page[s])]
      /\ \/ /\ ~IsLastPage(page[s]) /\ UNCHANGED pc
            /\ page' = [page EXCEPT ![s] = @ + 1]
         \/ /\ IsLastPage(page[s]) /\ UNCHANGED page
            /\ pc' = [pc EXCEPT ![s] = "total"]
  BY DEF ListPage, MorePages, GoTo, watch
<1>2. IdsAscend' /\ \A n \in Reg : UpTo(n)' = UpTo(n)
  BY <1>1 DEF IdsAscend, UpTo, Listed
<1>3. page[s] \in Nat \ {0} /\ PageSize \in Nat \ {0}
  BY OrgAssumption
<1>4. ASSUME ~shifted[s], NEW n \in steady[s],
             Cardinality(UpTo(n)) <= PageSize * page[s]
      PROVE  n \in offline'[s]
  <2>1. n \in Reg /\ n \in Listed /\ OfflineIdle(n)
    BY DEF Listed, OfflineIdle
  <2>2. Cardinality(UpTo(n)) \in Nat
    BY <2>1, PlaceType
  <2>3. CASE Cardinality(UpTo(n)) <= PageSize * (page[s] - 1)
    BY <1>1, <1>4, <2>3 DEF PagesBehind
  <2>4. CASE PageSize * (page[s] - 1) < Cardinality(UpTo(n))
    <3>1. n \in Page(page[s])
      BY <1>4, <2>1, <2>4 DEF Page, UpTo
    <3> QED
      BY <1>1, <2>1, <3>1 DEF Selected
  <2>5. PageSize * (page[s] - 1) \in Int
    BY <1>3
  <2> QED
    BY <2>2, <2>3, <2>4, <2>5
<1>5. CASE /\ ~IsLastPage(page[s]) /\ UNCHANGED pc
           /\ page' = [page EXCEPT ![s] = @ + 1]
  <2>1. ASSUME NEW t \in Sweep, pc[t] = "list", ~shifted[t]
        PROVE  PagesBehind(t)'
    <3>1. CASE t # s
      BY <1>1, <1>2, <1>5, <2>1, <3>1 DEF PagesBehind
    <3>2. CASE t = s
      <4>1. page'[s] - 1 = page[s]
        BY <1>3, <1>5
      <4> QED
        BY <1>1, <1>2, <1>4, <2>1, <3>2, <4>1 DEF PagesBehind
    <3> QED
      BY <3>1, <3>2
  <2>2. ListingComplete'
    BY <1>1, <1>5 DEF ListingComplete
  <2> QED
    BY <1>1, <1>2, <1>5, <2>1, <2>2
<1>6. CASE /\ IsLastPage(page[s]) /\ UNCHANGED page
           /\ pc' = [pc EXCEPT ![s] = "total"]
  <2>1. ASSUME NEW t \in Sweep, pc'[t] = "list", ~shifted[t]
        PROVE  PagesBehind(t)'
    BY <1>1, <1>2, <1>6, <2>1 DEF PagesBehind, JobTypeOK
  <2>2. ASSUME ~shifted[s], NEW n \in steady[s]
        PROVE  n \in offline'[s]
    <3>1. n \in Listed
      BY DEF Listed
    <3>2. Cardinality(UpTo(n)) <= PageSize * page[s]
      BY <1>3, <1>6, <3>1, PlaceType DEF IsLastPage
    <3> QED
      BY <1>4, <2>2, <3>2
  <2>3. ListingComplete'
    BY <1>1, <1>6, <2>2 DEF ListingComplete, JobTypeOK
  <2> QED
    BY <1>1, <1>2, <1>6, <2>1, <2>3 DEF JobTypeOK
<1> QED
  BY <1>1, <1>5, <1>6

(* Every step keeps what the pages held.                                    *)
LEMMA ListingStep ==
    ASSUME TypeOK, ListingInv, [Next]_vars
    PROVE  ListingInv'
<1>1. CASE EnvStep
  <2>1. /\ OrgStep /\ Watch /\ UNCHANGED <<page, offline, listRc>>
        /\ \A s \in Sweep : pc'[s] = pc[s]
    BY <1>1 DEF EnvStep, locals
  <2>2. Moves
    BY <2>1, OrgMoves
  <2> QED
    BY <2>1, <2>2, MoveKeepsListings
<1>2. ASSUME NEW s \in Sweep, ListPage(s)
      PROVE  ListingInv'
  BY <1>2, PageAdds
<1>3. ASSUME NEW s \in Sweep, Delete(s)
      PROVE  ListingInv'
  <2>1. PICK n \in todo[s] :
           \/ n \in Listed /\ state' = [state EXCEPT ![n] = "gone"]
           \/ UNCHANGED state
    BY <1>3 DEF Delete
  <2>2. Moves
    BY <2>1 DEF Moves, Listed, RegState
  <2>3. /\ Watch /\ UNCHANGED <<page, offline, listRc>>
        /\ pc[s] \in {"loop", "delete"} /\ pc' = [pc EXCEPT ![s] = "loop"]
    BY <1>3 DEF Delete, GoTo
  <2>4. \A t \in Sweep :
          \/ pc'[t] = pc[t]
          \/ pc[t] \in {"loop", "delete"} /\ pc'[t] = "loop"
    BY <2>3 DEF TypeOK, JobTypeOK
  <2> QED
    BY <2>2, <2>3, <2>4, MoveKeepsListings
<1> USE DEF TypeOK, JobTypeOK, ListingInv, locals, watch, orgVars, GoTo, End
<1>4. ASSUME NEW s \in Sweep, CheckFloor(s)
      PROVE  ListingInv'
  <2>1. /\ pc[s] = "floor" /\ UNCHANGED <<state, page, offline, listRc>>
        /\ steady' = [steady EXCEPT ![s] = {n \in Reg : OfflineIdle(n)}]
        /\ shifted' = [shifted EXCEPT ![s] = FALSE]
        /\ \E step \in {"list", "done"} : pc' = [pc EXCEPT ![s] = step]
    BY <1>4 DEF CheckFloor
  <2>2. IdsAscend' /\ \A n \in Reg : UpTo(n)' = UpTo(n)
    BY <2>1 DEF IdsAscend, UpTo, Listed
  <2>3. ASSUME NEW t \in Sweep, pc'[t] = "list", ~shifted'[t]
        PROVE  PagesBehind(t)'
    <3>1. CASE t # s
      BY <2>1, <2>2, <2>3, <3>1 DEF PagesBehind
    <3>2. CASE t = s
      <4>1. page'[s] = 1 /\ PageSize * (page'[s] - 1) = 0
        BY <2>1, OrgAssumption
      <4>2. ASSUME NEW n \in steady'[s]
            PROVE  ~(Cardinality(UpTo(n)') <= PageSize * (page'[s] - 1))
        <5>1. n \in Reg /\ n \in Listed
          BY <2>1 DEF OfflineIdle, Listed
        <5> QED
          BY <2>2, <4>1, <5>1, PlaceType
      <4> QED
        BY <3>2, <4>2 DEF PagesBehind
    <3> QED
      BY <3>1, <3>2
  <2>4. ListingComplete'
    BY <2>1 DEF ListingComplete
  <2> QED
    BY <2>1, <2>2, <2>3, <2>4 DEF OfflineIdle
<1>5. ASSUME NEW s \in Sweep, NEW step \in Steps \ {"idle", "list"},
             pc' = [pc EXCEPT ![s] = step],
             UNCHANGED <<state, page, offline, steady, shifted>>,
             step = "floor" => pc[s] = "idle",
             step \in {"total", "loop", "delete", "after"} =>
                \/ listRc'[s]
                \/ listRc' = listRc /\ pc[s] \in {"total", "loop", "delete", "after"},
             \A t \in Sweep \ {s} : listRc'[t] = listRc[t]
      PROVE  ListingInv'
  <2>1. IdsAscend' /\ \A n \in Reg : UpTo(n)' = UpTo(n)
    BY <1>5 DEF IdsAscend, UpTo, Listed
  <2>2. ASSUME NEW t \in Sweep, pc'[t] = "list", ~shifted'[t]
        PROVE  PagesBehind(t)'
    BY <1>5, <2>1, <2>2 DEF PagesBehind
  <2>3. ListingComplete'
    BY <1>5 DEF ListingComplete
  <2> QED
    BY <1>5, <2>1, <2>2, <2>3
<1>6. ASSUME NEW s \in Sweep, Start(s)
      PROVE  ListingInv'
  <2>1. (\E how \in Outcomes : End(s, how)) \/ GoTo(s, "floor")
    BY <1>6, Zenon DEF Start, Outcomes
  <2>2. PICK step \in {"done", "floor"} : pc' = [pc EXCEPT ![s] = step]
    BY <2>1
  <2>3. pc[s] = "idle" /\ UNCHANGED <<state, page, offline, listRc, steady, shifted>>
    BY <1>6 DEF Start
  <2> QED
    BY <1>5, <2>2, <2>3 DEF Steps
<1>7. ASSUME NEW s \in Sweep, ListFails(s)
      PROVE  ListingInv'
  <2>1. /\ UNCHANGED <<state, page, offline, steady, shifted>>
        /\ pc' = [pc EXCEPT ![s] = "total"] /\ listRc' = [listRc EXCEPT ![s] = TRUE]
    BY <1>7 DEF ListFails
  <2>2. listRc'[s] /\ \A t \in Sweep \ {s} : listRc'[t] = listRc[t]
    BY <2>1
  <2> QED
    BY <1>5, <2>1, <2>2 DEF Steps
<1>8. ASSUME NEW s \in Sweep, ReadTotal(s) \/ Recheck(s) \/ Summarise(s) \/ Cancel(s)
      PROVE  ListingInv'
  <2>1. UNCHANGED <<state, page, offline, listRc, steady, shifted>>
    BY <1>8 DEF ReadTotal, Recheck, Summarise, Cancel
  <2>2. \/ pc' = [pc EXCEPT ![s] = "done"]
        \/ /\ pc[s] \in {"total", "loop"}
           /\ \E step \in {"loop", "delete", "after"} : pc' = [pc EXCEPT ![s] = step]
    BY <1>8 DEF ReadTotal, Recheck, Summarise, Cancel
  <2>3. PICK step \in {"loop", "delete", "after", "done"} :
           /\ pc' = [pc EXCEPT ![s] = step]
           /\ step # "done" => pc[s] \in {"total", "loop", "delete", "after"}
    BY <2>2
  <2> QED
    BY <1>5, <2>1, <2>3 DEF Steps
<1>9. ASSUME NEW s \in Sweep, Schedule(s)
      PROVE  ListingInv'
  <2>1. /\ UNCHANGED <<state, steady, shifted>> /\ pc' = [pc EXCEPT ![s] = "idle"]
        /\ page' = [page EXCEPT ![s] = 1] /\ offline' = [offline EXCEPT ![s] = {}]
        /\ listRc' = [listRc EXCEPT ![s] = FALSE]
    BY <1>9 DEF Schedule, FreshJob
  <2>2. IdsAscend' /\ \A n \in Reg : UpTo(n)' = UpTo(n)
    BY <2>1 DEF IdsAscend, UpTo, Listed
  <2>3. ASSUME NEW t \in Sweep, pc'[t] = "list", ~shifted'[t]
        PROVE  PagesBehind(t)'
    BY <2>1, <2>2, <2>3 DEF PagesBehind
  <2>4. ListingComplete'
    BY <2>1 DEF ListingComplete
  <2> QED
    BY <2>1, <2>2, <2>3, <2>4
<1>10. CASE UNCHANGED vars
  <2>1. UNCHANGED <<state, pc, page, offline, listRc, steady, shifted>>
    BY <1>10 DEF vars
  <2>2. IdsAscend' /\ \A n \in Reg : UpTo(n)' = UpTo(n)
    BY <2>1 DEF IdsAscend, UpTo, Listed
  <2>3. \A s \in Sweep : pc[s] = "list" /\ ~shifted[s] => PagesBehind(s)'
    BY <2>1, <2>2 DEF PagesBehind
  <2>4. ListingComplete'
    BY <2>1 DEF ListingComplete
  <2> QED
    BY <2>1, <2>2, <2>3, <2>4
<1> QED
  BY <1>1, <1>2, <1>3, <1>4, <1>6, <1>7, <1>8, <1>9, <1>10 DEF Next, JobStep

(* For every number of registrations and every size of a page: a listing    *)
(* that ended without an error holds all that was reapable all along, if    *)
(* nothing left the list while it was being paged.                          *)
THEOREM ListingIsComplete == Spec => []ListingComplete
<1>1. Init => ListingInv
  BY DEF Init, OrgInit, IdsAscend, ListingInv, ListingComplete
<1>2. TypeOK /\ ListingInv /\ [Next]_vars => ListingInv'
  BY ListingStep
<1>3. ListingInv => ListingComplete
  BY DEF ListingInv
<1> QED
  BY <1>1, <1>2, <1>3, TypeCorrect, PTL DEF Spec
=============================================================================
