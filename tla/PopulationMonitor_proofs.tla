---------------------- MODULE PopulationMonitor_proofs ----------------------
(* Proofs about PopulationMonitor, for every cap and every population.      *)
EXTENDS PopulationMonitor, SequenceTheorems, TLAPS

(* What the job holds was read, like what the cache holds.                  *)
Measured ==
    /\ StateWasMeasured
    /\ job.current # None => job.current.n \in counts

(* Once the verdicts are out, a job that is green and did not warn has one. *)
Spoken ==
    /\ job.phase = "store" => job.exit \in {"green", "red"}
    /\ (job.phase \in {"store", "over"} /\ job.exit = "green" /\ ~job.warned)
        => {job.matches, job.shrinks} \cap {"pass", "warn"} # {}

IInv == TypeOK /\ Measured /\ Spoken

(* The listing shows no more registrations than there are.                  *)
LEMMA ObservedType ==
    ASSUME NEW n \in 0..Largest
    PROVE  Observed(n) \in 0..Largest
BY CapAssumption, BoundAssumption DEF Observed

(* A count is a reading of its number.                                      *)
LEMMA CountType ==
    ASSUME NEW n \in 0..Largest
    PROVE  Count(n) \in Reading /\ Count(n).n = n
BY DEF Count, Reading

(* The invariant holds before the first run.                                *)
LEMMA InitInv == Init => IInv
<1> SUFFICES ASSUME Init
             PROVE  IInv
  OBVIOUS
<1>1. TypeOK
  BY BoundAssumption DEF Init, TypeOK, Job, NoJob, Reading, Phases, Statuses
<1>2. Measured
  BY DEF Init, Measured, StateWasMeasured, NoJob
<1>3. Spoken
  BY DEF Init, Spoken, NoJob
<1>4. QED
  BY <1>1, <1>2, <1>3 DEF IInv

(* An evicted cache entry takes nothing measured with it.                   *)
LEMMA EvictInv ==
    ASSUME IInv, NEW k \in DOMAIN cache, Evict(k)
    PROVE  IInv'
<1> DEFINE E == [run: 0..MaxRuns, n: 0..Largest]
<1>1. cache' = SubSeq(cache, 1, k - 1) \o SubSeq(cache, k + 1, Len(cache))
      /\ UNCHANGED <<truth, job, runs, counts>>
  BY DEF Evict, RemoveAt
<1>2. cache \in Seq(E) /\ k \in 1..Len(cache)
  BY DEF IInv, TypeOK
<1> DEFINE front == SubSeq(cache, 1, k - 1)
           back  == SubSeq(cache, k + 1, Len(cache))
<1>3. /\ front \in Seq(E) /\ Len(front) = k - 1
      /\ \A i \in 1..Len(front) : front[i] = cache[i]
      /\ back \in Seq(E) /\ Len(back) = Len(cache) - k
      /\ \A i \in 1..Len(back) : back[i] = cache[k + i]
  <2> HIDE DEF E
  <2>1. \A i \in 1..Len(cache) : cache[i] \in E
    BY <1>2
  <2>2. /\ front \in Seq(E) /\ Len(front) = k - 1
        /\ \A i \in 1..(k - 1) : front[i] = cache[i]
    BY <1>2, <2>1, SubSeqProperties
  <2>3. /\ back \in Seq(E) /\ Len(back) = Len(cache) - k
        /\ \A i \in 1..(Len(cache) - k) : back[i] = cache[k + i]
    BY <1>2, <2>1, SubSeqProperties
  <2>4. QED
    BY <2>2, <2>3
<1>4. cache' \in Seq(E)
  <2> HIDE DEF E, front, back
  <2>1. front \o back \in Seq(E)
    BY <1>3
  <2>2. QED
    BY <1>1, <2>1 DEF front, back
<1>5. \A j \in DOMAIN cache' : \E i \in DOMAIN cache : cache'[j] = cache[i]
  <2> SUFFICES ASSUME NEW j \in DOMAIN cache'
               PROVE  \E i \in DOMAIN cache : cache'[j] = cache[i]
    OBVIOUS
  <2>1. cache' = front \o back
    BY <1>1
  <2> HIDE DEF E, front, back
  <2>2. j \in 1..(Len(front) + Len(back))
    BY <2>1, <1>3
  <2>3. CASE j <= Len(front)
    <3>1. cache'[j] = cache[j] /\ j \in DOMAIN cache
      <4>1. j \in 1..Len(front)
        BY <2>2, <2>3, <1>2, <1>3
      <4>2. cache'[j] = front[j]
        BY <2>1, <4>1, <1>3
      <4>3. front[j] = cache[j]
        BY <4>1, <1>3
      <4>4. j \in DOMAIN cache
        BY <4>1, <1>2, <1>3
      <4>5. QED
        BY <4>2, <4>3, <4>4
    <3>2. QED
      BY <3>1
  <2>4. CASE j > Len(front)
    <3>1. cache'[j] = cache[j + 1] /\ j + 1 \in DOMAIN cache
      <4>1. cache'[j] = back[j - Len(front)]
        BY <2>1, <2>2, <2>4, <1>3
      <4>2. j - Len(front) \in 1..Len(back) /\ k + (j - Len(front)) = j + 1
        <5>1. Len(cache) \in Nat /\ k \in 1..Len(cache)
          BY <1>2
        <5>2. Len(front) = k - 1 /\ Len(back) = Len(cache) - k
          BY <1>3
        <5>3. j \in 1..(Len(cache) - 1) /\ j > k - 1
          BY <2>2, <2>4, <5>1, <5>2
        <5>4. j - (k - 1) \in 1..(Len(cache) - k) /\ k + (j - (k - 1)) = j + 1
          BY <5>1, <5>3
        <5>5. QED
          BY <5>2, <5>4
      <4>3. back[j - Len(front)] = cache[k + (j - Len(front))]
        BY <4>2, <1>3
      <4>4. j + 1 \in DOMAIN cache
        BY <2>2, <2>4, <1>2, <1>3
      <4>5. QED
        BY <4>1, <4>2, <4>3, <4>4
    <3>2. QED
      BY <3>1
  <2>5. QED
    BY <2>3, <2>4, <2>2, <1>2, <1>3
<1>6. TypeOK'
  BY <1>1, <1>4 DEF IInv, TypeOK
<1>7. Measured'
  BY <1>1, <1>5 DEF IInv, Measured, StateWasMeasured
<1>8. Spoken'
  BY <1>1 DEF IInv, Spoken
<1>9. QED
  BY <1>6, <1>7, <1>8 DEF IInv

(* A run begins with a state that was measured, or with none.               *)
LEMMA StartInv ==
    ASSUME IInv, NEW r \in 1..MaxRuns, Start(r)
    PROVE  IInv'
<1>1. PICK file \in Restorable(r) :
        job' = [NoJob EXCEPT !.phase = "listing", !.run = r,
                    !.hit = Own(r) # {}, !.file = file]
  BY DEF Start
<1>2. UNCHANGED <<truth, cache, counts>> /\ runs' \in 0..MaxRuns
  BY BoundAssumption DEF Start, IInv, TypeOK
<1>3. file # None => \E k \in DOMAIN cache : file = Count(cache[k].n)
  BY DEF Restorable, Own, IInv, TypeOK
<1>4. file \in Reading /\ (file # None => file.n \in counts)
  <2>1. CASE file = None
    BY <2>1 DEF Reading
  <2>2. CASE file # None
    <3>1. PICK k \in DOMAIN cache : file = Count(cache[k].n)
      BY <2>2, <1>3
    <3>2. cache[k] \in [run: 0..MaxRuns, n: 0..Largest]
      <4>1. cache \in Seq([run: 0..MaxRuns, n: 0..Largest])
        BY DEF IInv, TypeOK
      <4>2. DOMAIN cache = 1..Len(cache)
        BY <4>1
      <4>3. QED
        BY <4>1, <4>2, ElementOfSeq
    <3>3. cache[k].n \in 0..Largest /\ cache[k].n \in counts
      BY <3>2 DEF IInv, Measured, StateWasMeasured
    <3>4. QED
      BY <3>1, <3>3, CountType
  <2>3. QED
    BY <2>1, <2>2
<1>5. job' \in Job /\ job'.file = file /\ job'.current = None
      /\ job'.phase = "listing"
  <2> DEFINE hit == Own(r) # {}
  <2>1. hit \in BOOLEAN
    OBVIOUS
  <2> HIDE DEF hit
  <2>2. job' = [phase |-> "listing", run |-> r, hit |-> hit, file |-> file,
                current |-> None, prior |-> FALSE, matches |-> "none",
                shrinks |-> "none", warned |-> FALSE, exit |-> "running"]
    BY <1>1 DEF NoJob, hit
  <2>3. r \in 0..MaxRuns /\ None \in Reading
    BY DEF Reading
  <2>4. QED
    BY <2>1, <2>2, <2>3, <1>4 DEF Job, Phases, Statuses
<1>6. TypeOK'
  BY <1>2, <1>5 DEF IInv, TypeOK
<1>7. Measured'
  BY <1>2, <1>4, <1>5 DEF IInv, Measured, StateWasMeasured
<1>8. Spoken'
  BY <1>5 DEF Spoken
<1>9. QED
  BY <1>6, <1>7, <1>8 DEF IInv

(* The end of a run keeps the invariant.                                    *)
LEMMA EndsInv ==
    ASSUME IInv, NEW how \in {"traceback", "cancelled"}, Ends(how),
           UNCHANGED <<truth, cache, runs, counts>>
    PROVE  IInv'
<1>1. job' = [job EXCEPT !.phase = "over", !.exit = how]
  BY DEF Ends
<1>2. TypeOK'
  BY <1>1 DEF IInv, TypeOK, Job, Phases
<1>3. job'.phase = "over" /\ job'.exit = how
      /\ job'.file = job.file /\ job'.current = job.current
  BY <1>1 DEF IInv, TypeOK, Job
<1>4. Measured'
  BY <1>3 DEF IInv, Measured, StateWasMeasured
<1>5. Spoken'
  BY <1>3 DEF Spoken
<1>6. QED
  BY <1>2, <1>4, <1>5 DEF IInv

(* The listing writes the population of this run, or ends it.               *)
LEMMA ListingInv ==
    ASSUME IInv, Listing
    PROVE  IInv'
<1>1. CASE Ends("traceback")
  BY <1>1, EndsInv DEF Listing
<1>2. ASSUME NEW s \in {"n-a", Matches(truth.all, truth.ours)},
             job' = [job EXCEPT !.phase = "total", !.matches = s]
      PROVE  IInv'
  <2>1. s \in Statuses
    BY <1>2 DEF Matches, Statuses
  <2>2. UNCHANGED <<truth, cache, runs, counts>>
    BY DEF Listing
  <2>3. TypeOK'
    BY <1>2, <2>1, <2>2 DEF IInv, TypeOK, Job, Phases
  <2>4. job'.phase = "total" /\ job'.file = job.file /\ job'.current = job.current
    BY <1>2 DEF IInv, TypeOK, Job
  <2>5. Measured'
    BY <2>2, <2>4 DEF IInv, Measured, StateWasMeasured
  <2>6. Spoken'
    BY <2>4 DEF Spoken
  <2>7. QED
    BY <2>3, <2>5, <2>6 DEF IInv
<1>3. QED
  BY <1>1, <1>2 DEF Listing

(* The second read corroborates the count, or does not.                     *)
LEMMA ReadTotalInv ==
    ASSUME IInv, ReadTotal
    PROVE  IInv'
<1>1. CASE Ends("traceback") /\ UNCHANGED counts
  BY <1>1, EndsInv DEF ReadTotal
<1>2. ASSUME NEW reading \in Reading, reading # None => reading.n \in counts',
             counts \subseteq counts', counts' \subseteq 0..Largest,
             job' = [job EXCEPT !.phase = "judge", !.current = reading]
      PROVE  IInv'
  <2>1. UNCHANGED <<truth, cache, runs>>
    BY DEF ReadTotal
  <2>2. TypeOK'
    BY <1>2, <2>1 DEF IInv, TypeOK, Job, Phases
  <2>3. job'.phase = "judge" /\ job'.file = job.file /\ job'.current = reading
    BY <1>2 DEF IInv, TypeOK, Job
  <2>4. Measured'
    BY <1>2, <2>1, <2>3 DEF IInv, Measured, StateWasMeasured
  <2>5. Spoken'
    BY <2>3 DEF Spoken
  <2>6. QED
    BY <2>2, <2>4, <2>5 DEF IInv
<1>3. CASE /\ job' = [job EXCEPT !.phase = "judge", !.current = Count(Observed(truth.all))]
           /\ counts' = counts \cup {Observed(truth.all)}
  <2> DEFINE n == Observed(truth.all)
  <2>1. truth.all \in 0..Largest
    BY DEF IInv, TypeOK
  <2>2. n \in 0..Largest
    BY <2>1, ObservedType
  <2> HIDE DEF n
  <2>3. Count(n) \in Reading /\ Count(n).n = n
    BY <2>2, CountType
  <2>4. counts \subseteq counts' /\ counts' \subseteq 0..Largest /\ n \in counts'
    BY <1>3, <2>2 DEF IInv, TypeOK, n
  <2>5. Count(n) # None
    BY DEF Count, None
  <2>6. job' = [job EXCEPT !.phase = "judge", !.current = Count(n)]
    BY <1>3 DEF n
  <2>7. QED
    BY <1>2, <2>3, <2>4, <2>5, <2>6
<1>4. CASE job' = [job EXCEPT !.phase = "judge"] /\ UNCHANGED counts
  <2>1. UNCHANGED <<truth, cache, runs>>
    BY DEF ReadTotal
  <2>2. TypeOK'
    BY <1>4, <2>1 DEF IInv, TypeOK, Job, Phases
  <2>3. job'.phase = "judge" /\ job'.file = job.file /\ job'.current = job.current
    BY <1>4 DEF IInv, TypeOK, Job
  <2>4. Measured'
    BY <1>4, <2>1, <2>3 DEF IInv, Measured, StateWasMeasured
  <2>5. Spoken'
    BY <2>3 DEF Spoken
  <2>6. QED
    BY <2>2, <2>4, <2>5 DEF IInv
<1>5. QED
  BY <1>1, <1>3, <1>4 DEF ReadTotal

(* The two rules speak of the population that was measured.                 *)
LEMMA JudgeInv ==
    ASSUME IInv, Judge
    PROVE  IInv'
<1> DEFINE status == IF job.current = None THEN "none"
                     ELSE Shrinks(Previous, job.current.n)
<1>1. UNCHANGED <<truth, cache, runs, counts>>
  BY DEF Judge
<1>2. CASE job' = [job EXCEPT !.phase = "over", !.exit = "traceback", !.prior = TRUE]
  <2>1. TypeOK'
    BY <1>1, <1>2 DEF IInv, TypeOK, Job, Phases
  <2>2. job'.phase = "over" /\ job'.exit = "traceback"
        /\ job'.file = job.file /\ job'.current = job.current
    BY <1>2 DEF IInv, TypeOK, Job
  <2>3. Measured'
    BY <1>1, <2>2 DEF IInv, Measured, StateWasMeasured
  <2>4. Spoken'
    BY <2>2 DEF Spoken
  <2>5. QED
    BY <2>1, <2>3, <2>4 DEF IInv
<1>3. CASE status # "raises"
  <2> DEFINE had == job.file # None
             file == Written(job.current, job.file)
  <2>1. status \in Statuses \cup {"none"}
    <3>1. Previous.kind \in {"none", "int"}
      BY DEF Previous, Absent, Bare
    <3>2. Shrinks(Previous, job.current.n) \in {"n-a", "raises"}
      BY <3>1 DEF Shrinks
    <3>3. QED
      BY <1>3, <3>2 DEF Statuses
  <2>2. file \in Reading /\ (file # None => file.n \in counts)
    BY DEF Written, IInv, TypeOK, Job, Measured, StateWasMeasured
  <2>3. had \in BOOLEAN
    OBVIOUS
  <2>4. job' = [job EXCEPT !.phase = "report", !.shrinks = status,
                           !.prior = had, !.file = file]
    BY <1>3 DEF Judge
  <2> HIDE DEF status, had, file
  <2>5. TypeOK'
    BY <1>1, <2>1, <2>2, <2>3, <2>4 DEF IInv, TypeOK, Job, Phases
  <2>6. job'.phase = "report" /\ job'.file = file /\ job'.current = job.current
    BY <2>4 DEF IInv, TypeOK, Job
  <2>7. Measured'
    BY <1>1, <2>2, <2>6 DEF IInv, Measured, StateWasMeasured
  <2>8. Spoken'
    BY <2>6 DEF Spoken
  <2>9. QED
    BY <2>5, <2>7, <2>8 DEF IInv
<1>4. QED
  BY <1>2, <1>3 DEF Judge

(* The report decides the exit by what the rules said.                      *)
LEMMA ReportInv ==
    ASSUME IInv, Report
    PROVE  IInv'
<1> DEFINE statuses == {job.matches, job.shrinks}
           warned == Judged(statuses) = {}
           exit == IF "fail" \in statuses THEN "red" ELSE "green"
<1>1. UNCHANGED <<truth, cache, runs, counts>>
      /\ job' = [job EXCEPT !.phase = "store", !.warned = warned, !.exit = exit]
  BY DEF Report
<1>2. warned \in BOOLEAN /\ exit \in {"red", "green"}
  OBVIOUS
<1>3. exit = "green" /\ ~warned => statuses \cap {"pass", "warn"} # {}
  <2> SUFFICES ASSUME exit = "green", ~warned
               PROVE  statuses \cap {"pass", "warn"} # {}
    OBVIOUS
  <2>1. PICK s \in statuses : s \notin {"none", "n-a"}
    BY DEF Judged
  <2>2. s \in Statuses \cup {"none"} /\ s # "fail"
    BY DEF IInv, TypeOK, Job
  <2>3. QED
    BY <2>1, <2>2 DEF Statuses
<1>4. TypeOK' /\ job'.phase = "store" /\ job'.exit = exit /\ job'.warned = warned
      /\ job'.file = job.file /\ job'.current = job.current
      /\ job'.matches = job.matches /\ job'.shrinks = job.shrinks
  <2> HIDE DEF warned, exit, statuses
  <2>1. QED
    BY <1>1, <1>2 DEF IInv, TypeOK, Job, Phases
<1>5. Measured'
  BY <1>1, <1>4 DEF IInv, Measured, StateWasMeasured
<1>6. Spoken'
  <2> HIDE DEF warned, exit
  <2>1. QED
    BY <1>2, <1>3, <1>4 DEF Spoken
<1>7. QED
  BY <1>4, <1>5, <1>6 DEF IInv

(* What is stored was measured by the run that stores it.                   *)
LEMMA StoreInv ==
    ASSUME IInv, Store
    PROVE  IInv'
<1> DEFINE E == [run: 0..MaxRuns, n: 0..Largest]
<1>1. UNCHANGED <<truth, runs, counts>> /\ job' = [job EXCEPT !.phase = "over"]
      /\ job.phase = "store"
  BY DEF Store
<1>2. job' \in Job /\ job'.phase = "over" /\ job'.exit = job.exit
      /\ job'.warned = job.warned
      /\ job'.file = job.file /\ job'.current = job.current
      /\ job'.matches = job.matches /\ job'.shrinks = job.shrinks
  BY <1>1 DEF IInv, TypeOK, Job, Phases
<1>3. Spoken'
  BY <1>1, <1>2 DEF IInv, Spoken
<1>4. CASE UNCHANGED cache
  BY <1>1, <1>2, <1>3, <1>4 DEF IInv, TypeOK, Measured, StateWasMeasured
<1>5. ASSUME job.file # None,
             cache' = Append(cache, [run |-> job.run, n |-> job.file.n])
      PROVE  IInv'
  <2> DEFINE e == [run |-> job.run, n |-> job.file.n]
  <2>1. e \in E /\ e.n \in counts
    BY <1>5, BoundAssumption DEF IInv, TypeOK, Job, Reading, Measured, StateWasMeasured
  <2>2. cache \in Seq(E)
    BY DEF IInv, TypeOK
  <2>3. cache' \in Seq(E) /\ Len(cache') = Len(cache) + 1
        /\ (\A k \in 1..Len(cache) : cache'[k] = cache[k])
        /\ cache'[Len(cache) + 1] = e
    <3> HIDE DEF E, e
    <3>1. cache' = Append(cache, e)
      BY <1>5 DEF e
    <3>2. QED
      BY <2>1, <2>2, <3>1, AppendProperties
  <2>4. \A k \in DOMAIN cache' : k \in DOMAIN cache \/ k = Len(cache) + 1
    <3> HIDE DEF E, e
    <3>1. QED
      BY <2>2, <2>3
  <2>5. \A k \in DOMAIN cache' : cache'[k].n \in counts
    <3> HIDE DEF E, e
    <3>1. QED
      BY <2>1, <2>2, <2>3, <2>4 DEF IInv, Measured, StateWasMeasured
  <2>6. QED
    BY <1>1, <1>2, <1>3, <2>3, <2>5 DEF IInv, TypeOK, Measured, StateWasMeasured
<1>6. QED
  BY <1>4, <1>5 DEF Store

(* The invariant is kept by every step.                                     *)
LEMMA StepInv == IInv /\ [Next]_vars => IInv'
<1> SUFFICES ASSUME IInv, [Next]_vars
             PROVE  IInv'
  OBVIOUS
<1>1. CASE PopulationChanges
  BY <1>1 DEF PopulationChanges, IInv, TypeOK, Measured, StateWasMeasured, Spoken
<1>2. CASE \E k \in DOMAIN cache : Evict(k)
  BY <1>2, EvictInv
<1>3. CASE \E r \in 1..MaxRuns : Start(r)
  BY <1>3, StartInv
<1>4. CASE Cancel
  BY <1>4, EndsInv DEF Cancel
<1>5. CASE UNCHANGED vars
  BY <1>5 DEF vars, IInv, TypeOK, Measured, StateWasMeasured, Spoken
<1>6. QED
  BY <1>1, <1>2, <1>3, <1>4, <1>5, ListingInv, ReadTotalInv, JudgeInv,
     ReportInv, StoreInv DEF Next

(* The invariant of the monitor.                                            *)
LEMMA Inductive == Spec => []IInv
BY InitInv, StepInv, PTL DEF Spec

(* Type correctness of the monitor.                                         *)
THEOREM TypeCorrect == Spec => []TypeOK
<1>1. IInv => TypeOK
  BY DEF IInv
<1>2. QED
  BY <1>1, Inductive, PTL

(* population-monitor.yml keeps no observation that was not measured, not   *)
(* in the cache and not on the job's disk.                                  *)
THEOREM OnlyMeasuredIsKept == Spec => []StateWasMeasured
<1>1. IInv => StateWasMeasured
  BY DEF IInv, Measured
<1>2. QED
  BY <1>1, Inductive, PTL

(* A run of population-monitor.yml that is green without a word has judged. *)
THEOREM GreenIsNeverSilent == Spec => []NeverSilentlyGreen
<1>1. IInv => NeverSilentlyGreen
  BY DEF IInv, Spoken, NeverSilentlyGreen
<1>2. QED
  BY <1>1, Inductive, PTL

-----------------------------------------------------------------------------
(* The shrinkage rule alone, as its signature has it.                       *)
VARIABLES number, prior, then, verdict

Watch == INSTANCE ShrinkageWatch WITH truth <- number

(* For every cap: no verdict of rule_claimed_population_shrinks is wrong    *)
(* about the population behind the two readings, when it is handed the      *)
(* dictionary its signature asks for.                                       *)
THEOREM VerdictsAreSound == Watch!Spec => []Watch!VerdictSound
<1>1. Watch!Init => Watch!TypeOK /\ Watch!VerdictSound
  BY DEF Watch!Init, Watch!TypeOK, Watch!VerdictSound, Watch!NoVerdict, Watch!Statuses
<1>2. Watch!TypeOK /\ Watch!VerdictSound /\ [Watch!Next]_(Watch!vars)
        => Watch!TypeOK' /\ Watch!VerdictSound'
  <2> SUFFICES ASSUME Watch!TypeOK, Watch!VerdictSound, [Watch!Next]_(Watch!vars)
               PROVE  Watch!TypeOK' /\ Watch!VerdictSound'
    OBVIOUS
  <2>1. CASE Watch!Change
    BY <2>1 DEF Watch!Change, Watch!TypeOK, Watch!VerdictSound
  <2>2. CASE Watch!Observe
    <3>1. Watch!Observed(number) \in Nat /\ Watch!Observed(then) \in Nat
      BY CapAssumption DEF Watch!Observed, Watch!TypeOK
    <3>2. CASE prior.kind # "dict"
      <4>1. prior \in {Watch!Absent, Watch!Malformed}
        BY <3>2 DEF Watch!TypeOK, Watch!Dict
      <4>2. verdict' = [status |-> "n-a", compared |-> FALSE, was |-> then, is |-> number]
        <5>1. prior.kind \in {"none", "malformed"}
          BY <4>1 DEF Watch!Absent, Watch!Malformed
        <5>2. Watch!Shrinks(prior, Watch!Observed(number)) = "n-a"
          BY <5>1 DEF Watch!Shrinks
        <5>3. QED
          BY <2>2, <3>2, <5>2 DEF Watch!Observe, Watch!Judgement
      <4>3. QED
        BY <2>2, <4>2 DEF Watch!Observe, Watch!TypeOK, Watch!VerdictSound, Watch!Statuses
    <3>3. CASE prior.kind = "dict"
      <4>1. prior = Watch!Dict(Watch!Observed(then))
        BY <3>3 DEF Watch!TypeOK, Watch!Absent, Watch!Malformed
      <4>2. prior.count = Watch!Observed(then)
        BY <4>1 DEF Watch!Dict
      <4> DEFINE now == Watch!Observed(number)
                 before == Watch!Observed(then)
                 status == IF now >= Cap /\ before >= Cap THEN "n-a"
                           ELSE IF now > before THEN "fail" ELSE "pass"
      <4>3. verdict' = [status |-> status, compared |-> TRUE, was |-> then, is |-> number]
        BY <2>2, <3>3, <4>2 DEF Watch!Observe, Watch!Judgement, Watch!Shrinks
      <4>4. Watch!VerdictSound'
        BY <4>3, CapAssumption DEF Watch!VerdictSound, Watch!Observed, Watch!TypeOK
      <4>5. Watch!TypeOK'
        BY <2>2, <4>3 DEF Watch!Observe, Watch!TypeOK, Watch!Statuses
      <4>6. QED
        BY <4>4, <4>5
    <3>4. QED
      BY <3>2, <3>3
  <2>3. CASE Watch!Unread
    BY <2>3 DEF Watch!Unread, Watch!NoVerdict, Watch!TypeOK, Watch!VerdictSound, Watch!Statuses
  <2>4. CASE Watch!Lose
    BY <2>4 DEF Watch!Lose, Watch!TypeOK, Watch!VerdictSound
  <2>5. CASE UNCHANGED Watch!vars
    BY <2>5 DEF Watch!vars, Watch!TypeOK, Watch!VerdictSound
  <2>6. QED
    BY <2>1, <2>2, <2>3, <2>4, <2>5 DEF Watch!Next
<1>3. QED
  BY <1>1, <1>2, PTL DEF Watch!Spec
=============================================================================
