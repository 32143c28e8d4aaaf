-------------------------- MODULE PopulationMonitor --------------------------
(* population-monitor.yml: every six hours the job restores the last        *)
(* observation from the cache, lists the organisation's registrations, reads *)
(* their total, compares it with that observation, writes the new one to the *)
(* job's disk and, if it ends green, the cache action stores the file.      *)
EXTENDS PopulationRules, Sequences, SequencesExt

CONSTANTS
    MaxRuns,   \* bound on the runs of the workflow
    Largest    \* bound on the population

ASSUME BoundAssumption == MaxRuns \in Nat /\ Largest \in Nat

VARIABLES
    truth,     \* [all, ours]: the registrations, and those under a claimed prefix
    cache,     \* the cache entries "population-state-<run>", oldest first
    job,       \* the run in progress, or the last one
    runs,      \* run ids given out
    counts     \* the totals that were read so far

vars == <<truth, cache, job, runs, counts>>

None == [is |-> "none"]
Count(n) == [is |-> "count", n |-> n]

(* A reading of the total, or none. *)
Reading == {None} \cup [is: {"count"}, n: 0..Largest]

Phases == {"idle", "listing", "total", "judge", "report", "store", "over"}

Job == [
    phase: Phases,
    run: 0..MaxRuns,
    hit: BOOLEAN,                          \* the cache had this run's own key
    file: Reading,                         \* population-state.json
    current: Reading,
    prior: BOOLEAN,                        \* an observation had been restored
    matches: Statuses \cup {"none"},       \* what the two rules returned
    shrinks: Statuses \cup {"none"},
    warned: BOOLEAN,                       \* JUDGED NOTHING was printed
    exit: {"running", "green", "red", "traceback", "cancelled"}]

(* The cache, the job and the readings have their types.                    *)
TypeOK ==
    /\ truth \in {t \in [all: 0..Largest, ours: 0..Largest] : t.ours <= t.all}
    /\ cache \in Seq([run: 0..MaxRuns, n: 0..Largest])
    /\ runs \in 0..MaxRuns
    /\ counts \subseteq 0..Largest
    /\ job \in Job

NoJob == [phase |-> "idle", run |-> 0, hit |-> FALSE, file |-> None,
          current |-> None, prior |-> FALSE, matches |-> "none",
          shrinks |-> "none", warned |-> FALSE, exit |-> "running"]

Init ==
    /\ truth \in {t \in [all: 0..Largest, ours: 0..Largest] : t.ours <= t.all}
    /\ cache = <<>>
    /\ job = NoJob
    /\ runs = 0
    /\ counts = {}

-----------------------------------------------------------------------------
(* The organisation and the cache service.                                  *)

PopulationChanges ==
    /\ truth' \in {t \in [all: 0..Largest, ours: 0..Largest] : t.ours <= t.all} \ {truth}
    /\ UNCHANGED <<cache, job, runs, counts>>

Evict(k) ==
    /\ cache' = RemoveAt(cache, k)
    /\ UNCHANGED <<truth, job, runs, counts>>

(* An exact hit on the key, or else the newest entry that restore-keys finds. *)
Own(r) == {k \in DOMAIN cache : cache[k].run = r}
Restorable(r) ==
    IF Own(r) # {} THEN {Count(cache[k].n) : k \in Own(r)}
    ELSE IF cache # <<>> THEN {Count(cache[Len(cache)].n)}
    ELSE {None}

-----------------------------------------------------------------------------
(* The job.                                                                 *)

(* A cron or a dispatch makes a new run, "re-run" an old one again; the     *)
(* concurrency group lets one run at a time.                                *)
Start(r) ==
    /\ job.phase \in {"idle", "over"}
    /\ r \in 1..(runs + 1) /\ r <= MaxRuns
    /\ runs' = IF r > runs THEN r ELSE runs
    /\ \E file \in Restorable(r) :
        job' = [NoJob EXCEPT !.phase = "listing", !.run = r,
                    !.hit = Own(r) # {}, !.file = file]
    /\ UNCHANGED <<truth, cache, counts>>

Ends(how) == job' = [job EXCEPT !.phase = "over", !.exit = how]

(* gh fails, and the rule says n/a; or it outlasts the 60 seconds of _gh,   *)
(* an exception that nobody catches.                                        *)
Listing ==
    /\ job.phase = "listing"
    /\ \/ \E s \in {"n-a", Matches(truth.all, truth.ours)} :
            job' = [job EXCEPT !.phase = "total", !.matches = s]
       \/ Ends("traceback")
    /\ UNCHANGED <<truth, cache, runs, counts>>

ReadTotal ==
    /\ job.phase = "total"
    /\ \/ /\ job' = [job EXCEPT !.phase = "judge", !.current = Count(Observed(truth.all))]
          /\ counts' = counts \cup {Observed(truth.all)}
       \/ /\ job' = [job EXCEPT !.phase = "judge"]
          /\ UNCHANGED counts
       \/ Ends("traceback") /\ UNCHANGED counts
    /\ UNCHANGED <<truth, cache, runs>>

(* Bug: the file is written whatever was read.                              *)
WrittenAlways(current, file) == IF current = None THEN Count(0) ELSE current

Written(current, file) == IF current = None THEN file ELSE current

(* What the file holds under org_runners is a number.                       *)
Previous == IF job.file = None THEN Absent ELSE Bare(job.file.n)

Judge ==
    /\ job.phase = "judge"
    /\ LET status == IF job.current = None THEN "none"
                     ELSE Shrinks(Previous, job.current.n)
       IN  IF status = "raises"
           THEN job' = [job EXCEPT !.phase = "over", !.exit = "traceback",
                                   !.prior = TRUE]
           ELSE job' = [job EXCEPT !.phase = "report", !.shrinks = status,
                                   !.prior = job.file # None,
                                   !.file = Written(job.current, job.file)]
    /\ UNCHANGED <<truth, cache, runs, counts>>

(* Bug: a rule that ran counts as one that judged.                          *)
JudgedRan(statuses) == statuses \ {"none"}

Judged(statuses) == statuses \ {"none", "n-a"}

Report ==
    /\ job.phase = "report"
    /\ LET statuses == {job.matches, job.shrinks}
       IN  job' = [job EXCEPT
              !.phase = "store",
              !.warned = Judged(statuses) = {},
              !.exit = IF "fail" \in statuses THEN "red" ELSE "green"]
    /\ UNCHANGED <<truth, cache, runs, counts>>

(* The post step of the cache action: on success only, and not when the key *)
(* was hit.  The service may refuse the entry without failing the job.      *)
Store ==
    /\ job.phase = "store"
    /\ job' = [job EXCEPT !.phase = "over"]
    /\ \/ /\ job.exit = "green" /\ ~job.hit /\ job.file # None
          /\ cache' = Append(cache, [run |-> job.run, n |-> job.file.n])
       \/ UNCHANGED cache
    /\ UNCHANGED <<truth, runs, counts>>

(* By hand, or at the ten minutes of the job.                               *)
Cancel ==
    /\ job.phase \in Phases \ {"idle", "over"}
    /\ Ends("cancelled")
    /\ UNCHANGED <<truth, cache, runs, counts>>

Next ==
    \/ PopulationChanges
    \/ \E k \in DOMAIN cache : Evict(k)
    \/ \E r \in 1..MaxRuns : Start(r)
    \/ Listing \/ ReadTotal \/ Judge \/ Report \/ Store \/ Cancel

Spec == Init /\ [][Next]_vars

-----------------------------------------------------------------------------
(* An observation that is kept was measured, by the run that wrote it or an *)
(* earlier one; a read that failed leaves none behind (l. 110-112).         *)
StateWasMeasured ==
    /\ \A k \in DOMAIN cache : cache[k].n \in counts
    /\ job.file # None => job.file.n \in counts

(* A green run that could not judge anything has said so (l. 136-146).      *)
NeverSilentlyGreen ==
    (job.phase = "over" /\ job.exit = "green" /\ ~job.warned)
        => {job.matches, job.shrinks} \cap {"pass", "warn"} # {}

(* The comment at l. 59-64 on why the observation is stored, and the rule's *)
(* own description: a run that restored an observation and read the count   *)
(* has compared the two, or has said that the cap hides the difference.     *)
PriorIsCompared ==
    (job.phase = "over" /\ job.exit # "cancelled" /\ job.prior /\ job.current # None)
        => job.shrinks \in Statuses
=============================================================================
