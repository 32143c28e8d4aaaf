---------------------------- MODULE PoolHandoff -----------------------------
(* One run of a caller whose workflow, and whose pool, pass the rules: the  *)
(* pool provisions a lease and publishes its identity, consumers work on its *)
(* runners, closers give the lease back, and the run may be cancelled.      *)
(* The job graphs are those of fixtures/pool_handoff; what GitHub does with *)
(* them is external.                                                        *)
EXTENDS HandoffRules

CONSTANTS
    Callers, Pools   \* the documents a run may start from

ASSUME DocumentAssumption ==
    Callers \subseteq CallerDoc /\ Pools \subseteq PoolDoc

VARIABLES
    caller, pool,  \* the two documents
    chance,        \* what "other" and "manual" come to in this run
    status,        \* of the caller's jobs
    provision,     \* of the pool's producing job
    rollback,      \* of the pool's closing jobs
    named,         \* the identity has been written to the step's output
    lease,         \* none, open, closed
    targets,       \* what runner-targets names: the pool's runners or hosted
    slot,          \* of each consumer, the runner that is meant for it
    cancelled      \* the run has been cancelled

docs == <<caller, pool, chance>>
vars == <<caller, pool, chance, status, provision, rollback, named, lease,
          targets, slot, cancelled>>

Ended == {"success", "failure", "cancelled", "skipped"}
Status == {"waiting", "queued", "running"} \cup Ended

(* The two documents, the jobs, the lease and the runners have their types. *)
TypeOK ==
    /\ caller \in CallerDoc /\ pool \in PoolDoc /\ chance \in BOOLEAN
    /\ status \in [Job -> Status]
    /\ provision \in {"waiting", "running", "success", "failure", "cancelled"}
    /\ rollback \in [Inner -> {"waiting"} \cup Ended]
    /\ named \in BOOLEAN
    /\ lease \in {"none", "open", "closed"}
    /\ targets \in {"none", "pool", "hosted"}
    /\ slot \in [Consumer -> {"none", "online", "gone"}]
    /\ cancelled \in BOOLEAN

Init ==
    /\ caller \in {c \in Callers : CallerPasses(c)}
    /\ pool \in {p \in Pools : PoolPasses(p)}
    /\ chance \in BOOLEAN
    /\ status = [j \in Job |-> "waiting"]
    /\ provision = "waiting"
    /\ rollback = [k \in Inner |-> "waiting"]
    /\ named = FALSE
    /\ lease = "none"
    /\ targets = "none"
    /\ slot = [c \in Consumer |-> "none"]
    /\ cancelled = FALSE

-----------------------------------------------------------------------------
(* Conditions, as GitHub evaluates them. The results of jobs that are not   *)
(* needed are empty; one with no status function gets success().            *)

(* What the caller's jobs see of the identity.                              *)
Published ==
    status[Pool] = "success" /\ named /\ pool.exports /\ pool.output = "producer"

ResultOf(j, n) == IF n \in caller.needs[j] THEN status[n] ELSE "none"

AllSucceeded(j) == ~cancelled /\ \A n \in caller.needs[j] : status[n] = "success"
SomeFailed(j) == ~cancelled /\ \E n \in caller.needs[j] : status[n] = "failure"

TermHolds(j, t) ==
    \/ t = "always"
    \/ t = "cancelled" /\ cancelled
    \/ t = "not_cancelled" /\ ~cancelled
    \/ t = "success" /\ AllSucceeded(j)
    \/ t = "not_success" /\ ~AllSucceeded(j)
    \/ t = "failure" /\ SomeFailed(j)
    \/ t = "not_failure" /\ ~SomeFailed(j)
    \/ t = "producer_failed" /\ ResultOf(j, Pool) # "success"
    \/ t = "producer_succeeded" /\ ResultOf(j, Pool) = "success"
    \/ t = "work_succeeded" /\ \A w \in Consumer : ResultOf(j, w) = "success"
    \/ t = "identity" /\ Pool \in caller.needs[j] /\ Published
    \/ t \in {"manual", "other"} /\ chance

Full(cond) == IF cond \cap StatusFunctions = {} THEN cond \cup {"success"} ELSE cond

Runs(j) == \A t \in Full(caller.cond[j]) : TermHolds(j, t)

Due(j) == status[j] = "waiting" /\ \A n \in caller.needs[j] : status[n] \in Ended

(* The same for a closing job inside the pool, whose only possible need is   *)
(* the producer.                                                            *)
Result == IF provision \in Ended THEN provision ELSE "none"
InnerHolds(k, t) ==
    LET sees == IF pool.closer[k].needs THEN Result ELSE "none"
        succeeded == ~cancelled /\ sees \in {"none", "success"}
        failed == ~cancelled /\ sees = "failure"
    IN  \/ t = "always"
        \/ t = "cancelled" /\ cancelled
        \/ t = "not_cancelled" /\ ~cancelled
        \/ t = "success" /\ succeeded
        \/ t = "not_success" /\ ~succeeded
        \/ t = "failure" /\ failed
        \/ t = "not_failure" /\ ~failed
        \/ t = "producer_failed" /\ sees # "success"
        \/ t = "producer_succeeded" /\ sees = "success"
        \/ t = "identity" /\ pool.closer[k].needs /\ named /\ pool.exports
        \/ t = "manual" /\ chance /\ ~pool.dispatchOnly
        \/ t = "other" /\ chance

InnerRuns(k) == \A t \in Full(pool.closer[k].cond) : InnerHolds(k, t)

-----------------------------------------------------------------------------
(* The jobs of the caller.                                                  *)

(* A job whose needs have ended is started or skipped; a consumer that runs  *)
(* on the pool's own runners has to wait for one, and one that sees no       *)
(* runner-targets cannot be placed.                                         *)
Schedule(j) ==
    /\ Due(j)
    /\ status' = [status EXCEPT ![j] =
           IF ~Runs(j) THEN "skipped"
           ELSE IF j \notin Consumer THEN "running"
           ELSE IF ResultOf(j, Pool) # "success" THEN "failure"
           ELSE IF targets = "pool" THEN "queued" ELSE "running"]
    /\ provision' = IF j = Pool /\ Runs(j) THEN "running" ELSE provision
    /\ UNCHANGED <<docs, rollback, named, lease, targets, slot, cancelled>>

PickUp(w) ==
    /\ status[w] = "queued" /\ slot[w] = "online"
    /\ status' = [status EXCEPT ![w] = "running"]
    /\ UNCHANGED <<docs, provision, rollback, named, lease, targets, slot, cancelled>>

Finish(j) ==
    /\ j \in Consumer \cup Other /\ status[j] = "running"
    /\ \E result \in {"success", "failure"} : status' = [status EXCEPT ![j] = result]
    /\ UNCHANGED <<docs, provision, rollback, named, lease, targets, slot, cancelled>>

(* runner-teardown.yml closes the lease it is told of; it may be told wrongly *)
(* (agrees is FALSE), or fail, and without an identity it does nothing.      *)
Identifies(k) == Published /\ caller.receives[k] /\ Pool \in caller.needs[k]

FinishCloser(k) ==
    /\ status[k] = "running"
    /\ \/ /\ status' = [status EXCEPT ![k] = "success"]
          /\ lease' = IF Identifies(k) /\ caller.agrees[k] THEN "closed" ELSE lease
       \/ /\ status' = [status EXCEPT ![k] = "failure"]
          /\ UNCHANGED lease
    /\ UNCHANGED <<docs, provision, rollback, named, targets, slot, cancelled>>

(* Of a cancelled run GitHub stops every job whose condition does not hold   *)
(* any more; the pool's own jobs are stopped one by one (CancelProvision).   *)
Stop(j) ==
    /\ cancelled /\ j # Pool
    /\ status[j] \in {"queued", "running"}
    /\ ~Runs(j)
    /\ status' = [status EXCEPT ![j] = "cancelled"]
    /\ UNCHANGED <<docs, provision, rollback, named, lease, targets, slot, cancelled>>

(* The jobs that need nothing are started with the run.                     *)
Cancel ==
    /\ ~cancelled
    /\ \A j \in Job : caller.needs[j] = {} => status[j] # "waiting"
    /\ \E j \in Job : status[j] \notin Ended
    /\ cancelled' = TRUE
    /\ UNCHANGED <<docs, status, provision, rollback, named, lease, targets, slot>>

-----------------------------------------------------------------------------
(* The producing job of the pool.                                           *)

ProvisionEnds(result) ==
    /\ provision = "running"
    /\ provision' = result
    /\ UNCHANGED <<docs, status, rollback, cancelled>>

CreateLease ==
    /\ provision = "running" /\ lease = "none"
    /\ lease' = "open"
    /\ UNCHANGED <<docs, status, provision, rollback, named, targets, slot, cancelled>>

(* The identity is written next to its assignment ...                        *)
WriteIdentity ==
    /\ provision = "running" /\ lease = "open" /\ ~named
    /\ pool.emits = "level"
    /\ named' = TRUE
    /\ UNCHANGED <<docs, status, provision, rollback, lease, targets, slot, cancelled>>

(* ... or in the branch of a success; a run block that stops before it, at   *)
(* an exit or at a command that fails, never gets there.                     *)
MayStop ==
    \/ lease = "none" \/ named
    \/ pool.between # "nothing" \/ pool.emits # "level"

ProvisionFails ==
    /\ MayStop
    /\ ProvisionEnds("failure")
    /\ UNCHANGED <<named, lease, targets, slot>>

ProvisionSucceeds ==
    /\ lease = "open"
    /\ pool.emits = "level" => named
    /\ ProvisionEnds("success")
    /\ named' = (named \/ pool.emits = "deeper")
    /\ \/ /\ targets' = "pool"
          /\ slot' = [w \in Consumer |-> "online"]
       \/ /\ targets' = "hosted"
          /\ UNCHANGED slot
    /\ UNCHANGED lease

(* An unhealthy pool falls back to hosted runners, with no lease at all.     *)
ProvisionFallsBack ==
    /\ lease = "none"
    /\ ProvisionEnds("success")
    /\ targets' = "hosted"
    /\ UNCHANGED <<named, lease, slot>>

CancelProvision ==
    /\ cancelled
    /\ ProvisionEnds("cancelled")
    /\ UNCHANGED <<named, lease, targets, slot>>

-----------------------------------------------------------------------------
(* The closing jobs of the pool, and its result.                            *)

InnerDue(k) ==
    /\ status[Pool] = "running" /\ rollback[k] = "waiting"
    /\ pool.closer[k].there
    /\ pool.closer[k].needs => provision \in Ended

Reclaims(k) ==
    /\ pool.closer[k].canonical /\ pool.closer[k].receives /\ pool.closer[k].needs
    /\ named /\ pool.exports

Rollback(k) ==
    /\ InnerDue(k)
    /\ \/ /\ ~InnerRuns(k)
          /\ rollback' = [rollback EXCEPT ![k] = "skipped"]
          /\ UNCHANGED lease
       \/ /\ InnerRuns(k)
          /\ rollback' = [rollback EXCEPT ![k] = "success"]
          /\ lease' = IF Reclaims(k) THEN "closed" ELSE lease
       \/ /\ InnerRuns(k)
          /\ rollback' = [rollback EXCEPT ![k] = "failure"]
          /\ UNCHANGED lease
    /\ UNCHANGED <<docs, status, provision, named, targets, slot, cancelled>>

FinishPool ==
    /\ status[Pool] = "running" /\ provision \in Ended
    /\ \A k \in Inner : pool.closer[k].there => rollback[k] \in Ended
    /\ status' = [status EXCEPT ![Pool] =
           IF \E k \in Inner : rollback[k] = "failure" THEN "failure" ELSE provision]
    /\ UNCHANGED <<docs, provision, rollback, named, lease, targets, slot, cancelled>>

(* An ephemeral runner that nobody can use yet goes away.                    *)
Expire(w) ==
    /\ status[Pool] = "success"
    /\ slot[w] = "online" /\ status[w] = "waiting" /\ ~Due(w)
    /\ slot' = [slot EXCEPT ![w] = "gone"]
    /\ UNCHANGED <<docs, status, provision, rollback, named, lease, targets, cancelled>>

-----------------------------------------------------------------------------
Over == \A j \in Job : status[j] \in Ended
Stay == Over /\ UNCHANGED vars

Producing ==
    \/ CreateLease \/ WriteIdentity
    \/ ProvisionFails \/ ProvisionSucceeds \/ ProvisionFallsBack \/ CancelProvision

Next ==
    \/ \E j \in Job : Schedule(j) \/ Finish(j) \/ Stop(j)
    \/ \E w \in Consumer : PickUp(w) \/ Expire(w)
    \/ \E k \in Closer : FinishCloser(k)
    \/ \E k \in Inner : Rollback(k)
    \/ Producing \/ FinishPool \/ Cancel
    \/ Stay

Spec == Init /\ [][Next]_vars

(* GitHub starts what is due, and every job ends: a job has a time limit.    *)
Fairness ==
    /\ \A j \in Job : WF_vars(Schedule(j)) /\ WF_vars(Finish(j))
    /\ \A w \in Consumer : WF_vars(PickUp(w))
    /\ \A k \in Closer : WF_vars(FinishCloser(k))
    /\ \A k \in Inner : WF_vars(Rollback(k))
    /\ WF_vars(Producing) /\ WF_vars(FinishPool)

FairSpec == Spec /\ Fairness

-----------------------------------------------------------------------------
(* Properties.                                                              *)

(* The work of a consumer on the pool's runners never outlives the lease:    *)
(* neither the pool's rollback nor the caller's teardown comes too early.    *)
HandoffSurvives ==
    \A w \in Consumer :
        status[w] = "running" /\ targets = "pool" => lease = "open"

(* A teardown that asks for more than always() and the identity, and passes: *)
(* of the other conditions the rule looks for results, and for these only in *)
(* jobs whose name says what they do.                                       *)
UnseenGate(k) ==
    k \notin ResultGated(caller) /\ caller.cond[k] \ {"always", "identity"} # {}

(* Why a lease has no name: the provision was cancelled before it wrote one, *)
(* the rule did not see the assignment, or a provision failed in a way that  *)
(* the rule does not take for a way out.                                     *)
Nameless ==
    /\ ~named
    /\ \/ provision = "cancelled"
       \/ pool.seen # "this"
       \/ provision = "failure" /\ pool.between = "command"

(* When the run is over a lease is open only if it is one of the nameless, or *)
(* some closer went red, or was kept out or stopped by an unseen gate.       *)
NothingLeaksQuietly ==
    Over /\ lease = "open" =>
        \/ Nameless
        \/ \E k \in Closer : status[k] = "failure"
        \/ \E k \in Closer : status[k] \in {"skipped", "cancelled"} /\ UnseenGate(k)
        \/ \E k \in Inner : rollback[k] = "failure"

(* A consumer finds its runner gone only if it waits for another consumer.   *)
OnlySiblingsStarve ==
    \A w \in Consumer :
        slot[w] = "gone" => caller.needs[w] \cap Consumer # {}

(* Status functions that hold, or may hold, in a cancelled run, and that are *)
(* not always(): the rule takes them for the pool's own.                     *)
HoldCancelled == {"cancelled", "not_failure", "not_success"}

(* The needs that put a pool in its place are no gate: what skips it is a    *)
(* cancelled run or a condition that it spells out itself, success() and     *)
(* !failure() among them; and a cancelled run provisions it only on a        *)
(* condition that asks for nothing a cancelled run has not.                  *)
OrderIsNoGate ==
    /\ [](status[Pool] = "skipped" /\ caller.needs[Pool] # {} =>
             cancelled \/ caller.cond[Pool] \ {"not_cancelled"} # {})
    /\ [][(cancelled /\ caller.needs[Pool] # {}
             /\ provision = "waiting" /\ provision' = "running")
             => caller.cond[Pool] \cap StatusFunctions \subseteq HoldCancelled]_vars

(* Where no consumer waits for another one nobody waits for ever, and the    *)
(* run ends.                                                                 *)
RunEnds ==
    (\A w \in Consumer : caller.needs[w] \cap Consumer = {}) => <>Over

(* Who is responsible for the lease, and who works on it.                    *)
Owner ==
    IF lease = "none" THEN "nobody"
    ELSE IF provision = "success" THEN "caller" ELSE "pool"
Using == {w \in Consumer : status[w] = "running" /\ targets = "pool"}

Ownership == INSTANCE LeaseOwnership WITH
    User <- Consumer, owner <- Owner, using <- Using

(* The promise of the handoff, as LeaseOwnership states it: the pool rolls    *)
(* back what it has not handed over, and only the caller closes what it has,  *)
(* when nobody uses it.                                                      *)
OwnsUntilHandoff == Ownership!Spec
=============================================================================
