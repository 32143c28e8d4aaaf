------------------------- MODULE PoolHandoff_proofs -------------------------
(* Proofs about PoolHandoff, for every set of jobs and of documents: the    *)
(* work outlives neither rollback nor teardown, a runner is lost only to a   *)
(* sibling, and the run keeps the promise of LeaseOwnership.                 *)
EXTENDS PoolHandoff, FiniteSetTheorems, TLAPS

(* The documents that started the run passed the rules.                     *)
DocsPass == CallerPasses(caller) /\ PoolPasses(pool)

(* A job that is past waiting has seen its needs end.                        *)
InOrder ==
    \A j \in Job : status[j] # "waiting" =>
        \A n \in caller.needs[j] : status[n] \in Ended

(* The producer runs on behalf of the pool's job.                            *)
PoolPhase ==
    /\ status[Pool] = "waiting" => provision = "waiting"
    /\ status[Pool] = "success" => provision = "success"

(* A consumer is placed once the pool has succeeded.                         *)
Placed ==
    \A w \in Consumer :
        status[w] \in {"queued", "running"} => status[Pool] = "success"

(* Runners of the pool, and a name for the lease, need a lease.              *)
Backed ==
    /\ targets = "pool" => provision = "success" /\ lease # "none"
    /\ \A w \in Consumer : slot[w] = "online" => targets = "pool"
    /\ named => lease # "none"

(* After the handoff a lease is closed when the work is over.                *)
ClosedLast ==
    lease = "closed" /\ provision = "success" =>
        \A w \in Consumer : status[w] \in Ended

IInv ==
    /\ TypeOK
    /\ DocsPass
    /\ InOrder
    /\ PoolPhase
    /\ Placed
    /\ Backed
    /\ ClosedLast
    /\ OnlySiblingsStarve

-----------------------------------------------------------------------------
(* The type invariant of PoolHandoff is inductive.                           *)
LEMMA TypeInit == Init => TypeOK
<1> SUFFICES ASSUME Init PROVE TypeOK
    OBVIOUS
<1>1. caller \in CallerDoc /\ pool \in PoolDoc /\ chance \in BOOLEAN
    BY DocumentAssumption DEF Init
<1> QED
    BY <1>1 DEF Init, TypeOK, Status, Ended

(* Every step keeps the types.                                              *)
LEMMA TypeStep == TypeOK /\ [Next]_vars => TypeOK'
<1> SUFFICES ASSUME TypeOK, [Next]_vars PROVE TypeOK'
    OBVIOUS
<1> USE DEF TypeOK, Status, Ended, docs
<1>1. ASSUME NEW j \in Job, Schedule(j) PROVE TypeOK'
    BY <1>1 DEF Schedule
<1>2. ASSUME NEW j \in Job, Finish(j) PROVE TypeOK'
    BY <1>2 DEF Finish
<1>3. ASSUME NEW j \in Job, Stop(j) PROVE TypeOK'
    BY <1>3 DEF Stop
<1>4. ASSUME NEW w \in Consumer, PickUp(w) PROVE TypeOK'
    BY <1>4 DEF PickUp, Job
<1>5. ASSUME NEW w \in Consumer, Expire(w) PROVE TypeOK'
    BY <1>5 DEF Expire
<1>6. ASSUME NEW k \in Closer, FinishCloser(k) PROVE TypeOK'
    BY <1>6 DEF FinishCloser, Job
<1>7. ASSUME NEW k \in Inner, Rollback(k) PROVE TypeOK'
    BY <1>7 DEF Rollback
<1>8. CASE Producing
    <2>1. CASE CreateLease BY <2>1 DEF CreateLease
    <2>2. CASE WriteIdentity BY <2>2 DEF WriteIdentity
    <2>3. CASE ProvisionFails BY <2>3 DEF ProvisionFails, ProvisionEnds
    <2>4. CASE ProvisionSucceeds
        BY <2>4 DEF ProvisionSucceeds, ProvisionEnds
    <2>5. CASE ProvisionFallsBack BY <2>5 DEF ProvisionFallsBack, ProvisionEnds
    <2>6. CASE CancelProvision BY <2>6 DEF CancelProvision, ProvisionEnds
    <2> QED BY <1>8, <2>1, <2>2, <2>3, <2>4, <2>5, <2>6 DEF Producing
<1>9. CASE FinishPool
    BY <1>9 DEF FinishPool, Job
<1>10. CASE Cancel
    BY <1>10 DEF Cancel
<1>11. CASE UNCHANGED vars
    BY <1>11 DEF vars
<1> QED
    BY <1>1, <1>2, <1>3, <1>4, <1>5, <1>6, <1>7, <1>8, <1>9, <1>10, <1>11
    DEF Next, Stay

(* Every reachable state of a run is well typed.                             *)
THEOREM TypeCorrect == Spec => []TypeOK
<1> QED
    BY TypeInit, TypeStep, PTL DEF Spec

-----------------------------------------------------------------------------
(* A job that has ended keeps its result.                                    *)
LEMMA EndedStays ==
    ASSUME TypeOK, Next, NEW j \in Job, status[j] \in Ended
    PROVE  status'[j] = status[j]
<1> USE DEF TypeOK, Ended, Status, docs
<1>1. ASSUME NEW i \in Job, Schedule(i) \/ Finish(i) \/ Stop(i)
      PROVE status'[j] = status[j]
    BY <1>1 DEF Schedule, Due, Finish, Stop
<1>2. ASSUME NEW w \in Consumer, PickUp(w) \/ Expire(w)
      PROVE status'[j] = status[j]
    BY <1>2 DEF PickUp, Expire, Job
<1>3. ASSUME NEW k \in Closer, FinishCloser(k) PROVE status'[j] = status[j]
    BY <1>3 DEF FinishCloser, Job
<1>4. ASSUME NEW k \in Inner, Rollback(k) PROVE status'[j] = status[j]
    BY <1>4 DEF Rollback
<1>5. CASE Producing
    BY <1>5 DEF Producing, CreateLease, WriteIdentity, ProvisionFails,
        ProvisionSucceeds, ProvisionFallsBack, CancelProvision, ProvisionEnds
<1>6. CASE FinishPool
    BY <1>6 DEF FinishPool, Job
<1>7. CASE Cancel \/ Stay
    BY <1>7 DEF Cancel, Stay, vars
<1> QED
    BY <1>1, <1>2, <1>3, <1>4, <1>5, <1>6, <1>7 DEF Next

(* The documents do not change in a run.                                     *)
LEMMA DocsStay ==
    ASSUME Next
    PROVE  caller' = caller /\ pool' = pool
<1> USE DEF docs
<1>1. ASSUME NEW j \in Job, Schedule(j) \/ Finish(j) \/ Stop(j)
      PROVE caller' = caller /\ pool' = pool
    BY <1>1 DEF Schedule, Finish, Stop
<1>2. ASSUME NEW w \in Consumer, PickUp(w) \/ Expire(w)
      PROVE caller' = caller /\ pool' = pool
    BY <1>2 DEF PickUp, Expire
<1>3. ASSUME NEW k \in Closer, FinishCloser(k) PROVE caller' = caller /\ pool' = pool
    BY <1>3 DEF FinishCloser
<1>4. ASSUME NEW k \in Inner, Rollback(k) PROVE caller' = caller /\ pool' = pool
    BY <1>4 DEF Rollback
<1>5. CASE Producing
    BY <1>5 DEF Producing, CreateLease, WriteIdentity, ProvisionFails,
        ProvisionSucceeds, ProvisionFallsBack, CancelProvision, ProvisionEnds
<1>6. CASE FinishPool \/ Cancel \/ Stay
    BY <1>6 DEF FinishPool, Cancel, Stay, vars
<1> QED
    BY <1>1, <1>2, <1>3, <1>4, <1>5, <1>6 DEF Next

(* A closing job of the pool that reclaims the lease does so for a producer  *)
(* that has ended without success.                                           *)
LEMMA RollbackIsForFailure ==
    ASSUME PoolPasses(pool), NEW k \in Inner, InnerDue(k), InnerRuns(k)
    PROVE  provision \in Ended /\ provision # "success"
<1>1. pool.closer[k].there /\ (pool.closer[k].needs => provision \in Ended)
    BY DEF InnerDue
<1>2. CASE DispatchOnlyTeardown(pool, k)
    <2>1. "manual" \in Full(pool.closer[k].cond) /\ pool.dispatchOnly
        BY <1>2 DEF DispatchOnlyTeardown, Full
    <2>2. ~InnerHolds(k, "manual")
        BY <2>1 DEF InnerHolds
    <2> QED
        BY <2>1, <2>2 DEF InnerRuns
<1>3. CASE ~DispatchOnlyTeardown(pool, k)
    <2>1. pool.closer[k].needs /\ RollbackCondition(pool.closer[k].cond)
        BY <1>1, <1>3 DEF PoolPasses, CheckHandoff, PoolContract, Teardowns
    <2>2. provision \in Ended
        BY <1>1, <2>1
    <2>3. "producer_failed" \in Full(pool.closer[k].cond)
        BY <2>1 DEF RollbackCondition, Full
    <2>4. InnerHolds(k, "producer_failed")
        BY <2>3 DEF InnerRuns
    <2>5. Result # "success"
        BY <2>1, <2>4 DEF InnerHolds
    <2> QED
        BY <2>2, <2>5 DEF Result
<1> QED
    BY <1>2, <1>3

(* A closer of the caller that knows the lease has waited for all the work.  *)
LEMMA CloserIsLast ==
    ASSUME CallerPasses(caller), InOrder,
           NEW k \in Closer, status[k] = "running", Identifies(k)
    PROVE  \A w \in Consumer : status[w] \in Ended
<1>1. k \in Candidates(caller)
    BY DEF Identifies, Candidates
<1>2. Consumer \subseteq caller.needs[k]
    BY <1>1 DEF CallerPasses, CheckConsumer, WaitsForAll
<1>3. \A n \in caller.needs[k] : status[n] \in Ended
    BY DEF InOrder, Job
<1> QED
    BY <1>2, <1>3

-----------------------------------------------------------------------------
(* Init establishes the strengthening, and every step keeps it.              *)
LEMMA IInvInit == Init => IInv
<1> SUFFICES ASSUME Init PROVE IInv
    OBVIOUS
<1>1. TypeOK
    BY TypeInit
<1>2. DocsPass
    BY DEF Init, DocsPass
<1>3. InOrder /\ PoolPhase /\ Placed /\ Backed /\ ClosedLast /\ OnlySiblingsStarve
    BY DEF Init, InOrder, PoolPhase, Placed, Backed, ClosedLast,
        OnlySiblingsStarve, Job, Ended
<1> QED
    BY <1>1, <1>2, <1>3 DEF IInv

(* A job that has begun has its needs behind it.                            *)
LEMMA OrderStep == IInv /\ Next => InOrder'
<1> SUFFICES ASSUME IInv, Next,
                    NEW j \in Job, status'[j] # "waiting", NEW n \in caller.needs[j]
             PROVE  status'[n] \in Ended
    BY DocsStay DEF InOrder
<1>1. n \in Job
    BY DEF IInv, TypeOK, CallerDoc
<1>2. SUFFICES status[n] \in Ended
    BY <1>1, EndedStays DEF IInv
<1>3. CASE status[j] # "waiting"
    BY <1>3 DEF IInv, InOrder
<1>4. CASE status[j] = "waiting"
    <2> USE <1>4 DEF IInv, TypeOK, docs
    <2>1. ASSUME NEW i \in Job, Schedule(i) PROVE status[n] \in Ended
        BY <2>1 DEF Schedule, Due
    <2>2. ASSUME NEW i \in Job, Finish(i) \/ Stop(i) PROVE FALSE
        BY <2>2 DEF Finish, Stop
    <2>3. ASSUME NEW w \in Consumer, PickUp(w) \/ Expire(w) PROVE FALSE
        BY <2>3 DEF PickUp, Expire, Job
    <2>4. ASSUME NEW k \in Closer, FinishCloser(k) PROVE FALSE
        BY <2>4 DEF FinishCloser, Job
    <2>5. ASSUME NEW k \in Inner, Rollback(k) PROVE FALSE
        BY <2>5 DEF Rollback
    <2>6. CASE Producing
        BY <2>6 DEF Producing, CreateLease, WriteIdentity, ProvisionFails,
            ProvisionSucceeds, ProvisionFallsBack, CancelProvision, ProvisionEnds
    <2>7. CASE FinishPool
        BY <2>7 DEF FinishPool, Job
    <2>8. CASE Cancel \/ Stay
        BY <2>8 DEF Cancel, Stay, vars
    <2> QED
        BY <2>1, <2>2, <2>3, <2>4, <2>5, <2>6, <2>7, <2>8 DEF Next
<1> QED
    BY <1>3, <1>4

(* The status of the pool's job follows the phases of the called workflow.  *)
LEMMA PhaseStep == IInv /\ Next => PoolPhase'
<1> SUFFICES ASSUME IInv, Next PROVE PoolPhase'
    OBVIOUS
<1> USE DEF IInv, TypeOK, PoolPhase, docs
<1>1. ASSUME NEW j \in Job, Schedule(j) PROVE PoolPhase'
    BY <1>1 DEF Schedule, Job
<1>2. ASSUME NEW j \in Job, Finish(j) \/ Stop(j) PROVE PoolPhase'
    BY <1>2, JobAssumption DEF Finish, Stop, Job
<1>3. ASSUME NEW w \in Consumer, PickUp(w) \/ Expire(w) PROVE PoolPhase'
    BY <1>3, JobAssumption DEF PickUp, Expire, Job
<1>4. ASSUME NEW k \in Closer, FinishCloser(k) PROVE PoolPhase'
    BY <1>4, JobAssumption DEF FinishCloser, Job
<1>5. ASSUME NEW k \in Inner, Rollback(k) PROVE PoolPhase'
    BY <1>5 DEF Rollback
<1>6. CASE Producing
    BY <1>6 DEF Producing, CreateLease, WriteIdentity, ProvisionFails,
        ProvisionSucceeds, ProvisionFallsBack, CancelProvision, ProvisionEnds
<1>7. CASE FinishPool
    BY <1>7 DEF FinishPool, Job, Ended
<1>8. CASE Cancel \/ Stay
    BY <1>8 DEF Cancel, Stay, vars
<1> QED
    BY <1>1, <1>2, <1>3, <1>4, <1>5, <1>6, <1>7, <1>8 DEF Next

(* A consumer is placed by a pool that succeeded.                           *)
LEMMA PlacedStep == IInv /\ Next => Placed'
<1> SUFFICES ASSUME IInv, Next,
                    NEW w \in Consumer, status'[w] \in {"queued", "running"}
             PROVE  status'[Pool] = "success"
    BY DEF Placed
<1>1. SUFFICES status[Pool] = "success"
    BY EndedStays DEF IInv, Job, Ended
<1>2. CASE status[w] \in {"queued", "running"}
    BY <1>2 DEF IInv, Placed
<1>3. CASE status[w] \notin {"queued", "running"}
    <2> USE <1>3, JobAssumption DEF IInv, TypeOK, docs
    <2>1. ASSUME NEW j \in Job, Schedule(j) PROVE status[Pool] = "success"
        <3>1. j = w /\ w \in Job
            BY <2>1 DEF Schedule, Job
        <3>2. ResultOf(w, Pool) = "success"
            BY <2>1, <3>1 DEF Schedule
        <3>3. Pool \in caller.needs[w] /\ status[Pool] = "success"
            BY <3>2, Zenon DEF ResultOf
        <3> QED
            BY <3>3
    <2>2. ASSUME NEW j \in Job, Finish(j) \/ Stop(j) PROVE FALSE
        BY <2>2 DEF Finish, Stop, Job
    <2>3. ASSUME NEW v \in Consumer, PickUp(v) \/ Expire(v) PROVE FALSE
        BY <2>3 DEF PickUp, Expire, Job
    <2>4. ASSUME NEW k \in Closer, FinishCloser(k) PROVE FALSE
        BY <2>4 DEF FinishCloser, Job
    <2>5. ASSUME NEW k \in Inner, Rollback(k) PROVE FALSE
        BY <2>5 DEF Rollback
    <2>6. CASE Producing
        BY <2>6 DEF Producing, CreateLease, WriteIdentity, ProvisionFails,
            ProvisionSucceeds, ProvisionFallsBack, CancelProvision, ProvisionEnds
    <2>7. CASE FinishPool
        BY <2>7 DEF FinishPool, Job
    <2>8. CASE Cancel \/ Stay
        BY <2>8 DEF Cancel, Stay, vars
    <2> QED
        BY <2>1, <2>2, <2>3, <2>4, <2>5, <2>6, <2>7, <2>8 DEF Next
<1> QED
    BY <1>2, <1>3

(* A pool's runners, and the lease's name, have a lease behind them.        *)
LEMMA BackedStep == IInv /\ Next => Backed'
<1> SUFFICES ASSUME IInv, Next PROVE Backed'
    OBVIOUS
<1> USE DEF IInv, TypeOK, Backed, docs
<1>1. ASSUME NEW j \in Job, Schedule(j) PROVE Backed'
    BY <1>1 DEF Schedule, Due, PoolPhase
<1>2. ASSUME NEW j \in Job, Finish(j) \/ Stop(j) PROVE Backed'
    BY <1>2 DEF Finish, Stop
<1>3. ASSUME NEW w \in Consumer, PickUp(w) \/ Expire(w) PROVE Backed'
    BY <1>3 DEF PickUp, Expire
<1>4. ASSUME NEW k \in Closer, FinishCloser(k) PROVE Backed'
    BY <1>4 DEF FinishCloser
<1>5. ASSUME NEW k \in Inner, Rollback(k) PROVE Backed'
    BY <1>5 DEF Rollback
<1>6. CASE Producing
    <2>1. CASE CreateLease BY <2>1 DEF CreateLease
    <2>2. CASE WriteIdentity BY <2>2 DEF WriteIdentity
    <2>3. CASE ProvisionFails BY <2>3 DEF ProvisionFails, ProvisionEnds
    <2>4. CASE ProvisionSucceeds
        BY <2>4 DEF ProvisionSucceeds, ProvisionEnds
    <2>5. CASE ProvisionFallsBack BY <2>5 DEF ProvisionFallsBack, ProvisionEnds
    <2>6. CASE CancelProvision BY <2>6 DEF CancelProvision, ProvisionEnds
    <2> QED BY <1>6, <2>1, <2>2, <2>3, <2>4, <2>5, <2>6 DEF Producing
<1>7. CASE FinishPool
    BY <1>7 DEF FinishPool
<1>8. CASE Cancel \/ Stay
    BY <1>8 DEF Cancel, Stay, vars
<1> QED
    BY <1>1, <1>2, <1>3, <1>4, <1>5, <1>6, <1>7, <1>8 DEF Next

(* A lease that was handed over is closed after the last consumer.          *)
LEMMA ClosedStep == IInv /\ Next => ClosedLast'
<1> SUFFICES ASSUME IInv, Next, lease' = "closed", provision' = "success",
                    NEW w \in Consumer
             PROVE  status'[w] \in Ended
    BY DEF ClosedLast
<1>1. w \in Job
    BY DEF Job
<1>2. SUFFICES status[w] \in Ended
    BY <1>1, EndedStays DEF IInv
<1>3. CASE lease = "closed" /\ provision = "success"
    BY <1>3 DEF IInv, ClosedLast
<1>4. CASE ~(lease = "closed" /\ provision = "success")
    <2> USE <1>4 DEF docs
    <2>1. ASSUME NEW j \in Job, Schedule(j) \/ Finish(j) \/ Stop(j) PROVE FALSE
        BY <2>1 DEF Schedule, Finish, Stop
    <2>2. ASSUME NEW v \in Consumer, PickUp(v) \/ Expire(v) PROVE FALSE
        BY <2>2 DEF PickUp, Expire
    <2>3. ASSUME NEW k \in Closer, FinishCloser(k) PROVE status[w] \in Ended
        <3>1. status[k] = "running" /\ Identifies(k)
            BY <2>3 DEF FinishCloser
        <3> QED
            BY <3>1, CloserIsLast DEF IInv, DocsPass
    <2>4. ASSUME NEW k \in Inner, Rollback(k) PROVE FALSE
        <3>1. provision = "success" /\ lease # "closed"
            BY <2>4 DEF Rollback
        <3>2. InnerDue(k) /\ InnerRuns(k)
            BY <2>4, <3>1 DEF Rollback
        <3> QED
            BY <3>1, <3>2, RollbackIsForFailure DEF IInv, DocsPass
    <2>5. CASE Producing
        BY <2>5 DEF Producing, CreateLease, WriteIdentity, ProvisionFails,
            ProvisionSucceeds, ProvisionFallsBack, CancelProvision, ProvisionEnds
    <2>6. CASE FinishPool \/ Cancel \/ Stay
        BY <2>6 DEF FinishPool, Cancel, Stay, vars
    <2> QED
        BY <2>1, <2>2, <2>3, <2>4, <2>5, <2>6 DEF Next
<1> QED
    BY <1>3, <1>4

(* A consumer whose runner is gone waited for another consumer.             *)
LEMMA StarveStep == IInv /\ Next => OnlySiblingsStarve'
<1> SUFFICES ASSUME IInv, Next, NEW w \in Consumer, slot'[w] = "gone"
             PROVE  caller.needs[w] \cap Consumer # {}
    BY DocsStay DEF OnlySiblingsStarve
<1>1. CASE slot[w] = "gone"
    BY <1>1 DEF IInv, OnlySiblingsStarve
<1>2. CASE slot[w] # "gone"
    <2> USE <1>2 DEF IInv, TypeOK, docs
    <2>1. ASSUME NEW j \in Job, Schedule(j) \/ Finish(j) \/ Stop(j) PROVE FALSE
        BY <2>1 DEF Schedule, Finish, Stop
    <2>2. ASSUME NEW v \in Consumer, PickUp(v) PROVE FALSE
        BY <2>2 DEF PickUp
    <2>3. ASSUME NEW v \in Consumer, Expire(v)
          PROVE caller.needs[w] \cap Consumer # {}
        <3>1. status[Pool] = "success" /\ status[w] = "waiting" /\ ~Due(w)
            BY <2>3 DEF Expire
        <3>2. PICK n \in caller.needs[w] : status[n] \notin Ended
            BY <3>1 DEF Due
        <3>3. n # Pool
            BY <3>1, <3>2 DEF Ended
        <3>4. \A m \in caller.needs[Pool] : status[m] \in Ended
            BY <3>1 DEF InOrder, Job
        <3>5. (caller.needs[w] \ {Pool}) \ Consumer \subseteq caller.needs[Pool]
            BY DEF DocsPass, CallerPasses, NotBefore
        <3> QED
            BY <3>2, <3>3, <3>4, <3>5
    <2>4. ASSUME NEW k \in Closer, FinishCloser(k) PROVE FALSE
        BY <2>4 DEF FinishCloser
    <2>5. ASSUME NEW k \in Inner, Rollback(k) PROVE FALSE
        BY <2>5 DEF Rollback
    <2>6. CASE Producing
        BY <2>6 DEF Producing, CreateLease, WriteIdentity, ProvisionFails,
            ProvisionSucceeds, ProvisionFallsBack, CancelProvision, ProvisionEnds
    <2>7. CASE FinishPool \/ Cancel \/ Stay
        BY <2>7 DEF FinishPool, Cancel, Stay, vars
    <2> QED
        BY <2>1, <2>2, <2>3, <2>4, <2>5, <2>6, <2>7 DEF Next
<1> QED
    BY <1>1, <1>2

(* The invariant survives every step.                                       *)
LEMMA IInvStep == IInv /\ [Next]_vars => IInv'
<1> SUFFICES ASSUME IInv, [Next]_vars PROVE IInv'
    OBVIOUS
<1>1. CASE Next
    <2>1. TypeOK' /\ DocsPass'
        BY <1>1, TypeStep, DocsStay DEF IInv, DocsPass
    <2>2. InOrder' /\ PoolPhase' /\ Placed'
        BY <1>1, OrderStep, PhaseStep, PlacedStep
    <2>3. Backed' /\ ClosedLast' /\ OnlySiblingsStarve'
        BY <1>1, BackedStep, ClosedStep, StarveStep
    <2> QED
        BY <2>1, <2>2, <2>3 DEF IInv
<1>2. CASE UNCHANGED vars
    BY <1>2 DEF vars, IInv, TypeOK, DocsPass, InOrder, PoolPhase, Placed, Backed,
        ClosedLast, OnlySiblingsStarve
<1> QED
    BY <1>1, <1>2

(* The invariant of the handoff.                                            *)
LEMMA Invariant == Spec => []IInv
<1> QED
    BY IInvInit, IInvStep, PTL DEF Spec

-----------------------------------------------------------------------------
(* HandoffSurvives: in every run of documents that pass the rules, a         *)
(* consumer at work on the pool's runners has its lease.                     *)
THEOREM WorkKeepsItsLease == Spec => []HandoffSurvives
<1>1. IInv => HandoffSurvives
    BY DEF IInv, TypeOK, Backed, ClosedLast, HandoffSurvives, Ended
<1> QED
    BY <1>1, Invariant, PTL

(* OnlySiblingsStarve: a runner goes away before its consumer comes only if  *)
(* the consumer waits for another consumer of the pool.                      *)
THEOREM RunnersWait == Spec => []OnlySiblingsStarve
<1>1. IInv => OnlySiblingsStarve
    BY DEF IInv
<1> QED
    BY <1>1, Invariant, PTL

-----------------------------------------------------------------------------
(* The refinement: which step of LeaseOwnership each step of a run is.       *)
Unseen == lease' = lease /\ Owner' = Owner /\ Using' = Using

(* What the abstract specification does not see is a stutter of it.         *)
LEMMA UnseenStutters == Unseen => UNCHANGED Ownership!vars
<1> QED
    BY DEF Unseen, Ownership!vars

(* Nobody uses the lease while its producer runs, or once it is closed.      *)
LEMMA NobodyYet == IInv /\ provision # "success" => Using = {}
<1> QED
    BY DEF IInv, Backed, Using

(* ... nor after it was closed.                                             *)
LEMMA NobodyAfter == IInv /\ lease = "closed" => Using = {}
<1> QED
    BY DEF IInv, Backed, ClosedLast, Using, Ended

(* Provisioning acquires, keeps or gives up the lease, or is not seen.      *)
LEMMA ProducingRefines ==
    ASSUME IInv, IInv', Producing
    PROVE  Ownership!Next \/ Unseen
<1>1. provision = "running" /\ Using = {} /\ status' = status
    <2>1. provision = "running" /\ status' = status
        BY DEF Producing, CreateLease, WriteIdentity, ProvisionFails,
            ProvisionSucceeds, ProvisionFallsBack, CancelProvision,
            ProvisionEnds
    <2> QED
        BY <2>1, NobodyYet
<1>2. Using' = {}
    <2>1. ASSUME NEW w \in Consumer, status[w] = "running" PROVE FALSE
        <3>1. status[Pool] = "success"
            BY <2>1 DEF IInv, Placed
        <3>2. provision = "success"
            BY <3>1 DEF IInv, PoolPhase
        <3> QED
            BY <1>1, <3>2
    <2> QED
        BY <1>1, <2>1 DEF Using
<1>3. CASE CreateLease
    <2>1. lease = "none" /\ lease' = "open" /\ Owner' = "pool" /\ Using' = Using
        BY <1>1, <1>2, <1>3 DEF CreateLease, Owner
    <2> QED
        BY <2>1 DEF Ownership!Next, Ownership!Create
<1>4. CASE WriteIdentity \/ ProvisionFails \/ CancelProvision
    <2>1. lease' = lease /\ provision' # "success"
        BY <1>1, <1>4 DEF WriteIdentity, ProvisionFails, CancelProvision,
            ProvisionEnds
    <2> QED
        BY <1>1, <1>2, <2>1 DEF Unseen, Owner
<1>5. CASE ProvisionSucceeds
    <2>1. lease = "open" /\ lease' = lease /\ provision' = "success"
        BY <1>5 DEF ProvisionSucceeds, ProvisionEnds
    <2>2. Owner = "pool" /\ Owner' = "caller" /\ Using' = Using
        BY <1>1, <1>2, <2>1 DEF Owner
    <2> QED
        BY <2>1, <2>2 DEF Ownership!Next, Ownership!HandOver
<1>6. CASE ProvisionFallsBack
    <2>1. lease = "none" /\ lease' = lease
        BY <1>6 DEF ProvisionFallsBack
    <2> QED
        BY <1>1, <1>2, <2>1 DEF Unseen, Owner
<1> QED
    BY <1>3, <1>4, <1>5, <1>6 DEF Producing

(* The closing by the caller is the owner's release, or is not seen.        *)
LEMMA ClosingRefines ==
    ASSUME IInv, IInv', NEW k \in Closer, FinishCloser(k)
    PROVE  Ownership!Next \/ Unseen
<1>1. provision' = provision /\ Using' = Using
    <2>1. \A w \in Consumer : status'[w] = status[w]
        BY JobAssumption DEF FinishCloser, IInv, TypeOK, Job
    <2> QED
        BY <2>1 DEF FinishCloser, Using
<1>2. CASE lease' = lease
    BY <1>1, <1>2 DEF Unseen, Owner
<1>3. CASE lease' # lease
    <2>1. lease' = "closed" /\ Identifies(k) /\ status[k] = "running"
        BY <1>3 DEF FinishCloser
    <2>2. status[Pool] = "success" /\ named
        BY <2>1 DEF Identifies, Published
    <2>3. provision = "success" /\ lease = "open"
        BY <1>3, <2>1, <2>2 DEF IInv, TypeOK, PoolPhase, Backed
    <2>4. \A w \in Consumer : status[w] \in Ended
        BY <2>1, CloserIsLast DEF IInv, DocsPass
    <2>5. Using = {}
        BY <2>4 DEF Using, Ended
    <2>6. Owner = "caller" /\ Owner' = Owner
        BY <1>1, <2>1, <2>3 DEF Owner
    <2> QED
        BY <1>1, <2>1, <2>3, <2>5, <2>6 DEF Ownership!Next, Ownership!Close
<1> QED
    BY <1>2, <1>3

(* The rollback inside of the pool is the producer's release.               *)
LEMMA RollbackRefines ==
    ASSUME IInv, IInv', NEW k \in Inner, Rollback(k)
    PROVE  Ownership!Next \/ Unseen
<1>1. provision' = provision /\ Using' = Using
    BY DEF Rollback, Using
<1>2. CASE lease' = lease
    BY <1>1, <1>2 DEF Unseen, Owner
<1>3. CASE lease' # lease
    <2>1. lease' = "closed" /\ Reclaims(k) /\ InnerDue(k) /\ InnerRuns(k)
        BY <1>3 DEF Rollback
    <2>2. lease = "open"
        BY <1>3, <2>1 DEF Reclaims, IInv, TypeOK, Backed
    <2>3. provision # "success"
        BY <2>1, RollbackIsForFailure DEF IInv, DocsPass
    <2>4. Owner = "pool" /\ Owner' = Owner
        BY <1>1, <2>1, <2>2, <2>3 DEF Owner
    <2> QED
        BY <1>1, <2>1, <2>2, <2>4 DEF Ownership!Next, Ownership!RollBack
<1> QED
    BY <1>2, <1>3

(* A job that starts, ends or is stopped uses the lease or leaves it.       *)
LEMMA JobRefines ==
    ASSUME IInv, IInv', NEW j \in Job, Schedule(j) \/ Finish(j) \/ Stop(j)
    PROVE  Ownership!Next \/ Unseen
<1>1. lease' = lease /\ targets' = targets
    BY DEF Schedule, Finish, Stop
<1>2. Owner' = Owner
    <2>1. CASE provision' = provision
        BY <1>1, <2>1 DEF Owner
    <2>2. CASE provision' # provision
        <3>1. j = Pool /\ status[Pool] = "waiting" /\ provision' = "running"
            BY <2>2 DEF Schedule, Finish, Stop, Due
        <3>2. provision = "waiting"
            BY <3>1 DEF IInv, PoolPhase
        <3> QED
            BY <1>1, <3>1, <3>2 DEF Owner
    <2> QED
        BY <2>1, <2>2
<1>3. CASE Schedule(j)
    <2>1. targets = "pool" => \A w \in Consumer :
              (status'[w] = "running") <=> (status[w] = "running")
        BY <1>3 DEF Schedule, Due, IInv, TypeOK, Job
    <2>2. Using' = Using
        BY <1>1, <2>1 DEF Using
    <2> QED
        BY <1>1, <1>2, <2>2 DEF Unseen
<1>4. CASE (Finish(j) \/ Stop(j)) /\ j \in Consumer
    <2>1. \A w \in Consumer :
              (status'[w] = "running") <=> (status[w] = "running" /\ w # j)
        BY <1>4 DEF Finish, Stop, IInv, TypeOK, Job
    <2>2. Using' = Using \ {j}
        BY <1>1, <2>1 DEF Using
    <2> QED
        BY <1>1, <1>2, <1>4, <2>2 DEF Ownership!Next, Ownership!End
<1>5. CASE (Finish(j) \/ Stop(j)) /\ j \notin Consumer
    <2>1. \A w \in Consumer : status'[w] = status[w]
        BY <1>5 DEF Finish, Stop, IInv, TypeOK, Job
    <2>2. Using' = Using
        BY <1>1, <2>1 DEF Using
    <2> QED
        BY <1>1, <1>2, <2>2 DEF Unseen
<1> QED
    BY <1>3, <1>4, <1>5

(* A consumer that finds a runner uses the lease of its owner.              *)
LEMMA PickUpRefines ==
    ASSUME IInv, IInv', NEW v \in Consumer, PickUp(v)
    PROVE  Ownership!Next \/ Unseen
<1>1. status[v] = "queued" /\ targets = "pool" /\ targets' = targets
    BY DEF PickUp, IInv, Backed
<1>2. provision = "success" /\ provision' = provision /\ lease' = lease
    BY <1>1 DEF PickUp, IInv, Backed
<1>3. lease = "open"
    BY <1>1, <1>2 DEF IInv, TypeOK, Backed, ClosedLast, Ended
<1>4. Owner = "caller" /\ Owner' = Owner
    BY <1>2, <1>3 DEF Owner
<1>5. \A w \in Consumer :
          (status'[w] = "running") <=> (status[w] = "running" \/ w = v)
    BY DEF PickUp, IInv, TypeOK, Job
<1>6. Using' = Using \cup {v}
    BY <1>1, <1>5 DEF Using
<1> QED
    BY <1>2, <1>3, <1>4, <1>6 DEF Ownership!Next, Ownership!Begin

(* Cancellation and the runners' ends are not seen.                         *)
LEMMA RestRefines ==
    ASSUME IInv, IInv', FinishPool \/ Cancel \/ UNCHANGED vars \/ \E w \in Consumer : Expire(w)
    PROVE  Unseen
<1>1. lease' = lease /\ provision' = provision /\ targets' = targets
    BY DEF FinishPool, Cancel, Expire, vars
<1>2. \A w \in Consumer : status'[w] = status[w]
    BY JobAssumption DEF FinishPool, Cancel, Expire, vars, IInv, TypeOK, Job
<1> QED
    BY <1>1, <1>2 DEF Unseen, Owner, Using

(* OwnsUntilHandoff: every run of documents that pass the rules keeps the    *)
(* promise of LeaseOwnership.                                               *)
THEOREM HandoffIsOwned == Spec => OwnsUntilHandoff
<1>1. Init => Ownership!Init
    BY DEF Init, Ownership!Init, Owner, Using
<1>2. IInv /\ IInv' /\ [Next]_vars => [Ownership!Next]_(Ownership!vars)
    <2> SUFFICES ASSUME IInv, IInv', [Next]_vars
                 PROVE  Ownership!Next \/ Unseen
        BY UnseenStutters
    <2> QED
        BY ProducingRefines, ClosingRefines, RollbackRefines, JobRefines,
           PickUpRefines, RestRefines DEF Next, Stay
<1> QED
    BY <1>1, <1>2, Invariant, PTL DEF Spec, OwnsUntilHandoff, Ownership!Spec

-----------------------------------------------------------------------------
(* What the end of a run says about its lease. While the producer has not    *)
(* begun there is none; where the rule saw the assignment a success has      *)
(* named it, and so has a failure unless a command stood in between.         *)
Writes ==
    /\ provision = "waiting" => lease = "none"
    /\ provision = "success" /\ lease # "none" /\ pool.seen = "this" => named
    /\ provision = "failure" /\ lease = "open" /\ ~named /\ pool.seen = "this" =>
           pool.between = "command"

(* The pool's job ends after its producer and its closing jobs.              *)
PoolEnds ==
    status[Pool] \in Ended /\ provision # "waiting" =>
        /\ provision \in Ended
        /\ \A k \in Inner : pool.closer[k].there => rollback[k] \in Ended
        /\ \/ provision = "success" => status[Pool] = "success"
           \/ \E k \in Inner : rollback[k] = "failure"

(* A rollback stays out for a success only, and reclaims what was named.     *)
RolledBack ==
    \A k \in Teardowns(pool) :
        /\ rollback[k] # "waiting" => provision \in Ended
        /\ rollback[k] # "cancelled"
        /\ rollback[k] = "skipped" => provision = "success"
        /\ rollback[k] = "success" /\ named => lease # "open"

(* The caller's closer stays out, or is stopped, behind a gate only, and     *)
(* closes what it was told of.                                               *)
TornDown ==
    \A k \in Candidates(caller) :
        /\ Published /\ status[k] = "success" => lease # "open"
        /\ Published /\ status[k] \in {"skipped", "cancelled"} => UnseenGate(k)

LInv == Writes /\ PoolEnds /\ RolledBack /\ TornDown

(* What the rules settle about the pool, and about the caller's closer.      *)
LEMMA PoolIsWired ==
    ASSUME PoolPasses(pool)
    PROVE  /\ pool.output = "producer" /\ pool.exports
           /\ pool.seen = "this" => pool.emits = "level" /\ pool.between # "escape"
           /\ Teardowns(pool) # {}
           /\ \A k \in Teardowns(pool) :
                  /\ pool.closer[k].there /\ pool.closer[k].canonical
                  /\ pool.closer[k].needs /\ pool.closer[k].receives
                  /\ pool.closer[k].cond = {"always", "producer_failed"}
<1> QED
    BY DEF PoolPasses, CheckHandoff, CheckRunBlock, PoolContract, Teardowns,
        RollbackCondition

LEMMA CallerIsWired ==
    ASSUME CallerPasses(caller)
    PROVE  /\ Candidates(caller) # {} /\ ResultGated(caller) = {}
           /\ \A k \in Candidates(caller) :
                  /\ k \in Closer /\ k # Pool /\ k \notin Consumer \cup Other
                  /\ caller.receives[k] /\ caller.agrees[k]
                  /\ "always" \in caller.cond[k] /\ Pool \in caller.needs[k]
<1>1. Candidates(caller) # {}
    BY FS_EmptySet DEF CallerPasses, CheckConsumer
<1> QED
    BY <1>1, JobAssumption DEF CallerPasses, CheckConsumer, Candidates, WaitsForAll

LEMMA LInvInit == Init => LInv
<1> SUFFICES ASSUME Init PROVE LInv
    OBVIOUS
<1>1. \A k \in Candidates(caller) : status[k] = "waiting"
    BY DEF Init, Candidates, Job
<1> QED
    BY <1>1 DEF Init, LInv, Writes, PoolEnds, RolledBack, TornDown, Teardowns,
        Ended, Job

(* A lease is named by whoever succeeds in making it.                       *)
LEMMA WritesStep == IInv /\ LInv /\ Next => Writes'
<1> SUFFICES ASSUME IInv, LInv, Next PROVE Writes'
    OBVIOUS
<1> USE DEF IInv, LInv, TypeOK, Backed, Writes, docs
<1>1. ASSUME NEW j \in Job, Schedule(j) PROVE Writes'
    BY <1>1 DEF Schedule
<1>2. ASSUME NEW j \in Job, Finish(j) \/ Stop(j) PROVE Writes'
    BY <1>2 DEF Finish, Stop
<1>3. ASSUME NEW w \in Consumer, PickUp(w) \/ Expire(w) PROVE Writes'
    BY <1>3 DEF PickUp, Expire
<1>4. ASSUME NEW k \in Closer, FinishCloser(k) PROVE Writes'
    BY <1>4 DEF FinishCloser, Identifies, Published
<1>5. ASSUME NEW k \in Inner, Rollback(k) PROVE Writes'
    BY <1>5 DEF Rollback, Reclaims
<1>6. CASE Producing
    <2>1. pool.seen = "this" => pool.emits = "level" /\ pool.between # "escape"
        BY PoolIsWired DEF DocsPass
    <2>2. CASE CreateLease BY <2>2 DEF CreateLease
    <2>3. CASE WriteIdentity BY <2>3 DEF WriteIdentity
    <2>4. CASE ProvisionFails
        <3>1. pool.seen = "this" =>
                  lease = "none" \/ named \/ pool.between = "command"
            BY <2>1, <2>4 DEF ProvisionFails, MayStop, PoolDoc
        <3> QED
            BY <2>4, <3>1 DEF ProvisionFails, ProvisionEnds
    <2>5. CASE ProvisionSucceeds
        BY <2>1, <2>5 DEF ProvisionSucceeds, ProvisionEnds
    <2>6. CASE ProvisionFallsBack BY <2>6 DEF ProvisionFallsBack, ProvisionEnds
    <2>7. CASE CancelProvision BY <2>7 DEF CancelProvision, ProvisionEnds
    <2> QED BY <1>6, <2>2, <2>3, <2>4, <2>5, <2>6, <2>7 DEF Producing
<1>7. CASE FinishPool \/ Cancel \/ Stay
    BY <1>7 DEF FinishPool, Cancel, Stay, vars
<1> QED
    BY <1>1, <1>2, <1>3, <1>4, <1>5, <1>6, <1>7 DEF Next

(* The result of the pool's job comes after everything inside of it.        *)
LEMMA PoolEndsStep == IInv /\ LInv /\ Next => PoolEnds'
<1> SUFFICES ASSUME IInv, LInv, Next, status'[Pool] \in Ended, provision' # "waiting"
             PROVE  /\ provision' \in Ended
                    /\ \A k \in Inner : pool.closer[k].there => rollback'[k] \in Ended
                    /\ \/ provision' = "success" => status'[Pool] = "success"
                       \/ \E k \in Inner : rollback'[k] = "failure"
    BY DocsStay DEF PoolEnds
<1> USE DEF docs
<1>1. CASE FinishPool
    BY <1>1 DEF FinishPool, IInv, TypeOK, Job, Ended
<1>2. CASE ~FinishPool
    <2>1. ASSUME NEW j \in Job, Schedule(j), j = Pool PROVE FALSE
        <3>1. ~Runs(Pool)
            BY <2>1, JobAssumption DEF Schedule, IInv, TypeOK, Ended
        <3>2. provision = "waiting"
            BY <2>1 DEF Schedule, Due, IInv, PoolPhase
        <3> QED
            BY <2>1, <3>1, <3>2 DEF Schedule
    <2>2. status'[Pool] = status[Pool] /\ provision # "waiting"
        <3>1. ASSUME NEW j \in Job, Schedule(j), j # Pool
              PROVE status'[Pool] = status[Pool] /\ provision' = provision
            BY <3>1 DEF Schedule, IInv, TypeOK, Job
        <3>2. ASSUME NEW j \in Job, Finish(j) \/ Stop(j)
              PROVE status'[Pool] = status[Pool] /\ provision' = provision
            BY <3>2, JobAssumption DEF Finish, Stop, IInv, TypeOK, Job
        <3>3. ASSUME NEW w \in Consumer, PickUp(w) \/ Expire(w)
              PROVE status'[Pool] = status[Pool] /\ provision' = provision
            BY <3>3, JobAssumption DEF PickUp, Expire, IInv, TypeOK, Job
        <3>4. ASSUME NEW k \in Closer, FinishCloser(k)
              PROVE status'[Pool] = status[Pool] /\ provision' = provision
            BY <3>4, JobAssumption DEF FinishCloser, IInv, TypeOK, Job
        <3>5. ASSUME NEW k \in Inner, Rollback(k)
              PROVE status'[Pool] = status[Pool] /\ provision' = provision
            BY <3>5 DEF Rollback
        <3>6. CASE Producing
            BY <3>6 DEF Producing, CreateLease, WriteIdentity, ProvisionFails,
                ProvisionSucceeds, ProvisionFallsBack, CancelProvision, ProvisionEnds
        <3>7. CASE Cancel \/ Stay
            BY <3>7 DEF Cancel, Stay, vars
        <3> QED
            BY <1>2, <2>1, <3>1, <3>2, <3>3, <3>4, <3>5, <3>6, <3>7 DEF Next
    <2>3. PoolEnds /\ provision \in Ended /\ status[Pool] # "running"
        BY <2>2 DEF LInv, PoolEnds, Ended
    <2>4. provision' = provision /\ rollback' = rollback
        <3>1. ASSUME NEW j \in Job, Schedule(j) \/ Finish(j) \/ Stop(j)
              PROVE provision' = provision /\ rollback' = rollback
            BY <2>1, <3>1 DEF Schedule, Finish, Stop
        <3>2. ASSUME NEW w \in Consumer, PickUp(w) \/ Expire(w)
              PROVE provision' = provision /\ rollback' = rollback
            BY <3>2 DEF PickUp, Expire
        <3>3. ASSUME NEW k \in Closer, FinishCloser(k)
              PROVE provision' = provision /\ rollback' = rollback
            BY <3>3 DEF FinishCloser
        <3>4. ASSUME NEW k \in Inner, Rollback(k) PROVE FALSE
            BY <2>3, <3>4 DEF Rollback, InnerDue
        <3>5. ASSUME Producing PROVE FALSE
            BY <2>3, <3>5 DEF Producing, CreateLease, WriteIdentity, ProvisionFails,
                ProvisionSucceeds, ProvisionFallsBack, CancelProvision,
                ProvisionEnds, Ended
        <3>6. CASE Cancel \/ Stay
            BY <3>6 DEF Cancel, Stay, vars
        <3> QED
            BY <1>2, <3>1, <3>2, <3>3, <3>4, <3>5, <3>6 DEF Next
    <2> QED
        BY <2>2, <2>3, <2>4 DEF PoolEnds
<1> QED
    BY <1>1, <1>2

(* A rollback that is due and stays out has seen a success.                 *)
LEMMA RollbackRuns ==
    ASSUME PoolPasses(pool), NEW k \in Teardowns(pool), InnerDue(k), ~InnerRuns(k)
    PROVE  provision = "success"
<1>1. pool.closer[k].needs /\ Full(pool.closer[k].cond) = {"always", "producer_failed"}
    BY PoolIsWired DEF Full, StatusFunctions
<1>2. ~InnerHolds(k, "producer_failed")
    BY <1>1 DEF InnerRuns, InnerHolds
<1>3. Result = "success"
    BY <1>1, <1>2 DEF InnerHolds
<1> QED
    BY <1>3 DEF Result

(* What is named and not handed over is reclaimed.                          *)
LEMMA RolledBackStep == IInv /\ LInv /\ Next => RolledBack'
<1> SUFFICES ASSUME IInv, LInv, Next, NEW k \in Teardowns(pool)
             PROVE  /\ rollback'[k] # "waiting" => provision' \in Ended
                    /\ rollback'[k] # "cancelled"
                    /\ rollback'[k] = "skipped" => provision' = "success"
                    /\ rollback'[k] = "success" /\ named' => lease' # "open"
    BY DocsStay DEF RolledBack
<1> DEFINE Goal == /\ rollback'[k] # "waiting" => provision' \in Ended
                   /\ rollback'[k] # "cancelled"
                   /\ rollback'[k] = "skipped" => provision' = "success"
                   /\ rollback'[k] = "success" /\ named' => lease' # "open"
<1>0. /\ rollback[k] # "waiting" => provision \in Ended
      /\ rollback[k] # "cancelled"
      /\ rollback[k] = "skipped" => provision = "success"
      /\ rollback[k] = "success" /\ named => lease # "open"
    BY DEF LInv, RolledBack
<1> USE <1>0 DEF docs
<1>1. ASSUME NEW j \in Job, Schedule(j) PROVE Goal
    BY <1>1 DEF Schedule, Due, IInv, PoolPhase, Ended
<1>2. ASSUME NEW j \in Job, Finish(j) \/ Stop(j) PROVE Goal
    BY <1>2 DEF Finish, Stop
<1>3. ASSUME NEW w \in Consumer, PickUp(w) \/ Expire(w) PROVE Goal
    BY <1>3 DEF PickUp, Expire
<1>4. ASSUME NEW i \in Closer, FinishCloser(i) PROVE Goal
    BY <1>4 DEF FinishCloser
<1>5. ASSUME NEW i \in Inner, Rollback(i) PROVE Goal
    <2>1. provision' = provision /\ named' = named
        BY <1>5 DEF Rollback
    <2>2. CASE i = k
        <3>1. PoolPasses(pool) /\ InnerDue(k)
            BY <1>5, <2>2 DEF Rollback, IInv, DocsPass
        <3>2. provision \in Ended
            BY <3>1, PoolIsWired DEF InnerDue
        <3>3. named => Reclaims(k)
            BY <3>1, PoolIsWired DEF Reclaims
        <3>4. k \in DOMAIN rollback
            BY <2>2 DEF IInv, TypeOK
        <3>5. CASE ~InnerRuns(k) /\ rollback'[k] = "skipped"
            BY <2>1, <3>1, <3>2, <3>5, RollbackRuns
        <3>6. CASE rollback'[k] = "success" /\ lease' = IF Reclaims(k) THEN "closed" ELSE lease
            BY <2>1, <3>2, <3>3, <3>6
        <3>7. CASE rollback'[k] = "failure"
            BY <2>1, <3>2, <3>7
        <3> QED
            BY <1>5, <2>2, <3>4, <3>5, <3>6, <3>7 DEF Rollback, IInv, TypeOK
    <2>3. CASE i # k
        BY <1>5, <2>1, <2>3 DEF Rollback, IInv, TypeOK, Teardowns
    <2> QED
        BY <2>2, <2>3
<1>6. CASE Producing
    <2>1. provision = "running" /\ rollback' = rollback
        BY <1>6 DEF Producing, CreateLease, WriteIdentity, ProvisionFails,
            ProvisionSucceeds, ProvisionFallsBack, CancelProvision, ProvisionEnds
    <2>2. rollback[k] = "waiting"
        BY <2>1 DEF Ended
    <2> QED
        BY <2>1, <2>2
<1>7. CASE FinishPool \/ Cancel \/ Stay
    BY <1>7 DEF FinishPool, Cancel, Stay, vars
<1> QED
    BY <1>1, <1>2, <1>3, <1>4, <1>5, <1>6, <1>7 DEF Next

(* A closer that is told of the lease and may not run has a gate.            *)
LEMMA CloserRuns ==
    ASSUME CallerPasses(caller), NEW k \in Candidates(caller), Published, ~Runs(k)
    PROVE  UnseenGate(k)
<1>1. "always" \in caller.cond[k] /\ Pool \in caller.needs[k]
    BY CallerIsWired
<1>2. Full(caller.cond[k]) = caller.cond[k]
    BY <1>1 DEF Full, StatusFunctions
<1>3. PICK t \in caller.cond[k] : ~TermHolds(k, t)
    BY <1>2 DEF Runs
<1>4. t \notin {"always", "identity"}
    BY <1>1, <1>3 DEF TermHolds
<1> QED
    BY <1>3, <1>4, CallerIsWired DEF UnseenGate

(* What was handed over is closed by the closer that was told of it.        *)
LEMMA TornDownStep == IInv /\ LInv /\ Next => TornDown'
<1> SUFFICES ASSUME IInv, LInv, Next, NEW k \in Candidates(caller)
             PROVE  /\ Published' /\ status'[k] = "success" => lease' # "open"
                    /\ Published' /\ status'[k] \in {"skipped", "cancelled"}
                           => UnseenGate(k)
    BY DocsStay DEF TornDown, UnseenGate
<1> DEFINE Goal == /\ Published' /\ status'[k] = "success" => lease' # "open"
                   /\ Published' /\ status'[k] \in {"skipped", "cancelled"}
                          => UnseenGate(k)
<1>0. /\ Published /\ status[k] = "success" => lease # "open"
      /\ Published /\ status[k] \in {"skipped", "cancelled"} => UnseenGate(k)
    BY DEF LInv, TornDown
<1>a. /\ k \in Closer /\ k # Pool /\ k \notin Consumer \cup Other
      /\ caller.receives[k] /\ caller.agrees[k]
      /\ "always" \in caller.cond[k] /\ Pool \in caller.needs[k]
    BY CallerIsWired DEF IInv, DocsPass
<1>b. status \in [Job -> Status] /\ k \in Job /\ Pool \in Job
    BY <1>a DEF IInv, TypeOK, Job
<1> USE <1>0, <1>a, <1>b DEF docs
<1>1. ASSUME NEW j \in Job, Schedule(j) PROVE Goal
    <2>1. lease' = lease /\ named' = named /\ pool' = pool
        BY <1>1 DEF Schedule
    <2>2. CASE j = k
        <3>1. Published' <=> Published
            BY <1>1, <2>1, <2>2 DEF Schedule, Published
        <3>2. CASE Runs(k)
            BY <1>1, <2>2, <3>2 DEF Schedule
        <3>3. CASE ~Runs(k)
            BY <1>1, <2>2, <3>1, <3>3, CloserRuns DEF Schedule, IInv, DocsPass
        <3> QED
            BY <3>2, <3>3
    <2>3. CASE j = Pool
        BY <1>1, <2>1, <2>3, JobAssumption DEF Schedule, Published
    <2>4. CASE j # k /\ j # Pool
        BY <1>1, <2>1, <2>4 DEF Schedule, Published
    <2> QED
        BY <2>2, <2>3, <2>4
<1>2. ASSUME NEW j \in Job, Finish(j) \/ Stop(j) PROVE Goal
    <2>1. CASE Finish(j)
        BY <2>1, JobAssumption DEF Finish, Published
    <2>2. CASE Stop(j)
        <3>1. (Published' <=> Published) /\ lease' = lease
            BY <2>2 DEF Stop, Published
        <3>2. CASE j = k
            BY <2>2, <3>1, <3>2, CloserRuns DEF Stop, IInv, DocsPass
        <3>3. CASE j # k
            BY <2>2, <3>1, <3>3 DEF Stop
        <3> QED
            BY <3>2, <3>3
    <2> QED
        BY <1>2, <2>1, <2>2
<1>3. ASSUME NEW w \in Consumer, PickUp(w) \/ Expire(w) PROVE Goal
    BY <1>3, JobAssumption DEF PickUp, Expire, Published
<1>4. ASSUME NEW i \in Closer, FinishCloser(i) PROVE Goal
    <2>1. Published' <=> Published
        BY <1>4, JobAssumption DEF FinishCloser, Published
    <2>2. CASE i = k
        BY <1>4, <2>1, <2>2 DEF FinishCloser, Identifies
    <2>3. CASE i # k
        BY <1>4, <2>1, <2>3 DEF FinishCloser
    <2> QED
        BY <2>2, <2>3
<1>5. ASSUME NEW i \in Inner, Rollback(i) PROVE Goal
    BY <1>5 DEF Rollback, Published
<1>6. CASE Producing
    <2>1. provision = "running" /\ status' = status
        BY <1>6 DEF Producing, CreateLease, WriteIdentity, ProvisionFails,
            ProvisionSucceeds, ProvisionFallsBack, CancelProvision, ProvisionEnds
    <2>2. ~Published'
        BY <2>1 DEF Published, IInv, PoolPhase
    <2> QED
        BY <2>1, <2>2
<1>7. CASE FinishPool
    <2>1. status[k] = "waiting" /\ status'[k] = status[k]
        BY <1>7 DEF FinishPool, IInv, InOrder, Ended
    <2> QED
        BY <2>1
<1>8. CASE Cancel \/ Stay
    BY <1>8 DEF Cancel, Stay, vars, Published
<1> QED
    BY <1>1, <1>2, <1>3, <1>4, <1>5, <1>6, <1>7, <1>8 DEF Next

(* The invariant about the end of a run.                                    *)
LEMMA LInvStep == IInv /\ LInv /\ [Next]_vars => LInv'
<1> SUFFICES ASSUME IInv, LInv, [Next]_vars PROVE LInv'
    OBVIOUS
<1>1. CASE Next
    BY <1>1, WritesStep, PoolEndsStep, RolledBackStep, TornDownStep DEF LInv
<1>2. CASE UNCHANGED vars
    BY <1>2 DEF vars, LInv, Writes, PoolEnds, RolledBack, TornDown, Published, UnseenGate
<1> QED
    BY <1>1, <1>2

(* NothingLeaksQuietly: in every run of documents that pass the rules, a     *)
(* lease that is open at the end is one of the nameless, or a closer went    *)
(* red, or a gate that the rules do not see kept the teardown out or stopped *)
(* it.                                                                       *)
THEOREM LeaksAreLoud == Spec => []NothingLeaksQuietly
<1>1. IInv /\ LInv => NothingLeaksQuietly
    <2> SUFFICES ASSUME IInv, LInv, Over, lease = "open",
                        ~\E k \in Inner : rollback[k] = "failure"
                 PROVE  \/ Nameless
                        \/ \E k \in Closer : status[k] = "failure"
                        \/ \E k \in Closer :
                               status[k] \in {"skipped", "cancelled"} /\ UnseenGate(k)
        BY DEF NothingLeaksQuietly
    <2>1. status[Pool] \in Ended /\ provision # "waiting"
        BY DEF Over, Job, LInv, Writes
    <2>2. /\ provision \in Ended
          /\ \A k \in Inner : pool.closer[k].there => rollback[k] \in Ended
          /\ provision = "success" => status[Pool] = "success"
        BY <2>1 DEF LInv, PoolEnds
    <2>3. CASE provision = "success" /\ named
        <3>1. PICK k \in Candidates(caller) : k \in Closer
            BY CallerIsWired DEF IInv, DocsPass
        <3>2. Published
            BY <2>2, <2>3, PoolIsWired DEF Published, LInv, Writes, IInv, DocsPass
        <3>3. status[k] \in Ended
            BY <3>1 DEF Over, Job
        <3> QED
            BY <3>1, <3>2, <3>3 DEF Ended, LInv, TornDown
    <2>4. CASE provision # "success" /\ named
        <3>1. PICK k \in Teardowns(pool) : pool.closer[k].there
            BY PoolIsWired DEF IInv, DocsPass
        <3>2. k \in Inner /\ rollback[k] \in Ended
            BY <2>2, <3>1 DEF Teardowns
        <3> QED
            BY <2>4, <3>2 DEF Ended, LInv, RolledBack
    <2>5. CASE ~named
        <3>1. provision \in {"success", "failure", "cancelled"}
            BY <2>2 DEF IInv, TypeOK, Ended
        <3> QED
            BY <2>5, <3>1 DEF LInv, Writes, Nameless
    <2> QED
        BY <2>3, <2>4, <2>5
<1> QED
    BY <1>1, Invariant, LInvInit, LInvStep, PTL DEF Spec

-----------------------------------------------------------------------------
(* The state predicate of OrderIsNoGate.                                    *)
SkippedByItself ==
    status[Pool] = "skipped" /\ caller.needs[Pool] # {} =>
        cancelled \/ caller.cond[Pool] \ {"not_cancelled"} # {}

(* A pool that needs other jobs has a status function, and in a cancelled    *)
(* run it runs by HoldCancelled only.                                       *)
LEMMA PoolHasStatus ==
    ASSUME CallerPasses(caller), caller.needs[Pool] # {}
    PROVE  /\ Full(caller.cond[Pool]) = caller.cond[Pool]
           /\ caller.cond[Pool] # {}
           /\ cancelled /\ Runs(Pool) =>
                  caller.cond[Pool] \cap StatusFunctions \subseteq HoldCancelled
<1>1. caller.cond[Pool] \cap StatusFunctions # {} /\ "always" \notin caller.cond[Pool]
    BY DEF CallerPasses, PoolMayRun
<1>2. caller.cond[Pool] # {}
    BY <1>1
<1>3. Full(caller.cond[Pool]) = caller.cond[Pool]
    BY <1>1 DEF Full
<1>4. ASSUME cancelled, Runs(Pool),
             NEW t \in caller.cond[Pool], t \in StatusFunctions
      PROVE  t \in HoldCancelled
    <2>1. TermHolds(Pool, t) /\ t # "always"
        BY <1>1, <1>3, <1>4 DEF Runs
    <2> QED
        BY <1>4, <2>1 DEF TermHolds, AllSucceeded, SomeFailed, StatusFunctions,
            HoldCancelled
<1> QED
    BY <1>2, <1>3, <1>4 DEF Runs

(* A pool that is skipped is skipped when it is due.                        *)
LEMMA SkippedStep == IInv /\ SkippedByItself /\ [Next]_vars => SkippedByItself'
<1> SUFFICES ASSUME IInv, SkippedByItself, [Next]_vars,
                    status'[Pool] = "skipped", caller'.needs[Pool] # {}
             PROVE  cancelled' \/ caller'.cond[Pool] \ {"not_cancelled"} # {}
    BY DEF SkippedByItself
<1> USE DEF docs, IInv, TypeOK
<1>1. caller' = caller /\ (cancelled => cancelled')
    <2>1. CASE UNCHANGED vars
        BY <2>1 DEF vars
    <2>2. CASE Next
        BY <2>2, DocsStay DEF Next, Schedule, Finish, Stop, PickUp, Expire,
            FinishCloser, Rollback, Producing, CreateLease, WriteIdentity,
            ProvisionFails, ProvisionSucceeds, ProvisionFallsBack,
            CancelProvision, ProvisionEnds, FinishPool, Cancel, Stay, vars
    <2> QED
        BY <2>1, <2>2
<1>2. CASE status[Pool] = "skipped"
    BY <1>1, <1>2 DEF SkippedByItself
<1>3. CASE status[Pool] # "skipped"
    <2>1. ASSUME NEW j \in Job, Schedule(j)
          PROVE cancelled \/ caller.cond[Pool] \ {"not_cancelled"} # {}
        <3>1. j = Pool /\ ~Runs(Pool)
            BY <1>3, <2>1, JobAssumption DEF Schedule, Job
        <3>2. PICK t \in caller.cond[Pool] : ~TermHolds(Pool, t)
            BY <1>1, <3>1, PoolHasStatus DEF Runs, DocsPass
        <3> QED
            BY <3>2 DEF TermHolds
    <2>2. ASSUME NEW j \in Job, Finish(j) \/ Stop(j) PROVE FALSE
        BY <1>3, <2>2 DEF Finish, Stop, Job
    <2>3. ASSUME NEW w \in Consumer, PickUp(w) \/ Expire(w) PROVE FALSE
        BY <1>3, <2>3 DEF PickUp, Expire, Job
    <2>4. ASSUME NEW k \in Closer, FinishCloser(k) PROVE FALSE
        BY <1>3, <2>4 DEF FinishCloser, Job
    <2>5. ASSUME NEW k \in Inner, Rollback(k) PROVE FALSE
        BY <1>3, <2>5 DEF Rollback
    <2>6. ASSUME Producing PROVE FALSE
        BY <1>3, <2>6 DEF Producing, CreateLease, WriteIdentity, ProvisionFails,
            ProvisionSucceeds, ProvisionFallsBack, CancelProvision, ProvisionEnds
    <2>7. ASSUME FinishPool PROVE FALSE
        BY <1>3, <2>7 DEF FinishPool, Job
    <2>8. ASSUME Cancel \/ Stay \/ UNCHANGED vars PROVE FALSE
        BY <1>3, <2>8 DEF Cancel, Stay, vars
    <2> QED
        BY <1>1, <2>1, <2>2, <2>3, <2>4, <2>5, <2>6, <2>7, <2>8 DEF Next
<1> QED
    BY <1>2, <1>3

(* OrderIsNoGate: for every caller that passes the rules, the needs of the   *)
(* pool do not skip it, and a cancelled run provisions it only where its     *)
(* status functions are those that hold in one.                             *)
THEOREM OrderGatesNothing == Spec => OrderIsNoGate
<1>1. Init => SkippedByItself
    BY DEF Init, SkippedByItself, Job
<1>2. IInv /\ [Next]_vars =>
          [(cancelled /\ caller.needs[Pool] # {}
             /\ provision = "waiting" /\ provision' = "running")
             => caller.cond[Pool] \cap StatusFunctions \subseteq HoldCancelled]_vars
    <2> SUFFICES ASSUME IInv, Next, cancelled, caller.needs[Pool] # {},
                        provision = "waiting", provision' = "running"
                 PROVE  caller.cond[Pool] \cap StatusFunctions \subseteq HoldCancelled
        OBVIOUS
    <2>1. Runs(Pool)
        BY DEF Next, Schedule, Finish, Stop, PickUp, Expire, FinishCloser,
            Rollback, Producing, CreateLease, WriteIdentity, ProvisionFails,
            ProvisionSucceeds, ProvisionFallsBack, CancelProvision,
            ProvisionEnds, FinishPool, Cancel, Stay, vars
    <2> QED
        BY <2>1, PoolHasStatus DEF IInv, DocsPass
<1>3. Spec => []SkippedByItself
    BY <1>1, Invariant, SkippedStep, PTL DEF Spec
<1> QED
    BY <1>2, <1>3, Invariant, PTL DEF Spec, OrderIsNoGate, SkippedByItself
=============================================================================
