---------------------------- MODULE HandoffRules ----------------------------
(* The rules about a leased pool of runners and the workflows it serves:    *)
(* check_pool_owns_teardown.py and check_teardown_can_identify.py judge the *)
(* reusable workflow that provisions; check_standard.py and                 *)
(* check_pool_not_before_consumers.py judge a workflow that calls it.       *)
(* A document is what these files read of it; each rule is a predicate, true *)
(* when the file reports no finding.                                        *)
EXTENDS Integers, FiniteSets

CONSTANTS
    Pool,      \* the caller's job that uses runner-pool.yml
    Consumer,  \* its jobs that run on needs.<pool>.outputs.runner-targets
    Closer,    \* its jobs that use runner-teardown.yml
    Other,     \* its other jobs
    Inner      \* the closing jobs inside the reusable pool

Job == {Pool} \cup Consumer \cup Closer \cup Other

ASSUME JobAssumption ==
    /\ Pool \notin Consumer \cup Closer \cup Other
    /\ Consumer \cap Closer = {}
    /\ Consumer \cap Other = {}
    /\ Closer \cap Other = {}

(* An `if:` is the set of the terms it joins with &&. "not_cancelled" is     *)
(* !cancelled(), and so on; "producer_failed" is needs.<pool>.result !=      *)
(* 'success'; "work_succeeded" asks the same of the consumers; "identity" is *)
(* needs.<pool>.outputs.dseq != ''; "manual" is the dispatch event with a    *)
(* true input; "other" is a test of the event or of an input.                *)
StatusFunctions ==
    {"always", "cancelled", "not_cancelled", "success", "not_success",
     "failure", "not_failure"}
ResultTerms == {"producer_failed", "producer_succeeded", "work_succeeded"}
Term == StatusFunctions \cup ResultTerms \cup {"identity", "manual", "other"}

CallerDoc == [
    needs: [Job -> SUBSET Job],
    cond: [Job -> SUBSET Term],
    named: [Closer -> BOOLEAN],     \* the job's name says what it does
    receives: [Closer -> BOOLEAN],  \* with.dseq is the pool's dseq
    agrees: [Closer -> BOOLEAN]]    \* ref, label, prefix, org and credentials

InnerDoc == [
    there: BOOLEAN,                 \* the job exists
    canonical: BOOLEAN,             \* it uses runner-teardown.yml, pinned
    needs: BOOLEAN,                 \* it needs the producer
    cond: SUBSET Term,
    receives: BOOLEAN]

(* `seen` is the assignment that the rule looks at in the run block that     *)
(* makes the lease: the lease's own; none, when it is spelled in another way; *)
(* or, besides it, another one that is written out well.  `between` is what  *)
(* the block does after it has assigned the identity and before it writes it *)
(* out: nothing, an exit at the same level, or something the rule does not   *)
(* take for a way out: a command that may fail, an exit in a branch.         *)
PoolDoc == [
    output: {"absent", "unresolved", "producer"},
    exports: BOOLEAN,               \* producer's output <- its step's output
    seen: {"this", "none", "other"},
    emits: {"level", "deeper", "never"},
    between: {"nothing", "escape", "command"},
    dispatchOnly: BOOLEAN,          \* the proof flag is no input of the call
    closer: [Inner -> InnerDoc]]

-----------------------------------------------------------------------------
(* check_pool_owns_teardown.py                                              *)

RollbackCondition(cond) == cond = {"always", "producer_failed"}

DispatchOnlyTeardown(p, k) ==
    /\ p.closer[k].cond = {"always", "manual", "identity"}
    /\ p.closer[k].needs
    /\ p.closer[k].receives
    /\ p.dispatchOnly

Teardowns(p) == {k \in Inner : p.closer[k].there /\ ~DispatchOnlyTeardown(p, k)}

(* Mutant: the wiring of the identity into the closer is not looked at.      *)
CheckHandoffUnwired(p) ==
    \/ p.output = "absent"
    \/ /\ p.output = "producer"
       /\ Teardowns(p) # {}
       /\ \A k \in Teardowns(p) :
              p.closer[k].canonical /\ RollbackCondition(p.closer[k].cond)

CheckHandoff(p) ==
    \/ p.output = "absent"
    \/ /\ p.output = "producer"
       /\ p.exports
       /\ Teardowns(p) # {}
       /\ \A k \in Teardowns(p) :
              /\ p.closer[k].canonical
              /\ p.closer[k].needs
              /\ RollbackCondition(p.closer[k].cond)
              /\ p.closer[k].receives

-----------------------------------------------------------------------------
(* check_teardown_can_identify.py                                           *)

(* No assignment passes, and one good pair is enough.                        *)
CheckRunBlock(p) ==
    p.seen = "this" => p.emits = "level" /\ p.between # "escape"

-----------------------------------------------------------------------------
(* check_standard.py: the pool's own contract, then the caller's.           *)

PoolContract(p) == p.output # "absent"

ResultGated(c) == {k \in Closer : c.named[k] /\ c.cond[k] \cap ResultTerms # {}}

Candidates(c) == {k \in Closer : c.receives[k]}

(* Mutant: the teardown needs the pool and nobody else.                      *)
WaitsForPool(c, k) == Pool \in c.needs[k]

WaitsForAll(c, k) == {Pool} \cup Consumer \subseteq c.needs[k]

CheckConsumer(c) ==
    /\ ResultGated(c) = {}
    /\ Consumer # {}
    /\ Cardinality(Candidates(c)) = 1
    /\ \A k \in Candidates(c) :
           c.agrees[k] /\ "always" \in c.cond[k] /\ WaitsForAll(c, k)

-----------------------------------------------------------------------------
(* check_pool_not_before_consumers.py                                       *)

(* Mutant: an implicit success() is enough.                                  *)
PoolMayImplicitly(c) == "always" \notin c.cond[Pool]

(* The `needs` of a pool bring an implicit success() with them; always()     *)
(* would provision in a cancelled run. Any other status function passes,     *)
(* with or without a negation.                                               *)
PoolMayRun(c) ==
    \/ c.needs[Pool] = {}
    \/ c.cond[Pool] \cap StatusFunctions # {} /\ "always" \notin c.cond[Pool]

(* Mutant: the order is not asked for.                                       *)
NotBeforeAnyOrder(c) == \A w \in Consumer : Pool \in c.needs[w]

NotBefore(c) ==
    \A w \in Consumer : (c.needs[w] \ {Pool}) \ Consumer \subseteq c.needs[Pool]

-----------------------------------------------------------------------------
CallerPasses(c) == CheckConsumer(c) /\ PoolMayRun(c) /\ NotBefore(c)
PoolPasses(p) == CheckHandoff(p) /\ CheckRunBlock(p) /\ PoolContract(p)
=============================================================================
