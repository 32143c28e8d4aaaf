---------------------------- MODULE Conformance -----------------------------
(* The action akash-runner-conformance, called directly or through the      *)
(* reusable workflow: every rule of the scopes that were asked for runs,    *)
(* every status is kept, and the job fails once at the end.                 *)

CONSTANTS
    WfEnforcing, WfAdvisory,     \* rules that judge one workflow
    DirEnforcing, DirAdvisory    \* rules that judge the directory

WfRules == WfEnforcing \cup WfAdvisory
DirRules == DirEnforcing \cup DirAdvisory

ASSUME RulesAssumption ==
    /\ WfEnforcing # {} /\ DirEnforcing # {}
    /\ WfRules \cap DirRules = {}

VARIABLE job

Enforcing == WfEnforcing \cup DirEnforcing
Rule == WfRules \cup DirRules

(* The exit status of a rule: 0, 1, 2 and 3.                                *)
Statuses == {"pass", "finding", "usage", "not_judgeable"}

Job == [
    via: {"action", "reusable"},
    workflow: BOOLEAN, workflows_dir: BOOLEAN,     \* the inputs that are set
    policy: {"error", "warn"},                     \* not-judgeable
    phase: {"setup", "targets", "workflow", "dir", "exit", "over"},
    rc: {0, 1},
    status: [Rule -> Statuses \cup {"not_run"}],
    said: [Rule -> {"nothing", "pass", "findings", "notice", "warning", "skipped"}],
    result: {"none", "green", "red", "cancelled"}]

(* The job's record has its type.                                           *)
JobTypeOK == job \in Job

(* The reusable does not hand not-judgeable on.                             *)
JobInit ==
    job \in {j \in
        {[via |-> v, workflow |-> w, workflows_dir |-> d, policy |-> p,
          phase |-> "setup", rc |-> 0, status |-> [r \in Rule |-> "not_run"],
          said |-> [r \in Rule |-> "nothing"], result |-> "none"] :
            v \in {"action", "reusable"}, w \in BOOLEAN, d \in BOOLEAN,
            p \in {"error", "warn"}} :
        j.via = "reusable" => j.policy = "error"}

Ends(how) == job' = [job EXCEPT !.phase = "over", !.result = how]

(* The checkouts, and the import or installation of yaml.                   *)
Setup ==
    /\ job.phase = "setup"
    /\ job' = [job EXCEPT !.phase = "targets"] \/ Ends("red")

Refuses(j) == ~j.workflow /\ ~j.workflows_dir

Targets ==
    /\ job.phase = "targets"
    /\ IF Refuses(job) THEN Ends("red") ELSE job' = [job EXCEPT !.phase = "workflow"]

(* Bug: what observed nothing has found nothing.                            *)
FailsOnFinding(s) == s \in {"finding", "usage"}

Fails(s) == s # "pass"

(* What advisory() says of a status; an enforcing rule speaks for itself.   *)
Announces(r, s) ==
    IF s = "pass" THEN "pass"
    ELSE IF r \in Enforcing THEN "findings"
    ELSE IF s = "not_judgeable" /\ job.policy = "warn" THEN "notice" ELSE "warning"

RunRule(r, s) ==
    /\ job.status[r] = "not_run"
    /\ \/ job.phase = "workflow" /\ job.workflow /\ r \in WfRules
       \/ job.phase = "dir" /\ job.workflows_dir /\ r \in DirRules
    /\ job' = [job EXCEPT !.status[r] = s, !.said[r] = Announces(r, s),
                          !.rc = IF r \in Enforcing /\ Fails(s) THEN 1 ELSE @]

AllRan(rules) == \A r \in rules : job.status[r] # "not_run"

(* Bug: the first failure of an enforcing rule ends the step.               *)
DoneEarly(asked, rules) == asked => job.rc = 1 \/ AllRan(rules)

Done(asked, rules) == asked => AllRan(rules)

Announced(asked, rules) ==
    [r \in Rule |-> IF ~asked /\ r \in rules THEN "skipped" ELSE job.said[r]]

WorkflowScope ==
    /\ job.phase = "workflow" /\ Done(job.workflow, WfRules)
    /\ job' = [job EXCEPT !.phase = "dir", !.said = Announced(job.workflow, WfRules)]

DirScope ==
    /\ job.phase = "dir" /\ Done(job.workflows_dir, DirRules)
    /\ job' = [job EXCEPT !.phase = "exit",
                          !.said = Announced(job.workflows_dir, DirRules)]

Exit == job.phase = "exit" /\ Ends(IF job.rc = 0 THEN "green" ELSE "red")

Cancel == job.phase # "over" /\ Ends("cancelled")

JobNext ==
    \/ Setup \/ Targets
    \/ \E r \in Rule, s \in Statuses : RunRule(r, s)
    \/ WorkflowScope \/ DirScope \/ Exit \/ Cancel

JobSpec == JobInit /\ [][JobNext]_job

-----------------------------------------------------------------------------
(* "A green tick over an empty verdict" (action.yml:150), and "an enforcing *)
(* rule that judged nothing still fails the build" (l. 130): a green job    *)
(* has had a verdict of every enforcing rule of at least one scope, and     *)
(* whatever did not give one was announced as skipped.                      *)
GreenIsJudged ==
    job.result = "green" =>
        /\ \A r \in Enforcing : job.status[r] = "pass" \/ job.said[r] = "skipped"
        /\ \E r \in Enforcing : job.status[r] = "pass"

(* "Every rule runs, and every status is kept" (l. 98), "a skipped rule     *)
(* that reports nothing is indistinguishable from one that passed" (l. 177):*)
(* of a job that came to its end, red or green, each rule was run or named, *)
(* and one that did not pass has left a trace.                              *)
NothingIsSilent ==
    job.phase = "exit" \/ job.result = "green" =>
        \A r \in Rule :
            /\ job.status[r] = "not_run" <=> job.said[r] = "skipped"
            /\ job.said[r] = "pass" => job.status[r] = "pass"
=============================================================================
