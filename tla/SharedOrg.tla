------------------------------ MODULE SharedOrg ------------------------------
(***************************************************************************)
(* Repositories that share one organisation's runner list: each changes    *)
(* its workflows (a change merges only if the enforced rules pass), creates *)
(* registrations, and runs its reapers; from time to time somebody audits   *)
(* the checkouts together.  A reaper lists a registration and deletes it    *)
(* later; StaleRunnerReaper has the other calls it is made of.              *)
(***************************************************************************)
EXTENDS BackstopRules

CONSTANTS
    Slot,      \* registrations the organisation holds at most
    Configs,   \* the sets of workflows a repository may have
    MaxLists   \* bound on the lists that a registration stands on at a time

ASSUME ConfigAssumption == Configs \subseteq SUBSET Workflow /\ MaxLists \in Nat

VARIABLES
    conf,      \* conf[r]: the workflows on r's main branch
    runner,    \* runner[i]: the registration in slot i
    listed,    \* listed[i][r]: what a sweep of r saw in slot i and will delete
    audited,   \* the checkouts of a passing audit of the present workflows
    reap       \* what the last step reaped

vars == <<conf, runner, listed, audited, reap>>

(* by: the literal of the producer, <<>> when the name is all interpolated. *)
Status == {"offline", "idle", "busy"}
Runner == [owner: Repo, by: Literal \cup {<<>>}, name: Name, status: Status]
Free == [status |-> "free"]

(* A line of a sweep's list: the workflow it was started from, and what the *)
(* registration was when it was listed.                                     *)
Line == [flow: UNION Configs, saw: Status]
NoLine == [saw |-> "none"]
NoLines == [r \in Repo |-> NoLine]

Nothing == [flow |-> "none"]
Reaped == [by: Repo, flow: UNION Configs, saw: Status, runner: Runner]

(* Configurations and registrations have their types.                       *)
TypeOK ==
    /\ conf \in [Repo -> Configs]
    /\ runner \in [Slot -> Runner \cup {Free}]
    /\ listed \in [Slot -> [Repo -> Line \cup {NoLine}]]
    /\ \A i \in Slot : runner[i] = Free => listed[i] = NoLines
    /\ audited \in SUBSET Repo
    /\ audited = {} \/ Cardinality(audited) >= 2
    /\ reap \in Reaped \cup {Nothing}

(* What the enforced rules let through.                                     *)
Mergeable == {c \in Configs : Compliant(c)}

Init ==
    /\ conf \in [Repo -> Mergeable]
    /\ runner = [i \in Slot |-> Free]
    /\ listed = [i \in Slot |-> NoLines]
    /\ audited = {}
    /\ reap = Nothing

-----------------------------------------------------------------------------
(* The life of a registration; the runner image and GitHub, not this code.  *)

Create(r, w, i) ==
    /\ runner[i] = Free
    /\ w \in conf[r] /\ w.reads # "unparsed" /\ w.creates
    /\ \E by \in IF w.emits = {} THEN {<<>>} ELSE w.emits, name \in Name :
        /\ StartsWith(name, by)
        /\ runner' = [runner EXCEPT ![i] =
              [owner |-> r, by |-> by, name |-> name, status |-> "offline"]]
    /\ reap' = Nothing
    /\ UNCHANGED <<conf, listed, audited>>

Becomes(i, from, to) ==
    /\ runner[i].status = from
    /\ runner' = [runner EXCEPT ![i].status = to]
    /\ reap' = Nothing
    /\ UNCHANGED <<conf, listed, audited>>

(* Its number is not given again: a DELETE that comes later finds nothing.  *)
Gone(i) ==
    /\ runner' = [runner EXCEPT ![i] = Free]
    /\ listed' = [listed EXCEPT ![i] = NoLines]

(* It removes itself, or the teardown of its own run does; neither is sure. *)
Leave(i) ==
    /\ runner[i] # Free
    /\ Gone(i)
    /\ reap' = Nothing
    /\ UNCHANGED <<conf, audited>>

-----------------------------------------------------------------------------
(* The reapers.                                                             *)

(* A workflow whose cron reaps.  An exported wrapper runs on its callers'   *)
(* schedules; a dry run only reports.                                       *)
RunsUnattended(w) ==
    /\ w.reads = "ok"
    /\ Deregisters(w)
    /\ Scheduled(w) \/ (Canonical(w) /\ Exports(w))
    /\ Canonical(w) => ~w.dryRun

(* The selectors: the canonical reaper lists offline ones; the other safe   *)
(* selector, .busy==false, idle ones too; one that stands in another        *)
(* command of the same text selects nothing.                                *)
MayTake(w, status) ==
    \/ Canonical(w) /\ status = "offline"
    \/ w.reaper = "safe" /\ status # "busy"
    \/ w.reaper \in {"elsewhere", "unsafe"}

Named(w, name) ==
    \/ w.scope = "everything"
    \/ \E k \in DOMAIN w.prefixes : StartsWith(name, w.prefixes[k].p)

(* A sweep lists a registration and keeps it under its prefixes ...         *)
List(r, w, i) ==
    /\ runner[i] # Free /\ listed[i][r] = NoLine
    /\ Cardinality({q \in Repo : listed[i][q] # NoLine}) < MaxLists
    /\ w \in conf[r]
    /\ RunsUnattended(w)
    /\ MayTake(w, runner[i].status)
    /\ Named(w, runner[i].name)
    /\ listed' = [listed EXCEPT ![i][r] = [flow |-> w, saw |-> runner[i].status]]
    /\ reap' = Nothing
    /\ UNCHANGED <<conf, runner, audited>>

(* ... and some calls later deletes it by its number, whatever it does now. *)
Reap(r, i) ==
    /\ listed[i][r] # NoLine
    /\ Gone(i)
    /\ reap' = [by |-> r, flow |-> listed[i][r].flow, saw |-> listed[i][r].saw,
                runner |-> runner[i]]
    /\ UNCHANGED <<conf, audited>>

-----------------------------------------------------------------------------
(* The people.                                                              *)

Edit(r, c) ==
    /\ c # conf[r]
    /\ conf' = [conf EXCEPT ![r] = c]
    /\ audited' = {}
    /\ reap' = Nothing
    /\ UNCHANGED <<runner, listed>>

Audit(S) ==
    /\ audited' = IF AuditPasses(conf, S) THEN S ELSE {}
    /\ reap' = Nothing
    /\ UNCHANGED <<conf, runner, listed>>

SomeList(i) == \E r \in Repo : \E w \in conf[r] : List(r, w, i)
SomeReap(i) == \E r \in Repo : Reap(r, i)

Next ==
    \/ \E i \in Slot :
        \/ \E r \in Repo : \E w \in conf[r] : Create(r, w, i)
        \/ Becomes(i, "offline", "idle")
        \/ Becomes(i, "idle", "busy")
        \/ Becomes(i, "busy", "idle")
        \/ Becomes(i, "idle", "offline")
        \/ Leave(i)
        \/ SomeList(i)
        \/ SomeReap(i)
    \/ \E r \in Repo, c \in Mergeable : Edit(r, c)
    \/ \E S \in SUBSET Repo : Audit(S)

Spec == Init /\ [][Next]_vars

(* Crons fire and a sweep gets to every line it selected.                   *)
FairSpec == Spec /\ \A i \in Slot : WF_vars(SomeList(i)) /\ WF_vars(SomeReap(i))

-----------------------------------------------------------------------------
(* What the rules buy.                                                      *)

(* "A dereg operation only counts ... if it is filtered to one of the two   *)
(* safe predicates" (check_dereg_backstop.py, l. 86): whatever is merged    *)
(* while a sweep runs, a runner that is taken out of a job was not in one   *)
(* when the sweep listed it - the job began between the listing (l. 236 of  *)
(* the reaper) and the DELETE (l. 304) - unless the predicate that the rule *)
(* found belongs to another command.                                        *)
BusyOnlySinceListed ==
    (reap # Nothing /\ reap.runner.status = "busy") =>
        reap.saw # "busy" \/ reap.flow.reaper = "elsewhere"

(* What a passing audit of two repositories cannot see of a reap:           *)
Blind(r, w, g) ==
    \* one of them declares its organisation only where the audit does not look,
    \/ ~SeesOrg(conf[r]) \/ ~SeesOrg(conf[g.owner])
    \* the reaper's filter is not spelled out, or not to its end,
    \/ w.scope # "literal"
    \/ \E k \in DOMAIN w.prefixes : w.prefixes[k].p \notin SeenPrefixes(w)
    \* the registration is older than the producer's present prefixes or has
    \* a name that is interpolated from its first letter on,
    \/ g.by \notin Emits(conf[g.owner])
    \* the sweep was started from workflows that have been replaced since,
    \/ w \notin conf[r]
    \* or the name continues the emitted prefix into the reaper's filter.
    \/ \E k \in DOMAIN w.prefixes :
        /\ IsStrictPrefix(g.by, w.prefixes[k].p)
        /\ StartsWith(g.name, w.prefixes[k].p)

(* While an audit stands, a reaper removes a registration of another        *)
(* audited repository only in a case the audit is blind to.                 *)
SiblingsSpared ==
    (reap # Nothing /\ reap.by # reap.runner.owner
        /\ {reap.by, reap.runner.owner} \subseteq audited)
    => Blind(reap.by, reap.flow, reap.runner)

(* A configuration whose reapers are what the coverage rule takes them for: *)
(* every workflow it counts as a backstop runs, and its list is spelled out.*)
AsCounted(c) ==
    \A w \in Backstops(c) : RunsUnattended(w) /\ (Canonical(w) => SeenPrefixes(w) # {})

Counted == {c \in Configs : AsCounted(c)}

Stuck(i) ==
    /\ runner[i] # Free
    /\ runner[i].status = "offline"
    /\ conf[runner[i].owner] \in Counted
    /\ runner[i].by \in Emits(conf[runner[i].owner])

(* Such a repository reaps what it creates: an offline registration of a    *)
(* present producer is one that some workflow of its own, running           *)
(* unattended, selects.                                                     *)
CoveredIsReapable ==
    \A i \in Slot : Stuck(i) =>
        \E w \in conf[runner[i].owner] :
            /\ RunsUnattended(w)
            /\ MayTake(w, "offline")
            /\ Named(w, runner[i].name)

(* Then every registration such a repository creates is drained, whatever   *)
(* is merged into it meanwhile.                                             *)
CoveredIsDrained == \A i \in Slot : []<>~Stuck(i)
=============================================================================
