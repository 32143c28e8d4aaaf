----------------------------- MODULE CleanupRun -----------------------------
(***************************************************************************)
(* A clean-up workflow at work: something is left behind, a schedule or a  *)
(* person starts the workflow, and each of its steps may fail.             *)
(***************************************************************************)
EXTENDS CleanupRules

CONSTANT Flows   \* the workflows there may be

ASSUME FlowsAssumption == Flows \subseteq Flow

VARIABLES
    flow,     \* the workflow
    orphan,   \* whether something has been left behind, or was and is gone
    run       \* the last run of the workflow

cleanupVars == <<flow, orphan, run>>

NoFlow == [shape |-> "none", on |-> {}]

NotStarted == [at |-> "never", by |-> "nobody", live |-> FALSE, tool |-> TRUE,
               seen |-> FALSE, failed |-> "nothing", result |-> "none"]

CleanupInit == flow = NoFlow /\ orphan = "none" /\ run = NotStarted

Ends(result, failed) ==
    run' = [run EXCEPT !.at = "over", !.result = result, !.failed = failed]

(* Something is left behind, for whatever workflow there is to clean up.     *)
Leave(f) ==
    /\ orphan = "none"
    /\ orphan' = "left" /\ flow' = f
    /\ UNCHANGED run

Start(by, value) ==
    /\ by \in flow.on /\ run.at \in {"never", "over"}
    /\ by = "schedule" => value = OnSchedule(flow.mode)
    /\ run' = [NotStarted EXCEPT !.at = "install", !.by = by,
                                 !.live = Destructive(flow, value)]
    /\ UNCHANGED <<flow, orphan>>

(* A silenced install goes on without the tool; one is there or is not.     *)
Install ==
    /\ run.at = "install"
    /\ \/ run' = [run EXCEPT !.at = "list"]
       \/ IF flow.install = "loud" THEN Ends("red", "install")
          ELSE run' = [run EXCEPT !.at = "list", !.tool = FALSE]
    /\ UNCHANGED <<flow, orphan>>

List ==
    /\ run.at = "list"
    /\ \/ run' = [run EXCEPT !.at = "close", !.seen = orphan = "left"]
       \/ IF flow.list \in {"plain", "captured", "fallback_tested"}
          THEN Ends("red", "list") ELSE Ends("green", "list")
    /\ UNCHANGED <<flow, orphan>>

(* A tool that is absent fails as a close does, if it is asked for at all.  *)
Close ==
    /\ run.at = "close"
    /\ IF ~run.seen THEN Ends("green", "nothing") /\ UNCHANGED orphan
       ELSE IF ~run.live THEN Ends("reported", "nothing") /\ UNCHANGED orphan
       ELSE \/ /\ run.tool \/ flow.via = "curl"
               /\ Ends("green", "nothing") /\ orphan' = "gone"
            \/ /\ IF \/ flow.close = "when_installed" /\ ~run.tool
                     \/ flow.close \in SilencedClose \cup MissedClose
                  THEN Ends("green", "close")
                  ELSE Ends(IF flow.close \in AnnouncedClose THEN "announced" ELSE "red",
                            "close")
               /\ UNCHANGED orphan
    /\ UNCHANGED flow

CleanupStep == Install \/ List \/ Close

CleanupNext ==
    \/ \E f \in Flows : Leave(f)
    \/ \E by \in {"schedule", "dispatch"}, value \in BOOLEAN : Start(by, value)
    \/ CleanupStep

CleanupSpec == CleanupInit /\ [][CleanupNext]_cleanupVars

(* GitHub fires a schedule, and a job that has started goes on.             *)
CleanupFairness ==
    /\ WF_cleanupVars(\E value \in BOOLEAN : Start("schedule", value))
    /\ WF_cleanupVars(CleanupStep)

-----------------------------------------------------------------------------
(* What a pass of the two rules on statuses does not see: a list of leases, *)
(* a removal of runners, and a status that is disposed of in other words.   *)
UnseenList ==
    flow.lists = "leases" \/ flow.list \in {"fallback_shrugged", "exit_zero"}
UnseenClose ==
    \/ flow.lists = "runners" \/ flow.close \in MissedClose
    \/ flow.close = "when_installed" /\ (flow.install = "none" \/ flow.target = "other")

(* "'Closed successfully' and 'never ran' are indistinguishable" must not   *)
(* be: when the rules pass, a green run that says nothing has neither       *)
(* failed to read its list nor failed to close what it saw, but for the     *)
(* forms they do not see.                                                   *)
GreenMeansClean ==
    run.result = "green" =>
        /\ run.failed = "list" /\ "listing" \in CleanupPassed(flow) => UnseenList
        /\ run.failed = "close" /\ "teardown" \in CleanupPassed(flow) => UnseenClose

(* Decided by the author for a schedule: no input, or a literal of its own. *)
Decided(e) == e.input = "none" \/ (e.guard = "==schedule" /\ e.literal # "bare")

(* "Safe forms" (l. 80-83), "false on a cron -> short-circuits before the   *)
(* input": and then fall through to the default behind it.                  *)
FallsThrough(e) ==
    \/ e.guard = "==schedule" /\ e.literal = "bare"
    \/ e.guard \in {"==dispatch", "!=schedule&&"} /\ ~e.grouped /\ e.default = "true"

(* Forms that pass and are false on a schedule, where false means live.     *)
FalseIsLive(f) == f.flag = "dry_run" /\ (Discriminates(f.mode) \/ Compares(f.mode))

(* "A schedule supplies no inputs": where the rule passes, an unattended    *)
(* run is destructive because its author decided so and not because an      *)
(* input was empty, unless the flag is negative, is read in an if: or falls *)
(* through a guard to its default.                                          *)
LiveByDecision ==
    (run.by = "schedule" /\ run.live /\ "inputs" \in CleanupPassed(flow)) =>
        \/ Decided(flow.mode) \/ FallsThrough(flow.mode)
        \/ FalseIsLive(flow) \/ flow.mode.place = "if"

(* A backstop nobody has to remember: where the four rules have nothing     *)
(* against a workflow that is one by its name, what is left behind goes     *)
(* away, or a run says that it did not, unless the workflow runs on others' *)
(* behalf, wants an input no schedule has, or is silent in a way the rules  *)
(* do not see.                                                              *)
OrphansEnd ==
    (orphan = "left" /\ InScope(flow) /\ flow.dseqs # "required"
        /\ {"schedule", "inputs", "teardown"} \subseteq CleanupPassed(flow)
        /\ ListingExit(flow) # 1 /\ flow.list \in {"plain", "captured", "fallback_tested"})
    ~> (\/ orphan = "gone" \/ run.result \in {"red", "announced", "reported"}
        \/ run.failed = "close" /\ UnseenClose)
=============================================================================
