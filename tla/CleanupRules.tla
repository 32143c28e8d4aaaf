---------------------------- MODULE CleanupRules ----------------------------
(***************************************************************************)
(* Four rules about a workflow that cleans up after others: whether it     *)
(* runs by itself (check_reaper_schedule), what its inputs are worth when  *)
(* it does (check_schedule_inputs_are_empty), whether a list it could not  *)
(* read is an empty one (check_listing_failure_is_loud), and whether a     *)
(* close that failed is a close (check_teardown_cannot_be_silenced).       *)
(***************************************************************************)
EXTENDS Naturals

(* An expression that sets the flag: which event it asks for first, how it  *)
(* reads the input, what it falls back to, and the literal a scheduled run  *)
(* is given after == 'schedule' (bare: false, without quotes); grouped: the *)
(* input and what it falls back to are in parentheses of their own; place:  *)
(* in ${{ }}, or in an if: without.                                         *)
Expr == [guard: {"none", "==schedule", "==dispatch", "!=schedule&&",
                 "!=schedule||", "!=dispatch&&"},
         input: {"none", "bare", "==true", "==false"},
         default: {"none", "true", "false"},
         literal: {"true", "false", "bare"}, grouped: BOOLEAN,
         place: {"braces", "if"}]

(* What happens to the status of the step that lists, and of the close.     *)
ListForm == {"plain", "captured", "fallback", "fallback_captured",
             "fallback_tested", "fallback_shrugged", "exit_zero"}

(* flagged, missed, announcing and failing forms.                           *)
SilencedClose == {"or_true", "or_echo", "continue_on_error", "if_only", "unread"}
MissedClose == {"exit_elsewhere", "read_and_dropped", "piped", "in_a_script"}
AnnouncedClose == {"or_warning", "if_warning"}
FailingClose == {"plain", "or_exit", "if_exit", "read", "when_installed"}

(* lists: runners are listed by gh api, and removed by it; leases are       *)
(* closed by a tool or by curl.  What asks for the tool first then uses it. *)
Flow ==
    {f \in [shape: {"reaper", "close-orphans", "other"},
            on: SUBSET {"schedule", "dispatch", "call"},
            dseqs: {"required", "default", "absent"},
            flag: {"dry_run", "execute"}, mode: Expr,
            lists: {"runners", "leases"}, list: ListForm,
            install: {"none", "loud", "silenced"}, target: {"tool", "opaque", "other"},
            via: {"tool", "curl"},
            close: SilencedClose \cup MissedClose \cup AnnouncedClose \cup FailingClose] :
        f.close = "when_installed" => f.via = "tool"}

-----------------------------------------------------------------------------
(* check_reaper_schedule                                                    *)

(* Bug: the exemption is taken at its word.                                 *)
ExemptByName(f) == f.shape = "close-orphans"

(* It holds as long as its reason does: the input is required and has no    *)
(* default, so that no schedule could supply it.                            *)
Exempt(f) == f.shape = "close-orphans" /\ f.dseqs = "required"

InScope(f) == f.shape # "other" /\ "call" \notin f.on

ScheduleExit(f) ==
    IF InScope(f) /\ "schedule" \notin f.on /\ ~Exempt(f) THEN 1 ELSE 0

-----------------------------------------------------------------------------
(* check_schedule_inputs_are_empty                                          *)

(* Bug: any comparison of the event's name will do.                         *)
AnyGuard(e) == e.guard # "none"

Discriminates(e) == e.guard \in {"==schedule", "==dispatch", "!=schedule&&"}

(* null == true is false; a fallback on the same line is one again.         *)
Compares(e) ==
    e.input = "==true" /\ e.default = "none" /\ e.guard # "!=schedule||"

Offends(e) ==
    e.input # "none" /\ e.place = "braces" /\ ~Discriminates(e) /\ ~Compares(e)

InputsExit(f) == IF "schedule" \in f.on /\ Offends(f.mode) THEN 1 ELSE 0

(* What the expression is when a schedule evaluates it: && binds tighter    *)
(* than ||, so that a guard that is false, or a false literal without       *)
(* quotes, goes on to whatever is behind the next ||.                       *)
OnSchedule(e) ==
    LET fallback == e.default = "true"
        inner == fallback \/ e.input = "==false"
    IN  CASE e.guard = "==schedule" -> e.literal = "true" \/ (e.literal = "bare" /\ inner)
          [] e.guard \in {"==dispatch", "!=schedule&&"} -> ~e.grouped /\ fallback
          [] OTHER -> inner

Destructive(f, value) == IF f.flag = "execute" THEN value ELSE ~value

-----------------------------------------------------------------------------
(* check_listing_failure_is_loud                                            *)

(* A constant fallback is true, : or echo; it is handled if the result is   *)
(* tested for emptiness, and not by a $? that is the fallback's.            *)
Swallows(form) == form \in {"fallback", "fallback_captured"}

(* A lister of nothing has not been judged.                                 *)
ListingExit(f) ==
    IF f.lists # "runners" THEN 3 ELSE IF Swallows(f.list) THEN 1 ELSE 0

-----------------------------------------------------------------------------
(* check_teardown_cannot_be_silenced                                        *)

(* A close that the rule recognises as one, and the tool it needs.          *)
ClosesBillable(f) == f.lists = "leases" /\ f.close # "in_a_script"
NeedsTool(f) == ClosesBillable(f) /\ f.via = "tool"

(* Bug: an install counts if it spells the tool's name.                     *)
NamedInstall(f) == NeedsTool(f) /\ f.install = "silenced" /\ f.target = "tool"

(* What is installed from a variable, a path or a URL could be the tool.    *)
SilencedInstall(f) ==
    NeedsTool(f) /\ f.install = "silenced" /\ f.target \in {"tool", "opaque"}

Offending(f) == ClosesBillable(f) /\ f.close \in SilencedClose

TeardownExit(f) == IF Offending(f) \/ SilencedInstall(f) THEN 1 ELSE 0

CleanupPassed(f) ==
    LET exit == [schedule |-> ScheduleExit(f), inputs |-> InputsExit(f),
                 listing |-> ListingExit(f), teardown |-> TeardownExit(f)]
    IN  {rule \in DOMAIN exit : exit[rule] = 0}
=============================================================================
