---------------------------- MODULE RuleTargets -----------------------------
(* _cli.py: what a rule judges when it is called with a positional target,  *)
(* with --workflows-dir (or --workflow-file), with both or with neither.    *)
CONSTANT Path

Spelling == {"full", "abbreviated"}    \* of the flag, on a command line

VARIABLES call, outcome

vars == <<call, outcome>>

(* The rules use three resolvers; in those with a directory the flag has a  *)
(* default or is required.                                                  *)
Call == [resolver: {"target", "dir", "targets"}, default: SUBSET Path,
         positional: SUBSET Path, flag: SUBSET Path, spelling: Spelling]

One(S) == \A p, q \in S : p = q

Init ==
    /\ call \in {c \in Call : One(c.default) /\ One(c.positional) /\ One(c.flag)}
    /\ outcome = [is |-> "called", paths |-> {}]

Judges(paths) == [is |-> "judges", paths |-> paths]
UsageError == [is |-> "usage", paths |-> {}]

OrError(paths) == IF paths = {} THEN UsageError ELSE Judges(paths)

ResolveTarget(c) ==
    IF ~One(c.positional \cup c.flag) THEN UsageError
    ELSE OrError(c.positional \cup c.flag)

(* argparse takes an abbreviation for the flag; _passed looks for the flag. *)
Passed(c) == c.flag # {} /\ c.spelling = "full"

ResolveDir(c) ==
    LET dest == IF c.flag # {} THEN c.flag ELSE c.default
    IN  IF Passed(c) /\ ~One(c.positional \cup c.flag) THEN UsageError
        ELSE OrError(IF c.positional # {} /\ ~Passed(c) THEN c.positional ELSE dest)

ResolveTargets(c) == OrError(c.positional \cup c.flag)

Resolve ==
    /\ outcome.is = "called"
    /\ outcome' = (CASE call.resolver = "target" -> ResolveTarget(call)
                     [] call.resolver = "dir" -> ResolveDir(call)
                     [] call.resolver = "targets" -> ResolveTargets(call))
    /\ UNCHANGED call

Next == Resolve

Spec == Init /\ [][Next]_vars

(* "BOTH IS AN ERROR, NOT A PRECEDENCE PUZZLE" and "an empty target list    *)
(* must stay an ERROR" (l. 106, 190): a rule that judges anything judges    *)
(* all that it was given, whichever resolver it uses, and its default only  *)
(* if it was given nothing; but a directory's flag must be written in full. *)
JudgesWhatItWasGiven ==
    outcome.is = "judges" /\ (call.resolver = "dir" => call.spelling = "full") =>
        /\ outcome.paths # {}
        /\ outcome.paths = IF call.positional \cup call.flag = {} THEN call.default
                           ELSE call.positional \cup call.flag
=============================================================================
