---------------------------- MODULE BackstopRules ----------------------------
(***************************************************************************)
(* What the rules on runner registrations read of a repository, and what   *)
(* they conclude:                                                          *)
(*   check_dereg_backstop.py             a backstop exists and is safe     *)
(*   check_backstop_covers_producers.py  it covers what the repo creates   *)
(*   check_sibling_prefix_collisions.py  it spares the repos next to it    *)
(* The first two judge one repository and stop a merge; the third is an    *)
(* audit over several checkouts.  A repository is its set of workflows,    *)
(* and a workflow is the record of what the rules can tell apart.          *)
(***************************************************************************)
EXTENDS Naturals, FiniteSets, Sequences, SequencesExt

CONSTANTS
    Repo,      \* repositories that register runners into one organisation
    Letter,    \* what names are made of
    Literal,   \* non-empty literals before the first interpolation of a name
    Name       \* runner names

ASSUME NameAssumption ==
    /\ IsFiniteSet(Repo)
    /\ Literal \subseteq Seq(Letter) \ {<<>>}
    /\ Name \subseteq Seq(Letter)

(* An entry of a prefix list; spaced: white space stands before it.         *)
Entry == [p: Literal, spaced: BOOLEAN]

Workflow == [
    \* the file is not YAML, or it runs a script that is not there
    reads: {"ok", "unparsed", "script_missing"},
    on: SUBSET {"schedule", "workflow_call"},
    \* run text that registers runners, and the literals it names them by
    creates: BOOLEAN,
    emits: SUBSET Literal,
    \* a job-level call of the canonical reaper, at a commit or at a branch or
    \* tag; or a DELETE of its own, with one of the safe selectors, with one
    \* that stands elsewhere in the same text, or with neither
    reaper: {"none", "pinned", "moving", "safe", "elsewhere", "unsafe"},
    \* its name filter: spelled out, an expression, or none at all
    scope: {"literal", "expression", "everything"},
    prefixes: Seq(Entry),
    \* what keeps an unscheduled call of the reaper from being an export
    export: {"ok", "org_literal", "own_secret", "no_secret"},
    dryRun: BOOLEAN,       \* what it passes to the canonical reaper
    orgText: BOOLEAN]      \* run text or an env names the organisation

StartsWith(name, p) == IsPrefix(p, name)

Canonical(w)   == w.reaper \in {"pinned", "moving"}
Deregisters(w) == w.reaper # "none"
Scheduled(w)   == "schedule" \in w.on
Parsed(c)      == {w \in c : w.reads # "unparsed"}

Emits(c) == UNION {w.emits : w \in Parsed(c)}

(* NAME_FILTER_INPUT: a run of name characters and commas, which ends at    *)
(* the first space; nothing of an expression.                               *)
SeenPrefixes(w) ==
    IF w.scope = "literal"
    THEN {w.prefixes[i].p :
            i \in {k \in DOMAIN w.prefixes :
                     \A j \in 2..k : ~w.prefixes[j].spaced}}
    ELSE {}

-----------------------------------------------------------------------------
(* check_dereg_backstop.py                                                  *)

Exports(w) == "workflow_call" \in w.on /\ w.export = "ok"

(* Bug: the safe selectors are not asked for.                               *)
AnyDelete(c) == \A w \in c : w.reaper # "moving"

(* Neither an unpinned call nor a DELETE without a safe selector somewhere  *)
(* in the same text is left.                                                *)
NoHazard(c) == \A w \in Parsed(c) : w.reaper \notin {"moving", "unsafe"}

DeregBackstop(c) ==
    /\ c # {}
    /\ \A w \in c :
        /\ w.reads # "unparsed"
        /\ w.reads = "script_missing" => ~Scheduled(w)
        /\ w.reaper = "pinned" => Scheduled(w) \/ Exports(w)
    /\ NoHazard(c)
    /\ (\E w \in c : w.creates) =>
        \E w \in c :
            \/ w.reaper \in {"pinned", "safe", "elsewhere"} /\ Scheduled(w)
            \/ w.reaper = "pinned" /\ Exports(w)

-----------------------------------------------------------------------------
(* check_backstop_covers_producers.py                                       *)

Backstops(c) == {w \in Parsed(c) : w.on # {} /\ Deregisters(w)}

(* No filter was found, nor the word startswith: it filters nothing.        *)
TakenForUnfiltered(w) ==
    /\ Scheduled(w)
    /\ SeenPrefixes(w) = {}
    /\ Canonical(w) \/ w.scope = "everything"

(* Bug: the prefix test the other way round.                                *)
CoveredBackwards(p, filters) == \E f \in filters : StartsWith(f, p)

CoveredBy(p, filters) == \E f \in filters : StartsWith(p, f)

BackstopCovers(c) ==
    /\ c # {}
    /\ \/ \E w \in Backstops(c) : TakenForUnfiltered(w)
       \/ LET filters == UNION {SeenPrefixes(w) : w \in Backstops(c)}
          IN  \A p \in Emits(c) : CoveredBy(p, filters)

(* What the conformance action asks of a repository before it merges.       *)
Compliant(c) == DeregBackstop(c) /\ BackstopCovers(c)

-----------------------------------------------------------------------------
(* check_sibling_prefix_collisions.py                                       *)

SeesOrg(c)   == \E w \in Parsed(c) : w.orgText
FiltersOf(c) == UNION {SeenPrefixes(w) : w \in Parsed(c)}

(* Bug: only an equal prefix collides.                                      *)
CollidesEqual(reaper, victim) ==
    /\ SeesOrg(reaper) /\ SeesOrg(victim)
    /\ FiltersOf(reaper) \cap Emits(victim) # {}

Collides(reaper, victim) ==
    /\ SeesOrg(reaper) /\ SeesOrg(victim)
    /\ \E f \in FiltersOf(reaper), p \in Emits(victim) : StartsWith(p, f)

(* conf: the workflows of each repository; S: the checkouts handed in.      *)
AuditPasses(conf, S) ==
    LET described == {r \in S : conf[r] # {}}
    IN  /\ Cardinality(described) >= 2
        /\ \A r, t \in described : r # t => ~Collides(conf[r], conf[t])
=============================================================================
