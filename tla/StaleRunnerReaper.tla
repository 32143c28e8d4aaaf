------------------------- MODULE StaleRunnerReaper -------------------------
(***************************************************************************)
(* The stale org-runner registration reaper:                               *)
(* .github/workflows/reusable-stale-runner-reaper.yml.                     *)
(*                                                                         *)
(* A Sweep is one run of the workflow, called by one repository with its   *)
(* own inputs; sweeps of several repositories, and overlapping sweeps of   *)
(* one, work on the same organisation at the same time, because nothing in *)
(* the workflow sets a concurrency group.  Every `gh api` call is a step   *)
(* of its own: between two calls the organisation moves on.                *)
(***************************************************************************)
EXTENDS OrgRunners

CONSTANTS
    Sweep,         \* runs of the reaper workflow
    Prefix,        \* non-blank entries a caller can put in name-prefixes
    Blank,         \* an entry of white space only (the list ",")
    NameUnder,     \* NameUnder[n]: the entries the name of n starts with
    Inputs,        \* the inputs callers use
    RecheckEvery,  \* deletions between two reads of the budget (25)
    ApiFloor       \* api-floor

(* sops: "off" takes the token from runner-pat alone, "pinned" also loads   *)
(* the caller's SOPS file through a pinned loader, "floating" names the     *)
(* loader by something that is not a full commit id.                        *)
Input == [pat: BOOLEAN,
          sops: {"off", "pinned", "floating"},
          prefixes: SUBSET (Prefix \cup {Blank}),   \* {}: the blank string
          dryRun: BOOLEAN]

ASSUME ReaperAssumption ==
    /\ Blank \notin Prefix
    /\ NameUnder \in [Reg -> SUBSET Prefix]
    /\ Inputs \subseteq Input
    /\ RecheckEvery \in Nat \ {0}
    /\ ApiFloor \in Nat

VARIABLES
    input,       \* what the caller passes; fixed for the life of a sweep
    pc,          \* the step of the job the sweep is at
    outcome,     \* how the job ended
    page,        \* the listing page to fetch next
    offline,     \* /tmp/offline.tsv
    listRc,      \* LIST_RC # 0
    total,       \* what TOTAL holds: nothing, a number, or an error body
    owned,       \* /tmp/owned.tsv
    todo,        \* the lines of owned.tsv the loop has not read yet
    D,           \* the count of deletions
    \* History, read by properties only
    reaped,      \* registrations this sweep removed
    attempts,    \* DELETE calls since the budget was last looked at
    wins,        \* ... and how many of them were counted in D
    atFloor,     \* the budget was at or below the floor at that look
    steady,      \* offline and idle ever since the listing started
    shifted      \* a registration left the listing while it was being read

locals  == <<page, offline, listRc, total, owned, todo, D>>
history == <<reaped, attempts, wins, atFloor>>
watch   == <<steady, shifted>>
vars == <<orgVars, input, pc, outcome, locals, history, watch>>

Steps == {"idle", "floor", "list", "total", "loop", "delete", "after", "done"}

(* Exit 1 unless noted.                                                     *)
Outcomes == {"none",
    "unpinned_loader", "loader_failed", "no_credential",
    "blank_prefixes",        \* exit 2
    "skipped",               \* exit 0, at or below the floor
    "listing_unreadable", "total_unreadable",
    "nothing_matched",       \* exit 0, "Reaped 0"
    "dry_run",               \* exit 0
    "summary",               \* exit 0, with a before and after listing
    "summary_unmeasured",    \* exit 0, after a warning that AFTER is unknown
    "no_summary",            \* the arithmetic of the last echo failed
    "cancelled"}             \* timeout-minutes: 20, or someone cancelled

JobTypeOK ==
    /\ pc \in [Sweep -> Steps]
    /\ outcome \in [Sweep -> Outcomes]
    /\ \A s \in Sweep : pc[s] = "done" <=> outcome[s] # "none"

(* The organisation and the job have their types; a sweep is done when it   *)
(* has an outcome.                                                          *)
TypeOK ==
    /\ OrgTypeOK
    /\ JobTypeOK
    /\ input \in [Sweep -> Inputs]
    /\ page \in [Sweep -> Nat \ {0}]
    /\ offline \in [Sweep -> SUBSET Reg]
    /\ listRc \in [Sweep -> BOOLEAN]
    /\ total \in [Sweep -> {"unread", "number", "silent", "text"}]
    /\ owned \in [Sweep -> SUBSET Reg]
    /\ todo \in [Sweep -> SUBSET Reg]
    /\ D \in [Sweep -> Nat]
    /\ reaped \in [Sweep -> SUBSET Reg]
    /\ attempts \in [Sweep -> Nat]
    /\ wins \in [Sweep -> Nat]
    /\ atFloor \in [Sweep -> BOOLEAN]
    /\ steady \in [Sweep -> SUBSET Reg]
    /\ shifted \in [Sweep -> BOOLEAN]

FreshJob(s) ==
    /\ page' = [page EXCEPT ![s] = 1]
    /\ offline' = [offline EXCEPT ![s] = {}]
    /\ listRc' = [listRc EXCEPT ![s] = FALSE]
    /\ total' = [total EXCEPT ![s] = "unread"]
    /\ owned' = [owned EXCEPT ![s] = {}]
    /\ todo' = [todo EXCEPT ![s] = {}]
    /\ D' = [D EXCEPT ![s] = 0]
    /\ reaped' = [reaped EXCEPT ![s] = {}]
    /\ attempts' = [attempts EXCEPT ![s] = 0]
    /\ wins' = [wins EXCEPT ![s] = 0]
    /\ atFloor' = [atFloor EXCEPT ![s] = FALSE]

Init ==
    /\ OrgInit
    /\ input \in [Sweep -> Inputs]
    /\ pc = [s \in Sweep |-> "idle"]
    /\ outcome = [s \in Sweep |-> "none"]
    /\ page = [s \in Sweep |-> 1]
    /\ offline = [s \in Sweep |-> {}]
    /\ listRc = [s \in Sweep |-> FALSE]
    /\ total = [s \in Sweep |-> "unread"]
    /\ owned = [s \in Sweep |-> {}]
    /\ todo = [s \in Sweep |-> {}]
    /\ D = [s \in Sweep |-> 0]
    /\ reaped = [s \in Sweep |-> {}]
    /\ attempts = [s \in Sweep |-> 0]
    /\ wins = [s \in Sweep |-> 0]
    /\ atFloor = [s \in Sweep |-> FALSE]
    /\ steady = [s \in Sweep |-> {}]
    /\ shifted = [s \in Sweep |-> FALSE]

-----------------------------------------------------------------------------
(* Helpers of the script.                                                   *)

GoTo(s, step) ==
    /\ pc' = [pc EXCEPT ![s] = step]
    /\ UNCHANGED outcome

End(s, how) ==
    /\ pc' = [pc EXCEPT ![s] = "done"]
    /\ outcome' = [outcome EXCEPT ![s] = how]

(* Bug: blank entries are not skipped, and "" is a prefix of every name.    *)
MatchesBlankToo(s, n) ==
    input[s].prefixes \cap (NameUnder[n] \cup {Blank}) # {}

(* `case "$name" in "$p"*`, with blank entries of the list skipped.         *)
Matches(s, n) == input[s].prefixes \cap NameUnder[n] # {}

(* Bug: `-lt` for `-le`.                                                    *)
ReadsBelowFloor(answer) ==
    \/ answer = "silent"
    \/ answer = "number" /\ core < ApiFloor

(* core() and the comparison with the floor: a transport failure reads as   *)
(* 0; with an error body in R the `[` fails, so the `if` is not taken.      *)
ReadsAtFloor(answer) ==
    \/ answer = "silent"
    \/ answer = "number" /\ core <= ApiFloor

(* Bug: the floor is checked before the first deletion only.                *)
RecheckOnce(s) == D[s] = 0

(* Whether the loop looks at the budget before the next line.               *)
RecheckDue(s) == D[s] % RecheckEvery = 0

(* Bug: no --paginate.                                                      *)
FirstPageOnly(k) == FALSE

(* The lines of offline.tsv a page adds, and whether --paginate goes on.    *)
Selected(k) == {n \in Page(k) : OfflineIdle(n)}
MorePages(k) == ~IsLastPage(k)

(* What the guards after the two reads make of them.                        *)
AfterReads(s, answer) ==
    IF listRc[s] THEN "listing_unreadable"
    ELSE IF answer = "silent" THEN "total_unreadable"
    ELSE IF \A n \in offline[s] : ~Matches(s, n) THEN "nothing_matched"
    ELSE IF input[s].dryRun THEN "dry_run"
    ELSE "none"

(* Bug: AFTER read without `|| echo ""`, under `set -e`.                    *)
FinalWordOrCrash(s, answer) == IF answer = "number" THEN "summary" ELSE "no_summary"

(* `AFTER` and the last echo: an empty AFTER is replaced by TOTAL with a    *)
(* warning; an error body in either breaks the arithmetic of the echo.      *)
FinalWord(s, answer) ==
    IF total[s] = "text" \/ answer = "text" THEN "no_summary"
    ELSE IF answer = "silent" THEN "summary_unmeasured"
    ELSE "summary"

(* Bug: `;` for `&&`.                                                       *)
CountEveryCall(s, rc) ==
    /\ D' = [D EXCEPT ![s] = @ + 1]
    /\ wins' = [wins EXCEPT ![s] = @ + 1]

(* `gh ... && D=$(( D + 1 ))`: counted by the exit status of gh.             *)
Count(s, rc) ==
    IF rc = 0
    THEN /\ D' = [D EXCEPT ![s] = @ + 1]
         /\ wins' = [wins EXCEPT ![s] = @ + 1]
    ELSE UNCHANGED <<D, wins>>

(* Bug: a refused deletion is tried again until it succeeds.                *)
RetryLine(s, n, rc) ==
    todo' = IF rc = 0 THEN [todo EXCEPT ![s] = @ \ {n}] ELSE todo

(* The `while read` moves on to the next line whatever became of this one.  *)
NextLine(s, n, rc) == todo' = [todo EXCEPT ![s] = @ \ {n}]

(* A read that is answered with a number costs a call and needs one left.   *)
Read(answer) ==
    /\ answer = "number" => core > 0
    /\ Spend

-----------------------------------------------------------------------------
(* The steps of a job.                                                      *)

(* The watch over a listing in progress follows every change of the org.    *)
Watch ==
    /\ steady' = [s \in Sweep |-> {n \in steady[s] : state'[n] = "offline"}]
    /\ shifted' = [s \in Sweep |->
                     \/ shifted[s]
                     \/ pc[s] = "list" /\ \E n \in Listed : state'[n] = "gone"]

(* Loader guard, loader, credential guard, prefix guard.                    *)
Start(s) ==
    /\ pc[s] = "idle"
    /\ \/ input[s].sops = "floating" /\ End(s, "unpinned_loader")
       \/ input[s].sops = "pinned" /\ End(s, "loader_failed")
       \/ /\ input[s].sops # "floating"
          /\ \E fromSops \in IF input[s].sops = "pinned" THEN BOOLEAN ELSE {FALSE} :
                IF ~(input[s].pat \/ fromSops) THEN End(s, "no_credential")
                ELSE IF input[s].prefixes = {} THEN End(s, "blank_prefixes")
                ELSE GoTo(s, "floor")
    /\ UNCHANGED <<orgVars, input, locals, history, watch>>

(* The first look at the budget; `gh api rate_limit` costs nothing.         *)
CheckFloor(s) ==
    /\ pc[s] = "floor"
    /\ \E answer \in Answers :
          IF ReadsAtFloor(answer) THEN End(s, "skipped") ELSE GoTo(s, "list")
    /\ steady' = [steady EXCEPT ![s] = {n \in Reg : OfflineIdle(n)}]
    /\ shifted' = [shifted EXCEPT ![s] = FALSE]
    /\ UNCHANGED <<orgVars, input, locals, history>>

(* One page of `gh api --paginate`.                                         *)
ListPage(s) ==
    /\ pc[s] = "list"
    /\ core > 0
    /\ Spend
    /\ offline' = [offline EXCEPT ![s] = @ \cup Selected(page[s])]
    /\ IF MorePages(page[s])
       THEN page' = [page EXCEPT ![s] = @ + 1] /\ UNCHANGED <<pc, outcome>>
       ELSE GoTo(s, "total") /\ UNCHANGED page
    /\ UNCHANGED <<state, input, listRc, total, owned, todo, D, history, watch>>

ListFails(s) ==
    /\ pc[s] = "list"
    /\ Spend
    /\ listRc' = [listRc EXCEPT ![s] = TRUE]
    /\ GoTo(s, "total")
    /\ UNCHANGED <<state, input, page, offline, total, owned, todo, D, history, watch>>

(* TOTAL, the guards on both reads, owned.tsv, and the two early exits.     *)
ReadTotal(s) ==
    /\ pc[s] = "total"
    /\ \E answer \in Answers :
        /\ Read(answer)
        /\ total' = [total EXCEPT ![s] = answer]
        /\ LET ending == AfterReads(s, answer)
               mine == IF ending \in {"listing_unreadable", "total_unreadable"}
                       THEN {} ELSE {n \in offline[s] : Matches(s, n)}
           IN  /\ owned' = [owned EXCEPT ![s] = mine]
               /\ todo' = [todo EXCEPT ![s] = mine]
               /\ IF ending = "none" THEN GoTo(s, "loop") ELSE End(s, ending)
    /\ UNCHANGED <<state, input, page, offline, listRc, D, history, watch>>

(* The head of the loop when D is a multiple of 25.                         *)
Recheck(s) ==
    /\ pc[s] = "loop"
    /\ todo[s] # {}
    /\ RecheckDue(s)
    /\ \E answer \in Answers :
          GoTo(s, IF ReadsAtFloor(answer) THEN "after" ELSE "delete")
    /\ attempts' = [attempts EXCEPT ![s] = 0]
    /\ wins' = [wins EXCEPT ![s] = 0]
    /\ atFloor' = [atFloor EXCEPT ![s] = core <= ApiFloor]
    /\ UNCHANGED <<orgVars, input, locals, reaped, watch>>

(* `gh api -X DELETE ... && D=$(( D + 1 ))`: deleted and counted; deleted   *)
(* with the answer lost, so not counted; or refused, and the loop goes on.  *)
Delete(s) ==
    /\ \/ pc[s] = "delete"
       \/ pc[s] = "loop" /\ ~RecheckDue(s)
    /\ GoTo(s, "loop")
    /\ Spend
    /\ attempts' = [attempts EXCEPT ![s] = @ + 1]
    /\ \E n \in todo[s], rc \in {0, 1} :
        /\ NextLine(s, n, rc)
        /\ Count(s, rc)
        /\ \/ /\ core > 0 /\ n \in Listed
              /\ state' = [state EXCEPT ![n] = "gone"]
              /\ reaped' = [reaped EXCEPT ![s] = @ \cup {n}]
           \/ /\ rc = 1
              /\ UNCHANGED <<state, reaped>>
    /\ Watch
    /\ UNCHANGED <<input, page, offline, listRc, total, owned, atFloor>>

(* AFTER and the summary.                                                   *)
Summarise(s) ==
    /\ \/ pc[s] = "after"
       \/ pc[s] = "loop" /\ todo[s] = {}
    /\ \E answer \in Answers :
        /\ Read(answer)
        /\ End(s, FinalWord(s, answer))
    /\ UNCHANGED <<state, input, locals, history, watch>>

Cancel(s) ==
    /\ pc[s] \notin {"idle", "done"}
    /\ End(s, "cancelled")
    /\ UNCHANGED <<orgVars, input, locals, history, watch>>

(* The caller's cron, or a dispatch, starts another run.                    *)
Schedule(s) ==
    /\ pc[s] = "done"
    /\ pc' = [pc EXCEPT ![s] = "idle"]
    /\ outcome' = [outcome EXCEPT ![s] = "none"]
    /\ FreshJob(s)
    /\ UNCHANGED <<orgVars, input, watch>>

JobStep(s) ==
    \/ Start(s)
    \/ CheckFloor(s)
    \/ ListPage(s)
    \/ ListFails(s)
    \/ ReadTotal(s)
    \/ Recheck(s)
    \/ Delete(s)
    \/ Summarise(s)

(* The organisation moves on its own.                                       *)
EnvStep ==
    /\ OrgStep
    /\ Watch
    /\ UNCHANGED <<input, pc, outcome, locals, history>>

Next ==
    \/ EnvStep
    \/ \E s \in Sweep : JobStep(s) \/ Cancel(s) \/ Schedule(s)

Spec == Init /\ [][Next]_vars

(* GitHub keeps running a job it has started.                               *)
FairSpec == Spec /\ \A s \in Sweep : WF_vars(JobStep(s))

-----------------------------------------------------------------------------
(* What the reaper owes.                                                    *)

(* What one sweep removes was offline and idle in that sweep's own listing, *)
(* is named under a non-blank prefix of its caller, and its caller did not  *)
(* ask for a dry run - whatever other sweeps do meanwhile.                  *)
OnlyOwnedReaped ==
    \A s \in Sweep : \A n \in reaped[s] :
        /\ n \in offline[s]
        /\ NameUnder[n] \cap (input[s].prefixes \ {Blank}) # {}
        /\ ~input[s].dryRun

(* The loop never counts more than RecheckEvery deletions without having    *)
(* looked at the budget again.                                              *)
RecheckedOften == \A s \in Sweep : wins[s] <= RecheckEvery

(* "Deleted D of OWNED" never claims a registration that is still there or  *)
(* that another sweep removed: the counts of all sweeps add up to at most   *)
(* what they removed.                                                       *)
HonestCount ==
    \A s, t \in Sweep :
        /\ D[s] <= Cardinality(reaped[s])
        /\ reaped[s] \subseteq owned[s]
        /\ s # t => D[s] + D[t] <= Cardinality(reaped[s] \cup reaped[t])

(* A listing that ended without an error holds every registration that was  *)
(* offline and idle all along, unless one left the listing while it was     *)
(* being paged - then the later ones move up a page and can be missed.      *)
ListingComplete ==
    \A s \in Sweep :
        /\ pc[s] \in {"total", "loop", "delete", "after"}
        /\ ~listRc[s]
        /\ ~shifted[s]
        => steady[s] \subseteq offline[s]

(* As long as a failed read leaves nothing on stdout: no DELETE follows a   *)
(* look at a budget that was at or below the floor ...                      *)
StopsAtFloor ==
    "text" \notin FailedRead =>
        \A s \in Sweep : attempts[s] > 0 => ~atFloor[s]

(* ... nothing is taken for reapable unless the listing and the org total   *)
(* were both read ...                                                       *)
Corroborated ==
    "text" \notin FailedRead =>
        \A s \in Sweep : owned[s] # {} => ~listRc[s] /\ total[s] = "number"

(* ... and a sweep that has removed something and was not cancelled says so *)
(* in a summary.                                                            *)
SummaryFollows ==
    "text" \notin FailedRead =>
        \A s \in Sweep :
            pc[s] = "done" /\ reaped[s] # {} =>
                outcome[s] \in {"summary", "summary_unmeasured", "cancelled"}

(* Silence is never taken for an empty organisation, nor a sweep for one    *)
(* that did nothing: the two of them, as one property of a run.             *)
SilenceIsNoAnswer == Corroborated /\ SummaryFollows

(* A sweep that has begun ends, though every call it makes may fail.        *)
SweepEnds ==
    \A s \in Sweep : pc[s] \notin {"idle", "done"} ~> pc[s] = "done"
=============================================================================
