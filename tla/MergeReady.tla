----------------------------- MODULE MergeReady -----------------------------
(* merge_ready.py: one report on one pull request, put together from seven  *)
(* or more reads that GitHub answers one after the other, while pushes,     *)
(* checks, reviews and reruns go on.                                        *)
EXTENDS Integers, Sequences, FiniteSets, FiniteSetsExt, Functions

CONSTANTS
    Name,        \* the contexts
    PerPage,     \* per_page=100 of the lists that are read
    ThreadPage,  \* first:100 of the review threads
    MaxClock, MaxHead,  \* bounds on the world
    Sizes               \* and how many posts, threads and runs it has together

ASSUME BoundAssumption ==
    /\ PerPage \in Nat /\ ThreadPage \in Nat
    /\ {MaxClock, MaxHead} \subseteq Nat
    /\ Sizes \subseteq [posts: Nat, threads: Nat, runs: Nat] /\ Sizes # {}

(* The clock counts half seconds: an odd stamp is written with a fraction,  *)
(* an even one without.                                                     *)
Time == 0..MaxClock
Missing == -1
Sha == 0..MaxHead

VARIABLES
    clock,
    head,      \* the commit at the head of the pull request
    required,  \* what branch protection demands
    posts,     \* finished check-runs and commit statuses, in order of arrival
    running,   \* check-runs that have not concluded
    threads,   \* the review threads, in order of creation
    flows,     \* the workflow runs
    tool       \* merge_ready.py

world == <<clock, head, required, posts, running, threads, flows>>
vars == <<clock, head, required, posts, running, threads, flows, tool>>

Passing == {"success", "skipped"}

(* Bug: a conclusion is forgotten.                                          *)
TerminalFailuresOne == {"failure"}

TerminalFailures == {"failure", "cancelled"}

(* Of the results one of each kind that the code tells apart.               *)
Conclusions == {"skipped", "cancelled"}
States == {"success", "failure", "pending"}

Post == [sha: Sha, name: Name, kind: {"check-run", "commit-status"},
         state: Conclusions \cup States, at: Time]
Started == [sha: Sha, name: Name, kind: {"check-run"},
            state: {"in_progress"}, at: Time \cup {Missing}]
Thread == [open: BOOLEAN, at: Time]
Flow == [sha: Sha, at: Time, first: Time \cup {Missing}, latest: BOOLEAN]

Phases == {"pull", "protection", "checks", "statuses", "threads", "runs", "jobs", "over"}

(* seen: when the check-runs, the threads and the runs were read.           *)
Tool == [phase: Phases, exit: {"none", "ready", "not_ready", "error", "traceback"},
         head: Sha, required: SUBSET Name,
         checks: SUBSET (Post \cup Started),
         requiredFailures: SUBSET Name, otherFailures: SUBSET Name,
         unresolved: SUBSET Nat,
         runs: SUBSET Nat, asked: SUBSET Nat, zero: SUBSET Nat,
         seen: [{"checks", "threads", "runs"} -> Time]]

(* There is room for so many more.                                          *)
Fits(newPosts, newThreads, newRuns) ==
    \E size \in Sizes :
        /\ Len(posts) + Cardinality(running) + newPosts <= size.posts
        /\ Len(threads) + newThreads <= size.threads
        /\ Len(flows) + newRuns <= size.runs

(* The pull request, the readings and the verdict have their types.         *)
TypeOK ==
    /\ clock \in Time /\ head \in Sha /\ required \subseteq Name
    /\ posts \in Seq(Post) /\ running \subseteq Started
    /\ threads \in Seq(Thread) /\ flows \in Seq(Flow)
    /\ Fits(0, 0, 0)
    /\ tool \in Tool

Init ==
    /\ clock = 0 /\ head = 0 /\ required \in SUBSET Name
    /\ posts = <<>> /\ running = {} /\ threads = <<>> /\ flows = <<>>
    /\ tool = [phase |-> "pull", exit |-> "none", head |-> 0, required |-> {},
               checks |-> {}, requiredFailures |-> {}, otherFailures |-> {},
               unresolved |-> {}, runs |-> {}, asked |-> {}, zero |-> {},
               seen |-> [r \in {"checks", "threads", "runs"} |-> 0]]

-----------------------------------------------------------------------------
(* GitHub, for as long as somebody reads it.                                *)

Tick ==
    /\ clock < MaxClock
    /\ clock' = clock + 1
    /\ UNCHANGED <<head, required, posts, running, threads, flows>>

Push ==
    /\ head < MaxHead
    /\ head' = head + 1
    /\ UNCHANGED <<clock, required, posts, running, threads, flows>>

Protect ==
    /\ required' \in (SUBSET Name) \ {required}
    /\ UNCHANGED <<clock, head, posts, running, threads, flows>>

(* A check-run that is queued has no date, one that has started has.        *)
StartCheck(n, at) ==
    /\ Fits(1, 0, 0)
    /\ running' = running \cup {[sha |-> head, name |-> n, kind |-> "check-run",
                                 state |-> "in_progress", at |-> at]}
    /\ UNCHANGED <<clock, head, required, posts, threads, flows>>

FinishCheck(r, state) ==
    /\ running' = running \ {r}
    /\ posts' = Append(posts, [r EXCEPT !.state = state, !.at = clock])
    /\ UNCHANGED <<clock, head, required, threads, flows>>

PostStatus(sha, n, state) ==
    /\ Fits(1, 0, 0)
    /\ posts' = Append(posts, [sha |-> sha, name |-> n, kind |-> "commit-status",
                               state |-> state, at |-> clock])
    /\ UNCHANGED <<clock, head, required, running, threads, flows>>

Comment ==
    /\ Fits(0, 1, 0)
    /\ threads' = Append(threads, [open |-> TRUE, at |-> clock])
    /\ UNCHANGED <<clock, head, required, posts, running, flows>>

ResolveOrReopen(k) ==
    /\ threads' = [threads EXCEPT ![k] = [open |-> ~threads[k].open, at |-> clock]]
    /\ UNCHANGED <<clock, head, required, posts, running, flows>>

StartFlow ==
    /\ Fits(0, 0, 1)
    /\ flows' = Append(flows, [sha |-> head, at |-> clock, first |-> Missing,
                               latest |-> FALSE])
    /\ UNCHANGED <<clock, head, required, posts, running, threads>>

CreateJob(k) ==
    /\ ~flows[k].latest
    /\ flows' = [flows EXCEPT ![k].latest = TRUE,
                    ![k].first = IF @ = Missing THEN clock ELSE @]
    /\ UNCHANGED <<clock, head, required, posts, running, threads>>

(* A new attempt starts with no job of its own.                             *)
Rerun(k) ==
    /\ flows[k].latest
    /\ flows' = [flows EXCEPT ![k].latest = FALSE]
    /\ UNCHANGED <<clock, head, required, posts, running, threads>>

(* What has been read for the last time may stand still.                    *)
GitHub ==
    /\ tool.phase # "over"
    /\ \/ tool.phase # "jobs" /\ (Tick \/ StartFlow)
       \/ \E k \in DOMAIN flows : CreateJob(k) \/ Rerun(k)
       \/ /\ tool.phase \in {"pull", "protection", "checks", "statuses"}
          /\ \/ Push
             \/ tool.phase \in {"pull", "protection"} /\ Protect
             \/ \E n \in Name : \E at \in {clock, Missing} : StartCheck(n, at)
             \/ \E r \in running, s \in Conclusions : FinishCheck(r, s)
             \/ \E n \in Name, s \in States, sha \in 0..head : PostStatus(sha, n, s)
       \/ /\ tool.phase \in {"pull", "protection", "checks", "statuses", "threads"}
          /\ Comment \/ \E k \in DOMAIN threads : ResolveOrReopen(k)
    /\ UNCHANGED tool

-----------------------------------------------------------------------------
(* The newest record of a context.                                          *)

(* Bug: the stamps are compared as text: "." sorts before "Z".              *)
AtLeastAsText(a, b) ==
    IF Missing \in {a, b} THEN b = Missing
    ELSE a \div 2 > b \div 2 \/ (a \div 2 = b \div 2 /\ a % 2 <= b % 2)

AtLeast(a, b) == a >= b

Newest(records) == {r \in records : \A q \in records : AtLeast(r.at, q.at)}

(* The check-runs come first, so a status of the same age replaces one;     *)
(* among check-runs of one age it is the order of the answer that decides.  *)
Latest(checks, statuses) ==
    LET c == Newest(checks)
    IN  IF statuses # {} /\ \A s \in statuses, r \in c : AtLeast(s.at, r.at)
        THEN statuses ELSE c

(* The combined status of a commit has one entry for a context, the last.   *)
Statuses(sha) ==
    {posts[i] : i \in {i \in DOMAIN posts :
        /\ posts[i].kind = "commit-status" /\ posts[i].sha = sha
        /\ \A j \in DOMAIN posts :
              (j > i /\ posts[j].kind = "commit-status" /\ posts[j].sha = sha)
                  => posts[j].name # posts[i].name}}

CheckRuns(sha) ==
    {p \in Range(posts) \cup running : p.kind = "check-run" /\ p.sha = sha}

(* The first page of a list whose order GitHub chooses.                     *)
Pages(list, size) == kSubset(IF Cardinality(list) < size THEN Cardinality(list) ELSE size, list)

-----------------------------------------------------------------------------
(* The tool.                                                                *)

Ends(how) == tool' = [tool EXCEPT !.phase = "over", !.exit = how]

(* Any read may fail: with an exception that main turns into exit 2, or     *)
(* with one it does not catch.                                              *)
Fail == tool.phase # "over" /\ (Ends("error") \/ Ends("traceback"))

ReadPull ==
    /\ tool.phase = "pull"
    /\ tool' = [tool EXCEPT !.phase = "protection", !.head = head]

ReadProtection ==
    /\ tool.phase = "protection"
    /\ tool' = [tool EXCEPT !.phase = "checks", !.required = required]

ReadChecks ==
    /\ tool.phase = "checks"
    /\ \E page \in Pages(CheckRuns(tool.head), PerPage) :
        tool' = [tool EXCEPT !.phase = "statuses", !.checks = page,
                             !.seen["checks"] = clock]

Absent == [state |-> "ABSENT"]

(* What _latest_records can make of the two lists for a context.            *)
LatestOf(n, statuses) ==
    LET all == Latest({c \in tool.checks : c.name = n},
                      {s \in statuses : s.name = n})
    IN  IF all = {} THEN {Absent} ELSE all

ReadStatuses ==
    /\ tool.phase = "statuses"
    /\ \E page \in Pages(Statuses(tool.head), PerPage) :
       \E latest \in [Name -> page \cup tool.checks \cup {Absent}] :
        /\ \A n \in Name : latest[n] \in LatestOf(n, page)
        /\ tool' = [tool EXCEPT !.phase = "threads", !.checks = {},
              !.requiredFailures = {n \in tool.required : latest[n].state \notin Passing},
              !.otherFailures = {n \in Name \ tool.required :
                                    latest[n].state \in TerminalFailures}]

(* Bug: a payload with errors has no threads.                               *)
UnresolvedNone(page) == {}

Unresolved(page) == {k \in page : threads[k].open}

ReadThreads ==
    /\ tool.phase = "threads"
    /\ tool' = [tool EXCEPT !.phase = "runs", !.seen["threads"] = clock,
          !.unresolved = Unresolved({k \in DOMAIN threads : k <= ThreadPage})]

ReadRuns ==
    /\ tool.phase = "runs"
    /\ \E page \in Pages({k \in DOMAIN flows : flows[k].sha = tool.head}, PerPage) :
        tool' = [tool EXCEPT !.phase = "jobs", !.runs = page, !.seen["runs"] = clock]

HasJobs(flow) == flow.first # Missing

ReadJobs(k) ==
    /\ tool.phase = "jobs"
    /\ k \in tool.runs \ tool.asked
    /\ tool' = [tool EXCEPT !.asked = @ \cup {k},
                            !.zero = IF HasJobs(flows[k]) THEN @ ELSE @ \cup {k}]

(* Bug: no run at all is no failure.                                        *)
WorkflowFailuresFew(runs, zero) == zero # {}

WorkflowFailures(runs, zero) == runs = {} \/ zero # {}

PrintReport ==
    /\ tool.phase = "jobs" /\ tool.runs = tool.asked
    /\ Ends(IF \/ tool.requiredFailures # {} \/ tool.unresolved # {}
               \/ WorkflowFailures(tool.runs, tool.zero)
            THEN "not_ready" ELSE "ready")

Main ==
    /\ \/ ReadPull \/ ReadProtection \/ ReadChecks \/ ReadStatuses
       \/ ReadThreads \/ ReadRuns \/ PrintReport \/ Fail
       \/ \E k \in tool.runs : ReadJobs(k)
    /\ UNCHANGED world

Next == GitHub \/ Main

Spec == Init /\ [][Next]_vars

-----------------------------------------------------------------------------
Ready == tool.exit = "ready"
Reported == tool.exit \in {"ready", "not_ready"}

(* All the records of a commit are on the one page that is read, and all    *)
(* the runs are.                                                            *)
ChecksFit == Len(posts) + Cardinality(running) <= PerPage
RunsFit == Len(flows) <= PerPage

(* The records of a context that the report could not have missed.          *)
Before(n) ==
    {r \in Range(posts) \cup running :
        r.sha = tool.head /\ r.name = n /\ r.at # Missing /\ r.at < tool.seen["checks"]}

(* r is not older than q, and of two of one age a status is the last.       *)
Supersedes(r, q) ==
    r.at > q.at \/ (r.at = q.at /\ (r.kind = "commit-status" \/ q.kind = "check-run"))

(* "The union of check-runs and commit statuses, newest record per name"    *)
(* (l. 5): whatever happened meanwhile, in a pull request that is said to   *)
(* be ready each required context had a passing record that no older one,   *)
(* finished or in progress, superseded - if one page holds the records.     *)
ReadyIsNewest ==
    Ready /\ ChecksFit => \A n \in tool.required :
        \E g \in Range(posts) :
            /\ g.sha = tool.head /\ g.name = n /\ g.state \in Passing
            /\ \A r \in Before(n) : Supersedes(g, r)

(* "Every non-required failure listed by name" (l. 6), whatever branch      *)
(* protection said when it was read: a context whose newest record is a     *)
(* failure is in one list or the other, if one page holds the records.      *)
FailuresAreSeen ==
    Reported /\ ChecksFit => \A n \in Name : \A r \in Before(n) :
        (/\ r.state \in {"failure", "cancelled"}
         /\ \A q \in (Range(posts) \cup running) \ {r} :
               (q.sha = tool.head /\ q.name = n) => q.at < r.at)
            => n \in tool.requiredFailures \cup tool.otherFailures

(* "Zero unresolved review threads" (l. 6): of the threads that one page    *)
(* holds none has been open since before the threads were read.             *)
ReadyHasNoOpenThread ==
    Ready => \A k \in DOMAIN threads :
        k <= ThreadPage /\ threads[k].open => threads[k].at >= tool.seen["threads"]

(* "Evidence that the workflow actually created jobs" (l. 7): there was a   *)
(* run for the commit, and if one page holds the runs, each that existed    *)
(* has created a job; and "Actions jobs must be requested with filter=all"  *)
(* (l. 13): a run that had created a job when the runs were listed is not   *)
(* said to have none, even if a new attempt has just begun.                 *)
ReadyHasRun ==
    /\ Ready =>
        /\ \E k \in DOMAIN flows : flows[k].sha = tool.head
        /\ \A k \in DOMAIN flows :
              (RunsFit /\ flows[k].sha = tool.head /\ flows[k].at < tool.seen["runs"])
                  => flows[k].first # Missing
    /\ \A k \in tool.zero :
        flows[k].first = Missing \/ flows[k].first >= tool.seen["runs"]
=============================================================================
