-------------------------- MODULE MergeReady_proofs --------------------------
(* What a report of merge_ready.py is worth, for every number of contexts,  *)
(* records, threads and runs, and every size of a page.                     *)
EXTENDS MergeReady, FiniteSetTheorems, WellFoundedInduction, TLAPS

(* The tool is past ... *)
ChecksAreRead == tool.phase \in {"threads", "runs", "jobs"} \/ Reported
ThreadsAreRead == tool.phase \in {"runs", "jobs"} \/ Reported
RunsAreRead == tool.phase = "jobs" \/ Reported

(* What is posted is dated when it is posted.                               *)
Dated ==
    /\ \A i \in DOMAIN posts : posts[i].at <= clock
    /\ \A i, j \in DOMAIN posts : i < j => posts[i].at <= posts[j].at
    /\ \A r \in DOMAIN tool.seen : tool.seen[r] <= clock
    /\ IsFiniteSet(running)

Records == Range(posts) \cup running

(* While the statuses are being read: the check-runs are those of the head; *)
(* what is no longer there has been superseded since they were read; and    *)
(* if they fitted on a page, none of that time is missing.                  *)
ChecksKept ==
    /\ \A c \in tool.checks :
          /\ c.kind = "check-run" /\ c.sha = tool.head
          /\ c.state # "in_progress" => c \in Range(posts)
          /\ c \in Records \/ \E p \in Range(posts) :
                p.sha = c.sha /\ p.name = c.name /\ p.at >= tool.seen["checks"]
    /\ ChecksFit => \A r \in Records :
          (r.kind = "check-run" /\ r.sha = tool.head /\ r.at # Missing
             /\ r.at < tool.seen["checks"]) => r \in tool.checks

(* After that, what is not listed as failing has passed ...                 *)
PassedNewest ==
    ChecksFit => \A n \in tool.required \ tool.requiredFailures :
        \E g \in Range(posts) :
            /\ g.sha = tool.head /\ g.name = n /\ g.state \in Passing
            /\ \A r \in Before(n) : Supersedes(g, r)

(* ... and what has failed is listed.                                       *)
FailedListed ==
    ChecksFit => \A n \in Name : \A r \in Before(n) :
        (/\ r.state \in {"failure", "cancelled"}
         /\ \A q \in Records \ {r} : (q.sha = tool.head /\ q.name = n) => q.at < r.at)
            => n \in tool.requiredFailures \cup tool.otherFailures

OpenListed ==
    \A k \in DOMAIN threads : k <= ThreadPage /\ threads[k].open => k \in tool.unresolved

(* The runs of the head, and what has been learned of them.                 *)
RunsKept ==
    /\ tool.asked \subseteq tool.runs
    /\ tool.runs \subseteq {k \in DOMAIN flows : flows[k].sha = tool.head}
    /\ RunsFit => \A k \in DOMAIN flows : flows[k].sha = tool.head => k \in tool.runs
    /\ \A k \in tool.asked \ tool.zero : flows[k].first # Missing

ZeroKept ==
    /\ tool.phase \in {"pull", "protection", "checks", "statuses", "threads", "runs"} =>
            tool.asked = {} /\ tool.zero = {}
    /\ tool.zero \subseteq DOMAIN flows
    /\ \A k \in tool.zero : flows[k].first = Missing \/ flows[k].first >= tool.seen["runs"]

Verdict ==
    /\ tool.exit # "none" => tool.phase = "over"
    /\ Reported => tool.asked = tool.runs
    /\ Ready => /\ tool.requiredFailures = {} /\ tool.unresolved = {}
                /\ tool.runs # {} /\ tool.zero = {}

IInv ==
    /\ TypeOK /\ Dated /\ ZeroKept /\ Verdict
    /\ tool.phase = "statuses" => ChecksKept
    /\ ChecksAreRead => PassedNewest /\ FailedListed
    /\ ThreadsAreRead => OpenListed
    /\ RunsAreRead => RunsKept

-----------------------------------------------------------------------------
(* A set of numbers has a least one: finite sets are well founded.          *)
LEMMA Least ==
    ASSUME NEW S \in SUBSET Nat, S # {}
    PROVE  \E m \in S : \A k \in S : m <= k
<1> DEFINE T == {0 .. m : m \in S}
<1>1. T \subseteq FiniteSubsetsOf(Nat)
  <2>1. ASSUME NEW m \in S
        PROVE  0 .. m \in FiniteSubsetsOf(Nat)
    <3>1. IsFiniteSet(0 .. m)
      BY FS_Interval
    <3>2. QED
      BY <3>1 DEF FiniteSubsetsOf
  <2>2. QED
    BY <2>1
<1>2. PICK x \in T : \A y \in T : <<y, x>> \notin StrictSubsetOrdering(Nat)
  <2>1. T # {}
    OBVIOUS
  <2> HIDE DEF T
  <2>2. QED
    BY <1>1, <2>1, WFMin, FS_StrictSubsetOrderingWellFounded
<1>3. PICK m \in S : x = 0 .. m
  OBVIOUS
<1>4. ASSUME NEW k \in S, k < m
      PROVE  FALSE
  <2>1. 0 .. k \in T /\ 0 .. k \in SUBSET Nat /\ x \in SUBSET Nat
    BY <1>3
  <2>2. 0 .. k \subseteq x /\ 0 .. k # x
    BY <1>3, <1>4
  <2>3. <<0 .. k, x>> \in StrictSubsetOrdering(Nat)
    BY <2>1, <2>2 DEF StrictSubsetOrdering
  <2>4. QED
    BY <1>2, <2>1, <2>3
<1>5. QED
  BY <1>4

(* Of records that are dated up to now, one is among the newest.            *)
LEMMA NewestExists ==
    ASSUME NEW S, NEW b \in Int, \A r \in S : r.at \in Int /\ r.at <= b, NEW q \in S
    PROVE  \E r \in Newest(S) : r.at >= q.at
<1> DEFINE T == {b - r.at : r \in S}
<1>1. T \in SUBSET Nat /\ T # {}
  OBVIOUS
<1>2. PICK m \in T : \A k \in T : m <= k
  <2> HIDE DEF T
  <2>1. QED
    BY <1>1, Least
<1>3. PICK r \in S : m = b - r.at
  OBVIOUS
<1>4. ASSUME NEW p \in S
      PROVE  r.at >= p.at
  <2>1. b - r.at <= b - p.at
    BY <1>2, <1>3
  <2>2. QED
    BY <2>1
<1>5. QED
  BY <1>4 DEF Newest, AtLeast

LEMMA UpTo ==
    ASSUME NEW n \in Nat
    PROVE  IsFiniteSet(1..n) /\ Cardinality(1..n) = n
<1>1. /\ IsFiniteSet(1..n)
      /\ Cardinality(1..n) = IF 1 > n THEN 0 ELSE n - 1 + 1
  BY FS_Interval
<1>2. QED
  BY <1>1

LEMMA PageIsAll ==
    ASSUME NEW S, NEW size \in Nat, IsFiniteSet(S), Cardinality(S) <= size,
           NEW page \in Pages(S, size)
    PROVE  page = S
<1>1. Cardinality(S) \in Nat
  BY FS_CardinalityType
<1>2. page \subseteq S /\ Cardinality(page) = Cardinality(S)
  BY <1>1 DEF Pages, kSubset
<1>3. QED
  BY <1>2, FS_Subset

LEMMA PageIsPart ==
    ASSUME NEW S, NEW size, NEW page \in Pages(S, size)
    PROVE  page \subseteq S
BY DEF Pages, kSubset

LEMMA RangeIsFinite ==
    ASSUME NEW S, NEW s \in Seq(S)
    PROVE  IsFiniteSet(Range(s)) /\ Cardinality(Range(s)) <= Len(s)
<1>1. s \in Surjection(1..Len(s), Range(s)) /\ Len(s) \in Nat
  BY DEF Surjection, Range
<1>2. ExistsSurjection(1..Len(s), Range(s))
  BY <1>1 DEF ExistsSurjection
<1>3. QED
  BY <1>1, <1>2, FS_NatSurjection, FS_SurjCardinalityBound

LEMMA Appended ==
    ASSUME NEW S, NEW s \in Seq(S), NEW e \in S
    PROVE  /\ Append(s, e) \in Seq(S) /\ Len(Append(s, e)) = Len(s) + 1
           /\ DOMAIN Append(s, e) = DOMAIN s \cup {Len(s) + 1}
           /\ \A i \in DOMAIN s : Append(s, e)[i] = s[i]
           /\ Append(s, e)[Len(s) + 1] = e
           /\ Range(Append(s, e)) = Range(s) \cup {e}
<1>1. /\ Append(s, e) \in Seq(S) /\ Len(Append(s, e)) = Len(s) + 1
      /\ DOMAIN Append(s, e) = DOMAIN s \cup {Len(s) + 1}
      /\ \A i \in DOMAIN s : Append(s, e)[i] = s[i]
      /\ Append(s, e)[Len(s) + 1] = e
  OBVIOUS
<1>2. QED
  BY <1>1 DEF Range

(* What fits on a page is there.                                            *)
LEMMA FewRecords ==
    ASSUME posts \in Seq(Post), IsFiniteSet(running), ChecksFit, NEW sha
    PROVE  /\ \A page \in Pages(CheckRuns(sha), PerPage) : page = CheckRuns(sha)
           /\ \A page \in Pages(Statuses(sha), PerPage) : page = Statuses(sha)
<1>1. IsFiniteSet(Range(posts)) /\ Cardinality(Range(posts)) <= Len(posts)
  BY RangeIsFinite
<1>2. /\ IsFiniteSet(Range(posts) \cup running)
      /\ Cardinality(Range(posts) \cup running)
           = Cardinality(Range(posts)) + Cardinality(running)
             - Cardinality(Range(posts) \cap running)
      /\ IsFiniteSet(Range(posts) \cap running)
  BY <1>1, FS_Union, FS_Intersection
<1>3. /\ Cardinality(Range(posts)) \in Nat /\ Cardinality(running) \in Nat
      /\ Cardinality(Range(posts) \cap running) \in Nat /\ Len(posts) \in Nat
      /\ PerPage \in Nat
  BY <1>1, <1>2, FS_CardinalityType, BoundAssumption
<1>4. /\ Cardinality(Range(posts) \cup running) <= PerPage
      /\ Cardinality(Range(posts)) <= PerPage
  BY <1>1, <1>2, <1>3 DEF ChecksFit
<1>5. CheckRuns(sha) \subseteq Range(posts) \cup running /\ Statuses(sha) \subseteq Range(posts)
  BY DEF CheckRuns, Statuses, Range
<1>6. /\ IsFiniteSet(CheckRuns(sha)) /\ IsFiniteSet(Statuses(sha))
      /\ Cardinality(CheckRuns(sha)) <= Cardinality(Range(posts) \cup running)
      /\ Cardinality(Statuses(sha)) <= Cardinality(Range(posts))
  BY <1>1, <1>2, <1>5, FS_Subset
<1>7. /\ Cardinality(CheckRuns(sha)) \in Nat /\ Cardinality(Statuses(sha)) \in Nat
      /\ Cardinality(Range(posts) \cup running) \in Nat
  BY <1>2, <1>6, FS_CardinalityType
<1>8. Cardinality(CheckRuns(sha)) <= PerPage /\ Cardinality(Statuses(sha)) <= PerPage
  BY <1>3, <1>4, <1>6, <1>7
<1>9. QED
  BY <1>3, <1>6, <1>8, PageIsAll

(* A context with a status has a last one, and only one.                    *)
LEMMA LastStatus ==
    ASSUME posts \in Seq(Post), NEW i \in DOMAIN posts, posts[i].kind = "commit-status"
    PROVE  \E j \in DOMAIN posts :
              j >= i /\ posts[j].name = posts[i].name /\ posts[j] \in Statuses(posts[i].sha)
<1> DEFINE K == {k \in DOMAIN posts : posts[k].kind = "commit-status"
                    /\ posts[k].sha = posts[i].sha /\ posts[k].name = posts[i].name}
           T == {Len(posts) - k : k \in K}
<1>1. DOMAIN posts = 1..Len(posts) /\ Len(posts) \in Nat /\ i \in K
  OBVIOUS
<1>2. T \in SUBSET Nat /\ T # {}
  BY <1>1
<1>3. PICK m \in T : \A k \in T : m <= k
  <2> HIDE DEF T
  <2>1. QED
    BY <1>2, Least
<1>4. PICK j \in K : m = Len(posts) - j
  OBVIOUS
<1>5. ASSUME NEW k \in K
      PROVE  k <= j
  <2>1. Len(posts) - j <= Len(posts) - k
    BY <1>3, <1>4
  <2>2. QED
    BY <1>1, <2>1
<1>6. j >= i
  BY <1>1, <1>5
<1>7. posts[j] \in Statuses(posts[i].sha)
  BY <1>1, <1>5 DEF Statuses
<1>8. QED
  BY <1>6, <1>7

LEMMA OneStatus ==
    ASSUME posts \in Seq(Post), NEW sha, NEW s \in Statuses(sha), NEW t \in Statuses(sha),
           s.name = t.name
    PROVE  s = t
<1>1. PICK i \in DOMAIN posts :
        /\ s = posts[i] /\ posts[i].kind = "commit-status" /\ posts[i].sha = sha
        /\ \A j \in DOMAIN posts :
              (j > i /\ posts[j].kind = "commit-status" /\ posts[j].sha = sha)
                  => posts[j].name # posts[i].name
  BY DEF Statuses
<1>2. PICK k \in DOMAIN posts :
        /\ t = posts[k] /\ posts[k].kind = "commit-status" /\ posts[k].sha = sha
        /\ \A j \in DOMAIN posts :
              (j > k /\ posts[j].kind = "commit-status" /\ posts[j].sha = sha)
                  => posts[j].name # posts[k].name
  BY DEF Statuses
<1>3. i \in Nat /\ k \in Nat
  OBVIOUS
<1>4. ~(i < k) /\ ~(k < i)
  BY <1>1, <1>2, <1>3
<1>5. QED
  BY <1>1, <1>2, <1>3, <1>4

-----------------------------------------------------------------------------
(* The records of a commit are dated, or are not.                           *)
LEMMA RecordTypes ==
    ASSUME IInv
    PROVE  /\ MaxClock \in Nat /\ Missing \in Int /\ clock \in Time
           /\ posts \in Seq(Post) /\ running \subseteq Started
           /\ \A r \in Range(posts) : r \in Post /\ r.at \in Nat /\ r.state # "in_progress"
           /\ \A r \in running : r.kind = "check-run" /\ r.state = "in_progress"
           /\ \A r \in Records : r.at \in Int /\ r.at <= MaxClock
           /\ \A c \in tool.checks : c.at \in Int /\ c.at <= MaxClock
<1>1. /\ MaxClock \in Nat /\ Missing \in Int /\ clock \in Time /\ posts \in Seq(Post)
      /\ running \subseteq Started /\ tool.checks \subseteq Post \cup Started
  BY BoundAssumption DEF IInv, TypeOK, Tool, Missing
<1>2. \A r \in Post : r.at \in Nat /\ r.at <= MaxClock /\ r.state # "in_progress"
  BY <1>1 DEF Post, Time, Conclusions, States
<1>3. \A r \in Started : /\ r.at \in Int /\ r.at <= MaxClock
                         /\ r.kind = "check-run" /\ r.state = "in_progress"
  BY <1>1 DEF Started, Time, Missing
<1>4. \A r \in Range(posts) : r \in Post
  BY <1>1 DEF Range
<1>5. QED
  BY <1>1, <1>2, <1>3, <1>4 DEF Records

(* The statuses of a context: each that was posted before is not newer than *)
(* the last.                                                                *)
LEMMA StatusIsLast ==
    ASSUME IInv, NEW r \in Range(posts), r.kind = "commit-status"
    PROVE  \E s \in Statuses(r.sha) :
              s.name = r.name /\ s.at >= r.at /\ s \in Range(posts) /\ s.kind = "commit-status"
<1>1. posts \in Seq(Post)
  BY DEF IInv, TypeOK
<1>2. PICK i \in DOMAIN posts : r = posts[i]
  BY DEF Range
<1>3. PICK j \in DOMAIN posts :
        j >= i /\ posts[j].name = posts[i].name /\ posts[j] \in Statuses(posts[i].sha)
  BY <1>1, <1>2, LastStatus
<1>4. posts[j] \in Range(posts) /\ posts[j].at \in Nat /\ posts[i].at \in Nat
  BY <1>1, RecordTypes DEF Range
<1>5. posts[j].at >= posts[i].at
  BY <1>1, <1>3, <1>4 DEF IInv, Dated
<1>6. posts[j].kind = "commit-status"
  <2>1. PICK k \in DOMAIN posts : posts[j] = posts[k] /\ posts[k].kind = "commit-status"
    BY <1>3 DEF Statuses
  <2>2. QED
    BY <2>1
<1>7. QED
  BY <1>2, <1>3, <1>4, <1>5, <1>6

(* A record that is Latest supersedes what was there before the check-runs  *)
(* were read; and what is newer than all the others is the Latest.          *)
LEMMA LatestIsNewest ==
    ASSUME IInv, tool.phase = "statuses", ChecksFit, NEW n \in Name,
           NEW g \in LatestOf(n, Statuses(tool.head))
    PROVE  /\ g.state \in Passing =>
                /\ g \in Range(posts) /\ g.sha = tool.head /\ g.name = n
                /\ \A r \in Before(n) : Supersedes(g, r)
           /\ \A r \in Before(n) :
                (\A q \in Records \ {r} : (q.sha = tool.head /\ q.name = n) => q.at < r.at)
                    => g = r
<1> DEFINE cs == {c \in tool.checks : c.name = n}
           ss == {s \in Statuses(tool.head) : s.name = n}
           late == \A s \in ss, r \in Newest(cs) : AtLeast(s.at, r.at)
<1>1. ChecksKept
  BY DEF IInv
<1>2. \A s \in ss : /\ s \in Range(posts) /\ s.kind = "commit-status" /\ s.sha = tool.head
                    /\ s.at \in Int /\ s.name = n
  BY RecordTypes DEF Statuses, Range
<1>3. \A c \in cs : /\ c.at \in Int /\ c.at <= MaxClock /\ c.kind = "check-run"
                    /\ c.sha = tool.head /\ c.name = n
  BY <1>1, RecordTypes DEF ChecksKept
<1>4. /\ tool.seen["checks"] \in Int /\ MaxClock \in Int
      /\ \A r \in Before(n) : r.at \in Int
  BY RecordTypes, BoundAssumption DEF IInv, TypeOK, Tool, Time, Before, Records
<1>5. ASSUME NEW r \in Before(n), r.kind = "check-run"
      PROVE  r \in cs /\ \E c \in Newest(cs) : c.at >= r.at
  <2>1. r \in cs
    BY <1>1, <1>5 DEF Before, ChecksKept, Records
  <2>2. QED
    BY <1>3, <1>4, <2>1, NewestExists
<1>6. ASSUME NEW r \in Before(n), r.kind # "check-run"
      PROVE  r.kind = "commit-status" /\ r \in Range(posts) /\ \E s \in ss : s.at >= r.at
  <2>1. r \in Range(posts) /\ r.sha = tool.head /\ r.name = n
    BY <1>6, RecordTypes DEF Before
  <2>2. r.kind = "commit-status"
    BY <1>6, <2>1, RecordTypes DEF Post
  <2>3. QED
    BY <2>1, <2>2, StatusIsLast
<1>7. /\ ss # {} /\ late => g \in ss
      /\ ~(ss # {} /\ late) => g \in Newest(cs) \/ (g = Absent /\ Newest(cs) = {})
  BY DEF LatestOf, Latest
<1>8. ASSUME g.state \in Passing
      PROVE  /\ g \in Range(posts) /\ g.sha = tool.head /\ g.name = n
             /\ \A r \in Before(n) : Supersedes(g, r)
  <2>1. g # Absent /\ g.state # "in_progress"
    BY <1>8 DEF Absent, Passing
  <2>2. CASE ss # {} /\ late
    <3>1. g \in ss
      BY <1>7, <2>2
    <3>2. ASSUME NEW r \in Before(n)
          PROVE  Supersedes(g, r)
      <4>1. CASE r.kind = "check-run"
        <5>1. PICK c \in Newest(cs) : c.at >= r.at
          BY <1>5, <4>1
        <5>2. g.at >= c.at /\ c \in cs
          BY <2>2, <3>1 DEF AtLeast, Newest
        <5>3. QED
          BY <1>2, <1>3, <1>4, <3>1, <5>1, <5>2 DEF Supersedes
      <4>2. CASE r.kind # "check-run"
        <5>1. PICK s \in ss : s.at >= r.at
          BY <1>6, <4>2
        <5>2. s = g
          BY <3>1, OneStatus, RecordTypes
        <5>3. QED
          BY <1>2, <1>4, <3>1, <5>1, <5>2 DEF Supersedes
      <4>3. QED
        BY <4>1, <4>2
    <3>3. QED
      BY <1>2, <3>1, <3>2
  <2>3. CASE ~(ss # {} /\ late)
    <3>1. g \in Newest(cs) /\ g \in cs
      BY <1>7, <2>1, <2>3 DEF Newest
    <3>2. g \in Range(posts)
      BY <1>1, <2>1, <3>1 DEF ChecksKept
    <3>3. ASSUME NEW r \in Before(n)
          PROVE  Supersedes(g, r)
      <4>1. CASE r.kind = "check-run"
        <5>1. g.at >= r.at
          BY <1>5, <3>1, <4>1 DEF Newest, AtLeast
        <5>2. QED
          BY <1>3, <1>4, <3>1, <4>1, <5>1 DEF Supersedes
      <4>2. CASE r.kind # "check-run"
        <5>1. PICK s \in ss : s.at >= r.at
          BY <1>6, <4>2
        <5>2. PICK t \in ss, c \in Newest(cs) : ~(t.at >= c.at)
          BY <2>3, <5>1 DEF AtLeast
        <5>3. s = t /\ c \in cs /\ g.at >= c.at
          BY <3>1, <5>2, OneStatus, RecordTypes DEF Newest, AtLeast
        <5>4. QED
          BY <1>2, <1>3, <1>4, <3>1, <5>1, <5>2, <5>3 DEF Supersedes
      <4>3. QED
        BY <4>1, <4>2
    <3>4. QED
      BY <1>3, <3>1, <3>2, <3>3
  <2>4. QED
    BY <2>2, <2>3
<1>9. ASSUME NEW r \in Before(n),
             \A q \in Records \ {r} : (q.sha = tool.head /\ q.name = n) => q.at < r.at
      PROVE  g = r
  <2>1. r.sha = tool.head /\ r.name = n /\ r.at < tool.seen["checks"]
    BY DEF Before
  <2>2. ASSUME NEW c \in cs, c # r
        PROVE  c.at < r.at
    <3>1. CASE c \in Records
      BY <1>3, <1>9, <2>2, <3>1
    <3>2. CASE c \notin Records
      <4>1. PICK p \in Range(posts) :
              p.sha = c.sha /\ p.name = c.name /\ p.at >= tool.seen["checks"]
        BY <1>1, <3>2 DEF ChecksKept
      <4>2. p \in Records /\ p.at \in Int
        BY RecordTypes DEF Records
      <4>3. p.at < r.at \/ p = r
        BY <1>3, <1>9, <4>1, <4>2
      <4>4. QED
        BY <1>4, <2>1, <4>1, <4>2, <4>3
    <3>3. QED
      BY <3>1, <3>2
  <2>3. ASSUME NEW s \in ss, s # r
        PROVE  s.at < r.at
    BY <1>2, <1>9, <2>3 DEF Records
  <2>4. CASE r.kind = "check-run"
    <3>1. r \in cs
      BY <1>5, <2>4
    <3>2. Newest(cs) = {r}
      BY <1>3, <1>4, <2>2, <3>1 DEF Newest, AtLeast
    <3>3. ~(ss # {} /\ late)
      <4>1. ASSUME NEW s \in ss
            PROVE  ~AtLeast(s.at, r.at)
        <5>1. s # r /\ s.at \in Int /\ r.at \in Int
          BY <1>2, <1>4, <2>4
        <5>2. s.at < r.at
          BY <2>3, <5>1
        <5>3. QED
          BY <5>1, <5>2 DEF AtLeast
      <4>2. r \in Newest(cs)
        BY <3>2
      <4>3. QED
        BY <4>1, <4>2
    <3>4. QED
      BY <1>7, <3>2, <3>3
  <2>5. CASE r.kind # "check-run"
    <3>1. PICK s \in ss : s.at >= r.at
      BY <1>6, <2>5
    <3>2. s = r
      BY <1>2, <1>4, <2>3, <3>1
    <3>3. ss = {r}
      BY <3>2, OneStatus, RecordTypes
    <3>4. late
      BY <1>3, <1>4, <2>2, <3>3 DEF Newest, AtLeast
    <3>5. QED
      BY <1>7, <3>3, <3>4
  <2>6. QED
    BY <2>4, <2>5
<1>10. QED
  BY <1>8, <1>9

-----------------------------------------------------------------------------
(* Nothing has been read of a pull request that has nothing.                *)
LEMMA InitHolds == Init => IInv
<1> SUFFICES ASSUME Init
             PROVE  IInv
  OBVIOUS
<1>1. 0 \in Time /\ 0 \in Sha
  BY BoundAssumption DEF Time, Sha
<1>2. posts \in Seq(Post) /\ threads \in Seq(Thread) /\ flows \in Seq(Flow)
  BY DEF Init
<1>3. tool \in Tool
  <2>1. [r \in {"checks", "threads", "runs"} |-> 0] \in [{"checks", "threads", "runs"} -> Time]
    BY <1>1
  <2>2. QED
    BY <1>1, <2>1 DEF Init, Tool, Phases
<1>4. IsFiniteSet(running) /\ Cardinality(running) = 0
  BY FS_EmptySet DEF Init
<1>5. Fits(0, 0, 0)
  <2>1. PICK size \in Sizes : size.posts \in Nat /\ size.threads \in Nat /\ size.runs \in Nat
    BY BoundAssumption
  <2>2. Len(posts) = 0 /\ Len(threads) = 0 /\ Len(flows) = 0
    BY DEF Init
  <2>3. QED
    BY <1>4, <2>1, <2>2 DEF Fits
<1>6. TypeOK
  BY <1>1, <1>2, <1>3, <1>5 DEF Init, TypeOK
<1>7. Dated
  BY <1>4 DEF Init, Dated
<1>8. ZeroKept /\ Verdict
  BY DEF Init, ZeroKept, Verdict, Reported, Ready
<1>9. ~ChecksAreRead /\ ~ThreadsAreRead /\ ~RunsAreRead /\ tool.phase # "statuses"
  BY DEF Init, ChecksAreRead, ThreadsAreRead, RunsAreRead, Reported
<1>10. QED
  BY <1>6, <1>7, <1>8, <1>9 DEF IInv

(* A report is the end of it.                                               *)
LEMMA NotReported ==
    ASSUME IInv, tool.phase # "over"
    PROVE  tool.exit = "none" /\ ~Reported /\ ~Ready
BY DEF IInv, Verdict, Reported, Ready

(* What was said of the records holds while they stand still.               *)
LEMMA ChecksFrame ==
    ASSUME UNCHANGED <<posts, running>>, tool'.head = tool.head,
           tool'.required = tool.required, tool'.requiredFailures = tool.requiredFailures,
           tool'.otherFailures = tool.otherFailures,
           tool'.seen["checks"] = tool.seen["checks"], PassedNewest, FailedListed
    PROVE  PassedNewest' /\ FailedListed'
<1>1. ChecksFit' = ChecksFit /\ Records' = Records /\ Range(posts)' = Range(posts)
  BY DEF ChecksFit, Records
<1>2. PassedNewest'
  BY <1>1 DEF PassedNewest, Before, Supersedes, Passing
<1>3. FailedListed'
  BY <1>1 DEF FailedListed, Before
<1>4. QED
  BY <1>2, <1>3

(* The records move on: what was there is there or has been superseded now, *)
(* and what is new is dated now, or not at all.                             *)
LEMMA RecordsMove ==
    ASSUME IInv, tool.phase \in {"pull", "protection", "checks", "statuses"},
           UNCHANGED <<clock, head, required, threads, flows, tool>>,
           posts' \in Seq(Post), running' \subseteq Started, Fits(0, 0, 0)', Dated',
           ChecksFit' => ChecksFit,
           Range(posts) \subseteq Range(posts'),
           \A r \in Records : \/ r \in Records'
                              \/ \E p \in Range(posts') :
                                    p.sha = r.sha /\ p.name = r.name /\ p.at = clock,
           \A r \in Records' : r \in Records \/ r.at \in {clock, Missing}
    PROVE  IInv'
<1>1. TypeOK'
  BY DEF IInv, TypeOK
<1>2. ZeroKept' /\ Verdict'
  BY DEF IInv, ZeroKept, Verdict, Reported, Ready
<1>3. ~ChecksAreRead' /\ ~ThreadsAreRead' /\ ~RunsAreRead'
  BY NotReported DEF ChecksAreRead, ThreadsAreRead, RunsAreRead, Reported
<1>4. ASSUME tool.phase = "statuses"
      PROVE  ChecksKept'
  <2>1. ChecksKept
    BY <1>4 DEF IInv
  <2>2. tool.seen["checks"] <= clock /\ tool.seen["checks"] \in Int /\ clock \in Int
    BY RecordTypes DEF IInv, Dated, TypeOK, Tool, Time
  <2>3. ASSUME NEW c \in tool.checks
        PROVE  c \in Records' \/ \E p \in Range(posts') :
                p.sha = c.sha /\ p.name = c.name /\ p.at >= tool.seen["checks"]
    <3>1. CASE c \in Records
      BY <2>2, <3>1
    <3>2. CASE c \notin Records
      BY <2>1, <3>2 DEF ChecksKept
    <3>3. QED
      BY <3>1, <3>2
  <2>4. ASSUME ChecksFit', NEW r \in Records', r.kind = "check-run", r.sha = tool.head,
               r.at # Missing, r.at < tool.seen["checks"]
        PROVE  r \in tool.checks
    <3>1. r \in Records
      BY <2>2, <2>4
    <3>2. QED
      BY <2>1, <2>4, <3>1 DEF ChecksKept
  <2>5. QED
    BY <2>1, <2>3, <2>4 DEF ChecksKept
<1>5. QED
  BY <1>1, <1>2, <1>3, <1>4 DEF IInv

(* There is room for so much more.                                          *)
LEMMA Room ==
    ASSUME IInv
    PROVE  /\ IsFiniteSet(running) /\ Cardinality(running) \in Nat /\ PerPage \in Nat
           /\ Len(posts) \in Nat /\ Len(threads) \in Nat /\ Len(flows) \in Nat
           /\ \A size \in Sizes : size.posts \in Nat /\ size.threads \in Nat /\ size.runs \in Nat
BY FS_CardinalityType, BoundAssumption DEF IInv, Dated, TypeOK

LEMMA StartCheckHolds ==
    ASSUME IInv, tool.phase \in {"pull", "protection", "checks", "statuses"},
           NEW n \in Name, NEW at \in {clock, Missing}, StartCheck(n, at), UNCHANGED tool
    PROVE  IInv'
<1> DEFINE r == [sha |-> head, name |-> n, kind |-> "check-run",
                 state |-> "in_progress", at |-> at]
<1>1. running' = running \cup {r} /\ UNCHANGED <<clock, head, required, posts, threads, flows>>
  BY DEF StartCheck
<1>2. r \in Started
  BY DEF IInv, TypeOK, Started
<1>3. /\ IsFiniteSet(running') /\ Cardinality(running') \in Nat
      /\ Cardinality(running) <= Cardinality(running')
      /\ Cardinality(running') <= Cardinality(running) + 1
  <2>1. /\ IsFiniteSet(running')
        /\ Cardinality(running') = IF r \in running THEN Cardinality(running)
                                   ELSE Cardinality(running) + 1
    BY <1>1, Room, FS_AddElement
  <2>2. QED
    BY <2>1, Room
<1>4. Fits(0, 0, 0)' /\ (ChecksFit' => ChecksFit)
  <2>1. PICK size \in Sizes :
          /\ Len(posts) + Cardinality(running) + 1 <= size.posts
          /\ Len(threads) + 0 <= size.threads /\ Len(flows) + 0 <= size.runs
    BY DEF StartCheck, Fits
  <2>2. Len(posts') + Cardinality(running') + 0 <= size.posts
    BY <1>1, <1>3, <2>1, Room
  <2>3. Fits(0, 0, 0)'
    BY <1>1, <2>1, <2>2 DEF Fits
  <2>4. QED
    BY <1>1, <1>3, <2>3, Room DEF ChecksFit
<1>5. Dated'
  BY <1>1, <1>3 DEF IInv, Dated
<1>6. Records' = Records \cup {r} /\ r.at \in {clock, Missing}
  BY <1>1 DEF Records
<1>7. posts' \in Seq(Post) /\ running' \subseteq Started
  BY <1>1, <1>2 DEF IInv, TypeOK
<1>8. QED
  BY <1>1, <1>4, <1>5, <1>6, <1>7, RecordsMove

(* What is appended is dated now.                                           *)
LEMMA PostDated ==
    ASSUME IInv, NEW p \in Post, p.at = clock, posts' = Append(posts, p),
           UNCHANGED <<clock, tool>>, IsFiniteSet(running')
    PROVE  Dated' /\ posts' \in Seq(Post) /\ Range(posts') = Range(posts) \cup {p}
           /\ Len(posts') = Len(posts) + 1
<1>1. posts \in Seq(Post) /\ clock \in Int
  BY RecordTypes DEF Time
<1>2. /\ posts' \in Seq(Post) /\ Len(posts') = Len(posts) + 1
      /\ DOMAIN posts' = DOMAIN posts \cup {Len(posts) + 1}
      /\ \A i \in DOMAIN posts : posts'[i] = posts[i]
      /\ posts'[Len(posts) + 1] = p
      /\ Range(posts') = Range(posts) \cup {p}
  BY <1>1, Appended
<1>3. \A i \in DOMAIN posts' : posts'[i].at <= clock
  BY <1>1, <1>2 DEF IInv, Dated
<1>4. ASSUME NEW i \in DOMAIN posts', NEW j \in DOMAIN posts', i < j
      PROVE  posts'[i].at <= posts'[j].at
  <2>1. CASE j \in DOMAIN posts
    <3>1. i \in DOMAIN posts
      BY <1>1, <1>2, <1>4, <2>1
    <3>2. QED
      BY <1>2, <1>4, <2>1, <3>1 DEF IInv, Dated
  <2>2. CASE j = Len(posts) + 1
    BY <1>2, <1>3, <2>2
  <2>3. QED
    BY <1>2, <2>1, <2>2
<1>5. QED
  BY <1>2, <1>3, <1>4 DEF IInv, Dated

LEMMA FinishCheckHolds ==
    ASSUME IInv, tool.phase \in {"pull", "protection", "checks", "statuses"},
           NEW r \in running, NEW state \in Conclusions, FinishCheck(r, state), UNCHANGED tool
    PROVE  IInv'
<1> DEFINE p == [r EXCEPT !.state = state, !.at = clock]
<1>1. /\ running' = running \ {r} /\ posts' = Append(posts, p)
      /\ UNCHANGED <<clock, head, required, threads, flows>>
  BY DEF FinishCheck
<1>2. r \in Started /\ clock \in Time
  BY DEF IInv, TypeOK
<1>3. p \in Post /\ p.at = clock /\ p.sha = r.sha /\ p.name = r.name
  BY <1>2 DEF Started, Post
<1> HIDE DEF p
<1>4. IsFiniteSet(running') /\ Cardinality(running') = Cardinality(running) - 1
  BY <1>1, Room, FS_RemoveElement
<1>5. /\ Dated' /\ posts' \in Seq(Post) /\ Range(posts') = Range(posts) \cup {p}
      /\ Len(posts') = Len(posts) + 1
  BY <1>1, <1>3, <1>4, PostDated
<1>6. Len(posts') + Cardinality(running') = Len(posts) + Cardinality(running)
  BY <1>4, <1>5, Room
<1>7. Fits(0, 0, 0)' /\ (ChecksFit' => ChecksFit)
  BY <1>1, <1>6 DEF IInv, TypeOK, Fits, ChecksFit
<1>8. running' \subseteq Started
  BY <1>1 DEF IInv, TypeOK
<1>9. /\ \A q \in Records : q \in Records' \/ q = r
      /\ \A q \in Records' : q \in Records \/ q = p
  BY <1>1, <1>5 DEF Records
<1>10. QED
  BY <1>1, <1>3, <1>5, <1>7, <1>8, <1>9, RecordsMove

LEMMA PostStatusHolds ==
    ASSUME IInv, tool.phase \in {"pull", "protection", "checks", "statuses"},
           NEW n \in Name, NEW state \in States, NEW sha \in 0..head,
           PostStatus(sha, n, state), UNCHANGED tool
    PROVE  IInv'
<1> DEFINE p == [sha |-> sha, name |-> n, kind |-> "commit-status",
                 state |-> state, at |-> clock]
<1>1. posts' = Append(posts, p) /\ UNCHANGED <<clock, head, required, running, threads, flows>>
  BY DEF PostStatus
<1>2. p \in Post /\ p.at = clock
  BY BoundAssumption DEF IInv, TypeOK, Post, Sha
<1> HIDE DEF p
<1>3. /\ Dated' /\ posts' \in Seq(Post) /\ Range(posts') = Range(posts) \cup {p}
      /\ Len(posts') = Len(posts) + 1
  BY <1>1, <1>2, Room, PostDated
<1>4. Fits(0, 0, 0)' /\ (ChecksFit' => ChecksFit)
  <2>1. PICK size \in Sizes :
          /\ Len(posts) + Cardinality(running) + 1 <= size.posts
          /\ Len(threads) + 0 <= size.threads /\ Len(flows) + 0 <= size.runs
    BY DEF PostStatus, Fits
  <2>2. Len(posts') + Cardinality(running') + 0 <= size.posts
    BY <1>1, <1>3, <2>1, Room
  <2>3. Fits(0, 0, 0)'
    BY <1>1, <2>1, <2>2 DEF Fits
  <2>4. QED
    BY <1>1, <1>3, <2>3, Room DEF ChecksFit
<1>5. running' \subseteq Started
  BY <1>1 DEF IInv, TypeOK
<1>6. /\ \A q \in Records : q \in Records'
      /\ \A q \in Records' : q \in Records \/ q = p
  BY <1>1, <1>3 DEF Records
<1>7. QED
  BY <1>1, <1>2, <1>3, <1>4, <1>5, <1>6, RecordsMove

-----------------------------------------------------------------------------
(* What stands still, or moves where nobody looks.                          *)
LEMMA Quiet ==
    ASSUME IInv, UNCHANGED <<posts, running, tool>>, TypeOK', Dated', ZeroKept',
           ThreadsAreRead => OpenListed', RunsAreRead => RunsKept'
    PROVE  IInv'
<1>1. Verdict' /\ (ChecksAreRead' => ChecksAreRead) /\ (ThreadsAreRead' => ThreadsAreRead)
      /\ (RunsAreRead' => RunsAreRead)
  BY DEF IInv, Verdict, ChecksAreRead, ThreadsAreRead, RunsAreRead, Reported, Ready
<1>2. ChecksAreRead' => PassedNewest' /\ FailedListed'
  BY <1>1, ChecksFrame DEF IInv
<1>3. ASSUME tool.phase = "statuses"
      PROVE  ChecksKept'
  <2>1. ChecksFit' = ChecksFit /\ Records' = Records /\ Range(posts)' = Range(posts)
    BY DEF ChecksFit, Records
  <2>2. ChecksKept
    BY <1>3 DEF IInv
  <2>3. QED
    BY <2>1, <2>2 DEF ChecksKept
<1>4. QED
  BY <1>1, <1>2, <1>3 DEF IInv

LEMMA ClockHolds ==
    ASSUME IInv, tool.phase # "over", Tick \/ Push \/ Protect, UNCHANGED tool
    PROVE  IInv'
<1>1. UNCHANGED <<posts, running, threads, flows>> /\ clock' \in Time /\ clock <= clock'
      /\ head' \in Sha /\ required' \subseteq Name
  BY BoundAssumption DEF Tick, Push, Protect, IInv, TypeOK, Time, Sha
<1>2. TypeOK'
  BY <1>1 DEF IInv, TypeOK, Fits
<1>3. Dated'
  <2>1. clock \in Int /\ clock' \in Int
    BY <1>1 DEF Time, IInv, TypeOK
  <2>2. \A i \in DOMAIN posts : posts[i].at \in Int
    BY RecordTypes DEF Range
  <2>3. \A r \in DOMAIN tool.seen : tool.seen[r] \in Int
    BY DEF Time, IInv, TypeOK, Tool
  <2>4. QED
    BY <1>1, <2>1, <2>2, <2>3 DEF IInv, Dated
<1>4. ZeroKept' /\ (ThreadsAreRead => OpenListed') /\ (RunsAreRead => RunsKept')
  BY <1>1 DEF IInv, ZeroKept, OpenListed, RunsKept, RunsFit
<1>5. QED
  BY <1>1, <1>2, <1>3, <1>4, Quiet

LEMMA ReviewHolds ==
    ASSUME IInv, tool.phase \in {"pull", "protection", "checks", "statuses", "threads"},
           Comment \/ \E k \in DOMAIN threads : ResolveOrReopen(k), UNCHANGED tool
    PROVE  IInv'
<1>1. UNCHANGED <<clock, head, required, posts, running, flows>>
  BY DEF Comment, ResolveOrReopen
<1>2. threads' \in Seq(Thread) /\ Fits(0, 0, 0)'
  <2>1. threads \in Seq(Thread) /\ clock \in Time
    BY DEF IInv, TypeOK
  <2>2. CASE Comment
    <3>1. [open |-> TRUE, at |-> clock] \in Thread
      BY <2>1 DEF Thread
    <3>2. threads' \in Seq(Thread) /\ Len(threads') = Len(threads) + 1
      BY <2>1, <2>2, <3>1, Appended DEF Comment
    <3>3. PICK size \in Sizes :
            /\ Len(posts) + Cardinality(running) + 0 <= size.posts
            /\ Len(threads) + 1 <= size.threads /\ Len(flows) + 0 <= size.runs
      BY <2>2 DEF Comment, Fits
    <3>4. Len(threads') + 0 <= size.threads
      BY <3>2, <3>3, Room
    <3>5. QED
      BY <1>1, <3>2, <3>3, <3>4 DEF Fits
  <2>3. ASSUME NEW k \in DOMAIN threads, ResolveOrReopen(k)
        PROVE  threads' \in Seq(Thread) /\ Fits(0, 0, 0)'
    <3>1. [open |-> ~threads[k].open, at |-> clock] \in Thread
      BY <2>1 DEF Thread
    <3>2. threads' \in Seq(Thread) /\ Len(threads') = Len(threads)
      BY <2>1, <2>3, <3>1 DEF ResolveOrReopen
    <3>3. QED
      BY <1>1, <3>2 DEF IInv, TypeOK, Fits
  <2>4. QED
    BY <2>2, <2>3
<1>3. TypeOK' /\ Dated'
  BY <1>1, <1>2 DEF IInv, TypeOK, Dated
<1>4. ~ThreadsAreRead /\ ~RunsAreRead
  BY NotReported DEF ThreadsAreRead, RunsAreRead
<1>5. ZeroKept'
  BY <1>1 DEF IInv, ZeroKept
<1>6. QED
  BY <1>1, <1>3, <1>4, <1>5, Quiet

LEMMA StartFlowHolds ==
    ASSUME IInv, tool.phase \notin {"jobs", "over"}, StartFlow, UNCHANGED tool
    PROVE  IInv'
<1> DEFINE flow == [sha |-> head, at |-> clock, first |-> Missing, latest |-> FALSE]
<1>1. flows' = Append(flows, flow)
      /\ UNCHANGED <<clock, head, required, posts, running, threads>>
  BY DEF StartFlow
<1>2. flow \in Flow
  BY DEF IInv, TypeOK, Flow
<1>3. flows' \in Seq(Flow) /\ Len(flows') = Len(flows) + 1
  BY <1>1, <1>2, Appended DEF IInv, TypeOK
<1>4. Fits(0, 0, 0)'
  <2>1. PICK size \in Sizes :
          /\ Len(posts) + Cardinality(running) + 0 <= size.posts
          /\ Len(threads) + 0 <= size.threads /\ Len(flows) + 1 <= size.runs
    BY DEF StartFlow, Fits
  <2>2. Len(flows') + 0 <= size.runs
    BY <1>3, <2>1, Room
  <2>3. QED
    BY <1>1, <2>1, <2>2 DEF Fits
<1>5. TypeOK' /\ Dated'
  BY <1>1, <1>3, <1>4 DEF IInv, TypeOK, Dated
<1>6. ~RunsAreRead
  BY NotReported DEF RunsAreRead
<1>7. tool.zero = {} /\ tool.asked = {}
  BY DEF IInv, TypeOK, Tool, Phases, ZeroKept
<1>8. ZeroKept' /\ (ThreadsAreRead => OpenListed')
  BY <1>1, <1>7 DEF IInv, ZeroKept, OpenListed
<1>9. QED
  BY <1>1, <1>5, <1>6, <1>8, Quiet

(* The first job of a run is dated when it is created, and stays.           *)
LEMMA FlowHolds ==
    ASSUME IInv, tool.phase # "over", NEW k \in DOMAIN flows, CreateJob(k) \/ Rerun(k),
           UNCHANGED tool
    PROVE  IInv'
<1>1. UNCHANGED <<clock, head, required, posts, running, threads>>
  BY DEF CreateJob, Rerun
<1>2. flows \in Seq(Flow) /\ clock \in Time /\ flows[k] \in Flow
  BY DEF IInv, TypeOK
<1>3. PICK f \in Flow :
        /\ flows' = [flows EXCEPT ![k] = f]
        /\ f.sha = flows[k].sha
        /\ f.first = flows[k].first \/ (flows[k].first = Missing /\ f.first = clock)
  <2>1. CASE CreateJob(k)
    <3> DEFINE f == [flows[k] EXCEPT !.latest = TRUE,
                                     !.first = IF @ = Missing THEN clock ELSE @]
    <3>1. f \in Flow /\ flows' = [flows EXCEPT ![k] = f]
      BY <1>2, <2>1 DEF CreateJob, Flow
    <3>2. /\ f.sha = flows[k].sha
          /\ f.first = flows[k].first \/ (flows[k].first = Missing /\ f.first = clock)
      BY <1>2 DEF Flow
    <3>3. QED
      BY <3>1, <3>2
  <2>2. CASE Rerun(k)
    <3> DEFINE f == [flows[k] EXCEPT !.latest = FALSE]
    <3>1. f \in Flow /\ flows' = [flows EXCEPT ![k] = f]
      BY <1>2, <2>2 DEF Rerun, Flow
    <3>2. f.sha = flows[k].sha /\ f.first = flows[k].first
      BY <1>2 DEF Flow
    <3>3. QED
      BY <3>1, <3>2
  <2>3. QED
    BY <2>1, <2>2
<1>4. /\ flows' \in Seq(Flow) /\ Len(flows') = Len(flows) /\ DOMAIN flows' = DOMAIN flows
      /\ \A j \in DOMAIN flows :
            /\ flows'[j].sha = flows[j].sha
            /\ flows'[j].first = flows[j].first
               \/ (flows[j].first = Missing /\ flows'[j].first = clock)
  BY <1>2, <1>3
<1>5. TypeOK' /\ Dated'
  <2>1. Fits(0, 0, 0)'
    BY <1>1, <1>4 DEF IInv, TypeOK, Fits
  <2>2. QED
    BY <1>1, <1>4, <2>1 DEF IInv, TypeOK, Dated
<1>6. clock # Missing /\ clock \in Int /\ tool.seen["runs"] <= clock
  BY <1>2, RecordTypes DEF Time, Missing, IInv, Dated, TypeOK, Tool
<1>7. ZeroKept'
  BY <1>4, <1>6 DEF IInv, ZeroKept
<1>8. RunsAreRead => RunsKept'
  BY <1>4, <1>6 DEF IInv, RunsKept, RunsFit
<1>9. ThreadsAreRead => OpenListed'
  BY <1>1 DEF IInv, OpenListed
<1>10. QED
  BY <1>1, <1>5, <1>7, <1>8, <1>9, Quiet

LEMMA GitHubHolds == ASSUME IInv, GitHub PROVE IInv'
<1>1. tool.phase # "over" /\ UNCHANGED tool
  BY DEF GitHub
<1>2. CASE tool.phase # "jobs" /\ (Tick \/ StartFlow)
  BY <1>1, <1>2, ClockHolds, StartFlowHolds
<1>3. CASE \E k \in DOMAIN flows : CreateJob(k) \/ Rerun(k)
  BY <1>1, <1>3, FlowHolds
<1>4. CASE /\ tool.phase \in {"pull", "protection", "checks", "statuses"}
           /\ \/ Push
              \/ tool.phase \in {"pull", "protection"} /\ Protect
              \/ \E n \in Name : \E at \in {clock, Missing} : StartCheck(n, at)
              \/ \E r \in running, s \in Conclusions : FinishCheck(r, s)
              \/ \E n \in Name, s \in States, sha \in 0..head : PostStatus(sha, n, s)
  BY <1>1, <1>4, ClockHolds, StartCheckHolds, FinishCheckHolds, PostStatusHolds
<1>5. CASE /\ tool.phase \in {"pull", "protection", "checks", "statuses", "threads"}
           /\ Comment \/ \E k \in DOMAIN threads : ResolveOrReopen(k)
  BY <1>1, <1>5, ReviewHolds
<1>6. QED
  BY <1>2, <1>3, <1>4, <1>5 DEF GitHub

-----------------------------------------------------------------------------
(* The tool moves, the world does not.                                      *)
LEMMA ToolMoves ==
    ASSUME IInv, UNCHANGED world, tool' \in Tool,
           \A r \in {"checks", "threads", "runs"} : tool'.seen[r] \in {tool.seen[r], clock}
    PROVE  TypeOK' /\ Dated' /\ tool.seen["runs"] <= clock /\ clock \in Int
<1>1. UNCHANGED <<clock, head, required, posts, running, threads, flows>>
  BY DEF world
<1>2. clock \in Int /\ \A r \in DOMAIN tool.seen : tool.seen[r] <= clock
  BY DEF IInv, Dated, TypeOK, Time
<1>3. /\ DOMAIN tool.seen = {"checks", "threads", "runs"}
      /\ DOMAIN tool'.seen = {"checks", "threads", "runs"}
  BY DEF IInv, TypeOK, Tool
<1>4. TypeOK'
  BY <1>1 DEF IInv, TypeOK, Fits
<1>5. Dated'
  BY <1>1, <1>2, <1>3 DEF IInv, Dated
<1>6. QED
  BY <1>2, <1>3, <1>4, <1>5

LEMMA FailHolds ==
    ASSUME IInv, Fail, UNCHANGED world
    PROVE  IInv'
<1>1. PICK how \in {"error", "traceback"} : tool' = [tool EXCEPT !.phase = "over", !.exit = how]
  BY DEF Fail, Ends
<1>2. tool \in Tool
  BY DEF IInv, TypeOK
<1>3. /\ tool' \in Tool /\ tool'.phase = "over" /\ tool'.exit = how
      /\ tool'.seen = tool.seen /\ tool'.zero = tool.zero
  BY <1>1, <1>2 DEF Tool, Phases
<1>4. TypeOK' /\ Dated'
  BY <1>3, ToolMoves
<1>5. ZeroKept'
  BY <1>3 DEF IInv, ZeroKept, world
<1>6. ~Reported' /\ ~Ready'
  BY <1>1, <1>3 DEF Reported, Ready
<1>7. QED
  BY <1>3, <1>4, <1>5, <1>6
     DEF IInv, Verdict, ChecksAreRead, ThreadsAreRead, RunsAreRead

(* Before the checks are read nothing is said of anything.                  *)
LEMMA ReadFirstHolds ==
    ASSUME IInv, ReadPull \/ ReadProtection, UNCHANGED world
    PROVE  IInv'
<1>1. tool \in Tool /\ head \in Sha /\ required \subseteq Name
  BY DEF IInv, TypeOK
<1>2. /\ tool' \in Tool /\ tool.phase \in {"pull", "protection"}
      /\ tool'.phase \in {"protection", "checks"}
      /\ tool'.exit = tool.exit /\ tool'.seen = tool.seen
      /\ tool'.zero = tool.zero /\ tool'.asked = tool.asked
  BY <1>1 DEF ReadPull, ReadProtection, Tool, Phases
<1>3. TypeOK' /\ Dated'
  BY <1>2, ToolMoves
<1>4. ZeroKept'
  BY <1>2 DEF IInv, ZeroKept
<1>5. tool'.exit = "none" /\ ~Reported' /\ ~Ready'
  BY <1>2, NotReported DEF Reported, Ready
<1>6. QED
  BY <1>2, <1>3, <1>4, <1>5
     DEF IInv, Verdict, ChecksAreRead, ThreadsAreRead, RunsAreRead

LEMMA ReadChecksHolds ==
    ASSUME IInv, ReadChecks, UNCHANGED world
    PROVE  IInv'
<1>1. PICK page \in Pages(CheckRuns(tool.head), PerPage) :
        tool' = [tool EXCEPT !.phase = "statuses", !.checks = page, !.seen["checks"] = clock]
  BY DEF ReadChecks
<1>2. tool \in Tool /\ clock \in Time /\ tool.phase = "checks" /\ IsFiniteSet(running)
      /\ posts \in Seq(Post) /\ running \subseteq Started
  BY DEF IInv, TypeOK, ReadChecks, Dated
<1>3. page \subseteq CheckRuns(tool.head)
  BY PageIsPart
<1>4. page \subseteq Post \cup Started
  BY <1>2, <1>3 DEF CheckRuns, Range
<1>5. /\ tool' \in Tool /\ tool'.phase = "statuses" /\ tool'.checks = page
      /\ tool'.seen["checks"] = clock /\ tool'.head = tool.head /\ tool'.exit = tool.exit
      /\ tool'.zero = tool.zero /\ tool'.asked = tool.asked
      /\ tool'.seen["runs"] = tool.seen["runs"] /\ tool'.seen["threads"] = tool.seen["threads"]
  BY <1>1, <1>2, <1>4 DEF Tool, Phases
<1>6. TypeOK' /\ Dated'
  BY <1>5, ToolMoves
<1>7. ZeroKept'
  BY <1>2, <1>5 DEF IInv, ZeroKept
<1>8. ChecksKept'
  <2>1. UNCHANGED <<posts, running>> /\ Records' = Records /\ ChecksFit' = ChecksFit
    BY DEF world, Records, ChecksFit
  <2>2. ASSUME NEW c \in page
        PROVE  /\ c.kind = "check-run" /\ c.sha = tool.head /\ c \in Records
               /\ c.state # "in_progress" => c \in Range(posts)
    BY <1>3, RecordTypes DEF CheckRuns, Records
  <2>3. ChecksFit => page = CheckRuns(tool.head)
    BY <1>2, FewRecords
  <2>4. QED
    BY <1>5, <2>1, <2>2, <2>3 DEF ChecksKept, CheckRuns, Records
<1>9. tool'.exit = "none" /\ ~Reported' /\ ~Ready'
  BY <1>2, <1>5, NotReported DEF Reported, Ready
<1>10. QED
  BY <1>5, <1>6, <1>7, <1>8, <1>9
     DEF IInv, Verdict, ChecksAreRead, ThreadsAreRead, RunsAreRead

LEMMA ReadStatusesHolds ==
    ASSUME IInv, ReadStatuses, UNCHANGED world
    PROVE  IInv'
<1>1. PICK page, latest :
        /\ page \in Pages(Statuses(tool.head), PerPage)
        /\ latest \in [Name -> page \cup tool.checks \cup {Absent}]
        /\ \A n \in Name : latest[n] \in LatestOf(n, page)
        /\ tool' = [tool EXCEPT !.phase = "threads", !.checks = {},
              !.requiredFailures = {n \in tool.required : latest[n].state \notin Passing},
              !.otherFailures = {n \in Name \ tool.required :
                                    latest[n].state \in TerminalFailures}]
  BY DEF ReadStatuses
<1> DEFINE failing == {n \in tool.required : latest[n].state \notin Passing}
           others == {n \in Name \ tool.required : latest[n].state \in TerminalFailures}
<1>2. tool \in Tool /\ tool.required \subseteq Name /\ tool.phase = "statuses"
      /\ IsFiniteSet(running) /\ posts \in Seq(Post)
  BY DEF IInv, TypeOK, Tool, ReadStatuses, Dated
<1>3. failing \in SUBSET Name /\ others \in SUBSET Name
  BY <1>2
<1> HIDE DEF failing, others
<1>4. /\ tool' \in Tool /\ tool'.phase = "threads"
      /\ tool'.requiredFailures = failing /\ tool'.otherFailures = others
      /\ tool'.seen = tool.seen /\ tool'.head = tool.head /\ tool'.exit = tool.exit
      /\ tool'.zero = tool.zero /\ tool'.asked = tool.asked
      /\ tool'.required = tool.required
  BY <1>1, <1>2, <1>3 DEF Tool, Phases, failing, others
<1>5. TypeOK' /\ Dated'
  BY <1>4, ToolMoves
<1>6. ZeroKept'
  BY <1>2, <1>4 DEF IInv, ZeroKept
<1>7. UNCHANGED <<posts, running>> /\ ChecksFit' = ChecksFit /\ Records' = Records
  BY DEF world, ChecksFit, Records
<1>8. ASSUME ChecksFit, NEW n \in Name
      PROVE  latest[n] \in LatestOf(n, Statuses(tool.head))
  BY <1>1, <1>2, <1>8, FewRecords
<1>9. PassedNewest'
  <2>1. ASSUME ChecksFit, NEW n \in tool.required \ failing
        PROVE  \E g \in Range(posts) :
                  /\ g.sha = tool.head /\ g.name = n /\ g.state \in Passing
                  /\ \A r \in Before(n) : Supersedes(g, r)
    <3>1. n \in Name /\ latest[n].state \in Passing
      BY <1>2, <2>1 DEF failing
    <3>2. QED
      BY <1>2, <1>8, <2>1, <3>1, LatestIsNewest
  <2>2. QED
    BY <1>4, <1>7, <2>1 DEF PassedNewest, Before, Supersedes, Passing
<1>10. FailedListed'
  <2>1. ASSUME ChecksFit, NEW n \in Name, NEW r \in Before(n),
               r.state \in {"failure", "cancelled"},
               \A q \in Records \ {r} : (q.sha = tool.head /\ q.name = n) => q.at < r.at
        PROVE  n \in failing \cup others
    <3>1. latest[n] = r
      BY <1>2, <1>8, <2>1, LatestIsNewest
    <3>2. QED
      BY <2>1, <3>1 DEF failing, others, Passing, TerminalFailures
  <2>2. QED
    BY <1>4, <1>7, <2>1 DEF FailedListed, Before
<1>11. tool'.exit = "none" /\ ~Reported' /\ ~Ready'
  BY <1>2, <1>4, NotReported DEF Reported, Ready
<1>12. QED
  BY <1>4, <1>5, <1>6, <1>9, <1>10, <1>11 DEF IInv, Verdict, ThreadsAreRead, RunsAreRead

LEMMA ReadThreadsHolds ==
    ASSUME IInv, ReadThreads, UNCHANGED world
    PROVE  IInv'
<1> DEFINE open == Unresolved({k \in DOMAIN threads : k <= ThreadPage})
<1>1. tool \in Tool /\ clock \in Time /\ tool.phase = "threads" /\ threads \in Seq(Thread)
  BY DEF IInv, TypeOK, ReadThreads
<1>2. open \in SUBSET Nat
  BY <1>1 DEF Unresolved
<1> HIDE DEF open
<1>3. /\ tool' \in Tool /\ tool'.phase = "runs" /\ tool'.unresolved = open
      /\ tool'.seen["threads"] = clock /\ tool'.seen["checks"] = tool.seen["checks"]
      /\ tool'.seen["runs"] = tool.seen["runs"]
      /\ tool'.requiredFailures = tool.requiredFailures
      /\ tool'.otherFailures = tool.otherFailures /\ tool'.required = tool.required
      /\ tool'.head = tool.head /\ tool'.exit = tool.exit
      /\ tool'.zero = tool.zero /\ tool'.asked = tool.asked
  BY <1>1, <1>2 DEF ReadThreads, Tool, Phases, open
<1>4. TypeOK' /\ Dated'
  BY <1>3, ToolMoves
<1>5. ZeroKept'
  BY <1>1, <1>3 DEF IInv, ZeroKept, world
<1>6. PassedNewest' /\ FailedListed'
  BY <1>1, <1>3, ChecksFrame DEF IInv, ChecksAreRead, world
<1>7. OpenListed'
  BY <1>3 DEF OpenListed, Unresolved, open, world
<1>8. tool'.exit = "none" /\ ~Reported' /\ ~Ready'
  BY <1>1, <1>3, NotReported DEF Reported, Ready
<1>9. QED
  BY <1>3, <1>4, <1>5, <1>6, <1>7, <1>8 DEF IInv, Verdict, RunsAreRead

LEMMA ReadRunsHolds ==
    ASSUME IInv, ReadRuns, UNCHANGED world
    PROVE  IInv'
<1> DEFINE ofHead == {k \in DOMAIN flows : flows[k].sha = tool.head}
<1>1. PICK page \in Pages(ofHead, PerPage) :
        tool' = [tool EXCEPT !.phase = "jobs", !.runs = page, !.seen["runs"] = clock]
  BY DEF ReadRuns
<1>2. tool \in Tool /\ clock \in Time /\ tool.phase = "runs" /\ flows \in Seq(Flow)
      /\ tool.zero = {} /\ tool.asked = {}
  BY DEF IInv, TypeOK, ReadRuns, ZeroKept
<1>3. page \subseteq ofHead /\ ofHead \subseteq 1..Len(flows)
  BY <1>2, PageIsPart
<1>4. page \in SUBSET Nat
  BY <1>3
<1>5. /\ tool' \in Tool /\ tool'.phase = "jobs" /\ tool'.runs = page
      /\ tool'.seen["runs"] = clock /\ tool'.seen["checks"] = tool.seen["checks"]
      /\ tool'.seen["threads"] = tool.seen["threads"]
      /\ tool'.requiredFailures = tool.requiredFailures
      /\ tool'.otherFailures = tool.otherFailures /\ tool'.required = tool.required
      /\ tool'.unresolved = tool.unresolved
      /\ tool'.head = tool.head /\ tool'.exit = tool.exit
      /\ tool'.zero = {} /\ tool'.asked = {}
  BY <1>1, <1>2, <1>4 DEF Tool, Phases
<1>6. TypeOK' /\ Dated'
  BY <1>5, ToolMoves
<1>7. ZeroKept'
  BY <1>5 DEF ZeroKept
<1>8. PassedNewest' /\ FailedListed'
  BY <1>2, <1>5, ChecksFrame DEF IInv, ChecksAreRead, world
<1>9. OpenListed'
  BY <1>2, <1>5 DEF IInv, ThreadsAreRead, OpenListed, world
<1>10. RunsFit => page = ofHead
  <2> HIDE DEF ofHead
  <2>1. Len(flows) \in Nat /\ PerPage \in Nat
    BY Room
  <2>2. IsFiniteSet(1..Len(flows)) /\ Cardinality(1..Len(flows)) = Len(flows)
    BY <2>1, UpTo
  <2>3. /\ IsFiniteSet(ofHead) /\ Cardinality(ofHead) <= Len(flows)
    BY <1>3, <2>2, FS_Subset
  <2>4. Cardinality(ofHead) \in Nat
    BY <2>3, FS_CardinalityType
  <2>5. ASSUME RunsFit
        PROVE  page = ofHead
    <3>1. Cardinality(ofHead) <= PerPage
      BY <2>1, <2>3, <2>4, <2>5 DEF RunsFit
    <3>2. QED
      BY <2>1, <2>3, <3>1, PageIsAll
  <2>6. QED
    BY <2>5
<1>11. RunsKept'
  BY <1>3, <1>5, <1>10 DEF RunsKept, RunsFit, world
<1>12. tool'.exit = "none" /\ ~Reported' /\ ~Ready'
  BY <1>2, <1>5, NotReported DEF Reported, Ready
<1>13. QED
  BY <1>5, <1>6, <1>7, <1>8, <1>9, <1>11, <1>12 DEF IInv, Verdict

LEMMA ReadJobsHolds ==
    ASSUME IInv, NEW k \in tool.runs, ReadJobs(k), UNCHANGED world
    PROVE  IInv'
<1> DEFINE zero == IF HasJobs(flows[k]) THEN tool.zero ELSE tool.zero \cup {k}
<1>1. tool \in Tool /\ tool.phase = "jobs" /\ k \in Nat /\ RunsKept
  BY DEF IInv, TypeOK, Tool, ReadJobs, RunsAreRead
<1>2. zero \in SUBSET Nat
  BY <1>1 DEF Tool
<1>3. k \in DOMAIN flows
  BY <1>1 DEF RunsKept
<1>4. /\ tool' \in Tool /\ tool'.phase = "jobs" /\ tool'.zero = zero
      /\ tool'.asked = tool.asked \cup {k} /\ tool'.seen = tool.seen
      /\ tool'.runs = tool.runs
      /\ tool'.requiredFailures = tool.requiredFailures
      /\ tool'.otherFailures = tool.otherFailures /\ tool'.required = tool.required
      /\ tool'.unresolved = tool.unresolved
      /\ tool'.head = tool.head /\ tool'.exit = tool.exit
  BY <1>1, <1>2 DEF ReadJobs, Tool
<1>5. TypeOK' /\ Dated'
  BY <1>4, ToolMoves
<1>6. ZeroKept'
  BY <1>3, <1>4 DEF IInv, ZeroKept, HasJobs, world
<1>7. PassedNewest' /\ FailedListed'
  BY <1>1, <1>4, ChecksFrame DEF IInv, ChecksAreRead, world
<1>8. OpenListed'
  BY <1>1, <1>4 DEF IInv, ThreadsAreRead, OpenListed, world
<1>9. RunsKept'
  BY <1>1, <1>4 DEF RunsKept, RunsFit, HasJobs, world
<1>10. tool'.exit = "none" /\ ~Reported' /\ ~Ready'
  BY <1>1, <1>4, NotReported DEF Reported, Ready
<1>11. QED
  BY <1>4, <1>5, <1>6, <1>7, <1>8, <1>9, <1>10 DEF IInv, Verdict

LEMMA PrintReportHolds ==
    ASSUME IInv, PrintReport, UNCHANGED world
    PROVE  IInv'
<1>1. PICK how \in {"ready", "not_ready"} :
        /\ tool' = [tool EXCEPT !.phase = "over", !.exit = how]
        /\ how = "ready" => tool.requiredFailures = {} /\ tool.unresolved = {}
                            /\ tool.runs # {} /\ tool.zero = {}
  BY DEF PrintReport, Ends, WorkflowFailures
<1>2. tool \in Tool /\ tool.phase = "jobs" /\ tool.runs = tool.asked
  BY DEF IInv, TypeOK, PrintReport
<1>3. /\ tool' \in Tool /\ tool'.phase = "over" /\ tool'.exit = how
      /\ tool'.zero = tool.zero /\ tool'.asked = tool.asked /\ tool'.seen = tool.seen
      /\ tool'.runs = tool.runs
      /\ tool'.requiredFailures = tool.requiredFailures
      /\ tool'.otherFailures = tool.otherFailures /\ tool'.required = tool.required
      /\ tool'.unresolved = tool.unresolved /\ tool'.head = tool.head
  BY <1>1, <1>2 DEF Tool, Phases
<1>4. TypeOK' /\ Dated'
  BY <1>3, ToolMoves
<1>5. ZeroKept'
  BY <1>3 DEF IInv, ZeroKept, world
<1>6. PassedNewest' /\ FailedListed'
  BY <1>2, <1>3, ChecksFrame DEF IInv, ChecksAreRead, world
<1>7. OpenListed' /\ RunsKept'
  BY <1>2, <1>3 DEF IInv, ThreadsAreRead, OpenListed, RunsAreRead, RunsKept, RunsFit, world
<1>8. Verdict'
  BY <1>1, <1>2, <1>3 DEF Verdict, Reported, Ready
<1>9. QED
  BY <1>3, <1>4, <1>5, <1>6, <1>7, <1>8 DEF IInv

LEMMA NextHolds == IInv /\ [Next]_vars => IInv'
<1> SUFFICES ASSUME IInv, [Next]_vars
             PROVE  IInv'
  OBVIOUS
<1>1. CASE GitHub
  BY <1>1, GitHubHolds
<1>2. CASE Main
  BY <1>2, FailHolds, ReadFirstHolds, ReadChecksHolds, ReadStatusesHolds, ReadThreadsHolds,
     ReadRunsHolds, ReadJobsHolds, PrintReportHolds DEF Main
<1>3. CASE UNCHANGED vars
  <2>1. TypeOK' /\ Dated' /\ ZeroKept'
    BY <1>3 DEF vars, IInv, TypeOK, Fits, Dated, ZeroKept
  <2>2. (ThreadsAreRead => OpenListed') /\ (RunsAreRead => RunsKept')
    BY <1>3 DEF vars, IInv, OpenListed, RunsKept, RunsFit
  <2>3. QED
    BY <1>3, <2>1, <2>2, Quiet DEF vars
<1>4. QED
  BY <1>1, <1>2, <1>3 DEF Next

(* For every number of contexts, records, threads and runs: the pull        *)
(* request, the readings and the verdict keep their types.                  *)
THEOREM TypeCorrect == Spec => []TypeOK
<1>1. IInv => TypeOK
  BY DEF IInv
<1>2. QED
  BY <1>1, InitHolds, NextHolds, PTL DEF Spec

-----------------------------------------------------------------------------
(* For every number of contexts and records that one page holds, in every   *)
(* order of pushes, checks and reads: where merge_ready.py says ready, each *)
(* required context had a passing record that no older one superseded.      *)
THEOREM ReadyMeansNewest == Spec => []ReadyIsNewest
<1>1. IInv => ReadyIsNewest
  <2> SUFFICES ASSUME IInv, Ready, ChecksFit, NEW n \in tool.required
               PROVE  \E g \in Range(posts) :
                        /\ g.sha = tool.head /\ g.name = n /\ g.state \in Passing
                        /\ \A r \in Before(n) : Supersedes(g, r)
    BY DEF ReadyIsNewest
  <2>1. PassedNewest /\ tool.requiredFailures = {}
    BY DEF IInv, ChecksAreRead, Reported, Ready, Verdict
  <2>2. QED
    BY <2>1 DEF PassedNewest
<1>2. QED
  BY <1>1, InitHolds, NextHolds, PTL DEF Spec

(* For as many: a context whose newest record is a failure is listed.       *)
THEOREM FailuresAreListed == Spec => []FailuresAreSeen
<1>1. IInv => FailuresAreSeen
  BY DEF IInv, ChecksAreRead, FailedListed, FailuresAreSeen, Records
<1>2. QED
  BY <1>1, InitHolds, NextHolds, PTL DEF Spec

(* For every number of threads and every size of their page: no pull        *)
(* request is ready with a thread of the page open since before the read.   *)
THEOREM ReadyMeansResolved == Spec => []ReadyHasNoOpenThread
<1>1. IInv => ReadyHasNoOpenThread
  BY DEF IInv, ThreadsAreRead, Reported, Ready, Verdict, OpenListed, ReadyHasNoOpenThread
<1>2. QED
  BY <1>1, InitHolds, NextHolds, PTL DEF Spec

(* For every number of runs and reruns: a pull request that is ready has a  *)
(* run, those of the page have created jobs, and no run is said to have     *)
(* none that had one when it was listed.                                    *)
THEOREM ReadyMeansRun == Spec => []ReadyHasRun
<1>1. IInv => ReadyHasRun
  <2> SUFFICES ASSUME IInv
               PROVE  ReadyHasRun
    OBVIOUS
  <2>1. \A k \in tool.zero : flows[k].first = Missing \/ flows[k].first >= tool.seen["runs"]
    BY DEF IInv, ZeroKept
  <2>2. ASSUME Ready
        PROVE  /\ \E k \in DOMAIN flows : flows[k].sha = tool.head
               /\ \A k \in DOMAIN flows :
                     (RunsFit /\ flows[k].sha = tool.head) => flows[k].first # Missing
    <3>1. RunsKept /\ tool.asked = tool.runs /\ tool.runs # {} /\ tool.zero = {}
      BY <2>2 DEF IInv, RunsAreRead, Reported, Ready, Verdict
    <3>2. QED
      BY <3>1 DEF RunsKept
  <2>3. QED
    BY <2>1, <2>2 DEF ReadyHasRun
<1>2. QED
  BY <1>1, InitHolds, NextHolds, PTL DEF Spec
=============================================================================
