-------------------------- MODULE LeaseLife_proofs ---------------------------
(***************************************************************************)
(* Proofs about LeaseLife, for every set of gates, deployments, files and  *)
(* clean-up workflows, every number of deposits and of versions.           *)
(***************************************************************************)
EXTENDS LeaseLife, TLAPS

-----------------------------------------------------------------------------
(* What a pass means, rule by rule.                                         *)

LEMMA CleanupExits ==
    ASSUME NEW f
    PROVE  /\ "inputs" \in CleanupPassed(f) => InputsExit(f) = 0
           /\ "listing" \in CleanupPassed(f) => ListingExit(f) = 0
           /\ "teardown" \in CleanupPassed(f) => TeardownExit(f) = 0
BY DEF CleanupPassed

LEMMA SilentList ==
    ASSUME NEW f \in Flow, "listing" \in CleanupPassed(f),
           f.list \notin {"plain", "captured", "fallback_tested"}
    PROVE  f.list \in {"fallback_shrugged", "exit_zero"}
<1>1. ListingExit(f) = 0
  BY CleanupExits
<1>2. ~Swallows(f.list)
  BY <1>1 DEF ListingExit
<1>3. f.list \in ListForm
  BY DEF Flow
<1>4. QED
  BY <1>2, <1>3 DEF Swallows, ListForm

(* A status that a passing workflow disposes of, or a tool it does not miss.*)
LEMMA SilentClose ==
    ASSUME NEW f \in Flow, "teardown" \in CleanupPassed(f),
           \/ f.close = "when_installed" /\ f.install # "loud"
           \/ f.close \in SilencedClose \cup MissedClose
    PROVE  \/ f.lists = "runners" \/ f.close \in MissedClose
           \/ f.close = "when_installed" /\ (f.install = "none" \/ f.target = "other")
<1>1. ~Offending(f) /\ ~SilencedInstall(f)
  BY CleanupExits DEF TeardownExit
<1>2. /\ f.lists \in {"runners", "leases"} /\ f.install \in {"none", "loud", "silenced"}
      /\ f.target \in {"tool", "opaque", "other"}
      /\ f.close = "when_installed" => f.via = "tool"
  BY DEF Flow
<1>3. CASE f.close \in SilencedClose \cup MissedClose
  <2>1. f.close \in SilencedClose => f.close # "in_a_script"
    BY DEF SilencedClose
  <2>2. QED
    BY <1>1, <1>2, <1>3, <2>1 DEF Offending, ClosesBillable
<1>4. CASE f.close = "when_installed" /\ f.install # "loud"
  BY <1>1, <1>2, <1>4 DEF SilencedInstall, NeedsTool, ClosesBillable
<1>5. QED
  BY <1>3, <1>4

(* What a schedule makes of an expression the rule passes.                  *)
LEMMA ArmedBySchedule ==
    ASSUME NEW f \in Flow, "inputs" \in CleanupPassed(f), "schedule" \in f.on,
           Destructive(f, OnSchedule(f.mode))
    PROVE  \/ Decided(f.mode) \/ FallsThrough(f.mode)
           \/ FalseIsLive(f) \/ f.mode.place = "if"
<1>1. ~Offends(f.mode)
  BY CleanupExits DEF InputsExit
<1>2. f.mode \in Expr /\ f.flag \in {"dry_run", "execute"}
  BY DEF Flow
<1>3. CASE f.mode.input = "none" \/ f.mode.guard = "==schedule"
  BY <1>3 DEF Decided, FallsThrough
<1>4. CASE f.mode.input # "none" /\ f.mode.guard # "==schedule"
  <2>1. CASE f.mode.place = "if"
    BY <2>1
  <2>2. CASE f.mode.place # "if"
    <3>1. f.mode.place = "braces"
      BY <1>2, <2>2 DEF Expr
    <3>2. Discriminates(f.mode) \/ Compares(f.mode)
      BY <1>1, <1>4, <3>1 DEF Offends
    <3>3. ~OnSchedule(f.mode) \/ FallsThrough(f.mode)
      BY <1>2, <1>4, <3>2 DEF OnSchedule, FallsThrough, Discriminates, Compares, Expr
    <3>4. f.flag = "dry_run" \/ FallsThrough(f.mode)
      BY <1>2, <3>3 DEF Destructive
    <3>5. QED
      BY <3>2, <3>4 DEF FalseIsLive
  <2>3. QED
    BY <2>1, <2>2
<1>5. QED
  BY <1>3, <1>4
-----------------------------------------------------------------------------
(* The clean-up: what a run has done so far, and why it is live.            *)

RunType ==
    [at: {"never", "install", "list", "close", "over"},
     by: {"nobody", "schedule", "dispatch"}, live: BOOLEAN, tool: BOOLEAN,
     seen: BOOLEAN, failed: {"nothing", "install", "list", "close"},
     result: {"none", "green", "red", "reported", "announced"}]

CleanupOK ==
    /\ run \in RunType
    /\ orphan = "none" => flow = NoFlow /\ run = NotStarted
    /\ orphan # "none" => flow \in Flow
    /\ run.at # "over" => run.result = "none"
    /\ ~run.tool => flow.install # "loud"
    /\ run.by = "schedule" =>
          "schedule" \in flow.on /\ (run.live => Destructive(flow, OnSchedule(flow.mode)))
    /\ GreenMeansClean

LEMMA SchedulesAreBoolean ==
    ASSUME NEW f \in Flow, NEW value \in BOOLEAN
    PROVE  Destructive(f, value) \in BOOLEAN
BY DEF Destructive

LEMMA CleanupStarts == CleanupInit => CleanupOK
BY DEF CleanupInit, CleanupOK, NotStarted, NoFlow, RunType, GreenMeansClean

LEMMA CleanupStays == ASSUME CleanupOK, UNCHANGED cleanupVars PROVE CleanupOK'
BY DEF CleanupOK, cleanupVars, GreenMeansClean, UnseenList, UnseenClose

LEMMA LeavePreserves ==
    ASSUME CleanupOK, NEW f \in Flows, Leave(f)
    PROVE  CleanupOK'
<1>1. run' = NotStarted /\ orphan' = "left" /\ flow' = f /\ f \in Flow
  BY FlowsAssumption DEF CleanupOK, Leave
<1>2. QED
  BY <1>1 DEF CleanupOK, NotStarted, RunType, GreenMeansClean

LEMMA StartPreserves ==
    ASSUME CleanupOK, NEW by \in {"schedule", "dispatch"}, NEW value \in BOOLEAN,
           Start(by, value)
    PROVE  CleanupOK'
<1>1. orphan # "none" /\ flow \in Flow
  BY DEF CleanupOK, Start, NoFlow
<1>2. /\ flow' = flow /\ orphan' = orphan
      /\ run' = [NotStarted EXCEPT !.at = "install", !.by = by,
                                   !.live = Destructive(flow, value)]
  BY DEF Start
<1>3. Destructive(flow, value) \in BOOLEAN
  BY <1>1, SchedulesAreBoolean
<1>4. run' \in RunType /\ run'.at = "install" /\ run'.result = "none" /\ run'.tool = TRUE
      /\ run'.by = by /\ run'.live = Destructive(flow, value)
  BY <1>2, <1>3 DEF RunType, NotStarted
<1>5. by = "schedule" => "schedule" \in flow.on /\ value = OnSchedule(flow.mode)
  BY DEF Start
<1>6. QED
  BY <1>1, <1>2, <1>4, <1>5 DEF CleanupOK, GreenMeansClean

LEMMA InstallPreserves ==
    ASSUME CleanupOK, Install
    PROVE  CleanupOK'
<1>1. flow' = flow /\ orphan' = orphan /\ orphan # "none" /\ run \in RunType
  BY DEF CleanupOK, Install, NotStarted
<1>2. CASE run' = [run EXCEPT !.at = "list"]
  BY <1>1, <1>2 DEF CleanupOK, Install, RunType, GreenMeansClean
<1>3. CASE flow.install = "loud" /\ Ends("red", "install")
  BY <1>1, <1>3 DEF CleanupOK, Install, Ends, RunType, GreenMeansClean
<1>4. CASE flow.install # "loud" /\ run' = [run EXCEPT !.at = "list", !.tool = FALSE]
  BY <1>1, <1>4 DEF CleanupOK, Install, RunType, GreenMeansClean
<1>5. QED
  BY <1>2, <1>3, <1>4 DEF Install

LEMMA ListPreserves ==
    ASSUME CleanupOK, List
    PROVE  CleanupOK'
<1>1. flow' = flow /\ orphan' = orphan /\ orphan # "none" /\ run \in RunType /\ flow \in Flow
  BY DEF CleanupOK, List, NotStarted
<1>2. CASE run' = [run EXCEPT !.at = "close", !.seen = (orphan = "left")]
  BY <1>1, <1>2 DEF CleanupOK, List, RunType, GreenMeansClean
<1>3. CASE Ends("red", "list")
  BY <1>1, <1>3 DEF CleanupOK, Ends, RunType, GreenMeansClean
<1>4. CASE flow.list \notin {"plain", "captured", "fallback_tested"} /\ Ends("green", "list")
  <2>1. "listing" \in CleanupPassed(flow) => UnseenList
    BY <1>1, <1>4, SilentList DEF UnseenList
  <2>2. /\ run' \in RunType /\ run'.at = "over" /\ run'.failed = "list"
        /\ run'.by = run.by /\ run'.live = run.live /\ run'.tool = run.tool
    BY <1>1, <1>4 DEF Ends, RunType
  <2>3. GreenMeansClean'
    BY <1>1, <2>1, <2>2 DEF GreenMeansClean, UnseenList
  <2>4. QED
    BY <1>1, <2>2, <2>3 DEF CleanupOK
<1>5. QED
  BY <1>2, <1>3, <1>4 DEF List

LEMMA ClosePreserves ==
    ASSUME CleanupOK, Close
    PROVE  CleanupOK'
<1>1. /\ flow' = flow /\ orphan # "none" /\ orphan' # "none"
      /\ run \in RunType /\ flow \in Flow
  BY DEF CleanupOK, Close, NotStarted
<1>2. ASSUME NEW result \in {"green", "red", "reported", "announced"},
             NEW failed \in {"nothing", "close"}, Ends(result, failed),
             result = "green" /\ failed = "close" =>
                 \/ flow.close = "when_installed" /\ ~run.tool
                 \/ flow.close \in SilencedClose \cup MissedClose
      PROVE  CleanupOK'
  <2>1. /\ run' \in RunType /\ run'.at = "over" /\ run'.failed = failed
        /\ run'.result = result
        /\ run'.by = run.by /\ run'.live = run.live /\ run'.tool = run.tool
    BY <1>1, <1>2 DEF Ends, RunType
  <2>2. ~run.tool => flow.install # "loud"
    BY DEF CleanupOK
  <2>3. result = "green" /\ failed = "close" /\ "teardown" \in CleanupPassed(flow)
            => UnseenClose
    BY <1>1, <1>2, <2>2, SilentClose DEF UnseenClose
  <2>4. GreenMeansClean'
    BY <1>1, <2>1, <2>3 DEF GreenMeansClean, UnseenClose
  <2>5. QED
    BY <1>1, <2>1, <2>4 DEF CleanupOK
<1>3. CASE Ends("green", "nothing") \/ Ends("reported", "nothing")
  BY <1>2, <1>3
<1>4. CASE /\ Ends("green", "close")
           /\ \/ flow.close = "when_installed" /\ ~run.tool
              \/ flow.close \in SilencedClose \cup MissedClose
  BY <1>2, <1>4
<1>5. CASE Ends("announced", "close") \/ Ends("red", "close")
  BY <1>2, <1>5
<1>6. QED
  BY <1>3, <1>4, <1>5 DEF Close

LEMMA CleanupPreserved ==
    ASSUME CleanupOK, LeaseNext
    PROVE  CleanupOK'
<1>1. CASE Provisions \/ HandOver \/ Works \/ Abandon
  BY <1>1, CleanupStays DEF Provisions, HandOver, Works, Abandon
<1>2. CASE Forget
  BY <1>2, LeavePreserves DEF Forget
<1>3. CASE CleansUp
  BY <1>3, StartPreserves, InstallPreserves, ListPreserves, ClosePreserves
     DEF CleansUp, CleanupStep
<1>4. QED
  BY <1>1, <1>2, <1>3 DEF LeaseNext
-----------------------------------------------------------------------------
(* The container: where its version comes from, and what was judged.  Once  *)
(* whoever provisioned it is gone, no rule has passed for what is left.     *)

Boxes ==
    [state: {"starting", "listening", "dead", "closed", "control"}, ref: Ref,
     image: Digest, version: Nat, died: {"no", "update", "refused"}]

ImageIsCurrent ==
    "floor" \in passed /\ box.state # "control" => Binary[box.image] >= Floor \/ TagIsHearsay

PumpOK ==
    /\ latest \in Nat
    /\ passed # {} => box \in Boxes /\ orphan = "none"
    /\ box.state = "starting" /\ passed # {} => box.version = Binary[box.image]
    /\ ImageIsCurrent
    /\ TrustedImage

LEMMA PumpStarts == LeaseInit => PumpOK
BY ImageAssumption DEF LeaseInit, Init, CleanupInit, PumpOK, ImageIsCurrent, TrustedImage

LEMMA PumpStays ==
    ASSUME PumpOK, UNCHANGED <<file, passed, box>>, latest' \in Nat,
           passed # {} => orphan' = "none"
    PROVE  PumpOK'
BY DEF PumpOK, ImageIsCurrent, TrustedImage, TagIsHearsay, Deployed

(* What passes nothing is under no obligation.                              *)
LEMMA NothingPassed == ASSUME passed' = {}, latest' \in Nat PROVE PumpOK'
BY DEF PumpOK, ImageIsCurrent, TrustedImage

LEMMA ImageExits ==
    ASSUME NEW repo, NEW rooted \in BOOLEAN
    PROVE  /\ "floor" \in Passed(repo, rooted) => FloorExit(repo) = 0
           /\ "digest" \in Passed(repo, rooted) => DigestExit(repo, rooted) = 0
           /\ "code" \in Passed(repo, rooted) <=> rooted
BY DEF Passed

LEMMA PullsADigest ==
    ASSUME NEW ref \in Ref, NEW d \in Pulls(ref)
    PROVE  d \in Digest /\ (ref.digest # None => d = ref.digest)
BY DEF Ref, Pulls

(* What the floor rule passes in a workflow says what it holds, or lies.    *)
LEMMA FloorHolds ==
    ASSUME NEW repo \in Repos, NEW rooted \in BOOLEAN, NEW f \in repo, NEW ref \in f.refs,
           ref.at # "comment", "floor" \in Passed(repo, rooted), f.place = "workflow", IsRunner(ref)
    PROVE  ref.digest # None /\ ref.tag # 0 /\ ref.tag \in Nat /\ ref.tag >= Floor
<1>1. f \in File /\ ref \in Ref
  BY PumpAssumption DEF File
<1>2. FloorExit(repo) = 0
  BY ImageExits
<1>3. ~ImageFinding(ref)
  BY <1>2 DEF FloorExit
<1>4. ref.tag \in Nat /\ Floor \in Nat
  BY <1>1, ImageAssumption DEF Ref
<1>5. QED
  BY <1>3, <1>4 DEF ImageFinding

LEMMA DeployPreserves ==
    ASSUME PumpOK, orphan' = "none", NEW repo \in Repos, NEW rooted \in BOOLEAN,
           NEW f \in repo, Deploy(repo, rooted, f)
    PROVE  PumpOK'
<1>1. PICK ref \in {r \in f.refs : Runs(r)} : \E d \in Pulls(ref) :
          box' = [state |-> "starting", ref |-> ref, image |-> d,
                  version |-> Binary[d], died |-> "no"]
  BY DEF Deploy
<1>2. PICK d \in Pulls(ref) :
          box' = [state |-> "starting", ref |-> ref, image |-> d,
                  version |-> Binary[d], died |-> "no"]
  BY <1>1
<1>3. ref \in f.refs /\ ref \in Ref /\ ref.at \in {"code", "quoted", "allowed"}
  BY <1>1, PumpAssumption DEF File, Runs
<1>4. d \in Digest /\ (ref.digest # None => d = ref.digest)
  BY <1>2, <1>3, PullsADigest
<1>5. Binary[d] \in Nat
  BY <1>4, PumpAssumption
<1>6. box' \in Boxes /\ file' = f /\ passed' = Passed(repo, rooted) /\ latest' = latest
  BY <1>2, <1>3, <1>4, <1>5 DEF Boxes, Deploy
<1>7. ImageIsCurrent'
  <2>1. CASE "floor" \in Passed(repo, rooted) /\ f.place = "workflow" /\ IsRunner(ref)
    <3>1. ref.tag # 0 /\ ref.tag \in Nat /\ ref.tag >= Floor
      BY <1>3, <2>1, FloorHolds
    <3>2. CASE ref.tag = Binary[d]
      BY <1>2, <3>1, <3>2 DEF ImageIsCurrent
    <3>3. CASE ref.tag # Binary[d]
      <4>1. box'.ref.tag \notin {0, Binary[box'.image]}
        BY <1>2, <3>1, <3>3
      <4>2. QED
        BY <4>1 DEF ImageIsCurrent, TagIsHearsay
    <3>4. QED
      BY <3>2, <3>3
  <2>2. CASE ~("floor" \in Passed(repo, rooted) /\ f.place = "workflow" /\ IsRunner(ref))
    <3>1. "floor" \notin passed' \/ file'.place # "workflow" \/ ~IsRunner(box'.ref)
      BY <1>2, <1>6, <2>2
    <3>2. QED
      BY <3>1 DEF ImageIsCurrent, TagIsHearsay
  <2>3. QED
    BY <2>1, <2>2
<1>8. TrustedImage'
  <2> SUFFICES ASSUME "digest" \in Passed(repo, rooted)
               PROVE  TrustedImage'
    BY <1>6 DEF TrustedImage
  <2>1. DigestExit(repo, rooted) = 0 /\ ("code" \in passed' <=> rooted)
    BY <1>6, ImageExits
  <2>2. CASE Scanned(f, rooted)
    <3>1. ref.digest \notin DenyList \/ Allowed(f, ref) \/ ref.at = "quoted"
      BY <1>3, <2>1, <2>2 DEF DigestExit
    <3>2. CASE ref.digest = None
      BY <1>2, <3>2 DEF TrustedImage
    <3>3. CASE ref.digest # None
      BY <1>2, <1>3, <1>4, <1>6, <3>1, <3>3 DEF TrustedImage, Allowed
    <3>4. QED
      BY <3>2, <3>3
  <2>3. CASE ~Scanned(f, rooted)
    <3>1. ~Scanned(file', "code" \in passed')
      BY <1>6, <2>1, <2>3 DEF Scanned
    <3>2. QED
      BY <1>2, <3>1 DEF TrustedImage
  <2>4. QED
    BY <2>2, <2>3
<1>9. QED
  BY <1>2, <1>6, <1>7, <1>8 DEF PumpOK

LEMMA ControlPreserves ==
    ASSUME PumpOK, orphan' = "none", NEW repo \in Repos, NEW rooted \in BOOLEAN,
           NEW f \in repo, RunControl(repo, rooted, f)
    PROVE  PumpOK'
<1>1. PICK ref \in {r \in f.refs : r.at = "control"} : \E d \in Pulls(ref) :
          box' = [state |-> "control", ref |-> ref, image |-> d,
                  version |-> Binary[d], died |-> "no"]
  BY DEF RunControl
<1>2. PICK d \in Pulls(ref) :
          box' = [state |-> "control", ref |-> ref, image |-> d,
                  version |-> Binary[d], died |-> "no"]
  BY <1>1
<1>3. ref \in f.refs /\ ref \in Ref /\ ref.at = "control"
  BY <1>1, PumpAssumption DEF File
<1>4. d \in Digest /\ (ref.digest # None => d = ref.digest)
  BY <1>2, <1>3, PullsADigest
<1>5. Binary[d] \in Nat
  BY <1>4, PumpAssumption
<1>6. box' \in Boxes /\ file' = f /\ passed' = Passed(repo, rooted) /\ latest' = latest
  BY <1>2, <1>3, <1>4, <1>5 DEF Boxes, RunControl
<1>7. TrustedImage'
  <2> SUFFICES ASSUME {"digest", "code"} \subseteq Passed(repo, rooted)
               PROVE  d \notin Fixed
    BY <1>2, <1>6 DEF TrustedImage, Deployed
  <2>1. DigestExit(repo, rooted) = 0 /\ f.place = "code" /\ Scanned(f, rooted)
    BY ImageExits DEF RunControl, Scanned
  <2>2. ref.digest \in DenyList
    BY <1>3, <2>1 DEF DigestExit
  <2>3. QED
    BY <1>4, <2>2, ImageAssumption DEF None
<1>8. QED
  BY <1>2, <1>6, <1>7 DEF PumpOK, ImageIsCurrent

(* The life of a container changes neither its image nor what was judged.   *)
LEMMA LifePreserves ==
    ASSUME PumpOK, orphan' = orphan, Container \/ ReadVersions
    PROVE  PumpOK'
<1>1. UNCHANGED <<latest, file, passed>>
  BY DEF Container, Register, Update, Refused, Restart, ReadVersions
<1>2. CASE passed = {}
  BY <1>1, <1>2, NothingPassed DEF PumpOK
<1>3. CASE passed # {}
  <2>1. box \in Boxes /\ latest \in Nat
    BY <1>3 DEF PumpOK
  <2>2. Binary[box.image] \in Nat
    BY <2>1, PumpAssumption DEF Boxes
  <2>3. /\ box' \in Boxes /\ box'.ref = box.ref /\ box'.image = box.image
        /\ box'.state = "control" <=> box.state = "control"
        /\ box'.state = "starting" => box'.version = Binary[box.image]
    <3>1. CASE Register
      BY <2>1, <3>1 DEF Register, Boxes
    <3>2. CASE Update
      BY <2>1, <3>2 DEF Update, Boxes
    <3>3. CASE Refused
      BY <2>1, <3>3 DEF Refused, Boxes
    <3>4. CASE Restart
      BY <2>1, <2>2, <3>4 DEF Restart, Boxes
    <3>5. CASE ReadVersions
      <4>1. CASE UNCHANGED box
        BY <1>3, <2>1, <4>1 DEF PumpOK
      <4>2. CASE box' = [box EXCEPT !.state = "closed"]
        <5>1. box.state # "control"
          BY <3>5 DEF ReadVersions, Listed
        <5>2. QED
          BY <2>1, <4>2, <5>1 DEF Boxes
      <4>3. QED
        BY <3>5, <4>1, <4>2 DEF ReadVersions
    <3>6. QED
      BY <3>1, <3>2, <3>3, <3>4, <3>5 DEF Container
  <2>4. Deployed' <=> Deployed
    BY <2>1, <2>3 DEF Deployed, Boxes
  <2>5. ImageIsCurrent'
    BY <1>1, <2>3 DEF PumpOK, ImageIsCurrent, TagIsHearsay
  <2>6. TrustedImage'
    BY <1>1, <2>3, <2>4 DEF PumpOK, TrustedImage
  <2>7. QED
    BY <1>1, <1>3, <2>1, <2>3, <2>5, <2>6 DEF PumpOK
<1>4. QED
  BY <1>2, <1>3

LEMMA PumpPreserved ==
    ASSUME PumpOK, CleanupOK, LeaseNext
    PROVE  PumpOK'
<1>1. CASE Provisions \/ HandOver
  BY <1>1, PumpStays DEF Provisions, HandOver, vars, cleanupVars, PumpOK
<1>2. CASE Works
  <2>1. orphan = "none" /\ orphan' = "none" /\ Next
    BY <1>2 DEF Works, cleanupVars
  <2>2. CASE \E repo \in Repos, rooted \in BOOLEAN : \E f \in repo :
                Deploy(repo, rooted, f) \/ RunControl(repo, rooted, f)
    BY <2>1, <2>2, DeployPreserves, ControlPreserves
  <2>3. CASE Container \/ ReadVersions
    BY <2>1, <2>3, LifePreserves
  <2>4. CASE Release \/ Deprecate
    BY <2>1, <2>4, PumpStays DEF Release, Deprecate, PumpOK
  <2>5. QED
    BY <2>1, <2>2, <2>3, <2>4 DEF Next
<1>3. CASE Abandon
  BY <1>3, NothingPassed, PumpAssumption DEF Abandon
<1>4. CASE Forget
  <2>1. passed = {}
    BY <1>4 DEF Forget, PumpOK, Boxes
  <2>2. QED
    BY <1>4, <2>1, NothingPassed DEF Forget, vars, PumpOK
<1>5. CASE CleansUp
  <2>1. orphan # "none"
    <3> SUFFICES ASSUME orphan = "none"
                 PROVE  FALSE
      OBVIOUS
    <3>1. flow.on = {} /\ run.at = "never"
      BY DEF CleanupOK, NoFlow, NotStarted
    <3>2. ASSUME NEW by, NEW value, Start(by, value)
          PROVE  FALSE
      BY <3>1, <3>2 DEF Start
    <3>3. ~CleanupStep
      BY <3>1 DEF CleanupStep, Install, List, Close
    <3>4. QED
      BY <1>5, <3>2, <3>3 DEF CleansUp
  <2>2. passed = {}
    BY <2>1 DEF PumpOK
  <2>3. QED
    BY <1>5, <2>2, NothingPassed DEF CleansUp, PumpOK
<1>6. QED
  BY <1>1, <1>2, <1>3, <1>4, <1>5 DEF LeaseNext
-----------------------------------------------------------------------------
(* The gate and the place.                                                  *)

Recognised == plan.accepted /\ ~Unrecognised(plan.gate)

(* What is known when the rules have nothing against a plan that they can   *)
(* read: the level that was looked at last has only been drawn upon since,  *)
(* or nothing could be measured, and that is said or is one of the excused. *)
Sighted ==
    /\ prov.at \in {"decide", "select", "create"} /\ ~prov.drawn => level >= prov.seen
    /\ prov.at = "decide" =>
          /\ prov.verdict = "none" /\ prov.result = "none"
          /\ plan.gate.how = "output" => prov.first = prov.seen
    /\ prov.at \in {"select", "create", "created"} =>
          prov.verdict = "allow" /\ prov.result = "none"
    /\ prov.verdict = "refuse" => prov.seen = 0
    /\ prov.verdict = "allow" => prov.seen >= 1
    /\ prov.result = "402" => prov.drawn

Known ==
    /\ prov.blind => Collapses(plan.gate) \/ (prov.at = "over" /\ prov.verdict = "none")
    /\ ~prov.blind => Sighted

ProvType ==
    [at: {"waiting", "sample", "decide", "select", "create", "created", "deployed", "over"},
     env: {"number", "garbage"}, first: 0 .. Deposits, seen: 0 .. Deposits,
     blind: BOOLEAN, verdict: {"none", "allow", "refuse", "rejected"}, drawn: BOOLEAN,
     deploy: SUBSET Placement, on: SUBSET Provider, fitted: BOOLEAN,
     result: {"none", "undetermined", "no_bid", "402"}]

Judged ==
    /\ plan.gate \in Gate /\ plan.deploys \subseteq Placement
    /\ plan.accepted => NothingAgainst(plan.gate, plan.deploys)

ProvisionOK ==
    /\ level \in 0 .. Deposits
    /\ prov \in ProvType
    /\ prov.at \in {"waiting", "sample", "deployed"} =>
          prov.verdict = "none" /\ prov.result = "none"
    /\ prov.at \in {"waiting", "sample", "decide", "deployed"} => ~prov.blind
    /\ prov.at \notin {"waiting", "deployed"} => Judged
    /\ Recognised => Known
    /\ LandsWhereItFits

(* Nobody decides with arithmetic of one's own who has no excuse.           *)
LEMMA PassingIsExcused ==
    ASSUME NEW g \in Gate, NEW deploys, NothingAgainst(g, deploys)
    PROVE  Own(g) => Excused(g)
<1>1. g.kind \in {"funding", "capacity"}
  BY DEF Gate
<1>2. GateExit(g) = 0 /\ FundingExit(g) = 0 /\ g.parses
  BY DEF NothingAgainst, GateExit
<1>3. QED
  BY <1>1, <1>2 DEF Excused, GateExit, FundingExit, Gating

(* Arithmetic of one's own that passes and is recognised is a comparison of *)
(* the right quantity with a number.                                        *)
LEMMA OwnArithmetic ==
    ASSUME NEW g \in Gate, NEW deploys, NothingAgainst(g, deploys), ~Unrecognised(g), Own(g)
    PROVE  g.how = "level" /\ g.quantity = "right" /\ g.threshold \in {"literal", "validated"}
<1>1. /\ g.kind \in {"funding", "capacity"} /\ g.quantity \in {"right", "other"}
      /\ g.how \in {"level", "projection"}
      /\ g.threshold \in {"literal", "validated", "bare", "braced", "another_validated"}
  BY DEF Gate, Own
<1>2. /\ GateExit(g) = 0 /\ FundingExit(g) = 0 /\ ProjectionExit(g) = 0
      /\ ~DefaultWarns(g)
  BY DEF NothingAgainst
<1>3. g.parses
  BY <1>2 DEF GateExit
<1>4. Excused(g)
  BY PassingIsExcused
<1>5. g.quantity = "right"
  BY <1>1, <1>4 DEF Unrecognised
<1>6. g.how # "projection"
  BY <1>1, <1>2, <1>4 DEF Unrecognised, ProjectionExit, ProjectionFinding
<1>7. g.threshold \in {"literal", "validated"}
  BY <1>1, <1>2, <1>3, <1>4, <1>6 DEF Unrecognised, DefaultWarns, FindsUse, ValidationPresent
<1>8. QED
  BY <1>1, <1>5, <1>6, <1>7

(* So it reads the level and nothing else.                                  *)
LEMMA ReadsTheLevel ==
    ASSUME Recognised, Judged, NEW n \in Reads(plan.gate)
    PROVE  n = level
<1>1. Own(plan.gate) => plan.gate.quantity = "right"
  BY OwnArithmetic DEF Recognised, Judged
<1>2. QED
  BY <1>1 DEF Reads

LEMMA ReadsInRange ==
    ASSUME level \in 0 .. Deposits, NEW n \in Reads(plan.gate)
    PROVE  n \in 0 .. Deposits
BY DEF Reads

(* A deployment that passes goes where it fits, if the rule looked at it.   *)
LEMMA PassingPlace ==
    ASSUME NEW d \in Placement, Placed(d), NEW p \in Eligible(d),
           d.via # "script", ~(d.via = "direct" /\ (~CallSite(d) \/ OneProvider(d))),
           d.ranked # "other"
    PROVE  p \in Provider /\ room[p] = "node" /\ (d.via = "pool" => p \notin d.denied)
<1>1. d.via \in {"pool", "direct"}
  BY DEF Placement
<1>2. d.ranked = "no" /\ d.select = "emptiest" /\ Aware(d)
  BY <1>1 DEF Placement, Placed, PoolPlaced, DirectPlaced, CallSite, Aware
<1>3. CASE d.via = "pool"
  <2>1. Eligible(d) = {q \in Provider \ d.denied : room[q] = "node"}
    BY <1>2, <1>3 DEF Eligible
  <2>2. QED
    BY <2>1
<1>4. CASE d.via = "direct"
  <2>1. Eligible(d) = {q \in Provider : room[q] = "node"}
    BY <1>2, <1>4 DEF Eligible
  <2>2. QED
    BY <1>4, <2>1
<1>5. QED
  BY <1>1, <1>3, <1>4

LEMMA ProvisionStarts == ProvisionInit => ProvisionOK
<1> SUFFICES ASSUME ProvisionInit
             PROVE  ProvisionOK
  OBVIOUS
<1>1. level \in 0 .. Deposits /\ 0 \in 0 .. Deposits
  BY PlanAssumption DEF ProvisionInit
<1>2. prov \in ProvType
  BY <1>1 DEF ProvisionInit, NotYetProvisioned, ProvType
<1>3. QED
  BY <1>1, <1>2 DEF ProvisionInit, NotYetProvisioned, ProvisionOK, NoPlan, Recognised,
                    LandsWhereItFits

LEMMA ProvisionStays ==
    ASSUME ProvisionOK, UNCHANGED provisionVars
    PROVE  ProvisionOK'
BY DEF ProvisionOK, provisionVars, Recognised, Known, Sighted, Judged, LandsWhereItFits

LEMMA BeginPreserves ==
    ASSUME ProvisionOK, NEW p \in Plans, NEW env \in {"number", "garbage"},
           prov.at = "waiting", Begin(p, env)
    PROVE  ProvisionOK'
<1>1. /\ plan' = [gate |-> p.gate, deploys |-> p.deploys,
                 accepted |-> NothingAgainst(p.gate, p.deploys)]
      /\ prov' = [prov EXCEPT !.at = "sample", !.env = env]
      /\ level' = level
  BY DEF Begin
<1>2. prov \in ProvType /\ prov.verdict = "none" /\ prov.result = "none"
  BY DEF ProvisionOK
<1>3. prov' \in ProvType /\ prov'.at = "sample" /\ prov'.verdict = "none"
      /\ prov'.result = "none" /\ ~prov'.blind
  BY <1>1, <1>2 DEF ProvType, ProvisionOK
<1>4. Judged'
  BY <1>1, PlanAssumption DEF Judged
<1>5. QED
  BY <1>1, <1>3, <1>4 DEF ProvisionOK, Known, Sighted, LandsWhereItFits

LEMMA DriftPreserves == ASSUME ProvisionOK, Drift PROVE ProvisionOK'
<1>1. /\ level \in 0 .. Deposits /\ level' \in 0 .. Deposits /\ Deposits \in Nat
      /\ prov' = [prov EXCEPT !.drawn = @ \/ level' < level]
      /\ plan' = plan /\ prov \in ProvType
      /\ prov.at \in {"sample", "decide", "create"}
  BY PlanAssumption DEF ProvisionOK, Drift
<1>2. /\ prov' \in ProvType /\ prov'.at = prov.at /\ prov'.first = prov.first
      /\ prov'.seen = prov.seen /\ prov'.verdict = prov.verdict
      /\ prov'.blind = prov.blind /\ prov'.result = prov.result /\ prov'.deploy = prov.deploy
      /\ prov'.on = prov.on /\ prov'.fitted = prov.fitted
      /\ prov'.drawn <=> (prov.drawn \/ level' < level)
  BY <1>1 DEF ProvType
<1>3. prov.seen \in Nat /\ level \in Nat /\ level' \in Nat
  BY <1>1 DEF ProvType
<1>4. Recognised => Known'
  <2>1. Recognised /\ ~prov.blind => Sighted'
    BY <1>1, <1>2, <1>3 DEF ProvisionOK, Known, Sighted
  <2>2. QED
    BY <1>1, <1>2, <2>1 DEF ProvisionOK, Known
<1>5. Recognised' <=> Recognised
  BY <1>1 DEF Recognised
<1>6. Judged' <=> Judged
  BY <1>1 DEF Judged
<1>7. LandsWhereItFits'
  BY <1>1, <1>2 DEF ProvisionOK, LandsWhereItFits
<1>8. QED
  BY <1>1, <1>2, <1>4, <1>5, <1>6, <1>7 DEF ProvisionOK

(* What could not be measured is told, or is a verdict of one that Collapses.*)
LEMMA UnmeasuredPreserves ==
    ASSUME ProvisionOK, prov.at \in {"sample", "decide"}, Unmeasured,
           UNCHANGED <<plan, level, room>>
    PROVE  ProvisionOK'
<1>1. /\ prov \in ProvType /\ level' \in 0 .. Deposits /\ Judged
      /\ plan.gate.failed \in {"told", "allow", "refuse"}
  BY DEF ProvisionOK, Judged, Gate
<1>2. (Recognised' <=> Recognised) /\ Judged'
  BY <1>1 DEF Recognised, Judged
<1>3. /\ prov' \in ProvType /\ prov'.blind /\ prov'.at \in {"select", "over"}
      /\ \/ plan.gate.failed # "told"
         \/ prov'.at = "over" /\ prov'.verdict = prov.verdict
  BY <1>1 DEF Unmeasured, ProvType
<1>4. Recognised => Known'
  <2> SUFFICES ASSUME Recognised
               PROVE  Known'
    OBVIOUS
  <2>1. prov.verdict = "none"
    BY DEF ProvisionOK, Known, Sighted
  <2>2. Own(plan.gate) => Excused(plan.gate)
    BY <1>1, PassingIsExcused DEF Recognised, Judged
  <2>3. plan.gate.failed # "told" => Collapses(plan.gate)'
    BY <2>2 DEF Collapses
  <2>4. QED
    BY <1>3, <2>1, <2>3 DEF Known
<1>5. QED
  BY <1>1, <1>2, <1>3, <1>4 DEF ProvisionOK, LandsWhereItFits

LEMMA SamplePreserves == ASSUME ProvisionOK, Sample PROVE ProvisionOK'
<1>1. /\ prov.at = "sample" /\ prov \in ProvType /\ plan' = plan /\ level' = level
      /\ level \in 0 .. Deposits /\ Judged
      /\ prov.verdict = "none" /\ prov.result = "none"
  BY DEF ProvisionOK, Sample
<1>2. (Recognised' <=> Recognised) /\ Judged'
  BY <1>1 DEF Recognised, Judged
<1>3. ASSUME NEW n \in Reads(plan.gate),
             prov' = [prov EXCEPT !.at = "decide", !.first = n, !.seen = level,
                                  !.drawn = FALSE]
      PROVE  ProvisionOK'
  <2>1. n \in 0 .. Deposits
    BY <1>1, ReadsInRange
  <2>2. /\ prov' \in ProvType /\ prov'.at = "decide" /\ prov'.verdict = "none"
        /\ prov'.result = "none" /\ prov'.seen = level /\ prov'.first = n
        /\ ~prov'.blind
    BY <1>1, <1>3, <2>1 DEF ProvType, ProvisionOK
  <2>3. Recognised => n = level
    BY <1>1, <1>3, ReadsTheLevel
  <2>4. Recognised => Known'
    BY <1>1, <2>2, <2>3 DEF Known, Sighted
  <2>5. QED
    BY <1>1, <1>2, <2>2, <2>4 DEF ProvisionOK, LandsWhereItFits
<1>4. CASE Unmeasured
  BY <1>1, <1>4, UnmeasuredPreserves DEF Sample
<1>5. QED
  BY <1>3, <1>4 DEF Sample

(* The verdict is that of the level that was looked at last.                *)
LEMMA MeasuredPreserves ==
    ASSUME ProvisionOK, prov.at = "decide", Measured, UNCHANGED <<plan, level, room>>
    PROVE  ProvisionOK'
<1> DEFINE g == plan.gate
           Outcome(n) == CASE g.how = "primitive" -> Verdict(n)
                           [] g.how = "output" -> Verdict(prov.first)
                           [] g.how = "level" -> Compared(g, n)
                           [] g.how = "projection" -> Projected(prov.first, n)
           Conclusion(v) == [prov EXCEPT !.at = IF v = "allow" THEN "select" ELSE "over",
                                       !.verdict = v]
<1>1. PICK n \in Reads(g) :
          prov' = IF g.how = "output" THEN Conclusion(Outcome(n))
                  ELSE [Conclusion(Outcome(n)) EXCEPT !.seen = level, !.drawn = FALSE]
  BY DEF Measured
<1>2. /\ prov.at = "decide" /\ prov \in ProvType /\ plan' = plan /\ level' = level
      /\ level \in 0 .. Deposits /\ Deposits \in Nat /\ Judged /\ ~prov.blind
  BY PlanAssumption DEF ProvisionOK
<1>3. /\ g.how \in {"primitive", "output", "level", "projection"}
      /\ prov.seen \in Nat /\ prov.first \in Nat /\ level \in Nat
  BY <1>2 DEF Judged, Gate, ProvType
<1> DEFINE v == Outcome(n)
<1>4. v \in {"allow", "refuse", "rejected"}
  BY <1>3 DEF Verdict, Compared, Projected
<1>5. /\ prov' \in ProvType /\ prov'.verdict = v /\ prov'.result = prov.result
      /\ prov'.at = (IF v = "allow" THEN "select" ELSE "over")
      /\ prov'.seen = (IF g.how = "output" THEN prov.seen ELSE level)
      /\ ~prov'.blind /\ (g.how = "output" => prov'.drawn = prov.drawn)
  <2> HIDE DEF v
  <2>1. CASE g.how = "output"
    BY <1>1, <1>2, <1>4, <2>1 DEF ProvType, v
  <2>2. CASE g.how # "output"
    BY <1>1, <1>2, <1>4, <2>2 DEF ProvType, v
  <2>3. QED
    BY <2>1, <2>2
<1>6. Recognised => Known'
  <2> SUFFICES ASSUME Recognised
               PROVE  Known'
    OBVIOUS
  <2>1. /\ ~prov.drawn => level >= prov.seen
        /\ prov.result = "none" /\ (g.how = "output" => prov.first = prov.seen)
    BY <1>2 DEF ProvisionOK, Known, Sighted
  <2>2. n = level
    BY <1>2, ReadsTheLevel
  <2>3. v \in {Verdict(prov'.seen), "rejected"}
    <3>1. CASE g.how = "primitive"
      BY <1>5, <2>2, <3>1
    <3>2. CASE g.how = "output"
      BY <1>5, <2>1, <3>2
    <3>3. CASE g.how \in {"level", "projection"}
      <4>1. g.how = "level" /\ g.threshold \in {"literal", "validated"}
        BY <1>2, <3>3, OwnArithmetic DEF Recognised, Judged, Own
      <4>2. QED
        BY <1>5, <2>2, <4>1 DEF Compared
    <3>4. QED
      BY <1>3, <3>1, <3>2, <3>3
  <2>4. /\ v = "allow" => prov'.seen >= 1
        /\ v = "refuse" => prov'.seen = 0
    BY <1>3, <1>5, <2>3 DEF Verdict
  <2>5. ~prov'.drawn => level' >= prov'.seen
    BY <1>2, <1>3, <1>5, <2>1
  <2>6. QED
    BY <1>5, <2>1, <2>4, <2>5 DEF Known, Sighted
<1>7. (Recognised' <=> Recognised) /\ Judged'
  BY <1>2 DEF Recognised, Judged
<1>8. prov'.at \in {"select", "over"}
  BY <1>5
<1>9. QED
  BY <1>2, <1>5, <1>6, <1>7, <1>8 DEF ProvisionOK, LandsWhereItFits

LEMMA DecidePreserves == ASSUME ProvisionOK, Decide PROVE ProvisionOK'
BY MeasuredPreserves, UnmeasuredPreserves DEF Decide

LEMMA SelectPreserves ==
    ASSUME ProvisionOK, NEW d \in plan.deploys, Select(d)
    PROVE  ProvisionOK'
<1>1. /\ prov.at = "select" /\ prov \in ProvType /\ plan' = plan /\ level' = level
      /\ level \in 0 .. Deposits /\ Judged /\ d \in Placement
  BY DEF ProvisionOK, Select, Judged
<1>2. (Recognised' <=> Recognised) /\ Judged'
  BY <1>1 DEF Recognised, Judged
<1>3. ASSUME NEW p \in Eligible(d),
             prov' = [prov EXCEPT !.at = "create", !.deploy = {d}, !.on = {p},
                                  !.fitted = (room[p] = "node")]
      PROVE  ProvisionOK'
  <2>1. p \in Provider
    BY <1>1, <1>3 DEF Eligible, Placement
  <2>2. /\ prov' \in ProvType /\ prov'.at = "create" /\ prov'.deploy = {d}
        /\ prov'.on = {p} /\ (prov'.fitted <=> room[p] = "node")
        /\ prov'.verdict = prov.verdict /\ prov'.result = prov.result
        /\ prov'.seen = prov.seen /\ prov'.drawn = prov.drawn
        /\ prov'.blind = prov.blind
    BY <1>1, <1>3, <2>1 DEF ProvType
  <2>3. Recognised => Known'
    BY <1>1, <2>2 DEF ProvisionOK, Known, Sighted
  <2>4. plan.accepted => Placed(d)
    BY <1>1 DEF Judged, NothingAgainst, AllPlaced
  <2>5. LandsWhereItFits'
    BY <1>1, <1>3, <2>2, <2>4, PassingPlace DEF LandsWhereItFits
  <2>6. QED
    BY <1>1, <1>2, <2>2, <2>3, <2>5 DEF ProvisionOK
<1>4. CASE prov' = [prov EXCEPT !.at = "over", !.result = "no_bid"]
  <2>1. /\ prov' \in ProvType /\ prov'.at = "over" /\ prov'.result = "no_bid"
        /\ prov'.verdict = prov.verdict /\ prov'.seen = prov.seen
        /\ prov'.blind = prov.blind
    BY <1>1, <1>4 DEF ProvType
  <2>2. Recognised => Known'
    BY <1>1, <2>1 DEF ProvisionOK, Known, Sighted
  <2>3. QED
    BY <1>1, <1>2, <2>1, <2>2 DEF ProvisionOK, LandsWhereItFits
<1>5. QED
  BY <1>3, <1>4 DEF Select

(* A create that is refused finds less than was seen: others have drawn.    *)
LEMMA CreatePreserves == ASSUME ProvisionOK, Create PROVE ProvisionOK'
<1>1. /\ prov.at = "create" /\ prov \in ProvType /\ plan' = plan
      /\ level \in 0 .. Deposits /\ Deposits \in Nat /\ Judged
      /\ prov.seen \in Nat
  BY PlanAssumption DEF ProvisionOK, Create, ProvType
<1>2. (Recognised' <=> Recognised) /\ Judged'
  BY <1>1 DEF Recognised, Judged
<1>3. CASE level >= 1
  <2>1. prov' = [prov EXCEPT !.at = "created"] /\ level' = level - 1
    BY <1>3 DEF Create
  <2>2. /\ prov' \in ProvType /\ prov'.at = "created" /\ prov'.result = prov.result
        /\ prov'.verdict = prov.verdict /\ prov'.seen = prov.seen
        /\ prov'.blind = prov.blind
        /\ prov'.deploy = prov.deploy /\ prov'.on = prov.on /\ prov'.fitted = prov.fitted
        /\ level' \in 0 .. Deposits
    BY <1>1, <1>3, <2>1 DEF ProvType
  <2>3. Recognised => Known'
    BY <1>1, <2>2 DEF ProvisionOK, Known, Sighted
  <2>4. LandsWhereItFits'
    BY <1>1, <2>2 DEF ProvisionOK, LandsWhereItFits
  <2>5. QED
    BY <1>2, <2>2, <2>3, <2>4 DEF ProvisionOK
<1>4. CASE ~(level >= 1)
  <2>1. prov' = [prov EXCEPT !.at = "over", !.result = "402"] /\ level' = level
    BY <1>4 DEF Create
  <2>2. /\ prov' \in ProvType /\ prov'.at = "over" /\ prov'.result = "402"
        /\ prov'.verdict = prov.verdict /\ prov'.seen = prov.seen
        /\ prov'.drawn = prov.drawn /\ prov'.blind = prov.blind
    BY <1>1, <2>1 DEF ProvType
  <2>3. Recognised /\ ~prov.blind => prov.drawn
    BY <1>1, <1>4 DEF ProvisionOK, Known, Sighted
  <2>4. Recognised => Known'
    BY <1>1, <2>2, <2>3 DEF ProvisionOK, Known, Sighted
  <2>5. QED
    BY <1>1, <1>2, <2>1, <2>2, <2>4 DEF ProvisionOK, LandsWhereItFits
<1>5. QED
  BY <1>3, <1>4

LEMMA HandOverPreserves == ASSUME ProvisionOK, HandOver PROVE ProvisionOK'
<1>1. /\ level' \in 0 .. Deposits /\ 0 \in 0 .. Deposits /\ plan' = NoPlan
      /\ prov' = [NotYetProvisioned EXCEPT !.at = "deployed"]
  BY PlanAssumption DEF HandOver
<1>2. /\ prov' \in ProvType /\ prov'.at = "deployed" /\ prov'.verdict = "none"
      /\ prov'.result = "none" /\ ~prov'.blind
  BY <1>1 DEF NotYetProvisioned, ProvType
<1>3. ~Recognised'
  BY <1>1 DEF Recognised, NoPlan
<1>4. QED
  BY <1>1, <1>2, <1>3 DEF ProvisionOK, LandsWhereItFits

LEMMA ProvisionPreserved ==
    ASSUME ProvisionOK, LeaseNext
    PROVE  ProvisionOK'
<1>1. CASE Provisions
  <2>1. CASE Crowd
    BY <2>1 DEF Crowd, ProvisionOK, Recognised, Known, Sighted, Judged, LandsWhereItFits
  <2>2. QED
    BY <1>1, <2>1, BeginPreserves, DriftPreserves, SamplePreserves, DecidePreserves,
       SelectPreserves, CreatePreserves DEF Provisions, ProvisionNext
<1>2. CASE HandOver
  BY <1>2, HandOverPreserves
<1>3. CASE Works \/ Abandon \/ Forget \/ CleansUp
  BY <1>3, ProvisionStays DEF Works, Abandon, Forget, CleansUp
<1>4. QED
  BY <1>1, <1>2, <1>3 DEF LeaseNext

-----------------------------------------------------------------------------
LeaseOK == ProvisionOK /\ PumpOK /\ CleanupOK

LEMMA LeaseIsOK == LeaseSpec => []LeaseOK
<1>1. LeaseInit => LeaseOK
  BY ProvisionStarts, PumpStarts, CleanupStarts DEF LeaseInit, LeaseOK
<1>2. LeaseOK /\ [LeaseNext]_leaseVars => LeaseOK'
  <2>1. ASSUME LeaseOK, LeaseNext PROVE LeaseOK'
    BY <2>1, ProvisionPreserved, PumpPreserved, CleanupPreserved DEF LeaseOK
  <2>2. ASSUME LeaseOK, UNCHANGED leaseVars PROVE LeaseOK'
    <3>1. /\ UNCHANGED provisionVars /\ UNCHANGED vars /\ UNCHANGED cleanupVars
      BY <2>2 DEF leaseVars
    <3>2. PumpOK'
      BY <2>2, <3>1, PumpStays DEF LeaseOK, PumpOK, vars, cleanupVars
    <3>3. QED
      BY <2>2, <3>1, <3>2, ProvisionStays, CleanupStays DEF LeaseOK
  <2>3. QED
    BY <2>1, <2>2
<1>3. QED
  BY <1>1, <1>2, PTL DEF LeaseSpec

(* Where no rule has anything against a gate it recognises, it allows if    *)
(* and only if a whole deposit fitted when it looked, and an instrument     *)
(* that fails is no verdict, but where nobody asks what a failure becomes.  *)
THEOREM VerdictsFollowTheLevel == LeaseSpec => []VerdictIsOfTheLevel
<1>1. LeaseOK => VerdictIsOfTheLevel
  BY DEF LeaseOK, ProvisionOK, Recognised, Known, Sighted, VerdictIsOfTheLevel
<1>2. QED
  BY <1>1, LeaseIsOK, PTL

(* A deployment of a workflow that passes goes where there is room for it,  *)
(* and by the pool to nobody it was denied, if the rule saw it for one.     *)
THEOREM DeploymentsFit == LeaseSpec => []LandsWhereItFits
<1>1. LeaseOK => LandsWhereItFits
  BY DEF LeaseOK, ProvisionOK
<1>2. QED
  BY <1>1, LeaseIsOK, PTL

(* What a passing repository deploys starts at the floor or above it, but   *)
(* for what the rule has to take the tag's word for.                        *)
THEOREM ContainersStartCurrent == LeaseSpec => []StartsCurrent
<1>1. LeaseOK => StartsCurrent
  BY DEF LeaseOK, PumpOK, ImageIsCurrent, StartsCurrent, Deployed
<1>2. QED
  BY <1>1, LeaseIsOK, PTL

(* A passing repository runs no image the list distrusts from a file that   *)
(* was read, and its negative control is one.                               *)
THEOREM ImagesAreTrusted == LeaseSpec => []TrustedImage
<1>1. LeaseOK => TrustedImage
  BY DEF LeaseOK, PumpOK
<1>2. QED
  BY <1>1, LeaseIsOK, PTL

(* A green run of a clean-up workflow that passes has neither failed to     *)
(* read its list nor failed to close what it saw, in any form a rule sees.  *)
THEOREM GreenIsClean == LeaseSpec => []GreenMeansClean
<1>1. LeaseOK => GreenMeansClean
  BY DEF LeaseOK, CleanupOK
<1>2. QED
  BY <1>1, LeaseIsOK, PTL

(* What a schedule starts is live because its author decided so, or in one  *)
(* of the three forms that the rule takes for a decision.                   *)
THEOREM SchedulesDecide == LeaseSpec => []LiveByDecision
<1>1. LeaseOK => LiveByDecision
  <2> SUFFICES ASSUME LeaseOK, run.by = "schedule", run.live,
                      "inputs" \in CleanupPassed(flow)
               PROVE  \/ Decided(flow.mode) \/ FallsThrough(flow.mode)
                      \/ FalseIsLive(flow) \/ flow.mode.place = "if"
    BY DEF LiveByDecision
  <2>1. /\ "schedule" \in flow.on /\ Destructive(flow, OnSchedule(flow.mode))
        /\ flow \in Flow
    BY DEF LeaseOK, CleanupOK, NotStarted
  <2>2. QED
    BY <2>1, ArmedBySchedule
<1>2. QED
  BY <1>1, LeaseIsOK, PTL
=============================================================================
