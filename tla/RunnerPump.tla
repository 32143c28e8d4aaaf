----------------------------- MODULE RunnerPump -----------------------------
(***************************************************************************)
(* A container deployed from a file the rules have judged.  It registers,  *)
(* listens, updates itself, dies and is restarted; GitHub releases runner  *)
(* versions and stops serving old ones; the provisioner may read what      *)
(* registered and close the lease.                                         *)
(***************************************************************************)
EXTENDS RunnerImageRules

CONSTANTS
    Repos,        \* the sets of files a repository may have
    Binary,       \* Binary[d]: the runner version inside image d
    LastVersion   \* the last version that is released

ASSUME PumpAssumption ==
    /\ Binary \in [Digest -> Nat]
    /\ LastVersion \in Nat
    /\ Repos \subseteq SUBSET File

VARIABLES
    latest, served,   \* the newest version; the oldest that is sent jobs
    file, passed,     \* what the container was deployed from; the rules passed
    box, gate         \* the container; what the landing gate has done

vars == <<latest, served, file, passed, box, gate>>

NoBox == [state |-> "none", version |-> 0, died |-> "no"]
NoFile == [place |-> "none", disable |-> "absent", policy |-> "no",
           restarts |-> {}, reads |-> {}, projects |-> {}, acts |-> FALSE]

Init ==
    /\ latest = Floor /\ served = 0
    /\ file = NoFile /\ passed = {}
    /\ box = NoBox /\ gate = "unread"

Runs(ref) == ref.at \in {"code", "quoted", "allowed"}

(* A digest binds the image; a tag is whatever the provider has cached.     *)
Pulls(ref) == IF ref.digest = None THEN Digest ELSE {ref.digest}

Deploy(repo, rooted, f) ==
    /\ f.runner /\ f.parses
    /\ file' = f
    /\ passed' = Passed(repo, rooted)
    /\ \E ref \in {r \in f.refs : Runs(r)} : \E d \in Pulls(ref) :
        box' = [state |-> "starting", ref |-> ref, image |-> d,
                version |-> Binary[d], died |-> "no"]
    /\ UNCHANGED <<latest, served, gate>>

(* The verifier's negative control: the old image must fail.                *)
RunControl(repo, rooted, f) ==
    /\ f.place = "code"
    /\ passed' = Passed(repo, rooted)
    /\ file' = f
    /\ \E ref \in {r \in f.refs : r.at = "control"} : \E d \in Pulls(ref) :
        box' = [state |-> "control", ref |-> ref, image |-> d,
                version |-> Binary[d], died |-> "no"]
    /\ UNCHANGED <<latest, served, gate>>

-----------------------------------------------------------------------------
(* The container.                                                           *)

(* The entrypoint tests the variable's presence, in whatever form.          *)
Frozen == file.disable \notin {"absent", "comment"}

Register ==
    /\ box.state = "starting"
    /\ box' = [box EXCEPT !.state = "listening"]
    /\ UNCHANGED <<latest, served, file, passed, gate>>

(* The update may kill the runner it updates.                               *)
Update ==
    /\ box.state = "listening" /\ ~Frozen /\ box.version < latest
    /\ \/ box' = [box EXCEPT !.version = latest]
       \/ box' = [box EXCEPT !.state = "dead", !.died = "update"]
    /\ UNCHANGED <<latest, served, file, passed, gate>>

Refused ==
    /\ box.state = "listening" /\ Frozen /\ box.version < served
    /\ box' = [box EXCEPT !.state = "dead", !.died = "refused"]
    /\ UNCHANGED <<latest, served, file, passed, gate>>

(* It starts over from its image.                                           *)
Restart ==
    /\ box.state = "dead" /\ file.policy # "no"
    /\ box' = [box EXCEPT !.state = "starting", !.version = Binary[box.image]]
    /\ UNCHANGED <<latest, served, file, passed, gate>>

-----------------------------------------------------------------------------
(* The provisioner, once, when something has registered: a corpse is still  *)
(* listed, and reports no version.                                          *)
Listed == box.state \in {"listening", "dead"} \/ (box.state = "starting" /\ box.died # "no")

ReadVersions ==
    /\ gate = "unread" /\ Listed
    /\ LandingGate(file)
    /\ LET sound == box.state = "listening" /\ box.version >= served
       IN  IF sound \/ ~file.acts
           THEN gate' = (IF sound THEN "sound" ELSE "ignored") /\ UNCHANGED box
           ELSE gate' = "closed" /\ box' = [box EXCEPT !.state = "closed"]
    /\ UNCHANGED <<latest, served, file, passed>>

-----------------------------------------------------------------------------
(* GitHub.                                                                  *)

Release ==
    /\ latest < LastVersion
    /\ latest' = latest + 1
    /\ UNCHANGED <<served, file, passed, box, gate>>

Deprecate ==
    /\ served < latest
    /\ served' = served + 1
    /\ UNCHANGED <<latest, file, passed, box, gate>>

Container == Register \/ Update \/ Refused \/ Restart

Next ==
    \/ /\ box = NoBox
       /\ \E repo \in Repos, rooted \in BOOLEAN : \E f \in repo :
            Deploy(repo, rooted, f) \/ RunControl(repo, rooted, f)
    \/ Container \/ ReadVersions
    \/ Release \/ Deprecate

(* A container and a step of a running job do what they can do.             *)
Spec == Init /\ [][Next]_vars
FairSpec ==
    Spec /\ WF_vars(Register) /\ WF_vars(Update) /\ WF_vars(Refused)
         /\ WF_vars(Restart) /\ WF_vars(ReadVersions)

-----------------------------------------------------------------------------
Deployed == box.state \notin {"none", "control"}

(* What a passing floor rule does not see: a file that is no workflow, an   *)
(* image under another name, a tag that is not what the digest holds.       *)
TagIsHearsay ==
    \/ file.place # "workflow" \/ ~IsRunner(box.ref)
    \/ box.ref.tag \notin {0, Binary[box.image]}

(* "Runner image pins must be immutable and current enough" (l. 2): what a  *)
(* passing repository deploys starts at the floor or above it, unless the   *)
(* rule did not look there or had to take the tag's word for it.            *)
StartsCurrent ==
    Deployed /\ "floor" \in passed /\ box.state = "starting"
        => box.version >= Floor \/ TagIsHearsay

(* "No pre-fix digest is admissible" (l. 8): what a passing repository runs *)
(* was built after the distrust, whatever it is called, in a workflow or in *)
(* code, unless the image is not named by its digest, is newer than the     *)
(* list, is allowed by a line, is behind a quoted #, or is in a file the    *)
(* rule did not read; and the negative control it did read is such an image.*)
TrustedImage ==
    "digest" \in passed =>
        /\ Deployed =>
            \/ box.image \in Fixed
            \/ box.ref.digest = None \/ box.image \notin DenyList
            \/ box.ref.at = "allowed" /\ file.place # "workflow"
            \/ box.ref.at = "quoted" \/ ~Scanned(file, "code" \in passed)
        /\ (box.state = "control" /\ "code" \in passed) => box.image \notin Fixed

(* A file that spells the variable as the rule does not, or is not scanned. *)
Unseen == file.disable = "quoted" \/ file.place \notin {"workflow", "sdl"}

(* "Auto-update is the only mechanism that survives the NEXT deprecation":  *)
(* a listening runner of a passing repository that GitHub stops serving     *)
(* gets a served version, dies updating, or is closed.                      *)
OutlivesDeprecation ==
    (box.state = "listening" /\ box.version < served /\ "auto" \in passed)
        ~> (\/ Unseen \/ box.state = "closed"
            \/ box.version >= served \/ box.died = "update")

(* What lets a container of a repository that passed pump on: it is not     *)
(* where the rule looks; its restart: is not always and restarts all the    *)
(* same, or is another service's; its gate only looks; or its gate looked   *)
(* before it died.                                                          *)
PumpsOn ==
    \/ file.place \notin {"workflow", "sdl"}
    \/ RestartBound(file) /\ file.policy # "no"
    \/ gate \in {"sound", "ignored"}

(* "The mandate must be paired with a bound" (l. 36): a container of a      *)
(* repository that passed stops registering again, unless it PumpsOn.       *)
PumpEnds ==
    []("bound" \in passed => <>[](PumpsOn \/ box.state # "starting"))
=============================================================================
