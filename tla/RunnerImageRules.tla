-------------------------- MODULE RunnerImageRules --------------------------
(***************************************************************************)
(* Four rules about the files that deploy a runner: which image they name  *)
(* (check_runner_image_digest_floor, check_no_pre_emudhra_runner_digest),  *)
(* whether it may update itself (check_disable_auto_update_absent) and     *)
(* what ends a container that registers and never works                    *)
(* (check_auto_update_pump_has_a_bound).                                   *)
(***************************************************************************)
EXTENDS Integers, SequencesExt

CONSTANTS
    Digest,      \* the images that are published
    Fixed,       \* those that were built after the CA distrust
    DenyList,    \* the digests measured before the fixed index
    Floor,       \* SUPPORTED_FLOOR
    Floors,      \* the repositories _FLOORS has an entry for, as paths
    Window       \* _WINDOW, in lines that are not comments

ASSUME ImageAssumption ==
    /\ Fixed \subseteq Digest /\ DenyList \subseteq Digest \ Fixed
    /\ "none" \notin Digest
    /\ Floor \in Nat \ {0} /\ Window \in Nat
    /\ \A f \in Floors : f # <<>>

None == "none"

(* A reference to an image: the path of its name, the version at the front  *)
(* of its tag (0: no tag, or one that is no version) and the digest; an     *)
(* image is allowed by a line of ALLOWLIST or is Flynn's negative control;  *)
(* "quoted" is code behind a # inside quotes.                               *)
Ref == [name: Seq(STRING), tag: Nat, digest: Digest \cup {None},
        at: {"code", "quoted", "comment", "trailing", "allowed", "control"}]

(* A file: "nested" is below the workflows but not one of them, "other" has *)
(* a suffix no rule reads, or is in a directory that is skipped, or cannot  *)
(* be decoded (a Dockerfile, a .tf, a file under venv/).  disable:          *)
(* how DISABLE_AUTO_UPDATE is spelled; restarts: every restart: in the      *)
(* file, policy the container's own; reads, projects: where it lists the    *)
(* runners and where a .version is taken of something.                      *)
File == [place: {"workflow", "nested", "sdl", "code", "test", "other"}, parses: BOOLEAN,
         refs: SUBSET Ref, runner: BOOLEAN,
         disable: {"absent", "comment", "item", "mapping", "quoted"},
         policy: {"always", "unless-stopped", "on-failure", "no"},
         restarts: SUBSET {"always", "unless-stopped", "on-failure", "no"},
         reads: SUBSET Nat, projects: SUBSET Nat, acts: BOOLEAN]

-----------------------------------------------------------------------------
(* check_runner_image_digest_floor                                          *)

RunnerNames == {"github-runner", "df-akash-runner"}

IsRunner(ref) == ref.name # <<>> /\ Last(ref.name) \in RunnerNames

(* A path boundary, not a suffix of letters; a registry may stand in front. *)
HasFloor(ref) == \E f \in Floors : IsSuffix(f, ref.name)

(* Bug: a reference needs a tag to be a reference.                          *)
TaggedFinding(ref) ==
    ref.tag # 0 /\ (ref.digest = None \/ ~HasFloor(ref) \/ ref.tag < Floor)

(* Floating, unverifiable, or below the floor.                              *)
ImageFinding(ref) ==
    ref.digest = None \/ ref.tag = 0 \/ ~HasFloor(ref) \/ ref.tag < Floor

(* Exit 0 is a pass and "not applicable" alike; findings come first.        *)
FloorExit(repo) ==
    IF \E f \in repo : f.place = "workflow" /\
        (~f.parses \/ \E ref \in f.refs :
                        ref.at # "comment" /\ IsRunner(ref) /\ ImageFinding(ref))
    THEN 1 ELSE 0

-----------------------------------------------------------------------------
(* check_no_pre_emudhra_runner_digest                                       *)

(* The workflows; and the code, if it is known where the repository begins: *)
(* for a directory that is not .github/workflows it is not (l. 261-265).    *)
Scanned(f, rooted) ==
    f.place = "workflow" \/ (rooted /\ f.place \notin {"test", "other"})

(* Bug: the allowlist is looked up by the file only.                        *)
AllowedByFile(f, ref) == f.place # "workflow" /\ \E r \in f.refs : r.at = "allowed"

(* The allowlist is for code, and one line of it at a time.                 *)
Allowed(f, ref) == f.place # "workflow" /\ ref.at \in {"allowed", "control"}

(* Comments, whole and trailing, are history, and so is whatever follows a  *)
(* # after a blank.  A control that names a fixed image proves nothing.     *)
DigestExit(repo, rooted) ==
    IF \E f \in {g \in repo : Scanned(g, rooted)} : \E ref \in f.refs :
        \/ /\ ref.at \notin {"quoted", "comment", "trailing"}
           /\ ref.digest \in DenyList /\ ~Allowed(f, ref)
        \/ ref.at = "control" /\ f.place = "code" /\ ref.digest \notin DenyList
    THEN 1 ELSE 0

-----------------------------------------------------------------------------
(* check_disable_auto_update_absent                                         *)

(* Both rules read the workflows and the sdl/ beside them.                  *)
Targets(repo) == {f \in repo : f.place \in {"workflow", "sdl"}}

(* Bug: only what the mapping form says counts.                             *)
SetsMapping(f) == f.disable = "mapping"

(* Presence, not value; the two assignment shapes, not the mention.         *)
Sets(f) == f.disable \in {"item", "mapping"}

AutoExit(repo) == IF \E f \in Targets(repo) : Sets(f) THEN 1 ELSE 0

-----------------------------------------------------------------------------
(* check_auto_update_pump_has_a_bound                                       *)

LandingGate(f) == \E r \in f.reads, v \in f.projects : v - r \in -Window .. Window
RestartBound(f) == \E p \in f.restarts : p # "always"

HasBound(f) == LandingGate(f) \/ RestartBound(f)

(* Bug: one bound anywhere silences every container beside it.              *)
AnyBounded(repo) == \E f \in Targets(repo) : HasBound(f)

AllBounded(repo) == \A f \in Targets(repo) : f.runner => HasBound(f)

(* Nothing in scope is not a pass.                                          *)
BoundExit(repo) ==
    IF \A f \in Targets(repo) : ~f.runner THEN 3
    ELSE IF AllBounded(repo) THEN 0 ELSE 1

(* What passed; "code" if the digest rule has not said "code scan SKIPPED". *)
Passed(repo, rooted) ==
    LET exit == [floor |-> FloorExit(repo), digest |-> DigestExit(repo, rooted),
                 auto |-> AutoExit(repo), bound |-> BoundExit(repo),
                 code |-> IF rooted THEN 0 ELSE 1]
    IN  {rule \in DOMAIN exit : exit[rule] = 0}
=============================================================================
