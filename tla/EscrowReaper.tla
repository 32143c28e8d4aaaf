---------------------------- MODULE EscrowReaper ----------------------------
(* reusable-akash-escrow-reaper.yml: sweeps of the deployments on one Akash *)
(* account that several repositories spend from.  The classifier that a     *)
(* sweep runs, just_akash.cleanup_stale, is not code of this repository.    *)
EXTENDS EscrowRules, Naturals, FiniteSets

CONSTANTS
    Repo, Lease, Slot,
    Default,     \* the classifier's own --placement-prefix
    Docs,        \* the repositories' documents: functions from Repo to Doc
    MaxVersion   \* bound on the releases of the reaper and the classifier

ASSUME EscrowAssumption ==
    /\ Default \in Prefix
    /\ Repo # {} /\ Docs \subseteq [Repo -> Doc]
    /\ IsFiniteSet(Lease) /\ MaxVersion \in Nat

VARIABLES
    docs,      \* what is in the repositories
    account,   \* the deployments
    release,   \* what a branch or a tag of the reaper resolves to
    sweeps     \* the runs of the reaper

vars == <<docs, account, release, sweeps>>

Service == {"runner", "app", "unreadable"}

(* Its name is its owner's stamp and whatever the owner's workflow makes of  *)
(* the rest.                                                                *)
Deployment ==
    [state: {"none", "open", "closed"}, owner: Repo, stamp: Prefix, name: Prefix,
     service: Service, stale: BOOLEAN]

(* An input of type boolean arrives as text, and one that nothing supplies  *)
(* as the empty string.                                                     *)
Text == {"", "false", "true"}

Unset == [is |-> "unset"]
Unknown == [is |-> "UNKNOWN"]
Number(n) == [is |-> "number", n |-> n]
Output == {Unset, Unknown} \cup {Number(n) : n \in 0..Cardinality(Lease)}

Phases == {"idle", "install", "guards", "classify", "close", "outputs", "over"}

Sweep ==
    [phase: Phases, repo: Repo, execute: Text, reap_owned: Text,
     prefix: Prefix \cup {Blank}, key: BOOLEAN,
     workflow: 0..MaxVersion, reader: 0..MaxVersion,
     listed: SUBSET Lease, found: SUBSET Lease,     \* what the classifier saw
     tried: SUBSET Lease, closed: SUBSET Lease,     \* and did
     died: BOOLEAN,                                 \* its exit, and which lines
     verdict: BOOLEAN, counted: BOOLEAN,            \* of its summary it printed
     outClosed: Output, outStale: Output,
     result: {"none", "green", "red", "cancelled"}]

(* The deployments, the sweeps and the releases have their types.           *)
TypeOK ==
    /\ docs \in Docs
    /\ account \in [Lease -> Deployment]
    /\ release \in 0..MaxVersion
    /\ sweeps \in [Slot -> Sweep]

Nowhere(r, p) ==
    [state |-> "none", owner |-> r, stamp |-> p, name |-> p,
     service |-> "runner", stale |-> FALSE]

NoSweep(r) ==
    [phase |-> "idle", repo |-> r, execute |-> "", reap_owned |-> "",
     prefix |-> Blank, key |-> FALSE, workflow |-> 0, reader |-> 0,
     listed |-> {}, found |-> {}, tried |-> {}, closed |-> {},
     died |-> FALSE, verdict |-> FALSE, counted |-> FALSE,
     outClosed |-> Unset, outStale |-> Unset, result |-> "none"]

Init ==
    /\ docs \in Docs
    /\ account = [l \in Lease |-> Nowhere(CHOOSE r \in Repo : TRUE, Default)]
    /\ release = 0
    /\ sweeps = [s \in Slot |-> NoSweep(CHOOSE r \in Repo : TRUE)]

-----------------------------------------------------------------------------
(* The account and the repositories around it.                              *)

Deploy(l, r, p, n, v) ==
    /\ account[l].state = "none"
    /\ Creates(docs[r]) /\ p \in docs[r].stamps /\ Carries(n, p)
    /\ account' = [account EXCEPT ![l] =
          [state |-> "open", owner |-> r, stamp |-> p, name |-> n,
           service |-> v, stale |-> FALSE]]
    /\ UNCHANGED <<docs, release, sweeps>>

(* Its run is over, or it is older than the classifier's floor.             *)
GoStale(l) ==
    /\ account[l].state = "open" /\ ~account[l].stale
    /\ account' = [account EXCEPT ![l].stale = TRUE]
    /\ UNCHANGED <<docs, release, sweeps>>

OwnerCloses(l) ==
    /\ account[l].state = "open"
    /\ account' = [account EXCEPT ![l].state = "closed"]
    /\ UNCHANGED <<docs, release, sweeps>>

Release ==
    /\ release < MaxVersion
    /\ release' = release + 1
    /\ UNCHANGED <<docs, account, sweeps>>

-----------------------------------------------------------------------------
(* A sweep.                                                                 *)

Sets(s, w) == sweeps' = [sweeps EXCEPT ![s] = w]
Ends(s, how) == Sets(s, [sweeps[s] EXCEPT !.phase = "over", !.result = how])

(* What a ref stands for when it is resolved: a commit, or the last release.*)
Resolves(ref) == IF ref = "sha40" THEN 0 ELSE release

(* What the caller passes as placement-prefix.                              *)
Passed(doc) ==
    IF doc.declared = "expression" THEN doc.value
    ELSE IF doc.declared = "next_line" THEN Blank ELSE doc.declared

(* A schedule or a dispatch of the caller; without the required input       *)
(* GitHub does not run it.                                                  *)
Start(s, r, execute, reap_owned, key) ==
    /\ sweeps[s].phase = "idle"
    /\ Adopts(docs[r]) /\ docs[r].declared # "none"
    /\ Sets(s, [NoSweep(r) EXCEPT !.phase = "install",
                   !.execute = execute, !.reap_owned = reap_owned, !.key = key,
                   !.prefix = Passed(docs[r]), !.workflow = Resolves(docs[r].ref)])
    /\ UNCHANGED <<docs, account, release>>

Installs(ref) == ref = "sha40"

Install(s) ==
    /\ sweeps[s].phase = "install"
    /\ LET ref == docs[sweeps[s].repo].just_akash_ref
       IN  \/ /\ Installs(ref)
              /\ Sets(s, [sweeps[s] EXCEPT !.phase = "guards", !.reader = Resolves(ref)])
           \/ Ends(s, "red")
    /\ UNCHANGED <<docs, account, release>>

(* Bug: the blank prefix is not refused.                                    *)
KeyOnly(w) == w.key

(* A blank key and a blank prefix are refused by name.                      *)
Armed(w) == w.key /\ w.prefix # Blank

Guards(s) ==
    /\ sweeps[s].phase = "guards"
    /\ IF Armed(sweeps[s])
       THEN Sets(s, [sweeps[s] EXCEPT !.phase = "classify"])
       ELSE Ends(s, "red")
    /\ UNCHANGED <<docs, account, release>>

Executes(text) == text = "true"

ReapsOwned(text) == text = "true"

(* The classifier: runners that carry the prefix, with --reap-owned any     *)
(* service that does, and nothing it cannot read.                           *)
Closable(l, w) ==
    /\ account[l].state = "open" /\ account[l].stale
    /\ Carries(account[l].name, w.prefix)
    /\ \/ account[l].service = "runner"
       \/ account[l].service = "app" /\ ReapsOwned(w.reap_owned)

Classify(s) ==
    /\ sweeps[s].phase = "classify"
    /\ Sets(s, [sweeps[s] EXCEPT !.phase = "close",
          !.listed = {l \in Lease : account[l].state = "open" /\ account[l].stale},
          !.found = {l \in Lease : Closable(l, sweeps[s])}])
    /\ UNCHANGED <<docs, account, release>>

(* A lease that somebody else has closed is not closed again.               *)
CloseLease(s, l) ==
    /\ sweeps[s].phase = "close" /\ Executes(sweeps[s].execute)
    /\ l \in sweeps[s].found \ sweeps[s].tried
    /\ \/ /\ account[l].state = "open"
          /\ account' = [account EXCEPT ![l].state = "closed"]
          /\ Sets(s, [sweeps[s] EXCEPT !.tried = @ \cup {l}, !.closed = @ \cup {l}])
       \/ /\ account[l].state # "open"
          /\ Sets(s, [sweeps[s] EXCEPT !.tried = @ \cup {l}])
          /\ UNCHANGED account
    /\ UNCHANGED <<docs, release>>

(* The classifier exits, having printed each line of its summary or not; or *)
(* it dies: an old one does not know --ownership-register, the API refuses, *)
(* and so on.                                                               *)
ClassifierExits(s) ==
    /\ \/ /\ sweeps[s].phase = "close"
          /\ Executes(sweeps[s].execute) => sweeps[s].tried = sweeps[s].found
          /\ \E verdict, counted \in BOOLEAN :
                Sets(s, [sweeps[s] EXCEPT !.phase = "outputs",
                            !.verdict = verdict, !.counted = counted])
       \/ /\ sweeps[s].phase \in {"classify", "close"}
          /\ Sets(s, [sweeps[s] EXCEPT !.phase = "outputs", !.died = TRUE])
    /\ UNCHANGED <<docs, account, release>>

(* Bug: the status of the pipeline is tee's.                                *)
SucceededTee(w) == TRUE

Succeeded(w) == ~w.died

StaleOutput(w) == IF w.verdict THEN Number(Cardinality(w.found)) ELSE Unknown

(* No line is UNKNOWN above and 0 here.                                      *)
ClosedOutput(w) == IF w.counted THEN Number(Cardinality(w.closed)) ELSE Number(0)

Outputs(s) ==
    /\ sweeps[s].phase = "outputs"
    /\ IF Succeeded(sweeps[s])
       THEN Sets(s, [sweeps[s] EXCEPT !.phase = "over", !.result = "green",
                        !.outClosed = ClosedOutput(sweeps[s]),
                        !.outStale = StaleOutput(sweeps[s])])
       ELSE Ends(s, "red")
    /\ UNCHANGED <<docs, account, release>>

(* By hand, or at the twenty minutes of the job.                            *)
Cancel(s) ==
    /\ sweeps[s].phase \notin {"idle", "over"}
    /\ Ends(s, "cancelled")
    /\ UNCHANGED <<docs, account, release>>

Next ==
    \/ \E l \in Lease, r \in Repo, p, n \in Prefix, v \in Service : Deploy(l, r, p, n, v)
    \/ \E l \in Lease : GoStale(l) \/ OwnerCloses(l)
    \/ Release
    \/ \E s \in Slot :
        \/ \E r \in Repo, e \in Text, o \in Text, k \in BOOLEAN : Start(s, r, e, o, k)
        \/ Install(s) \/ Guards(s) \/ Classify(s)
        \/ \E l \in Lease : CloseLease(s, l)
        \/ ClassifierExits(s) \/ Outputs(s) \/ Cancel(s)

Spec == Init /\ [][Next]_vars

-----------------------------------------------------------------------------
(* "Blank matches EVERY deployment on the account, including other repos'"  *)
(* (l. 265): what a sweep closes is its caller's own, or belongs to a       *)
(* repository with a stamp that begins the caller's prefix or goes on from  *)
(* it - nobody compares the prefixes of repositories on one account.        *)
Overlap(p, q) == <<p, q>> \in Begins \/ <<q, p>> \in Begins

ClosesItsOwn ==
    \A s \in Slot : \A l \in sweeps[s].closed :
        \/ account[l].owner = sweeps[s].repo
        \/ \E p \in docs[account[l].owner].stamps : Overlap(sweeps[s].prefix, p)

(* "An UNSWEPT account, not a clean one" and "ABSENT IS NOT ZERO" (l. 312,   *)
(* 317): a green sweep that closes has been through all that was found; if  *)
(* it says that nothing was closable the classifier found nothing; and its  *)
(* other number is that of what was closed - unless the classifier did not  *)
(* print it, when absent is zero after all (l. 316).                        *)
GreenIsSwept ==
    \A s \in Slot : LET w == sweeps[s] IN w.result = "green" =>
        /\ Executes(w.execute) => w.tried = w.found
        /\ w.outStale = Number(0) => w.found = {}
        /\ \/ w.outClosed = Number(Cardinality(w.closed))
           \/ ~w.counted /\ w.outClosed = Number(0)

Adopter(r) == Audit(docs[r]) = "ok" /\ ~docs[r].ships

(* The rule's evidence for a prefix is worth something where the caller is  *)
(* not searched itself, the prefix is not an expression, and the prefixes   *)
(* that the other files hold are those they stamp, or begin them.           *)
Evident(doc) ==
    /\ ~doc.tracked /\ doc.declared # "expression"
    /\ \A q \in doc.mentions \cap Prefix : \E p \in doc.stamps : <<q, p>> \in Begins

(* "The closing logic can change under a consumer that changed nothing" is  *)
(* what the pins are for (the rule, l. 44; here, l. 187): whatever has been *)
(* released meanwhile, a sweep of a repository that passes runs the reaper  *)
(* and the classifier that its caller was written against.  And no more may *)
(* it be "a reaper matching NONE of its deployments - 0 closable forever,   *)
(* while this very rule reads green" (the rule, l. 277): in a repository    *)
(* with one stamp that passes on such evidence, a green sweep that says 0   *)
(* has not looked past a stale runner of that repository.                   *)
AdoptionHolds ==
    \A s \in Slot : LET w == sweeps[s] IN Adopter(w.repo) =>
        /\ w.phase \in {"classify", "close", "outputs"} => w.workflow = 0 /\ w.reader = 0
        /\ (/\ w.result = "green" /\ w.outStale = Number(0)
            /\ Evident(docs[w.repo]) /\ \E p \in Prefix : docs[w.repo].stamps = {p})
           => \A l \in w.listed :
                 ~(account[l].owner = w.repo /\ account[l].service = "runner")
=============================================================================
