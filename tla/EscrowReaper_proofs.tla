------------------------- MODULE EscrowReaper_proofs -------------------------
(* What a sweep of the account does, for every account, every set of        *)
(* repositories and any number of sweeps at a time.                         *)
EXTENDS EscrowReaper, FiniteSetTheorems, TLAPS

(* The name of a deployment that was ever made begins with a stamp of its    *)
(* owner.                                                                   *)
Stamped ==
    \A l \in Lease : account[l].state # "none" =>
        /\ account[l].stamp \in docs[account[l].owner].stamps
        /\ Carries(account[l].name, account[l].stamp)

(* What was listed has been deployed; what was found of it is the sweep's,  *)
(* and every runner with its prefix was found.                              *)
SeenRight(w, a) ==
    /\ w.found \subseteq w.listed
    /\ \A l \in w.listed : a[l].state # "none"
    /\ \A l \in w.found : Carries(a[l].name, w.prefix)
    /\ \A l \in w.listed :
          Carries(a[l].name, w.prefix) /\ a[l].service = "runner" => l \in w.found

(* Nothing is closed that was not found, nor under a blank prefix.          *)
ClosedRight(w) ==
    /\ w.closed \subseteq w.found
    /\ w.closed # {} => w.prefix # Blank

(* Before it classifies a sweep has seen nothing.                           *)
Early(w) ==
    w.phase \in {"idle", "install", "guards", "classify"} => w.listed = {} /\ w.found = {}

(* A classifier that has not died has tried what it found, and the outputs  *)
(* of a green sweep are its summary.                                        *)
Ending(w) ==
    /\ w.phase # "over" => w.result = "none"
    /\ (w.phase = "outputs" /\ ~w.died) \/ w.result = "green" =>
            (Executes(w.execute) => w.tried = w.found)
    /\ w.result = "green" =>
            /\ w.outClosed = ClosedOutput(w)
            /\ w.outStale = StaleOutput(w)

(* What a sweep runs and what it is aimed at is what the caller has, and    *)
(* the classifier is at a commit.                                           *)
CalledRight(w, d) ==
    /\ w.phase # "idle" =>
            /\ w.prefix = Passed(d[w.repo])
            /\ Pinned(d[w.repo].ref) => w.workflow = 0
    /\ w.reader = 0
    /\ w.phase \in {"classify", "close", "outputs"} \/ w.result = "green" =>
            w.phase # "idle" /\ w.prefix # Blank

SweepHolds(w, a, d) ==
    SeenRight(w, a) /\ ClosedRight(w) /\ Early(w) /\ Ending(w) /\ CalledRight(w, d)

IInv ==
    /\ TypeOK
    /\ Stamped
    /\ \A s \in Slot : SweepHolds(sweeps[s], account, docs)
-----------------------------------------------------------------------------
(* Nothing that was deployed is undone, or becomes somebody else's.         *)
Kept(a, b) ==
    \A l \in Lease : a[l].state # "none" =>
        /\ b[l].state # "none"
        /\ b[l].owner = a[l].owner /\ b[l].stamp = a[l].stamp
        /\ b[l].name = a[l].name /\ b[l].service = a[l].service

(* What holds of a sweep goes on holding while the account moves on.        *)
LEMMA SweepKept ==
    ASSUME NEW w \in Sweep, NEW a, NEW b, NEW d, Kept(a, b), SweepHolds(w, a, d)
    PROVE  SweepHolds(w, b, d)
<1>1. w.listed \subseteq Lease
  BY DEF Sweep
<1>2. SeenRight(w, b)
  BY <1>1 DEF Kept, SweepHolds, SeenRight
<1>3. QED
  BY <1>2 DEF SweepHolds

(* A step of the account is one that no sweep notices.                      *)
LEMMA AccountStep ==
    ASSUME IInv, Kept(account, account'), account' \in [Lease -> Deployment],
           release' \in 0..MaxVersion, UNCHANGED <<docs, sweeps>>, Stamped'
    PROVE  IInv'
<1>1. TypeOK'
  BY DEF IInv, TypeOK
<1>2. ASSUME NEW s \in Slot
      PROVE  SweepHolds(sweeps'[s], account', docs')
  <2>1. sweeps[s] \in Sweep /\ SweepHolds(sweeps[s], account, docs)
    BY DEF IInv, TypeOK
  <2>2. SweepHolds(sweeps[s], account', docs)
    BY <2>1, SweepKept
  <2>3. QED
    BY <2>2
<1>3. QED
  BY <1>1, <1>2 DEF IInv

(* A step of one sweep leaves the others as they are.                       *)
LEMMA SweepStep ==
    ASSUME IInv, NEW s \in Slot, NEW w \in Sweep, Sets(s, w),
           SweepHolds(w, account, docs), UNCHANGED <<docs, account, release>>
    PROVE  IInv'
<1>1. sweeps' = [sweeps EXCEPT ![s] = w] /\ sweeps \in [Slot -> Sweep]
  BY DEF Sets, IInv, TypeOK
<1>2. TypeOK' /\ Stamped'
  BY <1>1 DEF IInv, TypeOK, Stamped
<1>3. ASSUME NEW t \in Slot
      PROVE  SweepHolds(sweeps'[t], account', docs')
  <2>1. SweepHolds(sweeps[t], account, docs)
    BY DEF IInv
  <2>2. SweepHolds(sweeps'[t], account, docs)
    BY <1>1, <2>1
  <2>3. QED
    BY <2>2
<1>4. QED
  BY <1>2, <1>3 DEF IInv

(* A sweep that ends red or cancelled keeps what it has done.               *)
LEMMA EndHolds ==
    ASSUME IInv, NEW s \in Slot, NEW how \in {"red", "cancelled"}, Ends(s, how),
           sweeps[s].phase # "idle", UNCHANGED <<docs, account, release>>
    PROVE  IInv'
<1> DEFINE w == [sweeps[s] EXCEPT !.phase = "over", !.result = how]
<1>1. sweeps[s] \in Sweep /\ SweepHolds(sweeps[s], account, docs)
  BY DEF IInv, TypeOK
<1>2. w \in Sweep /\ Sets(s, w)
  BY <1>1 DEF Sweep, Phases, Ends
<1>3. /\ SeenRight(w, account) /\ ClosedRight(w) /\ Early(w) /\ Ending(w)
      /\ CalledRight(w, docs)
  BY <1>1 DEF Sweep, SweepHolds, SeenRight, ClosedRight, Early, Ending, CalledRight
<1>4. QED
  BY <1>2, <1>3, SweepStep DEF SweepHolds

-----------------------------------------------------------------------------
LEMMA NoSweepType ==
    ASSUME NEW r \in Repo
    PROVE  NoSweep(r) \in Sweep
<1>1. 0 \in 0..MaxVersion /\ Unset \in Output /\ "" \in Text /\ "idle" \in Phases
  BY EscrowAssumption DEF Output, Text, Phases
<1> HIDE DEF Unset, Output, Text, Phases
<1>2. QED
  BY <1>1 DEF NoSweep, Sweep

(* The invariant holds of an account that nobody has spent from.            *)
LEMMA InitHolds == Init => IInv
<1> SUFFICES ASSUME Init
             PROVE  IInv
  OBVIOUS
<1> DEFINE r == CHOOSE r \in Repo : TRUE
<1>1. r \in Repo
  BY EscrowAssumption
<1> HIDE DEF r
<1>2. NoSweep(r) \in Sweep
  BY <1>1, NoSweepType
<1>3. Nowhere(r, Default) \in Deployment
  BY <1>1, EscrowAssumption DEF Nowhere, Deployment, Service
<1>4. account = [l \in Lease |-> Nowhere(r, Default)] /\ sweeps = [s \in Slot |-> NoSweep(r)]
  BY DEF Init, r
<1>5. TypeOK
  BY <1>2, <1>3, <1>4, EscrowAssumption DEF Init, TypeOK
<1>6. Stamped
  BY <1>4 DEF Stamped, Nowhere
<1>7. SweepHolds(NoSweep(r), account, docs)
  BY DEF NoSweep, SweepHolds, SeenRight, ClosedRight, Early, Ending, CalledRight
<1>8. QED
  BY <1>4, <1>5, <1>6, <1>7 DEF IInv

(* What the owners and the clock do to the account.                         *)
LEMMA DeployHolds ==
    ASSUME IInv, NEW l \in Lease, NEW r \in Repo, NEW p \in Prefix, NEW n \in Prefix,
           NEW v \in Service, Deploy(l, r, p, n, v)
    PROVE  IInv'
<1> DEFINE d == [state |-> "open", owner |-> r, stamp |-> p, name |-> n,
                 service |-> v, stale |-> FALSE]
<1>1. account' = [account EXCEPT ![l] = d] /\ account \in [Lease -> Deployment]
  BY DEF Deploy, IInv, TypeOK
<1>2. d \in Deployment
  BY DEF Deployment
<1>3. Kept(account, account') /\ account' \in [Lease -> Deployment]
  BY <1>1, <1>2 DEF Kept, Deploy
<1>4. Stamped'
  BY <1>1 DEF Deploy, Stamped, IInv
<1>5. QED
  BY <1>3, <1>4, AccountStep DEF Deploy, IInv, TypeOK

LEMMA AgeHolds ==
    ASSUME IInv, NEW l \in Lease, GoStale(l) \/ OwnerCloses(l)
    PROVE  IInv'
<1>1. account \in [Lease -> Deployment] /\ account[l].state = "open"
  BY DEF GoStale, OwnerCloses, IInv, TypeOK
<1>2. PICK d \in Deployment :
        /\ account' = [account EXCEPT ![l] = d]
        /\ d.state # "none" /\ d.owner = account[l].owner
        /\ d.stamp = account[l].stamp /\ d.name = account[l].name
        /\ d.service = account[l].service
  <2>1. CASE GoStale(l)
    <3> DEFINE d == [account[l] EXCEPT !.stale = TRUE]
    <3>1. /\ d \in Deployment /\ d.state = "open" /\ d.owner = account[l].owner
          /\ d.stamp = account[l].stamp /\ d.name = account[l].name
          /\ d.service = account[l].service
      BY <1>1 DEF Deployment
    <3>2. account' = [account EXCEPT ![l] = d]
      BY <1>1, <2>1 DEF GoStale, Deployment
    <3>3. QED
      BY <3>1, <3>2
  <2>2. CASE OwnerCloses(l)
    <3> DEFINE d == [account[l] EXCEPT !.state = "closed"]
    <3>1. /\ d \in Deployment /\ d.state = "closed" /\ d.owner = account[l].owner
          /\ d.stamp = account[l].stamp /\ d.name = account[l].name
          /\ d.service = account[l].service
      BY <1>1 DEF Deployment
    <3>2. account' = [account EXCEPT ![l] = d]
      BY <1>1, <2>2 DEF OwnerCloses, Deployment
    <3>3. QED
      BY <3>1, <3>2
  <2>3. QED
    BY <2>1, <2>2
<1>3. Kept(account, account') /\ account' \in [Lease -> Deployment]
  BY <1>1, <1>2 DEF Kept
<1>4. UNCHANGED <<docs, release, sweeps>>
  BY DEF GoStale, OwnerCloses
<1>5. Stamped'
  BY <1>1, <1>2, <1>4 DEF Stamped, IInv
<1>6. QED
  BY <1>3, <1>4, <1>5, AccountStep DEF IInv, TypeOK

LEMMA ReleaseHolds == ASSUME IInv, Release PROVE IInv'
<1>1. release' \in 0..MaxVersion
  BY EscrowAssumption DEF Release, IInv, TypeOK
<1>2. Kept(account, account') /\ Stamped'
  BY DEF Kept, Release, IInv, Stamped
<1>3. QED
  BY <1>1, <1>2, AccountStep DEF Release, IInv, TypeOK

(* The steps of a sweep.                                                    *)
LEMMA ResolvesType ==
    ASSUME TypeOK, NEW ref
    PROVE  Resolves(ref) \in 0..MaxVersion /\ (Pinned(ref) => Resolves(ref) = 0)
BY EscrowAssumption DEF Resolves, Pinned, TypeOK

LEMMA StartHolds ==
    ASSUME IInv, NEW s \in Slot, NEW r \in Repo, NEW e \in Text, NEW o \in Text,
           NEW k \in BOOLEAN, Start(s, r, e, o, k)
    PROVE  IInv'
<1> DEFINE w == [NoSweep(r) EXCEPT !.phase = "install",
                   !.execute = e, !.reap_owned = o, !.key = k,
                   !.prefix = Passed(docs[r]), !.workflow = Resolves(docs[r].ref)]
<1>1. docs[r] \in Doc
  BY EscrowAssumption DEF IInv, TypeOK
<1>2. Passed(docs[r]) \in Prefix \cup {Blank}
  BY <1>1 DEF Passed, Doc, Declared, Start
<1>3. NoSweep(r) \in Sweep
  BY NoSweepType
<1>4. Resolves(docs[r].ref) \in 0..MaxVersion /\ (Pinned(docs[r].ref) => Resolves(docs[r].ref) = 0)
  BY ResolvesType DEF IInv
<1>5. w \in Sweep /\ Sets(s, w)
  BY <1>2, <1>3, <1>4 DEF Sweep, Phases, Start
<1>6. /\ w.phase = "install" /\ w.repo = r /\ w.prefix = Passed(docs[r])
      /\ w.workflow = Resolves(docs[r].ref) /\ w.reader = 0 /\ w.result = "none"
      /\ w.listed = {} /\ w.found = {} /\ w.closed = {}
  BY DEF NoSweep
<1> HIDE DEF w
<1>7. SweepHolds(w, account, docs)
  BY <1>4, <1>6 DEF SweepHolds, SeenRight, ClosedRight, Early, Ending, CalledRight
<1>8. QED
  BY <1>5, <1>7, SweepStep DEF Start

LEMMA InstallHolds ==
    ASSUME IInv, NEW s \in Slot, Install(s)
    PROVE  IInv'
<1> DEFINE ref == docs[sweeps[s].repo].just_akash_ref
           w == [sweeps[s] EXCEPT !.phase = "guards", !.reader = Resolves(ref)]
<1>1. sweeps[s] \in Sweep /\ SweepHolds(sweeps[s], account, docs)
  BY DEF IInv, TypeOK
<1>2. CASE Installs(ref) /\ Sets(s, w)
  <2>1. Resolves(ref) = 0
    BY <1>2 DEF Installs, Resolves
  <2>2. w \in Sweep
    <3>1. Resolves(ref) \in 0..MaxVersion
      BY ResolvesType DEF IInv
    <3>2. QED
      BY <1>1, <3>1 DEF Sweep, Phases
  <2>3. SweepHolds(w, account, docs)
    BY <1>1, <2>1 DEF Sweep, Install, SweepHolds, SeenRight, ClosedRight, Early,
                      Ending, CalledRight
  <2>4. QED
    BY <1>2, <2>2, <2>3, SweepStep DEF Install
<1>3. CASE Ends(s, "red")
  BY <1>3, EndHolds DEF Install
<1>4. QED
  BY <1>2, <1>3 DEF Install

LEMMA GuardsHolds ==
    ASSUME IInv, NEW s \in Slot, Guards(s)
    PROVE  IInv'
<1> DEFINE w == [sweeps[s] EXCEPT !.phase = "classify"]
<1>1. sweeps[s] \in Sweep /\ SweepHolds(sweeps[s], account, docs)
  BY DEF IInv, TypeOK
<1>2. CASE Armed(sweeps[s]) /\ Sets(s, w)
  <2>1. w \in Sweep
    BY <1>1 DEF Sweep, Phases
  <2>2. SweepHolds(w, account, docs)
    BY <1>1, <1>2 DEF Sweep, Guards, Armed, SweepHolds, SeenRight, ClosedRight, Early,
                      Ending, CalledRight
  <2>3. QED
    BY <1>2, <2>1, <2>2, SweepStep DEF Guards
<1>3. CASE Ends(s, "red")
  BY <1>3, EndHolds DEF Guards
<1>4. QED
  BY <1>2, <1>3 DEF Guards

LEMMA ClassifyHolds ==
    ASSUME IInv, NEW s \in Slot, Classify(s)
    PROVE  IInv'
<1> DEFINE listed == {l \in Lease : account[l].state = "open" /\ account[l].stale}
           found == {l \in Lease : Closable(l, sweeps[s])}
           w == [sweeps[s] EXCEPT !.phase = "close", !.listed = listed, !.found = found]
<1>1. sweeps[s] \in Sweep /\ SweepHolds(sweeps[s], account, docs)
  BY DEF IInv, TypeOK
<1>2. w \in Sweep /\ Sets(s, w)
  BY <1>1 DEF Sweep, Phases, Classify
<1>3. /\ w.phase = "close" /\ w.listed = listed /\ w.found = found
      /\ \A f \in {"repo", "execute", "reap_owned", "prefix", "workflow", "reader",
                    "closed", "result", "outClosed", "outStale"} : w[f] = sweeps[s][f]
  BY <1>1 DEF Sweep
<1> HIDE DEF w
<1>4. SeenRight(w, account)
  BY <1>3 DEF SeenRight, Closable
<1>5. w.closed = {} /\ w.result = "none"
  BY <1>1, <1>3 DEF SweepHolds, ClosedRight, Early, Ending, Classify
<1>6. ClosedRight(w) /\ Early(w) /\ Ending(w)
  BY <1>3, <1>5 DEF ClosedRight, Early, Ending
<1>7. CalledRight(w, docs)
  BY <1>1, <1>3, <1>5 DEF SweepHolds, CalledRight, Classify
<1>8. QED
  BY <1>2, <1>4, <1>6, <1>7, SweepStep DEF SweepHolds, Classify

LEMMA CloseHolds ==
    ASSUME IInv, NEW s \in Slot, NEW l \in Lease, CloseLease(s, l)
    PROVE  IInv'
<1>1. sweeps[s] \in Sweep /\ SweepHolds(sweeps[s], account, docs)
  BY DEF IInv, TypeOK
<1> DEFINE d == [account[l] EXCEPT !.state = "closed"]
           more == [sweeps[s] EXCEPT !.tried = @ \cup {l}]
           w == [sweeps[s] EXCEPT !.tried = @ \cup {l}, !.closed = @ \cup {l}]
<1>2. CASE /\ account[l].state = "open" /\ account' = [account EXCEPT ![l].state = "closed"]
           /\ Sets(s, w)
  <2>1. account \in [Lease -> Deployment] /\ sweeps' = [sweeps EXCEPT ![s] = w]
    BY <1>2 DEF IInv, TypeOK, Sets
  <2>2. /\ d \in Deployment /\ d.state = "closed" /\ d.owner = account[l].owner
        /\ d.stamp = account[l].stamp /\ d.name = account[l].name
        /\ d.service = account[l].service
        /\ account' = [account EXCEPT ![l] = d]
    BY <1>2, <2>1 DEF Deployment
  <2>3. Kept(account, account') /\ account' \in [Lease -> Deployment]
    BY <2>1, <2>2 DEF Kept
  <2>4. w \in Sweep
    BY <1>1 DEF Sweep
  <2>5. SweepHolds(w, account, docs)
    BY <1>1 DEF Sweep, CloseLease, SweepHolds, SeenRight, ClosedRight, Early,
                Ending, CalledRight
  <2>6. ASSUME NEW t \in Slot
        PROVE  SweepHolds(sweeps'[t], account', docs')
    <3>1. sweeps'[t] \in Sweep /\ SweepHolds(sweeps'[t], account, docs)
      BY <2>1, <2>4, <2>5 DEF IInv, TypeOK
    <3>2. SweepHolds(sweeps'[t], account', docs)
      BY <2>3, <3>1, SweepKept
    <3>3. QED
      BY <3>2 DEF CloseLease
  <2>7. TypeOK' /\ Stamped'
    BY <2>1, <2>2, <2>3, <2>4 DEF IInv, TypeOK, Stamped, CloseLease
  <2>8. QED
    BY <2>6, <2>7 DEF IInv
<1>3. CASE account[l].state # "open" /\ Sets(s, more) /\ UNCHANGED account
  <2>1. more \in Sweep
    BY <1>1 DEF Sweep
  <2>2. /\ more.phase = sweeps[s].phase /\ more.result = sweeps[s].result
        /\ more.repo = sweeps[s].repo /\ more.execute = sweeps[s].execute
        /\ more.reap_owned = sweeps[s].reap_owned /\ more.prefix = sweeps[s].prefix
        /\ more.workflow = sweeps[s].workflow /\ more.reader = sweeps[s].reader
        /\ more.listed = sweeps[s].listed /\ more.found = sweeps[s].found
        /\ more.closed = sweeps[s].closed /\ more.outClosed = sweeps[s].outClosed
        /\ StaleOutput(more) = StaleOutput(sweeps[s]) /\ more.outStale = sweeps[s].outStale
    BY <1>1 DEF Sweep, StaleOutput
  <2> HIDE DEF more
  <2> sweeps[s].phase = "close"
    BY DEF CloseLease
  <2>3. SweepHolds(more, account, docs)
    BY <1>1, <2>2 DEF SweepHolds, SeenRight, ClosedRight, Early, Ending, CalledRight
  <2>4. QED
    BY <1>3, <2>1, <2>3, SweepStep DEF CloseLease
<1>4. QED
  BY <1>2, <1>3 DEF CloseLease

LEMMA ExitHolds ==
    ASSUME IInv, NEW s \in Slot, ClassifierExits(s)
    PROVE  IInv'
<1>1. sweeps[s] \in Sweep /\ SweepHolds(sweeps[s], account, docs)
  BY DEF IInv, TypeOK
<1>2. sweeps[s].phase \in {"classify", "close"}
  BY DEF ClassifierExits
<1>3. PICK w : /\ Sets(s, w) /\ w \in Sweep /\ w.phase = "outputs"
               /\ \A f \in {"repo", "execute", "reap_owned", "prefix", "workflow", "reader",
                             "listed", "found", "tried", "closed", "result"} :
                    w[f] = sweeps[s][f]
               /\ ~w.died /\ Executes(w.execute) => w.tried = w.found
  <2>1. CASE /\ Executes(sweeps[s].execute) => sweeps[s].tried = sweeps[s].found
             /\ \E verdict, counted \in BOOLEAN :
                   Sets(s, [sweeps[s] EXCEPT !.phase = "outputs",
                               !.verdict = verdict, !.counted = counted])
    <3>1. PICK verdict, counted \in BOOLEAN :
                Sets(s, [sweeps[s] EXCEPT !.phase = "outputs",
                            !.verdict = verdict, !.counted = counted])
      BY <2>1
    <3> DEFINE w == [sweeps[s] EXCEPT !.phase = "outputs",
                        !.verdict = verdict, !.counted = counted]
    <3>2. w \in Sweep
      BY <1>1 DEF Sweep, Phases
    <3>3. /\ w.phase = "outputs"
          /\ \A f \in {"repo", "execute", "reap_owned", "prefix", "workflow", "reader",
                        "listed", "found", "tried", "closed", "result"} :
               w[f] = sweeps[s][f]
          /\ Executes(w.execute) => w.tried = w.found
      BY <1>1, <2>1 DEF Sweep
    <3>4. QED
      BY <3>1, <3>2, <3>3
  <2>2. CASE Sets(s, [sweeps[s] EXCEPT !.phase = "outputs", !.died = TRUE])
    <3> DEFINE w == [sweeps[s] EXCEPT !.phase = "outputs", !.died = TRUE]
    <3>2. w \in Sweep
      BY <1>1 DEF Sweep, Phases
    <3>3. /\ w.phase = "outputs" /\ w.died
          /\ \A f \in {"repo", "execute", "reap_owned", "prefix", "workflow", "reader",
                        "listed", "found", "tried", "closed", "result"} :
               w[f] = sweeps[s][f]
      BY <1>1 DEF Sweep
    <3>4. QED
      BY <2>2, <3>2, <3>3
  <2>3. QED
    BY <2>1, <2>2 DEF ClassifierExits
<1>4. /\ w.repo = sweeps[s].repo /\ w.execute = sweeps[s].execute
      /\ w.reap_owned = sweeps[s].reap_owned /\ w.prefix = sweeps[s].prefix
      /\ w.workflow = sweeps[s].workflow /\ w.reader = sweeps[s].reader
      /\ w.listed = sweeps[s].listed /\ w.found = sweeps[s].found
      /\ w.closed = sweeps[s].closed /\ w.result = sweeps[s].result
  BY <1>1, <1>3 DEF Sweep
<1>5. w.result = "none"
  BY <1>1, <1>2, <1>4 DEF SweepHolds, Ending
<1>6. SeenRight(w, account) /\ ClosedRight(w) /\ Early(w) /\ Ending(w) /\ CalledRight(w, docs)
  BY <1>1, <1>2, <1>3, <1>4, <1>5
     DEF SweepHolds, SeenRight, ClosedRight, Early, Ending, CalledRight
<1>7. QED
  BY <1>3, <1>6, SweepStep DEF SweepHolds, ClassifierExits

(* What is counted is a part of the account.                                *)
LEMMA OutputType ==
    ASSUME NEW w \in Sweep
    PROVE  /\ Number(Cardinality(w.closed)) \in Output /\ StaleOutput(w) \in Output
           /\ StaleOutput(w) = Number(0) => w.found = {}
           /\ ClosedOutput(w) \in Output
<1>1. w.closed \subseteq Lease /\ w.found \subseteq Lease
  BY DEF Sweep
<1>2. /\ IsFiniteSet(w.found) /\ Cardinality(w.found) \in 0..Cardinality(Lease)
      /\ Cardinality(w.closed) \in 0..Cardinality(Lease)
  <2>1. /\ IsFiniteSet(w.found) /\ IsFiniteSet(w.closed)
        /\ Cardinality(w.found) <= Cardinality(Lease)
        /\ Cardinality(w.closed) <= Cardinality(Lease)
    BY <1>1, EscrowAssumption, FS_Subset
  <2>2. /\ Cardinality(w.found) \in Nat /\ Cardinality(w.closed) \in Nat
        /\ Cardinality(Lease) \in Nat
    BY <2>1, EscrowAssumption, FS_CardinalityType
  <2>3. QED
    BY <2>1, <2>2
<1>3. Number(Cardinality(w.closed)) \in Output /\ StaleOutput(w) \in Output
  BY <1>2 DEF Output, StaleOutput
<1>4. StaleOutput(w) = Number(0) => Cardinality(w.found) = 0
  BY DEF StaleOutput, Number, Unknown
<1>5. ClosedOutput(w) \in Output
  <2>1. 0 \in 0..Cardinality(Lease)
    BY EscrowAssumption, FS_CardinalityType
  <2>2. Number(0) \in Output
    BY <2>1 DEF Output
  <2>3. QED
    BY <1>3, <2>2 DEF ClosedOutput
<1>6. QED
  BY <1>2, <1>3, <1>4, <1>5, FS_EmptySet

LEMMA OutputsHolds ==
    ASSUME IInv, NEW s \in Slot, Outputs(s)
    PROVE  IInv'
<1>1. sweeps[s] \in Sweep /\ SweepHolds(sweeps[s], account, docs)
  BY DEF IInv, TypeOK
<1> DEFINE w == [sweeps[s] EXCEPT !.phase = "over", !.result = "green",
                        !.outClosed = ClosedOutput(sweeps[s]),
                        !.outStale = StaleOutput(sweeps[s])]
<1>2. CASE Succeeded(sweeps[s]) /\ Sets(s, w)
  <2>1. Executes(sweeps[s].execute) => sweeps[s].tried = sweeps[s].found
    BY <1>1, <1>2 DEF Succeeded, SweepHolds, Ending, Outputs
  <2>2. ClosedOutput(sweeps[s]) \in Output /\ StaleOutput(sweeps[s]) \in Output
    BY <1>1, OutputType
  <2>3. w \in Sweep
    BY <1>1, <2>2 DEF Sweep, Phases
  <2>4. /\ w.phase = "over" /\ w.result = "green"
        /\ w.outClosed = ClosedOutput(sweeps[s]) /\ w.outStale = StaleOutput(sweeps[s])
        /\ w.repo = sweeps[s].repo /\ w.execute = sweeps[s].execute
        /\ w.reap_owned = sweeps[s].reap_owned /\ w.prefix = sweeps[s].prefix
        /\ w.workflow = sweeps[s].workflow /\ w.reader = sweeps[s].reader
        /\ w.listed = sweeps[s].listed /\ w.found = sweeps[s].found
        /\ w.closed = sweeps[s].closed /\ w.verdict = sweeps[s].verdict
        /\ w.tried = sweeps[s].tried /\ w.counted = sweeps[s].counted
    BY <1>1 DEF Sweep
  <2> HIDE DEF w
  <2>5. StaleOutput(w) = StaleOutput(sweeps[s]) /\ ClosedOutput(w) = ClosedOutput(sweeps[s])
    BY <2>4 DEF StaleOutput, ClosedOutput
  <2>6. SeenRight(w, account) /\ ClosedRight(w) /\ Early(w) /\ Ending(w)
    BY <1>1, <2>1, <2>4, <2>5 DEF SweepHolds, SeenRight, ClosedRight, Early, Ending
  <2>7. CalledRight(w, docs)
    BY <1>1, <2>4 DEF SweepHolds, CalledRight, Outputs
  <2>8. QED
    BY <1>2, <2>3, <2>6, <2>7, SweepStep DEF SweepHolds, Outputs
<1>3. CASE Ends(s, "red")
  BY <1>3, EndHolds DEF Outputs
<1>4. QED
  BY <1>2, <1>3 DEF Outputs

LEMMA NextHolds == IInv /\ [Next]_vars => IInv'
<1> SUFFICES ASSUME IInv, [Next]_vars
             PROVE  IInv'
  OBVIOUS
<1>1. ASSUME NEW l \in Lease, NEW r \in Repo, NEW p \in Prefix, NEW n \in Prefix,
             NEW v \in Service, Deploy(l, r, p, n, v)
      PROVE  IInv'
  BY <1>1, DeployHolds
<1>2. ASSUME NEW l \in Lease, GoStale(l) \/ OwnerCloses(l)
      PROVE  IInv'
  BY <1>2, AgeHolds
<1>3. CASE Release
  BY <1>3, ReleaseHolds
<1>4. ASSUME NEW s \in Slot, NEW r \in Repo, NEW e \in Text, NEW o \in Text,
             NEW k \in BOOLEAN, Start(s, r, e, o, k)
      PROVE  IInv'
  BY <1>4, StartHolds
<1>5. ASSUME NEW s \in Slot, Install(s) \/ Guards(s) \/ Classify(s)
      PROVE  IInv'
  BY <1>5, InstallHolds, GuardsHolds, ClassifyHolds
<1>6. ASSUME NEW s \in Slot, NEW l \in Lease, CloseLease(s, l)
      PROVE  IInv'
  BY <1>6, CloseHolds
<1>7. ASSUME NEW s \in Slot, ClassifierExits(s) \/ Outputs(s)
      PROVE  IInv'
  BY <1>7, ExitHolds, OutputsHolds
<1>8. ASSUME NEW s \in Slot, Cancel(s)
      PROVE  IInv'
  BY <1>8, EndHolds DEF Cancel
<1>9. CASE UNCHANGED vars
  <2>1. TypeOK' /\ Stamped'
    BY <1>9 DEF vars, IInv, TypeOK, Stamped
  <2>2. \A s \in Slot : SweepHolds(sweeps'[s], account', docs')
    BY <1>9 DEF vars, IInv
  <2>3. QED
    BY <2>1, <2>2 DEF IInv
<1>10. QED
  BY <1>1, <1>2, <1>3, <1>4, <1>5, <1>6, <1>7, <1>8, <1>9 DEF Next

(* For every account, every set of repositories and of documents: the       *)
(* deployments, the sweeps and what they say keep their types.              *)
THEOREM TypeCorrect == Spec => []TypeOK
<1>1. IInv => TypeOK
  BY DEF IInv
<1>2. QED
  BY <1>1, InitHolds, NextHolds, PTL DEF Spec

-----------------------------------------------------------------------------
(* For every set of repositories and of stamps: a sweep that closes what is  *)
(* not its caller's has a prefix that begins, or goes on from, a stamp of    *)
(* the owner, whichever sweeps and owners it runs among.                     *)
THEOREM ClosingIsOnesOwn == Spec => []ClosesItsOwn
<1>1. IInv => ClosesItsOwn
  <2> SUFFICES ASSUME IInv, NEW s \in Slot, NEW l \in sweeps[s].closed
               PROVE  \E p \in docs[account[l].owner].stamps : Overlap(sweeps[s].prefix, p)
    BY DEF ClosesItsOwn
  <2> DEFINE p == account[l].stamp
             q == sweeps[s].prefix
             n == account[l].name
  <2>1. sweeps[s] \in Sweep /\ account \in [Lease -> Deployment]
    BY DEF IInv, TypeOK
  <2>2. l \in Lease /\ p \in Prefix /\ n \in Prefix /\ q \in Prefix \cup {Blank}
    BY <2>1 DEF Sweep, Deployment
  <2>3. account[l].state # "none" /\ Carries(n, q) /\ q # Blank
    BY DEF IInv, SweepHolds, SeenRight, ClosedRight
  <2>4. p \in docs[account[l].owner].stamps /\ Carries(n, p)
    BY <2>2, <2>3 DEF IInv, Stamped
  <2>5. <<q, n>> \in Begins /\ <<p, n>> \in Begins
    BY <2>2, <2>3, <2>4, PrefixAssumption DEF Carries
  <2>6. Overlap(q, p)
    BY <2>2, <2>3, <2>5, PrefixAssumption DEF Overlap
  <2>7. QED
    BY <2>4, <2>6
<1>2. QED
  BY <1>1, InitHolds, NextHolds, PTL DEF Spec

(* For every account and every way the classifier stops: a green sweep that  *)
(* closes has been through all it found, 0 closable means that it found      *)
(* none, and the number of the closed is right or its line was absent.       *)
THEOREM GreenSaysWhatWasDone == Spec => []GreenIsSwept
<1>1. IInv => GreenIsSwept
  BY OutputType DEF IInv, TypeOK, SweepHolds, Ending, ClosedOutput, GreenIsSwept
<1>2. QED
  BY <1>1, InitHolds, NextHolds, PTL DEF Spec

-----------------------------------------------------------------------------
(* A caller that passes is pinned, and passes a prefix that begins one of   *)
(* its repository's stamps or is none.                                      *)
LEMMA AdopterPasses ==
    ASSUME NEW doc \in Doc, Audit(doc) = "ok", ~doc.ships
    PROVE  /\ Pinned(doc.ref)
           /\ Evident(doc) /\ Passed(doc) # Blank =>
                  \E p \in doc.stamps : <<Passed(doc), p>> \in Begins
<1>1. Findings(doc) = {}
  BY DEF Audit
<1>2. "not_adopted" \notin Findings(doc) /\ "no_prefix" \notin Findings(doc)
      /\ "nowhere_else" \notin Findings(doc) /\ "not_pinned" \notin Findings(doc)
  BY <1>1
<1>3. Adopts(doc) /\ doc.declared # "none" /\ Elsewhere(doc) /\ Pinned(doc.ref)
  BY <1>2 DEF Findings
<1>4. ASSUME Evident(doc), Passed(doc) # Blank
      PROVE  \E p \in doc.stamps : <<Passed(doc), p>> \in Begins
  <2>1. doc.declared \in doc.mentions /\ doc.declared # "expression"
    BY <1>3, <1>4 DEF Elsewhere, Evident
  <2>2. doc.declared # "next_line" /\ Passed(doc) = doc.declared
    BY <1>4, <2>1 DEF Passed
  <2>3. doc.declared \in Prefix
    BY <1>3, <2>1, <2>2 DEF Doc, Declared
  <2>4. QED
    BY <1>4, <2>1, <2>2, <2>3 DEF Evident
<1>5. QED
  BY <1>3, <1>4

(* For every set of repositories, of documents and of releases: a sweep of  *)
(* a repository that passes the rule runs the reaper and the classifier it  *)
(* was written against, and if its evidence is worth something and there    *)
(* is one stamp, a green 0 overlooks no stale runner of the repository.     *)
THEOREM AdoptionIsWorthSomething == Spec => []AdoptionHolds
<1>1. IInv => AdoptionHolds
  <2> SUFFICES ASSUME IInv, NEW s \in Slot, Adopter(sweeps[s].repo)
               PROVE  LET w == sweeps[s] IN
                      /\ w.phase \in {"classify", "close", "outputs"} =>
                            w.workflow = 0 /\ w.reader = 0
                      /\ (/\ w.result = "green" /\ w.outStale = Number(0)
                          /\ Evident(docs[w.repo]) /\ \E p \in Prefix : docs[w.repo].stamps = {p})
                         => \A l \in w.listed :
                              ~(account[l].owner = w.repo /\ account[l].service = "runner")
    BY DEF AdoptionHolds
  <2> DEFINE w == sweeps[s]
             doc == docs[sweeps[s].repo]
  <2>1. w \in Sweep /\ SweepHolds(w, account, docs)
    BY DEF IInv, TypeOK
  <2>2. doc \in Doc
    BY <2>1, EscrowAssumption DEF IInv, TypeOK, Sweep
  <2>3. /\ Pinned(doc.ref)
        /\ Evident(doc) /\ Passed(doc) # Blank =>
               \E p \in doc.stamps : <<Passed(doc), p>> \in Begins
    BY <2>2, AdopterPasses DEF Adopter
  <2>4. w.phase \in {"classify", "close", "outputs"} => w.workflow = 0 /\ w.reader = 0
    BY <2>1, <2>3 DEF SweepHolds, CalledRight
  <2>5. ASSUME w.result = "green", w.outStale = Number(0), Evident(doc),
               NEW p \in Prefix, doc.stamps = {p}, NEW l \in w.listed,
               account[l].owner = w.repo, account[l].service = "runner"
        PROVE  FALSE
    <3>1. w.found = {}
      BY <2>1, <2>5, OutputType DEF SweepHolds, Ending
    <3>2. w.prefix = Passed(doc) /\ w.prefix # Blank
      BY <2>1, <2>5 DEF SweepHolds, CalledRight
    <3>3. <<w.prefix, p>> \in Begins
      BY <2>3, <2>5, <3>2
    <3>4. account[l].state # "none" /\ l \in Lease
      BY <2>1 DEF SweepHolds, SeenRight, Sweep
    <3>5. Carries(account[l].name, p)
      BY <2>5, <3>4 DEF IInv, Stamped
    <3>6. Carries(account[l].name, w.prefix)
      <4>1. account[l].name \in Prefix
        BY <3>4 DEF IInv, TypeOK, Deployment
      <4>2. QED
        BY <3>3, <3>5, <4>1, PrefixAssumption DEF Carries
    <3>7. l \in w.found
      BY <2>1, <2>5, <3>6 DEF SweepHolds, SeenRight
    <3>8. QED
      BY <3>1, <3>7
  <2>6. QED
    BY <2>4, <2>5
<1>2. QED
  BY <1>1, InitHolds, NextHolds, PTL DEF Spec
=============================================================================
