----------------------------- MODULE OrgRunners -----------------------------
(***************************************************************************)
(* The GitHub side of the runner lifecycle, as the reapers of this         *)
(* repository use it: the organisation's list of self-hosted runner        *)
(* registrations, the core REST budget every caller of the API shares, and *)
(* the answers `gh api` can give.  None of it is code of this repository:  *)
(* it is the environment the reaper modules run against, and it moves on   *)
(* its own between any two of their steps.                                 *)
(***************************************************************************)
EXTENDS Naturals, FiniteSets

CONSTANTS
    Reg,         \* registration ids; GitHub hands them out in increasing order
    PageSize,    \* registrations per listing page (per_page=100)
    MaxCore,     \* core REST budget of one rate-limit window
    FailedRead   \* what a failed `gh api` may leave on stdout

ASSUME OrgAssumption ==
    /\ Reg \subseteq Nat
    /\ IsFiniteSet(Reg)
    /\ PageSize \in Nat \ {0}
    /\ MaxCore \in Nat
    /\ FailedRead \in (SUBSET {"silent", "text"}) \ {{}}

VARIABLES
    state,       \* state[n]: where registration n is in its life
    core         \* core REST calls left in this window

orgVars == <<state, core>>

(* "offline" is `status=="offline" and busy==false`; "lost" is a runner     *)
(* that went offline while GitHub still counts it busy.                     *)
RegState == {"none", "offline", "idle", "busy", "lost", "gone"}

OrgTypeOK ==
    /\ state \in [Reg -> RegState]
    /\ core \in 0..MaxCore

(* A run starts at any point of an organisation's life.                     *)
OrgInit ==
    /\ state \in [Reg -> {"none", "offline", "idle"}]
    /\ \A m, n \in Reg : m < n /\ state[m] = "none" => state[n] = "none"
    /\ core \in {0, MaxCore}

-----------------------------------------------------------------------------
(* What the API answers.                                                    *)

Listed == {n \in Reg : state[n] \notin {"none", "gone"}}

OfflineIdle(n) == state[n] = "offline"

(* Page k of the listing: offset pagination over the ids, ascending.        *)
Page(k) ==
    {n \in Listed :
        LET rank == Cardinality({m \in Listed : m <= n})
        IN  PageSize * (k - 1) < rank /\ rank <= PageSize * k}

IsLastPage(k) == Cardinality(Listed) <= PageSize * k

(* Every REST call but the rate_limit read costs one call of the window.    *)
Spend == core' = IF core = 0 THEN 0 ELSE core - 1

(* Reading one number: the number, nothing (a transport failure), or the    *)
(* error body that `gh api` writes to stdout on a 403 or 404.               *)
Answers == {"number"} \cup FailedRead

-----------------------------------------------------------------------------
(* What happens to a registration without any reaper.                       *)

Becomes(n, from, to) ==
    /\ state[n] \in from
    /\ state' = [state EXCEPT ![n] = to]
    /\ UNCHANGED core

(* config.sh: the registration exists before its runner first connects.     *)
Register(n) ==
    /\ \A m \in Reg : m < n => state[m] # "none"
    /\ Becomes(n, {"none"}, "offline")

Connect(n)    == Becomes(n, {"offline"}, "idle") \/ Becomes(n, {"lost"}, "busy")
Disconnect(n) == Becomes(n, {"idle"}, "offline") \/ Becomes(n, {"busy"}, "lost")
TakeJob(n)    == Becomes(n, {"idle"}, "busy")
FinishJob(n)  == Becomes(n, {"busy"}, "idle")
ExpireJob(n)  == Becomes(n, {"lost"}, "offline")

(* An ephemeral runner, a teardown or GitHub itself removes it.             *)
Deregister(n) == Becomes(n, RegState \ {"none", "gone"}, "gone")

(* The provisioner polls with the same token.                               *)
ProvisionerPoll ==
    /\ core > 0
    /\ Spend
    /\ UNCHANGED state

WindowReset ==
    /\ core < MaxCore
    /\ core' = MaxCore
    /\ UNCHANGED state

RunnerMoves ==
    \E n \in Reg :
        \/ Register(n)
        \/ Connect(n)
        \/ Disconnect(n)
        \/ TakeJob(n)
        \/ FinishJob(n)
        \/ ExpireJob(n)
        \/ Deregister(n)

OrgStep == RunnerMoves \/ ProvisionerPoll \/ WindowReset
=============================================================================
