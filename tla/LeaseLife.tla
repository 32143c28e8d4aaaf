------------------------------ MODULE LeaseLife ------------------------------
(***************************************************************************)
(* A lease from beginning to end: what Provision creates is the container  *)
(* of RunnerPump, which works until whoever provisioned it is gone, and is *)
(* then what CleanupRun has to find and close.                             *)
(***************************************************************************)
EXTENDS Provision, RunnerPump, CleanupRun

leaseVars == <<provisionVars, vars, cleanupVars>>

LeaseInit == ProvisionInit /\ Init /\ CleanupInit

Provisions == ProvisionNext /\ UNCHANGED <<vars, cleanupVars>>

(* The manifest of the new lease is sent; how it was come by is forgotten.   *)
HandOver ==
    /\ prov.at = "created"
    /\ prov' = [NotYetProvisioned EXCEPT !.at = "deployed"]
    /\ plan' = NoPlan /\ level' = Deposits
    /\ room' = [p \in Provider |-> "node"]
    /\ UNCHANGED <<vars, cleanupVars>>

(* The run that provisioned the lease ends without closing it ...           *)
Abandon ==
    /\ box.state \notin {"none", "control", "closed", "abandoned"}
    /\ box' = [state |-> "abandoned"] /\ gate' = "gone"
    /\ file' = NoFile /\ passed' = {}
    /\ latest' = LastVersion /\ served' = LastVersion
    /\ UNCHANGED <<provisionVars, cleanupVars>>

(* ... and what is left is a name: of what it was deployed from a clean-up  *)
(* knows nothing.                                                           *)
Forget ==
    /\ box.state = "abandoned" /\ orphan = "none"
    /\ \E f \in Flows : Leave(f)
    /\ UNCHANGED <<provisionVars, vars>>

Works ==
    /\ prov.at = "deployed" /\ box.state # "abandoned" /\ orphan = "none"
    /\ Next
    /\ UNCHANGED <<provisionVars, cleanupVars>>

CleansUp ==
    /\ \/ \E by \in {"schedule", "dispatch"}, value \in BOOLEAN : Start(by, value)
       \/ CleanupStep
    /\ box' = IF orphan' = "gone" THEN [state |-> "closed"] ELSE box
    /\ UNCHANGED <<provisionVars, latest, served, file, passed, gate>>

LeaseNext == Provisions \/ HandOver \/ Works \/ Abandon \/ Forget \/ CleansUp

(* The fairness of the two parts: nobody has to abandon anything.           *)
LeaseSpec ==
    /\ LeaseInit /\ [][LeaseNext]_leaseVars
    /\ WF_vars(Register) /\ WF_vars(Update) /\ WF_vars(Refused)
    /\ WF_vars(Restart) /\ WF_vars(ReadVersions)
    /\ CleanupFairness
=============================================================================
