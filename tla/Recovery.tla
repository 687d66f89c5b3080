------------------------------ MODULE Recovery ------------------------------
(***************************************************************************)
(* Confirmed, single-use recovery plans, recovery.py over                  *)
(* wrf_recovery_plans.  A plan is executed under the task's operation lock *)
(* after a second look, which finds the row as the plan's fingerprint has  *)
(* it, and a claim in one transaction.  The claim outlives the process:    *)
(* nothing settles a plan that was executing when the API died.            *)
(*                                                                         *)
(* Making a plan changes nothing, and at its execution its fingerprint is  *)
(* that of the row.  So a plan is kept from its claim on, under the        *)
(* fingerprint it was claimed for, of which claim_recovery allows one.     *)
(* What a diagnosis allows is left open: a plan the model does not execute *)
(* is one that the evidence, its ten minutes or its actor refused.         *)
(***************************************************************************)
EXTENDS TaskRecord

VARIABLES
    claims,    \* wrf_recovery_plans that have been claimed: status by fingerprint
    acting     \* the operation of a claimed plan that is running

recovery == <<claims, acting>>

\* The fingerprint leaves runtime and result out.
Fingerprint == <<row.attempt, row.status, row.failure>>
Fingerprints == (1..MaxAttempts) \X Terminal \X Failures
NoAct == [key |-> <<>>, action |-> "none"]

RecoveryTypeOK ==
    /\ claims \in [Fingerprints -> {"none", "executing", "accepted", "unknown"}]
    /\ acting \in {NoAct} \cup [key : Fingerprints, action : {"restart", "resume"}]

RecoveryInit ==
    /\ claims = [k \in Fingerprints |-> "none"]
    /\ acting = NoAct

\* execute: take the lock, look again, claim; once for a state of the task
\* (claim_recovery).
ExecuteRepair(action) ==
    /\ Unlocked /\ Idle
    /\ row.status \in {"failed", "cancelled"} /\ (action = "resume" => row.status = "failed")
    /\ claims[Fingerprint] = "none"
    /\ claims' = [claims EXCEPT ![Fingerprint] = "executing"]
    /\ acting' = [key |-> Fingerprint, action |-> action] /\ lock' = "repair"
    /\ UNCHANGED <<row, worker, place, trash, catalog, tombstone>>

\* The operation runs; how it ended is the plan's last status.
FinishRepair ==
    /\ lock = "repair"
    /\ \/ /\ IF acting.action = "restart" THEN RestartTask ELSE Resume
          /\ claims' = [claims EXCEPT ![acting.key] = "accepted"]
       \/ /\ RestartBreaks \/ UNCHANGED <<row, worker, place, trash, catalog, tombstone>>
          /\ claims' = [claims EXCEPT ![acting.key] = "unknown"]
    /\ lock' = "none" /\ acting' = NoAct

\* Mutant of RecoveryRestarts: a claim nobody acts on any more is given up.
ReleasesClaims ==
    /\ claims' = [k \in Fingerprints |-> IF claims[k] = "executing" THEN "none" ELSE claims[k]]
    /\ acting' = NoAct

RecoveryRestarts ==
    /\ claims' = claims
    /\ acting' = NoAct

Recover == ExecuteRepair("restart") \/ ExecuteRepair("resume") \/ FinishRepair
=============================================================================
