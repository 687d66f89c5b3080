---------------------------- MODULE TaskDeletion ----------------------------
(***************************************************************************)
(* The deletion of a task, task_deletion.py, with its queue                *)
(* (deletion_queue.py), its quarantine (directory_delete.py) and its       *)
(* transactions (database.py), against the recovery and the worker of the  *)
(* same task.                                                              *)
(*                                                                         *)
(* A plan is an inventory.  Its execution checks the inventory again,      *)
(* claims the task by a tombstone, retires the product in the catalogue,   *)
(* records the moves it intends, renames every directory into .wrf-trash,  *)
(* deletes catalogue entries and rows, and leaves the quarantine to a      *)
(* second worker.  Whatever fails after the claim leaves the plan          *)
(* "unknown"; only an explicit reconciliation, which must prove that       *)
(* nothing was moved, lets it go on.  A rename ordered over SSH may happen *)
(* after the caller gave up on it.                                         *)
(*                                                                         *)
(* An inventory is one step: nothing rests on its reads being of one       *)
(* moment, as each later step looks again at what it changes.  A plan is   *)
(* executed only if a second inventory equals its first, so the model      *)
(* keeps the second; where the code compares revisions or the ten minutes  *)
(* of a preview and refuses, the model may refuse.  The file-by-file       *)
(* transactions of older plans are not modelled.                           *)
(***************************************************************************)
EXTENDS Recovery, Sequences

CONSTANTS Owner,       \* [Plans -> actor]
          MaxQueue,    \* the queue holds this many plans (8)
          MaxReboots   \* bound on restarts of the API

ASSUME DeletionAssumption == MaxQueue \in Nat \ {0} /\ MaxReboots \in Nat

VARIABLES
    plan,       \* wrf_task_deletion_plans
    queue,      \* _order of the queue, its head the job being run
    job,        \* what the deletion worker and a request thread are doing
    cleaning,   \* plans whose quarantine the cleanup worker has been given
    late,       \* plans whose remote rename is still on its way
    overtaken,  \* history: did a claim find the task's worker thread alive?
    reboots

deletion == <<plan, queue, job, cleaning, late, overtaken>>
vars == <<record, recovery, deletion, reboots>>

Executors == {"worker", "request"}
\* The directories in the order they are moved: the host's first.
Moves == <<"remote", "run", "product">>
Jobs == [plan : Plans, kind : {"prepare", "execute", "reconcile"}]
Claimed == {"revoke", "intend"} \cup Dirs \cup {"catalog", "purge"}
Pcs == {"idle", "inventory", "lock", "check", "claim", "prove", "finish"} \cup Claimed
NoJob == [plan |-> None, kind |-> "none", pc |-> "idle"]

\* The inventory: the row's revision, the directories and the catalogue.
Revision == <<row.attempt, row.status, row.version>>
Inventory == [revision |-> Revision, dirs |-> place, catalog |-> catalog]
NoManifest == [revision |-> <<>>, dirs |-> [d \in Dirs |-> 0], catalog |-> "none"]
Manifest == {NoManifest} \cup
    [revision : (1..MaxAttempts) \X Terminal \X Versions, dirs : Places,
     catalog : {"none", "live", "retired"}]

Unmade == [status |-> "none", requested |-> FALSE, manifest |-> NoManifest, intent |-> FALSE,
           cleanup |-> "none"]

Plan == [status : {"none", "checking", "pending", "executing", "unknown", "blocked", "complete"},
         requested : BOOLEAN, manifest : Manifest, intent : BOOLEAN,
         cleanup : {"none", "pending", "running", "complete", "unknown"}]
\* purge_deleted_task has set removed, and cleanup_status with it.
Removed(p) == plan[p].cleanup # "none"

\* Every variable has its type.
TypeOK ==
    /\ RecordTypeOK /\ RecoveryTypeOK
    /\ plan \in [Plans -> Plan]
    /\ queue \in Seq(Jobs) /\ Len(queue) <= MaxQueue
    /\ job \in [Executors -> [plan : Plans \cup {None}, kind : {"none", "prepare", "execute", "reconcile"},
                              pc : Pcs]]
    /\ cleaning \subseteq Plans /\ late \subseteq Plans /\ overtaken \in BOOLEAN /\ reboots \in 0..MaxReboots

Init ==
    /\ RecordInit /\ RecoveryInit
    /\ plan = [p \in Plans |-> Unmade]
    /\ queue = <<>> /\ job = [e \in Executors |-> NoJob]
    /\ cleaning = {} /\ late = {} /\ overtaken = FALSE /\ reboots = 0

-----------------------------------------------------------------------------
(* Requests *)

\* submit: a plan already in the queue is passed over without a word.
Queued(p) == \E i \in DOMAIN queue : queue[i].plan = p
\* Mutant of QueueFull: the queue has no bound.
NeverFull(p) == FALSE
QueueFull(p) == ~Queued(p) /\ Len(queue) = MaxQueue
Enqueue(p, kind) ==
    queue' = IF Queued(p) THEN queue ELSE Append(queue, [plan |-> p, kind |-> kind])

\* plan: an inventory at once.
MakePlan(p) ==
    /\ plan[p].status = "none" /\ row.status \in Terminal
    /\ plan' = [plan EXCEPT ![p].status = "pending"]
    /\ UNCHANGED <<record, recovery, queue, job, cleaning, late, overtaken>>

\* plan_async: while a deletion of the task is under way, an actor gets back
\* the plan of it that is theirs.
MakePlanAsync(p) ==
    /\ plan[p].status = "none" /\ row.status \in Terminal
    /\ ~ \E q \in Plans : Owner[q] = Owner[p] /\ plan[q].status \in {"executing", "unknown"} /\ Blocked
    /\ IF QueueFull(p)
       THEN plan' = [plan EXCEPT ![p].status = "blocked"] /\ queue' = queue
       ELSE plan' = [plan EXCEPT ![p].status = "checking"] /\ Enqueue(p, "prepare")
    /\ UNCHANGED <<record, recovery, job, cleaning, late, overtaken>>

\* execute_async, from its own route or from plan_async, which promotes a
\* pending preview to a delete-now request.
ExecuteAsync(p) ==
    /\ plan[p].status = "pending" /\ ~plan[p].requested /\ ~QueueFull(p)
    /\ plan' = [plan EXCEPT ![p].requested = TRUE] /\ Enqueue(p, "execute")
    /\ UNCHANGED <<record, recovery, job, cleaning, late, overtaken>>

\* execute in the request thread.
Execute(p) ==
    /\ plan[p].status = "pending" /\ ~plan[p].requested
    /\ Unlocked /\ job["request"] = NoJob
    /\ job' = [job EXCEPT !["request"] = [plan |-> p, kind |-> "execute", pc |-> "check"]]
    /\ lock' = "request"
    /\ UNCHANGED <<row, worker, place, trash, catalog, tombstone, recovery, plan, queue, cleaning, late, overtaken>>

\* directory_delete.location
Unmoved(p, d) == place[d] = plan[p].manifest.dirs[d] /\ trash[p][d] = 0

\* catalog_snapshot: the entry a revocation leaves of the one on the list.
Retired(entry) == IF entry = "none" THEN "none" ELSE "retired"

\* _directory_reconciliation_proof: every directory is where it was, the task
\* and the retired product are as the claim left them.
Proven(p) ==
    /\ tombstone = [plan |-> p, status |-> "deleting"]
    /\ ~Removed(p) /\ plan[p].intent
    /\ \A d \in Dirs : Unmoved(p, d)
    /\ Revision = plan[p].manifest.revision
    /\ catalog = Retired(plan[p].manifest.catalog)

\* reconcile and reserve_directory_reconciliation
Reconcile(p) ==
    /\ plan[p].status = "unknown" /\ Unlocked /\ Proven(p) /\ ~QueueFull(p)
    /\ plan' = [plan EXCEPT ![p].status = "executing"] /\ Enqueue(p, "reconcile")
    /\ UNCHANGED <<record, recovery, job, cleaning, late, overtaken>>

-----------------------------------------------------------------------------
(* Jobs *)

Advance(e, pc) == job' = [job EXCEPT ![e].pc = pc]
\* The end of the work: the lock is let go, a job is still in _order.
Leave(e) ==
    /\ lock' = IF lock = e THEN "none" ELSE lock
    /\ job' = [job EXCEPT ![e] = IF e = "worker" THEN [@ EXCEPT !.pc = "finish"] ELSE NoJob]

StartJob ==
    /\ queue # <<>> /\ job["worker"] = NoJob
    /\ job' = [job EXCEPT !["worker"] =
                  [plan |-> Head(queue).plan, kind |-> Head(queue).kind,
                   pc |-> IF Head(queue).kind = "prepare" THEN "inventory" ELSE "lock"]]
    /\ UNCHANGED <<record, recovery, plan, queue, cleaning, late, overtaken>>

\* prepare: the preview is there; a delete-now plan reserves its execution
\* (reserve_deletion_execution) unless a request has just done so.
TakeInventory(p) ==
    /\ job["worker"] = [plan |-> p, kind |-> "prepare", pc |-> "inventory"]
    /\ row.status \in Terminal
    /\ \E now \in BOOLEAN :
          /\ plan' = [plan EXCEPT ![p].status = "pending", ![p].requested = now]
          /\ Advance("worker", IF now THEN "lock" ELSE "finish")
    /\ UNCHANGED <<record, recovery, queue, cleaning, late, overtaken>>

TakeLock ==
    /\ job["worker"].pc = "lock" /\ Unlocked
    /\ lock' = "worker"
    /\ Advance("worker", IF job["worker"].kind = "reconcile" THEN "prove" ELSE "check")
    /\ UNCHANGED <<row, worker, place, trash, catalog, tombstone, recovery, plan, queue, cleaning, late, overtaken>>

\* execute: the plan still stands, and so does what it was made of.
CheckAgain(e, p) ==
    /\ job[e].plan = p /\ job[e].pc = "check"
    /\ plan[p].status = "pending" /\ row.status \in Terminal
    /\ plan' = [plan EXCEPT ![p].manifest = Inventory]
    /\ Advance(e, "claim")
    /\ UNCHANGED <<record, recovery, queue, cleaning, late, overtaken>>

\* Mutant of ClaimDeletion: a tombstone another plan has set is taken over.
ClaimsAnyway(e, p) ==
    /\ job[e].plan = p /\ job[e].pc = "claim"
    /\ plan[p].status = "pending" /\ row.status \in Terminal
    /\ Revision = plan[p].manifest.revision
    /\ \A k \in Fingerprints : claims[k] \notin {"executing", "unknown"}
    /\ tombstone' = [plan |-> p, status |-> "deleting"]
    /\ plan' = [plan EXCEPT ![p].status = "executing"] /\ Advance(e, "revoke")
    /\ overtaken' = (thread # "none")
    /\ UNCHANGED <<row, worker, place, trash, catalog, lock, recovery, queue, cleaning, late>>

\* claim_deletion
ClaimDeletion(e, p) ==
    /\ job[e].plan = p /\ job[e].pc = "claim"
    /\ plan[p].status = "pending" /\ row.status \in Terminal /\ ~Blocked
    /\ Revision = plan[p].manifest.revision
    /\ \A k \in Fingerprints : claims[k] \notin {"executing", "unknown"}
    /\ tombstone' = [plan |-> p, status |-> "deleting"]
    /\ plan' = [plan EXCEPT ![p].status = "executing"] /\ Advance(e, "revoke")
    /\ overtaken' = (thread # "none")
    /\ UNCHANGED <<row, worker, place, trash, catalog, lock, recovery, queue, cleaning, late>>

\* Mutant of Revoke: the product is left in the catalogue until it is purged.
RevokesLater(e, p) ==
    /\ job[e].plan = p /\ job[e].pc = "revoke" /\ catalog = plan[p].manifest.catalog
    /\ Advance(e, "intend")
    /\ UNCHANGED <<record, recovery, plan, queue, cleaning, late, overtaken>>

\* catalog_snapshot(revoke): the catalogue must be what the manifest says.
Revoke(e, p) ==
    /\ job[e].plan = p /\ job[e].pc = "revoke" /\ catalog = plan[p].manifest.catalog
    /\ catalog' = Retired(catalog)
    /\ Advance(e, "intend")
    /\ UNCHANGED <<row, worker, place, trash, tombstone, lock, recovery, plan, queue, cleaning, late, overtaken>>

\* The reconciliation's job proves the same again, now under the lock.
ProveAgain(p) ==
    /\ job["worker"].plan = p /\ job["worker"].pc = "prove" /\ Proven(p)
    /\ Advance("worker", "intend")
    /\ UNCHANGED <<record, recovery, plan, queue, cleaning, late, overtaken>>

\* _quarantine_assets: the moves are on record before the first of them.
RecordIntent(e, p) ==
    /\ job[e].plan = p /\ job[e].pc = "intend"
    /\ plan' = [plan EXCEPT ![p].status = "executing", ![p].intent = TRUE]
    /\ Advance(e, Head(Moves))
    /\ UNCHANGED <<record, recovery, queue, cleaning, late, overtaken>>

\* directory_delete.quarantine: a rename of the very directory on record.
\* Mutant of Movable: what is found at the path is moved, whatever its identity.
AnyDirectory(p, d) == trash[p][d] = 0
Movable(p, d) == Unmoved(p, d)
Move(p, d) ==
    /\ place' = [place EXCEPT ![d] = 0]
    /\ trash' = [trash EXCEPT ![p][d] = place[d]]

\* Mutant of QuarantineNext: a directory that is not found is taken for moved.
SkipsMissing(e, p) ==
    \E i \in DOMAIN Moves :
        /\ job[e].plan = p /\ job[e].pc = Moves[i]
        /\ IF Movable(p, Moves[i]) THEN Move(p, Moves[i]) ELSE UNCHANGED <<place, trash>>
        /\ Advance(e, IF i = Len(Moves) THEN "catalog" ELSE Moves[i + 1])
        /\ UNCHANGED <<row, worker, catalog, tombstone, lock, recovery, plan, queue, cleaning, late, overtaken>>

QuarantineNext(e, p) ==
    \E i \in DOMAIN Moves :
        /\ job[e].plan = p /\ job[e].pc = Moves[i] /\ Movable(p, Moves[i])
        /\ Move(p, Moves[i])
        /\ Advance(e, IF i = Len(Moves) THEN "catalog" ELSE Moves[i + 1])
        /\ UNCHANGED <<row, worker, catalog, tombstone, lock, recovery, plan, queue, cleaning, late, overtaken>>

\* catalog_snapshot(purge): only what this deletion has retired.
PurgeCatalog(e, p) ==
    /\ job[e].plan = p /\ job[e].pc = "catalog"
    /\ catalog = Retired(plan[p].manifest.catalog)
    /\ catalog' = "none"
    /\ Advance(e, "purge")
    /\ UNCHANGED <<row, worker, place, trash, tombstone, lock, recovery, plan, queue, cleaning, late, overtaken>>

\* purge_deleted_task: one transaction, then the quarantine may be emptied.
PurgeRow(e, p) ==
    /\ job[e].plan = p /\ job[e].pc = "purge"
    /\ tombstone = [plan |-> p, status |-> "deleting"]
    /\ row' = [row EXCEPT !.status = "absent"]
    /\ claims' = [k \in Fingerprints |-> "none"]
    /\ tombstone' = [tombstone EXCEPT !.status = "deleted"]
    /\ plan' = [plan EXCEPT ![p].cleanup = "pending"] /\ cleaning' = cleaning \cup {p}
    /\ Leave(e)
    /\ UNCHANGED <<worker, place, trash, catalog, acting, queue, late, overtaken>>

\* An exception.  After the claim the plan is unknown; before it the request
\* only says so, and the worker calls the plan blocked, or unknown if any
\* deletion of the task has begun.  A remote rename may be under way.
FailJob(e, p) ==
    /\ job[e].plan = p /\ job[e].pc \notin {"idle", "lock", "finish"}
    /\ IF job[e].pc \in Claimed \/ (e = "worker" /\ Blocked) THEN plan' = [plan EXCEPT ![p].status = "unknown"]
       ELSE IF e = "worker" THEN plan' = [plan EXCEPT ![p].status = "blocked"] ELSE plan' = plan
    /\ late' \in IF job[e].pc = "remote" THEN {late, late \cup {p}} ELSE {late}
    /\ Leave(e)
    /\ UNCHANGED <<row, worker, place, trash, catalog, tombstone, recovery, queue, cleaning, overtaken>>

\* The job leaves _order.
EndJob ==
    /\ job["worker"].pc = "finish"
    /\ job' = [job EXCEPT !["worker"] = NoJob] /\ queue' = Tail(queue)
    /\ UNCHANGED <<record, recovery, plan, cleaning, late, overtaken>>

\* The host runs the rename nobody waits for any more.
LateRename(p) ==
    /\ p \in late /\ late' = late \ {p}
    /\ IF Movable(p, "remote") THEN Move(p, "remote") ELSE UNCHANGED <<place, trash>>
    /\ UNCHANGED <<row, worker, catalog, tombstone, lock, recovery, plan, queue, job, cleaning, overtaken>>

\* cleanup_submit: the cleanup worker takes the plan up.
StartCleanup(p) ==
    /\ p \in cleaning /\ plan[p].cleanup = "pending"
    /\ plan' = [plan EXCEPT ![p].cleanup = "running"]
    /\ UNCHANGED <<record, recovery, queue, job, cleaning, late, overtaken>>

\* directory_delete.purge, directory by directory.
Emptied(p, n) ==
    [trash EXCEPT ![p] = [d \in Dirs |-> IF \E i \in 1..n : Moves[i] = d THEN 0 ELSE @[d]]]

\* _purge_quarantine: from the host on, all of it or a part.
Cleanup(p) ==
    /\ p \in cleaning /\ plan[p].cleanup = "running"
    /\ cleaning' = cleaning \ {p}
    /\ \E n \in 0..Len(Moves) :
          /\ trash' = Emptied(p, n)
          /\ LET end == IF n = Len(Moves) THEN "complete" ELSE "unknown"
             IN  plan' = [plan EXCEPT ![p].cleanup = end, ![p].status = end]
    /\ UNCHANGED <<row, worker, place, catalog, tombstone, lock, recovery, queue, job, late, overtaken>>

\* recover_interrupted_operations: nothing is taken up again.
Interrupted(q) ==
    IF q.status = "executing" THEN [q EXCEPT !.status = "unknown"]
    ELSE IF q.status = "checking" \/ (q.status = "pending" /\ q.requested) THEN [q EXCEPT !.status = "blocked"]
    ELSE q

Reboot ==
    /\ reboots < MaxReboots /\ reboots' = reboots + 1
    /\ RecordRestarts /\ RecoveryRestarts
    /\ plan' = [p \in Plans |-> Interrupted(plan[p])]
    /\ queue' = <<>> /\ job' = [e \in Executors |-> NoJob] /\ cleaning' = {}
    /\ UNCHANGED <<late, overtaken>>

-----------------------------------------------------------------------------
Requests(p) == MakePlan(p) \/ MakePlanAsync(p) \/ ExecuteAsync(p) \/ Execute(p) \/ Reconcile(p)

JobStep(e) ==
    \/ \E p \in Plans :
          \/ e = "worker" /\ (TakeInventory(p) \/ ProveAgain(p))
          \/ CheckAgain(e, p) \/ ClaimDeletion(e, p) \/ Revoke(e, p) \/ RecordIntent(e, p)
          \/ QuarantineNext(e, p) \/ PurgeCatalog(e, p) \/ PurgeRow(e, p) \/ FailJob(e, p)
    \/ e = "worker" /\ (StartJob \/ TakeLock \/ EndJob)

Cleaner == \E p \in Plans : StartCleanup(p) \/ Cleanup(p)

TaskSteps == (Worker \/ Cancel \/ CancellationObserved \/ RetryPublish \/ DirectRecovery)
             /\ UNCHANGED <<recovery, deletion>>

Next == \/ ( \/ TaskSteps
             \/ Recover /\ UNCHANGED deletion
             \/ \E p \in Plans : Requests(p) \/ LateRename(p)
             \/ (\E e \in Executors : JobStep(e)) \/ Cleaner ) /\ reboots' = reboots
        \/ Reboot

Spec == Init /\ [][Next]_vars

-----------------------------------------------------------------------------
(* Properties *)

\* Only the plan that claimed the task has anything in quarantine, only after
\* its moves were on record, and only the very directories it listed: not one
\* made since at the same path, whenever the rename happened to run
\* (directory_delete.py quarantine).
QuarantineIsIntended ==
    \A p \in Plans, d \in Dirs : trash[p][d] # 0 =>
        tombstone.plan = p /\ plan[p].intent /\ trash[p][d] = plan[p].manifest.dirs[d]

\* The row goes only after every directory of the approved list is in
\* quarantine: through failures, restarts, late renames and reconciliations
\* no record is deleted whose files were left where they were
\* (task_deletion.py _quarantine_assets).
RowOutlivesItsFiles ==
    row.status = "absent" =>
        LET p == tombstone.plan IN
        /\ tombstone.status = "deleted" /\ Removed(p)
        /\ plan[p].cleanup = "pending" => trash[p] = plan[p].manifest.dirs

\* Of all plans for the task at most one ever writes anything, and no job runs
\* its writes twice at a time: a fresh execution, a queued one and a
\* reconciliation exclude each other (task_deletion.py reconcile).
OneDeletionAtATime ==
    /\ \A p \in Plans : plan[p].status = "executing" \/ plan[p].intent \/ Removed(p)
                           => tombstone.plan = p
    /\ \A e \in Executors : job[e].pc \in Claimed => tombstone.plan = job[e].plan
    /\ ~ \A e \in Executors : job[e].pc \in Claimed \cup {"check", "claim", "prove"}

\* Once a deletion has claimed the task no recovery acts on it, planned or
\* not: no attempt begins and no plan is executing (_require_recovery_idle,
\* claim_deletion, claim_recovery).
NoRecoveryUnderDeletion ==
    [][Blocked => /\ row'.attempt = row.attempt
                  /\ \A k \in Fingerprints : claims'[k] # "executing"]_vars

\* A product the catalogue shows has its files, whatever a deletion, a failed
\* publication or a restart did, unless a deletion claimed the task while its
\* worker was still alive (catalog_publisher.py publish_workbench_result).
LiveProductHasFiles == catalog = "live" /\ ~overtaken => place["product"] # 0

\* For one state of the task one recovery plan acts, also when the process
\* died in the middle of the first: what was claimed is never claimed again
\* while the task exists (database.py claim_recovery, recovery.py).
OneRecoveryPerState ==
    [][\A k \in Fingerprints :
        claims[k] # "none" /\ row'.status # "absent" => claims'[k] # "none" /\
            (claims[k] # "executing" => claims'[k] = claims[k])]_vars

\* A removed task has no directory and no catalogue entry left
\* (docs/DIRECTORY_DELETION_ACCEPTANCE.md).
RemovedIsGone ==
    tombstone.status = "deleted" => catalog = "none" /\ \A d \in Dirs : place[d] = 0
=============================================================================
