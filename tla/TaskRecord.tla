----------------------------- MODULE TaskRecord -----------------------------
(***************************************************************************)
(* One task as its deletion and its recovery see it: the row, the worker   *)
(* thread that may still be driving it, its directories on the two         *)
(* machines, its entry in the product catalogue, and the two things that   *)
(* keep operations apart, the operation lock of the API process and the    *)
(* tombstone in the database.  task_manager.py, catalog_publisher.py,      *)
(* directory_delete.py.                                                    *)
(*                                                                         *)
(* TaskManager follows a worker through its launch protocol.  Here only    *)
(* what a worker does to the row, the directories and the catalogue is     *)
(* kept, and that it can do some of it after the row was called cancelled: *)
(* a cancellation before the launch settles the row at once, while the     *)
(* thread is still inside an SSH call.                                     *)
(***************************************************************************)
EXTENDS Naturals, FiniteSets

CONSTANTS Plans,        \* deletion plans; a quarantine is named after its plan
          None,         \* no plan
          Inodes,       \* [Dirs -> identities], those of deleted directories are used again
          Versions,     \* contents of the row's runtime and result
          Failures,     \* contents of its failure
          MaxAttempts   \* bound on attempts of the task

\* The task root on the host, the run directory here, the published product.
Dirs == {"remote", "run", "product"}

ASSUME RecordAssumption ==
    /\ None \notin Plans /\ IsFiniteSet(Plans)
    /\ \A d \in Dirs : 0 \notin Inodes[d]
    /\ Versions # {} /\ Failures # {} /\ MaxAttempts \in Nat \ {0}

VARIABLES
    row,        \* wrf_tasks
    thread,     \* _task_threads: the worker's place in _run_task
    flagged,    \* is the task in _cancelled?
    place,      \* the directory at each managed path (0: none)
    trash,      \* .wrf-trash/<plan>: the directory quarantined from each path
    catalog,    \* public_info and wrf_info
    tombstone,  \* wrf_task_tombstones
    lock        \* who holds _operation_lock

worker == <<thread, flagged>>
record == <<row, worker, place, trash, catalog, tombstone, lock>>

\* What is found at each path, or was: a directory or nothing.
Full == [remote : Inodes["remote"], run : Inodes["run"], product : Inodes["product"]]
Places == [remote : {0} \cup Inodes["remote"], run : {0} \cup Inodes["run"],
           product : {0} \cup Inodes["product"]]
Holders == {"worker", "request", "repair"}
Terminal == {"failed", "cancelled", "succeeded"}
Row == [status : Terminal \cup {"active", "cancel_pending", "absent"},
        attempt : 1..MaxAttempts, version : Versions, failure : Failures]

RecordTypeOK ==
    /\ row \in Row
    /\ thread \in {"none", "running", "registering", "updating", "succeeding", "cancelling", "leaving"}
    /\ flagged \in BOOLEAN
    /\ place \in Places
    /\ trash \in [Plans -> Places]
    /\ catalog \in {"none", "live", "retired"}
    /\ tombstone \in [plan : Plans \cup {None}, status : {"none", "deleting", "deleted"}]
    /\ lock \in Holders \cup {"none"}

\* submit has made the run directory and the row, and dispatched a worker.
RecordInit ==
    /\ row \in [status : {"active"}, attempt : {1}, version : Versions, failure : Failures]
    /\ thread = "running" /\ flagged = FALSE
    /\ place \in {[d \in Dirs |-> IF d = "run" THEN new[d] ELSE 0] : new \in Full}
    /\ trash = [p \in Plans |-> [d \in Dirs |-> 0]]
    /\ catalog = "none" /\ lock = "none"
    /\ tombstone = [plan |-> None, status |-> "none"]

Blocked == tombstone.status # "none"
\* Mutant of Idle: the tombstone is not looked at.
NoThread == thread = "none"
Idle == ~Blocked /\ thread = "none"
Unlocked == lock = "none"

\* mkdir of the paths in ds: what is there stays, what is not is a new inode.
Made(ds) ==
    LET missing == {d \in ds : place[d] = 0} IN
    {[d \in Dirs |-> IF d \in missing THEN new[d] ELSE place[d]] :
        new \in {n \in Full : \A d \in missing, p \in Plans : n[d] # trash[p][d]}}

\* store.update: a row that is gone stays gone.
Write(status) ==
    IF row.status = "absent" THEN row' = row
    ELSE row' \in [status : {status}, attempt : {row.attempt}, version : Versions, failure : Failures]

-----------------------------------------------------------------------------
(* The worker *)

\* _dispatch, from a retry timer or a finished worker: no look at the tombstone.
Dispatch ==
    /\ row.status = "active" /\ thread = "none" /\ ~flagged
    /\ thread' = "running"
    /\ UNCHANGED <<row, flagged, place, trash, catalog, tombstone, lock>>

\* A stage of _execute makes directories on the host and here.
WorkerWorks ==
    /\ thread = "running" /\ ~flagged
    /\ place' \in UNION {Made(ds) : ds \in SUBSET {"remote", "run"}}
    /\ UNCHANGED <<row, worker, trash, catalog, tombstone, lock>>

\* An error: logged, then written to the row.
WorkerFails ==
    /\ thread = "running" /\ ~flagged
    /\ place' \in Made({"run"}) /\ Write("failed")
    /\ thread' = "leaving"
    /\ UNCHANGED <<flagged, trash, catalog, tombstone, lock>>

\* What the worker was in when the task was cancelled runs to its end, the
\* status it then reports included; the next check raises.
WorkerIsCancelled ==
    /\ thread = "running" /\ flagged
    /\ place' \in UNION {Made(ds) : ds \in SUBSET {"remote", "run"}}
    /\ row' = row \/ Write("active")
    /\ thread' = "cancelling"
    /\ UNCHANGED <<flagged, trash, catalog, tombstone, lock>>

\* _publish_catalog_result: a tombstone refuses; else the files are staged and
\* moved into place, or an equal product is found there.  (A cancellation may
\* come between the check before this call and the call.)
WorkerPublishes ==
    /\ thread = "running"
    /\ \/ /\ Blocked /\ flagged
          /\ thread' = "cancelling" /\ UNCHANGED <<row, place>>
       \/ /\ Blocked /\ ~flagged
          /\ Write("failed") /\ thread' = "leaving" /\ place' = place
       \/ /\ ~Blocked
          /\ place' \in Made({"product"}) /\ row' = row
          /\ thread' = IF place["product"] = 0 THEN "registering" ELSE "updating"
       \/ thread' = "succeeding" /\ UNCHANGED <<row, place>>
    /\ UNCHANGED <<flagged, trash, catalog, tombstone, lock>>

\* _register_catalog needs the files; when it fails, files that this call has
\* put there are taken away again.
WorkerRegisters ==
    /\ thread \in {"registering", "updating"}
    /\ \/ place["product"] # 0 /\ catalog' = "live" /\ place' = place
       \/ /\ catalog' = catalog
          /\ place' = IF thread = "registering" THEN [place EXCEPT !["product"] = 0] ELSE place
    /\ thread' = "succeeding"
    /\ UNCHANGED <<row, flagged, trash, tombstone, lock>>

WorkerSucceeds ==
    /\ thread = "succeeding" /\ Write("succeeded") /\ thread' = "leaving"
    /\ UNCHANGED <<flagged, place, trash, catalog, tombstone, lock>>

\* _complete_task_cancellation
CompleteCancellation ==
    /\ thread = "cancelling"
    /\ IF row.status \in {"active", "cancel_pending"}
       THEN Write("cancelled") \/ Write("cancel_pending") ELSE row' = row
    /\ thread' = "leaving"
    /\ UNCHANGED <<flagged, place, trash, catalog, tombstone, lock>>

\* A last line in the log, and the worker leaves _task_threads.
WorkerLeaves ==
    /\ thread = "leaving"
    /\ place' \in Made({}) \cup Made({"run"})
    /\ thread' = "none"
    /\ UNCHANGED <<row, flagged, trash, catalog, tombstone, lock>>

Worker == \/ Dispatch \/ WorkerWorks \/ WorkerFails \/ WorkerIsCancelled \/ WorkerPublishes
          \/ WorkerRegisters \/ WorkerSucceeds \/ CompleteCancellation \/ WorkerLeaves

-----------------------------------------------------------------------------
(* The user and the catalogue *)

\* Before the launch the row is cancelled at once, after it once the host agrees.
Cancel ==
    /\ Unlocked /\ row.status \in {"active", "cancel_pending"}
    /\ flagged' = TRUE
    /\ Write("cancel_pending") \/ (row.status = "active" /\ Write("cancelled"))
    /\ place' \in Made({}) \cup Made({"run"})
    /\ UNCHANGED <<thread, trash, catalog, tombstone, lock>>

\* _record_cancel_observation
CancellationObserved ==
    /\ Unlocked /\ row.status = "cancel_pending"
    /\ Write("cancelled")
    /\ UNCHANGED <<worker, place, trash, catalog, tombstone, lock>>

\* retry_catalog_publish: all of publish_workbench_result under the lock.
RetryPublish ==
    /\ Unlocked /\ Idle /\ row.status = "succeeded"
    /\ \/ place' \in Made({"product"}) /\ catalog' = "live"
       \/ place' = place /\ catalog' = catalog
    /\ Write("succeeded")
    /\ UNCHANGED <<worker, trash, tombstone, lock>>

(* The bodies of restart and of the resuming operations, without their locks. *)

\* restart clears the attempt on the host (unless its release keeps it) and here.
RestartTask ==
    /\ Idle /\ row.status \in {"failed", "cancelled"} /\ row.attempt < MaxAttempts
    /\ \E new \in Made({"run"}), r \in {0, place["remote"]} : place' = [new EXCEPT !["remote"] = r]
    /\ row' \in [status : {"active"}, attempt : {row.attempt + 1}, version : Versions, failure : Failures]
    /\ flagged' = FALSE /\ thread' \in {"none", "running"}
    /\ UNCHANGED <<trash, catalog, tombstone>>

\* ... and may fail after the cleanup and before begin_attempt.
RestartBreaks ==
    /\ Idle /\ row.status \in {"failed", "cancelled"}
    /\ place' \in {place, [place EXCEPT !["remote"] = 0]}
    /\ UNCHANGED <<row, worker, trash, catalog, tombstone>>

\* resume_external, retry_outputs and render_partial: the same attempt goes on.
Resume ==
    /\ Idle /\ row.status = "failed"
    /\ Write("active")
    /\ flagged' \in {FALSE, flagged} /\ thread' \in {"none", "running"}
    /\ UNCHANGED <<place, trash, catalog, tombstone>>

\* The routes without a plan.
DirectRecovery ==
    /\ Unlocked /\ (RestartTask \/ RestartBreaks \/ Resume)
    /\ lock' = lock

\* start() of the next API process: a cancellation still pending is taken up.
RecordRestarts ==
    /\ thread' = "none" /\ lock' = "none"
    /\ flagged' = (row.status = "cancel_pending")
    /\ row' = row
    /\ UNCHANGED <<place, trash, catalog, tombstone>>
=============================================================================
