--------------------------- MODULE DeletionProofs ---------------------------
(***************************************************************************)
(* Proofs about TaskDeletion and the recovery beside it, for any plans,    *)
(* actors, directories, contents of the row, attempts, length of the queue *)
(* and number of restarts of the API.                                      *)
(*                                                                         *)
(* Two things keep the writers of one task apart: the operation lock, which *)
(* a restart breaks, and the tombstone, which is set once and stays.  The  *)
(* invariant says what holds of a plan while the tombstone names it, of a  *)
(* job while it has the lock, and of the entries of the queue, so that no  *)
(* preview can be made again of a plan that was carried out.               *)
(***************************************************************************)
EXTENDS TaskDeletion, TLAPS

\* The places where a job has the operation lock.
Locked == Claimed \cup {"check", "claim", "prove"}

\* The directories a job at pc has moved.
MovedBefore(pc) ==
    CASE pc = "run" -> {"remote"}
      [] pc = "product" -> {"remote", "run"}
      [] pc \in {"catalog", "purge"} -> Dirs
      [] OTHER -> {}

JobIsSound(e) ==
    /\ job[e] = NoJob \/ (job[e].plan \in Plans /\ job[e].pc # "idle")
    /\ job[e].pc \in Locked => lock = e
    /\ job[e].pc \in Claimed => tombstone = [plan |-> job[e].plan, status |-> "deleting"]
    /\ job[e].pc \in Dirs \cup {"catalog", "purge"} =>
          /\ plan[job[e].plan].intent
          /\ \A d \in MovedBefore(job[e].pc) : trash[job[e].plan][d] = plan[job[e].plan].manifest.dirs[d]
    /\ job[e].pc \in Claimed \ {"revoke"} /\ ~overtaken => catalog # "live"

\* Who has written anything is the plan the tombstone names, and that plan is
\* never a preview again.
PlanIsSound(p) ==
    /\ plan[p].status = "executing" \/ plan[p].intent \/ Removed(p) => tombstone.plan = p
    /\ Removed(p) => tombstone.status = "deleted"
    /\ \A d \in Dirs : trash[p][d] # 0 => plan[p].intent /\ trash[p][d] = plan[p].manifest.dirs[d]
    /\ p \in late => plan[p].intent
    /\ tombstone.plan = p => plan[p].status \notin {"none", "checking", "pending"}

\* The head of the queue is the job at work; a preview that was not begun is of
\* a plan that is being checked.
QueueIsSound ==
    /\ \A i, j \in 1..Len(queue) : queue[i].plan = queue[j].plan => i = j
    /\ job["worker"] # NoJob => /\ Len(queue) > 0
                                /\ queue[1].plan = job["worker"].plan /\ queue[1].kind = job["worker"].kind
    /\ job["worker"].pc = "inventory" => job["worker"].kind = "prepare"
    /\ \A i \in 1..Len(queue) :
          queue[i].kind = "prepare" /\ (i > 1 \/ job["worker"] = NoJob \/ job["worker"].pc = "inventory") =>
             plan[queue[i].plan].status = "checking"

\* What the tombstone means for the task it stands for.
TombstoneIsSound ==
    /\ Blocked <=> tombstone.plan # None
    /\ ~Blocked => ~overtaken
    /\ Blocked => \A k \in Fingerprints : claims[k] # "executing"
    /\ Blocked /\ ~overtaken => thread = "none" /\ row.status \in Terminal \cup {"absent"}
    /\ row.status = "absent" =>
          /\ tombstone.status = "deleted" /\ Removed(tombstone.plan)
          /\ plan[tombstone.plan].cleanup = "pending" => trash[tombstone.plan] = plan[tombstone.plan].manifest.dirs

\* A file is taken away only from a product that the catalogue does not show.
ProductIsSound ==
    /\ LiveProductHasFiles
    /\ thread = "registering" /\ ~overtaken => catalog # "live"

\* The operation of a recovery works for a claim of its own.
RecoveryIsSound ==
    lock = "repair" => acting.key \in Fingerprints /\ claims[acting.key] = "executing"

DeletionInv ==
    /\ TypeOK
    /\ \A e \in Executors : JobIsSound(e)
    /\ \A p \in Plans : PlanIsSound(p)
    /\ QueueIsSound /\ TombstoneIsSound /\ ProductIsSound /\ RecoveryIsSound

-----------------------------------------------------------------------------
(* The start, and what follows from the invariant.                         *)

LEMMA DeletionStart == Init => DeletionInv
<1> SUFFICES ASSUME Init PROVE DeletionInv
  OBVIOUS
<1> USE DEF Init, RecordInit, RecoveryInit
<1>1. RecordTypeOK /\ place["product"] = 0 /\ \A p \in Plans, d \in Dirs : trash[p][d] = 0
  <2>1. row \in Row /\ row.status = "active"
    BY RecordAssumption DEF Row, Terminal
  <2>2. PICK new \in Full : place = [d \in Dirs |-> IF d = "run" THEN new[d] ELSE 0]
    OBVIOUS
  <2>3. place \in Places /\ place["product"] = 0
    BY <2>2 DEF Places, Full, Dirs
  <2>4. [d \in Dirs |-> 0] \in Places
    BY DEF Places, Dirs
  <2> QED
    BY <2>1, <2>3, <2>4 DEF RecordTypeOK, Holders
<1>2. TypeOK
  <2>1. RecoveryTypeOK
    BY DEF RecoveryTypeOK
  <2>2. Unmade \in Plan
    BY DEF Unmade, Plan, Manifest
  <2>3. queue \in Seq(Jobs) /\ Len(queue) <= MaxQueue
    BY DeletionAssumption
  <2>4. job \in [Executors -> [plan : Plans \cup {None}, kind : {"none", "prepare", "execute", "reconcile"}, pc : Pcs]]
    BY DEF NoJob, Pcs
  <2>5. reboots \in 0..MaxReboots
    BY DeletionAssumption
  <2> QED
    BY <1>1, <2>1, <2>2, <2>3, <2>4, <2>5 DEF TypeOK
<1>3. \A e \in Executors : JobIsSound(e)
  BY DEF JobIsSound, NoJob, Locked, Claimed, Dirs
<1>4. \A p \in Plans : PlanIsSound(p)
  BY <1>1, RecordAssumption DEF PlanIsSound, Unmade, Removed
<1>5. QueueIsSound
  BY DEF QueueIsSound, NoJob, Executors
<1>6. TombstoneIsSound /\ ProductIsSound /\ RecoveryIsSound
  BY <1>1 DEF TombstoneIsSound, ProductIsSound, LiveProductHasFiles, RecoveryIsSound, Blocked
<1> QED
  BY <1>2, <1>3, <1>4, <1>5, <1>6 DEF DeletionInv

LEMMA IntendedFollows == DeletionInv => QuarantineIsIntended
  BY DEF DeletionInv, PlanIsSound, QuarantineIsIntended

LEMMA OutlivesFollows == DeletionInv => RowOutlivesItsFiles
  BY DEF DeletionInv, TombstoneIsSound, RowOutlivesItsFiles

LEMMA OneDeletionFollows == DeletionInv => OneDeletionAtATime
<1> SUFFICES ASSUME DeletionInv PROVE OneDeletionAtATime
  OBVIOUS
<1>1. \A e \in Executors : JobIsSound(e)
  BY DEF DeletionInv
<1>2. ~ \A e \in Executors : job[e].pc \in Claimed \cup {"check", "claim", "prove"}
  BY <1>1 DEF JobIsSound, Locked, Executors
<1>3. \A e \in Executors : job[e].pc \in Claimed => tombstone.plan = job[e].plan
  BY <1>1 DEF JobIsSound
<1> QED
  BY <1>2, <1>3 DEF DeletionInv, PlanIsSound, OneDeletionAtATime

-----------------------------------------------------------------------------
(* The task's own steps.                                                   *)

LEMMA MadeIsSound ==
  ASSUME place \in Places, NEW ds \in SUBSET Dirs, NEW new \in Made(ds)
  PROVE  /\ new \in Places
         /\ \A d \in Dirs : place[d] # 0 \/ d \notin ds => new[d] = place[d]
         /\ \A d \in ds : new[d] # 0
  BY RecordAssumption DEF Places, Dirs, Made, Full

LEMMA WriteIsSound ==
  ASSUME row \in Row, NEW status \in Terminal \cup {"active", "cancel_pending"}, Write(status)
  PROVE  /\ row' \in Row /\ row'.attempt = row.attempt
         /\ row'.status = IF row.status = "absent" THEN "absent" ELSE status
<1>1. CASE row.status = "absent"
  BY <1>1 DEF Write
<1>2. CASE row.status # "absent"
  BY <1>2 DEF Write, Row
<1> QED
  BY <1>1, <1>2

\* What a step of the task may do to the deletion of it, and to its product.
TaskMoves ==
  /\ RecordTypeOK' /\ UNCHANGED <<trash, tombstone, lock, recovery, deletion, reboots>>
  /\ row'.status = "absent" <=> row.status = "absent"
  /\ Blocked /\ ~overtaken => thread' = "none" /\ row'.status \in Terminal \cup {"absent"} /\ catalog' = catalog

LEMMA TaskMovesOn == DeletionInv /\ TaskMoves /\ ProductIsSound' => DeletionInv'
<1> SUFFICES ASSUME DeletionInv, TaskMoves, ProductIsSound' PROVE DeletionInv'
  OBVIOUS
<1>1. UNCHANGED <<trash, tombstone, lock, claims, acting, plan, queue, job, cleaning, late, overtaken, reboots>>
  BY DEF TaskMoves, recovery, deletion
<1>2. TypeOK'
  BY <1>1 DEF TaskMoves, DeletionInv, TypeOK, RecoveryTypeOK
<1>3. ASSUME NEW e \in Executors PROVE JobIsSound(e)'
  <2>1. JobIsSound(e)
    BY DEF DeletionInv
  <2>2. job[e].pc \in Claimed => Blocked
    BY <2>1 DEF JobIsSound, Blocked
  <2> QED
    BY <1>1, <2>1, <2>2 DEF JobIsSound, TaskMoves
<1>4. \A p \in Plans : PlanIsSound(p)'
  BY <1>1 DEF DeletionInv, PlanIsSound, Removed
<1>5. QueueIsSound'
  BY <1>1 DEF DeletionInv, QueueIsSound
<1>6. TombstoneIsSound'
  BY <1>1 DEF DeletionInv, TombstoneIsSound, TaskMoves, Blocked, Removed
<1>7. RecoveryIsSound'
  BY <1>1 DEF DeletionInv, RecoveryIsSound
<1> QED
  BY <1>2, <1>3, <1>4, <1>5, <1>6, <1>7 DEF DeletionInv

\* A directory made in one of the stages of a worker.
LEMMA StageIsSound ==
  ASSUME place \in Places, NEW dirs \in SUBSET Dirs, place' \in UNION {Made(ds) : ds \in SUBSET dirs}
  PROVE  /\ place' \in Places
         /\ \A d \in Dirs : place[d] # 0 \/ d \notin dirs => place'[d] = place[d]
<1>1. PICK ds \in SUBSET dirs : place' \in Made(ds)
  OBVIOUS
<1>2. ds \in SUBSET Dirs
  OBVIOUS
<1> QED
  BY <1>1, <1>2, MadeIsSound

LEMMA WorkerIsSound ==
  ASSUME DeletionInv, Worker, UNCHANGED <<recovery, deletion, reboots>>
  PROVE  DeletionInv'
<1>1. RecordTypeOK /\ row \in Row /\ place \in Places /\ ProductIsSound
  BY DEF DeletionInv, TypeOK, RecordTypeOK
<1>2. Blocked /\ ~overtaken => thread = "none" /\ row.status \in Terminal \cup {"absent"}
  BY DEF DeletionInv, TombstoneIsSound
<1>3. ~Blocked => ~overtaken
  BY DEF DeletionInv, TombstoneIsSound
<1>4. overtaken' = overtaken
  BY DEF deletion
<1>5. {"run"} \in SUBSET Dirs /\ {"product"} \in SUBSET Dirs /\ {} \in SUBSET Dirs /\ {"remote", "run"} \in SUBSET Dirs
      /\ "product" \in Dirs
  BY DEF Dirs
<1> USE DEF Terminal
<1>6. TaskMoves /\ ProductIsSound'
  <2> USE DEF TaskMoves, ProductIsSound, LiveProductHasFiles, RecordTypeOK, worker
  <2>1. CASE Dispatch
    BY <1>1, <1>2, <1>4, <2>1 DEF Dispatch
  <2>2. CASE WorkerWorks
    <3>1. place' \in Places /\ place'["product"] = place["product"]
      BY <1>1, <1>5, <2>2, StageIsSound DEF WorkerWorks
    <3> QED
      BY <1>1, <1>2, <1>4, <2>2, <3>1 DEF WorkerWorks
  <2>3. CASE WorkerFails
    <3>1. place' \in Places /\ place'["product"] = place["product"]
      BY <1>1, <1>5, <2>3, MadeIsSound DEF WorkerFails
    <3>2. row' \in Row /\ (row'.status = "absent" <=> row.status = "absent")
      BY <1>1, <2>3, WriteIsSound DEF WorkerFails
    <3> QED
      BY <1>1, <1>2, <1>4, <2>3, <3>1, <3>2 DEF WorkerFails
  <2>4. CASE WorkerIsCancelled
    <3>1. place' \in Places /\ place'["product"] = place["product"]
      BY <1>1, <1>5, <2>4, StageIsSound DEF WorkerIsCancelled
    <3>2. row' \in Row /\ (row'.status = "absent" <=> row.status = "absent")
      BY <1>1, <2>4, WriteIsSound DEF WorkerIsCancelled
    <3> QED
      BY <1>1, <1>2, <1>4, <2>4, <3>1, <3>2 DEF WorkerIsCancelled
  <2>5. CASE WorkerPublishes
    <3>1. /\ place' \in Places /\ (place["product"] # 0 => place'["product"] = place["product"])
          /\ row' \in Row /\ (row'.status = "absent" <=> row.status = "absent")
          /\ thread' \in {"cancelling", "leaving", "registering", "updating", "succeeding"}
          /\ thread' = "registering" => place["product"] = 0 /\ ~Blocked
      <4>1. Write("failed") => row' \in Row /\ (row'.status = "absent" <=> row.status = "absent")
        BY <1>1, WriteIsSound
      <4>2. place' \in Made({"product"}) => place' \in Places /\ (place["product"] # 0 => place'["product"] = place["product"])
        BY <1>1, <1>5, MadeIsSound
      <4> QED
        BY <1>1, <2>5, <4>1, <4>2 DEF WorkerPublishes
    <3> QED
      BY <1>1, <1>2, <1>3, <1>4, <2>5, <3>1 DEF WorkerPublishes
  <2>6. CASE WorkerRegisters
    <3>1. place' \in Places
      BY <1>1, <2>6 DEF WorkerRegisters, Places
    <3>2. /\ thread \in {"registering", "updating"} /\ catalog' \in {catalog, "live"}
          /\ catalog' = "live" /\ ~overtaken => place'["product"] # 0
      BY <1>1, <2>6 DEF WorkerRegisters
    <3> QED
      BY <1>1, <1>2, <1>4, <2>6, <3>1, <3>2 DEF WorkerRegisters
  <2>7. CASE WorkerSucceeds
    <3>1. row' \in Row /\ (row'.status = "absent" <=> row.status = "absent")
      BY <1>1, <2>7, WriteIsSound DEF WorkerSucceeds
    <3> QED
      BY <1>1, <1>2, <1>4, <2>7, <3>1 DEF WorkerSucceeds
  <2>8. CASE CompleteCancellation
    <3>1. row' \in Row /\ (row'.status = "absent" <=> row.status = "absent")
      BY <1>1, <2>8, WriteIsSound DEF CompleteCancellation
    <3> QED
      BY <1>1, <1>2, <1>4, <2>8, <3>1 DEF CompleteCancellation
  <2>9. CASE WorkerLeaves
    <3>1. place' \in Places /\ place'["product"] = place["product"]
      BY <1>1, <1>5, <2>9, MadeIsSound DEF WorkerLeaves
    <3> QED
      BY <1>1, <1>2, <1>4, <2>9, <3>1 DEF WorkerLeaves
  <2> QED
    BY <2>1, <2>2, <2>3, <2>4, <2>5, <2>6, <2>7, <2>8, <2>9 DEF Worker
<1> QED
  BY <1>6, TaskMovesOn

\* The bodies of the operations that need the task to be idle.
LEMMA RepairIsSound ==
  ASSUME DeletionInv, RestartTask \/ RestartBreaks \/ Resume, overtaken' = overtaken
  PROVE  /\ ~Blocked /\ UNCHANGED <<trash, catalog, tombstone>>
         /\ row' \in Row /\ row'.status # "absent" /\ row.status # "absent"
         /\ thread' \in {"none", "running"} /\ flagged' \in BOOLEAN
         /\ place' \in Places /\ place'["product"] = place["product"]
<1>1. row \in Row /\ place \in Places /\ thread = "none" /\ flagged \in BOOLEAN
  <2>1. Idle
    BY DEF RestartTask, RestartBreaks, Resume
  <2> QED
    BY <2>1 DEF DeletionInv, TypeOK, RecordTypeOK, Idle
<1>2. CASE RestartTask
  <2>1. row' \in Row /\ row'.status # "absent" /\ row.status # "absent"
    BY <1>1, <1>2, RecordAssumption DEF RestartTask, Row, Terminal
  <2>2. PICK new \in Made({"run"}), r \in {0, place["remote"]} : place' = [new EXCEPT !["remote"] = r]
    BY <1>2 DEF RestartTask
  <2>3. new \in Places /\ new["product"] = place["product"]
    BY <1>1, MadeIsSound DEF Dirs
  <2>4. place' \in Places /\ place'["product"] = place["product"]
    BY <1>1, <2>2, <2>3 DEF Places
  <2>5. ~Blocked /\ UNCHANGED <<trash, catalog, tombstone>> /\ flagged' = FALSE /\ thread' \in {"none", "running"}
    BY <1>2 DEF RestartTask, Idle
  <2> QED
    BY <2>1, <2>4, <2>5
<1>3. CASE RestartBreaks
  <2>1. place' \in Places /\ place'["product"] = place["product"]
    BY <1>1, <1>3 DEF RestartBreaks, Places
  <2> QED
    BY <1>1, <1>3, <2>1 DEF RestartBreaks, Idle, worker
<1>4. CASE Resume
  <2>1. row' \in Row /\ row'.status # "absent" /\ row.status # "absent"
    BY <1>1, <1>4, WriteIsSound DEF Resume
  <2> QED
    BY <1>1, <1>4, <2>1 DEF Resume, Idle
<1> QED
  BY <1>2, <1>3, <1>4

LEMMA UserIsSound ==
  ASSUME DeletionInv, Cancel \/ CancellationObserved \/ RetryPublish \/ DirectRecovery,
         UNCHANGED <<recovery, deletion, reboots>>
  PROVE  DeletionInv'
<1>1. RecordTypeOK /\ row \in Row /\ place \in Places /\ ProductIsSound
  BY DEF DeletionInv, TypeOK, RecordTypeOK
<1>2. Blocked /\ ~overtaken => thread = "none" /\ row.status \in Terminal \cup {"absent"}
  BY DEF DeletionInv, TombstoneIsSound
<1>3. overtaken' = overtaken
  BY DEF deletion
<1>4. {"run"} \in SUBSET Dirs /\ {"product"} \in SUBSET Dirs /\ {} \in SUBSET Dirs /\ "product" \in Dirs
  BY DEF Dirs
<1>5. TaskMoves /\ ProductIsSound'
  <2> USE DEF TaskMoves, ProductIsSound, LiveProductHasFiles, RecordTypeOK, worker, Terminal
  <2>1. CASE Cancel
    <3>1. place' \in Places /\ place'["product"] = place["product"]
      BY <1>1, <1>4, <2>1, MadeIsSound DEF Cancel
    <3>2. row' \in Row /\ (row'.status = "absent" <=> row.status = "absent")
      BY <1>1, <2>1, WriteIsSound DEF Cancel
    <3> QED
      BY <1>1, <1>2, <1>3, <2>1, <3>1, <3>2 DEF Cancel
  <2>2. CASE CancellationObserved
    <3>1. row' \in Row /\ (row'.status = "absent" <=> row.status = "absent")
      BY <1>1, <2>2, WriteIsSound DEF CancellationObserved
    <3> QED
      BY <1>1, <1>2, <1>3, <2>2, <3>1 DEF CancellationObserved
  <2>3. CASE RetryPublish
    <3>1. row' \in Row /\ (row'.status = "absent" <=> row.status = "absent")
      BY <1>1, <2>3, WriteIsSound DEF RetryPublish
    <3>2. place' \in Made({"product"}) => place' \in Places /\ place'["product"] # 0
      BY <1>1, <1>4, MadeIsSound
    <3>3. ~Blocked /\ thread = "none"
      BY <2>3 DEF RetryPublish, Idle
    <3> QED
      BY <1>1, <1>3, <2>3, <3>1, <3>2, <3>3 DEF RetryPublish
  <2>4. CASE DirectRecovery
    BY <1>1, <1>3, <2>4, RepairIsSound DEF DirectRecovery
  <2> QED
    BY <2>1, <2>2, <2>3, <2>4
<1> QED
  BY <1>5, TaskMovesOn

-----------------------------------------------------------------------------
(* Recovery plans.                                                         *)

LEMMA ClaimIsSound ==
  ASSUME DeletionInv, NEW action \in {"restart", "resume"}, ExecuteRepair(action), UNCHANGED <<deletion, reboots>>
  PROVE  DeletionInv'
<1>1. UNCHANGED <<row, thread, flagged, place, trash, catalog, tombstone, plan, queue, job, cleaning, late, overtaken, reboots>>
  BY DEF ExecuteRepair, deletion, worker
<1>2. Fingerprint \in Fingerprints
  BY DEF DeletionInv, TypeOK, RecordTypeOK, ExecuteRepair, Row, Fingerprint, Fingerprints, Terminal
<1>3. /\ lock = "none" /\ lock' = "repair" /\ ~Blocked
      /\ acting' = [key |-> Fingerprint, action |-> action]
      /\ claims' = [claims EXCEPT ![Fingerprint] = "executing"]
  BY DEF ExecuteRepair, Unlocked, Idle
<1>4. /\ claims' \in [Fingerprints -> {"none", "executing", "accepted", "unknown"}]
      /\ claims'[acting'.key] = "executing" /\ acting'.key \in Fingerprints
  BY <1>2, <1>3 DEF DeletionInv, TypeOK, RecoveryTypeOK
<1>5. TypeOK'
  BY <1>1, <1>2, <1>3, <1>4 DEF DeletionInv, TypeOK, RecordTypeOK, RecoveryTypeOK, Holders
<1>6. ASSUME NEW e \in Executors PROVE JobIsSound(e)'
  <2>1. JobIsSound(e) /\ job[e].pc \notin Locked
    BY <1>3 DEF DeletionInv, JobIsSound, Executors
  <2> QED
    BY <1>1, <2>1 DEF JobIsSound, Locked, Claimed
<1>7. \A p \in Plans : PlanIsSound(p)'
  BY <1>1 DEF DeletionInv, PlanIsSound, Removed
<1>8. QueueIsSound'
  BY <1>1 DEF DeletionInv, QueueIsSound
<1>9. TombstoneIsSound' /\ ProductIsSound'
  BY <1>1, <1>3 DEF DeletionInv, TombstoneIsSound, Blocked, ProductIsSound, LiveProductHasFiles, Removed
<1>10. RecoveryIsSound'
  BY <1>4 DEF RecoveryIsSound
<1> QED
  BY <1>5, <1>6, <1>7, <1>8, <1>9, <1>10 DEF DeletionInv

LEMMA FinishIsSound ==
  ASSUME DeletionInv, FinishRepair, UNCHANGED <<deletion, reboots>>
  PROVE  DeletionInv'
<1>1. UNCHANGED <<trash, catalog, tombstone, plan, queue, job, cleaning, late, overtaken, reboots>>
  BY RepairIsSound DEF FinishRepair, deletion
<1>2. lock = "repair" /\ lock' = "none" /\ acting' = NoAct /\ acting.key \in Fingerprints
  BY DEF FinishRepair, DeletionInv, RecoveryIsSound
<1>3. \E end \in {"accepted", "unknown"} : claims' = [claims EXCEPT ![acting.key] = end]
  BY DEF FinishRepair
<1>4. /\ claims' \in [Fingerprints -> {"none", "executing", "accepted", "unknown"}]
      /\ \A k \in Fingerprints : claims'[k] = "executing" => claims[k] = "executing"
  BY <1>2, <1>3 DEF DeletionInv, TypeOK, RecoveryTypeOK
<1>5. \/ UNCHANGED <<row, thread, flagged, place>>
      \/ /\ ~Blocked
         /\ row' \in Row /\ row'.status # "absent" /\ row.status # "absent"
         /\ thread' \in {"none", "running"} /\ flagged' \in BOOLEAN
         /\ place' \in Places /\ place'["product"] = place["product"]
  BY <1>1, RepairIsSound DEF FinishRepair, worker
<1>6. RecordTypeOK'
  BY <1>1, <1>2, <1>5 DEF DeletionInv, TypeOK, RecordTypeOK
<1>7. TypeOK'
  BY <1>1, <1>2, <1>4, <1>6 DEF DeletionInv, TypeOK, RecoveryTypeOK
<1>8. ASSUME NEW e \in Executors PROVE JobIsSound(e)'
  <2>1. JobIsSound(e) /\ job[e].pc \notin Locked
    BY <1>2 DEF DeletionInv, JobIsSound, Executors
  <2> QED
    BY <1>1, <2>1 DEF JobIsSound, Locked, Claimed
<1>9. \A p \in Plans : PlanIsSound(p)'
  BY <1>1 DEF DeletionInv, PlanIsSound, Removed
<1>10. QueueIsSound'
  BY <1>1 DEF DeletionInv, QueueIsSound
<1>11. TombstoneIsSound' /\ ProductIsSound'
  BY <1>1, <1>4, <1>5 DEF DeletionInv, TombstoneIsSound, Blocked, ProductIsSound, LiveProductHasFiles, Removed
<1>12. RecoveryIsSound'
  BY <1>2 DEF RecoveryIsSound
<1> QED
  BY <1>7, <1>8, <1>9, <1>10, <1>11, <1>12 DEF DeletionInv

-----------------------------------------------------------------------------
(* What the steps of a deletion write.                                     *)

PlanStates == {"none", "checking", "pending", "executing", "unknown", "blocked", "complete"}

\* The plan p is now new, the others are what they were.
PlanBecomes(p, new) ==
  /\ plan' \in [Plans -> Plan] /\ plan'[p] = new
  /\ \A q \in Plans \ {p} : plan'[q] = plan[q]

\* A job goes on to pc.
JobGoes(e, pc) ==
  /\ job' \in [Executors -> [plan : Plans \cup {None}, kind : {"none", "prepare", "execute", "reconcile"}, pc : Pcs]]
  /\ job'[e].plan = job[e].plan /\ job'[e].kind = job[e].kind /\ job'[e].pc = pc
  /\ \A f \in Executors \ {e} : job'[f] = job[f]

LEMMA AdvanceIsSound ==
  ASSUME TypeOK, NEW e \in Executors, NEW pc \in Pcs, Advance(e, pc)
  PROVE  JobGoes(e, pc)
  BY DEF TypeOK, Advance, JobGoes

LEMMA PlanFields ==
  ASSUME TypeOK, NEW p \in Plans
  PROVE  /\ plan[p].status \in PlanStates /\ plan[p].requested \in BOOLEAN /\ plan[p].manifest \in Manifest
         /\ plan[p].intent \in BOOLEAN /\ plan[p].cleanup \in {"none", "pending", "running", "complete", "unknown"}
         /\ plan[p].manifest.dirs \in Places /\ trash[p] \in Places
<1>1. plan[p] \in Plan /\ trash[p] \in Places
  BY DEF TypeOK, RecordTypeOK
<1>2. plan[p].manifest \in Manifest
  BY <1>1 DEF Plan
<1>3. plan[p].manifest.dirs \in Places
  BY <1>2 DEF Manifest, NoManifest, Places, Dirs
<1> QED
  BY <1>1, <1>2, <1>3 DEF Plan, PlanStates

LEMMA StatusIsWritten ==
  ASSUME TypeOK, NEW p \in Plans, NEW status \in PlanStates, plan' = [plan EXCEPT ![p].status = status]
  PROVE  PlanBecomes(p, [plan[p] EXCEPT !.status = status]) /\ plan'[p].status = status
  BY DEF TypeOK, Plan, PlanStates, PlanBecomes

\* A step that does not touch the task, the tombstone and the product.
LEMMA RecordStays ==
  ASSUME DeletionInv, UNCHANGED <<row, thread, flagged, place, trash, catalog, tombstone, claims, acting, overtaken>>,
         TypeOK', \A e \in Executors : JobIsSound(e)', \A p \in Plans : PlanIsSound(p)', QueueIsSound',
         lock' = "repair" => lock = "repair",
         \A p \in Plans : tombstone.plan = p /\ Removed(p) =>
            /\ Removed(p)' /\ plan'[p].manifest = plan[p].manifest
            /\ plan'[p].cleanup = "pending" => plan[p].cleanup = "pending"
  PROVE  DeletionInv'
<1>1. row.status = "absent" => tombstone.plan \in Plans
  BY DEF DeletionInv, TombstoneIsSound, TypeOK, RecordTypeOK, Blocked
<1>2. TombstoneIsSound'
  BY <1>1 DEF DeletionInv, TombstoneIsSound, Blocked
<1>3. ProductIsSound' /\ RecoveryIsSound'
  BY DEF DeletionInv, ProductIsSound, LiveProductHasFiles, RecoveryIsSound
<1> QED
  BY <1>2, <1>3 DEF DeletionInv

\* A job that does not have the lock is not touched by what others write.
LEMMA IdleJob ==
  ASSUME NEW e \in Executors, JobIsSound(e), job'[e] = job[e], job[e].pc \notin Locked
  PROVE  JobIsSound(e)'
  BY DEF JobIsSound, Locked, Claimed

\* The job of another, while e has the lock or a plan that was not claimed moves.
LEMMA OtherJob ==
  ASSUME DeletionInv, NEW e \in Executors, job'[e] = job[e], NEW p \in Plans,
         \A q \in Plans \ {p} : plan'[q] = plan[q],
         UNCHANGED <<tombstone, trash, catalog, overtaken>>, job[e].pc \in Locked => lock' = lock,
         plan'[p].manifest = plan[p].manifest, plan[p].intent => plan'[p].intent
  PROVE  JobIsSound(e)'
<1>1. JobIsSound(e) /\ NoJob.pc = "idle"
  BY DEF DeletionInv, NoJob
<1>2. ASSUME job[e].pc \in Dirs \cup {"catalog", "purge"}
      PROVE  /\ plan'[job[e].plan].intent
             /\ \A d \in MovedBefore(job[e].pc) : trash'[job[e].plan][d] = plan'[job[e].plan].manifest.dirs[d]
  <2>1. job[e].plan \in Plans
    BY <1>1, <1>2 DEF JobIsSound, Dirs
  <2>2. plan[job[e].plan].intent /\ plan'[job[e].plan].manifest = plan[job[e].plan].manifest
        /\ plan'[job[e].plan].intent
    BY <1>1, <1>2, <2>1 DEF JobIsSound
  <2> QED
    BY <1>1, <1>2, <2>2 DEF JobIsSound
<1>3. job[e].pc \in Locked => lock' = e
  BY <1>1 DEF JobIsSound
<1> QED
  BY <1>1, <1>2, <1>3 DEF JobIsSound

LEMMA OtherPlan ==
  ASSUME DeletionInv, NEW q \in Plans, plan'[q] = plan[q], tombstone' = tombstone, trash'[q] = trash[q],
         q \in late' => q \in late
  PROVE  PlanIsSound(q)'
  BY DEF DeletionInv, PlanIsSound, Removed

LEMMA QueueStays ==
  ASSUME DeletionInv, queue' = queue,
         \/ /\ job'["worker"] = job["worker"]
            /\ \A q \in Plans : plan[q].status = "checking" => plan'[q].status = "checking"
         \/ /\ job["worker"] # NoJob /\ job'["worker"] # NoJob /\ job'["worker"].pc # "inventory"
            /\ job'["worker"].plan = job["worker"].plan /\ job'["worker"].kind = job["worker"].kind
            /\ \A q \in Plans \ {job["worker"].plan} : plan[q].status = "checking" => plan'[q].status = "checking"
  PROVE  QueueIsSound'
<1>1. \A i \in 1..Len(queue) : queue[i].plan \in Plans
  <2>1. queue \in Seq(Jobs)
    BY DEF DeletionInv, TypeOK
  <2>2. \A i \in 1..Len(queue) : queue[i] \in Jobs
    BY <2>1
  <2> QED
    BY <2>2 DEF Jobs
<1>2. QueueIsSound
  BY DEF DeletionInv
<1>3. CASE /\ job'["worker"] = job["worker"]
           /\ \A q \in Plans : plan[q].status = "checking" => plan'[q].status = "checking"
  BY <1>1, <1>2, <1>3 DEF QueueIsSound
<1>4. CASE /\ job["worker"] # NoJob /\ job'["worker"] # NoJob /\ job'["worker"].pc # "inventory"
           /\ job'["worker"].plan = job["worker"].plan /\ job'["worker"].kind = job["worker"].kind
           /\ \A q \in Plans \ {job["worker"].plan} : plan[q].status = "checking" => plan'[q].status = "checking"
  <2>1. ASSUME NEW i \in 1..Len(queue), i > 1, queue[i].kind = "prepare"
        PROVE  plan'[queue[i].plan].status = "checking"
    <3>1. queue[i].plan # job["worker"].plan
      BY <1>2, <1>4, <2>1 DEF QueueIsSound
    <3> QED
      BY <1>1, <1>2, <1>4, <2>1, <3>1 DEF QueueIsSound
  <2> QED
    BY <1>2, <1>4, <2>1 DEF QueueIsSound
<1> QED
  BY <1>3, <1>4

-----------------------------------------------------------------------------
(* Requests.                                                               *)

\* A request writes its plan and, perhaps, the queue.
LEMMA RequestStays ==
  ASSUME DeletionInv, NEW p \in Plans, NEW new \in Plan, PlanBecomes(p, new),
         UNCHANGED <<record, recovery, job, cleaning, late, overtaken, reboots>>,
         new.manifest = plan[p].manifest, new.intent = plan[p].intent, new.cleanup = plan[p].cleanup,
         new.status = "executing" => tombstone.plan = p,
         tombstone.plan = p => new.status \notin {"none", "checking", "pending"},
         queue' \in Seq(Jobs), Len(queue') <= MaxQueue, QueueIsSound'
  PROVE  DeletionInv'
<1>1. UNCHANGED <<row, thread, flagged, place, trash, catalog, tombstone, lock, claims, acting>>
  BY DEF record, worker, recovery
<1>2. TypeOK'
  BY <1>1 DEF DeletionInv, TypeOK, RecordTypeOK, RecoveryTypeOK, PlanBecomes
<1>3. \A e \in Executors : JobIsSound(e)'
  BY <1>1, OtherJob DEF PlanBecomes
<1>4. \A q \in Plans \ {p} : PlanIsSound(q)'
  BY <1>1, OtherPlan DEF PlanBecomes
<1>5. PlanIsSound(p)'
  BY <1>1 DEF DeletionInv, PlanIsSound, PlanBecomes, Removed
<1>6. \A q \in Plans : tombstone.plan = q /\ Removed(q) =>
         /\ Removed(q)' /\ plan'[q].manifest = plan[q].manifest
         /\ plan'[q].cleanup = "pending" => plan[q].cleanup = "pending"
  BY DEF PlanBecomes, Removed
<1> QED
  BY <1>1, <1>2, <1>3, <1>4, <1>5, <1>6, RecordStays

\* What is put at the end of the queue: one entry for a plan.
LEMMA EnqueueIsSound ==
  ASSUME DeletionInv, NEW p \in Plans, NEW kind \in {"prepare", "execute", "reconcile"}, Enqueue(p, kind),
         ~QueueFull(p), job' = job, kind = "prepare" => plan'[p].status = "checking",
         \A q \in Plans : plan[q].status = "checking" => plan'[q].status = "checking"
  PROVE  queue' \in Seq(Jobs) /\ Len(queue') <= MaxQueue /\ QueueIsSound'
<1>1. queue \in Seq(Jobs) /\ Len(queue) <= MaxQueue /\ QueueIsSound /\ Len(queue) \in Nat /\ MaxQueue \in Nat
  BY DeletionAssumption DEF DeletionInv, TypeOK
<1>2. CASE Queued(p)
  BY <1>1, <1>2, QueueStays DEF Enqueue
<1>3. CASE ~Queued(p)
  <2> DEFINE new == [plan |-> p, kind |-> kind]
  <2>1. queue' = Append(queue, new) /\ new \in Jobs /\ Len(queue) # MaxQueue
    BY <1>3 DEF Enqueue, QueueFull, Jobs
  <2>2. /\ queue' \in Seq(Jobs) /\ Len(queue') = Len(queue) + 1 /\ queue'[Len(queue) + 1] = new
        /\ \A i \in 1..Len(queue) : queue'[i] = queue[i]
    BY <1>1, <2>1
  <2>3. new.plan = p /\ new.kind = kind
    OBVIOUS
  <2>4. \A i \in 1..Len(queue) : queue[i].plan # p
    BY <1>1, <1>3 DEF Queued
  <2>5. \A i \in 1..Len(queue) : queue[i].plan \in Plans
    <3>1. \A i \in 1..Len(queue) : queue[i] \in Jobs
      BY <1>1
    <3> QED
      BY <3>1 DEF Jobs
  <2> HIDE DEF new
  <2>6. \A i \in 1..Len(queue') : i \in 1..Len(queue) \/ i = Len(queue) + 1
    BY <1>1, <2>2
  <2>7. \A i, j \in 1..Len(queue') : queue'[i].plan = queue'[j].plan => i = j
    BY <1>1, <2>2, <2>3, <2>4, <2>6 DEF QueueIsSound
  <2>8. job["worker"] # NoJob => /\ Len(queue') > 0 /\ queue'[1].plan = job["worker"].plan
                                 /\ queue'[1].kind = job["worker"].kind
    BY <1>1, <2>2 DEF QueueIsSound
  <2>9. ASSUME NEW i \in 1..Len(queue'), queue'[i].kind = "prepare",
               i > 1 \/ job["worker"] = NoJob \/ job["worker"].pc = "inventory"
        PROVE  plan'[queue'[i].plan].status = "checking"
    <3>1. CASE i \in 1..Len(queue)
      BY <1>1, <2>2, <2>5, <2>9, <3>1 DEF QueueIsSound
    <3>2. CASE i = Len(queue) + 1
      BY <2>2, <2>3, <2>9, <3>2
    <3> QED
      BY <2>6, <3>1, <3>2
  <2> QED
    BY <1>1, <2>1, <2>2, <2>7, <2>8, <2>9 DEF QueueIsSound
<1> QED
  BY <1>2, <1>3

\* A plan with another status.
LEMMA StatusFields ==
  ASSUME TypeOK, NEW p \in Plans, NEW status \in PlanStates,
         plan' = [plan EXCEPT ![p].status = status]
  PROVE  \E new \in Plan :
            /\ PlanBecomes(p, new) /\ new.status = status
            /\ new.manifest = plan[p].manifest /\ new.intent = plan[p].intent /\ new.cleanup = plan[p].cleanup
            /\ new.requested = plan[p].requested
<1> DEFINE new == [plan[p] EXCEPT !.status = status]
<1>1. plan[p] \in Plan
  BY DEF TypeOK
<1>2. /\ new \in Plan /\ new.status = status /\ new.manifest = plan[p].manifest /\ new.intent = plan[p].intent
      /\ new.cleanup = plan[p].cleanup /\ new.requested = plan[p].requested
  BY <1>1 DEF Plan, PlanStates
<1>3. PlanBecomes(p, new)
  BY StatusIsWritten
<1> QED
  BY <1>2, <1>3

LEMMA MakePlanIsSound ==
  ASSUME DeletionInv, NEW p \in Plans, MakePlan(p), reboots' = reboots
  PROVE  DeletionInv'
<1>1. PICK new \in Plan :
            /\ PlanBecomes(p, new) /\ new.status = "pending"
            /\ new.manifest = plan[p].manifest /\ new.intent = plan[p].intent /\ new.cleanup = plan[p].cleanup
  BY StatusFields DEF MakePlan, DeletionInv, PlanStates
<1>2. tombstone.plan # p
  BY DEF DeletionInv, PlanIsSound, MakePlan
<1>3. QueueIsSound' /\ queue' \in Seq(Jobs) /\ Len(queue') <= MaxQueue
  BY <1>1, QueueStays DEF MakePlan, PlanBecomes, DeletionInv, TypeOK
<1> QED
  BY <1>1, <1>2, <1>3, RequestStays DEF MakePlan

LEMMA MakePlanAsyncIsSound ==
  ASSUME DeletionInv, NEW p \in Plans, MakePlanAsync(p), reboots' = reboots
  PROVE  DeletionInv'
<1>1. PICK new \in Plan :
            /\ PlanBecomes(p, new) /\ new.status = IF QueueFull(p) THEN "blocked" ELSE "checking"
            /\ new.manifest = plan[p].manifest /\ new.intent = plan[p].intent /\ new.cleanup = plan[p].cleanup
  BY StatusFields DEF MakePlanAsync, DeletionInv, PlanStates
<1>2. tombstone.plan # p
  BY DEF DeletionInv, PlanIsSound, MakePlanAsync
<1>3. \A q \in Plans : plan[q].status = "checking" => plan'[q].status = "checking"
  BY <1>1 DEF MakePlanAsync, PlanBecomes
<1>4. QueueIsSound' /\ queue' \in Seq(Jobs) /\ Len(queue') <= MaxQueue
  <2>1. CASE QueueFull(p)
    BY <1>3, <2>1, QueueStays DEF MakePlanAsync, DeletionInv, TypeOK
  <2>2. CASE ~QueueFull(p)
    <3>1. Enqueue(p, "prepare") /\ job' = job /\ plan'[p].status = "checking"
      BY <1>1, <2>2 DEF MakePlanAsync, PlanBecomes
    <3> QED
      BY <1>3, <2>2, <3>1, EnqueueIsSound
  <2> QED
    BY <2>1, <2>2
<1> QED
  BY <1>1, <1>2, <1>4, RequestStays DEF MakePlanAsync

LEMMA ExecuteAsyncIsSound ==
  ASSUME DeletionInv, NEW p \in Plans, ExecuteAsync(p), reboots' = reboots
  PROVE  DeletionInv'
<1> DEFINE new == [plan[p] EXCEPT !.requested = TRUE]
<1>1. /\ new \in Plan /\ new.status = plan[p].status
      /\ new.manifest = plan[p].manifest /\ new.intent = plan[p].intent /\ new.cleanup = plan[p].cleanup
  BY DEF DeletionInv, TypeOK, Plan
<1>2. PlanBecomes(p, new)
  BY <1>1 DEF ExecuteAsync, PlanBecomes, DeletionInv, TypeOK
<1>3. plan[p].status = "pending" /\ tombstone.plan # p
  BY DEF DeletionInv, PlanIsSound, ExecuteAsync
<1>4. \A q \in Plans : plan[q].status = "checking" => plan'[q].status = "checking"
  BY <1>1, <1>2, <1>3 DEF PlanBecomes
<1>5. QueueIsSound' /\ queue' \in Seq(Jobs) /\ Len(queue') <= MaxQueue
  BY <1>4, EnqueueIsSound DEF ExecuteAsync
<1> HIDE DEF new
<1> QED
  BY <1>1, <1>2, <1>3, <1>5, RequestStays DEF ExecuteAsync

LEMMA ReconcileIsSound ==
  ASSUME DeletionInv, NEW p \in Plans, Reconcile(p), reboots' = reboots
  PROVE  DeletionInv'
<1>1. PICK new \in Plan :
            /\ PlanBecomes(p, new) /\ new.status = "executing"
            /\ new.manifest = plan[p].manifest /\ new.intent = plan[p].intent /\ new.cleanup = plan[p].cleanup
  BY StatusFields DEF Reconcile, DeletionInv, PlanStates
<1>2. tombstone.plan = p /\ plan[p].status = "unknown"
  BY DEF Reconcile, Proven
<1>3. \A q \in Plans : plan[q].status = "checking" => plan'[q].status = "checking"
  BY <1>1, <1>2 DEF PlanBecomes
<1>4. QueueIsSound' /\ queue' \in Seq(Jobs) /\ Len(queue') <= MaxQueue
  BY <1>3, EnqueueIsSound DEF Reconcile
<1> QED
  BY <1>1, <1>2, <1>4, RequestStays DEF Reconcile

LEMMA ExecuteIsSound ==
  ASSUME DeletionInv, NEW p \in Plans, Execute(p), reboots' = reboots
  PROVE  DeletionInv'
<1>1. /\ UNCHANGED <<row, thread, flagged, place, trash, catalog, tombstone, claims, acting>>
      /\ UNCHANGED <<plan, queue, cleaning, late, overtaken, reboots>>
      /\ lock = "none" /\ lock' = "request"
  BY DEF Execute, worker, recovery, Unlocked
<1>2. /\ job' \in [Executors -> [plan : Plans \cup {None}, kind : {"none", "prepare", "execute", "reconcile"}, pc : Pcs]]
      /\ job'["request"].plan = p /\ job'["request"].pc = "check" /\ job'["worker"] = job["worker"]
  BY DEF Execute, DeletionInv, TypeOK, Executors, Pcs
<1>3. TypeOK'
  BY <1>1, <1>2 DEF DeletionInv, TypeOK, RecordTypeOK, RecoveryTypeOK, Holders
<1>4. JobIsSound("request")'
  BY <1>1, <1>2 DEF JobIsSound, Claimed, Dirs
<1>5. JobIsSound("worker")'
  <2>1. JobIsSound("worker") /\ job["worker"].pc \notin Locked
    BY <1>1 DEF DeletionInv, JobIsSound, Executors
  <2> QED
    BY <1>2, <2>1, IdleJob DEF Executors
<1>6. \A q \in Plans : PlanIsSound(q)'
  BY <1>1, OtherPlan
<1>7. QueueIsSound'
  BY <1>1, <1>2, QueueStays
<1> QED
  BY <1>1, <1>3, <1>4, <1>5, <1>6, <1>7, RecordStays DEF Executors, Removed

-----------------------------------------------------------------------------
(* Jobs: the worker's queue.                                               *)

\* A job that leaves the task and the plans alone; only its own place and the
\* queue have to be looked at.
LEMMA JobStays ==
  ASSUME DeletionInv, NEW e \in Executors, JobIsSound(e)', QueueIsSound',
         job' \in [Executors -> [plan : Plans \cup {None}, kind : {"none", "prepare", "execute", "reconcile"}, pc : Pcs]],
         \A f \in Executors \ {e} : job'[f] = job[f],
         queue' \in Seq(Jobs), Len(queue') <= MaxQueue,
         UNCHANGED <<row, thread, flagged, place, trash, catalog, tombstone, claims, acting>>,
         UNCHANGED <<plan, cleaning, late, overtaken, reboots>>,
         lock' = lock \/ (lock = "none" /\ lock' = e)
  PROVE  DeletionInv'
<1>1. TypeOK'
  BY DEF DeletionInv, TypeOK, RecordTypeOK, RecoveryTypeOK, Holders, Executors
<1>2. ASSUME NEW f \in Executors \ {e} PROVE JobIsSound(f)'
  <2>1. JobIsSound(f) /\ (job[f].pc \in Locked => lock' = lock)
    BY DEF DeletionInv, JobIsSound, Executors
  <2>2. job'[f] = job[f]
    OBVIOUS
  <2> QED
    BY <2>1, <2>2 DEF JobIsSound
<1>3. \A q \in Plans : PlanIsSound(q)'
  BY OtherPlan
<1> QED
  BY <1>1, <1>2, <1>3, RecordStays DEF Removed, Executors

LEMMA StartJobIsSound ==
  ASSUME DeletionInv, StartJob, reboots' = reboots
  PROVE  DeletionInv'
<1>1. /\ UNCHANGED <<row, thread, flagged, place, trash, catalog, tombstone, lock, claims, acting>>
      /\ UNCHANGED <<plan, queue, cleaning, late, overtaken, reboots>>
  BY DEF StartJob, record, worker, recovery
<1>2. queue \in Seq(Jobs) /\ Len(queue) \in Nat /\ Len(queue) > 0 /\ queue[1] \in Jobs /\ Head(queue) = queue[1]
  <2>1. queue \in Seq(Jobs) /\ queue # <<>>
    BY DEF StartJob, DeletionInv, TypeOK
  <2> QED
    BY <2>1
<1>3. queue[1].plan \in Plans /\ queue[1].kind \in {"prepare", "execute", "reconcile"}
  BY <1>2 DEF Jobs
<1>4. /\ job' \in [Executors -> [plan : Plans \cup {None}, kind : {"none", "prepare", "execute", "reconcile"}, pc : Pcs]]
      /\ job'["worker"].plan = queue[1].plan /\ job'["worker"].kind = queue[1].kind
      /\ job'["worker"].pc = (IF queue[1].kind = "prepare" THEN "inventory" ELSE "lock")
      /\ \A f \in Executors \ {"worker"} : job'[f] = job[f]
  BY <1>2, <1>3 DEF StartJob, DeletionInv, TypeOK, Executors, Pcs
<1>5. JobIsSound("worker")'
  BY <1>3, <1>4 DEF JobIsSound, Locked, Claimed, Dirs
<1>6. QueueIsSound'
  <2>1. QueueIsSound /\ job["worker"] = NoJob
    BY DEF DeletionInv, StartJob
  <2> QED
    BY <1>1, <1>2, <1>4, <2>1 DEF QueueIsSound
<1>7. "worker" \in Executors /\ queue' \in Seq(Jobs) /\ Len(queue') <= MaxQueue
  BY <1>1 DEF Executors, DeletionInv, TypeOK
<1> QED
  BY <1>1, <1>4, <1>5, <1>6, <1>7, JobStays

\* A job that goes on leaves the queue as it is sound.
LEMMA AdvanceKeepsQueue ==
  ASSUME DeletionInv, NEW e \in Executors, NEW pc \in Pcs \ {"idle", "inventory"}, JobGoes(e, pc),
         job[e].pc # "idle", queue' = queue,
         \A q \in Plans : plan[q].status = "checking" => plan'[q].status = "checking"
  PROVE  QueueIsSound'
<1>1. CASE e = "worker"
  <2>1. job["worker"] # NoJob /\ job'["worker"] # NoJob /\ job'["worker"].pc # "inventory"
    BY <1>1 DEF JobGoes, NoJob
  <2> QED
    BY <1>1, <2>1, QueueStays DEF JobGoes
<1>2. CASE e # "worker"
  BY <1>2, QueueStays DEF JobGoes, Executors
<1> QED
  BY <1>1, <1>2

LEMMA TakeLockIsSound ==
  ASSUME DeletionInv, TakeLock, reboots' = reboots
  PROVE  DeletionInv'
<1> DEFINE pc == IF job["worker"].kind = "reconcile" THEN "prove" ELSE "check"
<1>1. /\ UNCHANGED <<row, thread, flagged, place, trash, catalog, tombstone, claims, acting>>
      /\ UNCHANGED <<plan, queue, cleaning, late, overtaken, reboots>>
      /\ lock = "none" /\ lock' = "worker" /\ job["worker"].pc = "lock"
  BY DEF TakeLock, worker, recovery, Unlocked
<1>2. JobGoes("worker", pc) /\ pc \in {"prove", "check"}
  BY AdvanceIsSound DEF TakeLock, DeletionInv, Executors, Pcs
<1>3. JobIsSound("worker")'
  <2>1. JobIsSound("worker") /\ job["worker"].plan \in Plans
    BY <1>1 DEF DeletionInv, JobIsSound, Executors, NoJob
  <2> QED
    BY <1>1, <1>2, <2>1 DEF JobGoes, JobIsSound, Claimed, Dirs
<1>4. QueueIsSound'
  BY <1>1, <1>2, AdvanceKeepsQueue DEF Executors, Pcs
<1>5. "worker" \in Executors /\ queue' \in Seq(Jobs) /\ Len(queue') <= MaxQueue
  BY <1>1 DEF Executors, DeletionInv, TypeOK
<1> HIDE DEF pc
<1> QED
  BY <1>1, <1>2, <1>3, <1>4, <1>5, JobStays DEF JobGoes

LEMMA ProveAgainIsSound ==
  ASSUME DeletionInv, NEW p \in Plans, ProveAgain(p), reboots' = reboots
  PROVE  DeletionInv'
<1>1. /\ UNCHANGED <<row, thread, flagged, place, trash, catalog, tombstone, lock, claims, acting>>
      /\ UNCHANGED <<plan, queue, cleaning, late, overtaken, reboots>>
      /\ job["worker"].plan = p /\ job["worker"].pc = "prove"
  BY DEF ProveAgain, record, worker, recovery
<1>2. JobGoes("worker", "intend")
  BY AdvanceIsSound DEF ProveAgain, DeletionInv, Executors, Pcs, Claimed
<1>3. tombstone = [plan |-> p, status |-> "deleting"] /\ catalog # "live"
  BY DEF ProveAgain, Proven, Retired
<1>4. JobIsSound("worker")'
  <2>1. JobIsSound("worker")
    BY DEF DeletionInv, Executors
  <2> QED
    BY <1>1, <1>2, <1>3, <2>1 DEF JobGoes, JobIsSound, Locked, Dirs
<1>5. QueueIsSound'
  BY <1>1, <1>2, AdvanceKeepsQueue DEF Executors, Pcs, Claimed
<1>6. "worker" \in Executors /\ queue' \in Seq(Jobs) /\ Len(queue') <= MaxQueue
  BY <1>1 DEF Executors, DeletionInv, TypeOK
<1> QED
  BY <1>1, <1>2, <1>4, <1>5, <1>6, JobStays DEF JobGoes

LEMMA EndJobIsSound ==
  ASSUME DeletionInv, EndJob, reboots' = reboots
  PROVE  DeletionInv'
<1>1. /\ UNCHANGED <<row, thread, flagged, place, trash, catalog, tombstone, lock, claims, acting>>
      /\ UNCHANGED <<plan, cleaning, late, overtaken, reboots>>
      /\ queue' = Tail(queue) /\ job["worker"].pc = "finish"
  BY DEF EndJob, record, worker, recovery
<1>2. QueueIsSound /\ job["worker"] # NoJob /\ Len(queue) > 0 /\ queue \in Seq(Jobs) /\ Len(queue) \in Nat
  BY <1>1 DEF DeletionInv, TypeOK, QueueIsSound, NoJob
<1>3. /\ queue' \in Seq(Jobs) /\ Len(queue') = Len(queue) - 1
      /\ \A i \in 1..Len(queue') : queue'[i] = queue[i + 1] /\ i + 1 \in 1..Len(queue) /\ i + 1 > 1
  <2>1. queue # <<>>
    BY <1>2
  <2> QED
    BY <1>1, <1>2, <2>1
<1>4. Len(queue') <= MaxQueue
  BY <1>2, <1>3, DeletionAssumption DEF DeletionInv, TypeOK
<1>5. /\ job' \in [Executors -> [plan : Plans \cup {None}, kind : {"none", "prepare", "execute", "reconcile"}, pc : Pcs]]
      /\ job'["worker"] = NoJob /\ \A f \in Executors \ {"worker"} : job'[f] = job[f]
  <2>1. NoJob \in [plan : Plans \cup {None}, kind : {"none", "prepare", "execute", "reconcile"}, pc : Pcs]
    BY DEF NoJob, Pcs
  <2> QED
    BY <2>1 DEF EndJob, DeletionInv, TypeOK, Executors
<1>6. JobIsSound("worker")'
  BY <1>5 DEF JobIsSound, NoJob, Locked, Claimed, Dirs
<1>7. QueueIsSound'
  <2>1. \A i, j \in 1..Len(queue') : queue'[i].plan = queue'[j].plan => i = j
    <3>1. ASSUME NEW i \in 1..Len(queue'), NEW j \in 1..Len(queue'), queue'[i].plan = queue'[j].plan
          PROVE  i = j
      <4>1. i + 1 = j + 1
        BY <1>2, <1>3, <3>1 DEF QueueIsSound
      <4> QED
        BY <4>1
    <3> QED
      BY <3>1
  <2>2. \A i \in 1..Len(queue') : queue'[i].kind = "prepare" => plan[queue'[i].plan].status = "checking"
    BY <1>2, <1>3 DEF QueueIsSound
  <2> QED
    BY <1>1, <1>5, <2>1, <2>2 DEF QueueIsSound, NoJob
<1>8. "worker" \in Executors
  BY DEF Executors
<1> QED
  BY <1>1, <1>3, <1>4, <1>5, <1>6, <1>7, <1>8, JobStays

-----------------------------------------------------------------------------
(* Jobs: what they write.                                                  *)

\* The other executor, while e has the lock, is not at work on the task.
LEMMA OthersWait ==
  ASSUME DeletionInv, NEW e \in Executors, job[e].pc \in Locked,
         \A f \in Executors \ {e} : job'[f] = job[f]
  PROVE  \A f \in Executors \ {e} : JobIsSound(f)'
<1> SUFFICES ASSUME NEW f \in Executors \ {e} PROVE JobIsSound(f)'
  OBVIOUS
<1>1. JobIsSound(e) /\ JobIsSound(f)
  BY DEF DeletionInv
<1>2. job[f].pc \notin Locked
  BY <1>1 DEF JobIsSound
<1> QED
  BY <1>1, <1>2, IdleJob

LEMMA TakeInventoryIsSound ==
  ASSUME DeletionInv, NEW p \in Plans, TakeInventory(p), reboots' = reboots
  PROVE  DeletionInv'
<1>1. /\ UNCHANGED <<row, thread, flagged, place, trash, catalog, tombstone, lock, claims, acting>>
      /\ UNCHANGED <<queue, cleaning, late, overtaken, reboots>>
      /\ job["worker"].plan = p /\ job["worker"].kind = "prepare" /\ job["worker"].pc = "inventory"
      /\ job["worker"] # NoJob
  BY DEF TakeInventory, record, worker, recovery, NoJob
<1>2. PICK now \in BOOLEAN :
         /\ plan' = [plan EXCEPT ![p].status = "pending", ![p].requested = now]
         /\ Advance("worker", IF now THEN "lock" ELSE "finish")
  BY DEF TakeInventory
<1> DEFINE pc == IF now THEN "lock" ELSE "finish"
<1>3. JobGoes("worker", pc) /\ pc \in {"lock", "finish"}
  BY <1>2, AdvanceIsSound DEF DeletionInv, Executors, Pcs
<1> HIDE DEF pc
<1>4. plan[p].status = "checking" /\ tombstone.plan # p
  <2>1. queue[1].plan = p /\ queue[1].kind = "prepare" /\ 1 \in 1..Len(queue) /\ QueueIsSound
    BY <1>1 DEF DeletionInv, TypeOK, QueueIsSound
  <2>2. plan[p].status = "checking"
    BY <1>1, <2>1 DEF QueueIsSound
  <2> QED
    BY <2>2 DEF DeletionInv, PlanIsSound
<1> DEFINE first == [plan EXCEPT ![p].status = "pending"]
<1>5. /\ first \in [Plans -> Plan] /\ \A q \in Plans \ {p} : first[q] = plan[q]
      /\ first[p].manifest = plan[p].manifest /\ first[p].intent = plan[p].intent
      /\ first[p].cleanup = plan[p].cleanup /\ first[p].status = "pending"
  BY DEF DeletionInv, TypeOK, Plan
<1>6. plan' = [first EXCEPT ![p].requested = now]
  BY <1>2 DEF DeletionInv, TypeOK
<1> HIDE DEF first
<1>7. /\ plan' \in [Plans -> Plan] /\ \A q \in Plans \ {p} : plan'[q] = plan[q]
      /\ plan'[p].manifest = plan[p].manifest /\ plan'[p].intent = plan[p].intent
      /\ plan'[p].cleanup = plan[p].cleanup /\ plan'[p].status = "pending"
  BY <1>5, <1>6 DEF Plan
<1>8. TypeOK'
  BY <1>1, <1>3, <1>7 DEF DeletionInv, TypeOK, RecordTypeOK, RecoveryTypeOK, JobGoes
<1>9. \A f \in Executors : JobIsSound(f)'
  <2>1. JobIsSound("worker")'
    BY <1>1, <1>3 DEF JobGoes, JobIsSound, Locked, Claimed, Dirs
  <2>2. \A f \in Executors \ {"worker"} : JobIsSound(f)'
    BY <1>1, <1>3, <1>7, OtherJob DEF JobGoes
  <2> QED
    BY <2>1, <2>2
<1>10. \A q \in Plans : PlanIsSound(q)'
  <2>1. \A q \in Plans \ {p} : PlanIsSound(q)'
    BY <1>1, <1>7, OtherPlan
  <2>2. PlanIsSound(p)'
    BY <1>1, <1>4, <1>7 DEF DeletionInv, PlanIsSound, Removed
  <2> QED
    BY <2>1, <2>2
<1>11. QueueIsSound'
  <2>1. job'["worker"] # NoJob /\ job'["worker"].pc # "inventory"
    BY <1>3 DEF JobGoes, NoJob
  <2> QED
    BY <1>1, <1>3, <1>7, <2>1, QueueStays DEF JobGoes
<1> QED
  BY <1>1, <1>4, <1>7, <1>8, <1>9, <1>10, <1>11, RecordStays DEF Removed

LEMMA CheckAgainIsSound ==
  ASSUME DeletionInv, NEW e \in Executors, NEW p \in Plans, CheckAgain(e, p), reboots' = reboots
  PROVE  DeletionInv'
<1>1. /\ UNCHANGED <<row, thread, flagged, place, trash, catalog, tombstone, lock, claims, acting>>
      /\ UNCHANGED <<queue, cleaning, late, overtaken, reboots>>
      /\ job[e].plan = p /\ job[e].pc = "check" /\ plan[p].status = "pending" /\ row.status \in Terminal
      /\ plan' = [plan EXCEPT ![p].manifest = Inventory]
  BY DEF CheckAgain, record, worker, recovery
<1>2. JobGoes(e, "claim")
  BY AdvanceIsSound DEF CheckAgain, DeletionInv, Pcs
<1>3. Inventory \in Manifest
  <2>1. row \in Row /\ place \in Places /\ catalog \in {"none", "live", "retired"}
    BY DEF DeletionInv, TypeOK, RecordTypeOK
  <2>2. Revision \in (1..MaxAttempts) \X Terminal \X Versions
    BY <1>1, <2>1 DEF Row, Revision
  <2> QED
    BY <2>1, <2>2 DEF Inventory, Manifest
<1>4. tombstone.plan # p
  BY <1>1 DEF DeletionInv, PlanIsSound
<1>5. /\ plan' \in [Plans -> Plan] /\ \A q \in Plans \ {p} : plan'[q] = plan[q]
      /\ plan'[p].intent = plan[p].intent /\ plan'[p].status = plan[p].status /\ plan'[p].cleanup = plan[p].cleanup
  BY <1>1, <1>3 DEF DeletionInv, TypeOK, Plan
<1>6. TypeOK'
  BY <1>1, <1>2, <1>5 DEF DeletionInv, TypeOK, RecordTypeOK, RecoveryTypeOK, JobGoes
<1>7. job[e].pc \in Locked /\ JobIsSound(e)
  BY <1>1 DEF Locked, DeletionInv
<1>8. \A f \in Executors : JobIsSound(f)'
  <2>1. JobIsSound(e)'
    BY <1>1, <1>2, <1>7 DEF JobGoes, JobIsSound, Claimed, Dirs
  <2>2. \A f \in Executors \ {e} : JobIsSound(f)'
    BY <1>2, <1>7, OthersWait DEF JobGoes
  <2> QED
    BY <2>1, <2>2
<1>9. \A q \in Plans : PlanIsSound(q)'
  <2>1. \A q \in Plans \ {p} : PlanIsSound(q)'
    BY <1>1, <1>5, OtherPlan
  <2>2. PlanIsSound(p)'
    BY <1>1, <1>4, <1>5 DEF DeletionInv, PlanIsSound, Removed
  <2> QED
    BY <2>1, <2>2
<1>10. QueueIsSound'
  <2>1. \A q \in Plans : plan[q].status = "checking" => plan'[q].status = "checking"
    BY <1>1, <1>5
  <2> QED
    BY <1>1, <1>2, <2>1, AdvanceKeepsQueue DEF Pcs
<1> QED
  BY <1>1, <1>4, <1>5, <1>6, <1>8, <1>9, <1>10, RecordStays DEF Removed

LEMMA ClaimDeletionIsSound ==
  ASSUME DeletionInv, NEW e \in Executors, NEW p \in Plans, ClaimDeletion(e, p), reboots' = reboots
  PROVE  DeletionInv'
<1>1. /\ UNCHANGED <<row, thread, flagged, place, trash, catalog, lock, claims, acting>>
      /\ UNCHANGED <<queue, cleaning, late, reboots>>
      /\ job[e].plan = p /\ job[e].pc = "claim" /\ plan[p].status = "pending" /\ row.status \in Terminal
      /\ ~Blocked /\ tombstone' = [plan |-> p, status |-> "deleting"] /\ overtaken' = (thread # "none")
      /\ \A k \in Fingerprints : claims[k] \notin {"executing", "unknown"}
  BY DEF ClaimDeletion, worker, recovery
<1>2. JobGoes(e, "revoke")
  BY AdvanceIsSound DEF ClaimDeletion, DeletionInv, Pcs, Claimed
<1>3. PICK new \in Plan :
         /\ PlanBecomes(p, new) /\ new.status = "executing"
         /\ new.manifest = plan[p].manifest /\ new.intent = plan[p].intent /\ new.cleanup = plan[p].cleanup
  BY StatusFields DEF ClaimDeletion, DeletionInv, PlanStates
<1>4. tombstone.plan = None /\ ~overtaken
  BY <1>1 DEF DeletionInv, TombstoneIsSound
<1>5. TypeOK'
  BY <1>1, <1>2, <1>3 DEF DeletionInv, TypeOK, RecordTypeOK, RecoveryTypeOK, JobGoes, PlanBecomes
<1>6. job[e].pc \in Locked /\ JobIsSound(e)
  BY <1>1 DEF Locked, DeletionInv
<1>7. \A f \in Executors : JobIsSound(f)'
  <2>1. JobIsSound(e)'
    BY <1>1, <1>2, <1>6 DEF JobGoes, JobIsSound, Claimed, Dirs
  <2>2. \A f \in Executors \ {e} : JobIsSound(f)'
    BY <1>2, <1>6, OthersWait DEF JobGoes
  <2> QED
    BY <2>1, <2>2
<1>8. \A q \in Plans : PlanIsSound(q)'
  <2>1. \A q \in Plans : ~plan[q].intent /\ plan[q].status # "executing" /\ ~Removed(q) /\ q \notin late
                         /\ \A d \in Dirs : trash[q][d] = 0
    BY <1>4, RecordAssumption DEF DeletionInv, PlanIsSound
  <2>2. \A q \in Plans \ {p} : PlanIsSound(q)'
    BY <1>1, <1>3, <2>1 DEF PlanIsSound, Removed, PlanBecomes
  <2>3. PlanIsSound(p)'
    BY <1>1, <1>3, <2>1 DEF PlanIsSound, Removed, PlanBecomes
  <2> QED
    BY <2>2, <2>3
<1>9. QueueIsSound'
  <2>1. \A q \in Plans : plan[q].status = "checking" => plan'[q].status = "checking"
    BY <1>1, <1>3 DEF PlanBecomes
  <2> QED
    BY <1>1, <1>2, <2>1, AdvanceKeepsQueue DEF Pcs, Claimed
<1>10. TombstoneIsSound'
  <2>1. row.status # "absent"
    BY <1>1 DEF Terminal
  <2>2. p # None
    BY RecordAssumption
  <2> QED
    BY <1>1, <2>1, <2>2 DEF TombstoneIsSound, Blocked
<1>11. ProductIsSound' /\ RecoveryIsSound'
  BY <1>1, <1>4 DEF DeletionInv, ProductIsSound, LiveProductHasFiles, RecoveryIsSound
<1> QED
  BY <1>5, <1>7, <1>8, <1>9, <1>10, <1>11 DEF DeletionInv

LEMMA RevokeIsSound ==
  ASSUME DeletionInv, NEW e \in Executors, NEW p \in Plans, Revoke(e, p), reboots' = reboots
  PROVE  DeletionInv'
<1>1. /\ UNCHANGED <<row, thread, flagged, place, trash, tombstone, lock, claims, acting>>
      /\ UNCHANGED <<plan, queue, cleaning, late, overtaken, reboots>>
      /\ job[e].plan = p /\ job[e].pc = "revoke" /\ catalog' \in {"none", "retired"}
  BY DEF Revoke, worker, recovery, Retired
<1>2. JobGoes(e, "intend")
  BY AdvanceIsSound DEF Revoke, DeletionInv, Pcs, Claimed
<1>3. TypeOK'
  BY <1>1, <1>2 DEF DeletionInv, TypeOK, RecordTypeOK, RecoveryTypeOK, JobGoes
<1>4. job[e].pc \in Locked /\ job[e].pc \in Claimed /\ JobIsSound(e)
  BY <1>1 DEF Locked, Claimed, DeletionInv
<1>5. \A f \in Executors : JobIsSound(f)'
  <2>1. JobIsSound(e)'
    BY <1>1, <1>2, <1>4 DEF JobGoes, JobIsSound, Dirs
  <2>2. \A f \in Executors \ {e} : JobIsSound(f)'
    BY <1>2, <1>4, OthersWait DEF JobGoes
  <2> QED
    BY <2>1, <2>2
<1>6. \A q \in Plans : PlanIsSound(q)'
  BY <1>1, OtherPlan
<1>7. QueueIsSound'
  BY <1>1, <1>2, AdvanceKeepsQueue DEF Pcs, Claimed
<1>8. TombstoneIsSound' /\ ProductIsSound' /\ RecoveryIsSound'
  BY <1>1 DEF DeletionInv, TombstoneIsSound, Blocked, Removed, ProductIsSound, LiveProductHasFiles, RecoveryIsSound
<1> QED
  BY <1>3, <1>5, <1>6, <1>7, <1>8 DEF DeletionInv

LEMMA PurgeCatalogIsSound ==
  ASSUME DeletionInv, NEW e \in Executors, NEW p \in Plans, PurgeCatalog(e, p), reboots' = reboots
  PROVE  DeletionInv'
<1>1. /\ UNCHANGED <<row, thread, flagged, place, trash, tombstone, lock, claims, acting>>
      /\ UNCHANGED <<plan, queue, cleaning, late, overtaken, reboots>>
      /\ job[e].plan = p /\ job[e].pc = "catalog" /\ catalog' = "none"
  BY DEF PurgeCatalog, worker, recovery
<1>2. JobGoes(e, "purge")
  BY AdvanceIsSound DEF PurgeCatalog, DeletionInv, Pcs, Claimed
<1>3. TypeOK'
  BY <1>1, <1>2 DEF DeletionInv, TypeOK, RecordTypeOK, RecoveryTypeOK, JobGoes
<1>4. job[e].pc \in Locked /\ job[e].pc \in Claimed /\ JobIsSound(e)
  BY <1>1 DEF Locked, Claimed, DeletionInv
<1>5. \A f \in Executors : JobIsSound(f)'
  <2>1. MovedBefore("catalog") = Dirs /\ MovedBefore("purge") = Dirs
    BY DEF MovedBefore
  <2>2. JobIsSound(e)'
    BY <1>1, <1>2, <1>4, <2>1 DEF JobGoes, JobIsSound
  <2>3. \A f \in Executors \ {e} : JobIsSound(f)'
    BY <1>2, <1>4, OthersWait DEF JobGoes
  <2> QED
    BY <2>2, <2>3
<1>6. \A q \in Plans : PlanIsSound(q)'
  BY <1>1, OtherPlan
<1>7. QueueIsSound'
  BY <1>1, <1>2, AdvanceKeepsQueue DEF Pcs, Claimed
<1>8. TombstoneIsSound' /\ ProductIsSound' /\ RecoveryIsSound'
  BY <1>1 DEF DeletionInv, TombstoneIsSound, Blocked, Removed, ProductIsSound, LiveProductHasFiles, RecoveryIsSound
<1> QED
  BY <1>3, <1>5, <1>6, <1>7, <1>8 DEF DeletionInv

LEMMA RecordIntentIsSound ==
  ASSUME DeletionInv, NEW e \in Executors, NEW p \in Plans, RecordIntent(e, p), reboots' = reboots
  PROVE  DeletionInv'
<1>1. /\ UNCHANGED <<row, thread, flagged, place, trash, catalog, tombstone, lock, claims, acting>>
      /\ UNCHANGED <<queue, cleaning, late, overtaken, reboots>>
      /\ job[e].plan = p /\ job[e].pc = "intend"
      /\ plan' = [plan EXCEPT ![p].status = "executing", ![p].intent = TRUE]
  BY DEF RecordIntent, record, worker, recovery
<1>2. JobGoes(e, "remote")
  <2>1. Head(Moves) = "remote"
    BY DEF Moves
  <2>2. Advance(e, "remote")
    BY <2>1 DEF RecordIntent
  <2> QED
    BY <2>2, AdvanceIsSound DEF DeletionInv, Pcs, Claimed, Dirs
<1>3. job[e].pc \in Locked /\ job[e].pc \in Claimed /\ JobIsSound(e)
  BY <1>1 DEF Locked, Claimed, DeletionInv
<1>4. tombstone = [plan |-> p, status |-> "deleting"]
  BY <1>1, <1>3 DEF JobIsSound
<1> DEFINE first == [plan EXCEPT ![p].status = "executing"]
<1>5. /\ first \in [Plans -> Plan] /\ \A q \in Plans \ {p} : first[q] = plan[q]
      /\ first[p].manifest = plan[p].manifest /\ first[p].cleanup = plan[p].cleanup /\ first[p].status = "executing"
  BY DEF DeletionInv, TypeOK, Plan
<1>6. plan' = [first EXCEPT ![p].intent = TRUE]
  BY <1>1 DEF DeletionInv, TypeOK
<1> HIDE DEF first
<1>7. /\ plan' \in [Plans -> Plan] /\ \A q \in Plans \ {p} : plan'[q] = plan[q]
      /\ plan'[p].manifest = plan[p].manifest /\ plan'[p].cleanup = plan[p].cleanup
      /\ plan'[p].status = "executing" /\ plan'[p].intent
  BY <1>5, <1>6 DEF Plan
<1>8. TypeOK'
  BY <1>1, <1>2, <1>7 DEF DeletionInv, TypeOK, RecordTypeOK, RecoveryTypeOK, JobGoes
<1>9. \A f \in Executors : JobIsSound(f)'
  <2>1. MovedBefore("remote") = {}
    BY DEF MovedBefore
  <2>2. JobIsSound(e)'
    BY <1>1, <1>2, <1>3, <1>4, <1>7, <2>1 DEF JobGoes, JobIsSound
  <2>3. \A f \in Executors \ {e} : JobIsSound(f)'
    BY <1>2, <1>3, OthersWait DEF JobGoes
  <2> QED
    BY <2>2, <2>3
<1>10. \A q \in Plans : PlanIsSound(q)'
  <2>1. \A q \in Plans \ {p} : PlanIsSound(q)'
    BY <1>1, <1>7, OtherPlan
  <2>2. PlanIsSound(p)'
    BY <1>1, <1>4, <1>7 DEF DeletionInv, PlanIsSound, Removed
  <2> QED
    BY <2>1, <2>2
<1>11. QueueIsSound'
  <2>1. plan[p].status # "checking"
    BY <1>4 DEF DeletionInv, PlanIsSound
  <2>2. \A q \in Plans : plan[q].status = "checking" => plan'[q].status = "checking"
    BY <1>7, <2>1
  <2> QED
    BY <1>1, <1>2, <2>2, AdvanceKeepsQueue DEF Pcs, Claimed, Dirs
<1> QED
  BY <1>1, <1>7, <1>8, <1>9, <1>10, <1>11, RecordStays DEF Removed

\* A directory goes from its path into the quarantine.
LEMMA MoveIsSound ==
  ASSUME TypeOK, NEW p \in Plans, NEW d \in Dirs, Move(p, d)
  PROVE  /\ place' \in Places /\ place'[d] = 0 /\ \A x \in Dirs \ {d} : place'[x] = place[x]
         /\ trash' \in [Plans -> Places] /\ \A q \in Plans \ {p} : trash'[q] = trash[q]
         /\ trash'[p][d] = place[d] /\ \A x \in Dirs \ {d} : trash'[p][x] = trash[p][x]
<1>1. place \in Places /\ trash \in [Plans -> Places]
  BY DEF TypeOK, RecordTypeOK
<1>2. place' \in Places /\ place'[d] = 0 /\ \A x \in Dirs \ {d} : place'[x] = place[x]
  BY <1>1 DEF Move, Places, Dirs
<1> DEFINE new == [trash[p] EXCEPT ![d] = place[d]]
<1>3. new \in Places /\ new[d] = place[d] /\ \A x \in Dirs \ {d} : new[x] = trash[p][x]
  <2>1. trash[p] \in Places
    BY <1>1
  <2> QED
    BY <1>1, <2>1 DEF Places, Dirs
<1>4. trash' = [trash EXCEPT ![p] = new]
  BY DEF Move
<1> HIDE DEF new
<1>5. trash' \in [Plans -> Places] /\ trash'[p] = new /\ \A q \in Plans \ {p} : trash'[q] = trash[q]
  BY <1>1, <1>3, <1>4
<1> QED
  BY <1>2, <1>3, <1>5

LEMMA QuarantineIsSound ==
  ASSUME DeletionInv, NEW e \in Executors, NEW p \in Plans, QuarantineNext(e, p), reboots' = reboots
  PROVE  DeletionInv'
<1>1. PICK i \in DOMAIN Moves :
         /\ job[e].plan = p /\ job[e].pc = Moves[i] /\ Movable(p, Moves[i])
         /\ Move(p, Moves[i])
         /\ Advance(e, IF i = Len(Moves) THEN "catalog" ELSE Moves[i + 1])
         /\ UNCHANGED <<row, worker, catalog, tombstone, lock, recovery, plan, queue, cleaning, late, overtaken>>
  BY DEF QuarantineNext
<1> DEFINE d == Moves[i]
           pc == IF i = Len(Moves) THEN "catalog" ELSE Moves[i + 1]
<1>2. /\ d \in Dirs /\ pc \in (Dirs \cup {"catalog"}) \ {"remote"}
      /\ \A x \in MovedBefore(pc) : x = d \/ x \in MovedBefore(d)
      /\ MovedBefore(pc) \subseteq Dirs
  <2>1. DOMAIN Moves = 1..3 /\ Len(Moves) = 3 /\ Moves[1] = "remote" /\ Moves[2] = "run" /\ Moves[3] = "product"
    BY DEF Moves
  <2>2. i = 1 \/ i = 2 \/ i = 3
    BY <2>1
  <2> QED
    BY <2>1, <2>2 DEF Dirs, MovedBefore
<1>3. job[e].plan = p /\ job[e].pc = d /\ Unmoved(p, d) /\ Move(p, d) /\ Advance(e, pc)
  BY <1>1 DEF Movable
<1>4. /\ UNCHANGED <<row, thread, flagged, catalog, tombstone, lock, claims, acting>>
      /\ UNCHANGED <<plan, queue, cleaning, late, overtaken, reboots>>
  BY <1>1 DEF worker, recovery
<1> HIDE DEF d, pc
<1>5. JobGoes(e, pc) /\ pc \in Pcs \ {"idle", "inventory"}
  BY <1>2, <1>3, AdvanceIsSound DEF DeletionInv, Pcs, Claimed, Dirs
<1>6. /\ place' \in Places /\ place'[d] = 0 /\ \A x \in Dirs \ {d} : place'[x] = place[x]
      /\ trash' \in [Plans -> Places] /\ \A q \in Plans \ {p} : trash'[q] = trash[q]
      /\ trash'[p][d] = plan[p].manifest.dirs[d] /\ \A x \in Dirs \ {d} : trash'[p][x] = trash[p][x]
  BY <1>2, <1>3, MoveIsSound DEF DeletionInv, Unmoved
<1>7. job[e].pc \in Locked /\ job[e].pc \in Claimed \ {"revoke"} /\ JobIsSound(e) /\ job[e].pc \in Dirs
  BY <1>2, <1>3 DEF Locked, Claimed, DeletionInv, Dirs
<1>8. /\ tombstone = [plan |-> p, status |-> "deleting"] /\ plan[p].intent
      /\ ~overtaken => catalog # "live"
      /\ \A x \in MovedBefore(d) : trash[p][x] = plan[p].manifest.dirs[x]
  BY <1>3, <1>7 DEF JobIsSound
<1>9. TypeOK'
  BY <1>4, <1>5, <1>6 DEF DeletionInv, TypeOK, RecordTypeOK, RecoveryTypeOK, JobGoes
<1>10. \A f \in Executors : JobIsSound(f)'
  <2>1. \A x \in MovedBefore(pc) : trash'[p][x] = plan'[p].manifest.dirs[x]
    BY <1>2, <1>4, <1>6, <1>8
  <2>2. JobIsSound(e)'
    BY <1>2, <1>3, <1>4, <1>5, <1>7, <1>8, <2>1 DEF JobGoes, JobIsSound
  <2>3. \A f \in Executors \ {e} : JobIsSound(f)'
    BY <1>5, <1>7, OthersWait DEF JobGoes
  <2> QED
    BY <2>2, <2>3
<1>11. \A q \in Plans : PlanIsSound(q)'
  <2>1. \A q \in Plans \ {p} : PlanIsSound(q)'
    BY <1>4, <1>6, OtherPlan
  <2>2. PlanIsSound(p)'
    BY <1>4, <1>6, <1>8 DEF DeletionInv, PlanIsSound, Removed
  <2> QED
    BY <2>1, <2>2
<1>12. QueueIsSound'
  BY <1>3, <1>4, <1>5, <1>7, AdvanceKeepsQueue DEF Dirs
<1>13. TombstoneIsSound'
  BY <1>4, <1>8 DEF DeletionInv, TombstoneIsSound, Blocked, Removed
<1>14. ProductIsSound' /\ RecoveryIsSound'
  BY <1>4, <1>8 DEF DeletionInv, ProductIsSound, LiveProductHasFiles, RecoveryIsSound
<1> QED
  BY <1>9, <1>10, <1>11, <1>12, <1>13, <1>14 DEF DeletionInv

\* What the end of a job's work leaves of it and of the queue.
LEMMA LeaveIsSound ==
  ASSUME DeletionInv, NEW e \in Executors, Leave(e), job[e].pc # "idle", queue' = queue,
         \A q \in Plans \ {job[e].plan} : plan[q].status = "checking" => plan'[q].status = "checking",
         e = "request" => \A q \in Plans : plan[q].status = "checking" => plan'[q].status = "checking"
  PROVE  /\ job' \in [Executors -> [plan : Plans \cup {None}, kind : {"none", "prepare", "execute", "reconcile"}, pc : Pcs]]
         /\ \A f \in Executors \ {e} : job'[f] = job[f]
         /\ JobIsSound(e)' /\ QueueIsSound'
<1>1. CASE e = "worker"
  <2>1. job' = [job EXCEPT !["worker"].pc = "finish"]
    BY <1>1 DEF Leave
  <2>2. JobGoes("worker", "finish")
    BY <1>1, <2>1 DEF DeletionInv, TypeOK, JobGoes, Pcs
  <2>3. job["worker"] # NoJob /\ job'["worker"] # NoJob /\ job'["worker"].pc # "inventory"
    BY <1>1, <2>2 DEF JobGoes, NoJob
  <2>4. JobIsSound("worker")'
    <3>1. JobIsSound("worker") /\ job["worker"].plan \in Plans
      BY <1>1, <2>3 DEF DeletionInv, JobIsSound
    <3> QED
      BY <2>2, <3>1 DEF JobGoes, JobIsSound, Locked, Claimed, Dirs
  <2>5. QueueIsSound'
    BY <1>1, <2>2, <2>3, QueueStays DEF JobGoes
  <2> QED
    BY <1>1, <2>2, <2>4, <2>5 DEF JobGoes
<1>2. CASE e = "request"
  <2>1. job' = [job EXCEPT !["request"] = NoJob]
    BY <1>2 DEF Leave
  <2>2. NoJob \in [plan : Plans \cup {None}, kind : {"none", "prepare", "execute", "reconcile"}, pc : Pcs]
    BY DEF NoJob, Pcs
  <2>3. /\ job' \in [Executors -> [plan : Plans \cup {None}, kind : {"none", "prepare", "execute", "reconcile"}, pc : Pcs]]
        /\ job'["request"] = NoJob /\ \A f \in Executors \ {"request"} : job'[f] = job[f]
    BY <1>2, <2>1, <2>2 DEF DeletionInv, TypeOK
  <2>4. JobIsSound("request")'
    BY <2>3 DEF JobIsSound, NoJob, Locked, Claimed, Dirs
  <2>5. job'["worker"] = job["worker"]
    BY <2>3 DEF Executors
  <2>6. QueueIsSound'
    BY <1>2, <2>5, QueueStays
  <2> QED
    BY <1>2, <2>3, <2>4, <2>6
<1> QED
  BY <1>1, <1>2 DEF Executors

LEMMA PurgeRowIsSound ==
  ASSUME DeletionInv, NEW e \in Executors, NEW p \in Plans, PurgeRow(e, p), reboots' = reboots
  PROVE  DeletionInv'
<1>1. /\ UNCHANGED <<thread, flagged, place, trash, catalog, acting>>
      /\ UNCHANGED <<queue, late, overtaken, reboots>>
      /\ job[e].plan = p /\ job[e].pc = "purge" /\ tombstone = [plan |-> p, status |-> "deleting"]
      /\ tombstone' = [tombstone EXCEPT !.status = "deleted"]
      /\ plan' = [plan EXCEPT ![p].cleanup = "pending"] /\ cleaning' = cleaning \cup {p}
      /\ Leave(e)
  BY DEF PurgeRow, worker
<1>2. tombstone' = [plan |-> p, status |-> "deleted"]
  BY <1>1
<1>3. row' \in Row /\ row'.status = "absent"
  BY DEF PurgeRow, DeletionInv, TypeOK, RecordTypeOK, Row
<1>4. claims' = [k \in Fingerprints |-> "none"]
  BY DEF PurgeRow
<1>5. /\ plan' \in [Plans -> Plan] /\ \A q \in Plans \ {p} : plan'[q] = plan[q]
      /\ plan'[p].manifest = plan[p].manifest /\ plan'[p].intent = plan[p].intent
      /\ plan'[p].status = plan[p].status /\ plan'[p].cleanup = "pending"
  BY <1>1 DEF DeletionInv, TypeOK, Plan
<1>6. \A q \in Plans : plan[q].status = "checking" => plan'[q].status = "checking"
  BY <1>5
<1>7. /\ job' \in [Executors -> [plan : Plans \cup {None}, kind : {"none", "prepare", "execute", "reconcile"}, pc : Pcs]]
      /\ \A f \in Executors \ {e} : job'[f] = job[f]
      /\ JobIsSound(e)' /\ QueueIsSound'
  BY <1>1, <1>6, LeaveIsSound
<1>8. job[e].pc \in Locked /\ job[e].pc \in Claimed /\ JobIsSound(e)
  BY <1>1 DEF Locked, Claimed, DeletionInv
<1>9. lock = e /\ lock' = "none" /\ plan[p].intent /\ \A d \in Dirs : trash[p][d] = plan[p].manifest.dirs[d]
  <2>1. MovedBefore("purge") = Dirs
    BY DEF MovedBefore
  <2> QED
    BY <1>1, <1>8, <2>1 DEF JobIsSound, Leave
<1>10. TypeOK'
  BY <1>1, <1>2, <1>3, <1>4, <1>5, <1>7, <1>9 DEF DeletionInv, TypeOK, RecordTypeOK, RecoveryTypeOK
<1>11. \A f \in Executors : JobIsSound(f)'
  <2>1. \A f \in Executors \ {e} : JobIsSound(f)'
    BY <1>7, <1>8, OthersWait
  <2> QED
    BY <1>7, <2>1
<1>12. \A q \in Plans : PlanIsSound(q)'
  <2>1. ASSUME NEW q \in Plans \ {p} PROVE PlanIsSound(q)'
    <3>1. PlanIsSound(q) /\ tombstone.plan # q /\ tombstone'.plan # q
      BY <1>1, <1>2 DEF DeletionInv
    <3> QED
      BY <1>1, <1>5, <3>1 DEF PlanIsSound, Removed
  <2>2. PlanIsSound(p)'
    <3>1. PlanIsSound(p)
      BY DEF DeletionInv
    <3> QED
      BY <1>1, <1>2, <1>5, <1>9, <3>1 DEF PlanIsSound, Removed
  <2> QED
    BY <2>1, <2>2
<1>13. TombstoneIsSound'
  <2>1. trash[p] = plan[p].manifest.dirs
    <3>1. plan[p].manifest.dirs \in Places /\ trash[p] \in Places
      BY PlanFields DEF DeletionInv
    <3> QED
      BY <1>9, <3>1 DEF Places, Dirs
  <2>2. p # None
    BY RecordAssumption
  <2> QED
    BY <1>1, <1>2, <1>3, <1>4, <1>5, <2>1, <2>2 DEF DeletionInv, TombstoneIsSound, Blocked, Removed
<1>14. ProductIsSound' /\ RecoveryIsSound'
  BY <1>1, <1>9 DEF DeletionInv, ProductIsSound, LiveProductHasFiles, RecoveryIsSound
<1> QED
  BY <1>7, <1>10, <1>11, <1>12, <1>13, <1>14 DEF DeletionInv

LEMMA FailJobIsSound ==
  ASSUME DeletionInv, NEW e \in Executors, NEW p \in Plans, FailJob(e, p), reboots' = reboots
  PROVE  DeletionInv'
<1>1. /\ UNCHANGED <<row, thread, flagged, place, trash, catalog, tombstone, claims, acting>>
      /\ UNCHANGED <<queue, cleaning, overtaken, reboots>>
      /\ job[e].plan = p /\ job[e].pc \notin {"idle", "lock", "finish"}
      /\ late' \in (IF job[e].pc = "remote" THEN {late, late \cup {p}} ELSE {late})
      /\ Leave(e)
  BY DEF FailJob, worker, recovery
<1>2. JobIsSound(e) /\ PlanIsSound(p) /\ e \in {"worker", "request"}
  BY DEF DeletionInv, Executors
<1>3. \/ plan' = plan
      \/ /\ plan' = [plan EXCEPT ![p].status = "unknown"] /\ (job[e].pc \in Claimed \/ e = "worker")
      \/ plan' = [plan EXCEPT ![p].status = "blocked"] /\ e = "worker"
  BY DEF FailJob
<1>4. PICK new \in Plan :
         /\ PlanBecomes(p, new) /\ (new.status \in {"unknown", "blocked"} \/ new.status = plan[p].status)
         /\ new.manifest = plan[p].manifest /\ new.intent = plan[p].intent /\ new.cleanup = plan[p].cleanup
  <2>1. TypeOK /\ plan[p] \in Plan /\ plan \in [Plans -> Plan]
    BY DEF DeletionInv, TypeOK
  <2>2. CASE plan' = plan
    BY <2>1, <2>2 DEF PlanBecomes
  <2>3. CASE plan' = [plan EXCEPT ![p].status = "unknown"]
    BY <2>1, <2>3, StatusFields DEF PlanStates
  <2>4. CASE plan' = [plan EXCEPT ![p].status = "blocked"]
    BY <2>1, <2>4, StatusFields DEF PlanStates
  <2> QED
    BY <1>3, <2>2, <2>3, <2>4
<1>5. /\ job' \in [Executors -> [plan : Plans \cup {None}, kind : {"none", "prepare", "execute", "reconcile"}, pc : Pcs]]
      /\ \A f \in Executors \ {e} : job'[f] = job[f]
      /\ JobIsSound(e)' /\ QueueIsSound'
  <2>1. \A q \in Plans \ {job[e].plan} : plan[q].status = "checking" => plan'[q].status = "checking"
    BY <1>1, <1>4 DEF PlanBecomes
  <2>2. ASSUME e = "request", NEW q \in Plans, plan[q].status = "checking" PROVE plan'[q].status = "checking"
    <3>1. CASE plan' = plan
      BY <2>2, <3>1
    <3>2. CASE job[e].pc \in Claimed
      <4>1. q # p
        BY <1>1, <1>2, <2>2, <3>2 DEF JobIsSound, PlanIsSound
      <4> QED
        BY <2>1, <2>2, <1>1, <4>1
    <3> QED
      BY <1>3, <2>2, <3>1, <3>2
  <2> QED
    BY <1>1, <2>1, <2>2, LeaveIsSound
<1>6. p \in late' /\ p \notin late => plan[p].intent
  BY <1>1, <1>2 DEF JobIsSound, Dirs
<1>7. TypeOK'
  <2>1. late' \subseteq Plans
    BY <1>1 DEF DeletionInv, TypeOK
  <2>2. lock' \in Holders \cup {"none"}
    BY <1>1 DEF Leave, DeletionInv, TypeOK, RecordTypeOK
  <2> QED
    BY <1>1, <1>4, <1>5, <2>1, <2>2 DEF DeletionInv, TypeOK, RecordTypeOK, RecoveryTypeOK, PlanBecomes
<1>8. ASSUME NEW f \in Executors \ {e} PROVE JobIsSound(f)'
  <2>1. job[f].pc \in Locked => lock' = lock
    BY <1>1 DEF Leave, DeletionInv, JobIsSound
  <2> QED
    BY <1>1, <1>4, <1>5, <2>1, OtherJob DEF PlanBecomes
<1>9. \A q \in Plans : PlanIsSound(q)'
  <2>1. \A q \in Plans \ {p} : PlanIsSound(q)'
    BY <1>1, <1>4, OtherPlan DEF PlanBecomes
  <2>2. PlanIsSound(p)'
    BY <1>1, <1>2, <1>4, <1>6 DEF PlanIsSound, Removed, PlanBecomes
  <2> QED
    BY <2>1, <2>2
<1>10. lock' = "repair" => lock = "repair"
  BY <1>1 DEF Leave
<1> QED
  BY <1>1, <1>4, <1>5, <1>7, <1>8, <1>9, <1>10, RecordStays DEF Removed, PlanBecomes

-----------------------------------------------------------------------------
(* The host's late rename and the emptying of the quarantine.              *)

LEMMA LateRenameIsSound ==
  ASSUME DeletionInv, NEW p \in Plans, LateRename(p), reboots' = reboots
  PROVE  DeletionInv'
<1>1. /\ UNCHANGED <<row, thread, flagged, catalog, tombstone, lock, claims, acting>>
      /\ UNCHANGED <<plan, queue, job, cleaning, overtaken, reboots>>
      /\ p \in late /\ late' = late \ {p}
  BY DEF LateRename, worker, recovery
<1>2. PlanIsSound(p) /\ plan[p].intent /\ tombstone.plan = p
  BY <1>1 DEF DeletionInv, PlanIsSound
<1>3. place \in Places /\ trash \in [Plans -> Places] /\ "remote" \in Dirs
  BY DEF DeletionInv, TypeOK, RecordTypeOK, Dirs
<1>4. /\ place' \in Places /\ place'["product"] = place["product"]
      /\ trash' \in [Plans -> Places] /\ \A q \in Plans \ {p} : trash'[q] = trash[q]
      /\ \A d \in Dirs : trash'[p][d] = trash[p][d]
                         \/ (trash[p][d] = 0 /\ trash'[p][d] = plan[p].manifest.dirs[d])
  <2>1. CASE Movable(p, "remote")
    <3>1. Unmoved(p, "remote") /\ Move(p, "remote") /\ TypeOK
      BY <2>1 DEF LateRename, Movable, DeletionInv
    <3>2. /\ place' \in Places /\ \A x \in Dirs \ {"remote"} : place'[x] = place[x]
          /\ trash' \in [Plans -> Places] /\ \A q \in Plans \ {p} : trash'[q] = trash[q]
          /\ trash'[p]["remote"] = place["remote"] /\ \A x \in Dirs \ {"remote"} : trash'[p][x] = trash[p][x]
      BY <1>3, <3>1, MoveIsSound
    <3>3. "product" \in Dirs \ {"remote"}
      BY DEF Dirs
    <3> QED
      BY <3>1, <3>2, <3>3 DEF Unmoved
  <2>2. CASE ~Movable(p, "remote")
    BY <1>3, <2>2 DEF LateRename
  <2> QED
    BY <2>1, <2>2
<1>5. \A d \in Dirs : trash[p][d] = plan[p].manifest.dirs[d] => trash'[p][d] = plan[p].manifest.dirs[d]
  BY <1>4
<1>6. TypeOK'
  BY <1>1, <1>4 DEF DeletionInv, TypeOK, RecordTypeOK, RecoveryTypeOK
<1>7. ASSUME NEW e \in Executors PROVE JobIsSound(e)'
  <2>1. JobIsSound(e)
    BY DEF DeletionInv
  <2>2. ASSUME job[e].pc \in Dirs \cup {"catalog", "purge"}, NEW d \in MovedBefore(job[e].pc)
        PROVE  trash'[job[e].plan][d] = plan[job[e].plan].manifest.dirs[d]
    <3>1. d \in Dirs
      BY <2>2 DEF MovedBefore, Dirs
    <3>2. job[e].plan \in Plans
      BY <2>1, <2>2 DEF JobIsSound, Dirs, NoJob
    <3> QED
      BY <1>4, <1>5, <2>1, <2>2, <3>1, <3>2 DEF JobIsSound
  <2> QED
    BY <1>1, <2>1, <2>2 DEF JobIsSound
<1>8. \A q \in Plans : PlanIsSound(q)'
  <2>1. \A q \in Plans \ {p} : PlanIsSound(q)'
    BY <1>1, <1>4, OtherPlan
  <2>2. PlanIsSound(p)'
    BY <1>1, <1>2, <1>4 DEF PlanIsSound, Removed
  <2> QED
    BY <2>1, <2>2
<1>9. QueueIsSound'
  BY <1>1, QueueStays
<1>10. TombstoneIsSound'
  <2>1. ASSUME trash[p] = plan[p].manifest.dirs PROVE trash'[p] = plan[p].manifest.dirs
    <3>1. trash'[p] \in Places /\ trash[p] \in Places
      BY <1>3, <1>4
    <3>2. \A d \in Dirs : trash'[p][d] = trash[p][d]
      BY <1>5, <2>1
    <3>3. trash'[p] = trash[p]
      BY <3>1, <3>2 DEF Places, Dirs
    <3> QED
      BY <2>1, <3>3
  <2> QED
    BY <1>1, <1>2, <2>1 DEF DeletionInv, TombstoneIsSound, Blocked, Removed
<1>11. ProductIsSound' /\ RecoveryIsSound'
  BY <1>1, <1>4 DEF DeletionInv, ProductIsSound, LiveProductHasFiles, RecoveryIsSound
<1> QED
  BY <1>6, <1>7, <1>8, <1>9, <1>10, <1>11 DEF DeletionInv

\* A plan whose row was deleted has no job any more that writes.
LEMMA RemovedIsDone ==
  ASSUME DeletionInv, NEW p \in Plans, Removed(p), NEW e \in Executors, job[e].plan = p
  PROVE  job[e].pc \notin Claimed
<1>1. tombstone.status = "deleted"
  BY DEF DeletionInv, PlanIsSound
<1>2. JobIsSound(e)
  BY DEF DeletionInv
<1> QED
  BY <1>1, <1>2 DEF JobIsSound

\* The cleanup of a removed task writes its plan and empties its quarantine.
LEMMA CleanupStays ==
  ASSUME DeletionInv, NEW p \in Plans, Removed(p), Removed(p)',
         UNCHANGED <<row, thread, flagged, place, catalog, tombstone, lock, claims, acting>>,
         UNCHANGED <<queue, job, late, overtaken, reboots>>,
         plan' \in [Plans -> Plan], \A q \in Plans \ {p} : plan'[q] = plan[q],
         plan'[p].manifest = plan[p].manifest, plan'[p].intent = plan[p].intent,
         plan'[p].status = plan[p].status \/ plan'[p].status \in {"complete", "unknown"},
         plan'[p].cleanup # "pending",
         trash' \in [Plans -> Places], \A q \in Plans \ {p} : trash'[q] = trash[q],
         \A d \in Dirs : trash'[p][d] \in {0, trash[p][d]}, cleaning' \subseteq Plans
  PROVE  DeletionInv'
<1>1. PlanIsSound(p) /\ tombstone.plan = p /\ tombstone.status = "deleted"
  BY DEF DeletionInv, PlanIsSound
<1>2. TypeOK'
  BY DEF DeletionInv, TypeOK, RecordTypeOK, RecoveryTypeOK
<1>3. ASSUME NEW e \in Executors PROVE JobIsSound(e)'
  <2>1. JobIsSound(e) /\ job[e].pc \notin Claimed
    BY <1>1 DEF DeletionInv, JobIsSound
  <2>2. job[e].pc \notin Dirs \cup {"catalog", "purge"}
    BY <2>1 DEF Claimed
  <2> QED
    BY <2>1, <2>2 DEF JobIsSound
<1>4. \A q \in Plans : PlanIsSound(q)'
  <2>1. \A q \in Plans \ {p} : PlanIsSound(q)'
    BY OtherPlan
  <2>2. PlanIsSound(p)'
    BY <1>1 DEF PlanIsSound
  <2> QED
    BY <2>1, <2>2
<1>5. QueueIsSound'
  <2>1. plan[p].status # "checking"
    BY <1>1 DEF PlanIsSound
  <2>2. \A q \in Plans : plan[q].status = "checking" => plan'[q].status = "checking"
    BY <2>1
  <2> QED
    BY <2>2, QueueStays
<1>6. TombstoneIsSound'
  BY <1>1 DEF DeletionInv, TombstoneIsSound, Blocked
<1>7. ProductIsSound' /\ RecoveryIsSound'
  BY DEF DeletionInv, ProductIsSound, LiveProductHasFiles, RecoveryIsSound
<1> QED
  BY <1>2, <1>3, <1>4, <1>5, <1>6, <1>7 DEF DeletionInv

LEMMA StartCleanupIsSound ==
  ASSUME DeletionInv, NEW p \in Plans, StartCleanup(p), reboots' = reboots
  PROVE  DeletionInv'
<1>1. /\ UNCHANGED <<row, thread, flagged, place, trash, catalog, tombstone, lock, claims, acting>>
      /\ UNCHANGED <<queue, job, cleaning, late, overtaken, reboots>>
      /\ plan[p].cleanup = "pending" /\ plan' = [plan EXCEPT ![p].cleanup = "running"]
  BY DEF StartCleanup, record, worker, recovery
<1>2. /\ plan' \in [Plans -> Plan] /\ \A q \in Plans \ {p} : plan'[q] = plan[q]
      /\ plan'[p].manifest = plan[p].manifest /\ plan'[p].intent = plan[p].intent
      /\ plan'[p].status = plan[p].status /\ plan'[p].cleanup = "running"
  BY <1>1 DEF DeletionInv, TypeOK, Plan
<1>3. Removed(p) /\ Removed(p)'
  BY <1>1, <1>2 DEF Removed
<1>4. trash \in [Plans -> Places] /\ cleaning \subseteq Plans
  BY DEF DeletionInv, TypeOK, RecordTypeOK
<1> QED
  BY <1>1, <1>2, <1>3, <1>4, CleanupStays

LEMMA CleanupIsSound ==
  ASSUME DeletionInv, NEW p \in Plans, Cleanup(p), reboots' = reboots
  PROVE  DeletionInv'
<1>1. /\ UNCHANGED <<row, thread, flagged, place, catalog, tombstone, lock, claims, acting>>
      /\ UNCHANGED <<queue, job, late, overtaken, reboots>>
      /\ plan[p].cleanup = "running" /\ cleaning' = cleaning \ {p}
  BY DEF Cleanup, worker, recovery
<1>2. PICK n \in 0..Len(Moves), end \in {"complete", "unknown"} :
         trash' = Emptied(p, n) /\ plan' = [plan EXCEPT ![p].cleanup = end, ![p].status = end]
  BY DEF Cleanup
<1> DEFINE first == [plan EXCEPT ![p].cleanup = end]
<1>3. /\ first \in [Plans -> Plan] /\ \A q \in Plans \ {p} : first[q] = plan[q]
      /\ first[p].manifest = plan[p].manifest /\ first[p].intent = plan[p].intent /\ first[p].cleanup = end
  BY DEF DeletionInv, TypeOK, Plan
<1>4. plan' = [first EXCEPT ![p].status = end]
  BY <1>2 DEF DeletionInv, TypeOK
<1> HIDE DEF first
<1>5. /\ plan' \in [Plans -> Plan] /\ \A q \in Plans \ {p} : plan'[q] = plan[q]
      /\ plan'[p].manifest = plan[p].manifest /\ plan'[p].intent = plan[p].intent
      /\ plan'[p].status = end /\ plan'[p].cleanup = end
  BY <1>3, <1>4 DEF Plan
<1>6. Removed(p) /\ Removed(p)'
  BY <1>1, <1>5 DEF Removed
<1>7. trash \in [Plans -> Places] /\ cleaning' \subseteq Plans
  BY <1>1 DEF DeletionInv, TypeOK, RecordTypeOK
<1> DEFINE new == [d \in Dirs |-> IF \E i \in 1..n : Moves[i] = d THEN 0 ELSE trash[p][d]]
<1>8. trash' = [trash EXCEPT ![p] = new]
  BY <1>2, <1>7 DEF Emptied
<1>9. new \in Places /\ \A d \in Dirs : new[d] \in {0, trash[p][d]}
  <2>1. trash[p] \in Places
    BY <1>7
  <2>2. \A d \in Dirs : new[d] \in {0, trash[p][d]}
    OBVIOUS
  <2>3. DOMAIN new = Dirs /\ new = [d \in Dirs |-> new[d]]
    OBVIOUS
  <2> HIDE DEF new
  <2> QED
    BY <2>1, <2>2, <2>3 DEF Places, Dirs
<1> HIDE DEF new
<1>10. /\ trash' \in [Plans -> Places] /\ \A q \in Plans \ {p} : trash'[q] = trash[q]
       /\ \A d \in Dirs : trash'[p][d] \in {0, trash[p][d]}
  BY <1>7, <1>8, <1>9
<1> QED
  BY <1>1, <1>5, <1>6, <1>7, <1>10, CleanupStays

-----------------------------------------------------------------------------
(* A restart of the API.                                                   *)

LEMMA InterruptedIsSound ==
  ASSUME NEW q \in Plan
  PROVE  /\ Interrupted(q) \in Plan
         /\ Interrupted(q).manifest = q.manifest /\ Interrupted(q).intent = q.intent
         /\ Interrupted(q).cleanup = q.cleanup /\ Interrupted(q).status # "executing"
         /\ q.status \notin {"none", "checking", "pending"} =>
               Interrupted(q).status \notin {"none", "checking", "pending"}
  BY DEF Interrupted, Plan

LEMMA RebootIsSound ==
  ASSUME DeletionInv, Reboot
  PROVE  DeletionInv'
<1>1. /\ UNCHANGED <<row, place, trash, catalog, tombstone, claims, late, overtaken>>
      /\ thread' = "none" /\ lock' = "none" /\ flagged' \in BOOLEAN /\ acting' = NoAct
      /\ queue' = <<>> /\ cleaning' = {} /\ job' = [e \in Executors |-> NoJob]
      /\ plan' = [p \in Plans |-> Interrupted(plan[p])]
  BY DEF Reboot, RecordRestarts, RecoveryRestarts
<1>2. \A p \in Plans : plan[p] \in Plan /\ plan'[p] = Interrupted(plan[p])
  BY <1>1 DEF DeletionInv, TypeOK
<1>3. /\ plan' \in [Plans -> Plan]
      /\ \A p \in Plans : /\ plan'[p].manifest = plan[p].manifest /\ plan'[p].intent = plan[p].intent
                          /\ plan'[p].cleanup = plan[p].cleanup /\ plan'[p].status # "executing"
                          /\ plan[p].status \notin {"none", "checking", "pending"} =>
                                plan'[p].status \notin {"none", "checking", "pending"}
  BY <1>1, <1>2, InterruptedIsSound
<1>4. /\ job' \in [Executors -> [plan : Plans \cup {None}, kind : {"none", "prepare", "execute", "reconcile"}, pc : Pcs]]
      /\ \A e \in Executors : job'[e] = NoJob
  <2>1. NoJob \in [plan : Plans \cup {None}, kind : {"none", "prepare", "execute", "reconcile"}, pc : Pcs]
    BY DEF NoJob, Pcs
  <2> QED
    BY <1>1, <2>1
<1>5. queue' \in Seq(Jobs) /\ Len(queue') = 0 /\ 0 <= MaxQueue
  BY <1>1, DeletionAssumption
<1>6. reboots' \in 0..MaxReboots
  BY DeletionAssumption DEF Reboot, DeletionInv, TypeOK
<1>7. TypeOK'
  BY <1>1, <1>3, <1>4, <1>5, <1>6 DEF DeletionInv, TypeOK, RecordTypeOK, RecoveryTypeOK
<1>8. \A e \in Executors : JobIsSound(e)'
  BY <1>4 DEF JobIsSound, NoJob, Locked, Claimed, Dirs
<1>9. \A p \in Plans : PlanIsSound(p)'
  BY <1>1, <1>3 DEF DeletionInv, PlanIsSound, Removed
<1>10. QueueIsSound'
  BY <1>4, <1>5 DEF QueueIsSound, NoJob, Executors
<1>11. TombstoneIsSound'
  <2>1. row.status = "absent" => tombstone.plan \in Plans
    BY DEF DeletionInv, TombstoneIsSound, TypeOK, RecordTypeOK, Blocked
  <2> QED
    BY <1>1, <1>3, <2>1 DEF DeletionInv, TombstoneIsSound, Blocked, Removed
<1>12. ProductIsSound' /\ RecoveryIsSound'
  BY <1>1 DEF DeletionInv, ProductIsSound, LiveProductHasFiles, RecoveryIsSound
<1> QED
  BY <1>7, <1>8, <1>9, <1>10, <1>11, <1>12 DEF DeletionInv

-----------------------------------------------------------------------------
(* All steps.                                                              *)

LEMMA RecoverIsSound ==
  ASSUME DeletionInv, Recover, UNCHANGED deletion, reboots' = reboots
  PROVE  DeletionInv'
<1>1. CASE ExecuteRepair("restart")
  BY <1>1, ClaimIsSound
<1>2. CASE ExecuteRepair("resume")
  BY <1>2, ClaimIsSound
<1>3. CASE FinishRepair
  BY <1>3, FinishIsSound
<1> QED
  BY <1>1, <1>2, <1>3 DEF Recover

LEMMA RequestIsSound ==
  ASSUME DeletionInv, NEW p \in Plans, Requests(p), reboots' = reboots
  PROVE  DeletionInv'
  BY MakePlanIsSound, MakePlanAsyncIsSound, ExecuteAsyncIsSound, ExecuteIsSound, ReconcileIsSound DEF Requests

LEMMA JobStepIsSound ==
  ASSUME DeletionInv, NEW e \in Executors, JobStep(e), reboots' = reboots
  PROVE  DeletionInv'
<1>1. ASSUME NEW p \in Plans, TakeInventory(p) \/ ProveAgain(p) PROVE DeletionInv'
  BY <1>1, TakeInventoryIsSound, ProveAgainIsSound
<1>2. ASSUME NEW p \in Plans, CheckAgain(e, p) \/ ClaimDeletion(e, p) \/ Revoke(e, p) \/ RecordIntent(e, p)
      PROVE  DeletionInv'
  BY <1>2, CheckAgainIsSound, ClaimDeletionIsSound, RevokeIsSound, RecordIntentIsSound
<1>3. ASSUME NEW p \in Plans, QuarantineNext(e, p) \/ PurgeCatalog(e, p) \/ PurgeRow(e, p) \/ FailJob(e, p)
      PROVE  DeletionInv'
  BY <1>3, QuarantineIsSound, PurgeCatalogIsSound, PurgeRowIsSound, FailJobIsSound
<1>4. ASSUME StartJob \/ TakeLock \/ EndJob PROVE DeletionInv'
  BY <1>4, StartJobIsSound, TakeLockIsSound, EndJobIsSound
<1> QED
  BY <1>1, <1>2, <1>3, <1>4 DEF JobStep

LEMMA StutterIsSound ==
  ASSUME DeletionInv, UNCHANGED vars
  PROVE  DeletionInv'
<1>1. /\ UNCHANGED <<row, thread, flagged, place, trash, catalog, tombstone, lock, claims, acting>>
      /\ UNCHANGED <<plan, queue, job, cleaning, late, overtaken, reboots>>
  BY DEF vars, record, worker, recovery, deletion
<1>2. TypeOK'
  BY <1>1 DEF DeletionInv, TypeOK, RecordTypeOK, RecoveryTypeOK
<1>3. \A e \in Executors : JobIsSound(e)'
  BY <1>1 DEF DeletionInv, JobIsSound
<1>4. \A q \in Plans : PlanIsSound(q)'
  BY <1>1, OtherPlan
<1>5. QueueIsSound'
  BY <1>1, QueueStays
<1> QED
  BY <1>1, <1>2, <1>3, <1>4, <1>5, RecordStays DEF Removed

LEMMA DeletionStep == DeletionInv /\ [Next]_vars => DeletionInv'
<1> SUFFICES ASSUME DeletionInv, [Next]_vars PROVE DeletionInv'
  OBVIOUS
<1>1. CASE TaskSteps /\ reboots' = reboots
  BY <1>1, WorkerIsSound, UserIsSound DEF TaskSteps
<1>2. CASE Recover /\ UNCHANGED deletion /\ reboots' = reboots
  BY <1>2, RecoverIsSound
<1>3. ASSUME NEW p \in Plans, Requests(p) \/ LateRename(p), reboots' = reboots PROVE DeletionInv'
  BY <1>3, RequestIsSound, LateRenameIsSound
<1>4. ASSUME NEW e \in Executors, JobStep(e), reboots' = reboots PROVE DeletionInv'
  BY <1>4, JobStepIsSound
<1>5. CASE Cleaner /\ reboots' = reboots
  BY <1>5, StartCleanupIsSound, CleanupIsSound DEF Cleaner
<1>6. CASE Reboot
  BY <1>6, RebootIsSound
<1>7. CASE UNCHANGED vars
  BY <1>7, StutterIsSound
<1> QED
  BY <1>1, <1>2, <1>3, <1>4, <1>5, <1>6, <1>7 DEF Next

-----------------------------------------------------------------------------
(* What a step writes to the claims of recovery plans, and to the attempt. *)

LEMMA WriteKeepsAttempt ==
  ASSUME DeletionInv, NEW status \in Terminal \cup {"active", "cancel_pending"}, Write(status)
  PROVE  row'.attempt = row.attempt
  BY WriteIsSound DEF DeletionInv, TypeOK, RecordTypeOK

LEMMA TaskKeepsAttempt ==
  ASSUME DeletionInv, TaskSteps, Blocked
  PROVE  claims' = claims /\ row'.attempt = row.attempt
<1>1. claims' = claims
  BY DEF TaskSteps, recovery
<1>2. ~Idle
  BY DEF Idle
<1>3. /\ Write("failed") => row'.attempt = row.attempt
      /\ Write("active") => row'.attempt = row.attempt
      /\ Write("succeeded") => row'.attempt = row.attempt
      /\ Write("cancelled") => row'.attempt = row.attempt
      /\ Write("cancel_pending") => row'.attempt = row.attempt
  BY WriteKeepsAttempt DEF Terminal
<1>4. CASE Worker
  <2>1. CASE Dispatch \/ WorkerWorks \/ WorkerRegisters \/ WorkerLeaves
    BY <1>1, <2>1 DEF Dispatch, WorkerWorks, WorkerRegisters, WorkerLeaves
  <2>2. CASE WorkerFails \/ WorkerIsCancelled \/ WorkerSucceeds \/ CompleteCancellation
    BY <1>1, <1>3, <2>2 DEF WorkerFails, WorkerIsCancelled, WorkerSucceeds, CompleteCancellation
  <2>3. CASE WorkerPublishes
    BY <1>1, <1>3, <2>3 DEF WorkerPublishes
  <2> QED
    BY <1>1, <1>4, <2>1, <2>2, <2>3 DEF Worker
<1>5. CASE Cancel \/ CancellationObserved
  BY <1>1, <1>3, <1>5 DEF Cancel, CancellationObserved
<1>6. CASE RetryPublish \/ DirectRecovery
  BY <1>2, <1>6 DEF RetryPublish, DirectRecovery, RestartTask, RestartBreaks, Resume
<1> QED
  BY <1>1, <1>4, <1>5, <1>6 DEF TaskSteps

LEMMA JobKeepsClaims ==
  ASSUME DeletionInv, NEW e \in Executors, JobStep(e)
  PROVE  \/ claims' = claims /\ row' = row
         \/ claims' = [k \in Fingerprints |-> "none"] /\ row'.status = "absent" /\ row'.attempt = row.attempt
<1> USE DEF record, worker, recovery
<1>1. ASSUME NEW p \in Plans, PurgeRow(e, p)
      PROVE  claims' = [k \in Fingerprints |-> "none"] /\ row'.status = "absent" /\ row'.attempt = row.attempt
  BY <1>1 DEF PurgeRow, DeletionInv, TypeOK, RecordTypeOK, Row
<1>2. ASSUME NEW p \in Plans, TakeInventory(p) \/ ProveAgain(p) PROVE claims' = claims /\ row' = row
  BY <1>2 DEF TakeInventory, ProveAgain
<1>3. ASSUME NEW p \in Plans, CheckAgain(e, p) \/ ClaimDeletion(e, p) \/ Revoke(e, p) \/ RecordIntent(e, p)
      PROVE  claims' = claims /\ row' = row
  BY <1>3 DEF CheckAgain, ClaimDeletion, Revoke, RecordIntent
<1>4. ASSUME NEW p \in Plans, QuarantineNext(e, p) \/ PurgeCatalog(e, p) \/ FailJob(e, p)
      PROVE  claims' = claims /\ row' = row
  BY <1>4 DEF QuarantineNext, PurgeCatalog, FailJob
<1>5. ASSUME StartJob \/ TakeLock \/ EndJob PROVE claims' = claims /\ row' = row
  BY <1>5 DEF StartJob, TakeLock, EndJob
<1> QED
  BY <1>1, <1>2, <1>3, <1>4, <1>5 DEF JobStep

LEMMA StepWrites ==
  ASSUME DeletionInv, [Next]_vars
  PROVE  \/ claims' = claims /\ (Blocked => row'.attempt = row.attempt)
         \/ ExecuteRepair("restart") \/ ExecuteRepair("resume")
         \/ FinishRepair
         \/ claims' = [k \in Fingerprints |-> "none"] /\ row'.status = "absent" /\ row'.attempt = row.attempt
<1>1. CASE TaskSteps
  <2>1. claims' = claims
    BY <1>1 DEF TaskSteps, recovery
  <2> QED
    BY <1>1, <2>1, TaskKeepsAttempt
<1>2. CASE Recover
  BY <1>2 DEF Recover
<1>3. ASSUME NEW p \in Plans, Requests(p) \/ LateRename(p) PROVE claims' = claims /\ row' = row
  BY <1>3 DEF Requests, LateRename, MakePlan, MakePlanAsync, ExecuteAsync, Execute, Reconcile, record, recovery
<1>4. ASSUME NEW e \in Executors, JobStep(e)
      PROVE  \/ claims' = claims /\ row' = row
             \/ claims' = [k \in Fingerprints |-> "none"] /\ row'.status = "absent" /\ row'.attempt = row.attempt
  BY <1>4, JobKeepsClaims
<1>5. CASE Cleaner
  BY <1>5 DEF Cleaner, StartCleanup, Cleanup, record, recovery
<1>6. CASE Reboot
  BY <1>6 DEF Reboot, RecordRestarts, RecoveryRestarts
<1>7. CASE UNCHANGED vars
  BY <1>7 DEF vars, record, recovery
<1> QED
  BY <1>1, <1>2, <1>3, <1>4, <1>5, <1>6, <1>7 DEF Next

\* The operation of a recovery settles the claim it works for.
LEMMA FinishSettles ==
  ASSUME DeletionInv, FinishRepair
  PROVE  /\ claims[acting.key] = "executing" /\ acting.key \in Fingerprints
         /\ \E end \in {"accepted", "unknown"} : claims' = [claims EXCEPT ![acting.key] = end]
         /\ Blocked => row'.attempt = row.attempt
<1>1. claims[acting.key] = "executing" /\ acting.key \in Fingerprints
  BY DEF DeletionInv, RecoveryIsSound, FinishRepair
<1>2. Blocked => row'.attempt = row.attempt
  BY DEF FinishRepair, RestartTask, RestartBreaks, Resume, Idle
<1> QED
  BY <1>1, <1>2 DEF FinishRepair

LEMMA NoRecoveryStep ==
  ASSUME DeletionInv, [Next]_vars, Blocked
  PROVE  row'.attempt = row.attempt /\ \A k \in Fingerprints : claims'[k] # "executing"
<1>1. /\ \A k \in Fingerprints : claims[k] # "executing"
      /\ claims \in [Fingerprints -> {"none", "executing", "accepted", "unknown"}]
  BY DEF DeletionInv, TombstoneIsSound, TypeOK, RecoveryTypeOK
<1>2. ~ExecuteRepair("restart") /\ ~ExecuteRepair("resume")
  BY DEF ExecuteRepair, Idle
<1>3. CASE FinishRepair
  BY <1>1, <1>3, FinishSettles
<1> QED
  BY <1>1, <1>2, <1>3, StepWrites

LEMMA OneRecoveryStep ==
  ASSUME DeletionInv, [Next]_vars, NEW k \in Fingerprints, claims[k] # "none", row'.status # "absent"
  PROVE  claims'[k] # "none" /\ (claims[k] # "executing" => claims'[k] = claims[k])
<1>1. claims \in [Fingerprints -> {"none", "executing", "accepted", "unknown"}]
  BY DEF DeletionInv, TypeOK, RecoveryTypeOK
<1>2. ASSUME NEW action \in {"restart", "resume"}, ExecuteRepair(action) PROVE claims'[k] = claims[k]
  BY <1>1, <1>2 DEF ExecuteRepair
<1>3. CASE FinishRepair
  BY <1>1, <1>3, FinishSettles
<1> QED
  BY <1>2, <1>3, StepWrites

-----------------------------------------------------------------------------
(* The theorems.                                                           *)

\* In every reachable state of the deletion of a task, beside its worker and
\* its recovery, the parts of DeletionInv hold (task_deletion.py,
\* deletion_queue.py, directory_delete.py, database.py).
THEOREM DeletionInvHolds == Spec => []DeletionInv
<1> QED
  BY DeletionStart, DeletionStep, PTL DEF Spec

\* Every variable has its type.
THEOREM DeletionTypeCorrect == Spec => []TypeOK
<1>1. DeletionInv => TypeOK
  BY DEF DeletionInv
<1> QED
  BY <1>1, DeletionInvHolds, PTL

\* What is in quarantine was listed by the plan that claimed the task and is on
\* record as meant to be moved, late renames included (directory_delete.py).
THEOREM QuarantineIsIntendedHolds == Spec => []QuarantineIsIntended
<1> QED
  BY IntendedFollows, DeletionInvHolds, PTL

\* The row is deleted only after all directories on the approved list are in
\* quarantine (task_deletion.py _quarantine_assets).
THEOREM RowOutlivesItsFilesHolds == Spec => []RowOutlivesItsFiles
<1> QED
  BY OutlivesFollows, DeletionInvHolds, PTL

\* One plan writes, and one job of it at a time (task_deletion.py).
THEOREM OneDeletionAtATimeHolds == Spec => []OneDeletionAtATime
<1> QED
  BY OneDeletionFollows, DeletionInvHolds, PTL

\* A product that the catalogue shows has its files, unless a deletion came
\* over a living worker (catalog_publisher.py publish_workbench_result).
THEOREM LiveProductHasFilesHolds == Spec => []LiveProductHasFiles
<1>1. DeletionInv => LiveProductHasFiles
  BY DEF DeletionInv, ProductIsSound
<1> QED
  BY <1>1, DeletionInvHolds, PTL

\* Nothing recovers a task that a deletion has claimed (claim_deletion,
\* claim_recovery, _require_recovery_idle).
THEOREM NoRecoveryUnderDeletionHolds == Spec => NoRecoveryUnderDeletion
<1>1. DeletionInv /\ [Next]_vars =>
         [Blocked => /\ row'.attempt = row.attempt
                     /\ \A k \in Fingerprints : claims'[k] # "executing"]_vars
  BY NoRecoveryStep
<1> QED
  BY <1>1, DeletionInvHolds, PTL DEF Spec, NoRecoveryUnderDeletion

\* A claim for a state of the task stays, settled at most once, as long as the
\* task is there (database.py claim_recovery).
THEOREM OneRecoveryPerStateHolds == Spec => OneRecoveryPerState
<1>1. DeletionInv /\ [Next]_vars =>
         [\A k \in Fingerprints :
            claims[k] # "none" /\ row'.status # "absent" => claims'[k] # "none" /\
                (claims[k] # "executing" => claims'[k] = claims[k])]_vars
  BY OneRecoveryStep
<1> QED
  BY <1>1, DeletionInvHolds, PTL DEF Spec, OneRecoveryPerState
=============================================================================
