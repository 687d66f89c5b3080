-------------------------- MODULE ForcingPoolProofs --------------------------
(***************************************************************************)
(* Safety of the forcing pool for every set of cycles, files and requests, *)
(* every retry limit and every number of crashes.                          *)
(*                                                                         *)
(* Three invariants, each resting on the one before: Records says what a     *)
(* queue record is, Gates who may hold the worker and cycle gates together,  *)
(* Contents how the records, the directory and the manifest agree.           *)
(***************************************************************************)
EXTENDS ForcingPool, FiniteSetTheorems, TLAPS

\* A record whose priority says whether some task holds it.
Sound(e) == /\ e \in Entries
            /\ (e.priority = "task") <=> Wanted(e)
            /\ e.status = "absent" => e = Absent

Places == [at: {"none", "marking", "pick", "idle", "leaving", "probe", "picked", "transfer",
                "landed", "check", "seal"},
           file: Files \cup {None}, cycle: Cycles \cup {None}]

WorkerHasFile == worker.at \in {"picked", "transfer", "landed"} =>
  worker.file \in Files /\ worker.cycle = CycleOf[worker.file]

WorkerHasCycle == worker.at \in {"probe", "check", "seal"} => worker.cycle \in Cycles

DeleterHasCycle == /\ deleter.kind = "none" <=> deleter.at = "none"
                   /\ deleter.kind = "none" => deleter = NoDeleter
                   /\ deleter.kind # "none" => deleter.cycle \in Cycles
                   /\ deleter.kind = "cleanup" => deleter.at # "gated"

Records == /\ TypeOK /\ \A f \in Files : Sound(entry[f])
           /\ WorkerHasFile /\ WorkerHasCycle /\ DeleterHasCycle

-----------------------------------------------------------------------------
\* Every update of a record leaves it sound, takes no reference away but the released
\* one, and calls nothing ready that is not on disk.
Follows(e, new, f) == /\ Sound(new)
                      /\ e.refs \subseteq new.refs
                      /\ new.status = "ready" => f \in valid \/ e.status = "ready"

\* A file the queue has no record of is sound: nobody claims it.
LEMMA AbsentSound == Sound(Absent)
BY PoolAssumption DEF Sound, Entries, Absent, Wanted

\* A record whose claims and priority are left alone stays sound.
LEMMA SameClaims ==
  ASSUME NEW e, Sound(e), NEW new \in Entries, new.status # "absent",
         new.refs = e.refs, new.legacy = e.legacy, new.priority = e.priority
  PROVE  Sound(new)
BY DEF Sound, Wanted

\* Going back to a first attempt leaves the claims alone.
LEMMA AfreshSound ==
  ASSUME NEW e, Sound(e)
  PROVE  Sound(Afresh(e)) /\ Afresh(e).refs = e.refs /\ Afresh(e).status = "queued"
<1>1. /\ Afresh(e) \in Entries /\ Afresh(e).status = "queued" /\ Afresh(e).refs = e.refs
      /\ Afresh(e).legacy = e.legacy /\ Afresh(e).priority = e.priority
  <2>1. e \in Entries /\ 0 \in 0..MaxAttempts
    BY PoolAssumption DEF Sound
  <2> QED
    BY <2>1 DEF Afresh, Entries
<1> QED
  BY <1>1, SameClaims

\* A request adds its claims to a record, whatever its state, and takes none away.
LEMMA ClaimedIsEntry ==
  ASSUME NEW e \in Entries, NEW p \in {"task", "prefetch"}, NEW r \in Refs \cup {None}
  PROVE  /\ Claimed(e, p, r) \in Entries
         /\ Claimed(e, p, r).refs = Referenced(e.refs, r)
         /\ Claimed(e, p, r).legacy <=> (e.legacy \/ (r = None /\ p = "task"))
         /\ Claimed(e, p, r).priority = e.priority
         /\ Claimed(e, p, r).status = IF e.status = "cancelled" THEN "queued" ELSE e.status
         /\ e.refs \subseteq Claimed(e, p, r).refs
<1>1. Referenced(e.refs, r) \in SUBSET Refs /\ e.refs \subseteq Referenced(e.refs, r)
  BY DEF Referenced, Entries
<1>2. PICK n \in SUBSET Refs : n = Referenced(e.refs, r)
  BY <1>1
<1>3. PICK l \in BOOLEAN : l = (e.legacy \/ (r = None /\ p = "task"))
  OBVIOUS
<1>4. PICK b \in BOOLEAN : b = (e.prefetch \/ p = "prefetch")
  OBVIOUS
<1>5. Claimed(e, p, r) = [e EXCEPT !.refs = n, !.legacy = l, !.prefetch = b,
                                   !.status = IF e.status = "cancelled" THEN "queued" ELSE e.status]
  BY <1>2, <1>3, <1>4 DEF Claimed
<1>6. Claimed(e, p, r) \in Entries
  BY <1>5 DEF Entries
<1>7. /\ Claimed(e, p, r).refs = n
      /\ Claimed(e, p, r).legacy = l
      /\ Claimed(e, p, r).priority = e.priority
      /\ Claimed(e, p, r).status = IF e.status = "cancelled" THEN "queued" ELSE e.status
  BY <1>5 DEF Entries
<1> QED
  BY <1>1, <1>2, <1>3, <1>6, <1>7

\* The record a request ends in keeps the claims, and the priority they call for.
LEMMA RequestedFollows ==
  ASSUME NEW e, Sound(e), NEW f \in Files, NEW p \in {"task", "prefetch"},
         NEW r \in Refs \cup {None}, p = "prefetch" => r = None
  PROVE  Follows(e, Requested(e, f, p, r), f)
<1>1. PICK k \in Entries : /\ k = IF e.status = "absent" THEN Queued(p) ELSE e
                           /\ e.refs \subseteq k.refs /\ k.status # "absent"
                           /\ k.status = "ready" => e.status = "ready"
                           /\ p = "prefetch" => ((k.priority = "task") <=> Wanted(k))
  <2>1. CASE e.status = "absent"
    <3>1. e.refs = {}
      BY <2>1 DEF Sound, Absent
    <3>2. /\ Queued(p) \in Entries /\ Queued(p).status = "queued" /\ Queued(p).priority = p
          /\ Queued(p).refs = {} /\ ~Queued(p).legacy
      BY AbsentSound DEF Queued, Absent, Entries, Sound
    <3>3. ~Wanted(Queued(p))
      BY <3>2 DEF Wanted
    <3> QED
      BY <2>1, <3>1, <3>2, <3>3
  <2>2. CASE e.status # "absent"
    BY <2>2 DEF Sound
  <2> QED
    BY <2>1, <2>2
<1> DEFINE h == Claimed(k, p, r)
<1>2. /\ h \in Entries /\ k.refs \subseteq h.refs /\ h.status # "absent"
      /\ h.status = "ready" => k.status = "ready"
      /\ p = "task" => Wanted(h)
      /\ p = "prefetch" => ((h.priority = "task") <=> Wanted(h))
  <2>1. /\ h \in Entries /\ k.refs \subseteq h.refs /\ h.status # "absent"
        /\ h.status = "ready" => k.status = "ready"
    BY <1>1, ClaimedIsEntry
  <2>2. ASSUME p = "task" PROVE Wanted(h)
    <3>1. ASSUME r = None PROVE Wanted(h)
      <4>1. h.legacy
        BY <2>2, <3>1, ClaimedIsEntry
      <4> QED
        BY <4>1 DEF Wanted
    <3>2. ASSUME r # None PROVE Wanted(h)
      <4>1. r \in h.refs
        BY <3>2, ClaimedIsEntry DEF Referenced
      <4> QED
        BY <4>1 DEF Wanted
    <3> QED
      BY <3>1, <3>2
  <2>3. ASSUME p = "prefetch" PROVE (h.priority = "task") <=> Wanted(h)
    <3>1. h.refs = k.refs /\ (h.legacy <=> k.legacy) /\ h.priority = k.priority
      BY <2>3, ClaimedIsEntry DEF Referenced
    <3> QED
      BY <1>1, <2>3, <3>1 DEF Wanted
  <2> QED
    BY <2>1, <2>2, <2>3
<1>3. PICK u \in Entries : u = Urgent(h, p) /\ Sound(u) /\ u.refs = h.refs /\ u.status = h.status
  <2> HIDE DEF h
  <2>1. CASE p = "task"
    <3>1. /\ Urgent(h, p) \in Entries /\ Urgent(h, p).priority = "task"
          /\ Urgent(h, p).refs = h.refs /\ Urgent(h, p).legacy = h.legacy /\ Urgent(h, p).status = h.status
      BY <1>2, <2>1 DEF Urgent, Entries
    <3>2. Wanted(Urgent(h, p))
      BY <1>2, <2>1, <3>1 DEF Wanted
    <3> QED
      BY <1>2, <3>1, <3>2 DEF Sound
  <2>2. CASE p = "prefetch"
    BY <1>2, <2>2 DEF Urgent, Sound
  <2> QED
    BY <2>1, <2>2
<1>4. \/ Requested(e, f, p, r) = u
      \/ Requested(e, f, p, r) = Afresh(u)
      \/ f \in valid /\ \E b \in BOOLEAN :
           Requested(e, f, p, r) = [u EXCEPT !.status = "ready", !.requeue = FALSE, !.later = b]
  BY <1>1, <1>2, <1>3 DEF Requested, Entries
<1>5. Sound(Afresh(u)) /\ Afresh(u).refs = u.refs /\ Afresh(u).status = "queued"
  BY <1>3, AfreshSound
<1>6. ASSUME NEW b \in BOOLEAN,
             NEW v, v = [u EXCEPT !.status = "ready", !.requeue = FALSE, !.later = b]
      PROVE  Sound(v) /\ v.refs = u.refs
  <2>1. v \in Entries /\ v.status = "ready"
        /\ v.refs = u.refs /\ v.legacy = u.legacy /\ v.priority = u.priority
    BY <1>6 DEF Entries
  <2> QED
    BY <1>3, <2>1, SameClaims
<1>7. Sound(Requested(e, f, p, r)) /\ Requested(e, f, p, r).refs = u.refs
      /\ (Requested(e, f, p, r).status = "ready" => f \in valid \/ u.status = "ready")
  BY <1>3, <1>4, <1>5, <1>6
<1> QED
  BY <1>1, <1>2, <1>3, <1>7 DEF Follows

\* A release lowers the priority exactly when its reference was the last claim of a task.
LEMMA ReleasedSound ==
  ASSUME NEW e, Sound(e), NEW r \in Refs
  PROVE  /\ Sound(Released(e, r))
         /\ Released(e, r).status = "ready" => e.status = "ready"
<1>1. CASE r \notin e.refs
  BY <1>1 DEF Released
<1>2. CASE r \in e.refs
  <2> DEFINE kept == [e EXCEPT !.refs = @ \ {r}]
  <2> DEFINE idle == [kept EXCEPT !.priority = "prefetch"]
  <2>0. e \in Entries
    BY DEF Sound
  <2>1. kept \in Entries /\ kept.status = e.status /\ kept.priority = e.priority
    BY <2>0 DEF Entries
  <2>2. e.priority = "task" /\ e.status # "absent"
    BY <1>2 DEF Sound, Wanted, Absent
  <2>3. ASSUME Wanted(kept) PROVE Sound(kept)
    <3> HIDE DEF kept
    <3> QED
      BY <2>1, <2>2, <2>3 DEF Sound
  <2>4. /\ idle \in Entries /\ idle.status = e.status /\ idle.priority = "prefetch"
        /\ idle.refs = kept.refs /\ idle.legacy = kept.legacy
    <3> HIDE DEF kept
    <3> QED
      BY <2>1 DEF Entries
  <2>5. ASSUME ~Wanted(kept) PROVE Sound(idle)
    <3> HIDE DEF kept, idle
    <3> QED
      BY <2>2, <2>4, <2>5 DEF Sound, Wanted
  <2>6. ASSUME Sound(idle) PROVE Sound(Cancelled(idle)) /\ Cancelled(idle).status = "cancelled"
    <3> HIDE DEF idle
    <3>1. /\ Cancelled(idle) \in Entries /\ Cancelled(idle).status = "cancelled"
          /\ Cancelled(idle).refs = idle.refs /\ Cancelled(idle).legacy = idle.legacy
          /\ Cancelled(idle).priority = idle.priority
      BY <2>4 DEF Cancelled, Entries
    <3> QED
      BY <2>6, <3>1, SameClaims
  <2>7. Released(e, r) = IF Wanted(kept) THEN kept
                         ELSE IF e.prefetch \/ e.status \in {"ready", "downloading"} THEN idle
                         ELSE Cancelled(idle)
    BY <1>2 DEF Released
  <2> HIDE DEF kept, idle
  <2> QED
    BY <2>1, <2>3, <2>4, <2>5, <2>6, <2>7
<1> QED
  BY <1>1, <1>2

\* An expired prefetch leaves the claims of tasks alone.
LEMMA ExpiredFollows ==
  ASSUME NEW e, Sound(e), NEW f \in Files
  PROVE  Follows(e, Expired(e), f)
<1>1. CASE e.status = "absent"
  BY <1>1 DEF Expired, Follows
<1>2. CASE e.status # "absent" /\ (Wanted(e) \/ e.status \in {"ready", "downloading"})
  <2>1. ASSUME NEW n, n = [e EXCEPT !.prefetch = FALSE]
        PROVE  /\ n \in Entries /\ n.status = e.status /\ n.priority = e.priority
               /\ n.refs = e.refs /\ n.legacy = e.legacy
    BY <2>1 DEF Sound, Entries
  <2>2. Expired(e) = [e EXCEPT !.prefetch = FALSE]
    BY <1>2 DEF Expired
  <2> QED
    BY <1>2, <2>1, <2>2, SameClaims DEF Follows
<1>3. CASE e.status # "absent" /\ ~(Wanted(e) \/ e.status \in {"ready", "downloading"})
  <2>1. ASSUME NEW n, n = [e EXCEPT !.prefetch = FALSE, !.status = "cancelled", !.later = FALSE]
        PROVE  /\ n \in Entries /\ n.status = "cancelled" /\ n.priority = e.priority
               /\ n.refs = e.refs /\ n.legacy = e.legacy
    BY <2>1 DEF Sound, Entries
  <2>2. Expired(e) = [e EXCEPT !.prefetch = FALSE, !.status = "cancelled", !.later = FALSE]
    BY <1>3 DEF Expired
  <2> QED
    BY <2>1, <2>2, SameClaims DEF Follows
<1> QED
  BY <1>1, <1>2, <1>3

\* However an attempt fails, the claims stay.
LEMMA FailedFollows ==
  ASSUME NEW e, Sound(e), NEW f \in Files, NEW new \in Failed(e)
  PROVE  Follows(e, new, f)
<1>1. /\ new \in Entries /\ new.status \in {"failed", "queued", "retry_wait"}
      /\ new.refs = e.refs /\ new.legacy = e.legacy /\ new.priority = e.priority
  <2>1. \/ \E r \in BOOLEAN : new = [e EXCEPT !.status = "failed", !.requeue = r]
        \/ new = [e EXCEPT !.status = "queued", !.later = TRUE]
        \/ new = [e EXCEPT !.status = "retry_wait", !.later = TRUE, !.requeue = TRUE]
    BY DEF Failed
  <2>2. e \in Entries
    BY DEF Sound
  <2> QED
    BY <2>1, <2>2 DEF Entries
<1> QED
  BY <1>1, SameClaims DEF Follows

\* The review before a pick calls a file ready only when it finds it on disk.
LEMMA ReviewedFollows ==
  ASSUME NEW f \in Files, Sound(entry[f])
  PROVE  Follows(entry[f], Reviewed(f), f)
<1> DEFINE e == entry[f]
<1>1. CASE Reviewed(f) = e
  BY <1>1 DEF Follows
<1>2. CASE Reviewed(f) = [e EXCEPT !.status = "ready", !.later = FALSE] /\ f \in valid
  <2>1. ASSUME NEW n, n = [e EXCEPT !.status = "ready", !.later = FALSE]
        PROVE  /\ n \in Entries /\ n.status = "ready" /\ n.priority = e.priority
               /\ n.refs = e.refs /\ n.legacy = e.legacy
    BY <2>1 DEF Sound, Entries
  <2> QED
    BY <1>2, <2>1, SameClaims DEF Follows
<1>3. CASE Reviewed(f) = Afresh(e)
  BY <1>3, AfreshSound DEF Follows
<1> QED
  BY <1>1, <1>2, <1>3 DEF Reviewed

-----------------------------------------------------------------------------
\* How a step of the pool may change one record.
Moved(f) ==
  \/ entry'[f] = entry[f]
  \/ entry'[f] = [entry[f] EXCEPT !.later = FALSE] /\ entry[f].later
  \/ StateFree /\ Follows(entry[f], entry'[f], f)
  \/ StateFree /\ ReleaseReference /\ Sound(entry'[f])
     /\ (entry'[f].status = "ready" => entry[f].status = "ready")
  \/ StateFree /\ worker.at = "landed" /\ f = worker.file /\ Sound(entry'[f])
     /\ entry[f].refs \subseteq entry'[f].refs
  \/ CloseDeletion /\ entry'[f] = IF CycleOf[f] = deleter.cycle THEN Absent ELSE entry[f]

\* Every step of the pool moves every record in one of these ways.
LEMMA EntryStep ==
  ASSUME Records, Next
  PROVE  entry' = [f \in Files |-> entry'[f]] /\ \A f \in Files : Moved(f)
<1>0. /\ entry \in [Files -> Entries] /\ \A f \in Files : Sound(entry[f])
  BY DEF Records, TypeOK
<1>1. CASE EnqueueTask
  <2>1. PICK q \in Requests : Enqueue(q.hours, "task", q.ref)
    BY <1>1 DEF EnqueueTask
  <2>2. q.ref \in Refs \cup {None}
    BY PoolAssumption
  <2> QED
    BY <1>0, <2>1, <2>2, RequestedFollows DEF Enqueue, Moved
<1>2. CASE EnqueuePrefetch
  <2>1. PICK c \in Cycles : Enqueue(FilesOf(c), "prefetch", None)
    BY <1>2 DEF EnqueuePrefetch
  <2> QED
    BY <1>0, <2>1, RequestedFollows DEF Enqueue, Moved
<1>3. CASE ReleaseReference
  <2>1. PICK q \in Requests : /\ q.ref # None /\ StateFree
                              /\ entry' = [f \in Files |-> IF CycleOf[f] = q.cycle
                                             THEN Released(entry[f], q.ref) ELSE entry[f]]
    BY <1>3 DEF ReleaseReference
  <2>2. q.ref \in Refs
    BY <2>1, PoolAssumption
  <2> QED
    BY <1>0, <1>3, <2>1, <2>2, ReleasedSound DEF Moved
<1>4. CASE ExpirePrefetch
  BY <1>0, <1>4, ExpiredFollows DEF ExpirePrefetch, Moved
<1>5. CASE Recover
  <2>1. ASSUME NEW f \in Files, entry[f].status = "downloading",
               NEW n, n = [entry[f] EXCEPT !.status = "queued", !.later = FALSE]
        PROVE  Follows(entry[f], n, f)
    <3>1. /\ n \in Entries /\ n.status = "queued" /\ n.priority = entry[f].priority
          /\ n.refs = entry[f].refs /\ n.legacy = entry[f].legacy
      BY <1>0, <2>1 DEF Entries
    <3> QED
      BY <1>0, <3>1, SameClaims DEF Follows
  <2> QED
    BY <1>0, <1>5, <2>1 DEF Recover, Moved
<1>6. CASE PickProbe \/ PickFile \/ PickNothing
  <2>1. StateFree /\ entry' = [f \in Files |-> Reviewed(f)]
    BY <1>6 DEF PickProbe, PickFile, PickNothing, Pick
  <2> QED
    BY <1>0, <2>1, ReviewedFollows DEF Moved
<1>7. CASE StartTransfer
  <2> DEFINE g == worker.file
  <2>1. g \in Files
    BY <1>7 DEF StartTransfer, Records, WorkerHasFile
  <2>2. ASSUME NEW n, NEW k \in 0..MaxAttempts,
               n = [entry[g] EXCEPT !.status = "downloading", !.later = FALSE, !.attempts = k]
        PROVE  Follows(entry[g], n, g)
    <3>1. /\ n \in Entries /\ n.status = "downloading" /\ n.priority = entry[g].priority
          /\ n.refs = entry[g].refs /\ n.legacy = entry[g].legacy
      BY <1>0, <2>1, <2>2 DEF Entries
    <3> QED
      BY <1>0, <2>1, <3>1, SameClaims DEF Follows
  <2>3. entry[g].attempts \in 0..MaxAttempts
    BY <1>0, <2>1 DEF Entries
  <2>4. (IF entry[g].attempts < MaxAttempts THEN entry[g].attempts + 1 ELSE entry[g].attempts) \in 0..MaxAttempts
    BY <2>3, PoolAssumption
  <2>5. entry' = [entry EXCEPT ![g] = [entry[g] EXCEPT !.status = "downloading", !.later = FALSE,
           !.attempts = IF entry[g].attempts < MaxAttempts THEN entry[g].attempts + 1 ELSE entry[g].attempts]]
    BY <1>0, <1>7, <2>1 DEF StartTransfer
  <2> HIDE DEF g
  <2>6. Follows(entry[g], entry'[g], g) /\ \A f \in Files \ {g} : entry'[f] = entry[f]
    BY <1>0, <2>1, <2>2, <2>4, <2>5
  <2> QED
    BY <1>0, <1>7, <2>1, <2>5, <2>6 DEF StartTransfer, Moved
<1>8. CASE RecordReady
  <2> DEFINE g == worker.file
  <2>1. g \in Files
    BY <1>8 DEF RecordReady, Records, WorkerHasFile
  <2>2. ASSUME NEW n, n = [entry[g] EXCEPT !.status = "ready", !.later = FALSE, !.requeue = FALSE]
        PROVE  Sound(n) /\ n.refs = entry[g].refs
    <3>1. /\ n \in Entries /\ n.status = "ready" /\ n.priority = entry[g].priority
          /\ n.refs = entry[g].refs /\ n.legacy = entry[g].legacy
      BY <1>0, <2>1, <2>2 DEF Entries
    <3> QED
      BY <1>0, <2>1, <3>1, SameClaims
  <2>3. entry' = [entry EXCEPT ![g] = [entry[g] EXCEPT !.status = "ready", !.later = FALSE, !.requeue = FALSE]]
    BY <1>0, <1>8, <2>1 DEF RecordReady
  <2>4. Sound(entry'[g]) /\ entry'[g].refs = entry[g].refs /\ \A f \in Files \ {g} : entry'[f] = entry[f]
    <3> HIDE DEF g
    <3> QED
      BY <1>0, <2>1, <2>2, <2>3
  <2> QED
    BY <1>0, <1>8, <2>1, <2>3, <2>4 DEF RecordReady, Moved
<1>9. CASE TransferFails
  <2>1. worker.file \in Files
    BY <1>9 DEF TransferFails, Records, WorkerHasFile
  <2> QED
    BY <1>0, <1>9, <2>1, FailedFollows DEF TransferFails, Moved
<1>10. CASE CloseDeletion
  BY <1>0, <1>10 DEF CloseDeletion, Moved
<1>11. CASE TimePasses
  <2>1. CASE \E f \in Files : entry[f].later /\ entry' = [entry EXCEPT ![f].later = FALSE]
    BY <1>0, <2>1 DEF Moved
  <2>2. CASE entry' = entry
    BY <1>0, <2>2 DEF Moved
  <2> QED
    BY <1>11, <2>1, <2>2 DEF TimePasses
<1>12. CASE \/ TryStart \/ CheckPending \/ Leave \/ Probe \/ CycleBusy \/ RecordGone \/ TransferLands
            \/ CheckComplete \/ WriteManifest \/ BeginCleanup \/ BeginQuarantine \/ ReviewQuarantine
            \/ RemoveDirectory \/ WorkerCrash \/ MarkerTorn \/ OrphanEnds \/ DeleterCrash
  <2>1. entry' = entry
    BY <1>12 DEF TryStart, CheckPending, Leave, Probe, CycleBusy, RecordGone, TransferLands, CheckComplete,
       WriteManifest, BeginCleanup, BeginQuarantine, ReviewQuarantine, RemoveDirectory, WorkerCrash,
       MarkerTorn, OrphanEnds, DeleterCrash, queue
  <2> QED
    BY <1>0, <2>1 DEF Moved
<1> QED
  BY <1>1, <1>2, <1>3, <1>4, <1>5, <1>6, <1>7, <1>8, <1>9, <1>10, <1>11, <1>12
     DEF Next, Request, WorkerStep, DeleterStep, Environment

-----------------------------------------------------------------------------
\* However a step moves a record, it stays sound.
LEMMA MovedSound ==
  ASSUME NEW f \in Files, Sound(entry[f]), Moved(f)
  PROVE  Sound(entry'[f])
<1>1. CASE entry'[f] = [entry[f] EXCEPT !.later = FALSE] /\ entry[f].later
  <2>1. ASSUME NEW n, n = [entry[f] EXCEPT !.later = FALSE]
        PROVE  /\ n \in Entries /\ n.status = entry[f].status /\ n.priority = entry[f].priority
               /\ n.refs = entry[f].refs /\ n.legacy = entry[f].legacy
    BY <2>1 DEF Sound, Entries
  <2>2. entry[f].status # "absent"
    BY <1>1 DEF Sound, Absent
  <2> QED
    BY <1>1, <2>1, <2>2, SameClaims
<1> QED
  BY <1>1, AbsentSound DEF Moved, Follows

\* The worker carries a file only from its choice to the end of its transfer.
LEMMA WorkerPlaces ==
  ASSUME Records, [Next]_vars
  PROVE  worker' \in Places /\ WorkerHasFile' /\ WorkerHasCycle'
<1>0. /\ worker \in Places /\ WorkerHasFile /\ WorkerHasCycle /\ deleter.cycle \in Cycles \cup {None}
      /\ NoWorker \in Places /\ NoWorker.at = "none"
      /\ \A f \in Files : CycleOf[f] \in Cycles
  BY PoolAssumption DEF Records, TypeOK, Places, NoWorker
<1>1. CASE worker' = NoWorker
  BY <1>0, <1>1 DEF WorkerHasFile, WorkerHasCycle
<1>2. CASE UNCHANGED worker
  BY <1>0, <1>2 DEF WorkerHasFile, WorkerHasCycle
<1>3. CASE \E a \in {"marking", "pick", "idle"} : worker' = [NoWorker EXCEPT !.at = a]
  BY <1>0, <1>3 DEF WorkerHasFile, WorkerHasCycle, Places, NoWorker
<1>4. CASE \E a \in {"pick", "leaving"} : worker' = [worker EXCEPT !.at = a]
  BY <1>0, <1>4 DEF WorkerHasFile, WorkerHasCycle, Places
<1>5. CASE PickProbe
  <2>1. PICK f \in Files : worker' = [NoWorker EXCEPT !.at = "probe", !.cycle = CycleOf[f]]
    BY <1>5 DEF PickProbe, Pick, Probes, Eligible
  <2> QED
    BY <1>0, <2>1 DEF WorkerHasFile, WorkerHasCycle, Places, NoWorker
<1>6. CASE PickFile
  <2>1. PICK f \in Files : worker' = [at |-> "picked", file |-> f, cycle |-> CycleOf[f]]
    BY <1>6 DEF PickFile, Pick, Choices, Eligible
  <2> QED
    BY <1>0, <2>1 DEF WorkerHasFile, WorkerHasCycle, Places
<1>7. CASE CycleBusy \/ RecordReady \/ TransferFails
  <2>1. worker' = [worker EXCEPT !.at = "check", !.file = None]
    BY <1>7 DEF CycleBusy, RecordReady, TransferFails
  <2>2. worker.at \in {"picked", "landed", "transfer"}
    BY <1>7 DEF CycleBusy, RecordReady, TransferFails
  <2> QED
    BY <1>0, <2>1, <2>2 DEF WorkerHasFile, WorkerHasCycle, Places
<1>8. CASE StartTransfer \/ TransferLands
  <2>1. \E a \in {"transfer", "landed"} : worker' = [worker EXCEPT !.at = a]
    BY <1>8 DEF StartTransfer, TransferLands
  <2>2. worker.at \in {"picked", "transfer"}
    BY <1>8 DEF StartTransfer, TransferLands
  <2> QED
    BY <1>0, <2>1, <2>2 DEF WorkerHasFile, WorkerHasCycle, Places
<1>9. CASE CheckComplete
  <2>1. \/ worker' = [worker EXCEPT !.at = "seal"]
        \/ worker' = [NoWorker EXCEPT !.at = "pick"]
    BY <1>9 DEF CheckComplete
  <2>2. worker.at = "check"
    BY <1>9 DEF CheckComplete
  <2> QED
    BY <1>0, <2>1, <2>2 DEF WorkerHasFile, WorkerHasCycle, Places, NoWorker
<1>10. CASE TryStart
  BY <1>2, <1>3, <1>10 DEF TryStart
<1>11. CASE Recover \/ CheckPending
  BY <1>4, <1>11 DEF Recover, CheckPending
<1>12. CASE PickNothing \/ Probe \/ WriteManifest
  BY <1>3, <1>12 DEF PickNothing, Pick, Probe, WriteManifest
<1>13. CASE Leave \/ RecordGone \/ WorkerCrash
  BY <1>1, <1>13 DEF Leave, RecordGone, WorkerCrash
<1>14. CASE Request \/ DeleterStep \/ TimePasses \/ MarkerTorn \/ OrphanEnds \/ DeleterCrash \/ UNCHANGED vars
  BY <1>2, <1>14 DEF Request, EnqueueTask, EnqueuePrefetch, Enqueue, ReleaseReference, ExpirePrefetch,
     DeleterStep, BeginCleanup, BeginQuarantine, ReviewQuarantine, RemoveDirectory, CloseDeletion,
     TimePasses, MarkerTorn, OrphanEnds, DeleterCrash, vars
<1> QED
  BY <1>5, <1>6, <1>7, <1>8, <1>9, <1>10, <1>11, <1>12, <1>13, <1>14 DEF Next, WorkerStep, Environment

Deletions == [kind: {"none", "cleanup", "quarantine_gate", "quarantine_live"},
              at: {"none", "gated", "removing", "removed"}, cycle: Cycles \cup {None}]

\* A deletion has a cycle from its first step to its last.
LEMMA DeleterPlaces ==
  ASSUME Records, [Next]_vars
  PROVE  deleter' \in Deletions /\ DeleterHasCycle'
<1>0. /\ deleter \in Deletions /\ DeleterHasCycle
      /\ NoDeleter \in Deletions /\ NoDeleter.kind = "none" /\ NoDeleter.at = "none"
  BY DEF Records, TypeOK, Deletions, NoDeleter
<1>1. CASE deleter' = NoDeleter
  BY <1>0, <1>1 DEF DeleterHasCycle
<1>2. CASE UNCHANGED deleter
  BY <1>0, <1>2 DEF DeleterHasCycle
<1>3. CASE BeginCleanup \/ BeginQuarantine
  BY <1>3 DEF BeginCleanup, BeginQuarantine, DeleterHasCycle, Deletions
<1>4. CASE \E a \in {"removing", "removed"} : deleter.at # "none" /\ deleter' = [deleter EXCEPT !.at = a]
  BY <1>0, <1>4 DEF DeleterHasCycle, Deletions
<1>5. CASE ReviewQuarantine \/ RemoveDirectory
  BY <1>1, <1>4, <1>5 DEF ReviewQuarantine, RemoveDirectory
<1>6. CASE CloseDeletion \/ DeleterCrash
  BY <1>1, <1>6 DEF CloseDeletion, DeleterCrash
<1>7. CASE Request \/ TryStart \/ WorkerStep \/ TimePasses \/ WorkerCrash \/ MarkerTorn \/ OrphanEnds \/ UNCHANGED vars
  BY <1>2, <1>7 DEF Request, EnqueueTask, EnqueuePrefetch, Enqueue, ReleaseReference, ExpirePrefetch,
     TryStart, WorkerStep, Recover, PickProbe, PickFile, PickNothing, Pick, CheckPending, Leave, Probe,
     CycleBusy, StartTransfer, RecordGone, TransferLands, RecordReady, TransferFails, CheckComplete,
     WriteManifest, TimePasses, WorkerCrash, MarkerTorn, OrphanEnds, vars
<1> QED
  BY <1>3, <1>5, <1>6, <1>7 DEF Next, DeleterStep, Environment

\* The sets, the marker and the counter stay within their types.
LEMMA RestTyped ==
  ASSUME Records, [Next]_vars
  PROVE  /\ published' \subseteq Cycles /\ probeLater' \subseteq Cycles
         /\ valid' \subseteq Files /\ manifest' \subseteq Cycles /\ torn' \subseteq Cycles
         /\ marker' \in {"none", "whole", "torn"} /\ curls' \subseteq Files
         /\ waking' \in BOOLEAN /\ faults' \in 0..MaxFaults
<1>0. /\ TypeOK /\ WorkerHasFile /\ WorkerHasCycle /\ DeleterHasCycle
      /\ deleter.kind # "none" <=> deleter.at # "none"
  BY DEF Records, DeleterHasCycle
<1>1. published' \subseteq Cycles /\ probeLater' \subseteq Cycles
  <2>1. CASE Probe
    BY <1>0, <2>1 DEF Probe, TypeOK, WorkerHasCycle
  <2>2. CASE CloseDeletion \/ ExpirePrefetch \/ TimePasses
    BY <1>0, <2>2 DEF CloseDeletion, ExpirePrefetch, TimePasses, TypeOK
  <2>3. CASE published' = published /\ probeLater' = probeLater
    BY <1>0, <2>3 DEF TypeOK
  <2> QED
    BY <2>1, <2>2, <2>3 DEF Next, Request, EnqueueTask, EnqueuePrefetch, Enqueue, ReleaseReference,
       TryStart, WorkerStep, Recover, PickProbe, PickFile, PickNothing, Pick, CheckPending, Leave,
       CycleBusy, StartTransfer, RecordGone, TransferLands, RecordReady, TransferFails, CheckComplete,
       WriteManifest, DeleterStep, BeginCleanup, BeginQuarantine, ReviewQuarantine, RemoveDirectory,
       Environment, WorkerCrash, MarkerTorn, OrphanEnds, DeleterCrash, vars, queue
<1>2. valid' \subseteq Files /\ curls' \subseteq Files
  <2>1. CASE StartTransfer \/ TransferLands \/ TransferFails
    BY <1>0, <2>1 DEF StartTransfer, TransferLands, TransferFails, TypeOK, WorkerHasFile, disk
  <2>2. CASE WorkerCrash \/ MarkerTorn \/ OrphanEnds \/ DeleterCrash \/ RemoveDirectory
    BY <1>0, <2>2 DEF WorkerCrash, MarkerTorn, OrphanEnds, DeleterCrash, RemoveDirectory, TypeOK, disk
  <2>3. CASE valid' = valid /\ curls' = curls
    BY <1>0, <2>3 DEF TypeOK
  <2> QED
    BY <2>1, <2>2, <2>3 DEF Next, Request, EnqueueTask, EnqueuePrefetch, Enqueue, ReleaseReference,
       ExpirePrefetch, TryStart, WorkerStep, Recover, PickProbe, PickFile, PickNothing, Pick,
       CheckPending, Leave, Probe, CycleBusy, RecordGone, RecordReady, CheckComplete,
       WriteManifest, DeleterStep, BeginCleanup, BeginQuarantine, ReviewQuarantine, CloseDeletion,
       Environment, TimePasses, vars, disk
<1>3. manifest' \subseteq Cycles /\ torn' \subseteq Cycles
  <2>1. CASE WriteManifest
    BY <1>0, <2>1 DEF WriteManifest, TypeOK, WorkerHasCycle
  <2>2. CASE RemoveDirectory
    BY <1>0, <2>2 DEF RemoveDirectory, TypeOK
  <2>3. CASE DeleterCrash
    <3>1. deleter.cycle \in Cycles
      BY <1>0, <2>3 DEF DeleterCrash, DeleterHasCycle, NoDeleter, TypeOK
    <3> QED
      BY <1>0, <2>3, <3>1 DEF DeleterCrash, TypeOK
  <2>4. CASE manifest' = manifest /\ torn' = torn
    BY <1>0, <2>4 DEF TypeOK
  <2> QED
    BY <2>1, <2>2, <2>3, <2>4 DEF Next, Request, EnqueueTask, EnqueuePrefetch, Enqueue, ReleaseReference,
       ExpirePrefetch, TryStart, WorkerStep, Recover, PickProbe, PickFile, PickNothing, Pick,
       CheckPending, Leave, Probe, CycleBusy, StartTransfer, RecordGone, TransferLands, RecordReady,
       TransferFails, CheckComplete, DeleterStep, BeginCleanup, BeginQuarantine, ReviewQuarantine,
       CloseDeletion, Environment, TimePasses, WorkerCrash, MarkerTorn, OrphanEnds, vars, disk
<1>4. marker' \in {"none", "whole", "torn"} /\ waking' \in BOOLEAN /\ faults' \in 0..MaxFaults
  <2>0. /\ marker \in {"none", "whole", "torn"} /\ waking \in BOOLEAN /\ faults \in 0..MaxFaults
        /\ MaxFaults \in Nat
    BY <1>0, PoolAssumption DEF TypeOK
  <2>1. marker' \in {"none", "whole", "torn"}
    BY <2>0 DEF Next, Request, EnqueueTask, EnqueuePrefetch, Enqueue, ReleaseReference,
       ExpirePrefetch, TryStart, WorkerStep, Recover, PickProbe, PickFile, PickNothing, Pick,
       CheckPending, Leave, Probe, CycleBusy, StartTransfer, RecordGone, TransferLands, RecordReady,
       TransferFails, CheckComplete, WriteManifest, DeleterStep, BeginCleanup, BeginQuarantine,
       ReviewQuarantine, RemoveDirectory, CloseDeletion, Environment, TimePasses, WorkerCrash,
       MarkerTorn, OrphanEnds, DeleterCrash, vars
  <2>2. waking' \in {TRUE, FALSE, waking}
    BY DEF Next, Request, EnqueueTask, EnqueuePrefetch, Enqueue, ReleaseReference,
       ExpirePrefetch, TryStart, WorkerStep, Recover, PickProbe, PickFile, PickNothing, Pick,
       CheckPending, Leave, Probe, CycleBusy, StartTransfer, RecordGone, TransferLands, RecordReady,
       TransferFails, CheckComplete, WriteManifest, DeleterStep, BeginCleanup, BeginQuarantine,
       ReviewQuarantine, RemoveDirectory, CloseDeletion, Environment, TimePasses, WorkerCrash,
       MarkerTorn, OrphanEnds, DeleterCrash, vars
  <2>3. faults' = faults \/ (faults < MaxFaults /\ faults' = faults + 1)
    BY DEF Next, Request, EnqueueTask, EnqueuePrefetch, Enqueue, ReleaseReference,
       ExpirePrefetch, TryStart, WorkerStep, Recover, PickProbe, PickFile, PickNothing, Pick,
       CheckPending, Leave, Probe, CycleBusy, StartTransfer, RecordGone, TransferLands, RecordReady,
       TransferFails, CheckComplete, WriteManifest, DeleterStep, BeginCleanup, BeginQuarantine,
       ReviewQuarantine, RemoveDirectory, CloseDeletion, Environment, TimePasses, WorkerCrash,
       MarkerTorn, OrphanEnds, DeleterCrash, vars
  <2>4. faults' \in 0..MaxFaults
    BY <2>0, <2>3
  <2> QED
    BY <2>0, <2>1, <2>2, <2>4
<1> QED
  BY <1>1, <1>2, <1>3, <1>4

\* Records is inductive: what a queue record says of its claims survives every step.
LEMMA RecordsInductive ==
  /\ Init => Records
  /\ Records /\ [Next]_vars => Records'
<1>1. Init => Records
  <2> SUFFICES ASSUME Init PROVE Records
    OBVIOUS
  <2>1. /\ \A f \in Files : entry[f] = Absent
        /\ entry = [f \in Files |-> Absent]
    BY DEF Init
  <2>2. \A f \in Files : Sound(entry[f])
    BY <2>1, AbsentSound
  <2>3. entry \in [Files -> Entries]
    BY <2>1, AbsentSound DEF Sound
  <2>4. 0 \in 0..MaxFaults
    BY PoolAssumption
  <2>5. WorkerHasFile /\ WorkerHasCycle /\ DeleterHasCycle
    BY DEF Init, NoWorker, NoDeleter, WorkerHasFile, WorkerHasCycle, DeleterHasCycle
  <2> QED
    BY <2>2, <2>3, <2>4, <2>5 DEF Init, NoWorker, NoDeleter, Records, TypeOK
<1>2. ASSUME Records, [Next]_vars PROVE Records'
  <2>1. (\A f \in Files : Sound(entry'[f])) /\ entry' \in [Files -> Entries]
    <3>1. CASE Next
      <4>1. \A f \in Files : Sound(entry'[f])
        BY <1>2, <3>1, EntryStep, MovedSound DEF Records
      <4>2. \A f \in Files : entry'[f] \in Entries
        BY <4>1 DEF Sound
      <4> QED
        BY <1>2, <3>1, <4>1, <4>2, EntryStep
    <3>2. CASE UNCHANGED vars
      BY <1>2, <3>2 DEF vars, Records, TypeOK
    <3> QED
      BY <1>2, <3>1, <3>2
  <2>2. worker' \in Places /\ WorkerHasFile' /\ WorkerHasCycle'
    BY <1>2, WorkerPlaces
  <2>3. deleter' \in Deletions /\ DeleterHasCycle'
    BY <1>2, DeleterPlaces
  <2>4. (\A f \in Files : Sound(entry[f]))'
    BY <2>1
  <2>5. TypeOK'
    BY <1>2, <2>1, <2>2, <2>3, RestTyped DEF TypeOK, Places, Deletions
  <2> QED
    BY <2>2, <2>3, <2>4, <2>5 DEF Records
<1> QED
  BY <1>1, <1>2

\* Every reachable state of the pool satisfies Records.
LEMMA RecordsHold == Spec => []Records
<1> QED
  BY RecordsInductive, PTL DEF Spec

\* The pool's records, worker, deletion and disk keep their types, for every number of
\* cycles, files, requests and attempts.
THEOREM PoolTypeCorrect == Spec => []TypeOK
<1>1. Records => TypeOK
  BY DEF Records
<1> QED
  BY <1>1, RecordsHold, PTL

\* A file has task priority exactly as long as a task or an operation holds it, whatever
\* enqueues, releases, failures and deletions are interleaved.
THEOREM TaskPriorityHolds == Spec => []TaskPriorityIsHeld
<1>1. Records => TaskPriorityIsHeld
  BY DEF Records, Sound, TaskPriorityIsHeld
<1> QED
  BY <1>1, RecordsHold, PTL

\* A reference leaves a record with its release or with the record itself, never as a side
\* effect of another request, of the worker or of a crash.
THEOREM ReferencesHold == Spec => ReferencesKept
<1>1. ASSUME Records, [Next]_vars
      PROVE  [\A f \in Files : \A r \in entry[f].refs \ entry'[f].refs :
                ReleaseReference \/ entry'[f].status = "absent"]_vars
  <2>1. CASE Next
    <3>1. ASSUME NEW f \in Files, NEW r \in entry[f].refs \ entry'[f].refs
          PROVE  ReleaseReference \/ entry'[f].status = "absent"
      <4>0. Moved(f) /\ entry[f] \in Entries
        BY <1>1, <2>1, EntryStep DEF Records, TypeOK
      <4>1. ~(entry[f].refs \subseteq entry'[f].refs)
        BY <3>1
      <4>2. CASE entry'[f] = [entry[f] EXCEPT !.later = FALSE]
        <5>1. entry'[f].refs = entry[f].refs
          BY <4>0, <4>2 DEF Entries
        <5> QED
          BY <4>1, <5>1
      <4> QED
        BY <4>0, <4>1, <4>2 DEF Moved, Follows, Absent
    <3> QED
      BY <3>1
  <2>2. CASE UNCHANGED vars
    BY <2>2
  <2> QED
    BY <1>1, <2>1, <2>2
<1> QED
  BY <1>1, RecordsHold, PTL DEF Spec, ReferencesKept

-----------------------------------------------------------------------------
Gated == deleter.kind \in {"cleanup", "quarantine_gate"}

\* Who may hold the two gates together.  One curl at most is alive, the worker's own or one
\* that outlived its worker; a deletion that has the worker gate meets neither; one that
\* has only the cycle gate meets both, on other cycles.
Gates ==
  /\ \A f, g \in curls : f = g
  /\ WorkerLive => \A f \in curls : worker.at = "transfer" /\ f = worker.file
  /\ Gated => ~WorkerLive /\ curls = {}
  /\ deleter.kind # "none" => ~HoldsCycle(deleter.cycle)
  /\ deleter.kind = "quarantine_live" => \A f \in curls : CycleOf[f] # deleter.cycle

\* Gates is inductive relative to Records.
LEMMA GatesInductive ==
  /\ Init => Gates
  /\ Records /\ Gates /\ [Next]_vars => Gates'
<1>1. Init => Gates
  BY DEF Init, Gates, Gated, NoDeleter, NoWorker, WorkerLive, HoldsCycle
<1>2. ASSUME Records, Gates, [Next]_vars PROVE Gates'
  <2>0. /\ worker \in Places /\ worker' \in Places /\ WorkerHasFile
        /\ deleter \in Deletions /\ deleter' \in Deletions /\ DeleterHasCycle
        /\ NoDeleter.kind = "none" /\ NoWorker \in Places /\ NoWorker.at = "none"
        /\ curls \subseteq Files
    BY <1>2, WorkerPlaces, DeleterPlaces DEF Records, TypeOK, Places, Deletions, NoDeleter, NoWorker
  <2>1. CASE UNCHANGED <<worker, curls, deleter>>
    BY <1>2, <2>1 DEF Gates, Gated, WorkerLive, HoldsCycle
  <2>2. CASE TryStart
    <3>1. CASE UNCHANGED worker
      BY <1>2, <2>2, <3>1 DEF TryStart, Gates, Gated, WorkerLive, HoldsCycle
    <3>2. CASE WorkerGateFree /\ worker' = [NoWorker EXCEPT !.at = "marking"]
      <4>1. worker'.at = "marking" /\ curls' = {} /\ deleter' = deleter /\ ~Gated
        BY <2>0, <2>2, <3>2 DEF TryStart, WorkerGateFree, Gated, Places
      <4> QED
        BY <4>1 DEF Gates, Gated, WorkerLive, HoldsCycle
    <3> QED
      BY <2>2, <3>1, <3>2 DEF TryStart
  <2>3. ASSUME WorkerLive, worker.at # "transfer", UNCHANGED <<curls, deleter>>,
               worker'.at \notin {"transfer", "landed"}
        PROVE  Gates'
    <3>1. curls = {} /\ ~Gated
      BY <1>2, <2>3 DEF Gates
    <3> QED
      BY <2>3, <3>1 DEF Gates, Gated, WorkerLive, HoldsCycle
  <2>4. CASE Recover \/ CheckPending
    <3>1. worker'.at \in {"pick", "leaving"} /\ worker.at \in {"marking", "idle"}
      BY <2>0, <2>4 DEF Recover, CheckPending, Places
    <3> QED
      BY <2>3, <2>4, <3>1 DEF Recover, CheckPending, WorkerLive
  <2>5. CASE PickProbe \/ PickFile \/ PickNothing
    <3>1. worker'.at \in {"probe", "picked", "idle"} /\ worker.at = "pick" /\ UNCHANGED <<curls, deleter>>
      <4>1. CASE PickProbe
        <5>1. PICK f \in Probes : worker' = [NoWorker EXCEPT !.at = "probe", !.cycle = CycleOf[f]]
          BY <4>1 DEF PickProbe, Pick
        <5>2. worker'.at = "probe"
          BY <5>1 DEF NoWorker
        <5> QED
          BY <4>1, <5>2 DEF PickProbe, Pick
      <4>2. CASE PickFile
        <5>1. PICK f \in Choices : worker' = [at |-> "picked", file |-> f, cycle |-> CycleOf[f]]
          BY <4>2 DEF PickFile, Pick
        <5> QED
          BY <4>2, <5>1 DEF PickFile, Pick
      <4>3. CASE PickNothing
        BY <4>3 DEF PickNothing, Pick, NoWorker
      <4> QED
        BY <2>5, <4>1, <4>2, <4>3
    <3> QED
      BY <2>3, <3>1 DEF WorkerLive
  <2>6. CASE Leave \/ RecordGone \/ Probe \/ WriteManifest
    <3>1. worker'.at \in {"none", "pick"} /\ worker.at \in {"leaving", "picked", "probe", "seal"}
          /\ UNCHANGED <<curls, deleter>>
      BY <2>0, <2>6 DEF Leave, RecordGone, Probe, WriteManifest, Places, NoWorker
    <3> QED
      BY <2>3, <3>1 DEF WorkerLive
  <2>7. CASE CheckComplete
    <3>1. worker'.at \in {"seal", "pick"} /\ worker.at = "check" /\ UNCHANGED <<curls, deleter>>
      BY <2>0, <2>7 DEF CheckComplete, Places, NoWorker
    <3> QED
      BY <2>3, <3>1 DEF WorkerLive
  <2>8. CASE CycleBusy \/ RecordReady
    <3>1. worker'.at = "check" /\ worker.at \in {"picked", "landed"} /\ UNCHANGED <<curls, deleter>>
      BY <2>0, <2>8 DEF CycleBusy, RecordReady, Places
    <3> QED
      BY <2>3, <3>1 DEF WorkerLive
  <2>9. CASE StartTransfer
    <3>1. /\ worker'.at = "transfer" /\ worker'.file = worker.file /\ worker'.cycle = worker.cycle
          /\ deleter' = deleter /\ WorkerLive
          /\ worker.cycle = CycleOf[worker.file]
      BY <2>0, <2>9 DEF StartTransfer, Places, WorkerLive, WorkerHasFile
    <3>2. curls' = {worker.file} /\ ~Gated
      BY <1>2, <2>9, <3>1 DEF Gates, StartTransfer
    <3>3. deleter.kind # "none" => deleter.cycle # worker.cycle
      BY <2>9, <3>2 DEF StartTransfer, CycleGateFree, Gated
    <3> QED
      BY <3>1, <3>2, <3>3 DEF Gates, Gated, WorkerLive, HoldsCycle
  <2>10. CASE TransferLands
    <3>1. /\ worker'.at = "landed" /\ worker'.cycle = worker.cycle
          /\ deleter' = deleter /\ WorkerLive
      BY <2>0, <2>10 DEF TransferLands, Places, WorkerLive
    <3>2. curls' = {} /\ ~Gated
      BY <1>2, <2>10, <3>1 DEF Gates, TransferLands
    <3>3. HoldsCycle(deleter.cycle)' => HoldsCycle(deleter.cycle)
      BY <2>10, <3>1 DEF TransferLands, HoldsCycle
    <3> QED
      BY <1>2, <3>1, <3>2, <3>3 DEF Gates, Gated, WorkerLive
  <2>11. CASE TransferFails
    <3>1. worker'.at = "check" /\ deleter' = deleter /\ WorkerLive
      BY <2>0, <2>11 DEF TransferFails, Places, WorkerLive
    <3>2. curls' = {} /\ ~Gated
      BY <1>2, <2>11, <3>1 DEF Gates, TransferFails
    <3> QED
      BY <3>1, <3>2 DEF Gates, Gated, WorkerLive, HoldsCycle
  <2>12. CASE BeginCleanup
    <3>1. deleter'.kind = "cleanup" /\ ~WorkerLive /\ curls = {} /\ UNCHANGED <<worker, curls>>
      BY <2>12 DEF BeginCleanup, WorkerGateFree
    <3> QED
      BY <3>1 DEF Gates, Gated, WorkerLive, HoldsCycle
  <2>13. CASE BeginQuarantine
    <3>1. PICK c \in Cycles :
            /\ CycleGateFree(c)
            /\ \/ WorkerGateFree /\ deleter' = [kind |-> "quarantine_gate", at |-> "gated", cycle |-> c]
               \/ LiveElsewhere(c) /\ deleter' = [kind |-> "quarantine_live", at |-> "gated", cycle |-> c]
      BY <2>13 DEF BeginQuarantine
    <3>2. UNCHANGED <<worker, curls>>
      BY <2>13 DEF BeginQuarantine
    <3>3. CASE WorkerGateFree /\ deleter' = [kind |-> "quarantine_gate", at |-> "gated", cycle |-> c]
      <4>1. deleter'.kind = "quarantine_gate" /\ ~WorkerLive /\ curls = {}
        BY <3>3 DEF WorkerGateFree
      <4> QED
        BY <3>2, <4>1 DEF Gates, Gated, WorkerLive, HoldsCycle
    <3>4. CASE LiveElsewhere(c) /\ deleter' = [kind |-> "quarantine_live", at |-> "gated", cycle |-> c]
      <4>1. deleter'.kind = "quarantine_live" /\ deleter'.cycle = c /\ ~HoldsCycle(c)
        BY <3>1, <3>4 DEF CycleGateFree
      <4>2. PICK d \in Cycles \ {c} : HoldsCycle(d)
        BY <3>4 DEF LiveElsewhere
      <4>3. \A f \in curls : CycleOf[f] = d
        BY <1>2, <2>0, <4>2 DEF Gates, HoldsCycle, WorkerLive, WorkerHasFile
      <4> QED
        BY <1>2, <3>2, <4>1, <4>3 DEF Gates, Gated, WorkerLive, HoldsCycle
    <3> QED
      BY <3>1, <3>3, <3>4
  <2>14. ASSUME deleter' = NoDeleter, UNCHANGED <<worker, curls>> PROVE Gates'
    BY <1>2, <2>0, <2>14 DEF Gates, Gated, WorkerLive, HoldsCycle
  <2>15. CASE ReviewQuarantine \/ RemoveDirectory
    <3>1. CASE \E a \in {"removing", "removed"} : deleter' = [deleter EXCEPT !.at = a]
      <4>1. deleter'.kind = deleter.kind /\ deleter'.cycle = deleter.cycle /\ UNCHANGED <<worker, curls>>
        BY <2>0, <2>15, <3>1 DEF ReviewQuarantine, RemoveDirectory, Deletions
      <4> QED
        BY <1>2, <4>1 DEF Gates, Gated, WorkerLive, HoldsCycle
    <3> QED
      BY <2>14, <2>15, <3>1 DEF ReviewQuarantine, RemoveDirectory
  <2>16. CASE CloseDeletion \/ DeleterCrash
    BY <2>14, <2>16 DEF CloseDeletion, DeleterCrash
  <2>17. CASE WorkerCrash
    <3>1. ~WorkerLive' /\ curls' \subseteq curls /\ deleter' = deleter
      BY <2>0, <2>17 DEF WorkerCrash, WorkerLive
    <3>2. ~Gated
      BY <1>2, <2>17 DEF WorkerCrash, Gates
    <3>3. deleter.kind = "quarantine_live" => \A f \in curls' : CycleOf[f] # deleter.cycle
      BY <1>2, <3>1 DEF Gates
    <3> QED
      BY <1>2, <3>1, <3>2, <3>3 DEF Gates, Gated, WorkerLive, HoldsCycle
  <2>18. CASE MarkerTorn \/ OrphanEnds
    BY <1>2, <2>18 DEF MarkerTorn, OrphanEnds, Gates, Gated, WorkerLive, HoldsCycle
  <2>19. CASE Request \/ TimePasses \/ UNCHANGED vars
    BY <2>1, <2>19 DEF Request, EnqueueTask, EnqueuePrefetch, Enqueue, ReleaseReference, ExpirePrefetch,
       TimePasses, vars
  <2> QED
    BY <1>2, <2>2, <2>4, <2>5, <2>6, <2>7, <2>8, <2>9, <2>10, <2>11, <2>12, <2>13, <2>15, <2>16,
       <2>17, <2>18, <2>19 DEF Next, WorkerStep, DeleterStep, Environment
<1> QED
  BY <1>1, <1>2

\* Every reachable state of the pool satisfies Gates.
LEMMA GatesHold == Spec => []Gates
<1> QED
  BY RecordsHold, GatesInductive, PTL DEF Spec

\* A provider never has two transfers at once, not even when a worker died and left its curl
\* behind, and no deletion removes the directory such a curl writes into.
THEOREM OneWriterHolds == Spec => []OneWriter
<1>1. Records /\ Gates => OneWriter
  <2> SUFFICES ASSUME Records, Gates PROVE OneWriter
    OBVIOUS
  <2>1. Cardinality(curls) <= 1
    <3>1. CASE curls = {}
      BY <3>1, FS_EmptySet
    <3>2. CASE curls # {}
      <4>1. PICK f \in curls : curls = {f}
        BY <3>2 DEF Gates
      <4>2. Cardinality({f}) = 1
        BY FS_Singleton
      <4> QED
        BY <4>1, <4>2
    <3> QED
      BY <3>1, <3>2
  <2>2. ASSUME NEW f \in curls, deleter.at \in {"removing", "removed"}, deleter.cycle = CycleOf[f]
        PROVE  FALSE
    BY <2>2 DEF Gates, Gated, Records, DeleterHasCycle, TypeOK
  <2> QED
    BY <2>1, <2>2 DEF OneWriter
<1> QED
  BY <1>1, RecordsHold, GatesHold, PTL

-----------------------------------------------------------------------------

\* How a step may change what is on disk.
LEMMA DiskStep ==
  ASSUME Records, [Next]_vars
  PROVE  \/ UNCHANGED disk
         \/ TransferLands /\ valid' = valid \cup {worker.file} /\ UNCHANGED <<manifest, torn>>
         \/ WriteManifest /\ manifest' = manifest \cup {worker.cycle} /\ UNCHANGED <<valid, torn>>
         \/ RemoveDirectory /\ valid' = valid \ FilesOf(deleter.cycle)
            /\ manifest' = manifest \ {deleter.cycle} /\ torn' = torn
         \/ /\ DeleterCrash /\ torn' = torn \cup {deleter.cycle} /\ deleter.at \in {"removing", "removed"}
            /\ valid' \subseteq valid /\ manifest' \subseteq manifest
            /\ \A f \in valid \ valid' : CycleOf[f] = deleter.cycle /\ Gated /\ deleter.at = "removing"
<1>1. CASE DeleterCrash
  <2>0. deleter \in Deletions /\ DeleterHasCycle
    BY DEF Records, TypeOK, Deletions
  <2>1. deleter.kind # "none" /\ deleter.at \in {"gated", "removing", "removed"}
    BY <1>1, <2>0 DEF DeleterCrash, NoDeleter, DeleterHasCycle, Deletions
  <2>2. CASE deleter.at = "gated"
    BY <1>1, <2>0, <2>2 DEF DeleterCrash, DeleterHasCycle, disk
  <2>3. CASE deleter.at # "gated"
    <3>1. torn' = torn \cup {deleter.cycle} /\ deleter.at \in {"removing", "removed"}
      BY <1>1, <2>1, <2>3 DEF DeleterCrash
    <3>2. CASE deleter.kind = "cleanup" /\ deleter.at = "removing"
      <4>1. /\ \E lost \in SUBSET (valid \cap FilesOf(deleter.cycle)) : valid' = valid \ lost
            /\ manifest' \in {manifest, manifest \ {deleter.cycle}}
        BY <1>1, <3>2 DEF DeleterCrash
      <4> QED
        BY <1>1, <3>1, <3>2, <4>1 DEF FilesOf, Gated
    <3>3. CASE ~(deleter.kind = "cleanup" /\ deleter.at = "removing")
      BY <1>1, <3>1, <3>3 DEF DeleterCrash
    <3> QED
      BY <3>2, <3>3
  <2> QED
    BY <2>2, <2>3
<1>2. CASE TransferLands \/ WriteManifest \/ RemoveDirectory
  BY <1>2 DEF TransferLands, WriteManifest, RemoveDirectory
<1>3. CASE \/ Request \/ TryStart \/ Recover \/ PickProbe \/ PickFile \/ PickNothing \/ CheckPending \/ Leave
           \/ Probe \/ CycleBusy \/ StartTransfer \/ RecordGone \/ RecordReady \/ TransferFails \/ CheckComplete
           \/ BeginCleanup \/ BeginQuarantine \/ ReviewQuarantine \/ CloseDeletion
           \/ TimePasses \/ WorkerCrash \/ MarkerTorn \/ OrphanEnds \/ UNCHANGED vars
  BY <1>3 DEF Request, EnqueueTask, EnqueuePrefetch, Enqueue, ReleaseReference, ExpirePrefetch, TryStart,
     Recover, PickProbe, PickFile, PickNothing, Pick, CheckPending, Leave, Probe, CycleBusy, StartTransfer,
     RecordGone, RecordReady, TransferFails, CheckComplete, BeginCleanup, BeginQuarantine, ReviewQuarantine,
     CloseDeletion, TimePasses, WorkerCrash, MarkerTorn, OrphanEnds, vars, disk
<1> QED
  BY <1>1, <1>2, <1>3 DEF Next, WorkerStep, DeleterStep, Environment

\* How a step may change the deletion.
LEMMA DeletionStep ==
  ASSUME Records, [Next]_vars
  PROVE  \/ UNCHANGED deleter /\ ~CloseDeletion
         \/ deleter' = NoDeleter
         \/ deleter'.kind = "cleanup" /\ deleter = NoDeleter /\ ~WorkerLive /\ UNCHANGED <<entry, worker>>
         \/ /\ deleter'.at = "gated" /\ deleter = NoDeleter /\ UNCHANGED <<entry, worker>>
            /\ ~WorkerLive \/ worker.at \in {"transfer", "landed"}
         \/ /\ deleter.at = "gated" /\ deleter' = [deleter EXCEPT !.at = "removing"] /\ UNCHANGED <<entry, worker>>
            /\ \A f \in FilesOf(deleter.cycle) : ~Protected(entry[f])
         \/ deleter.at = "removing" /\ deleter' = [deleter EXCEPT !.at = "removed"] /\ UNCHANGED <<entry, worker>>
<1>1. CASE BeginCleanup
  BY <1>1 DEF BeginCleanup, WorkerGateFree, queue
<1>2. CASE BeginQuarantine
  <2>1. deleter = NoDeleter /\ deleter'.at = "gated" /\ UNCHANGED <<entry, worker>>
    BY <1>2 DEF BeginQuarantine, queue
  <2>2. ~WorkerLive \/ worker.at \in {"transfer", "landed"}
    BY <1>2 DEF BeginQuarantine, WorkerGateFree, LiveElsewhere, HoldsCycle
  <2> QED
    BY <2>1, <2>2
<1>3. CASE ReviewQuarantine
  BY <1>3 DEF ReviewQuarantine, queue
<1>4. CASE RemoveDirectory
  BY <1>4 DEF RemoveDirectory, queue
<1>5. CASE CloseDeletion \/ DeleterCrash
  BY <1>5 DEF CloseDeletion, DeleterCrash
<1>6. CASE \/ Request \/ TryStart \/ WorkerStep \/ TimePasses \/ WorkerCrash \/ MarkerTorn \/ OrphanEnds \/ UNCHANGED vars
  <2>1. UNCHANGED deleter
    BY <1>6 DEF Request, EnqueueTask, EnqueuePrefetch, Enqueue, ReleaseReference, ExpirePrefetch, TryStart,
       WorkerStep, Recover, PickProbe, PickFile, PickNothing, Pick, CheckPending, Leave, Probe, CycleBusy,
       StartTransfer, RecordGone, TransferLands, RecordReady, TransferFails, CheckComplete, WriteManifest,
       TimePasses, WorkerCrash, MarkerTorn, OrphanEnds, vars
  <2>2. CloseDeletion => deleter' = NoDeleter
    BY DEF CloseDeletion
  <2> QED
    BY <2>1, <2>2
<1> QED
  BY <1>1, <1>2, <1>3, <1>4, <1>5, <1>6 DEF Next, DeleterStep, Environment

\* What a queue section that is not the deletion's own leaves of a record while a deletion
\* has the state lock.
LEMMA LockedRecords ==
  ASSUME Records, [Next]_vars, ~StateFree, ~CloseDeletion, NEW f \in Files
  PROVE  /\ entry'[f].status = entry[f].status /\ entry'[f].prefetch = entry[f].prefetch
         /\ entry'[f].refs = entry[f].refs /\ entry'[f].legacy = entry[f].legacy
<1>1. CASE Next
  <2>1. Moved(f) /\ entry[f] \in Entries
    BY <1>1, EntryStep DEF Records, TypeOK
  <2>2. entry'[f] = entry[f] \/ entry'[f] = [entry[f] EXCEPT !.later = FALSE]
    BY <2>1 DEF Moved
  <2> QED
    BY <2>1, <2>2 DEF Entries
<1>2. CASE UNCHANGED vars
  BY <1>2 DEF vars
<1> QED
  BY <1>1, <1>2

\* The claims a quarantine reviewed cannot change before its cycle is gone.
LEMMA ClaimsInductive ==
  /\ Init => QuarantineSparesClaims
  /\ Records /\ QuarantineSparesClaims /\ [Next]_vars => QuarantineSparesClaims'
<1>1. Init => QuarantineSparesClaims
  BY DEF Init, NoDeleter, QuarantineSparesClaims
<1>2. ASSUME Records, QuarantineSparesClaims, [Next]_vars PROVE QuarantineSparesClaims'
  <2>0. deleter \in Deletions /\ DeleterHasCycle /\ NoDeleter.kind = "none"
    BY <1>2 DEF Records, TypeOK, Deletions, NoDeleter
  <2>1. CASE UNCHANGED deleter /\ ~CloseDeletion
    <3>1. SUFFICES ASSUME deleter.kind \in {"quarantine_gate", "quarantine_live"},
                          deleter.at \in {"removing", "removed"}, NEW f \in FilesOf(deleter.cycle)
                   PROVE  ~Wanted(entry'[f]) /\ ~entry'[f].prefetch
      BY <2>1 DEF QuarantineSparesClaims, FilesOf
    <3>2. f \in Files /\ ~StateFree /\ ~Wanted(entry[f]) /\ ~entry[f].prefetch
      BY <1>2, <3>1 DEF QuarantineSparesClaims, FilesOf, StateFree
    <3>3. /\ entry'[f].prefetch = entry[f].prefetch
          /\ entry'[f].refs = entry[f].refs /\ entry'[f].legacy = entry[f].legacy
      BY <1>2, <2>1, <3>2, LockedRecords
    <3> QED
      BY <3>2, <3>3 DEF Wanted
  <2>2. CASE deleter' = NoDeleter
    BY <2>0, <2>2 DEF QuarantineSparesClaims
  <2>3. CASE deleter'.kind = "cleanup"
    BY <2>3 DEF QuarantineSparesClaims
  <2>4. CASE deleter'.at = "gated"
    BY <2>4 DEF QuarantineSparesClaims
  <2>5. CASE /\ deleter' = [deleter EXCEPT !.at = "removing"] /\ UNCHANGED entry
             /\ \A f \in FilesOf(deleter.cycle) : ~Protected(entry[f])
    BY <2>0, <2>5 DEF QuarantineSparesClaims, Protected, Wanted, FilesOf, Deletions
  <2>6. CASE deleter.at = "removing" /\ deleter' = [deleter EXCEPT !.at = "removed"] /\ UNCHANGED entry
    BY <1>2, <2>0, <2>6 DEF QuarantineSparesClaims, FilesOf, Deletions
  <2> QED
    BY <1>2, <2>1, <2>2, <2>3, <2>4, <2>5, <2>6, DeletionStep
<1> QED
  BY <1>1, <1>2

\* A quarantine never takes a cycle away from a task, an operation or the prefetch, however
\* their requests race with it.
THEOREM QuarantineSparesClaimsHolds == Spec => []QuarantineSparesClaims
<1> QED
  BY RecordsHold, ClaimsInductive, PTL DEF Spec

-----------------------------------------------------------------------------
\* How the worker, the directories and the manifests agree.  The worker looks at a cycle
\* and declares it complete without the cycle gate: what saves it is that a deletion of
\* that cycle can neither begin nor, once begun, meet a complete cycle in between.
Contents ==
  /\ worker.at = "landed" => worker.file \in valid
  /\ worker.at = "picked" => worker.file \notin valid
  /\ worker.at = "check" /\ deleter.kind # "none" /\ deleter.cycle = worker.cycle =>
       ~(FilesOf(worker.cycle) \subseteq valid)
  /\ worker.at = "seal" => /\ FilesOf(worker.cycle) \subseteq valid
                           /\ deleter.kind # "none" => deleter.cycle # worker.cycle
  /\ ManifestIsComplete
  /\ ReadyIsOnDisk

\* While the worker is on a file or a cycle, a step changes on disk only what the worker
\* lands or declares, and files of another cycle.
LEMMA DiskUnderWorker ==
  ASSUME Records, Gates, Contents, [Next]_vars,
         worker.at \in {"landed", "seal"}, NEW f \in valid, CycleOf[f] = worker.cycle
  PROVE  f \in valid'
<1>1. deleter.at = "removing" => deleter.kind # "none"
  BY DEF Records, DeleterHasCycle
<1>2. deleter.kind # "none" => deleter.cycle # worker.cycle
  BY DEF Gates, HoldsCycle, Contents
<1> QED
  BY <1>1, <1>2, DiskStep DEF disk, RemoveDirectory, FilesOf

\* What the worker knows of its file and its cycle stays true until it acts on it.
LEMMA WorkerContents ==
  ASSUME Records, Gates, Contents, [Next]_vars
  PROVE  /\ worker'.at = "landed" => worker'.file \in valid'
         /\ worker'.at = "picked" => worker'.file \notin valid'
         /\ worker'.at = "check" /\ deleter'.kind # "none" /\ deleter'.cycle = worker'.cycle =>
              ~(FilesOf(worker'.cycle) \subseteq valid')
         /\ worker'.at = "seal" => /\ FilesOf(worker'.cycle) \subseteq valid'
                                   /\ deleter'.kind # "none" => deleter'.cycle # worker'.cycle
<1>0. /\ worker \in Places /\ WorkerHasFile /\ NoWorker \in Places /\ NoWorker.at = "none"
      /\ deleter \in Deletions /\ DeleterHasCycle /\ NoDeleter.kind = "none"
      /\ valid \subseteq Files
  BY DEF Records, TypeOK, Places, Deletions, NoWorker, NoDeleter
<1> DEFINE Known == /\ worker'.at = "landed" => worker'.file \in valid'
                    /\ worker'.at = "picked" => worker'.file \notin valid'
                    /\ worker'.at = "check" /\ deleter'.kind # "none" /\ deleter'.cycle = worker'.cycle =>
                         ~(FilesOf(worker'.cycle) \subseteq valid')
                    /\ worker'.at = "seal" => /\ FilesOf(worker'.cycle) \subseteq valid'
                                              /\ deleter'.kind # "none" => deleter'.cycle # worker'.cycle
<1>1. ASSUME UNCHANGED worker PROVE Known
  <2>1. ASSUME worker.at = "landed" PROVE worker.file \in valid'
    BY <1>0, <2>1, DiskUnderWorker DEF Contents, WorkerHasFile
  <2>2. ASSUME worker.at = "picked" PROVE worker.file \notin valid'
    BY <1>0, <2>2, DiskStep DEF Contents, disk, TransferLands
  <2>3. ASSUME worker.at \in {"check", "seal"}, deleter'.kind # "none", deleter'.cycle = worker.cycle
        PROVE  deleter.kind # "none" /\ deleter.cycle = worker.cycle
    BY <1>0, <2>3, DeletionStep DEF Deletions, WorkerLive
  <2>4. ASSUME worker.at = "check" PROVE valid' \subseteq valid
    BY <1>0, <2>4, DiskStep DEF disk, TransferLands
  <2>5. ASSUME worker.at = "seal" PROVE FilesOf(worker.cycle) \subseteq valid'
    BY <2>5, DiskUnderWorker DEF Contents, FilesOf
  <2> QED
    BY <1>1, <2>1, <2>2, <2>3, <2>4, <2>5 DEF Contents
<1>2. ASSUME worker'.at \notin {"landed", "picked", "check", "seal"} PROVE Known
  BY <1>2
<1>3. CASE PickFile
  <2>1. PICK f \in Choices : worker' = [at |-> "picked", file |-> f, cycle |-> CycleOf[f]]
    BY <1>3 DEF PickFile, Pick
  <2>2. f \notin valid /\ valid' = valid
    BY <1>3 DEF PickFile, Pick, Choices, Eligible, disk
  <2> QED
    BY <2>1, <2>2
<1>4. CASE CycleBusy
  <2>1. /\ worker'.at = "check" /\ worker'.cycle = worker.cycle /\ worker.at = "picked"
        /\ UNCHANGED <<valid, deleter>>
    BY <1>0, <1>4 DEF CycleBusy, Places, disk
  <2>2. worker.file \in FilesOf(worker.cycle) /\ worker.file \notin valid
    BY <1>0, <2>1 DEF Contents, WorkerHasFile, FilesOf
  <2> QED
    BY <2>1, <2>2 DEF FilesOf
<1>5. CASE RecordReady \/ TransferFails
  <2>1. /\ worker'.at = "check" /\ worker'.cycle = worker.cycle /\ HoldsCycle(worker.cycle)
        /\ UNCHANGED <<valid, deleter>>
    BY <1>0, <1>5 DEF RecordReady, TransferFails, Places, disk, HoldsCycle
  <2> QED
    BY <2>1 DEF Gates
<1>6. CASE TransferLands
  BY <1>0, <1>6 DEF TransferLands, Places
<1>7. CASE CheckComplete
  <2>1. CASE FilesOf(worker.cycle) \subseteq valid
    <3>1. /\ worker'.at = "seal" /\ worker'.cycle = worker.cycle /\ worker.at = "check"
          /\ UNCHANGED <<valid, deleter>>
      BY <1>0, <1>7, <2>1 DEF CheckComplete, Places, disk
    <3> QED
      BY <2>1, <3>1 DEF Contents, FilesOf
  <2>2. CASE ~(FilesOf(worker.cycle) \subseteq valid)
    <3>1. worker'.at = "pick"
      BY <1>0, <1>7, <2>2 DEF CheckComplete, Places, NoWorker
    <3> QED
      BY <1>2, <3>1
  <2> QED
    BY <2>1, <2>2
<1>8. CASE PickProbe
  <2>1. PICK f \in Probes : worker' = [NoWorker EXCEPT !.at = "probe", !.cycle = CycleOf[f]]
    BY <1>8 DEF PickProbe, Pick
  <2>2. worker'.at = "probe"
    BY <2>1 DEF NoWorker
  <2> QED
    BY <1>2, <2>2
<1>9. CASE \/ Recover \/ PickNothing \/ CheckPending \/ Leave \/ Probe \/ StartTransfer \/ RecordGone
           \/ WriteManifest \/ WorkerCrash
  <2>1. worker'.at \notin {"landed", "picked", "check", "seal"}
    BY <1>0, <1>9 DEF Recover, PickNothing, Pick, CheckPending, Leave, Probe, StartTransfer, RecordGone,
       WriteManifest, WorkerCrash, Places, NoWorker
  <2> QED
    BY <1>2, <2>1
<1>10. CASE TryStart
  <2>1. worker' = worker \/ worker'.at = "marking"
    BY <1>0, <1>10 DEF TryStart, Places, NoWorker
  <2> QED
    BY <1>1, <1>2, <2>1
<1>11. CASE Request \/ DeleterStep \/ TimePasses \/ MarkerTorn \/ OrphanEnds \/ DeleterCrash \/ UNCHANGED vars
  <2>1. UNCHANGED worker
    BY <1>11 DEF Request, EnqueueTask, EnqueuePrefetch, Enqueue, ReleaseReference, ExpirePrefetch,
       DeleterStep, BeginCleanup, BeginQuarantine, ReviewQuarantine, RemoveDirectory, CloseDeletion,
       TimePasses, MarkerTorn, OrphanEnds, DeleterCrash, vars
  <2> QED
    BY <1>1, <2>1
<1> QED
  BY <1>3, <1>4, <1>5, <1>6, <1>7, <1>8, <1>9, <1>10, <1>11 DEF Next, WorkerStep, Environment

\* A manifest outlives none of its cycle's files, but for an interrupted deletion's.
LEMMA ManifestStep ==
  ASSUME Records, Gates, Contents, [Next]_vars
  PROVE  ManifestIsComplete'
<1>1. SUFFICES ASSUME NEW c \in manifest', c \notin torn', NEW f \in Files, CycleOf[f] = c
               PROVE  f \in valid'
  BY DEF ManifestIsComplete, FilesOf
<1>2. CASE c \in manifest
  <2>1. c \notin torn
    BY <1>1, DiskStep DEF disk
  <2>2. f \in valid
    BY <1>1, <1>2, <2>1 DEF Contents, ManifestIsComplete, FilesOf
  <2>3. CASE c = deleter.cycle /\ (RemoveDirectory \/ DeleterCrash)
    BY <1>1, <2>2, <2>3, DiskStep DEF disk, TransferLands, WriteManifest
  <2>4. CASE ~(c = deleter.cycle /\ (RemoveDirectory \/ DeleterCrash))
    BY <1>1, <2>2, <2>4, DiskStep DEF disk, FilesOf
  <2> QED
    BY <2>3, <2>4
<1>3. CASE c \notin manifest
  <2>1. WriteManifest /\ c = worker.cycle /\ UNCHANGED valid
    BY <1>1, <1>3, DiskStep DEF disk
  <2> QED
    BY <1>1, <2>1 DEF WriteManifest, Contents, FilesOf
<1> QED
  BY <1>2, <1>3

\* A ready record outlives its file only while a deletion is at work or was interrupted.
LEMMA ReadyStep ==
  ASSUME Records, Gates, Contents, [Next]_vars
  PROVE  ReadyIsOnDisk'
<1>0. deleter \in Deletions /\ DeleterHasCycle
  BY DEF Records, TypeOK, Deletions
<1>1. SUFFICES ASSUME NEW f \in Files, entry'[f].status = "ready", f \notin valid', CycleOf[f] \notin torn'
               PROVE  deleter'.at = "removed" /\ deleter'.cycle = CycleOf[f]
  BY DEF ReadyIsOnDisk
<1>2. CASE RemoveDirectory
  <2>1. entry' = entry /\ torn' = torn /\ deleter'.at = "removed" /\ deleter'.cycle = deleter.cycle
    BY <1>0, <1>2 DEF RemoveDirectory, queue, Deletions
  <2>2. deleter.at = "removing"
    BY <1>2 DEF RemoveDirectory
  <2>3. CASE f \in valid
    BY <1>1, <1>2, <2>1, <2>3 DEF RemoveDirectory, FilesOf
  <2>4. CASE f \notin valid
    BY <1>1, <2>1, <2>2, <2>4 DEF Contents, ReadyIsOnDisk
  <2> QED
    BY <2>3, <2>4
<1>3. CASE ~RemoveDirectory
  <2>1. f \notin valid /\ CycleOf[f] \notin torn
    BY <1>1, <1>3, DiskStep DEF disk
  <2>2. CASE CloseDeletion
    <3>1. entry'[f] = IF CycleOf[f] = deleter.cycle THEN Absent ELSE entry[f]
      BY <2>2 DEF CloseDeletion
    <3> QED
      BY <1>1, <2>1, <3>1 DEF Contents, ReadyIsOnDisk, Absent
  <2>3. CASE ~CloseDeletion
    <3>1. entry[f].status = "ready"
      <4>1. CASE Next
        <5>1. Moved(f) /\ entry[f] \in Entries
          BY <4>1, EntryStep DEF Records, TypeOK
        <5>2. CASE entry'[f] = [entry[f] EXCEPT !.later = FALSE]
          BY <1>1, <5>1, <5>2 DEF Entries
        <5>3. ~(worker.at = "landed" /\ f = worker.file)
          BY <2>1 DEF Contents
        <5> QED
          BY <1>1, <2>1, <2>3, <5>1, <5>2, <5>3 DEF Moved, Follows
      <4>2. CASE UNCHANGED vars
        BY <1>1, <4>2 DEF vars
      <4> QED
        BY <4>1, <4>2
    <3>2. deleter.at = "removed" /\ deleter.cycle = CycleOf[f]
      BY <2>1, <3>1 DEF Contents, ReadyIsOnDisk
    <3>3. CASE UNCHANGED deleter
      BY <3>2, <3>3
    <3>4. CASE deleter' # deleter
      <4>1. deleter' = NoDeleter /\ deleter # NoDeleter
        BY <3>2, <3>4, DeletionStep DEF NoDeleter
      <4>2. DeleterCrash
        BY <2>3, <3>2, <4>1 DEF Next, Request, EnqueueTask, EnqueuePrefetch, Enqueue, ReleaseReference,
           ExpirePrefetch, TryStart, WorkerStep, Recover, PickProbe, PickFile, PickNothing, Pick,
           CheckPending, Leave, Probe, CycleBusy, StartTransfer, RecordGone, TransferLands, RecordReady,
           TransferFails, CheckComplete, WriteManifest, DeleterStep, BeginCleanup, BeginQuarantine,
           ReviewQuarantine, RemoveDirectory, Environment, TimePasses, WorkerCrash, MarkerTorn, OrphanEnds, vars
      <4> QED
        BY <1>1, <3>2, <4>2 DEF DeleterCrash
    <3> QED
      BY <3>3, <3>4
  <2> QED
    BY <2>2, <2>3
<1> QED
  BY <1>2, <1>3

\* Contents is inductive relative to Records and Gates.
LEMMA ContentsInductive ==
  /\ Init => Contents
  /\ Records /\ Gates /\ Contents /\ [Next]_vars => Contents'
<1>1. Init => Contents
  BY DEF Init, Contents, ManifestIsComplete, ReadyIsOnDisk, NoWorker, Absent
<1>2. ASSUME Records, Gates, Contents, [Next]_vars PROVE Contents'
  <2>1. ManifestIsComplete' /\ ReadyIsOnDisk'
    BY <1>2, ManifestStep, ReadyStep
  <2>2. FilesOf(worker.cycle)' = FilesOf(worker'.cycle)
    BY DEF FilesOf
  <2> QED
    BY <1>2, <2>1, <2>2, WorkerContents DEF Contents
<1> QED
  BY <1>1, <1>2

\* Every reachable state of the pool satisfies Contents.
LEMMA ContentsHold == Spec => []Contents
<1> QED
  BY RecordsHold, GatesHold, ContentsInductive, PTL DEF Spec

\* What the queue calls ready is whole on disk, unless a deletion of its cycle is at work or
\* was interrupted and waits for an operator.
THEOREM ReadyIsOnDiskHolds == Spec => []ReadyIsOnDisk
<1>1. Contents => ReadyIsOnDisk
  BY DEF Contents
<1> QED
  BY <1>1, ContentsHold, PTL

\* A manifest that calls a cycle complete never outlives one of its files, although it is
\* written without the cycle gate, after the files were looked at.
THEOREM ManifestIsCompleteHolds == Spec => []ManifestIsComplete
<1>1. Contents => ManifestIsComplete
  BY DEF Contents
<1> QED
  BY <1>1, ContentsHold, PTL

-----------------------------------------------------------------------------
\* Only the start of a transfer calls a file downloading.
LEMMA DownloadStep ==
  ASSUME Records, Next, NEW f \in Files, entry'[f].status = "downloading"
  PROVE  entry[f].status = "downloading" \/ (StartTransfer /\ f = worker.file)
<1>0. entry \in [Files -> Entries] /\ entry[f] \in Entries /\ Sound(entry[f])
  BY DEF Records, TypeOK
<1>1. ASSUME NEW e \in Entries, NEW p \in {"task", "prefetch"}, NEW r \in Refs \cup {None},
             Requested(e, f, p, r).status = "downloading"
      PROVE  e.status = "downloading"
  <2>1. PICK k \in Entries : k = (IF e.status = "absent" THEN Queued(p) ELSE e)
                             /\ (k.status = "downloading" => e.status = "downloading")
    <3>1. Queued(p) \in Entries /\ Queued(p).status = "queued"
      BY AbsentSound DEF Queued, Absent, Entries, Sound
    <3> QED
      BY <3>1
  <2>2. PICK h \in Entries : h = Claimed(k, p, r) /\ (h.status = "downloading" => k.status = "downloading")
    <3>1. /\ Claimed(k, p, r) \in Entries
          /\ Claimed(k, p, r).status = IF k.status = "cancelled" THEN "queued" ELSE k.status
      BY <2>1, ClaimedIsEntry
    <3> QED
      BY <3>1
  <2>3. PICK u \in Entries : u = Urgent(h, p) /\ u.status = h.status
    <3>1. Urgent(h, p) \in Entries /\ Urgent(h, p).status = h.status
      BY DEF Urgent, Entries
    <3> QED
      BY <3>1
  <2>4. Afresh(u).status = "queued"
    BY DEF Afresh, Entries
  <2>5. \/ Requested(e, f, p, r) = u
        \/ Requested(e, f, p, r) = Afresh(u)
        \/ \E b \in BOOLEAN : Requested(e, f, p, r) = [u EXCEPT !.status = "ready", !.requeue = FALSE, !.later = b]
    BY <2>1, <2>2, <2>3 DEF Requested, Entries
  <2>6. ASSUME NEW b \in BOOLEAN, NEW v, v = [u EXCEPT !.status = "ready", !.requeue = FALSE, !.later = b]
        PROVE  v.status = "ready"
    BY <2>6 DEF Entries
  <2> QED
    BY <1>1, <2>1, <2>2, <2>3, <2>4, <2>5, <2>6
<1>2. CASE EnqueueTask
  <2>1. PICK q \in Requests : Enqueue(q.hours, "task", q.ref)
    BY <1>2 DEF EnqueueTask
  <2>2. q.ref \in Refs \cup {None}
    BY PoolAssumption
  <2> QED
    BY <1>0, <1>1, <2>1, <2>2 DEF Enqueue
<1>3. CASE EnqueuePrefetch
  <2>1. PICK c \in Cycles : Enqueue(FilesOf(c), "prefetch", None)
    BY <1>3 DEF EnqueuePrefetch
  <2> QED
    BY <1>0, <1>1, <2>1 DEF Enqueue
<1>4. CASE ReleaseReference
  <2>1. PICK q \in Requests : entry' = [g \in Files |-> IF CycleOf[g] = q.cycle
                                          THEN Released(entry[g], q.ref) ELSE entry[g]]
    BY <1>4 DEF ReleaseReference
  <2>2. ASSUME NEW r, Released(entry[f], r).status = "downloading" PROVE entry[f].status = "downloading"
    BY <1>0, <2>2 DEF Released, Cancelled, Entries
  <2> QED
    BY <2>1, <2>2
<1>5. CASE ExpirePrefetch
  <2>1. entry'[f] = entry[f] \/ entry'[f] = Expired(entry[f])
    BY <1>5 DEF ExpirePrefetch
  <2>2. Expired(entry[f]).status = "downloading" => entry[f].status = "downloading"
    BY <1>0 DEF Expired, Entries
  <2> QED
    BY <2>1, <2>2
<1>6. CASE Recover
  BY <1>0, <1>6 DEF Recover, Entries
<1>7. CASE PickProbe \/ PickFile \/ PickNothing
  <2>1. entry'[f] = Reviewed(f)
    BY <1>7 DEF PickProbe, PickFile, PickNothing, Pick
  <2>2. Reviewed(f).status = "downloading" => entry[f].status = "downloading"
    BY <1>0 DEF Reviewed, Afresh, Entries
  <2> QED
    BY <2>1, <2>2
<1>8. CASE StartTransfer
  BY <1>0, <1>8 DEF StartTransfer
<1>9. CASE RecordReady
  BY <1>0, <1>9 DEF RecordReady, Entries
<1>10. CASE TransferFails
  <2>1. PICK e \in Failed(entry[worker.file]) : entry' = [entry EXCEPT ![worker.file] = e]
    BY <1>10 DEF TransferFails
  <2>2. CASE f = worker.file
    <3>1. entry'[f] = e /\ e \in Failed(entry[f])
      BY <1>0, <2>1, <2>2
    <3>2. e.status # "downloading"
      BY <1>0, <3>1 DEF Failed, Entries
    <3> QED
      BY <3>1, <3>2
  <2> QED
    BY <1>0, <2>1, <2>2
<1>11. CASE CloseDeletion
  BY <1>0, <1>11 DEF CloseDeletion, Absent
<1>12. CASE TimePasses
  <2>1. CASE \E g \in Files : entry' = [entry EXCEPT ![g].later = FALSE]
    BY <1>0, <2>1 DEF Entries
  <2> QED
    BY <1>12, <2>1 DEF TimePasses
<1>13. CASE \/ TryStart \/ CheckPending \/ Leave \/ Probe \/ CycleBusy \/ RecordGone \/ TransferLands
            \/ CheckComplete \/ WriteManifest \/ BeginCleanup \/ BeginQuarantine \/ ReviewQuarantine
            \/ RemoveDirectory \/ WorkerCrash \/ MarkerTorn \/ OrphanEnds \/ DeleterCrash
  BY <1>13 DEF TryStart, CheckPending, Leave, Probe, CycleBusy, RecordGone, TransferLands, CheckComplete,
     WriteManifest, BeginCleanup, BeginQuarantine, ReviewQuarantine, RemoveDirectory, WorkerCrash,
     MarkerTorn, OrphanEnds, DeleterCrash, queue
<1> QED
  BY <1>2, <1>3, <1>4, <1>5, <1>6, <1>7, <1>8, <1>9, <1>10, <1>11, <1>12, <1>13
     DEF Next, Request, WorkerStep, DeleterStep, Environment

\* A transfer ends with the record no longer downloading, and so does a recovery.
LEMMA DownloadEnds ==
  ASSUME Records, NEW f \in Files, Recover \/ (f = worker.file /\ (RecordReady \/ TransferFails))
  PROVE  entry'[f].status # "downloading"
<1>0. entry \in [Files -> Entries] /\ entry[f] \in Entries
  BY DEF Records, TypeOK
<1>1. CASE Recover
  BY <1>0, <1>1 DEF Recover, Entries
<1>2. CASE f = worker.file /\ RecordReady
  BY <1>0, <1>2 DEF RecordReady, Entries
<1>3. CASE f = worker.file /\ TransferFails
  <2>1. PICK e \in Failed(entry[f]) : entry'[f] = e
    BY <1>0, <1>3 DEF TransferFails
  <2>2. e.status # "downloading"
    BY <1>0, <2>1 DEF Failed, Entries
  <2> QED
    BY <2>1, <2>2
<1> QED
  BY <1>1, <1>2, <1>3

\* No record stays downloading behind the back of the worker: it is the worker's own
\* transfer, or the next worker will find it and queue it again.
THEOREM DownloadingIsAttendedHolds == Spec => []DownloadingIsAttended
<1>1. Init => DownloadingIsAttended
  BY DEF Init, Absent, DownloadingIsAttended
<1>2. ASSUME Records, DownloadingIsAttended, [Next]_vars PROVE DownloadingIsAttended'
  <2>0. worker \in Places /\ worker' \in Places /\ NoWorker \in Places /\ NoWorker.at = "none"
    BY <1>2, WorkerPlaces DEF Records, TypeOK, Places, NoWorker
  <2>1. SUFFICES ASSUME NEW f \in Files, entry'[f].status = "downloading", Next
                 PROVE  \/ worker'.at \in {"none", "marking"}
                        \/ worker'.at \in {"transfer", "landed"} /\ worker'.file = f
    BY <1>2 DEF DownloadingIsAttended, vars
  <2>2. CASE StartTransfer /\ f = worker.file
    BY <2>0, <2>2 DEF StartTransfer, Places
  <2>3. CASE entry[f].status = "downloading"
    <3>1. \/ worker.at \in {"none", "marking"}
          \/ worker.at \in {"transfer", "landed"} /\ worker.file = f
      BY <1>2, <2>3 DEF DownloadingIsAttended
    <3>2. ~Recover /\ ~(f = worker.file /\ (RecordReady \/ TransferFails))
      BY <1>2, <2>1, DownloadEnds
    <3>3. CASE UNCHANGED worker
      BY <3>1, <3>3
    <3>4. CASE TryStart
      <4>1. worker' = worker \/ worker'.at = "marking"
        BY <2>0, <3>4 DEF TryStart, Places, NoWorker
      <4> QED
        BY <3>1, <4>1
    <3>5. CASE TransferLands
      BY <2>0, <3>1, <3>5 DEF TransferLands, Places
    <3>6. CASE WorkerCrash
      BY <2>0, <3>6 DEF WorkerCrash
    <3>7. CASE RecordReady \/ TransferFails
      BY <3>1, <3>2, <3>7 DEF RecordReady, TransferFails
    <3>8. CASE \/ PickProbe \/ PickFile \/ PickNothing \/ CheckPending \/ Leave \/ Probe \/ CycleBusy
               \/ StartTransfer \/ RecordGone \/ CheckComplete \/ WriteManifest
      BY <3>1, <3>8 DEF PickProbe, PickFile, PickNothing, Pick, CheckPending, Leave, Probe, CycleBusy,
         StartTransfer, RecordGone, CheckComplete, WriteManifest
    <3>9. CASE Request \/ DeleterStep \/ TimePasses \/ MarkerTorn \/ OrphanEnds \/ DeleterCrash
      BY <3>3, <3>9 DEF Request, EnqueueTask, EnqueuePrefetch, Enqueue, ReleaseReference, ExpirePrefetch,
         DeleterStep, BeginCleanup, BeginQuarantine, ReviewQuarantine, RemoveDirectory, CloseDeletion,
         TimePasses, MarkerTorn, OrphanEnds, DeleterCrash
    <3> QED
      BY <2>1, <3>2, <3>4, <3>5, <3>6, <3>7, <3>8, <3>9 DEF Next, WorkerStep, Environment
  <2> QED
    BY <1>2, <2>1, <2>2, <2>3, DownloadStep
<1> QED
  BY <1>1, <1>2, RecordsHold, PTL DEF Spec

==============================================================================
