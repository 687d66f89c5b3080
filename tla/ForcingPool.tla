----------------------------- MODULE ForcingPool -----------------------------
(***************************************************************************)
(* The forcing pool of one provider on the compute host:                   *)
(* scripts/forcing_pool_queue.py, its trigger download_gfs_00z.sh and the  *)
(* quarantine program of directory_delete.py.                              *)
(*                                                                         *)
(* Processes: short queue commands (enqueue, release, expire-prefetch),    *)
(* at most one worker, the curl it runs, and a deletion (cleanup or        *)
(* quarantine).  They meet in .pool-queue.json, which every one of them    *)
(* reads, changes and writes under the state lock: such a section is one   *)
(* step.  The worker gate is a kernel lock the curl inherits, the cycle    *)
(* gate is one it does not.                                                *)
(*                                                                         *)
(* Abstracted: forecast hours and digests, clock values (an entry is `later` *)
(* while its retry time is ahead), part files, the publication probe's curl, *)
(* attempt history, and hourly ECMWF entries of older queue versions.        *)
(* rate_limited is queued: nothing in the queue tells the two apart.         *)
(***************************************************************************)
EXTENDS Naturals, FiniteSets

CONSTANTS
  Cycles,        \* forecast cycles with a directory in the pool
  Files,         \* forecast files, over all cycles
  CycleOf,       \* the cycle of a file
  Rank,          \* newest cycle first, then lowest hour: 1 is served first
  Refs,          \* download operations that hold references
  Requests,      \* task requests: [cycle, hours, ref], ref = None for an untracked one
  None,          \* no file, no cycle, no reference
  MaxAttempts,   \* retry_max_attempts
  MaxFaults      \* bound on crashes and failed transfers

ASSUME PoolAssumption ==
  /\ CycleOf \in [Files -> Cycles]
  /\ Rank \in [Files -> Nat]
  /\ \A f, g \in Files : Rank[f] = Rank[g] => f = g
  /\ Requests \subseteq [cycle: Cycles, hours: SUBSET Files, ref: Refs \cup {None}]
  /\ None \notin Cycles \cup Files \cup Refs
  /\ MaxAttempts \in Nat \ {0}
  /\ MaxFaults \in Nat

VARIABLES
  entry,       \* queue record of each file
  published,   \* cycles whose f072 probe succeeded
  probeLater,  \* cycles whose next probe is not due
  valid,       \* files that are whole on disk
  manifest,    \* cycles whose manifest.json says complete
  torn,        \* cycles with a deletion audit still "started" and no deleter
  worker,      \* the worker process: its place, its file and its cycle
  marker,      \* .pool-worker.lockdir
  curls,       \* files a curl process is writing
  waking,      \* a worker process that has not yet tried the gate
  deleter,     \* the cleanup or quarantine process
  faults

queue == <<entry, published, probeLater>>
disk  == <<valid, manifest, torn>>
vars  == <<entry, published, probeLater, valid, manifest, torn, worker, marker,
           curls, waking, deleter, faults>>

FilesOf(c) == {f \in Files : CycleOf[f] = c}

Absent == [status |-> "absent", priority |-> "prefetch", refs |-> {}, legacy |-> FALSE,
           prefetch |-> FALSE, attempts |-> 0, later |-> FALSE, requeue |-> FALSE]
Queued(p) == [Absent EXCEPT !.status = "queued", !.priority = p]

\* Back to a first attempt: the update enqueue and _pick_next share.
Afresh(e) == [e EXCEPT !.status = "queued", !.attempts = 0, !.later = FALSE, !.requeue = FALSE]

NoWorker  == [at |-> "none", file |-> None, cycle |-> None]
NoDeleter == [kind |-> "none", at |-> "none", cycle |-> None]

Pending(e)   == e.priority = "task" /\ e.status \notin {"absent", "ready", "failed"}
HasTask(c)   == \E f \in FilesOf(c) : Pending(entry[f])
Wanted(e)    == e.refs # {} \/ e.legacy

\* Mutant of StateFree: a deletion takes the state lock only to save.
LocksLate == deleter.at # "removed"
StateFree    == deleter.at \notin {"removing", "removed"}
WorkerLive   == worker.at # "none"
\* Mutant of WorkerGateFree: curl does not inherit the gate.
GateNotInherited == ~WorkerLive /\ deleter.kind \notin {"cleanup", "quarantine_gate"}
\* The gate is held by the worker, by a curl that inherited it, or by a deletion.
WorkerGateFree  == ~WorkerLive /\ curls = {} /\ deleter.kind \notin {"cleanup", "quarantine_gate"}
HoldsCycle(c)   == worker.at \in {"transfer", "landed"} /\ worker.cycle = c
CycleGateFree(c) == ~HoldsCycle(c) /\ ~(deleter.kind # "none" /\ deleter.kind # "cleanup" /\ deleter.cycle = c)

Init ==
  /\ entry = [f \in Files |-> Absent]
  /\ published = {} /\ probeLater = {}
  /\ valid = {} /\ manifest = {} /\ torn = {}
  /\ worker = NoWorker /\ marker = "none" /\ curls = {} /\ waking = FALSE
  /\ deleter = NoDeleter
  /\ faults = 0

-----------------------------------------------------------------------------
(* Queue commands. *)

\* Mutant of Referenced: a request sets the references anew.
SetsAnew(refs, r) == {r} \ {None}
Referenced(refs, r) == IF r = None THEN refs ELSE refs \cup {r}

\* What a request with priority p and reference r claims of a record.
Claimed(e, p, r) == [e EXCEPT !.refs     = Referenced(@, r),
                              !.legacy   = @ \/ (r = None /\ p = "task"),
                              !.prefetch = @ \/ p = "prefetch",
                              !.status   = IF @ = "cancelled" THEN "queued" ELSE @]
Urgent(e, p) == IF p = "task" THEN [e EXCEPT !.priority = "task"] ELSE e

\* One file of an enqueue request.
Requested(e, f, p, r) ==
  LET held    == Claimed(IF e.status = "absent" THEN Queued(p) ELSE e, p, r)
      stopped == held.status \in {"failed", "retry_wait"}
      again   == held.requeue /\ ~held.later
  IN CASE f \in valid -> [Urgent(held, p) EXCEPT !.status = "ready", !.requeue = FALSE,
                                                 !.later = @ /\ held.status # "retry_wait"]
       [] f \notin valid /\ stopped /\ (p = "task" \/ again) -> Afresh(Urgent(held, p))
       [] OTHER -> Urgent(held, p)

\* The trigger script: enqueue, then start a worker in the background.
Enqueue(hours, p, r) ==
  /\ StateFree
  /\ entry' = [f \in Files |-> IF f \in hours THEN Requested(entry[f], f, p, r) ELSE entry[f]]
  /\ waking' = TRUE
  /\ UNCHANGED <<published, probeLater, disk, worker, marker, curls, deleter, faults>>

\* A download operation sends its reference; a task that waits for its files does not.
EnqueueTask == \E q \in Requests : Enqueue(q.hours, "task", q.ref)
\* The prefetch loop asks for every hour of a target cycle that was incomplete when it looked.
EnqueuePrefetch == \E c \in Cycles : Enqueue(FilesOf(c), "prefetch", None)

Cancelled(e) == [e EXCEPT !.status = "cancelled", !.later = @ /\ e.status # "retry_wait"]

\* Mutant of Released: the priority is left as it was.
KeepsPriority(e, r) == [e EXCEPT !.refs = @ \ {r}]
Released(e, r) ==
  LET kept == [e EXCEPT !.refs = @ \ {r}]
      idle == [kept EXCEPT !.priority = "prefetch"]
  IN CASE r \notin e.refs -> e
       [] r \in e.refs /\ Wanted(kept) -> kept
       [] OTHER -> IF e.prefetch \/ e.status \in {"ready", "downloading"} THEN idle ELSE Cancelled(idle)

ReleaseReference == \E q \in {q \in Requests : q.ref # None} :
  /\ StateFree
  /\ entry' = [f \in Files |-> IF CycleOf[f] = q.cycle THEN Released(entry[f], q.ref) ELSE entry[f]]
  /\ UNCHANGED <<published, probeLater, disk, worker, marker, curls, waking, deleter, faults>>

Expired(e) ==
  IF e.status = "absent" THEN e
  ELSE IF Wanted(e) \/ e.status \in {"ready", "downloading"} THEN [e EXCEPT !.prefetch = FALSE]
  ELSE [e EXCEPT !.prefetch = FALSE, !.status = "cancelled", !.later = FALSE]

\* expire-prefetch: every cycle outside `keep` loses its prefetch claim.
ExpirePrefetch == \E keep \in SUBSET Cycles :
  /\ StateFree
  /\ entry' = [f \in Files |-> IF CycleOf[f] \in keep THEN entry[f] ELSE Expired(entry[f])]
  /\ published' = {c \in published : c \in keep \/ \E f \in FilesOf(c) :
                                         Wanted(entry[f]) \/ entry[f].status = "downloading"}
  /\ UNCHANGED <<probeLater, disk, worker, marker, curls, waking, deleter, faults>>

TimePasses ==
  \/ \E f \in Files : /\ entry[f].later
                      /\ entry' = [entry EXCEPT ![f].later = FALSE]
                      /\ UNCHANGED <<published, probeLater, disk, worker, marker, curls, waking, deleter, faults>>
  \/ \E c \in probeLater : /\ probeLater' = probeLater \ {c}
                           /\ UNCHANGED <<entry, published, disk, worker, marker, curls, waking, deleter, faults>>
-----------------------------------------------------------------------------
(* The worker. *)

\* A second worker leaves at once: the gate is busy or the marker is not a whole v2 marker.
TryStart ==
  /\ waking
  /\ waking' = FALSE
  /\ IF WorkerGateFree /\ marker # "torn"
     THEN worker' = [NoWorker EXCEPT !.at = "marking"] /\ marker' = "torn"
     ELSE UNCHANGED <<worker, marker>>
  /\ UNCHANGED <<queue, disk, curls, deleter, faults>>

\* Mutant of Recover: interrupted files are left as they are.
LeavesInterrupted ==
  /\ worker.at = "marking" /\ StateFree
  /\ marker' = "whole"
  /\ worker' = [worker EXCEPT !.at = "pick"]
  /\ UNCHANGED <<queue, disk, curls, waking, deleter, faults>>

\* The marker is complete; files a stopped worker left downloading are queued again.
Recover ==
  /\ worker.at = "marking" /\ StateFree
  /\ marker' = "whole"
  /\ worker' = [worker EXCEPT !.at = "pick"]
  /\ entry' = [f \in Files |-> IF entry[f].status = "downloading"
                               THEN [entry[f] EXCEPT !.status = "queued", !.later = FALSE] ELSE entry[f]]
  /\ UNCHANGED <<published, probeLater, disk, curls, waking, deleter, faults>>

\* What _pick_next does to each record before it chooses.
Reviewed(f) ==
  LET e == entry[f]
  IN CASE e.status \in {"absent", "cancelled"} -> e
       [] e.status \notin {"absent", "cancelled", "ready"} /\ f \in valid -> [e EXCEPT !.status = "ready", !.later = FALSE]
       [] e.status = "retry_wait" /\ ~e.later /\ f \notin valid -> Afresh(e)
       [] OTHER -> e

Eligible == {f \in Files \ valid : /\ Reviewed(f).status \notin {"absent", "cancelled", "failed", "retry_wait"}
                                   /\ ~Reviewed(f).later}
\* A prefetch cycle is downloaded only once f072 has appeared.
Choices == {f \in Eligible : entry[f].priority = "task" \/ HasTask(CycleOf[f]) \/ CycleOf[f] \in published}
Probes  == {f \in Eligible \ Choices : CycleOf[f] \notin probeLater}

Before(f, g) == \/ entry[f].priority = "task" /\ entry[g].priority = "prefetch"
                \/ entry[f].priority = entry[g].priority /\ Rank[f] <= Rank[g]
MayProbe == Probes # {} /\ \A f \in Choices : entry[f].priority = "prefetch"

Pick(next) ==
  /\ worker.at = "pick" /\ StateFree
  /\ entry' = [f \in Files |-> Reviewed(f)]
  /\ worker' = next
  /\ UNCHANGED <<published, probeLater, disk, marker, curls, waking, deleter, faults>>

\* Tasks first, then a due publication check, then the other files.
PickProbe == MayProbe /\ \E f \in Probes :
  /\ \A g \in Probes : Rank[f] <= Rank[g]
  /\ Pick([NoWorker EXCEPT !.at = "probe", !.cycle = CycleOf[f]])
PickFile == ~MayProbe /\ \E f \in Choices :
  /\ \A g \in Choices : Before(f, g)
  /\ Pick([at |-> "picked", file |-> f, cycle |-> CycleOf[f]])
PickNothing == Choices = {} /\ Probes = {} /\ Pick([NoWorker EXCEPT !.at = "idle"])

\* Read again, in a second section: is any task file unfinished?
CheckPending ==
  /\ worker.at = "idle" /\ StateFree
  /\ worker' = [worker EXCEPT !.at = IF \E f \in Files : Pending(entry[f]) THEN "pick" ELSE "leaving"]
  /\ UNCHANGED <<queue, disk, marker, curls, waking, deleter, faults>>

Leave ==
  /\ worker.at = "leaving"
  /\ worker' = NoWorker /\ marker' = "none"
  /\ UNCHANGED <<queue, disk, curls, waking, deleter, faults>>

Probe ==
  /\ worker.at = "probe" /\ StateFree
  /\ \/ published' = published \cup {worker.cycle} /\ probeLater' = probeLater \ {worker.cycle}
     \/ published' = published \ {worker.cycle} /\ probeLater' = probeLater \cup {worker.cycle}
  /\ worker' = [NoWorker EXCEPT !.at = "pick"]
  /\ UNCHANGED <<entry, disk, marker, curls, waking, deleter, faults>>

\* The cycle gate is busy: a quarantine holds it.
CycleBusy ==
  /\ worker.at = "picked" /\ ~CycleGateFree(worker.cycle)
  /\ worker' = [worker EXCEPT !.at = "check", !.file = None]
  /\ UNCHANGED <<queue, disk, marker, curls, waking, deleter, faults>>

\* The record is fetched by key; its status is not looked at again.
StartTransfer ==
  /\ worker.at = "picked" /\ CycleGateFree(worker.cycle) /\ StateFree
  /\ entry[worker.file].status # "absent"
  /\ entry' = [entry EXCEPT ![worker.file].status = "downloading", ![worker.file].later = FALSE,
                            ![worker.file].attempts = IF @ < MaxAttempts THEN @ + 1 ELSE @]
  /\ worker' = [worker EXCEPT !.at = "transfer"]
  /\ curls' = curls \cup {worker.file}
  /\ UNCHANGED <<published, probeLater, disk, marker, waking, deleter, faults>>

\* The record is gone: KeyError ends the worker, whose context managers clean up.
RecordGone ==
  /\ worker.at = "picked" /\ CycleGateFree(worker.cycle) /\ StateFree
  /\ entry[worker.file].status = "absent"
  /\ worker' = NoWorker /\ marker' = "none"
  /\ UNCHANGED <<queue, disk, curls, waking, deleter, faults>>

\* curl returned a whole file and os.replace put it in place.
TransferLands ==
  /\ worker.at = "transfer"
  /\ curls' = curls \ {worker.file}
  /\ valid' = valid \cup {worker.file}
  /\ worker' = [worker EXCEPT !.at = "landed"]
  /\ UNCHANGED <<queue, manifest, torn, marker, waking, deleter, faults>>

RecordReady ==
  /\ worker.at = "landed" /\ StateFree
  /\ entry' = [entry EXCEPT ![worker.file].status = "ready", ![worker.file].later = FALSE,
                            ![worker.file].requeue = FALSE]
  /\ worker' = [worker EXCEPT !.at = "check", !.file = None]
  /\ UNCHANGED <<published, probeLater, disk, marker, curls, waking, deleter, faults>>

\* A failed attempt: permanent, worth another attempt later, or out of attempts.
Failed(e) ==
  {[e EXCEPT !.status = "failed", !.requeue = r] : r \in BOOLEAN} \cup
  (IF e.attempts < MaxAttempts THEN {[e EXCEPT !.status = "queued", !.later = TRUE]}
   ELSE {[e EXCEPT !.status = "retry_wait", !.later = TRUE, !.requeue = TRUE]})

TransferFails ==
  /\ worker.at = "transfer" /\ StateFree /\ faults < MaxFaults
  /\ curls' = curls \ {worker.file}
  /\ \E e \in Failed(entry[worker.file]) : entry' = [entry EXCEPT ![worker.file] = e]
  /\ worker' = [worker EXCEPT !.at = "check", !.file = None]
  /\ faults' = faults + 1
  /\ UNCHANGED <<published, probeLater, disk, marker, waking, deleter>>

\* The whole cycle is looked at, then hashed, then declared: no cycle gate is held.
CheckComplete ==
  /\ worker.at = "check"
  /\ worker' = IF FilesOf(worker.cycle) \subseteq valid THEN [worker EXCEPT !.at = "seal"]
               ELSE [NoWorker EXCEPT !.at = "pick"]
  /\ UNCHANGED <<queue, disk, marker, curls, waking, deleter, faults>>

WriteManifest ==
  /\ worker.at = "seal"
  /\ manifest' = manifest \cup {worker.cycle}
  /\ worker' = [NoWorker EXCEPT !.at = "pick"]
  /\ UNCHANGED <<queue, valid, torn, marker, curls, waking, deleter, faults>>

WorkerStep ==
  \/ Recover \/ PickProbe \/ PickFile \/ PickNothing \/ CheckPending \/ Leave \/ Probe \/ CycleBusy
  \/ StartTransfer \/ RecordGone \/ TransferLands \/ RecordReady \/ TransferFails
  \/ CheckComplete \/ WriteManifest
-----------------------------------------------------------------------------
(* Deletion of a cycle.  The controller runs one at a time. *)

\* cleanup: worker gate, whole marker, state lock, no unfinished task file.
BeginCleanup == \E c \in Cycles :
  /\ deleter = NoDeleter /\ WorkerGateFree /\ marker # "torn" /\ ~HasTask(c)
  /\ deleter' = [kind |-> "cleanup", at |-> "removing", cycle |-> c]
  /\ marker' = "whole"
  /\ UNCHANGED <<queue, disk, worker, curls, waking, faults>>

\* Mutant of LiveElsewhere: a live worker is enough.
LivePid(c) == marker = "whole" /\ WorkerLive
\* live_worker(): the marker names a live worker that holds another cycle's gate.
LiveElsewhere(c) == marker = "whole" /\ \E d \in Cycles \ {c} : HoldsCycle(d)

\* quarantine: the cycle gate, and the worker gate unless its owner is busy elsewhere.
BeginQuarantine == \E c \in Cycles :
  /\ deleter = NoDeleter /\ CycleGateFree(c)
  /\ \/ WorkerGateFree /\ deleter' = [kind |-> "quarantine_gate", at |-> "gated", cycle |-> c]
     \/ LiveElsewhere(c) /\ deleter' = [kind |-> "quarantine_live", at |-> "gated", cycle |-> c]
  /\ UNCHANGED <<queue, disk, worker, marker, curls, waking, faults>>

Protected(e) == \/ e.refs # {} \/ e.legacy \/ e.prefetch
                \/ e.status \notin {"absent", "ready", "failed", "cancelled"}

ReviewQuarantine ==
  /\ deleter.at = "gated"
  /\ deleter' = IF \E f \in FilesOf(deleter.cycle) : Protected(entry[f]) THEN NoDeleter
                ELSE [deleter EXCEPT !.at = "removing"]
  /\ UNCHANGED <<queue, disk, worker, marker, curls, waking, faults>>

\* The directory is removed, or renamed into the trash.
RemoveDirectory ==
  /\ deleter.at = "removing"
  /\ valid' = valid \ FilesOf(deleter.cycle)
  /\ manifest' = manifest \ {deleter.cycle}
  /\ deleter' = [deleter EXCEPT !.at = "removed"]
  /\ UNCHANGED <<queue, torn, worker, marker, curls, waking, faults>>

\* Mutant of CloseDeletion: the cycle's record outlives its directory.
KeepsRecord ==
  /\ deleter.at = "removed"
  /\ marker' = IF deleter.kind = "cleanup" THEN "none" ELSE marker
  /\ deleter' = NoDeleter
  /\ UNCHANGED <<queue, disk, worker, curls, waking, faults>>

\* The cycle's record goes, the state is saved, the audit is closed.
CloseDeletion ==
  /\ deleter.at = "removed"
  /\ entry' = [f \in Files |-> IF CycleOf[f] = deleter.cycle THEN Absent ELSE entry[f]]
  /\ published' = published \ {deleter.cycle}
  /\ probeLater' = probeLater \ {deleter.cycle}
  /\ marker' = IF deleter.kind = "cleanup" THEN "none" ELSE marker
  /\ deleter' = NoDeleter
  /\ UNCHANGED <<disk, worker, curls, waking, faults>>

DeleterStep == BeginCleanup \/ BeginQuarantine \/ ReviewQuarantine \/ RemoveDirectory \/ CloseDeletion

-----------------------------------------------------------------------------
(* Crashes. *)

\* A killed worker's curl may go on writing; it keeps the worker gate.
WorkerCrash ==
  /\ WorkerLive /\ faults < MaxFaults
  /\ worker' = NoWorker
  /\ curls' \in {curls, {}}
  /\ marker' \in IF worker.at = "leaving" THEN {"whole", "torn", "none"} ELSE {marker}
  /\ faults' = faults + 1
  /\ UNCHANGED <<queue, disk, waking, deleter>>

OrphanEnds ==
  /\ ~WorkerLive /\ curls # {}
  /\ curls' = {}
  /\ UNCHANGED <<queue, disk, worker, marker, waking, deleter, faults>>

\* A cleanup dies with any part of the directory gone, a quarantine before or after its rename.
DeleterCrash ==
  /\ deleter # NoDeleter /\ faults < MaxFaults
  /\ IF deleter.kind = "cleanup" /\ deleter.at = "removing"
     THEN /\ \E lost \in SUBSET (valid \cap FilesOf(deleter.cycle)) : valid' = valid \ lost
          /\ manifest' \in {manifest, manifest \ {deleter.cycle}}
     ELSE UNCHANGED <<valid, manifest>>
  /\ torn' = IF deleter.at = "gated" THEN torn ELSE torn \cup {deleter.cycle}
  /\ deleter' = NoDeleter
  /\ faults' = faults + 1
  /\ UNCHANGED <<queue, worker, marker, curls, waking>>

\* A cleanup that dies as it makes or unmakes its marker has no directory in its hands.
MarkerTorn ==
  /\ deleter = NoDeleter /\ WorkerGateFree /\ marker # "torn" /\ faults < MaxFaults
  /\ marker' = "torn"
  /\ faults' = faults + 1
  /\ UNCHANGED <<queue, disk, worker, curls, waking, deleter>>

Request == EnqueueTask \/ EnqueuePrefetch \/ ReleaseReference \/ ExpirePrefetch
Environment == TimePasses \/ WorkerCrash \/ OrphanEnds \/ DeleterCrash \/ MarkerTorn

Next == Request \/ TryStart \/ WorkerStep \/ DeleterStep \/ Environment

Spec == Init /\ [][Next]_vars

-----------------------------------------------------------------------------
Entries == [status: {"absent", "queued", "downloading", "ready", "failed", "retry_wait", "cancelled"},
            priority: {"task", "prefetch"}, refs: SUBSET Refs, legacy: BOOLEAN, prefetch: BOOLEAN,
            attempts: 0..MaxAttempts, later: BOOLEAN, requeue: BOOLEAN]

TypeOK ==
  /\ entry \in [Files -> Entries]
  /\ published \subseteq Cycles /\ probeLater \subseteq Cycles
  /\ valid \subseteq Files /\ manifest \subseteq Cycles /\ torn \subseteq Cycles
  /\ worker \in [at: {"none", "marking", "pick", "idle", "leaving", "probe", "picked", "transfer",
                      "landed", "check", "seal"},
                 file: Files \cup {None}, cycle: Cycles \cup {None}]
  /\ marker \in {"none", "whole", "torn"}
  /\ curls \subseteq Files
  /\ waking \in BOOLEAN
  /\ deleter \in [kind: {"none", "cleanup", "quarantine_gate", "quarantine_live"},
                  at: {"none", "gated", "removing", "removed"}, cycle: Cycles \cup {None}]
  /\ faults \in 0..MaxFaults

\* At most one curl of a provider writes at any time, a worker's or one that outlived
\* its worker, and no deletion has its hands on the cycle that curl writes into.
OneWriter ==
  /\ Cardinality(curls) <= 1
  /\ \A f \in curls : ~(deleter.at \in {"removing", "removed"} /\ deleter.cycle = CycleOf[f])

\* A quarantine removes no cycle that a task, an operation or the prefetch claims: the
\* claims it reviewed cannot change before the record is gone.
QuarantineSparesClaims ==
  deleter.kind \in {"quarantine_gate", "quarantine_live"} /\ deleter.at \in {"removing", "removed"} =>
    \A f \in FilesOf(deleter.cycle) : ~Wanted(entry[f]) /\ ~entry[f].prefetch

\* A file recorded ready is whole on disk, unless a deletion of its cycle is at work or
\* left its audit open.
ReadyIsOnDisk == \A f \in Files :
  entry[f].status = "ready" /\ f \notin valid =>
    CycleOf[f] \in torn \/ (deleter.at = "removed" /\ deleter.cycle = CycleOf[f])

\* A manifest declares a cycle complete only while every file of it is on disk, with the
\* same exception: it is written without the cycle gate, after the files were looked at.
ManifestIsComplete == \A c \in manifest : FilesOf(c) \subseteq valid \/ c \in torn

\* Task priority is held exactly as long as some task holds the file.
TaskPriorityIsHeld == \A f \in Files : (entry[f].priority = "task") <=> Wanted(entry[f])

\* A record says downloading only for the worker's own transfer, or until the next
\* worker has recovered it.
DownloadingIsAttended == \A f \in Files :
  entry[f].status = "downloading" =>
    \/ worker.at \in {"none", "marking"}
    \/ worker.at \in {"transfer", "landed"} /\ worker.file = f

\* No step of the worker, and no other request, takes a reference away: it leaves with its
\* release or with the whole cycle.
ReferencesKept == [][\A f \in Files : \A r \in entry[f].refs \ entry'[f].refs :
                       ReleaseReference \/ entry'[f].status = "absent"]_vars
==============================================================================
