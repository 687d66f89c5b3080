# A TLA+ model of the WRF backend

This directory models the part of the repository that decides when a weather
model run starts, ends, is cancelled, repeated, deleted or accounted for, where
its forcing data come from and go, and which release of the runtime it uses. TLC
checks it on small instances; TLAPS proves the safety properties that the runs
find to hold, all but one, for every size. Paths below are relative to the repository root
(`src/`).

1. [The system](#the-system)
2. [Plan](#plan)
3. [ManagedProcess, AttemptLedger, Inspection](#managedprocess-attemptledger-and-inspection)
4. [ComputePool, LeaseReclaim](#computepool-and-leasereclaim)
5. [TaskManager](#taskmanager)
6. [ForcingPool](#forcingpool)
7. [ForcingOperations, ForcingCleanup](#forcingoperations-and-forcingcleanup)
8. [TaskRecord, Recovery, TaskDeletion](#taskrecord-recovery-and-taskdeletion)
9. [WorkerHandoff](#workerhandoff)
10. [RuntimeRelease, MpiBudget](#runtimerelease-and-mpibudget)
11. [Runs](#runs)
12. [Proofs](#proofs)
13. [What the model shows about the code](#what-the-model-shows-about-the-code)
14. [What is not modelled](#what-is-not-modelled)

## The system

A FastAPI process accepts forecast tasks, keeps them in SQLite, and drives each
on a remote host over SSH: it acquires forcing data, uploads a bundle, launches
the model under a small supervisor, watches it, downloads and renders results.
Everything on the host is a short-lived command or a detached process; what
they agree on is files under locks.

| Component | State | Operations | Hard behaviour | What makes it correct |
|---|---|---|---|---|
| Supervisor, `scripts/managed_process.py` | `state.json`, `cancellation.json`, `active-launch.json` of a control root; wrapper, command and worker processes | launch, execute, cancel, cancel_execute, inspect | CLI calls, wrapper and worker interleave; any may die between two writes; the host reboots | a token starts once; a root computes once; a verified cancel is quiet; a verdict told means the command is over, and an outcome is followed by cancelled at most |
| Admission, same file; `compute_lease.py`, `scripts/reclaim_compute_lease.py` | `compute-pool.json`, `compute-lease.json`, `compute.lock`; receipts of reclaims | pool_launch, pool_report, lease launch, safe_terminal, release_terminal_reservation, reclaim | a reservation outlives its launcher, descendants outlive the wrapper, a task is deleted under either | reservations cover everything alive, share no CPU, come back, and never outlive their root |
| Task manager, `task_manager.py` | rows of `wrf_tasks`; threads, timers, `_cancelled` in memory | submit, dispatch, run, reconcile, cancel, restart, resume, retry_outputs, stop, start | worker, cancel thread, observer and user write one row without a common lock; SSH replies are lost; the API restarts | nothing computes that the row does not name; cancelled is dead; success was computed; cancels settle |
| Task store, `database.py` | SQLite tables | update, begin_attempt, archive_attempt, claims, submissions, deletion plans | crash between reservation and acceptance; stale versions | each request accepted once; plans advance only forward |
| HPC transport, `hpc_transport.py` | remote directories, forcing requests | prepare_runtime, launch, status, cancel, forcing acquisition, download | a timeout is not a failure | an uncertain call is only inspected |
| Terminal evidence, `terminal_evidence.py` | none | the probe behind restart and deletion | evidence of earlier attempts in the same root | accepts every verified end and nothing else |
| Forcing queue, `scripts/forcing_pool_queue.py`, `download_gfs_00z.sh` | queue file, cycle directories, manifests, three kinds of lock | enqueue, release, expire-prefetch, cleanup; the worker's pick, probe, download, recover | requests beside the worker; a curl that outlives it; deletions beside both | one writer; records, disk and manifests agree; no claim is lost, no claimed cycle quarantined |
| Forcing policy, `forcing_policy.py`, `forcing_lifecycle.py` | operations in the store, references on the host | request, cancel, observe | late observations, crash between two writes | a cancelled operation holds no reference |
| Forcing cleanup, `forcing_cleanup.py` | cleanup plans | plan, preview, execute | a task begins to refer to a cycle being deleted | a referenced cycle is never deleted |
| Task deletion, `task_deletion.py`, `deletion_queue.py`, `directory_delete.py` | plans, quarantined directories | plan, execute, reconcile, purge | crash between quarantine, deletion and purge | only the planned identities disappear, all of them in the end |
| Recovery, `recovery.py` | incidents, candidates | diagnose, plan, execute | the row moves on after the plan | a plan is executed once, on the attempt it was made for |
| Releases, `runtime_release.py`, `runtime_assets.py`, `scripts/deploy_*`, `scripts/migrate_*` | staging and release directories, the link `current`, the fixed source and its bundle; a task's pin | deploy, resume, anchor, prepare, switch; readiness, pin | a program killed or the power lost between two of its effects | `current` and every pin name a complete release that never changes; thin releases keep their source |
| Worker maintenance, `scripts/handoff_pool_workers.py`, `scripts/pause_pool_worker.py` | plans, audits, fence, receipt; processes of the host | hand over, fence, withdraw, pause | the operator's program is gone, the host's goes on; both signal the same workers | a worker leaves between two files; an audit that names no action is true; nothing is left stopped |
| Retirement, `retirement.py`; `output_validation_recovery.py` | manifests, plans | make, apply | partial application | resumable, nothing referenced is removed |
| Catalogue, `catalog_publisher.py` | catalogue index | register, retry, remove | publication after success | one entry for a result |
| HTTP API, `main.py`; host client `hpc.py`, `gfs.py`; planning and configuration; rendering; model run scripts | none of their own | | | |

Components interact as follows: the API calls the task manager under one lock
for each task; the manager's threads call the transport synchronously; the
transport runs supervisor commands over SSH; the supervisor and the pool share
only files and process identities; the manager learns of the end of a launch by
polling. Retry and cancel timers are threads of the API process and vanish with
it; rows and remote files do not. `PROJECT.json` lists every hazard of this
code at the line where it bites, with the property that would catch it.

## Plan

| Order | Module | Composes | State |
|---|---|---|---|
| 1 | `AttemptLedger`, `ManagedProcess`, `Inspection`, `ManagedProcessProofs` | ledger as abstraction of the supervisor; readers of its files | checked and proved |
| 1 | `ComputePool`, `LeaseReclaim`, `PoolProofs` | supervisor with pooled admission; with the lease, answers, deletion and reclaim | checked and proved |
| 2 | `TaskManager`, `TaskManagerProofs` | over an abstract host | checked and proved |
| 3 | `ForcingPool`, `ForcingPoolProofs` | queue, worker, cleanup and quarantine of a provider | checked and proved, liveness open |
| 3 | `ForcingOperations`, `ForcingCleanup`, `CleanupProofs` | operations, tasks and policy, with the deletion of cycles over them | checked and proved |
| 4 | `TaskRecord`, `Recovery`, `TaskDeletion`, `DeletionProofs` | one row under its worker, its recovery and its deletion | checked and proved |
| 5 | `WorkerHandoff`, `HandoffProofs` | the pool workers of two providers under the maintenance programs | checked and proved |
| 6 | `MpiBudget`, `RuntimeRelease`, `ReleaseProofs` | releases, source anchor and pins | checked and proved |
| 7 | manager over supervisor | `TaskManager`'s host replaced by `ManagedProcess` | open |
| 8 | submission idempotency of the store, catalogue retry | | open |

Theorems worth proving next: that `ManagedProcess` implements the host which
`TaskManager` assumes, so that the two sets of theorems compose (row 7); and an
abstract life of a deletion plan that `TaskDeletion` and `ForcingCleanup` both
implement. None of the modules declares a recursive operator.

## ManagedProcess, AttemptLedger and Inspection

| Variable | Code |
|---|---|
| `file` | `launches/<token>/state.json`; `nodir`: no directory, `nofile`: a directory without the file |
| `active` | `active-launch.json` of the control root |
| `request` | `launches/<token>/cancellation.json`, with `authorized_members` |
| `worker` | the process named in `cancellation.json`, or a cancel call between its check and its save (`checked`) |
| `members`, `phase` | live processes of the session; program counter of `execute` |
| `starts`, `faults` | history: commands started; bound on deaths |

Sections under `launch.lock` are one action, but for a cancel that finds the
supervisor alive: the wrapper saves its outcome without that lock, so the cancel's
look (`CancelChecks`) and its save (`CancelSaves`) are two, and `LockFree` keeps
other sections away from between them. The code writes files with an
atomic replace (`save`), so the only intermediate states are prefixes of a
section's writes, when its process dies there; `Prefixes(n)` chooses one.
`execute` and the confirming step of `cancel_execute` hold no lock and are
separate actions. A process identity (pid, start ticks, boot id) is exact, so
`process_alive` is membership; a reboot empties all sessions. A command may
leave a descendant (`stray`), which shares the session. A signal may be
survived once, SIGKILL may not.

`AttemptLedger` is what clients rely on: an attempt goes fresh, claimed,
computing, over, is claimed once, and only while its root has nothing in
flight. `Life` maps the detailed state to it.

`Inspection` adds the readers. `inspect` reads `state.json` and then
`cancellation.json` with no lock, so a reader's two readings (`ReadState`,
`ReadCancellation`) are two actions with steps of everybody else between them, and
`told` remembers the verdicts given. A verdict is not the last word: an attempt may
be told "succeeded" to one reader and "cancelled" to a later one, when the
cancellation was asked before the outcome was saved (`VerdictIsLast`, refuted).
What holds is that the command is over whichever is told, and that "cancelled" is
never taken back. The guards of `ManagedProcess` use `Observed`, the verdict of a
single moment: they ask only whether an attempt has come to an end, and a verdict
that says so goes on saying so (lemma `VerdictStep`).

## ComputePool and LeaseReclaim

`pool` holds reservations (`none`, `held`, `released`) with CPU sets, `lease`
the attempt named in `compute-lease.json`, `launcher` the launch that has made
its reservation and not yet run `launch_claim`, all the while holding
`compute.lock`. `PoolReserve` is the admission of `pool_launch`: refresh, legacy
lease, uncertain holders, places, CPUs; a launch that must wait only refreshes
the pool. The memory comparison is a refusal the model may make at any time.
Descendants that outlive a wrapper keep a reservation (`safe_terminal` asks for a
session with no member), but not the lease: `launch` passes that on once the
attempt it names has a terminal status. `OneLeasedCommand` therefore has two parts:
two leased attempts are never in flight together, and whatever goes on beside the
one in flight are descendants of an attempt whose wrapper recorded an outcome, never
processes that a cancellation or an unknown end left behind.

`LeaseReclaim` puts the single lease of earlier releases beside it, and the rest
of a task's life as far as reservations see it. A launch command waits for
`compute.lock` (`waiting`), reserves or takes the lease, claims, and answers
(`answering`); a status or cancel call answers for an attempt (`settled`) after
it has released the reservation (`release_terminal_reservation`); a row moves on
to its next attempt, and a task is deleted with its root (`removed`), only after
such an answer. Then `pool_state` refuses everything if a held reservation has
lost its root, and a lease that names the root blocks admissions unless the pool
file kept the evidence of its end (`retained`). The operator's reclaim needs a
complete deletion and all other tasks at rest, writes its receipt before it moves
the lease, and is never repeated.

## TaskManager

One worker thread drives a task. It is at a program counter (`thread.pc`) and
carries the last answer it has seen; a step runs from one SSH call or lock to
the next, so every check-then-write window of the code is a window of the model.

| Variable | Code |
|---|---|
| `row` | the row: status, attempt, `launch_attempt` (`token`), pinned release, `launch_intent` (`launched`), denied launch, process of the launch reply, WRF completion, `retry_outputs_only`, terminal evidence, failure class |
| `cancelled` | `_cancelled` |
| `thread`, `canceller`, `observer` | `_run_task`, `_remote_cancel`, the observing thread of `_schedule_cancel_reconcile` |
| `cancelTimer`, `retryTimer` | `_cancel_timers`, `_reconcile_timers` |
| `remote`, `asked`, `inflight`, `control` | each launch token on the host; pending cancel requests; launch commands on their way; control files of the root |
| `drawn` | history: tokens drawn for the task |

The host side is deliberately weaker than ManagedProcess: it does not refuse a
second launch in a root, so what holds is the manager's own doing. A launch
command may arrive after its caller gave up (`ReplyLost`), after an API restart
too. `Reboot` is a crash or the end of a graceful `Stop`; `Stop` alone makes
workers leave at their next check. Outcomes of stages are choices, `Faulty`
switches errors of data and configuration on. `RetryOutputs` stands for
`render_partial` too. The statuses succeeded and partial_success are one.
CPU and memory budgets, and the probe's checks of earlier attempts, are left
open: a dispatch or restart the model does not take is one they refused, so
safety holds for any of them; the violation runs do not depend on them.

## ForcingPool

The pool of one provider on the host. Queue commands, the worker and deletions
are processes that meet in `.pool-queue.json`; each reads, changes and writes it
within one hold of the state lock, so such a section is one action. What lies
between two sections of the worker is a place of `worker.at`.

| Variable | Code |
|---|---|
| `entry` | the record of a file in the queue: status, priority, `references`, `legacy_task_reference`, `prefetch_reference`, attempts, retryable; `later` while `retry_at` or `terminal_retry_at` is ahead |
| `published`, `probeLater` | `publication` is "published"; `publish_retry_at` is ahead |
| `valid`, `manifest`, `torn` | whole files in the cycle directories; manifests; cycles with an audit left at "started" |
| `worker`, `marker`, `waking` | program counter, file and cycle of the worker; `.pool-worker.lockdir`; a worker just started by the trigger script |
| `curls` | curl processes: the worker's own, or one that outlived it |
| `deleter` | the `cleanup` command or the quarantine program of `directory_delete.py` |

Who holds which lock follows from these: the worker gate is held by a live
worker, by a curl that inherited it, by a cleanup and by a quarantine that found
it free; the cycle gate by a transfer and by a quarantine; the state lock is
held across actions only by a deletion, from its review to its end. A cleanup
takes the worker gate and no cycle gate; a quarantine takes the cycle gate and
goes on beside a worker that is seen to hold another cycle's.

Abstracted: forecast hours, sizes and digests, part files, what a failed
transfer was, the attempt history and display fields. `rate_limited` is
`queued`, which nothing tells apart. Records of hours an older version asked of
ECMWF ("obsolete") are left out, and so is the command `forget`, which nothing in
the application calls. The download slot is free whenever its user holds the
worker gate. The controller has one deletion of forcing data at work at a time.
The first branch of `_download_one_locked`, for a file that has become valid
since the pick, is never taken: only the worker makes files valid.

## ForcingOperations and ForcingCleanup

`ForcingOperations` is the controller's side of the pool: what the database, the
threads of the API and the reference guard know of forecast cycles, with the host
reduced to what can be asked of it.

| Variable | Code |
|---|---|
| `op`, `call` | `wrf_forcing_operations`; the SSH command a request or cancellation waits for |
| `sweep` | `_reconcile_forcing_downloads`: the operations it listed, and the one it saw complete |
| `task`, `proofs` | rows that are bound to a cycle, their remote processes; terminal proofs (`refresh_forcing_terminal_proofs`) |
| `policy`, `guard` | held cycles and the policy's version; `forcing_reference_guard` |
| `refs`, `legacy`, `there`, `inode`, `whole` | references, requests without one, and directories on the host |
| `late`, `slips` | commands still on their way after their caller gave up |

`ForcingCleanup` adds the plans that delete cycles, one at a time
(`delete_cycle_async`) or several (`plan`, `execute`), the queue and its worker,
the quarantine by the host with its own review, and the space cleanup. A job
checks the references, takes the identity of the directory, checks again inside
the guard and moves; a reply that is lost leaves the plan "unknown". Forecast
hours are abstracted: an operation wants its cycle as a whole. The wait for the
guard, given up after 30 seconds with nothing changed, is a step not taken.

## TaskRecord, Recovery and TaskDeletion

`TaskRecord` is one task as its deletion sees it: the row, the place of the worker
thread that may still drive it, the three directories (`place`, each with an
identity that may be used again), the quarantine (`trash`), the catalogue entry,
the tombstone and the operation lock. A task cancelled before its launch is
terminal at once, while its thread still sits in an SSH call: that thread may
still make the remote directory and is why deletion and recovery look for it.
`Recovery` has plans bound to the fingerprint of a row, claimed once. `TaskDeletion`
has `plan`, `execute` and `reconcile` from the queue's worker and from requests,
step by step: inventory, lock, second inventory, claim by tombstone, withdrawal
from the catalogue, intent, one rename for each directory, purge of the row, and
the later destruction of the quarantine. A rename ordered over SSH may run after
its caller gave up (`late`); the API may restart at any step. Where the code
compares revisions or the age of a preview and refuses, the model may refuse.

## WorkerHandoff

An operator's programs run one after another under a local lock, but what acts is
a program on the host that goes on when the local one is gone, and may be killed
there. `ctl` has the two hand-over plans (the first for both providers, a later
one for ECMWF alone), `fence` the companion that holds the next transfer back,
`withdrawal` and `receipt` the exchange that takes a waiting plan out of service,
`pause` the program that interrupts a transfer. Of the workers the module keeps
what these look at: process and child, gates and slot, the marker, the last
missing file of one cycle. `audit`, `receipt` and `pauseAudit` are the files by
which one program proves to the next what it did; `signalled` is the history they
are compared with. Both slot protocols ("legacy", one transfer for all providers,
and "modern") are initial states. A stopped process takes no step.

## RuntimeRelease and MpiBudget

A deployment fills a staging directory (`tx`), validates it, renames it into
`releases/` (`release`), seals it and switches `current`; a validated directory
left behind can be resumed. `job` is the program that holds `deployment.lock`: a
time-out of the client does not stop it, `Kill` ends it between two of its
effects. `source` is the fixed source of thin releases, an anchor of the first
kind, which reads a full release, or of the second, which reads its own `bundle`;
`candidate`, `paper` and `audit` are the steps of the migration from one to the
other. `PowerLoss` may tear every directory whose contents were not synced
(`dirty`); names and links stay in order, as a journal keeps them. A validation
compares every file with its digest, so a transaction stands for its content.
`pinned` is what `_pin_runtime_release` writes: release, fingerprint, supervisor,
MPI request and budget. `MpiBudget` has the arithmetic on both sides: the
admission's (`mpi_budget`) and the runner's (`wrf.sh`, `select_safe_mpi_processes`).
Assumed: nobody else writes a staging directory while a program holds the lock.

## Runs

Deadlock checking is off where a system whose attempts are all over, or whose
users ask for nothing, may stop; it is on for `forcing_pool`, whose prefetch
always may ask again.

| Run | Bounds | Shows |
|---|---|---|
| `managed_process` | 2 attempts, 1 root, 2 faults, forking, 1 reader | `CommandStartsOnce`, `OneCommandPerRoot`, `VerifiedCancelIsQuiet`, `VerdictIsOver`, `OutcomeThenCancelled`, `ImplementsLedger` |
| `compute_pool` | 3 pooled attempts, 2 roots, 4 CPUs less 2, one attempt wants both, 2 places, no faults, fairness | `CpuExclusive`, `ReservationsReturn` |
| `compute_lease` | 2 leased attempts, 1 pooled, 2 tasks, 1 fault, forking, one cancellation and one unanswered launch past the lock at a time | `OneLeasedCommand`, `ActiveHoldsReservation`, `HeldHasItsRoot` |
| `task_manager` | 1 task, 2 attempts, 3 tokens, 1 API restart, 1 failed call | `EveryLaunchIsOnRecord`, `OneTokenPerAttempt`, `SuccessIsComputed`, `CancelledIsDead` |
| `task_manager_live` | 1 task, 1 attempt, 2 tokens, 1 API restart, fairness | `CancelSettles` |
| `forcing_pool` | 2 cycles, 3 files, 1 operation, 1 untracked task, prefetch, 1 attempt before retry, 1 crash or failed transfer | `OneWriter`, `QuarantineSparesClaims`, `ReadyIsOnDisk`, `ManifestIsComplete`, `DownloadingIsAttended`, `ReferencesKept` |
| `forcing_cleanup` | 3 cycles, 1 operation, 1 task, 1 plan, 1 policy change, 1 late command, 1 API restart | `CancelledHoldsNothing`, `BlockedMovedNothing`, `SparesClaims`, `NoReplay` |
| `task_deletion` | 2 plans of 2 actors, 1 attempt, a queue of 1, directories made anew | `QuarantineIsIntended`, `RowOutlivesItsFiles`, `OneDeletionAtATime` |
| `task_deletion_restart` | 1 plan, 2 attempts, 1 recovery per state, 1 API restart | `LiveProductHasFiles`, `NoRecoveryUnderDeletion`, `OneRecoveryPerState` |
| `worker_handoff` | 2 providers, both slot protocols, 1 missing file, 2 plans and a pause, 1 new request, 1 killed program | `UnactedIsUntouched`, `ActsAlone`, `StoppedIsOwned`, `BoundaryOnly` |
| `runtime_release` | 2 releases, 2 transactions, 1 task, 3 MPI requests, 2 kills or losses of power, 1 damaged staging directory | `CurrentIsComplete`, `PinnedIsServed`, `ThinStaysBound`, `AdmittedRunFits` |
| `task_manager_cancel_pending` | 1 task, 1 attempt, 1 token, 1 failed call, no API restart | violates `PendingUntilExit` |

Bounds. Roots share nothing below the pool, so two attempts of one root are all
that a claim can confuse; one reader is enough, since its readings are compared with
what was ever told before; a third attempt adds a second root competing for CPUs.
Two faults allow a crash and a crash of its repair; the lease run, the largest,
has one, cancels one attempt at a time (`OneCancel`): two cancellations meet
in `managed_process`; and explores no further once two launch commands are past
the lock without having answered (`OneAnswers`), since what such a command still
does is one more refresh of the pool. A task with two attempts sees evidence of an earlier
attempt; the third token would appear only if an attempt drew two, which
`OneTokenPerAttempt` denies. In the runs that have them, one restart of the API
and one failed call each meet every window, and in `task_manager` both can occur in
one behaviour; tasks share only the capacity.
In `forcing_pool` the newer cycle has two files, one wanted by an operation and
an untracked task, one by the operation alone, so that a record can lose one
claim and keep another; the older cycle is the prefetch's only, the one a
quarantine can take while the worker is busy with the other. In `forcing_cleanup`
the task may use the two older cycles and the operation wants the oldest, which
is also the one that can be held: one plan meets each of them, and a directory
can be made anew once. In `task_deletion` each directory can be replaced by one
with the same or another identity; two plans are enough for a claim to exclude
the other, and the restart is in a run of its own because it multiplies the
states of a single plan. In `worker_handoff` a legacy and a modern host differ
only in the slot, the second plan is the one that has to rest on the first one's
audit, and one crash reaches every program at each of its steps. In
`runtime_release` two transactions are a full release and a thin one, or two
contents that compete for a name, and two faults interrupt a deployment and its
resumption; with three transactions and one fault the run exceeds its five
minutes, and `ReleaseProofs` covers any number.

Fairness. Threads of the API run and SSH calls return (all have timeouts);
timers fire; a stopped service is started again; a registered child and a live
worker make progress, and a signalling worker comes to SIGKILL after ten
seconds. No user operation, crash, SSH failure or late launch is assumed to
happen. In `compute_pool` cancellation of every attempt is assumed to be
requested again until it is answered, since a model run need not end.
`task_manager_live` assumes that a computation ends on the host, which the
walltime and a requested cancellation both enforce, and has no failed calls. The
other runs are of safety and assume no fairness: a deletion left "unknown", a
killed maintenance program or an interrupted deployment waits for an operator,
so nothing there must happen by itself.

## Proofs

Each proof module has an inductive invariant (`ForcingPoolProofs` three, one on the
other), lemmas that say what a group of actions keeps of it, a step for each
action, and the theorems at its end. No theorem has a hypothesis beyond the named
assumptions on the constants. The largest invariants were checked by
TLC on the instances of their runs before they were proved: `HandoffInv` on
3 588 116 states, `DeletionInv` on 1 750 772 and 2 276 054 (both runs), `CleanupInv`
on 2 487 277.

`ManagedProcessProofs` proves, for any sets of attempts and tasks, any bound on
faults and forking or not, from the three assumptions of `ManagedProcess`:

| Theorem | Property |
|---|---|
| `TypeCorrect` | `TypeOK`, checked by no run |
| `InvariantHolds` | `SupervisorInv`, the inductive invariant |
| `StartsOnceHolds` | `CommandStartsOnce` |
| `OnePerRootHolds` | `OneCommandPerRoot` |
| `CancelIsQuietHolds` | `VerifiedCancelIsQuiet` |
| `InspectionInvHolds` | `InspectionInv`, the inductive invariant with readers |
| `VerdictIsOverHolds` | `VerdictIsOver` |
| `VerdictsInOrder` | `OutcomeThenCancelled` |
| `LedgerImplemented` | `ImplementsLedger` |

None of the properties is inductive alone: that a command starts once needs
that a wrapper which has not started it has `starts = 0`; that a root computes
once needs that an attempt in flight is the one `active` names and is never
observed as terminal, which in turn rests on what the wrapper's progress says
about its file. `AttemptInv` collects these facts for one attempt
(`WrapperMatchesPhase`, `UnclaimedIsUntouched`, `SpawnedIsUnregistered`,
`ComputingIsRegistered`, `InFlightIsClaimed`, `VerifiedIsFailed`,
`VerifiedIsQuiet`, `NotYetStarted`, `WorkerHasRequest`, one start). `Undisturbed`
carries them over to attempts a step does not touch, and `InvariantStep` has one
step for every action. `LedgerImplemented` follows action by
action from the invariant. `InspectionInv` is about the readers: what was told of an
attempt has happened, and a cancellation that was told stays (`ToldIsSound`); what
a reader has read and not yet answered was true and has not been taken back
(`ReadIsSound`); and the files, the readings and the answers agree on one outcome
(`OneOutcome`).

`PoolProofs` is about the pool, and the pool with the lease beside it, for any
attempts, tasks, CPUs, demands, places and faults, from `PoolAssumption` and
`ReclaimAssumption`:

| Theorem | Property |
|---|---|
| `PoolInvHolds`, `LeasedHolds` | the inductive invariants `PoolInv`, `PoolInv /\ Leased` |
| `ActiveIsHeld`, `ActiveIsHeldBesideLease` | `ActiveHoldsReservation`, of the pool and beside the lease |
| `CpuExclusiveHolds` | `CpuExclusive` |
| `OneLeasedHolds` | `OneLeasedCommand` |
| `SupervisedBesideLease` | `CommandStartsOnce`, `OneCommandPerRoot` and `VerifiedCancelIsQuiet` beside the lease |
| `RootsHold` | every held reservation has its root, or is `Orphaned` |

`PoolInv` adds to `SupervisorInv` that the launch which holds `compute.lock` has
its reservation and that reservations in force are disjoint. What carries it is
`ReleasableIsInactive`: the evidence on which a refresh gives a reservation back
excludes everything that computes or may begin to, descendants included. `Leased`
says that what is in flight outside the pool is what the lease names, and that
what goes on of any other leased attempt is left behind by an end on record. Most steps
of `LeaseReclaim` are steps of the supervisor too, but a reclaim that dies counts
as a fault of its own, so `SupervisedBesideLease` is argued from the invariant and
is no refinement. `RootsHold` needs `Answered`: the report of an attempt's end is
final, and a reservation still held then belongs to a launch command that came
too late and gives it back when it returns. If that command dies instead, the
reservation is `Orphaned`: its attempt was cancelled and answered for without ever
having had a process, and nothing of its task runs. This is the only way in which
a reservation loses its directory, whatever dies; `HeldHasItsRoot` itself, which
has no such exception, is checked with `LateDeaths = FALSE` and refuted without
that bound by `MCLeaseReclaimOrphan.cfg`, described below.

`TaskManagerProofs` proves, for any finite set of tasks and any number of attempts,
tokens, restarts of the API and failed calls, from `BoundAssumption`:

| Theorem | Property |
|---|---|
| `ManagerInvHolds` | `ManagerInv`, the inductive invariant |
| `ManagerTypeCorrect` | `TypeOK`, checked by no run |
| `EveryLaunchIsOnRecordHolds` | `EveryLaunchIsOnRecord` |
| `OneTokenPerAttemptHolds` | `OneTokenPerAttempt` |
| `SuccessIsComputedHolds` | `SuccessIsComputed` |
| `CancelledIsDeadHolds` | `CancelledIsDead` |

The four properties rest on one invariant, task by task. `OnRecord` (what lives
on the host is the launch the row names) survives a new token only because, by
`RowIsSound`, a row draws one only when it was not launched and its last token is
absent or revoked; one token for each attempt, because a row that is neither
launched nor denied has drawn fewer tokens than it has had attempts. `WorkerIsSound` says what the
answer a worker carries is still worth: a denial stays a denial, since nothing of
that token is on its way, and a success seen before the download was computed.
`CancelIsSound` says the same of the cancel thread and the observer, which write
"cancelled" from an answer they got before: they are bound to an attempt and a
token, and an end seen of that token is final. `NoRowIsIdle` is about tasks that
do not exist yet. `UntouchedIsSound` keeps all of it for the other tasks.

`ForcingPoolProofs` proves all safety properties of `ForcingPool`, for any
cycles, files, order of service, requests, retry limit and number of faults,
from `PoolAssumption`:

| Theorem | Property |
|---|---|
| `PoolTypeCorrect` | `TypeOK`, checked by no run |
| `TaskPriorityHolds` | `TaskPriorityIsHeld`, checked by no run |
| `ReferencesHold` | `ReferencesKept` |
| `OneWriterHolds` | `OneWriter` |
| `QuarantineSparesClaimsHolds` | `QuarantineSparesClaims` |
| `ReadyIsOnDiskHolds` | `ReadyIsOnDisk` |
| `ManifestIsCompleteHolds` | `ManifestIsComplete` |
| `DownloadingIsAttendedHolds` | `DownloadingIsAttended` |

Three invariants rest on one another. `Records`: every record is sound (its
priority says whether a task holds it) and the worker and the deletion carry the
file and cycle of their place; the lemmas on `Requested`, `Released`, `Expired`,
`Reviewed` and `Failed` say what each update keeps, and `EntryStep` collects them
as the ways a step can move one record. `Gates`: who can hold the worker and
cycle gates together, from which one writer follows. `Contents`: a file that
landed is on disk, a picked one is not, and a cycle about to be declared complete
is complete and under no deletion. That last part is why a manifest can be
written without the cycle gate: a quarantine of the cycle can begin only while
the worker transfers in another one, and a worker that was turned away from a
cycle by a quarantine knows a file of it that is missing.

`CleanupProofs` proves, for any cycles, operations, tasks, actors, plans, length of
the queue, policies, restarts and late commands, from `ForcingAssumption` (which has
the cycles and operations finite) and `CleanupAssumption` (finitely many plans):

| Theorem | Property |
|---|---|
| `CleanupInvHolds` | `CleanupInv`, the inductive invariant |
| `CleanupTypeCorrect` | `TypeOK`, checked by no run |
| `CancelledHoldsNothingHolds` | `CancelledHoldsNothing` |
| `BlockedMovedNothingHolds` | `BlockedMovedNothing` |
| `SparesClaimsHolds` | `SparesClaims` |
| `NoReplayHolds` | `NoReplay` |

`SparesClaims` is a property of a single step, but its reason is older: when the
job entered the guard nothing referred to its cycles (`AllowedIsUnclaimed`: a task
that was let go has no process, one not yet bound stands for every cycle it may
get), and `JobIsSound` keeps "claimed by nobody" true of what is still to be moved,
since every step that makes a new claim waits for the guard and every one that
does not wait only goes on with a claim it has (`OutsideStays`). `BlockedMovedNothing`
needs that an entry of the queue that was not executed is of a plan still being
checked and that no plan is in the queue twice (`QueueIsSound`), or a second job
could block what the first one moved. `NoReplay` needs the same, and that the
second worker is only ever given plans whose moves are done (`PlanIsSound`). The
properties about the host's view hold while no command outlived its caller:
`LateIsSound` has why a late one belongs to an operation or plan in doubt.

`DeletionProofs` proves, for any plans, actors, contents of the row, identities of
directories, attempts, length of the queue and restarts, from `RecordAssumption`
and `DeletionAssumption`:

| Theorem | Property |
|---|---|
| `DeletionInvHolds` | `DeletionInv`, the inductive invariant |
| `DeletionTypeCorrect` | `TypeOK`, checked by no run |
| `QuarantineIsIntendedHolds` | `QuarantineIsIntended` |
| `RowOutlivesItsFilesHolds` | `RowOutlivesItsFiles` |
| `OneDeletionAtATimeHolds` | `OneDeletionAtATime` |
| `LiveProductHasFilesHolds` | `LiveProductHasFiles` |
| `NoRecoveryUnderDeletionHolds` | `NoRecoveryUnderDeletion` |
| `OneRecoveryPerStateHolds` | `OneRecoveryPerState` |

The operation lock keeps two jobs apart while the API runs, but a restart breaks
it; the tombstone stays. So `JobIsSound` ties a job's place to both (at its writes
the tombstone names its plan, and the directories of the earlier places are in its
quarantine), while `PlanIsSound` speaks of the tombstone alone: whoever has written
anything is the plan it names, and that plan is never a preview again. The second
half is what a queued entry could break that was submitted before the plan was
carried out, hence `QueueIsSound`: an entry that prepares a preview and was not
begun is of a plan that is still being checked. `TombstoneIsSound` has what a
claim has seen to before it writes: no recovery executing, no worker thread, a
terminal row; `overtaken` marks the claims that found a thread alive.

`HandoffProofs` proves, for either slot protocol, any missing files and any number of
requests and killed programs, from `HandoffAssumption`:

| Theorem | Property |
|---|---|
| `HandoffInvHolds` | `HandoffInv`, the inductive invariant |
| `UnactedIsUntouchedHolds` | `UnactedIsUntouched` |
| `ActsAloneHolds` | `ActsAlone` |
| `StoppedIsOwnedHolds` | `StoppedIsOwned` |
| `BoundaryOnlyHolds` | `BoundaryOnly` |

The programs exclude each other by locks, which they lose when they are killed,
and by audit files, which stay. `ControllerIsSound` says what each is good for: a
plan that holds the gates of a provider has its old worker between two files
(`AtBoundary`), and a worker it signalled is named in its audit, which is written
before the signal is sent. `SignalIsSound` keeps the difference alive after the
program is gone: a worker with a signal pending is still at the boundary if a plan
sent it, in the middle of a transfer if a pause did. `InTurn` is the order the
programs go in (`FirstPlanIsOver`) and what a pause has in its hands at each place.

`ReleaseProofs` proves, for any releases, transactions, tasks and requests and any
number of kills, losses of power and damaged staging directories, from
`ReleaseAssumption`:

| Theorem | Property |
|---|---|
| `ReleaseTypeCorrect` | `TypeOK`, checked by no run |
| `CurrentIsCompleteHolds` | `CurrentIsComplete` |
| `PinnedIsServedHolds` | `PinnedIsServed` |
| `ThinStaysBoundHolds` | `ThinStaysBound` |
| `AdmittedRunFitsHolds` | `AdmittedRunFits` |

`ReleaseInv` has three parts. `Staged`: what the holder of the lock has done with
its transaction at each of its steps, and that a release directory is a moved
transaction of its name which was never damaged; a moved one is out of reach of
those who write in staging, and `ReleaseIsKept` says that a name is given once.
`Pins` follows from it. `Bound`: an anchor was made of a sealed full release, a
binding in a manifest was read from the source at the time, the source only moves
from the first kind to the second, and from the intent of the switch on the bundle
is whole and on disk. The last is what makes a loss of power harmless, and rests
on `sync_source_tree` being called before the intent is written.
`AdmittedRunFits` is arithmetic over the minimum of a set of domains, which exists
because the order of the naturals is well-founded; that a request has domains at
all (`validate_domain_tree`, `schemas.py`) is part of `ReleaseAssumption`.

Only model-checked: liveness (`ReservationsReturn`, `CancelSettles`), which under
fairness is outside the prover's reach, and `HeldHasItsRoot`, which is true only
under a bound of its run and of which `RootsHold` is the unconditional part. Every
other property of a run that is expected to pass is a theorem. The cardinalities in
the modules are reasoned about through the theorems on finite sets of the library; no result rests on an induction
over data. Where the next section tells of an exception, the property names it (`slips = 0`,
`overtaken`, `Orphaned`) and the model has it.

## What the model shows about the code

`task_manager_cancel_pending` is a listed run. The other configurations in this
table end in a counterexample too, each short enough to read, and can be run by
hand (`tlc -config <configuration> <module>`).

| Configuration, module | Property | In a sentence |
|---|---|---|
| `MCTaskManagerCancelPending.cfg`, `MCTaskManager` | `PendingUntilExit` | a failing worker's last write replaces a cancel_pending accepted meanwhile, while the launch is still on its way |
| `MCTaskManagerCancelForgotten.cfg`, `MCTaskManager` | `CancelSurvives` | a worker's stage write replaces a cancellation, and the API dies before the next look restores it: the task goes on |
| `MCManagedProcessVerdict.cfg`, `MCManagedProcess` | `VerdictIsLast` | one reader is told "succeeded", a later one "cancelled" |
| `MCComputePoolStuck.cfg`, `MCComputePool` | `CancelCompletesAfterExit` | a cancel accepted just before the wrapper exits beside a live descendant never completes, and holds its reservation |
| `MCTaskManagerOverbooked.cfg`, `MCTaskManager` | `LaunchWithinCapacity` | a reconciling task that was not launched yet launches without a capacity check |
| `MCTaskManagerOldVerdict.cfg`, `MCTaskManager` | `VerdictOfOwnAttempt` | the exit code of the first attempt is read as the verdict of the second |
| `MCTaskManagerCancelStuck.cfg`, `MCTaskManager` | `VerifiedCancelCanRestart` | a task cancelled while running can never be restarted |
| `MCLeaseReclaimOrphan.cfg`, `MCLeaseReclaim` | `HeldHasItsRoot` | a launch command that reserves late and then dies leaves a reservation that outlives its task |
| `MCForcingCancel.cfg`, `MCForcingCleanup` | `CancelBeatsReady` | the reconciliation writes "ready" over a cancellation |
| `MCTaskDeletionRemoved.cfg`, `MCTaskDeletion` | `RemovedIsGone` | a deleted task's worker makes its remote directory again |

Cancellation in the manager. A worker looks at `_cancelled` before a stage, not when
it writes. A stage write over a cancellation is repaired by the next look
(`_raise_if_cancelled`, 1946), unless the API dies first: `_cancelled` is in memory
only, and the task is then resumed and launched. A failing worker has no next look:
it settles the row (1396, 1412, 1423, 1624) or `_reconcile` does (1665) and ends. The
row then no longer says `cancel_pending`, so the cancel thread records nothing and
schedules nothing (1470, 1509), although the launch command may still be on its way.
With those writes made conditional the property holds on the instance of its run.
`CancelledIsDead` counts launches; descendants a launch left behind are the
supervisor's (`VerifiedCancelIsQuiet`). A success that is saved while a cancellation
is under way is told as one or the other, depending on when it is read.

Two more observations about the manager have no configuration. Stopping the API
while a task waits for forcing data ends the wait with an exception that is
settled like a failure of the data, so the task is `waiting_restart` after the
next start (`Prefetch`, `Settling`). And an attempt that failed before its launch
can be restarted only if it failed over forcing data with a pinned release and no
run directory (`NeverLaunched`); for any other the operation is offered and
refused.

Reservations. A launch that reaches `compute.lock` after its attempt was cancelled
and answered for reserves anew; its own end releases that again
(`managed_process.py:461-462`). If it dies in between, and the task is deleted
before any report of the pool, `pool_state` fails at the missing root (229) and
every admission is refused for ever. The reclaim itself is safe by redundancy:
approval, terminal proof and the look at the processes would each do. A reclaim
killed after its receipt is never replayed, and the lease stays.

Forcing operations and cleanup.

- `_reconcile_forcing_downloads` (`task_manager.py:484-485`) writes "ready" for an
  operation it saw complete without looking again; a cancellation in between is
  overwritten, where `docs/BACKEND_BEHAVIOR_BASELINE.md:23` and `:32` say
  otherwise. If that cancellation was left in doubt, its cycle loses the
  protection that `forcing_policy.py:76` promises.
- A "ready" operation keeps its reference on the host and a task's request without
  one is never taken back, so such cycles are refused by the quarantine for good.
- `DeletionQueue.submit` silently drops a retry for an identifier that is still in
  its order, and a plan over several cycles is left "checking" by a restart: such
  plans wait without a job until the next restart (`CheckingIsQueued`), although
  `docs/CYCLE_LOCK_CLEANUP_ACCEPTANCE.md:9` promises the retry.
- A deletion in doubt blocks its cycle for ever; of two actors' blocked plans for
  one cycle both can be retried; a late rename looks only at the queue's own
  references, which is why `SparesClaims` speaks of moves a job waits for.

Deletion of tasks. The worker of a task cancelled before its launch may make the
remote directory after the inventory (`RemovedIsGone`;
`docs/DIRECTORY_DELETION_ACCEPTANCE.md:11`), and may publish while the deletion has
claimed the task: `LiveProductHasFiles` leaves that case out by `overtaken`. A
recovery plan left executing or unknown refuses the deletion of its task for ever.
A complete plan can be reported unknown by a second queued job. `start`
dispatches active rows without a look at tombstones.

Maintenance of the workers. A worker killed while it removes its marker leaves it
torn and no worker can start. A time-out during the wait for the exit reports the
worker as untouched although it was signalled; later plans refuse it all the same
by their check of the providers. A worker that outlives the wait of 15 seconds can
be signalled by a second modern plan, which asks for no proof of a predecessor:
`ActsAlone` speaks of the operations that do. A killed withdrawal or pause leaves
its target stopped, and a curl that does not exit leaves the worker stopped with
its gates, as intended.

Releases. A program killed between rename and switch burns the release's name
("Immutable release already exists", and a resumption refuses it); a release
whose directory was not sealed then can never be anchored. The anchor is not made
atomically, so a kill leaves it partial for ever, and neither `prepare` nor
`switch` is ever replayed. A deployment syncs nothing: a loss of power soon after
can tear a release that `current` names, which readiness finds by its hashes;
only the migration syncs. And an automatic MPI split can be refused with the
advice to set the automatic one: with 8 processes (2 by 4) a 35 by 35 domain
passes the test for 8 and fails the one for its patches, 35 / 4 < 10
(`runtime_release.py:199-207`); likewise 3, 5 and 7; the default 4 is not affected.

Four things the forcing pool's model shows and no property states:

- A worker that has looked for pending task files and found none leaves the
  loop (`CheckPending`, `Leave`); a task enqueued in between starts a second
  worker, which finds the gate busy and ends (`TryStart`). The files wait until
  something triggers again. `download_gfs_00z.sh:49-50` counts on the first
  worker ("A task enqueue therefore wakes the queue"); `ensure_remote_gfs`
  triggers once, and the prefetch loop triggers only incomplete cycles of its own
  targets, from `task_manager.py:294`.
- A worker that picked a file, and did not yet hold its cycle's gate, can lose
  the cycle to a quarantine that saw it busy elsewhere a moment before and
  reviewed claims released meanwhile; it then ends with a KeyError at line 811
  (`RecordGone`). Nothing is lost: the next trigger starts another.
- A file cancelled after it was picked is downloaded all the same
  (`StartTransfer`), and after a failure it is queued with no claim on it.
- A process killed while it makes its marker leaves one that is not whole
  (`torn`). Every later worker and cleanup refuses it until an operator removes
  it, as the comment at lines 135-136 intends.

## What is not modelled

- Rendering, HTTP routing, authentication, request validation, planning and the
  model's run scripts: pure functions, read-only views or one sequential pipeline,
  with no state that these properties speak about. `wrf.sh` is one command that
  succeeds or fails and may leave descendants; its choice of MPI processes is in
  `MpiBudget`.
- `output_validation_recovery.py`, the resource retirement of `retirement.py` and
  `migrate_runtime_assets.py`: offline scripts under the maintenance lock with the
  API's port reserved. Each writes one audit, refuses inputs that changed and is
  never replayed; there is no interleaving to explore. `retirement.py`'s
  `catalog_snapshot` and `remote_terminal`, which deletions use, are modelled.
- `deploy_namelist_generator.py`: disabled whenever an immutable release is
  configured (104-106), the only deployment the rest of the code supports.
- Submission idempotency, metadata versions and incident records of the store.
- Of `TaskManager`: progress reports, restart of a completed task
  (`allow_completed`), catalogue retries, continuous publication of partial results.
- Of `ForcingCleanup`: plans in the format before `directory_mode` and
  `refresh_async`; of `TaskDeletion`: schema-1 plans, which delete file by file.
- Of the transport: SSH sessions, file transfer and download, beyond calls that
  fail, lose their reply or arrive late.
- Ownership, mode and mount checks of files, which guard against other programs;
  file contents other than statuses and identities; the memory comparison of the
  admission.
- Drift of the host's own libraries under a release, which readiness reports.
- Time: a timer may fire at any moment, and a time-out may happen whenever a call
  may fail.
