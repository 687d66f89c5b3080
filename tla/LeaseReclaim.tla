----------------------------- MODULE LeaseReclaim -----------------------------
(***************************************************************************)
(* The compute pool and the single lease over the life of a task: the      *)
(* backend's status and cancel calls, which give a finished attempt's      *)
(* reservation back (managed_process.py, release_terminal_reservation), the *)
(* deletion of a task with its control root, and the operator's reclaim of *)
(* a lease that names a root which is gone (compute_lease.py).             *)
(*                                                                         *)
(* A task's row goes from one attempt to the next, and to deletion, only   *)
(* when such a call has answered for the attempt with a terminal status;   *)
(* the row itself is in TaskManager, the deletion in TaskDeletion.         *)
(***************************************************************************)
EXTENDS ComputePool

CONSTANT LateDeaths  \* whether the launch of an attempt that is answered for may die

ASSUME ReclaimAssumption == LateDeaths \in BOOLEAN

VARIABLES
  waiting,   \* attempts with a launch command that waits for compute.lock
  answering, \* those whose launch command is past it and has not answered
  settled,   \* attempts answered for with a terminal status
  removed,   \* tasks deleted with their control root
  retained,  \* legacy_released of the pool file: leases proven terminal there
  archive    \* receipts of reclamations: none, recorded, archived

keepVars == <<waiting, answering, settled, removed, retained, archive>>

ReclaimInit ==
  /\ PoolInit
  /\ waiting = {} /\ answering = {} /\ settled = {} /\ removed = {} /\ retained = {}
  /\ archive = [t \in Tasks |-> "none"]

AttemptsOf(t) == {a \in Attempts : TaskOf[a] = t}

\* Attempts of which the host holds something.
Begun(t) ==
  {a \in AttemptsOf(t) :
     file[a].status # "nodir" \/ pool[a].state # "none" \/ lease = a \/ launcher = a \/ a \in waiting}

RootPresent(a) == TaskOf[a] \notin removed

\* pool_state fails on a held reservation whose directory is gone.
PoolReadable == \A a \in Held(pool) : RootPresent(a)

\* legacy_lease_blocked fails on a lease whose root is gone, unless the pool
\* file kept the evidence of its end.
LeaseAnswers == lease # None => RootPresent(lease) \/ lease \in retained

Retain ==
  retained' = IF lease # None /\ RootPresent(lease) /\ SafeTerminal(lease)
              THEN retained \cup {lease} ELSE retained

-----------------------------------------------------------------------------
\* no_task_processes: a launch command on the host has the task in its
\* arguments.
NoTaskProcess(t) == ({launcher} \cup waiting \cup answering) \cap AttemptsOf(t) = {}

\* What restart and deletion ask of an attempt: an answer, and the proof of
\* terminal_evidence.py if it was cancelled before it had a process.
Proven(a) == a \in settled /\ (file[a].registered \/ NoTaskProcess(TaskOf[a]))

\* The row's launch call reaches the host.  It is repeated only while it had to
\* wait for resources; the command may come to the lock long after the backend
\* has given it up and cancelled the attempt.
Arrive(a) ==
  /\ RootPresent(a) /\ a \notin Begun(TaskOf[a])
  /\ \A b \in Begun(TaskOf[a]) : Proven(b)
  /\ waiting' = waiting \cup {a}
  /\ UNCHANGED <<vars, poolVars, answering, settled, removed, retained, archive>>

\* A launch that is refused, or has to wait for resources, or dies.
Withdraw(a) ==
  /\ a \in waiting /\ waiting' = waiting \ {a}
  /\ UNCHANGED <<vars, poolVars, answering, settled, removed, retained, archive>>

Reserve(a) ==
  /\ a \in waiting /\ waiting' = waiting \ {a}
  /\ RootPresent(a) /\ PoolReadable /\ LeaseAnswers
  /\ PoolReserve(a) /\ Retain
  /\ UNCHANGED <<answering, settled, removed, archive>>

\* inspect finds nothing of a lease whose root is gone: occupied or unknown.
Take(a) ==
  /\ a \in waiting /\ waiting' = waiting \ {a}
  /\ lease # None => RootPresent(lease)
  /\ LeaseTake(a)
  /\ UNCHANGED <<answering, settled, removed, retained, archive>>

\* The report of the pool also looks at the lease.
Report ==
  /\ launcher = None /\ PoolReadable
  /\ pool' = Refreshed
  /\ Retain \/ UNCHANGED retained
  /\ UNCHANGED <<vars, lease, launcher, waiting, answering, settled, removed, archive>>

\* Mutant of Answerable: a terminal verdict is passed on while descendants run.
AnswersUnreleased(a) == Observed(a) \in Terminal

\* release_terminal_reservation: the verdict on an attempt with a reservation
\* is held back until its session is gone; then the reservation is released.
Answerable(a) == Observed(a) \in Terminal /\ (pool[a].state # "none" => SafeTerminal(a))

Answer(a) ==
  /\ launcher = None /\ RootPresent(a) /\ a \notin settled
  /\ Answerable(a)
  /\ IF pool[a].state = "none" THEN UNCHANGED pool ELSE PoolReadable /\ pool' = Refreshed
  /\ settled' = settled \cup {a}
  /\ UNCHANGED <<vars, lease, launcher, waiting, answering, removed, retained, archive>>

Claim(a) ==
  /\ LauncherClaims(a) /\ answering' = answering \cup {a}
  /\ UNCHANGED <<waiting, settled, removed, retained, archive>>

\* The launch command ends like a status call: a reservation made for an attempt
\* that was cancelled before is released again.
Return(a) ==
  /\ a \in answering /\ launcher = None /\ answering' = answering \ {a}
  /\ IF pool[a].state # "none" /\ SafeTerminal(a) /\ PoolReadable THEN pool' = Refreshed ELSE UNCHANGED pool
  /\ UNCHANGED <<vars, lease, launcher, waiting, settled, removed, retained, archive>>

\* Such a command dies, with its lock or after it.
CallDies ==
  /\ \E a \in {launcher} \cup answering :
       /\ a # None /\ (LateDeaths \/ a \notin settled)
       /\ launcher' = IF launcher = a THEN None ELSE launcher
       /\ answering' = answering \ {a}
  /\ UNCHANGED <<vars, pool, lease, waiting, settled, removed, retained, archive>>

-----------------------------------------------------------------------------
\* remote_terminal: the state file and the session of the row's last attempt.
RemoteTerminal(a) ==
  /\ file[a].verified \/ file[a].status \in {"succeeded", "failed"}
  /\ IF file[a].registered THEN members[a] = {} ELSE file[a].verified

RemoveTask(t) ==
  /\ t \notin removed
  /\ \A a \in Begun(t) : Proven(a)
  /\ \E a \in Begun(t) : active[t] \in {None, a} /\ RemoteTerminal(a)
  /\ removed' = removed \cup {t}
  /\ UNCHANGED <<vars, poolVars, waiting, answering, settled, retained, archive>>

\* approval: the deletion is complete and every other task at rest.
Approved(t) == t \in removed /\ \A s \in Tasks : Begun(s) \subseteq settled

\* no_live_processes: of the lease's session, or that mentions the task.
NoLiveProcess(t) == \A a \in AttemptsOf(t) : members[a] = {}

\* reclaim: the receipt is durable before the lease is moved away, and a
\* receipt is never used again.
Reclaim(t) ==
  /\ launcher = None /\ Approved(t) /\ archive[t] = "none"
  /\ lease # None /\ TaskOf[lease] = t /\ NoLiveProcess(t)
  /\ \/ /\ lease' = None /\ archive' = [archive EXCEPT ![t] = "archived"]
        /\ UNCHANGED vars
     \/ /\ faults < MaxFaults /\ faults' = faults + 1
        /\ archive' = [archive EXCEPT ![t] = "recorded"]
        /\ UNCHANGED <<file, active, request, members, phase, worker, starts, lease>>
  /\ UNCHANGED <<pool, launcher, waiting, answering, settled, removed, retained>>

\* Nobody writes under a root that is gone.
Absent == \A a \in Attempts : ~RootPresent(a) => file'[a] = file[a] /\ request'[a] = request[a]

ReclaimNext ==
  \/ Background /\ Absent /\ UNCHANGED <<poolVars, keepVars>>
  \/ Report \/ CallDies
  \/ \E a \in Attempts :
       \/ Arrive(a) \/ Withdraw(a) \/ Reserve(a) \/ Take(a)
       \/ Claim(a) \/ Return(a) \/ Answer(a)
  \/ \E t \in Tasks : RemoveTask(t) \/ Reclaim(t)

ReclaimSpec == ReclaimInit /\ [][ReclaimNext]_<<allVars, keepVars>>

-----------------------------------------------------------------------------
(* Properties, beside those of ComputePool.                                *)

\* A reservation that is still held has its task's directory: one that lost it
\* would stop every later admission, since pool_state trusts no record without
\* the root it names.
HeldHasItsRoot == \A a \in Held(pool) : RootPresent(a)

\* A reservation made after its attempt was cancelled and answered for, without a
\* process ever, whose launch command is gone: nothing gives it back.
Orphaned(a) ==
  a \in settled /\ file[a].verified /\ ~file[a].registered /\ NoTaskProcess(TaskOf[a])
=============================================================================
