--------------------------- MODULE ForcingCleanup ---------------------------
(***************************************************************************)
(* The deletion of forecast cycles from the forcing pool, forcing_cleanup. *)
(* py with its queue (deletion_queue.py) and the quarantine program of     *)
(* directory_delete.py, against the operations, tasks and policy of        *)
(* ForcingOperations.                                                      *)
(*                                                                         *)
(* A deletion names one cycle (delete_cycle_async) or is a plan over       *)
(* several (plan, execute).  Its job takes the guard, checks that nothing  *)
(* refers to the cycle, records that it executes, has the directory        *)
(* renamed by the host, which looks at its own queue and at the identity   *)
(* of the directory, and leaves the quarantine to a second worker.         *)
(*                                                                         *)
(* Abstracted: making a plan is one step, for its execution looks at       *)
(* everything again; plans in the format before directory_mode.  The gates *)
(* of the pool's worker may make the host refuse in any state.             *)
(***************************************************************************)
EXTENDS ForcingOperations, Sequences

CONSTANTS
    Plans,      \* numbered in the order of their rows
    Actors,
    Approved,   \* wrf_forcing_retention_approvals: the retention contract is approved
    Retain,     \* hpc_gfs_retained_cycles
    MaxQueue    \* the deletion queue holds this many (8)

ASSUME CleanupAssumption ==
    /\ Approved \in BOOLEAN /\ {Retain, MaxQueue} \subseteq Nat \ {0}
    /\ Plans \subseteq Nat \ {0} /\ IsFiniteSet(Plans)

VARIABLES
    plan,       \* wrf_forcing_cleanup_plans
    order,      \* _order of the queue, its head the job being run
    job,        \* the deletion worker
    cleaning,   \* plans given to the cleanup worker
    trash,      \* host: directories in the quarantine of a plan
    lateMoves   \* host: renames still on their way

cleanup == <<plan, order, job, cleaning, trash, lateMoves>>
vars == <<forcingVars, cleanup>>

NoPlan == [kind |-> "none", actor |-> None, paths |-> {}, status |-> "none", retry |-> FALSE,
           snap |-> <<>>, version |-> 0, removed |-> FALSE]
NoJob == [at |-> "idle", todo |-> {}, wrote |-> FALSE]
Snapshots == UNION {[paths -> 1..MaxInodes] : paths \in SUBSET Cycles}
Moves == [plan : Plans, cycle : Cycles, inode : 1..MaxInodes]

TypeOK ==
    /\ ForcingTypeOK
    /\ plan \in [Plans -> [kind : {"none", "cycle", "batch"}, actor : Actors \cup {None},
                           paths : SUBSET Cycles,
                           status : {"none", "pending", "checking", "executing", "unknown", "blocked", "complete"},
                           retry : BOOLEAN, snap : Snapshots, version : 0..MaxPatches, removed : BOOLEAN]]
    /\ order \in Seq(Plans) /\ Len(order) <= MaxQueue
    /\ job \in [at : {"idle", "check", "identity", "recheck", "section", "move", "leave"},
                todo : SUBSET Cycles, wrote : BOOLEAN]
    /\ guard = "cleanup" <=> job.at = "move"
    /\ cleaning \subseteq Plans
    /\ trash \in [Plans -> SUBSET Cycles] /\ lateMoves \subseteq Moves

Init ==
    /\ ForcingInit
    /\ plan = [p \in Plans |-> NoPlan] /\ order = <<>> /\ job = NoJob /\ cleaning = {}
    /\ trash = [p \in Plans |-> {}] /\ lateMoves = {}

-----------------------------------------------------------------------------
(* What may be deleted *)

\* _retained_complete_cycles: the newest whole cycles.
Retained == {c \in whole : Cardinality({d \in whole : d > c}) < Retain}

\* cleanup_allowed of a listed cycle, given the tasks that may be let go.
Allowed(released) == there \ (Latest \cup Retained \cup TaskCycles(released) \cup DownloadCycles \cup policy.held)

\* active_forcing_cycles lets proved tasks go once the retention is approved.
LetGo == IF Approved THEN proofs ELSE {}

\* The retention loop renews the proofs; they expire after five minutes.
RefreshProofs ==
    /\ \E proved \in SUBSET Provable : proofs' = proved
    /\ proofs' # proofs
    /\ UNCHANGED <<op, task, policy, threads, host, network, reboots, cleanup>>

-----------------------------------------------------------------------------
(* Requests *)

Queued(p) == \E i \in DOMAIN order : order[i] = p
Full(p) == ~Queued(p) /\ Len(order) = MaxQueue
\* submit: a plan already in the queue is passed over without a word.
Submitted(p) == IF Queued(p) THEN order ELSE Append(order, p)

Fresh(p) == plan[p] = NoPlan /\ \A q \in Plans : q < p => plan[q] # NoPlan

\* Deletions of a cycle that delete_cycle_async looks at, the newest first;
\* one that is only blocked is of no concern to another actor.
Standing(c, a) == {p \in Plans : /\ plan[p].kind = "cycle" /\ plan[p].paths = {c}
                                 /\ \/ plan[p].status \in {"checking", "executing", "unknown"}
                                    \/ plan[p].status = "blocked" /\ plan[p].retry /\ plan[p].actor = a}
\* Mutant of Retriable: an unknown deletion is tried again.
RetriesUnknown(p, a) == plan[p].status \in {"blocked", "unknown"} /\ plan[p].actor = a
Retriable(p, a) == plan[p].status = "blocked" /\ plan[p].actor = a

Accept(p, value) ==
    /\ plan' = [plan EXCEPT ![p] = IF Full(p) THEN [value EXCEPT !.status = "blocked"] ELSE value]
    /\ order' = IF Full(p) THEN order ELSE Submitted(p)
    /\ UNCHANGED <<forcingVars, job, cleaning, trash, lateMoves>>

\* delete_cycle_async of a cycle nobody is deleting, by an operator or by the
\* retention loop.
DeleteCycle(c, a) == \E p \in Plans :
    /\ Standing(c, a) = {} /\ Fresh(p)
    /\ Accept(p, [NoPlan EXCEPT !.kind = "cycle", !.actor = a, !.paths = {c}, !.status = "checking"])
\* The same number is used again after a refusal that moved nothing.
RetryCycle(c, a) ==
    /\ Standing(c, a) # {}
    /\ LET p == Newest(Standing(c, a)) IN
        /\ Retriable(p, a)
        /\ Accept(p, [plan[p] EXCEPT !.status = "checking", !.retry = FALSE])

\* plan: everything that may be deleted now.
MakePlan(a) == \E p \in Plans :
    /\ guard = None /\ Fresh(p) /\ Allowed(LetGo) # {}
    /\ plan' = [plan EXCEPT ![p] =
          [NoPlan EXCEPT !.kind = "batch", !.actor = a, !.paths = Allowed(LetGo), !.status = "pending",
                         !.snap = [c \in Allowed(LetGo) |-> inode[c]], !.version = policy.version]]
    /\ UNCHANGED <<forcingVars, order, job, cleaning, trash, lateMoves>>
\* execute
ExecutePlan(p) ==
    /\ plan[p].status = "pending"
    /\ Accept(p, [plan[p] EXCEPT !.status = "checking"])

-----------------------------------------------------------------------------
(* The job *)

p0 == Head(order)
At(place) == order # <<>> /\ job.at = place
Go(place) == job' = [job EXCEPT !.at = place]
Status(p, s) == plan' = [plan EXCEPT ![p].status = s]
Quiet == UNCHANGED <<op, task, policy, call, sweep, host, network, reboots, cleaning, trash,
                     lateMoves, order>>

JobStarts ==
    /\ At("idle")
    /\ Go(IF plan[p0].kind = "cycle" THEN "check" ELSE "section")
    /\ Quiet /\ UNCHANGED <<proofs, guard, plan>>

\* The job gives up before anything is written: nothing has been moved.
GivesUp == Status(p0, "blocked") /\ Go("leave")

\* Before it is recorded as executing a job may fail at any look.
JobFailsEarly ==
    /\ order # <<>> /\ job.at \in {"check", "identity", "recheck", "section"}
    /\ GivesUp /\ Quiet /\ UNCHANGED <<proofs, guard>>

\* _cycle_candidate, in a short section under the guard.
JobChecks ==
    /\ At("check") /\ guard = None
    /\ \E proved \in SUBSET Provable :
        /\ proofs' = proved
        /\ plan[p0].paths \subseteq Allowed(proved)
    /\ Go("identity") /\ Quiet /\ UNCHANGED <<guard, plan>>

\* The identity of the directory is read outside the guard.
JobIdentifies ==
    /\ At("identity") /\ plan[p0].paths \subseteq there
    /\ plan' = [plan EXCEPT ![p0].snap = [c \in plan[p0].paths |-> inode[c]]]
    /\ Go("recheck") /\ Quiet /\ UNCHANGED <<proofs, guard>>

Execute ==
    /\ Status(p0, "executing")
    /\ job' = [at |-> "move", todo |-> plan[p0].paths, wrote |-> FALSE]
    /\ guard' = "cleanup" /\ Quiet

\* Mutant of JobRechecks: what the first check found is good enough.
TrustsFirstCheck == At("recheck") /\ guard = None /\ Execute /\ UNCHANGED proofs

\* The candidate is looked at again under the guard, which the job now keeps.
JobRechecks ==
    /\ At("recheck") /\ guard = None
    /\ \E proved \in SUBSET Provable :
        /\ proofs' = proved
        /\ plan[p0].paths \subseteq Allowed(proved)
    /\ Execute

\* _execute_directory_plan: the whole of it is one section.
JobEntersSection ==
    /\ At("section") /\ guard = None
    /\ plan[p0].version = policy.version
    /\ plan[p0].paths \subseteq Allowed(LetGo)
    /\ \A c \in plan[p0].paths : plan[p0].snap[c] = inode[c]
    /\ Execute /\ UNCHANGED proofs

\* What forcing_quarantine finds protected by the queue.
HostProtects(c) == c \in legacy \/ \E o \in refs : CycleOf[o] = c

\* The rename, by identity; the queue forgets the cycle.
MoveAway(p, c, i) ==
    /\ c \in there /\ inode[c] = i /\ ~HostProtects(c)
    /\ there' = there \ {c} /\ whole' = whole \ {c}
    /\ trash' = [trash EXCEPT ![p] = @ \cup {c}]
    /\ UNCHANGED <<inode, refs, legacy>>

Elsewhere == UNCHANGED <<op, task, proofs, policy, call, sweep, reboots, order>>

JobMoves(c) ==
    /\ At("move") /\ c \in job.todo
    /\ MoveAway(p0, c, plan[p0].snap[c])
    /\ IF job.todo = {c}
       THEN /\ plan' = [plan EXCEPT ![p0].removed = TRUE]
            /\ cleaning' = cleaning \cup {p0}
            /\ job' = [NoJob EXCEPT !.at = "leave"] /\ guard' = None
       ELSE /\ job' = [job EXCEPT !.todo = @ \ {c}, !.wrote = TRUE]
            /\ UNCHANGED <<plan, cleaning, guard>>
    /\ Elsewhere /\ UNCHANGED <<lateMoves, network>>

\* Mutant of Verdict: a plan over several cycles was refused, so nothing moved.
RefusedIsBlocked(refused) == IF refused THEN "blocked" ELSE "unknown"
\* A refusal moved nothing; any other failure of a move is in doubt.
Verdict(refused) == IF refused /\ ~job.wrote THEN "blocked" ELSE "unknown"

JobEnds(refused) ==
    /\ plan' = [plan EXCEPT ![p0].status = Verdict(refused),
                            ![p0].retry = refused /\ plan[p0].kind = "cycle"]
    /\ job' = [NoJob EXCEPT !.at = "leave"] /\ guard' = None
    /\ UNCHANGED cleaning /\ Elsewhere

\* BLOCKED: the queue protects the cycle or a gate is busy.
MoveRefused ==
    /\ At("move") /\ JobEnds(TRUE)
    /\ UNCHANGED <<host, trash, lateMoves, network>>
\* No answer, or one that is not understood: not carried out, carried out, or late.
MoveInDoubt(c) ==
    /\ At("move") /\ c \in job.todo /\ JobEnds(FALSE)
    /\ \/ UNCHANGED <<host, trash, lateMoves, network>>
       \/ MoveAway(p0, c, plan[p0].snap[c]) /\ UNCHANGED <<lateMoves, network>>
       \/ /\ slips < MaxLate /\ slips' = slips + 1
          /\ lateMoves' = lateMoves \cup {[plan |-> p0, cycle |-> c, inode |-> plan[p0].snap[c]]}
          /\ UNCHANGED <<host, trash, late>>

\* The queue forgets the job after its last write.
JobLeaves ==
    /\ At("leave")
    /\ order' = Tail(order) /\ job' = NoJob
    /\ UNCHANGED <<forcingVars, plan, cleaning, trash, lateMoves>>

\* _purge_cycle, by the second worker.
Purge(p) ==
    /\ p \in cleaning
    /\ cleaning' = cleaning \ {p}
    /\ \/ trash' = [trash EXCEPT ![p] = {}] /\ \E s \in {"complete", "unknown"} : Status(p, s)
       \/ trash' = trash /\ Status(p, "unknown")
    /\ UNCHANGED <<forcingVars, order, job, lateMoves>>

LateMove(m) ==
    /\ m \in lateMoves
    /\ lateMoves' = lateMoves \ {m}
    /\ \/ MoveAway(m.plan, m.cycle, m.inode)
       \/ UNCHANGED <<host, trash>>
    /\ UNCHANGED <<database, threads, network, reboots, plan, order, job, cleaning>>

\* recover_interrupted_operations: nothing is sent again.
Interrupted(p) ==
    CASE plan[p].status = "executing" -> [plan[p] EXCEPT !.status = "unknown"]
      [] plan[p].status = "checking" /\ plan[p].kind = "cycle" -> [plan[p] EXCEPT !.status = "blocked"]
      [] OTHER -> plan[p]

Reboot == \E lost \in SUBSET Underway :
    /\ Rebooted(lost) /\ late' = late \cup lost
    /\ plan' = [p \in Plans |-> Interrupted(p)]
    /\ order' = <<>> /\ job' = NoJob /\ cleaning' = {}
    /\ \/ lateMoves' = lateMoves
       \/ \E c \in job.todo : At("move") /\ slips' < MaxLate /\ lateMoves' = lateMoves \cup
                {[plan |-> p0, cycle |-> c, inode |-> plan[p0].snap[c]]}
    /\ UNCHANGED <<trash>>

Next ==
    \/ ForcingStep /\ UNCHANGED cleanup
    \/ RefreshProofs \/ Reboot
    \/ \E c \in Cycles : JobMoves(c) \/ MoveInDoubt(c) \/ \E a \in Actors : DeleteCycle(c, a) \/ RetryCycle(c, a)
    \/ \E a \in Actors : MakePlan(a)
    \/ \E p \in Plans : ExecutePlan(p) \/ Purge(p)
    \/ JobStarts \/ JobFailsEarly \/ JobChecks \/ JobIdentifies \/ JobRechecks \/ JobEntersSection
    \/ MoveRefused \/ JobLeaves
    \/ \E m \in lateMoves : LateMove(m)

Spec == Init /\ [][Next]_vars

-----------------------------------------------------------------------------
(* Properties *)

\* A task needs the files of its cycle from the moment it is bound to it
\* until its remote process is gone.
Needs(t) == task[t].alive \/ (task[t].status = "running" /\ ~task[t].launched)

\* Operations whose cancellation nobody has asked for.  (One whose cancellation
\* is in doubt is protected too, except after SweepReady: see CancelBeatsReady.)
Wants(o) == op[o] \in {"submitting", "accepted", "unknown"}

Claims == {task[t].cycle : t \in {t \in Tasks : Needs(t)}} \cup {CycleOf[o] : o \in {o \in Ops : Wants(o)}}
          \cup policy.held \cup Latest

\* A move its job waits for; a late one passes the job by.
InTime == job' # job

\* A directory that is moved while its job waits for the move is needed by no
\* task, wanted by no operation, and held by nobody: binding a task, accepting
\* an operation and changing the policy never meet a deletion half-way.
SparesClaims ==
    [][\A c \in there \ there' : InTime => c \notin Claims]_vars

\* A deletion reported as blocked has moved nothing, so that it can be tried
\* again under its number (docs/CYCLE_LOCK_CLEANUP_ACCEPTANCE.md:9), unless a
\* rename outlived its caller.
BlockedMovedNothing ==
    \A p \in Plans : plan[p].status = "blocked" /\ slips = 0 => trash[p] = {}

\* A deletion in doubt is never sent again.
NoReplay ==
    [][\A p \in Plans : plan[p].status = "unknown" => plan'[p].status = "unknown"]_vars

\* A deletion that is being checked is in the queue.
CheckingIsQueued == \A p \in Plans : plan[p].status = "checking" => Queued(p)
=============================================================================
