-------------------------- MODULE ForcingOperations --------------------------
(***************************************************************************)
(* The controller's side of the forcing pool of one provider: download     *)
(* operations (forcing_policy.py), the binding of tasks to forecast cycles *)
(* (task_manager.py) and what they leave on the compute host, seen from    *)
(* the controller (hpc_transport.py; the queue itself is ForcingPool).     *)
(*                                                                         *)
(* The database protects a cycle that an operation, a task or the policy   *)
(* refers to; references are made under a file lock, forcing_reference_    *)
(* guard, which a deletion (ForcingCleanup) holds while it looks and moves. *)
(* The queue on the host has references of its own.  A command over SSH    *)
(* may be carried out, refused, carried out without an answer, or carried  *)
(* out after its caller gave up on it (`late`).                            *)
(*                                                                         *)
(* Abstracted: forecast hours (an operation wants its cycle as a whole),   *)
(* download progress, messages, and the wait for the guard, which a caller *)
(* gives up after 30 seconds without having changed anything.  One         *)
(* cancellation of an operation runs at a time.                            *)
(***************************************************************************)
EXTENDS Naturals, FiniteSets

CONSTANTS
    Cycles,      \* forecast cycles, a later one greater
    Latest,      \* latest_cycles: the two the prefetch works for
    Stored,      \* cycles the prefetch has completed before
    Holdable,    \* cycles an administrator may hold
    Ops,         \* download operations, by idempotency key
    CycleOf,     \* the cycle of an operation
    Tasks,
    Covers,      \* the cycles that cover the window of a task
    None,
    MaxInodes,   \* bound on the directories ever made for a cycle
    MaxPatches,  \* bound on changes of the policy
    MaxLate,     \* bound on commands that outlive their caller
    MaxReboots   \* bound on restarts of the API

ASSUME ForcingAssumption ==
    /\ Cycles \subseteq Nat /\ IsFiniteSet(Cycles) /\ {Latest, Stored, Holdable} \subseteq SUBSET Cycles
    /\ IsFiniteSet(Ops) /\ CycleOf \in [Ops -> Cycles]
    /\ \A t \in Tasks : Covers[t] \subseteq Cycles /\ Covers[t] # {}
    /\ None \notin Cycles /\ None \notin Ops /\ None # "cleanup"
    /\ MaxInodes \in Nat \ {0} /\ {MaxPatches, MaxLate, MaxReboots} \subseteq Nat

VARIABLES
    op,        \* wrf_forcing_operations: status
    call,      \* the command an operation's request or cancellation waits for
    sweep,     \* the reconciliation loop: operations listed, one found complete
    task,      \* rows of tasks, and their remote processes
    proofs,    \* tasks whose end is proved and whose row has not changed since
    policy,    \* the cycles held explicitly, and the version
    guard,     \* who is inside forcing_reference_guard
    refs,      \* host: operations the queue knows a reference of
    legacy,    \* host: cycles with a task's request, which has no reference
    there,     \* host: cycles that have a directory
    inode,     \* host: which directory that is, or was
    whole,     \* host: cycles with every file
    late,      \* host: commands still on their way
    slips,     \* commands that have outlived their caller
    reboots

database == <<op, task, proofs, policy>>
threads  == <<call, sweep, guard>>
files    == <<there, inode, whole>>
host     == <<refs, legacy, files>>
network  == <<late, slips>>
forcingVars == <<database, threads, host, network, reboots>>

Statuses == {"none", "submitting", "accepted", "unknown", "cancel_pending", "cancel_unknown",
             "cancelled", "ready"}
Idle == [todo |-> {}, found |-> None]
Command(kind, o) == [kind |-> kind, op |-> o]

ForcingTypeOK ==
    /\ op \in [Ops -> Statuses]
    /\ call \in [Ops -> {"none", "trigger", "release"}]
    /\ sweep \in [todo : SUBSET Ops, found : Ops \cup {None}]
    /\ task \in [Tasks -> [status : {"queued", "running", "ended", "done"}, cycle : Cycles \cup {None},
                           launched : BOOLEAN, alive : BOOLEAN]]
    /\ proofs \subseteq Tasks
    /\ policy \in [held : SUBSET Holdable, version : 0..MaxPatches]
    /\ guard \in {None, "cleanup"}
    /\ refs \subseteq Ops /\ legacy \subseteq Cycles
    /\ there \subseteq Cycles /\ whole \subseteq there /\ inode \in [Cycles -> 0..MaxInodes]
    /\ slips \in 0..MaxLate /\ reboots \in 0..MaxReboots

ForcingInit ==
    /\ op = [o \in Ops |-> "none"]
    /\ call = [o \in Ops |-> "none"] /\ sweep = Idle /\ guard = None
    /\ task = [t \in Tasks |-> [status |-> "queued", cycle |-> None, launched |-> FALSE, alive |-> FALSE]]
    /\ proofs = {}
    /\ policy = [held |-> {}, version |-> 0]
    /\ refs = {} /\ legacy = {}
    /\ there = Stored /\ whole = Stored
    /\ inode = [c \in Cycles |-> IF c \in Stored THEN 1 ELSE 0]
    /\ late = {} /\ slips = 0 /\ reboots = 0

Newest(S) == CHOOSE c \in S : \A d \in S : d <= c

-----------------------------------------------------------------------------
(* What the database protects *)

Protecting == {"submitting", "accepted", "unknown", "cancel_pending", "cancel_unknown"}

\* forcing_download_cycles
DownloadCycles == {CycleOf[o] : o \in {o \in Ops : op[o] \in Protecting}}

\* One row of task_forcing_reference_counts: its cycle or, unbound, all it may get.
Refers(t) == IF task[t].cycle # None THEN {task[t].cycle} ELSE Covers[t]

\* A succeeded task refers to nothing; a task proved terminal may be let go.
TaskCycles(released) == UNION {Refers(t) : t \in {t \in Tasks : task[t].status # "done"} \ released}

\* refresh_forcing_terminal_proofs: a proof may be had of an ended attempt
\* that has no process left; any look at the host may fail.
Provable == {t \in Tasks : task[t].status = "ended" /\ ~task[t].alive}

-----------------------------------------------------------------------------
(* Operations *)

\* request_download: a key that is known returns its operation.
RequestDownload(o) ==
    /\ guard = None /\ op[o] = "none"
    /\ op' = [op EXCEPT ![o] = "submitting"]
    /\ call' = [call EXCEPT ![o] = "trigger"]
    /\ UNCHANGED <<task, proofs, policy, sweep, guard, host, network, reboots>>

Effect(kind, o) == refs' = IF kind = "trigger" THEN refs \cup {o} ELSE refs \ {o}

\* The call returns, and its thread writes what it knows: `done`, or `unsure`.
Answer(o, kind, done, unsure) ==
    /\ call[o] = kind
    /\ call' = [call EXCEPT ![o] = "none"]
    /\ \/ Effect(kind, o) /\ op' = [op EXCEPT ![o] = done] /\ UNCHANGED network
       \/ Effect(kind, o) /\ op' = [op EXCEPT ![o] = unsure] /\ UNCHANGED network
       \/ op' = [op EXCEPT ![o] = unsure] /\ UNCHANGED <<refs, network>>
       \/ /\ slips < MaxLate
          /\ op' = [op EXCEPT ![o] = unsure] /\ slips' = slips + 1
          /\ late' = late \cup {Command(kind, o)} /\ UNCHANGED refs
    /\ UNCHANGED <<task, proofs, policy, sweep, guard, legacy, files, reboots>>

TriggerAnswered(o) == Answer(o, "trigger", "accepted", "unknown")

Cancellable(o) == op[o] \in Protecting \ {"submitting"}

\* cancel_download
CancelDownload(o) ==
    /\ guard = None /\ Cancellable(o) /\ call[o] # "release"
    /\ op' = [op EXCEPT ![o] = "cancel_pending"]
    /\ call' = [call EXCEPT ![o] = "release"]
    /\ UNCHANGED <<task, proofs, policy, sweep, guard, host, network, reboots>>

ReleaseAnswered(o) == Answer(o, "release", "cancelled", "cancel_unknown")

Unsettled == {o \in Ops : op[o] \in {"accepted", "unknown"}}

\* _reconcile_forcing_downloads: the statuses are read once, then the files of
\* one operation after the other.
SweepList ==
    /\ sweep = Idle /\ Unsettled # {}
    /\ sweep' = [Idle EXCEPT !.todo = Unsettled]
    /\ UNCHANGED <<database, call, guard, host, network, reboots>>
SweepInspect(o) ==
    /\ sweep.found = None /\ o \in sweep.todo
    /\ \/ sweep' = [todo |-> sweep.todo \ {o}, found |-> None]
       \/ CycleOf[o] \in whole /\ sweep' = [todo |-> sweep.todo \ {o}, found |-> o]
    /\ UNCHANGED <<database, call, guard, host, network, reboots>>
SweepReady ==
    /\ sweep.found # None
    /\ op' = [op EXCEPT ![sweep.found] = "ready"]
    /\ sweep' = [sweep EXCEPT !.found = None]
    /\ UNCHANGED <<task, proofs, policy, call, guard, host, network, reboots>>

\* observe_download writes under the guard, where it reads the status again: its
\* look at the files may be the same step, as the files of an operation that is
\* still unsettled have been protected since.
ObserveReady(o) ==
    /\ guard = None /\ o \in Unsettled /\ CycleOf[o] \in whole
    /\ op' = [op EXCEPT ![o] = "ready"]
    /\ UNCHANGED <<task, proofs, policy, threads, host, network, reboots>>

\* policy_update
PatchPolicy == \E held \in SUBSET Holdable :
    /\ guard = None /\ policy.version < MaxPatches
    /\ policy' = [held |-> held, version |-> policy.version + 1]
    /\ UNCHANGED <<op, task, proofs, threads, host, network, reboots>>

-----------------------------------------------------------------------------
(* Tasks *)

Row(t, row) == task' = [task EXCEPT ![t] = row] /\ proofs' = proofs \ {t}

\* _select_pool_cycle: the newest whole cycle that covers the window, or the nominal one.
Selected(t) == IF Covers[t] \cap whole # {} THEN Newest(Covers[t] \cap whole) ELSE Newest(Covers[t])

BindCycle(t) ==
    /\ guard = None /\ task[t].status = "queued"
    /\ Row(t, [task[t] EXCEPT !.status = "running", !.cycle = Selected(t)])
    /\ UNCHANGED <<op, policy, threads, host, network, reboots>>

\* ensure_remote_forcing asks the queue for missing files, without a reference.
AskForFiles(t) ==
    /\ task[t].status = "running" /\ ~task[t].launched /\ task[t].cycle \notin whole \cup legacy
    /\ legacy' = legacy \cup {task[t].cycle}
    /\ UNCHANGED <<database, threads, refs, files, network, reboots>>
Launch(t) ==
    /\ task[t].status = "running" /\ ~task[t].launched /\ task[t].cycle \in whole
    /\ Row(t, [task[t] EXCEPT !.launched = TRUE, !.alive = TRUE])
    /\ UNCHANGED <<op, policy, threads, host, network, reboots>>
ProcessExits(t) ==
    /\ task[t].alive
    /\ task' = [task EXCEPT ![t].alive = FALSE]
    /\ UNCHANGED <<op, proofs, policy, threads, host, network, reboots>>

\* The row becomes failed, cancelled or the like, whatever the process does.
TaskEnds(t) ==
    /\ task[t].status \in {"queued", "running"}
    /\ Row(t, [task[t] EXCEPT !.status = "ended"])
    /\ UNCHANGED <<op, policy, threads, host, network, reboots>>
TaskSucceeds(t) ==
    /\ task[t].status = "running" /\ task[t].launched /\ ~task[t].alive
    /\ Row(t, [task[t] EXCEPT !.status = "done"])
    /\ UNCHANGED <<op, policy, threads, host, network, reboots>>

\* resume_external, outside the guard: a launched attempt is observed again,
\* any other goes back to the selection of a cycle.
Resume(t) ==
    /\ task[t].status = "ended"
    /\ Row(t, [task[t] EXCEPT !.status = IF task[t].launched THEN "running" ELSE "queued"])
    /\ UNCHANGED <<op, policy, threads, host, network, reboots>>
\* restart: a new attempt, of a task whose last one is proved to have ended.
Restart(t) ==
    /\ guard = None /\ t \in Provable
    /\ Row(t, [status |-> "queued", cycle |-> None, launched |-> FALSE, alive |-> FALSE])
    /\ UNCHANGED <<op, policy, threads, host, network, reboots>>

-----------------------------------------------------------------------------
(* The host, and a restart of the API *)

Wanted(c) == c \in Latest \cup legacy \/ \E o \in refs : CycleOf[o] = c

\* The pool's worker makes the directory, then completes it.
Download(c) ==
    /\ Wanted(c) /\ c \notin whole
    /\ \/ /\ c \notin there /\ inode[c] < MaxInodes
          /\ there' = there \cup {c} /\ inode' = [inode EXCEPT ![c] = @ + 1] /\ whole' = whole
       \/ c \in there /\ whole' = whole \cup {c} /\ UNCHANGED <<there, inode>>
    /\ UNCHANGED <<database, threads, refs, legacy, network, reboots>>

LateArrives(o, kind) ==
    /\ Command(kind, o) \in late
    /\ late' = late \ {Command(kind, o)} /\ Effect(kind, o)
    /\ UNCHANGED <<database, threads, legacy, files, slips, reboots>>

\* Mutant of Recovered: an interrupted cancellation is taken for done.
BelievesCancel(o) == CASE op[o] = "submitting" -> "unknown"
                       [] op[o] = "cancel_pending" -> "cancelled"
                       [] OTHER -> op[o]
\* recover_interrupted_operations
Recovered(o) == CASE op[o] = "submitting" -> "unknown"
                  [] op[o] = "cancel_pending" -> "cancel_unknown"
                  [] OTHER -> op[o]

\* Mutant of Freed: a lock file stays behind.
StaysLocked(g) == g
\* flock: the guard goes with the process that held it.
Freed(g) == None

\* The API stops and starts: commands under way may still arrive, and the
\* worker of an unlaunched task starts anew.
Rebooted(lost) ==
    /\ reboots < MaxReboots /\ reboots' = reboots + 1
    /\ slips + Cardinality(lost) <= MaxLate /\ slips' = slips + Cardinality(lost)
    /\ op' = [o \in Ops |-> Recovered(o)]
    /\ call' = [o \in Ops |-> "none"] /\ sweep' = Idle /\ guard' = Freed(guard)
    /\ task' = [t \in Tasks |-> IF task[t].status = "running" /\ ~task[t].launched
                                THEN [task[t] EXCEPT !.status = "queued"] ELSE task[t]]
    /\ proofs' = {}
    /\ UNCHANGED <<policy, host>>

\* Commands of operations that are under way.
Underway == {Command(call[o], o) : o \in {o \in Ops : call[o] # "none"}}

ForcingStep ==
    \/ SweepList \/ SweepReady \/ PatchPolicy
    \/ \E o \in Ops :
        \/ RequestDownload(o) \/ TriggerAnswered(o) \/ CancelDownload(o) \/ ReleaseAnswered(o)
        \/ SweepInspect(o) \/ ObserveReady(o)
        \/ LateArrives(o, "trigger") \/ LateArrives(o, "release")
    \/ \E t \in Tasks :
        \/ BindCycle(t) \/ AskForFiles(t) \/ Launch(t) \/ ProcessExits(t)
        \/ TaskEnds(t) \/ TaskSucceeds(t) \/ Resume(t) \/ Restart(t)
    \/ \E c \in Cycles : Download(c)

-----------------------------------------------------------------------------
(* Properties *)

\* A cancelled operation holds nothing on the host, unless its enqueue command
\* arrived after the request had given up on it (cancel_download: the
\* reference has been released).
CancelledHoldsNothing ==
    \A o \in Ops : op[o] = "cancelled" /\ slips = 0 => o \notin refs

\* Cancellation takes precedence over a late ready
\* (docs/BACKEND_BEHAVIOR_BASELINE.md:23, 32).
CancelBeatsReady ==
    [][\A o \in Ops : op[o] \in {"cancel_pending", "cancelled"} => op'[o] # "ready"]_forcingVars
=============================================================================
