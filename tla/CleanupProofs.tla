---------------------------- MODULE CleanupProofs -----------------------------
(***************************************************************************)
(* Proofs about ForcingCleanup and the operations beside it, for any       *)
(* cycles, operations, tasks and plans, any length of the queue and any    *)
(* number of restarts and of commands that outlive their callers.          *)
(*                                                                         *)
(* The guard keeps a reference from being made while a job moves           *)
(* directories; the queue of deletions, that a plan is executed once for   *)
(* every time it was put there.  The invariant says what is known of a     *)
(* cycle between the look under the guard and its rename, of an entry of   *)
(* the queue, and of what may still arrive from a caller that gave up.     *)
(***************************************************************************)
EXTENDS ForcingCleanup, FiniteSetTheorems, WellFoundedInduction, TLAPS

TaskRows == [status : {"queued", "running", "ended", "done"}, cycle : Cycles \cup {None},
             launched : BOOLEAN, alive : BOOLEAN]

PlanRows == [kind : {"none", "cycle", "batch"}, actor : Actors \cup {None}, paths : SUBSET Cycles,
             status : {"none", "pending", "checking", "executing", "unknown", "blocked", "complete"},
             retry : BOOLEAN, snap : Snapshots, version : 0..MaxPatches, removed : BOOLEAN]

ActiveJobs == [at : {"check", "identity", "recheck", "section", "move", "leave"},
               todo : SUBSET Cycles, wrote : BOOLEAN]

\* A request's enqueue is under way only while the operation is being
\* submitted, and no sweep looks at such an operation.
OpIsSound(o) ==
    /\ call[o] = "trigger" => op[o] = "submitting"
    /\ o \in sweep.todo \/ o = sweep.found => op[o] \notin {"none", "submitting"}
    /\ op[o] = "cancelled" /\ slips = 0 => o \notin refs

TaskIsSound(t) ==
    /\ task[t].status = "running" \/ task[t].launched => task[t].cycle \in Cycles
    /\ task[t].status = "done" => ~task[t].alive
    /\ t \in proofs => t \in Provable

\* Directories that are there have been made.
FilesAreSound == \A c \in there : inode[c] # 0

\* A plan that was not carried out has moved nothing.
Unmoved(p) == plan[p].status \in {"none", "pending", "checking", "blocked"}

PlanIsSound(p) ==
    /\ plan[p].kind # "cycle" => DOMAIN plan[p].snap = plan[p].paths
    /\ plan[p].removed => plan[p].status \in {"executing", "unknown", "complete"}
    /\ p \in cleaning => plan[p].removed /\ plan[p].status = "executing"
    /\ Unmoved(p) /\ slips = 0 => trash[p] = {}

\* The entries of the queue that have not been executed are being checked.
QueueIsSound ==
    /\ \A i, j \in 1..Len(order) : order[i] = order[j] => i = j
    /\ job.at # "idle" => order # <<>>
    /\ \A i \in 1..Len(order) : i > 1 \/ job.at \notin {"move", "leave"} => plan[order[i]].status = "checking"

\* What the job has found out about the plan it is at.
JobIsSound ==
    /\ job.at \in {"section", "recheck", "move"} => DOMAIN plan[order[1]].snap = plan[order[1]].paths
    /\ job.at = "move" =>
          /\ plan[order[1]].status = "executing" /\ ~plan[order[1]].removed
          /\ job.todo \subseteq plan[order[1]].paths
          /\ \A c \in job.todo : c \notin Claims
          /\ ~job.wrote /\ slips = 0 => trash[order[1]] = {}

\* A command arrives late only from a caller that has given up, a rename from
\* a plan in doubt.
LateIsSound ==
    /\ slips = 0 => late = {}
    /\ \A m \in lateMoves : slips = 0 => plan[m.plan].status = "unknown"

CleanupInv ==
    /\ TypeOK
    /\ \A o \in Ops : OpIsSound(o)
    /\ \A t \in Tasks : TaskIsSound(t)
    /\ \A p \in Plans : PlanIsSound(p)
    /\ FilesAreSound /\ QueueIsSound /\ JobIsSound /\ LateIsSound

-----------------------------------------------------------------------------
(* Operators: the newest of a finite set, and commands under way.          *)

\* A finite set of numbers has a newest member.
LEMMA NewestIsLast ==
  ASSUME NEW S \in SUBSET Nat, IsFiniteSet(S), S # {}
  PROVE  Newest(S) \in S /\ \A d \in S : d <= Newest(S)
<1> DEFINE HasLast(T) == \E c \in T : \A d \in T : d <= c
           Endless == {T \in FiniteSubsetsOf(Nat) : T # {} /\ ~HasLast(T)}
<1>1. HasLast(S)
  <2>1. SUFFICES ASSUME ~HasLast(S) PROVE FALSE
    OBVIOUS
  <2>2. S \in Endless
    BY <2>1 DEF FiniteSubsetsOf
  <2>3. PICK T \in Endless : \A U \in Endless : <<U, T>> \notin StrictSubsetOrdering(Nat)
    <3>1. Endless \subseteq FiniteSubsetsOf(Nat) /\ Endless # {}
      BY <2>2
    <3> HIDE DEF Endless
    <3> QED
      BY <3>1, FS_StrictSubsetOrderingWellFounded, WFMin
  <2>4. T \in SUBSET Nat /\ IsFiniteSet(T) /\ T # {} /\ ~HasLast(T)
    BY <2>3 DEF FiniteSubsetsOf
  <2>5. PICK x \in T : TRUE
    BY <2>4
  <2>6. IsFiniteSet(T \ {x}) /\ T \ {x} \in SUBSET Nat /\ T \ {x} # T
    BY <2>4, <2>5, FS_RemoveElement
  <2>7. <<T \ {x}, T>> \in StrictSubsetOrdering(Nat)
    BY <2>4, <2>6 DEF StrictSubsetOrdering
  <2>8. T \ {x} \notin Endless
    BY <2>3, <2>7
  <2>9. T \ {x} = {} \/ HasLast(T \ {x})
    BY <2>6, <2>8 DEF FiniteSubsetsOf
  <2> HIDE DEF Endless
  <2>10. CASE T \ {x} = {}
    BY <2>4, <2>5, <2>10
  <2>11. CASE HasLast(T \ {x})
    <3>1. PICK c \in T \ {x} : \A d \in T \ {x} : d <= c
      BY <2>11
    <3>2. CASE c <= x
      <4>1. \A d \in T : d <= x
        BY <2>4, <2>5, <3>1, <3>2
      <4> QED
        BY <2>4, <2>5, <4>1
    <3>3. CASE ~(c <= x)
      <4>1. \A d \in T : d <= c
        BY <2>4, <2>5, <3>1, <3>3
      <4> QED
        BY <2>4, <3>1, <4>1
    <3> QED
      BY <3>2, <3>3
  <2> QED
    BY <2>9, <2>10, <2>11
<1> QED
  BY <1>1 DEF Newest

\* Commands under way at a restart are counted.
LEMMA LostAreCounted ==
  ASSUME NEW lost \in SUBSET Underway
  PROVE  Cardinality(lost) \in Nat /\ (Cardinality(lost) = 0 <=> lost = {})
<1> DEFINE S == {o \in Ops : call[o] # "none"}
           f == [o \in S |-> Command(call[o], o)]
<1>1. IsFiniteSet(S)
  BY ForcingAssumption, FS_Subset
<1>2. f \in Surjection(S, Underway)
  BY DEF Surjection, Underway
<1>3. IsFiniteSet(Underway)
  <2> HIDE DEF S, f
  <2> QED
    BY <1>1, <1>2, FS_Surjection
<1>4. IsFiniteSet(lost)
  BY <1>3, FS_Subset
<1> QED
  BY <1>4, FS_CardinalityType, FS_EmptySet

LEMMA SelectedIsCycle ==
  ASSUME NEW t \in Tasks, whole \subseteq Cycles
  PROVE  Selected(t) \in Cycles
<1>1. Covers[t] \subseteq Cycles /\ Covers[t] # {} /\ Cycles \subseteq Nat /\ IsFiniteSet(Cycles)
  BY ForcingAssumption
<1>2. \A S \in SUBSET Cycles : S # {} => Newest(S) \in S
  BY <1>1, FS_Subset, NewestIsLast
<1> QED
  BY <1>1, <1>2 DEF Selected

-----------------------------------------------------------------------------
(* The start, and what follows from the invariant.                         *)

LEMMA CleanupStart == Init => CleanupInv
<1> SUFFICES ASSUME Init PROVE CleanupInv
  OBVIOUS
<1> USE DEF Init, ForcingInit
<1>1. MaxInodes \in Nat /\ MaxInodes # 0 /\ MaxLate \in Nat /\ MaxReboots \in Nat /\ MaxPatches \in Nat
      /\ Stored \in SUBSET Cycles /\ None \notin Ops /\ MaxQueue \in Nat
  BY ForcingAssumption, CleanupAssumption
<1>2. ForcingTypeOK
  <2>1. inode \in [Cycles -> 0..MaxInodes]
    BY <1>1
  <2>2. sweep \in [todo : SUBSET Ops, found : Ops \cup {None}]
    BY DEF Idle
  <2> QED
    BY <1>1, <2>1, <2>2 DEF ForcingTypeOK, Statuses
<1>3. TypeOK
  <2>1. NoPlan.snap \in Snapshots
    <3>1. NoPlan.snap \in [{} -> 1..MaxInodes]
      BY DEF NoPlan
    <3> QED
      BY <3>1 DEF Snapshots
  <2>2. NoPlan.snap = <<>>
    BY DEF NoPlan
  <2>3. NoPlan \in [kind : {"none", "cycle", "batch"}, actor : Actors \cup {None},
                    paths : SUBSET Cycles,
                    status : {"none", "pending", "checking", "executing", "unknown", "blocked", "complete"},
                    retry : BOOLEAN, snap : Snapshots, version : 0..MaxPatches, removed : BOOLEAN]
    BY <1>1, <2>1, <2>2 DEF NoPlan
  <2>4. order \in Seq(Plans) /\ Len(order) <= MaxQueue
    BY <1>1
  <2>5. job \in [at : {"idle", "check", "identity", "recheck", "section", "move", "leave"},
                 todo : SUBSET Cycles, wrote : BOOLEAN]
        /\ (guard = "cleanup" <=> job.at = "move")
    <3>1. guard = None /\ None # "cleanup"
      BY ForcingAssumption
    <3> QED
      BY <3>1 DEF NoJob
  <2> QED
    BY <1>2, <2>3, <2>4, <2>5 DEF TypeOK
<1>4. \A o \in Ops : OpIsSound(o)
  BY <1>1 DEF OpIsSound, Idle
<1>5. \A t \in Tasks : TaskIsSound(t)
  BY DEF TaskIsSound
<1>6. \A p \in Plans : PlanIsSound(p)
  <2>1. NoPlan.paths = {} /\ NoPlan.snap = <<>> /\ NoPlan.removed = FALSE
    BY DEF NoPlan
  <2>2. DOMAIN NoPlan.snap = NoPlan.paths
    BY <2>1
  <2> QED
    BY <2>1, <2>2 DEF PlanIsSound
<1>7. FilesAreSound /\ QueueIsSound /\ JobIsSound /\ LateIsSound
  BY <1>1 DEF FilesAreSound, QueueIsSound, JobIsSound, LateIsSound, NoJob
<1> QED
  BY <1>3, <1>4, <1>5, <1>6, <1>7 DEF CleanupInv

-----------------------------------------------------------------------------
(* Operations, tasks and the policy, beside the deletions.                 *)

\* A step outside the deletions that makes no new claim under the guard.
LEMMA OutsideStays ==
  ASSUME CleanupInv, UNCHANGED cleanup, ForcingTypeOK', guard' = guard,
         \A o \in Ops : OpIsSound(o)', \A t \in Tasks : TaskIsSound(t)', FilesAreSound',
         slips' = 0 => slips = 0 /\ late' = {},
         guard # None => /\ policy' = policy
                         /\ \A o \in Ops : Wants(o)' => Wants(o)
                         /\ \A t \in Tasks : Needs(t)' => Needs(t) /\ task'[t].cycle = task[t].cycle
  PROVE  CleanupInv'
<1>1. UNCHANGED <<plan, order, job, cleaning, trash, lateMoves>>
  BY DEF cleanup
<1>2. TypeOK'
  BY <1>1 DEF CleanupInv, TypeOK
<1>3. \A p \in Plans : PlanIsSound(p)'
  BY <1>1 DEF CleanupInv, PlanIsSound, Unmoved
<1>4. QueueIsSound'
  BY <1>1 DEF CleanupInv, QueueIsSound
<1>5. JobIsSound'
  <2>1. job.at = "move" => guard # None
    BY ForcingAssumption DEF CleanupInv, TypeOK
  <2>2. job.at = "move" => \A c \in job.todo : c \notin Claims'
    <3>1. SUFFICES ASSUME job.at = "move", NEW c \in job.todo, c \in Claims' PROVE FALSE
      OBVIOUS
    <3>2. c \notin Claims
      BY <3>1 DEF CleanupInv, JobIsSound
    <3> QED
      BY <2>1, <3>1, <3>2 DEF Claims
  <2> QED
    BY <1>1, <2>2 DEF CleanupInv, JobIsSound
<1>6. LateIsSound'
  BY <1>1 DEF CleanupInv, LateIsSound
<1> QED
  BY <1>2, <1>3, <1>4, <1>5, <1>6 DEF CleanupInv

\* A step of the operations alone.
LEMMA OpsKeep ==
  ASSUME CleanupInv, UNCHANGED <<task, proofs, policy, guard, legacy, there, inode, whole, reboots, cleanup>>,
         op' \in [Ops -> Statuses], call' \in [Ops -> {"none", "trigger", "release"}],
         sweep' \in [todo : SUBSET Ops, found : Ops \cup {None}], refs' \subseteq Ops, slips' \in 0..MaxLate,
         \A o \in Ops : OpIsSound(o)', slips' = 0 => slips = 0 /\ late' = {},
         guard # None => \A o \in Ops : Wants(o)' => Wants(o)
  PROVE  CleanupInv'
<1>1. ForcingTypeOK'
  BY DEF CleanupInv, TypeOK, ForcingTypeOK
<1>2. \A t \in Tasks : TaskIsSound(t)'
  BY DEF CleanupInv, TaskIsSound, Provable
<1>3. FilesAreSound'
  BY DEF CleanupInv, FilesAreSound
<1>4. \A t \in Tasks : Needs(t)' => Needs(t) /\ task'[t].cycle = task[t].cycle
  BY DEF Needs
<1> QED
  BY <1>1, <1>2, <1>3, <1>4, OutsideStays

LEMMA OpTypes ==
  ASSUME CleanupInv
  PROVE  /\ op \in [Ops -> Statuses] /\ call \in [Ops -> {"none", "trigger", "release"}]
         /\ sweep \in [todo : SUBSET Ops, found : Ops \cup {None}] /\ refs \subseteq Ops
         /\ slips \in 0..MaxLate /\ MaxLate \in Nat /\ None \notin Ops /\ (slips = 0 => late = {})
  BY ForcingAssumption DEF CleanupInv, TypeOK, ForcingTypeOK, LateIsSound

\* An answer, or none: what is then known of the operation, and of the host.
LEMMA AnswerIsSound ==
  ASSUME CleanupInv, NEW o \in Ops,
         NEW kind \in {"trigger", "release"}, NEW done \in Statuses, NEW unsure \in Statuses,
         Answer(o, kind, done, unsure), UNCHANGED cleanup,
         {done, unsure} \cap {"none", "submitting"} = {}, unsure # "cancelled",
         kind = "trigger" => done # "cancelled",
         kind = "release" => ~Wants(o)'
  PROVE  CleanupInv'
<1>1. /\ UNCHANGED <<task, proofs, policy, guard, legacy, there, inode, whole, reboots>>
      /\ sweep' = sweep /\ call[o] = kind /\ call' = [call EXCEPT ![o] = "none"]
  BY DEF Answer, files
<1>2. \/ refs' = (IF kind = "trigger" THEN refs \cup {o} ELSE refs \ {o})
      \/ refs' = refs
  BY DEF Answer, Effect
<1>3. /\ op' \in [Ops -> Statuses] /\ op'[o] \in {done, unsure} /\ \A x \in Ops \ {o} : op'[x] = op[x]
      /\ op'[o] = "cancelled" => kind = "release" /\ refs' = refs \ {o}
  BY OpTypes DEF Answer, Effect
<1>4. /\ call' \in [Ops -> {"none", "trigger", "release"}] /\ call'[o] = "none"
      /\ \A x \in Ops \ {o} : call'[x] = call[x]
  BY <1>1, OpTypes
<1>5. refs' \subseteq Ops
  BY <1>2, OpTypes
<1>6. slips' \in 0..MaxLate /\ (slips' = 0 => slips = 0 /\ late' = {})
  <2>1. UNCHANGED <<late, slips>> \/ (slips < MaxLate /\ slips' = slips + 1)
    BY DEF Answer, network
  <2> QED
    BY <2>1, OpTypes
<1>7. \A x \in Ops : OpIsSound(x)'
  <2>1. \A x \in Ops \ {o} : OpIsSound(x)'
    BY <1>1, <1>2, <1>3, <1>4, <1>6 DEF CleanupInv, OpIsSound
  <2>2. OpIsSound(o)'
    BY <1>3, <1>4 DEF OpIsSound
  <2> QED
    BY <2>1, <2>2
<1>8. \A x \in Ops : Wants(x)' => Wants(x)
  <2>1. kind = "trigger" => op[o] = "submitting"
    BY <1>1 DEF CleanupInv, OpIsSound
  <2> QED
    BY <1>3, <2>1 DEF Wants
<1> QED
  BY <1>1, <1>3, <1>4, <1>5, <1>6, <1>7, <1>8, OpTypes, OpsKeep

LEMMA OperationIsSound ==
  ASSUME CleanupInv, NEW o \in Ops, UNCHANGED cleanup,
         RequestDownload(o) \/ TriggerAnswered(o) \/ CancelDownload(o) \/ ReleaseAnswered(o) \/ ObserveReady(o)
  PROVE  CleanupInv'
<1> USE DEF host, files, network, threads
<1>1. OpIsSound(o)
  BY DEF CleanupInv
<1>2. CASE RequestDownload(o)
  <2>1. /\ op' \in [Ops -> Statuses] /\ op'[o] = "submitting" /\ \A x \in Ops \ {o} : op'[x] = op[x]
        /\ call' \in [Ops -> {"none", "trigger", "release"}] /\ \A x \in Ops \ {o} : call'[x] = call[x]
    BY <1>2, OpTypes DEF RequestDownload, Statuses
  <2>2. ASSUME NEW x \in Ops PROVE OpIsSound(x)'
    <3>1. OpIsSound(x)
      BY DEF CleanupInv
    <3> QED
      BY <1>1, <1>2, <2>1, <3>1 DEF RequestDownload, OpIsSound
  <2> QED
    BY <1>2, <2>1, <2>2, OpTypes, OpsKeep DEF RequestDownload
<1>3. CASE TriggerAnswered(o)
  BY <1>3, AnswerIsSound DEF TriggerAnswered, Statuses
<1>4. CASE CancelDownload(o)
  <2>1. /\ op' \in [Ops -> Statuses] /\ op'[o] = "cancel_pending" /\ \A x \in Ops \ {o} : op'[x] = op[x]
        /\ call' \in [Ops -> {"none", "trigger", "release"}] /\ \A x \in Ops \ {o} : call'[x] = call[x]
        /\ call'[o] = "release"
    BY <1>4, OpTypes DEF CancelDownload, Statuses
  <2>2. \A x \in Ops : OpIsSound(x)'
    BY <1>4, <2>1 DEF CleanupInv, CancelDownload, OpIsSound
  <2> QED
    BY <1>4, <2>1, <2>2, OpTypes, OpsKeep DEF CancelDownload
<1>5. CASE ReleaseAnswered(o)
  <2>1. Answer(o, "release", "cancelled", "cancel_unknown")
    BY <1>5 DEF ReleaseAnswered
  <2>2. op'[o] \in {"cancelled", "cancel_unknown"}
    BY <2>1, OpTypes DEF Answer
  <2>3. ~Wants(o)'
    BY <2>2 DEF Wants
  <2> QED
    BY <2>1, <2>3, AnswerIsSound DEF Statuses
<1>6. CASE ObserveReady(o)
  <2>1. /\ op' \in [Ops -> Statuses] /\ op'[o] = "ready" /\ \A x \in Ops \ {o} : op'[x] = op[x]
        /\ op[o] # "submitting"
    BY <1>6, OpTypes DEF ObserveReady, Statuses, Unsettled
  <2>2. \A x \in Ops : OpIsSound(x)'
    BY <1>6, <2>1 DEF CleanupInv, ObserveReady, OpIsSound
  <2> QED
    BY <1>6, <2>1, <2>2, OpTypes, OpsKeep DEF ObserveReady
<1> QED
  BY <1>2, <1>3, <1>4, <1>5, <1>6

LEMMA SweepIsSound ==
  ASSUME CleanupInv, UNCHANGED cleanup, SweepList \/ SweepReady \/ \E o \in Ops : SweepInspect(o)
  PROVE  CleanupInv'
<1> USE DEF host, files, network, database
<1>1. CASE SweepList
  <2>1. sweep'.todo = Unsettled /\ sweep'.found = None /\ sweep' \in [todo : SUBSET Ops, found : Ops \cup {None}]
    BY <1>1 DEF SweepList, Idle, Unsettled
  <2>2. \A x \in Ops : OpIsSound(x)'
    BY <1>1, <2>1, OpTypes DEF CleanupInv, SweepList, OpIsSound, Unsettled
  <2>3. \A x \in Ops : Wants(x)' => Wants(x)
    BY <1>1 DEF SweepList, Wants
  <2> QED
    BY <1>1, <2>1, <2>2, <2>3, OpTypes, OpsKeep DEF SweepList
<1>2. ASSUME NEW o \in Ops, SweepInspect(o) PROVE CleanupInv'
  <2>1. /\ sweep' \in [todo : SUBSET Ops, found : Ops \cup {None}] /\ o \in sweep.todo
        /\ sweep'.todo = sweep.todo \ {o} /\ sweep'.found \in {None, o}
    BY <1>2, OpTypes DEF SweepInspect
  <2>2. \A x \in Ops : OpIsSound(x)'
    BY <1>2, <2>1, OpTypes DEF CleanupInv, SweepInspect, OpIsSound
  <2>3. \A x \in Ops : Wants(x)' => Wants(x)
    BY <1>2 DEF SweepInspect, Wants
  <2> QED
    BY <1>2, <2>1, <2>2, <2>3, OpTypes, OpsKeep DEF SweepInspect
<1>3. CASE SweepReady
  <2>1. sweep.found \in Ops /\ op[sweep.found] # "submitting"
    BY <1>3, OpTypes DEF SweepReady, CleanupInv, OpIsSound
  <2>2. /\ op' \in [Ops -> Statuses] /\ op'[sweep.found] = "ready"
        /\ \A x \in Ops \ {sweep.found} : op'[x] = op[x]
        /\ sweep' \in [todo : SUBSET Ops, found : Ops \cup {None}]
        /\ sweep'.todo = sweep.todo /\ sweep'.found = None
    BY <1>3, <2>1, OpTypes DEF SweepReady, Statuses
  <2>3. ASSUME NEW x \in Ops PROVE OpIsSound(x)'
    <3>1. OpIsSound(x) /\ OpIsSound(sweep.found) /\ x # None
      BY <2>1, OpTypes DEF CleanupInv
    <3> QED
      BY <1>3, <2>1, <2>2, <3>1 DEF SweepReady, OpIsSound
  <2>4. \A x \in Ops : Wants(x)' => Wants(x)
    BY <2>2 DEF Wants
  <2> QED
    BY <1>3, <2>2, <2>3, <2>4, OpTypes, OpsKeep DEF SweepReady
<1> QED
  BY <1>1, <1>2, <1>3

LEMMA LateCommandIsSound ==
  ASSUME CleanupInv, UNCHANGED cleanup, NEW o \in Ops, NEW kind \in {"trigger", "release"}, LateArrives(o, kind)
  PROVE  CleanupInv'
<1>1. /\ UNCHANGED <<op, call, sweep, task, proofs, policy, guard, legacy, there, inode, whole, slips, reboots>>
      /\ Command(kind, o) \in late /\ late' = late \ {Command(kind, o)} /\ refs' \in {refs \cup {o}, refs \ {o}}
  BY DEF LateArrives, Effect, database, threads, files
<1>2. slips # 0 /\ refs' \subseteq Ops
  BY <1>1, OpTypes
<1>3. \A x \in Ops : OpIsSound(x)' /\ (Wants(x)' => Wants(x))
  BY <1>1, <1>2 DEF CleanupInv, OpIsSound, Wants
<1> QED
  BY <1>1, <1>2, <1>3, OpTypes, OpsKeep

\* A step of the tasks, the proofs and the pool alone.
LEMMA TasksKeep ==
  ASSUME CleanupInv, UNCHANGED <<op, policy, threads, refs, network, reboots, cleanup>>,
         task' \in [Tasks -> TaskRows], proofs' \subseteq Tasks, legacy' \subseteq Cycles,
         there' \subseteq Cycles, whole' \subseteq there', inode' \in [Cycles -> 0..MaxInodes],
         \A t \in Tasks : TaskIsSound(t)', FilesAreSound',
         guard # None => \A t \in Tasks : Needs(t)' => Needs(t) /\ task'[t].cycle = task[t].cycle
  PROVE  CleanupInv'
<1>1. UNCHANGED <<call, sweep, guard, late, slips>>
  BY DEF threads, network
<1>2. ForcingTypeOK'
  BY <1>1 DEF CleanupInv, TypeOK, ForcingTypeOK, TaskRows
<1>3. \A o \in Ops : OpIsSound(o)' /\ (Wants(o)' => Wants(o))
  BY <1>1 DEF CleanupInv, OpIsSound, Wants
<1> QED
  BY <1>1, <1>2, <1>3, OpTypes, OutsideStays

LEMMA TaskTypes ==
  ASSUME CleanupInv
  PROVE  /\ task \in [Tasks -> TaskRows] /\ proofs \subseteq Tasks /\ legacy \subseteq Cycles
         /\ there \subseteq Cycles /\ whole \subseteq there /\ inode \in [Cycles -> 0..MaxInodes]
         /\ FilesAreSound /\ None \notin Cycles
  BY ForcingAssumption DEF CleanupInv, TypeOK, ForcingTypeOK, TaskRows

\* A row is replaced; the proof of its task's end goes with the old one.
LEMMA RowIsReplaced ==
  ASSUME CleanupInv, NEW t \in Tasks, NEW row \in TaskRows, Row(t, row),
         UNCHANGED <<op, policy, threads, host, network, reboots, cleanup>>,
         row.status = "running" \/ row.launched => row.cycle \in Cycles,
         row.status = "done" => ~row.alive,
         \/ guard = None
         \/ ~(row.alive \/ (row.status = "running" /\ ~row.launched))
         \/ Needs(t) /\ row.cycle = task[t].cycle
  PROVE  CleanupInv'
<1>1. UNCHANGED <<refs, legacy, there, inode, whole>>
  BY DEF host, files
<1>2. /\ task' \in [Tasks -> TaskRows] /\ task'[t] = row /\ \A x \in Tasks \ {t} : task'[x] = task[x]
      /\ proofs' = proofs \ {t} /\ proofs' \subseteq Tasks
  BY TaskTypes DEF Row
<1>3. ASSUME NEW x \in Tasks PROVE TaskIsSound(x)'
  <2>1. TaskIsSound(x)
    BY DEF CleanupInv
  <2>2. CASE x = t
    BY <1>2, <2>2 DEF TaskIsSound
  <2>3. CASE x # t
    BY <1>2, <2>1, <2>3 DEF TaskIsSound, Provable
  <2> QED
    BY <2>2, <2>3
<1>4. FilesAreSound'
  BY <1>1, TaskTypes DEF FilesAreSound
<1>5. guard # None => \A x \in Tasks : Needs(x)' => Needs(x) /\ task'[x].cycle = task[x].cycle
  BY <1>2 DEF Needs
<1> QED
  BY <1>1, <1>2, <1>3, <1>4, <1>5, TaskTypes, TasksKeep

LEMMA TaskIsServed ==
  ASSUME CleanupInv, NEW t \in Tasks, UNCHANGED cleanup,
         \/ BindCycle(t) \/ Launch(t) \/ TaskEnds(t) \/ TaskSucceeds(t) \/ Resume(t) \/ Restart(t)
  PROVE  CleanupInv'
<1>1. task[t] \in TaskRows /\ TaskIsSound(t) /\ whole \subseteq Cycles
  BY TaskTypes DEF CleanupInv
<1>2. CASE BindCycle(t)
  <2> DEFINE row == [task[t] EXCEPT !.status = "running", !.cycle = Selected(t)]
  <2>1. row \in TaskRows /\ row.cycle \in Cycles /\ row.status = "running"
    BY <1>1, SelectedIsCycle DEF TaskRows
  <2>2. Row(t, row) /\ guard = None /\ UNCHANGED <<op, policy, threads, host, network, reboots>>
    BY <1>2 DEF BindCycle
  <2> HIDE DEF row
  <2> QED
    BY <2>1, <2>2, RowIsReplaced
<1>3. CASE Launch(t)
  <2> DEFINE row == [task[t] EXCEPT !.launched = TRUE, !.alive = TRUE]
  <2>1. row \in TaskRows /\ row.cycle = task[t].cycle /\ row.cycle \in Cycles /\ row.status = "running" /\ Needs(t)
    BY <1>1, <1>3 DEF TaskRows, Launch, Needs
  <2>2. Row(t, row) /\ UNCHANGED <<op, policy, threads, host, network, reboots>>
    BY <1>3 DEF Launch
  <2> HIDE DEF row
  <2> QED
    BY <2>1, <2>2, RowIsReplaced
<1>4. CASE TaskEnds(t)
  <2> DEFINE row == [task[t] EXCEPT !.status = "ended"]
  <2>1. /\ row \in TaskRows /\ row.cycle = task[t].cycle /\ row.status = "ended"
        /\ row.launched = task[t].launched /\ row.alive = task[t].alive
    BY <1>1 DEF TaskRows
  <2>2. Row(t, row) /\ UNCHANGED <<op, policy, threads, host, network, reboots>>
    BY <1>4 DEF TaskEnds
  <2> HIDE DEF row
  <2>3. row.launched => row.cycle \in Cycles
    BY <1>1, <2>1 DEF TaskIsSound
  <2>4. row.alive => Needs(t)
    BY <2>1 DEF Needs
  <2> QED
    BY <2>1, <2>2, <2>3, <2>4, RowIsReplaced
<1>5. CASE TaskSucceeds(t)
  <2> DEFINE row == [task[t] EXCEPT !.status = "done"]
  <2>1. row \in TaskRows /\ row.cycle \in Cycles /\ row.status = "done" /\ ~row.alive
    BY <1>1, <1>5 DEF TaskRows, TaskIsSound, TaskSucceeds
  <2>2. Row(t, row) /\ UNCHANGED <<op, policy, threads, host, network, reboots>>
    BY <1>5 DEF TaskSucceeds
  <2> HIDE DEF row
  <2> QED
    BY <2>1, <2>2, RowIsReplaced
<1>6. CASE Resume(t)
  <2> DEFINE row == [task[t] EXCEPT !.status = IF task[t].launched THEN "running" ELSE "queued"]
  <2>1. /\ row \in TaskRows /\ row.cycle = task[t].cycle /\ row.launched = task[t].launched
        /\ row.alive = task[t].alive /\ row.status = IF task[t].launched THEN "running" ELSE "queued"
    BY <1>1 DEF TaskRows
  <2>2. Row(t, row) /\ UNCHANGED <<op, policy, threads, host, network, reboots>>
    BY <1>6 DEF Resume
  <2> HIDE DEF row
  <2>3. row.launched => row.cycle \in Cycles
    BY <1>1, <2>1 DEF TaskIsSound
  <2>4. row.alive => Needs(t)
    BY <2>1 DEF Needs
  <2> QED
    BY <2>1, <2>2, <2>3, <2>4, RowIsReplaced
<1>7. CASE Restart(t)
  <2> DEFINE row == [status |-> "queued", cycle |-> None, launched |-> FALSE, alive |-> FALSE]
  <2>1. row \in TaskRows /\ row.status = "queued" /\ ~row.launched /\ ~row.alive
    BY DEF TaskRows
  <2>2. Row(t, row) /\ UNCHANGED <<op, policy, threads, host, network, reboots>>
    BY <1>7 DEF Restart
  <2> HIDE DEF row
  <2> QED
    BY <2>1, <2>2, RowIsReplaced
<1> QED
  BY <1>2, <1>3, <1>4, <1>5, <1>6, <1>7

LEMMA TaskGoesOn ==
  ASSUME CleanupInv, NEW t \in Tasks, UNCHANGED cleanup, AskForFiles(t) \/ ProcessExits(t)
  PROVE  CleanupInv'
<1>1. task[t] \in TaskRows /\ TaskIsSound(t)
  BY TaskTypes DEF CleanupInv
<1>2. CASE AskForFiles(t)
  <2>1. /\ UNCHANGED <<op, policy, threads, refs, network, reboots, task, proofs, there, inode, whole>>
        /\ legacy' = legacy \cup {task[t].cycle} /\ task[t].cycle \in Cycles
    BY <1>1, <1>2 DEF AskForFiles, database, files, TaskIsSound
  <2>2. \A x \in Tasks : TaskIsSound(x)' /\ (Needs(x)' => Needs(x))
    BY <2>1 DEF CleanupInv, TaskIsSound, Provable, Needs
  <2>3. FilesAreSound'
    BY <2>1, TaskTypes DEF FilesAreSound
  <2> QED
    BY <2>1, <2>2, <2>3, TaskTypes, TasksKeep
<1>3. CASE ProcessExits(t)
  <2>1. /\ UNCHANGED <<op, policy, threads, refs, network, reboots, proofs, there, inode, whole, legacy>>
        /\ task' = [task EXCEPT ![t].alive = FALSE]
    BY <1>3 DEF ProcessExits, host, files
  <2>2. task' \in [Tasks -> TaskRows]
    BY <2>1, TaskTypes DEF TaskRows
  <2>3. /\ \A x \in Tasks : /\ task'[x].status = task[x].status /\ task'[x].cycle = task[x].cycle
                            /\ task'[x].launched = task[x].launched
        /\ task'[t].alive = FALSE /\ \A x \in Tasks \ {t} : task'[x] = task[x]
    BY <2>1, TaskTypes DEF TaskRows
  <2>4. ASSUME NEW x \in Tasks PROVE TaskIsSound(x)'
    <3>1. TaskIsSound(x)
      BY DEF CleanupInv
    <3> QED
      BY <2>1, <2>3, <3>1 DEF TaskIsSound, Provable
  <2>5. \A x \in Tasks : Needs(x)' => Needs(x)
    BY <2>3 DEF Needs
  <2>6. FilesAreSound'
    BY <2>1, TaskTypes DEF FilesAreSound
  <2> QED
    BY <2>1, <2>2, <2>3, <2>4, <2>5, <2>6, TaskTypes, TasksKeep
<1> QED
  BY <1>2, <1>3

\* The worker of the pool makes a directory, or completes it.
LEMMA DownloadIsSound ==
  ASSUME CleanupInv, NEW c \in Cycles, Download(c), UNCHANGED cleanup
  PROVE  CleanupInv'
<1>1. /\ UNCHANGED <<op, policy, threads, refs, network, reboots, task, proofs, legacy>>
  BY DEF Download, database
<1>2. there' \subseteq Cycles /\ whole' \subseteq there' /\ inode' \in [Cycles -> 0..MaxInodes] /\ FilesAreSound'
  <2>1. CASE UNCHANGED <<there, inode>> /\ c \in there /\ whole' = whole \cup {c}
    BY <2>1, TaskTypes DEF FilesAreSound
  <2>2. CASE /\ inode[c] < MaxInodes /\ whole' = whole
             /\ there' = there \cup {c} /\ inode' = [inode EXCEPT ![c] = @ + 1]
    <3>1. MaxInodes \in Nat /\ inode[c] \in 0..MaxInodes
      BY ForcingAssumption, TaskTypes
    <3>2. inode[c] + 1 \in 1..MaxInodes
      BY <2>2, <3>1
    <3>3. inode' \in [Cycles -> 0..MaxInodes] /\ inode'[c] = inode[c] + 1 /\ \A d \in Cycles \ {c} : inode'[d] = inode[d]
      BY <2>2, <3>1, <3>2, TaskTypes
    <3> QED
      BY <2>2, <3>2, <3>3, TaskTypes DEF FilesAreSound
  <2> QED
    BY <2>1, <2>2 DEF Download
<1>3. \A x \in Tasks : TaskIsSound(x)' /\ (Needs(x)' => Needs(x))
  BY <1>1 DEF CleanupInv, TaskIsSound, Provable, Needs
<1> QED
  BY <1>1, <1>2, <1>3, TaskTypes, TasksKeep

LEMMA PolicyIsSound ==
  ASSUME CleanupInv, PatchPolicy, UNCHANGED cleanup
  PROVE  CleanupInv'
<1>1. /\ UNCHANGED <<op, task, proofs, call, sweep, guard, refs, legacy, there, inode, whole, late, slips, reboots>>
      /\ guard = None
  BY DEF PatchPolicy, threads, host, files, network
<1>2. policy' \in [held : SUBSET Holdable, version : 0..MaxPatches]
  <2>1. MaxPatches \in Nat /\ policy.version \in 0..MaxPatches
    BY ForcingAssumption DEF CleanupInv, TypeOK, ForcingTypeOK
  <2> QED
    BY <2>1 DEF PatchPolicy
<1>3. ForcingTypeOK'
  BY <1>1, <1>2 DEF CleanupInv, TypeOK, ForcingTypeOK
<1>4. (\A o \in Ops : OpIsSound(o)') /\ (\A t \in Tasks : TaskIsSound(t)') /\ FilesAreSound'
  BY <1>1 DEF CleanupInv, OpIsSound, TaskIsSound, Provable, FilesAreSound
<1> QED
  BY <1>1, <1>3, <1>4, OpTypes, OutsideStays

\* The retention loop looks at the ended tasks.
LEMMA ProofsAreSound ==
  ASSUME CleanupInv, RefreshProofs
  PROVE  CleanupInv'
<1>1. /\ UNCHANGED <<op, policy, threads, refs, network, reboots, task, there, inode, whole, legacy, cleanup>>
      /\ proofs' \subseteq Provable
  BY DEF RefreshProofs, host, files
<1>2. \A x \in Tasks : TaskIsSound(x)' /\ (Needs(x)' => Needs(x))
  BY <1>1 DEF CleanupInv, TaskIsSound, Provable, Needs
<1>3. FilesAreSound' /\ proofs' \subseteq Tasks
  BY <1>1, TaskTypes DEF FilesAreSound, Provable
<1> QED
  BY <1>1, <1>2, <1>3, TaskTypes, TasksKeep

\* Nothing the operations, tasks and policy do breaks a deletion under way.
LEMMA ForcingStepIsSound ==
  ASSUME CleanupInv, ForcingStep, UNCHANGED cleanup
  PROVE  CleanupInv'
<1>1. CASE SweepList \/ SweepReady \/ \E o \in Ops : SweepInspect(o)
  BY <1>1, SweepIsSound
<1>2. CASE PatchPolicy
  BY <1>2, PolicyIsSound
<1>3. ASSUME NEW o \in Ops,
             \/ RequestDownload(o) \/ TriggerAnswered(o) \/ CancelDownload(o) \/ ReleaseAnswered(o)
             \/ ObserveReady(o)
      PROVE  CleanupInv'
  BY <1>3, OperationIsSound
<1>4. ASSUME NEW o \in Ops, LateArrives(o, "trigger") \/ LateArrives(o, "release") PROVE CleanupInv'
  BY <1>4, LateCommandIsSound
<1>5. ASSUME NEW t \in Tasks,
             BindCycle(t) \/ Launch(t) \/ TaskEnds(t) \/ TaskSucceeds(t) \/ Resume(t) \/ Restart(t)
      PROVE  CleanupInv'
  BY <1>5, TaskIsServed
<1>6. ASSUME NEW t \in Tasks, AskForFiles(t) \/ ProcessExits(t) PROVE CleanupInv'
  BY <1>6, TaskGoesOn
<1>7. ASSUME NEW c \in Cycles, Download(c) PROVE CleanupInv'
  BY <1>7, DownloadIsSound
<1> QED
  BY <1>1, <1>2, <1>3, <1>4, <1>5, <1>6, <1>7 DEF ForcingStep

-----------------------------------------------------------------------------
(* Requests: a plan is made, and put into the queue.                       *)

LEMMA CleanupTypes ==
  ASSUME CleanupInv
  PROVE  /\ ForcingTypeOK
         /\ plan \in [Plans -> PlanRows] /\ order \in Seq(Plans) /\ Len(order) <= MaxQueue /\ Len(order) \in Nat
         /\ MaxQueue \in Nat /\ MaxQueue # 0
         /\ job \in [at : {"idle", "check", "identity", "recheck", "section", "move", "leave"},
                     todo : SUBSET Cycles, wrote : BOOLEAN]
         /\ (guard = "cleanup" <=> job.at = "move") /\ guard \in {None, "cleanup"} /\ None # "cleanup"
         /\ cleaning \subseteq Plans /\ trash \in [Plans -> SUBSET Cycles] /\ lateMoves \subseteq Moves
<1>1. TypeOK /\ ForcingTypeOK
  BY DEF CleanupInv, TypeOK
<1>2. MaxQueue \in Nat /\ MaxQueue # 0 /\ None # "cleanup"
  BY ForcingAssumption, CleanupAssumption
<1>3. plan \in [Plans -> PlanRows]
  BY <1>1 DEF TypeOK, PlanRows
<1>4. guard \in {None, "cleanup"}
  BY <1>1 DEF ForcingTypeOK
<1>5. order \in Seq(Plans) /\ Len(order) <= MaxQueue /\ Len(order) \in Nat
  BY <1>1 DEF TypeOK
<1> QED
  BY <1>1, <1>2, <1>3, <1>4, <1>5 DEF TypeOK

\* A step of the deletions that leaves operations, tasks, files and network alone.
LEMMA PlansKeep ==
  ASSUME CleanupInv, UNCHANGED <<op, call, sweep, task, policy, refs, legacy, there, inode, whole, late, slips, reboots>>,
         proofs' \subseteq Provable, guard' \in {None, "cleanup"}, guard' = "cleanup" <=> job'.at = "move",
         plan' \in [Plans -> PlanRows], order' \in Seq(Plans), Len(order') <= MaxQueue,
         job' \in [at : {"idle", "check", "identity", "recheck", "section", "move", "leave"},
                   todo : SUBSET Cycles, wrote : BOOLEAN],
         cleaning' \subseteq Plans, trash' \in [Plans -> SUBSET Cycles], lateMoves' \subseteq Moves,
         \A p \in Plans : PlanIsSound(p)', QueueIsSound', JobIsSound', LateIsSound'
  PROVE  CleanupInv'
<1>1. TypeOK'
  <2>1. ForcingTypeOK'
    BY DEF CleanupInv, TypeOK, ForcingTypeOK, Provable
  <2> QED
    BY <2>1 DEF TypeOK, PlanRows
<1>2. \A o \in Ops : OpIsSound(o)'
  BY DEF CleanupInv, OpIsSound
<1>3. \A t \in Tasks : TaskIsSound(t)'
  BY DEF CleanupInv, TaskIsSound, Provable
<1>4. FilesAreSound'
  BY DEF CleanupInv, FilesAreSound
<1> QED
  BY <1>1, <1>2, <1>3, <1>4 DEF CleanupInv

LEMMA ProofsStand == CleanupInv => proofs \subseteq Provable
  BY DEF CleanupInv, TypeOK, ForcingTypeOK, TaskIsSound

\* A plan that is to be checked is in the queue, unless the queue is full:
\* its place there is its only one.
LEMMA AcceptIsSound ==
  ASSUME CleanupInv, NEW p \in Plans, NEW value \in PlanRows, Accept(p, value),
         plan[p].status \in {"none", "pending", "blocked"}, value.status = "checking", ~value.removed,
         value.kind # "cycle" => DOMAIN value.snap = value.paths
  PROVE  CleanupInv'
<1> DEFINE blocked == [value EXCEPT !.status = "blocked"]
<1>1. /\ blocked \in PlanRows /\ blocked.status = "blocked" /\ blocked.kind = value.kind
      /\ blocked.snap = value.snap /\ blocked.paths = value.paths /\ blocked.removed = value.removed
  BY DEF PlanRows
<1>2. plan' = [plan EXCEPT ![p] = IF Full(p) THEN blocked ELSE value]
  BY DEF Accept
<1> HIDE DEF blocked
<1>3. /\ plan' \in [Plans -> PlanRows] /\ plan'[p] = (IF Full(p) THEN blocked ELSE value)
      /\ \A q \in Plans \ {p} : plan'[q] = plan[q]
  BY <1>1, <1>2, CleanupTypes
<1>4. /\ UNCHANGED <<op, call, sweep, task, proofs, policy, guard, refs, legacy, there, inode, whole, late, slips,
                     reboots, job, cleaning, trash, lateMoves>>
  BY DEF Accept, forcingVars, database, threads, host, files, network
<1>5. ~Full(p) /\ ~Queued(p) => Len(order) < MaxQueue
  BY CleanupTypes DEF Full
<1>6. order' = (IF Full(p) \/ Queued(p) THEN order ELSE Append(order, p))
  BY DEF Accept, Submitted
<1>7. order' \in Seq(Plans) /\ Len(order') <= MaxQueue
  BY <1>5, <1>6, CleanupTypes
<1>8. /\ \A i \in 1..Len(order) : order[i] \in Plans
      /\ \A i, j \in 1..Len(order) : order[i] = order[j] => i = j
      /\ job.at # "idle" => order # <<>>
      /\ \A i \in 1..Len(order) : i > 1 \/ job.at \notin {"move", "leave"} => plan[order[i]].status = "checking"
  BY CleanupTypes DEF CleanupInv, QueueIsSound
<1>9. ~Full(p) \/ ~Queued(p)
  BY DEF Full
<1>10. order # <<>> => order'[1] = order[1]
  BY <1>6, CleanupTypes
\* An entry that is to be checked is the head, and the plan was not.
<1>11. ~Queued(p) \/ (order # <<>> /\ p = order[1] /\ job.at \in {"move", "leave"} /\ ~Full(p))
  BY <1>8, <1>9, CleanupTypes DEF Queued
<1>12. job.at = "move" => order # <<>> /\ p # order[1]
  BY <1>8, CleanupTypes DEF CleanupInv, JobIsSound
<1>13. job.at \in {"check", "identity", "recheck", "section"} => order # <<>> /\ p # order[1]
  BY <1>8, <1>11, CleanupTypes DEF Queued
<1>14. \A q \in Plans : PlanIsSound(q)'
  <2>1. PlanIsSound(p)'
    <3>1. PlanIsSound(p) /\ Unmoved(p)
      BY DEF CleanupInv, Unmoved
    <3> QED
      BY <1>1, <1>3, <1>4, <3>1 DEF PlanIsSound, Unmoved
  <2> QED
    BY <1>3, <1>4, <2>1 DEF CleanupInv, PlanIsSound, Unmoved
<1>15. QueueIsSound'
  <2>1. CASE Full(p)
    BY <1>3, <1>4, <1>6, <1>8, <1>9, <2>1, CleanupTypes DEF QueueIsSound, Queued
  <2>2. CASE ~Full(p) /\ Queued(p)
    BY <1>3, <1>4, <1>6, <1>8, <2>2, CleanupTypes DEF QueueIsSound
  <2>3. CASE ~Full(p) /\ ~Queued(p)
    <3>1. /\ Len(order') = Len(order) + 1 /\ order'[Len(order) + 1] = p
          /\ \A i \in 1..Len(order) : order'[i] = order[i] /\ order[i] # p
      BY <1>6, <2>3, CleanupTypes DEF Queued
    <3>2. \A i, j \in 1..Len(order') : order'[i] = order'[j] => i = j
      BY <1>8, <3>1, CleanupTypes
    <3>3. \A i \in 1..Len(order') : i > 1 \/ job'.at \notin {"move", "leave"} => plan'[order'[i]].status = "checking"
      BY <1>3, <1>4, <1>8, <2>3, <3>1, CleanupTypes
    <3> QED
      BY <1>7, <3>1, <3>2, <3>3, CleanupTypes DEF QueueIsSound
  <2> QED
    BY <2>1, <2>2, <2>3
<1>16. JobIsSound'
  <2>1. job.at \in {"section", "recheck", "move"} => plan'[order'[1]] = plan[order[1]] /\ order'[1] = order[1]
    <3>1. order # <<>> => order[1] \in Plans
      BY CleanupTypes
    <3> QED
      BY <1>3, <1>10, <1>12, <1>13, <3>1
  <2>2. Claims' = Claims
    BY <1>4 DEF Claims, Needs, Wants
  <2> QED
    BY <1>4, <2>1, <2>2 DEF CleanupInv, JobIsSound
<1>17. LateIsSound'
  <2>1. \A m \in lateMoves : slips = 0 => m.plan # p
    BY DEF CleanupInv, LateIsSound
  <2>2. \A m \in lateMoves : m.plan \in Plans
    BY CleanupTypes DEF Moves
  <2> QED
    BY <1>3, <1>4, <2>1, <2>2 DEF CleanupInv, LateIsSound
<1> QED
  BY <1>3, <1>4, <1>7, <1>14, <1>15, <1>16, <1>17, CleanupTypes, ProofsStand, PlansKeep

\* A plan that is neither being checked nor at its move changes.
LEMMA PlanBesideTheJob ==
  ASSUME CleanupInv, NEW p \in Plans, NEW value \in PlanRows, plan' = [plan EXCEPT ![p] = value],
         plan[p].status \notin {"checking", "unknown"}, job.at = "move" => p # order[1],
         UNCHANGED <<forcingVars, order, job, lateMoves>>, cleaning' \subseteq cleaning,
         trash' = trash \/ trash' = [trash EXCEPT ![p] = {}], PlanIsSound(p)'
  PROVE  CleanupInv'
<1>1. /\ UNCHANGED <<op, call, sweep, task, proofs, policy, guard, refs, legacy, there, inode, whole, late, slips,
                     reboots, order, job, lateMoves>>
  BY DEF forcingVars, database, threads, host, files, network
<1>2. plan' \in [Plans -> PlanRows] /\ \A q \in Plans \ {p} : plan'[q] = plan[q]
  BY CleanupTypes
<1>3. trash' \in [Plans -> SUBSET Cycles] /\ \A q \in Plans \ {p} : trash'[q] = trash[q]
  BY CleanupTypes
<1>4. ASSUME NEW q \in Plans PROVE PlanIsSound(q)'
  <2>1. PlanIsSound(q)
    BY DEF CleanupInv
  <2> QED
    BY <1>1, <1>2, <1>3, <2>1 DEF PlanIsSound, Unmoved
<1>5. \A i \in 1..Len(order) : order[i] \in Plans
  BY CleanupTypes
<1>6. QueueIsSound'
  BY <1>1, <1>2, <1>5 DEF CleanupInv, QueueIsSound
<1>7. JobIsSound'
  <2>1. job.at # "idle" => order # <<>> /\ 1 \in 1..Len(order)
    BY CleanupTypes DEF CleanupInv, QueueIsSound
  <2>2. job.at \in {"section", "recheck"} => plan[order[1]].status = "checking"
    BY <2>1 DEF CleanupInv, QueueIsSound
  <2>3. job.at \in {"section", "recheck", "move"} => plan'[order[1]] = plan[order[1]] /\ trash'[order[1]] = trash[order[1]]
    BY <1>2, <1>3, <1>5, <2>1, <2>2
  <2>4. Claims' = Claims
    BY <1>1 DEF Claims, Needs, Wants
  <2> QED
    BY <1>1, <2>3, <2>4 DEF CleanupInv, JobIsSound
<1>8. LateIsSound'
  <2>1. \A m \in lateMoves : m.plan \in Plans
    BY CleanupTypes DEF Moves
  <2> QED
    BY <1>1, <1>2, <2>1 DEF CleanupInv, LateIsSound
<1> QED
  BY <1>1, <1>2, <1>3, <1>4, <1>6, <1>7, <1>8, CleanupTypes, ProofsStand, PlansKeep

LEMMA NoPlanIsRow == NoPlan \in PlanRows /\ NoPlan.snap = <<>>
<1>1. NoPlan.snap = <<>>
  BY DEF NoPlan
<1>2. <<>> \in Snapshots
  <2>1. <<>> \in [{} -> 1..MaxInodes]
    OBVIOUS
  <2> QED
    BY <2>1 DEF Snapshots
<1>3. 0 \in 0..MaxPatches
  BY ForcingAssumption
<1> QED
  BY <1>1, <1>2, <1>3 DEF NoPlan, PlanRows

\* What is read of directories that are there is a snapshot of them.
LEMMA SnapshotIsTaken ==
  ASSUME CleanupInv, NEW paths \in SUBSET there
  PROVE  [c \in paths |-> inode[c]] \in Snapshots
<1>1. paths \in SUBSET Cycles /\ MaxInodes \in Nat /\ \A c \in paths : inode[c] \in 1..MaxInodes
  <2>1. MaxInodes \in Nat
    BY ForcingAssumption
  <2>2. \A c \in paths : c \in Cycles /\ inode[c] \in 0..MaxInodes /\ inode[c] # 0
    BY TaskTypes DEF FilesAreSound
  <2> QED
    BY <2>1, <2>2
<1>2. [c \in paths |-> inode[c]] \in [paths -> 1..MaxInodes]
  BY <1>1
<1> QED
  BY <1>1, <1>2 DEF Snapshots

LEMMA RequestIsSound ==
  ASSUME CleanupInv, NEW c \in Cycles, NEW a \in Actors, DeleteCycle(c, a) \/ RetryCycle(c, a)
  PROVE  CleanupInv'
<1>1. CASE DeleteCycle(c, a)
  <2> DEFINE value == [NoPlan EXCEPT !.kind = "cycle", !.actor = a, !.paths = {c}, !.status = "checking"]
  <2>1. PICK p \in Plans : plan[p] = NoPlan /\ Accept(p, value)
    BY <1>1 DEF DeleteCycle, Fresh
  <2>2. value \in PlanRows /\ value.status = "checking" /\ value.kind = "cycle" /\ ~value.removed
    BY NoPlanIsRow DEF PlanRows, NoPlan
  <2>3. NoPlan.status = "none"
    BY DEF NoPlan
  <2> HIDE DEF value
  <2> QED
    BY <2>1, <2>2, <2>3, AcceptIsSound
<1>2. CASE RetryCycle(c, a)
  <2>1. Standing(c, a) # {} /\ Standing(c, a) \in SUBSET Nat /\ IsFiniteSet(Standing(c, a))
    BY <1>2, CleanupAssumption, FS_Subset DEF RetryCycle, Standing
  <2>2. PICK p \in Plans : p = Newest(Standing(c, a)) /\ p \in Standing(c, a)
    BY <2>1, NewestIsLast DEF Standing
  <2> DEFINE value == [plan[p] EXCEPT !.status = "checking", !.retry = FALSE]
  <2>3. plan[p].status = "blocked" /\ Accept(p, value)
    BY <1>2, <2>2 DEF RetryCycle, Retriable
  <2>4. plan[p] \in PlanRows /\ PlanIsSound(p)
    BY CleanupTypes DEF CleanupInv
  <2>5. ~plan[p].removed /\ (plan[p].kind # "cycle" => DOMAIN plan[p].snap = plan[p].paths)
    BY <2>3, <2>4 DEF PlanIsSound
  <2>6. /\ value \in PlanRows /\ value.status = "checking" /\ value.removed = plan[p].removed
        /\ value.kind = plan[p].kind /\ value.snap = plan[p].snap /\ value.paths = plan[p].paths
    BY <2>4 DEF PlanRows
  <2> HIDE DEF value
  <2> QED
    BY <2>3, <2>5, <2>6, AcceptIsSound
<1> QED
  BY <1>1, <1>2

LEMMA PlanningIsSound ==
  ASSUME CleanupInv, (\E a \in Actors : MakePlan(a)) \/ (\E p \in Plans : ExecutePlan(p))
  PROVE  CleanupInv'
<1>1. ASSUME NEW a \in Actors, MakePlan(a) PROVE CleanupInv'
  <2> DEFINE snap == [c \in Allowed(LetGo) |-> inode[c]]
             value == [NoPlan EXCEPT !.kind = "batch", !.actor = a, !.paths = Allowed(LetGo), !.status = "pending",
                                     !.snap = snap, !.version = policy.version]
  <2>1. PICK p \in Plans : /\ plan[p] = NoPlan /\ plan' = [plan EXCEPT ![p] = value]
                           /\ UNCHANGED <<forcingVars, order, job, cleaning, trash, lateMoves>>
    BY <1>1 DEF MakePlan, Fresh
  <2>2. Allowed(LetGo) \in SUBSET there /\ Allowed(LetGo) \in SUBSET Cycles /\ snap \in Snapshots
        /\ DOMAIN snap = Allowed(LetGo) /\ policy.version \in 0..MaxPatches
    <3>1. Allowed(LetGo) \in SUBSET there
      BY DEF Allowed
    <3>2. policy.version \in 0..MaxPatches
      BY CleanupTypes DEF ForcingTypeOK
    <3> QED
      BY <3>1, <3>2, SnapshotIsTaken, TaskTypes
  <2> HIDE DEF snap
  <2>3. /\ value \in PlanRows /\ value.kind = "batch" /\ value.paths = Allowed(LetGo) /\ value.status = "pending"
        /\ value.snap = snap /\ ~value.removed
    BY <2>2, NoPlanIsRow DEF PlanRows, NoPlan
  <2> HIDE DEF value
  <2>4. NoPlan.status = "none" /\ ~NoPlan.removed
    BY DEF NoPlan
  <2>5. plan'[p] = value
    BY <2>1, CleanupTypes
  <2>6. PlanIsSound(p)'
    <3>1. PlanIsSound(p) /\ plan[p].status = "none" /\ ~plan[p].removed
      BY <2>1, <2>4 DEF CleanupInv
    <3>2. UNCHANGED <<cleaning, trash, slips>>
      BY <2>1 DEF forcingVars, network
    <3> QED
      BY <2>2, <2>3, <2>5, <3>1, <3>2 DEF PlanIsSound, Unmoved
  <2>7. job.at = "move" => p # order[1]
    BY <2>1, <2>4 DEF CleanupInv, JobIsSound
  <2> QED
    BY <2>1, <2>3, <2>4, <2>6, <2>7, PlanBesideTheJob
<1>2. ASSUME NEW p \in Plans, ExecutePlan(p) PROVE CleanupInv'
  <2> DEFINE value == [plan[p] EXCEPT !.status = "checking"]
  <2>1. plan[p].status = "pending" /\ Accept(p, value)
    BY <1>2 DEF ExecutePlan
  <2>2. plan[p] \in PlanRows /\ PlanIsSound(p)
    BY CleanupTypes DEF CleanupInv
  <2>3. ~plan[p].removed /\ (plan[p].kind # "cycle" => DOMAIN plan[p].snap = plan[p].paths)
    BY <2>1, <2>2 DEF PlanIsSound
  <2>4. /\ value \in PlanRows /\ value.status = "checking" /\ value.removed = plan[p].removed
        /\ value.kind = plan[p].kind /\ value.snap = plan[p].snap /\ value.paths = plan[p].paths
    BY <2>2 DEF PlanRows
  <2> HIDE DEF value
  <2> QED
    BY <2>1, <2>3, <2>4, AcceptIsSound
<1> QED
  BY <1>1, <1>2

\* The second worker: a removed cycle's quarantine is emptied, or in doubt.
LEMMA PurgeIsSound ==
  ASSUME CleanupInv, NEW p \in Plans, Purge(p)
  PROVE  CleanupInv'
<1>1. PlanIsSound(p) /\ p \in cleaning /\ plan[p] \in PlanRows
  BY CleanupTypes DEF CleanupInv, Purge
<1>2. plan[p].removed /\ plan[p].status = "executing"
  BY <1>1 DEF PlanIsSound
<1>3. job.at = "move" => p # order[1]
  BY <1>2 DEF CleanupInv, JobIsSound
<1>4. PICK s \in {"complete", "unknown"} : plan' = [plan EXCEPT ![p].status = s]
  BY DEF Purge, Status
<1> DEFINE value == [plan[p] EXCEPT !.status = s]
<1>5. /\ value \in PlanRows /\ value.status = s /\ value.kind = plan[p].kind /\ value.snap = plan[p].snap
      /\ value.paths = plan[p].paths /\ value.removed = plan[p].removed
  BY <1>1 DEF PlanRows
<1>6. plan' = [plan EXCEPT ![p] = value]
  BY <1>4
<1> HIDE DEF value
<1>7. /\ UNCHANGED <<forcingVars, order, job, lateMoves>> /\ cleaning' = cleaning \ {p}
      /\ trash' = trash \/ trash' = [trash EXCEPT ![p] = {}]
  BY DEF Purge
<1>8. plan'[p] = value
  BY <1>6, CleanupTypes
<1>9. PlanIsSound(p)'
  BY <1>1, <1>2, <1>5, <1>7, <1>8 DEF PlanIsSound, Unmoved
<1> QED
  BY <1>2, <1>3, <1>5, <1>6, <1>7, <1>9, PlanBesideTheJob

-----------------------------------------------------------------------------
(* The job, from its place at the head of the queue to the move.           *)

LEMMA HeadIsFirst ==
  ASSUME CleanupInv, order # <<>>
  PROVE  /\ p0 \in Plans /\ p0 = order[1] /\ 1 \in 1..Len(order) /\ Len(order) \in Nat
         /\ \A i \in 1..Len(order) : order[i] \in Plans /\ (i > 1 => order[i] # p0)
         /\ plan[p0] \in PlanRows /\ PlanIsSound(p0)
         /\ job.at \notin {"move", "leave"} => plan[p0].status = "checking" /\ ~plan[p0].removed
<1>1. /\ p0 \in Plans /\ p0 = order[1] /\ 1 \in 1..Len(order) /\ Len(order) \in Nat
      /\ \A i \in 1..Len(order) : order[i] \in Plans
  BY CleanupTypes DEF p0
<1>2. plan[p0] \in PlanRows /\ PlanIsSound(p0) /\ QueueIsSound
  BY <1>1, CleanupTypes DEF CleanupInv
<1>3. \A i \in 1..Len(order) : i > 1 => order[i] # p0
  BY <1>1, <1>2 DEF QueueIsSound
<1>4. job.at \notin {"move", "leave"} => plan[p0].status = "checking"
  BY <1>1, <1>2 DEF QueueIsSound
<1>5. job.at \notin {"move", "leave"} => ~plan[p0].removed
  BY <1>2, <1>4 DEF PlanIsSound
<1> QED
  BY <1>1, <1>2, <1>3, <1>4, <1>5

\* Before the move: what the job writes about its plan, and where it goes.
LEMMA HeadGoesOn ==
  ASSUME CleanupInv, order # <<>>, job.at \notin {"move", "leave"}, NEW value \in PlanRows,
         UNCHANGED <<op, call, sweep, task, policy, host, network, reboots, order, cleaning, trash, lateMoves>>,
         proofs' \subseteq Provable, plan' = [plan EXCEPT ![p0] = value],
         guard' \in {None, "cleanup"}, guard' = "cleanup" <=> job'.at = "move",
         job' \in [at : {"check", "identity", "recheck", "section", "move", "leave"},
                   todo : SUBSET Cycles, wrote : BOOLEAN],
         value.status \in {"checking", "blocked", "executing"}, ~value.removed,
         value.kind # "cycle" \/ job'.at \in {"section", "recheck", "move"} => DOMAIN value.snap = value.paths,
         job'.at \notin {"move", "leave"} => value.status = "checking",
         job'.at = "move" => value.status = "executing" /\ job'.todo = value.paths /\ \A c \in job'.todo : c \notin Claims
  PROVE  CleanupInv'
<1>1. /\ UNCHANGED <<op, call, sweep, task, policy, refs, legacy, there, inode, whole, late, slips, reboots>>
  BY DEF host, files, network
<1>2. plan' \in [Plans -> PlanRows] /\ plan'[p0] = value /\ \A q \in Plans \ {p0} : plan'[q] = plan[q]
  BY HeadIsFirst, CleanupTypes
<1>3. trash[p0] = {} \/ slips # 0
  BY HeadIsFirst DEF PlanIsSound, Unmoved
<1>4. ASSUME NEW q \in Plans PROVE PlanIsSound(q)'
  <2>1. CASE q = p0
    <3>1. p0 \notin cleaning
      BY HeadIsFirst DEF PlanIsSound
    <3> QED
      BY <1>1, <1>2, <1>3, <2>1, <3>1 DEF PlanIsSound
  <2>2. CASE q # p0
    BY <1>1, <1>2, <2>2 DEF CleanupInv, PlanIsSound, Unmoved
  <2> QED
    BY <2>1, <2>2
<1>5. QueueIsSound'
  <2>1. ASSUME NEW i \in 1..Len(order), i > 1 \/ job'.at \notin {"move", "leave"}
        PROVE  plan'[order[i]].status = "checking"
    <3>1. CASE i = 1
      BY <1>2, <2>1, <3>1, HeadIsFirst
    <3>2. CASE i # 1
      <4>1. i > 1 /\ order[i] \in Plans \ {p0}
        BY <3>2, HeadIsFirst
      <4> QED
        BY <1>2, <4>1 DEF CleanupInv, QueueIsSound
    <3> QED
      BY <3>1, <3>2
  <2> QED
    BY <2>1 DEF CleanupInv, QueueIsSound
<1>6. JobIsSound'
  <2>1. Claims' = Claims
    BY <1>1 DEF Claims, Needs, Wants
  <2> QED
    BY <1>1, <1>2, <1>3, <2>1, HeadIsFirst DEF JobIsSound
<1>7. LateIsSound'
  <2>1. \A m \in lateMoves : m.plan \in Plans /\ (slips = 0 => m.plan # p0)
    BY HeadIsFirst, CleanupTypes DEF Moves, CleanupInv, LateIsSound
  <2> QED
    BY <1>1, <1>2, <2>1 DEF CleanupInv, LateIsSound
<1>8. job' \in [at : {"idle", "check", "identity", "recheck", "section", "move", "leave"},
                todo : SUBSET Cycles, wrote : BOOLEAN]
  OBVIOUS
<1> QED
  BY <1>1, <1>2, <1>4, <1>5, <1>6, <1>7, <1>8, CleanupTypes, PlansKeep

LEMMA JobGoes ==
  ASSUME CleanupInv, NEW place \in {"check", "identity", "recheck", "section", "move", "leave"}, Go(place)
  PROVE  job' \in ActiveJobs /\ job'.at = place
  BY CleanupTypes DEF Go, ActiveJobs

LEMMA JobLooks ==
  ASSUME CleanupInv, JobStarts \/ JobFailsEarly \/ JobChecks \/ JobIdentifies
  PROVE  CleanupInv'
<1>1. order # <<>> /\ job.at \notin {"move", "leave"} /\ Quiet
  BY DEF JobStarts, JobFailsEarly, JobChecks, JobIdentifies, At
<1>2. UNCHANGED <<op, call, sweep, task, policy, host, network, reboots, order, cleaning, trash, lateMoves>>
  BY <1>1 DEF Quiet
<1>3. guard = None /\ guard' = guard
  BY <1>1, CleanupTypes DEF JobStarts, JobFailsEarly, JobChecks, JobIdentifies
<1>4. /\ p0 \in Plans /\ plan[p0] \in PlanRows /\ plan[p0].status = "checking" /\ ~plan[p0].removed /\ PlanIsSound(p0)
      /\ plan = [plan EXCEPT ![p0] = plan[p0]]
  BY <1>1, HeadIsFirst, CleanupTypes
<1>5. CASE JobStarts
  <2>1. plan' = plan /\ proofs' \subseteq Provable
    BY <1>5, ProofsStand DEF JobStarts
  <2>2. /\ job' \in ActiveJobs /\ job'.at \in {"check", "section"}
        /\ job'.at = "section" => DOMAIN plan[p0].snap = plan[p0].paths
    BY <1>4, <1>5, JobGoes DEF JobStarts, PlanIsSound
  <2> QED
    BY <1>1, <1>2, <1>3, <1>4, <2>1, <2>2, CleanupTypes, HeadGoesOn DEF ActiveJobs, PlanIsSound
<1>6. CASE JobFailsEarly
  <2> DEFINE value == [plan[p0] EXCEPT !.status = "blocked"]
  <2>1. plan' = [plan EXCEPT ![p0] = value] /\ proofs' \subseteq Provable
    BY <1>6, ProofsStand DEF JobFailsEarly, GivesUp, Status
  <2>2. /\ value \in PlanRows /\ value.status = "blocked" /\ ~value.removed /\ value.kind = plan[p0].kind
        /\ value.snap = plan[p0].snap /\ value.paths = plan[p0].paths
    BY <1>4 DEF PlanRows
  <2>3. job' \in ActiveJobs /\ job'.at = "leave"
    BY <1>6, JobGoes DEF JobFailsEarly, GivesUp
  <2> HIDE DEF value
  <2> QED
    BY <1>1, <1>2, <1>3, <1>4, <2>1, <2>2, <2>3, CleanupTypes, HeadGoesOn DEF ActiveJobs, PlanIsSound
<1>7. CASE JobChecks
  <2>1. plan' = plan /\ proofs' \subseteq Provable /\ job' \in ActiveJobs /\ job'.at = "identity"
    BY <1>7, JobGoes DEF JobChecks
  <2> QED
    BY <1>1, <1>2, <1>3, <1>4, <2>1, CleanupTypes, HeadGoesOn DEF ActiveJobs, PlanIsSound
<1>8. CASE JobIdentifies
  <2> DEFINE snap == [c \in plan[p0].paths |-> inode[c]]
             value == [plan[p0] EXCEPT !.snap = snap]
  <2>1. plan[p0].paths \subseteq there /\ snap \in Snapshots /\ DOMAIN snap = plan[p0].paths
    BY <1>8, SnapshotIsTaken DEF JobIdentifies
  <2>2. plan' = [plan EXCEPT ![p0] = value] /\ proofs' \subseteq Provable
    BY <1>8, ProofsStand DEF JobIdentifies
  <2> HIDE DEF snap
  <2>3. /\ value \in PlanRows /\ value.status = "checking" /\ ~value.removed /\ value.kind = plan[p0].kind
        /\ value.snap = snap /\ value.paths = plan[p0].paths
    BY <1>4, <2>1 DEF PlanRows
  <2>4. job' \in ActiveJobs /\ job'.at = "recheck"
    BY <1>8, JobGoes DEF JobIdentifies
  <2> HIDE DEF value
  <2> QED
    BY <1>1, <1>2, <1>3, <2>1, <2>2, <2>3, <2>4, CleanupTypes, HeadGoesOn DEF ActiveJobs
<1> QED
  BY <1>5, <1>6, <1>7, <1>8

\* What the look under the guard allows nobody claims: a task without a
\* cycle claims none yet, and a task let go has no process.
LEMMA AllowedIsUnclaimed ==
  ASSUME CleanupInv, NEW released \in SUBSET Provable, NEW c \in Allowed(released)
  PROVE  c \notin Claims
<1>1. c \in Cycles /\ c \notin Latest /\ c \notin policy.held /\ c \notin TaskCycles(released) /\ c \notin DownloadCycles
  BY TaskTypes DEF Allowed
<1>2. \A o \in Ops : Wants(o) => CycleOf[o] # c
  BY <1>1 DEF Wants, DownloadCycles, Protecting
<1>3. ASSUME NEW t \in Tasks, Needs(t), task[t].cycle = c PROVE FALSE
  <2>1. TaskIsSound(t) /\ task[t].cycle # None
    BY <1>1, <1>3, TaskTypes DEF CleanupInv
  <2>2. t \notin released
    BY <1>3 DEF Provable, Needs
  <2>3. task[t].status # "done"
    BY <1>3, <2>1 DEF TaskIsSound, Needs
  <2> QED
    BY <1>1, <1>3, <2>1, <2>2, <2>3 DEF TaskCycles, Refers
<1> QED
  BY <1>1, <1>2, <1>3 DEF Claims

LEMMA JobExecutes ==
  ASSUME CleanupInv, JobRechecks \/ JobEntersSection
  PROVE  CleanupInv'
<1>1. order # <<>> /\ job.at \in {"recheck", "section"} /\ Quiet
  BY DEF JobRechecks, JobEntersSection, At, Execute
<1>2. UNCHANGED <<op, call, sweep, task, policy, host, network, reboots, order, cleaning, trash, lateMoves>>
  BY <1>1 DEF Quiet
<1>3. guard' = "cleanup"
  BY DEF JobRechecks, JobEntersSection, Execute
<1>4. /\ p0 \in Plans /\ plan[p0] \in PlanRows /\ ~plan[p0].removed /\ PlanIsSound(p0) /\ p0 = order[1]
  BY <1>1, HeadIsFirst
<1>5. PICK released \in SUBSET Provable : plan[p0].paths \subseteq Allowed(released)
  <2>1. LetGo \subseteq Provable
    BY ProofsStand DEF LetGo
  <2> QED
    BY <2>1 DEF JobRechecks, JobEntersSection
<1>6. proofs' \subseteq Provable
  BY ProofsStand DEF JobRechecks, JobEntersSection
<1> DEFINE value == [plan[p0] EXCEPT !.status = "executing"]
<1>7. plan' = [plan EXCEPT ![p0] = value] /\ job' = [at |-> "move", todo |-> plan[p0].paths, wrote |-> FALSE]
  BY DEF JobRechecks, JobEntersSection, Execute, Status
<1>8. /\ value \in PlanRows /\ value.status = "executing" /\ ~value.removed /\ value.kind = plan[p0].kind
      /\ value.snap = plan[p0].snap /\ value.paths = plan[p0].paths /\ value.paths \in SUBSET Cycles
  BY <1>4 DEF PlanRows
<1> HIDE DEF value
<1>9. DOMAIN value.snap = value.paths
  BY <1>1, <1>4, <1>8 DEF CleanupInv, JobIsSound
<1>10. \A c \in value.paths : c \notin Claims
  BY <1>5, <1>8, AllowedIsUnclaimed
<1>11. job' \in ActiveJobs /\ job'.at = "move" /\ job'.todo = value.paths
  BY <1>7, <1>8 DEF ActiveJobs
<1> QED
  BY <1>1, <1>2, <1>3, <1>6, <1>7, <1>8, <1>9, <1>10, <1>11, HeadGoesOn DEF ActiveJobs

-----------------------------------------------------------------------------
(* The moves, and what arrives late.                                       *)

\* A step that moves directories away, or leaves a move on its way.
LEMMA MovesKeep ==
  ASSUME CleanupInv, UNCHANGED <<op, call, sweep, task, proofs, policy, refs, legacy, inode, late, reboots>>,
         there' \subseteq there, whole' \subseteq there', slips' \in 0..MaxLate, slips' = 0 => slips = 0,
         guard' \in {None, "cleanup"}, guard' = "cleanup" <=> job'.at = "move",
         plan' \in [Plans -> PlanRows], order' \in Seq(Plans), Len(order') <= MaxQueue,
         job' \in [at : {"idle", "check", "identity", "recheck", "section", "move", "leave"},
                   todo : SUBSET Cycles, wrote : BOOLEAN],
         cleaning' \subseteq Plans, trash' \in [Plans -> SUBSET Cycles], lateMoves' \subseteq Moves,
         \A p \in Plans : PlanIsSound(p)', QueueIsSound', JobIsSound', LateIsSound'
  PROVE  CleanupInv'
<1>1. TypeOK'
  <2>1. ForcingTypeOK'
    BY TaskTypes DEF CleanupInv, TypeOK, ForcingTypeOK
  <2> QED
    BY <2>1 DEF TypeOK, PlanRows
<1>2. \A o \in Ops : OpIsSound(o)'
  BY DEF CleanupInv, OpIsSound
<1>3. \A t \in Tasks : TaskIsSound(t)'
  BY DEF CleanupInv, TaskIsSound, Provable
<1>4. FilesAreSound'
  BY TaskTypes DEF FilesAreSound
<1> QED
  BY <1>1, <1>2, <1>3, <1>4 DEF CleanupInv

\* Where a move leaves things: the directory is in the quarantine of the plan.
LEMMA MovedAway ==
  ASSUME CleanupInv, NEW p \in Plans, NEW c \in Cycles, NEW i, MoveAway(p, c, i)
  PROVE  /\ UNCHANGED <<inode, refs, legacy>> /\ there' = there \ {c} /\ there' \subseteq there /\ whole' \subseteq there'
         /\ trash' \in [Plans -> SUBSET Cycles] /\ \A q \in Plans \ {p} : trash'[q] = trash[q]
<1>1. trash' = [trash EXCEPT ![p] = @ \cup {c}] /\ trash \in [Plans -> SUBSET Cycles]
  BY CleanupTypes DEF MoveAway
<1>2. trash[p] \cup {c} \in SUBSET Cycles
  BY <1>1
<1> QED
  BY <1>1, <1>2, TaskTypes DEF MoveAway

\* While the job is at its move, the plan at the head is the one that changes.
LEMMA MoveGoesOn ==
  ASSUME CleanupInv, At("move"), NEW value \in PlanRows,
         UNCHANGED <<op, call, sweep, task, proofs, policy, refs, legacy, inode, late, reboots, order>>,
         there' \subseteq there, whole' \subseteq there', slips' \in 0..MaxLate, slips' = 0 => slips = 0,
         trash' \in [Plans -> SUBSET Cycles], \A q \in Plans \ {p0} : trash'[q] = trash[q],
         guard' \in {None, "cleanup"}, guard' = "cleanup" <=> job'.at = "move",
         plan' = [plan EXCEPT ![p0] = value], job' \in ActiveJobs, job'.at \in {"move", "leave"},
         cleaning' \in {cleaning, cleaning \cup {p0}},
         lateMoves' \subseteq Moves, slips' = 0 => lateMoves' = lateMoves,
         \A q \in {p0} : PlanIsSound(q)', job'.at = "move" => JobIsSound'
  PROVE  CleanupInv'
<1>1. order # <<>> /\ job.at = "move"
  BY DEF At
<1>2. p0 \in Plans /\ plan[p0].status = "executing"
  BY <1>1, HeadIsFirst DEF CleanupInv, JobIsSound
<1>3. plan' \in [Plans -> PlanRows] /\ plan'[p0] = value /\ \A q \in Plans \ {p0} : plan'[q] = plan[q]
  BY <1>2, CleanupTypes
<1>4. \A q \in Plans : PlanIsSound(q)'
  <2>1. ASSUME NEW q \in Plans \ {p0} PROVE PlanIsSound(q)'
    <3>1. PlanIsSound(q) /\ trash'[q] = trash[q] /\ plan'[q] = plan[q] /\ (q \in cleaning' => q \in cleaning)
      BY <1>3 DEF CleanupInv
    <3> QED
      BY <3>1 DEF PlanIsSound, Unmoved
  <2> QED
    BY <2>1
<1>5. QueueIsSound'
  <2>1. \A i \in 1..Len(order) : i > 1 => plan'[order[i]].status = "checking"
    BY <1>1, <1>3, HeadIsFirst DEF CleanupInv, QueueIsSound
  <2>2. \A i \in 1..Len(order) : i > 1 \/ job'.at \notin {"move", "leave"} => plan'[order[i]].status = "checking"
    BY <2>1
  <2> QED
    BY <1>1, <2>2 DEF CleanupInv, QueueIsSound
<1>6. JobIsSound'
  BY DEF JobIsSound
<1>7. LateIsSound'
  <2>1. ASSUME NEW m \in lateMoves', slips' = 0 PROVE plan'[m.plan].status = "unknown"
    <3>1. m \in lateMoves /\ slips = 0 /\ m.plan \in Plans
      BY <2>1 DEF Moves
    <3>2. plan[m.plan].status = "unknown"
      BY <3>1 DEF CleanupInv, LateIsSound
    <3> QED
      BY <1>2, <1>3, <3>1, <3>2
  <2> QED
    BY <2>1 DEF CleanupInv, LateIsSound
<1>8. job' \in [at : {"idle", "check", "identity", "recheck", "section", "move", "leave"},
                todo : SUBSET Cycles, wrote : BOOLEAN]
  BY DEF ActiveJobs
<1>9. cleaning' \subseteq Plans
  BY <1>2, CleanupTypes
<1> QED
  BY <1>3, <1>4, <1>5, <1>6, <1>7, <1>8, <1>9, CleanupTypes, MovesKeep

LEMMA AtTheMove ==
  ASSUME CleanupInv, At("move")
  PROVE  /\ order # <<>> /\ p0 \in Plans /\ p0 = order[1] /\ plan[p0] \in PlanRows /\ PlanIsSound(p0) /\ job.at = "move"
         /\ plan[p0].status = "executing" /\ ~plan[p0].removed /\ p0 \notin cleaning
         /\ DOMAIN plan[p0].snap = plan[p0].paths /\ job.todo \subseteq plan[p0].paths /\ job.todo \subseteq Cycles
         /\ (\A c \in job.todo : c \notin Claims) /\ (~job.wrote /\ slips = 0 => trash[p0] = {})
<1>1. order # <<>> /\ job.at = "move"
  BY DEF At
<1>2. p0 \in Plans /\ p0 = order[1] /\ plan[p0] \in PlanRows /\ PlanIsSound(p0) /\ job.todo \subseteq Cycles
  BY <1>1, HeadIsFirst, CleanupTypes
<1>3. plan[p0].status = "executing" /\ ~plan[p0].removed
  BY <1>1, <1>2 DEF CleanupInv, JobIsSound
<1>4. p0 \notin cleaning
  BY <1>3, <1>2 DEF PlanIsSound
<1> QED
  BY <1>1, <1>2, <1>3, <1>4 DEF CleanupInv, JobIsSound

LEMMA MoveIsSound ==
  ASSUME CleanupInv, NEW c \in Cycles, JobMoves(c)
  PROVE  CleanupInv'
<1>1. At("move") /\ c \in job.todo /\ MoveAway(p0, c, plan[p0].snap[c]) /\ Elsewhere /\ UNCHANGED <<lateMoves, network>>
  BY DEF JobMoves
<1>2. UNCHANGED <<op, call, sweep, task, proofs, policy, refs, legacy, inode, late, slips, reboots, order, lateMoves>>
  BY <1>1 DEF Elsewhere, MoveAway, network
<1>3. /\ there' \subseteq there /\ whole' \subseteq there'
      /\ trash' \in [Plans -> SUBSET Cycles] /\ \A q \in Plans \ {p0} : trash'[q] = trash[q]
  BY <1>1, AtTheMove, MovedAway
<1>4. Claims' = Claims
  BY <1>2 DEF Claims, Needs, Wants
<1>5. CASE job.todo = {c}
  <2> DEFINE value == [plan[p0] EXCEPT !.removed = TRUE]
  <2>1. plan' = [plan EXCEPT ![p0] = value]
    BY <1>5 DEF JobMoves
  <2>2. /\ value \in PlanRows /\ value.removed /\ value.status = "executing" /\ value.kind = plan[p0].kind
        /\ value.snap = plan[p0].snap /\ value.paths = plan[p0].paths
    BY <1>1, AtTheMove DEF PlanRows
  <2>3. job' \in ActiveJobs /\ job'.at = "leave" /\ guard' = None /\ cleaning' = cleaning \cup {p0}
    BY <1>5 DEF JobMoves, NoJob, ActiveJobs
  <2> HIDE DEF value
  <2>4. plan'[p0] = value
    BY <1>1, <2>1, AtTheMove, CleanupTypes
  <2>5. \A q \in {p0} : PlanIsSound(q)'
    BY <1>1, <1>2, <2>2, <2>4, AtTheMove DEF PlanIsSound, Unmoved
  <2> QED
    BY <1>1, <1>2, <1>3, <2>1, <2>2, <2>3, <2>5, OpTypes, CleanupTypes, MoveGoesOn
<1>6. CASE job.todo # {c}
  <2>1. plan' = plan /\ cleaning' = cleaning /\ guard' = guard /\ job' = [job EXCEPT !.todo = @ \ {c}, !.wrote = TRUE]
    BY <1>6 DEF JobMoves
  <2>2. job' \in ActiveJobs /\ job'.at = "move" /\ job'.todo \subseteq job.todo /\ job'.wrote
    BY <1>1, <2>1, AtTheMove, CleanupTypes DEF ActiveJobs
  <2>3. plan' = [plan EXCEPT ![p0] = plan[p0]]
    BY <1>1, <2>1, AtTheMove, CleanupTypes
  <2>4. \A q \in {p0} : PlanIsSound(q)'
    BY <1>1, <1>2, <2>1, AtTheMove DEF PlanIsSound, Unmoved
  <2>5. JobIsSound'
    BY <1>1, <1>2, <1>4, <2>1, <2>2, AtTheMove DEF JobIsSound
  <2>6. guard' = "cleanup"
    BY <1>1, <2>1, AtTheMove, CleanupTypes
  <2> QED
    BY <1>1, <1>2, <1>3, <2>1, <2>2, <2>3, <2>4, <2>5, <2>6, OpTypes, CleanupTypes, AtTheMove, MoveGoesOn
<1> QED
  BY <1>5, <1>6

\* A move that ends the job without success: its plan is blocked only if
\* none of its directories has been moved.
LEMMA EndIsSound ==
  ASSUME CleanupInv, At("move"), NEW refused \in BOOLEAN, JobEnds(refused),
         UNCHANGED <<refs, legacy, inode, late>>,
         there' \subseteq there, whole' \subseteq there', slips' \in 0..MaxLate, slips' = 0 => slips = 0,
         trash' \in [Plans -> SUBSET Cycles], \A q \in Plans \ {p0} : trash'[q] = trash[q],
         refused => UNCHANGED trash, lateMoves' \subseteq Moves, slips' = 0 => lateMoves' = lateMoves
  PROVE  CleanupInv'
<1>1. UNCHANGED <<op, task, proofs, policy, call, sweep, reboots, order, cleaning>>
  BY DEF JobEnds, Elsewhere
<1> DEFINE once == [plan EXCEPT ![p0].status = Verdict(refused)]
           row == [plan[p0] EXCEPT !.status = Verdict(refused)]
           value == [row EXCEPT !.retry = refused /\ plan[p0].kind = "cycle"]
<1>2. Verdict(refused) \in {"blocked", "unknown"} /\ (Verdict(refused) = "blocked" => refused /\ ~job.wrote)
  BY DEF Verdict
<1>3. /\ row \in PlanRows /\ row.status = Verdict(refused) /\ row.removed = plan[p0].removed
      /\ row.kind = plan[p0].kind /\ row.snap = plan[p0].snap /\ row.paths = plan[p0].paths
  BY <1>2, AtTheMove DEF PlanRows
<1>4. plan' = [once EXCEPT ![p0].retry = refused /\ plan[p0].kind = "cycle"]
  BY DEF JobEnds
<1>5. once = [plan EXCEPT ![p0] = row]
  OBVIOUS
<1>6. once \in [Plans -> PlanRows] /\ once[p0] = row
  <2> HIDE DEF row, once
  <2> QED
    BY <1>3, <1>5, AtTheMove, CleanupTypes
<1>7. plan' = [once EXCEPT ![p0] = value]
  <2> HIDE DEF row, once
  <2> QED
    BY <1>4, <1>6
<1>8. plan' = [plan EXCEPT ![p0] = value]
  <2> HIDE DEF row, value
  <2> QED
    BY <1>5, <1>7, AtTheMove, CleanupTypes
<1>9. /\ value \in PlanRows /\ value.status = Verdict(refused) /\ ~value.removed
      /\ value.kind = plan[p0].kind /\ value.snap = plan[p0].snap /\ value.paths = plan[p0].paths
  <2> HIDE DEF row
  <2> QED
    BY <1>3, AtTheMove DEF PlanRows
<1> HIDE DEF value, row, once
<1>10. plan'[p0] = value
  BY <1>8, AtTheMove, CleanupTypes
<1>11. \A q \in {p0} : PlanIsSound(q)'
  BY <1>1, <1>2, <1>9, <1>10, AtTheMove DEF PlanIsSound, Unmoved
<1>12. job' \in ActiveJobs /\ job'.at = "leave" /\ guard' = None
  BY DEF JobEnds, NoJob, ActiveJobs
<1> QED
  BY <1>1, <1>8, <1>9, <1>11, <1>12, CleanupTypes, MoveGoesOn

LEMMA FailureIsSound ==
  ASSUME CleanupInv, MoveRefused \/ \E c \in Cycles : MoveInDoubt(c)
  PROVE  CleanupInv'
<1> USE DEF network, host, files
<1>1. CASE MoveRefused
  <2>1. At("move") /\ JobEnds(TRUE) /\ UNCHANGED <<host, trash, lateMoves, network>>
    BY <1>1 DEF MoveRefused
  <2> QED
    BY <2>1, OpTypes, TaskTypes, CleanupTypes, EndIsSound
<1>2. ASSUME NEW c \in Cycles, MoveInDoubt(c) PROVE CleanupInv'
  <2>1. At("move") /\ c \in job.todo /\ JobEnds(FALSE)
    BY <1>2 DEF MoveInDoubt
  <2>2. CASE UNCHANGED <<host, trash, lateMoves, network>>
    BY <2>1, <2>2, OpTypes, TaskTypes, CleanupTypes, EndIsSound
  <2>3. CASE MoveAway(p0, c, plan[p0].snap[c]) /\ UNCHANGED <<lateMoves, network>>
    BY <2>1, <2>3, OpTypes, CleanupTypes, AtTheMove, MovedAway, EndIsSound
  <2>4. CASE /\ slips < MaxLate /\ slips' = slips + 1 /\ UNCHANGED <<host, trash, late>>
             /\ lateMoves' = lateMoves \cup {[plan |-> p0, cycle |-> c, inode |-> plan[p0].snap[c]]}
    <3>1. slips' \in 0..MaxLate /\ slips' # 0
      BY <2>4, OpTypes
    <3>2. plan[p0].snap[c] \in 1..MaxInodes
      <4>1. plan[p0].snap \in Snapshots /\ c \in DOMAIN plan[p0].snap
        BY <2>1, AtTheMove DEF PlanRows
      <4> QED
        BY <4>1 DEF Snapshots
    <3>3. lateMoves' \subseteq Moves
      BY <2>1, <2>4, <3>2, AtTheMove, CleanupTypes DEF Moves
    <3> QED
      BY <2>1, <2>4, <3>1, <3>3, TaskTypes, CleanupTypes, EndIsSound
  <2> QED
    BY <1>2, <2>2, <2>3, <2>4 DEF MoveInDoubt
<1> QED
  BY <1>1, <1>2

LEMMA LeavingIsSound ==
  ASSUME CleanupInv, JobLeaves
  PROVE  CleanupInv'
<1>1. /\ UNCHANGED <<op, call, sweep, task, proofs, policy, guard, refs, legacy, there, inode, whole, late, slips,
                     reboots, plan, cleaning, trash, lateMoves>>
      /\ order # <<>> /\ job.at = "leave" /\ order' = Tail(order) /\ job' = NoJob
  BY DEF JobLeaves, At, forcingVars, database, threads, host, files, network
<1>2. /\ order' \in Seq(Plans) /\ Len(order') = Len(order) - 1 /\ Len(order) \in Nat
      /\ \A i \in 1..Len(order') : order'[i] = order[i + 1] /\ i + 1 \in 1..Len(order) /\ i + 1 > 1
  BY <1>1, CleanupTypes
<1>3. QueueIsSound'
  <2>1. \A i \in 1..Len(order') : plan[order'[i]].status = "checking"
    BY <1>2 DEF CleanupInv, QueueIsSound
  <2>2. ASSUME NEW i \in 1..Len(order'), NEW j \in 1..Len(order'), order'[i] = order'[j] PROVE i = j
    <3>1. i + 1 = j + 1
      BY <1>2, <2>2 DEF CleanupInv, QueueIsSound
    <3> QED
      BY <3>1
  <2> QED
    BY <1>1, <2>1, <2>2 DEF QueueIsSound, NoJob
<1>4. JobIsSound'
  BY <1>1 DEF JobIsSound, NoJob
<1>5. (\A p \in Plans : PlanIsSound(p)') /\ LateIsSound'
  BY <1>1 DEF CleanupInv, PlanIsSound, Unmoved, LateIsSound
<1>6. job' \in [at : {"idle", "check", "identity", "recheck", "section", "move", "leave"},
                todo : SUBSET Cycles, wrote : BOOLEAN] /\ job'.at = "idle"
  BY <1>1 DEF NoJob
<1>7. Len(order') <= MaxQueue
  BY <1>2, CleanupTypes
<1> QED
  BY <1>1, <1>2, <1>3, <1>4, <1>5, <1>6, <1>7, CleanupTypes, ProofsStand, PlansKeep

\* A rename that outlived its job arrives.
LEMMA LateMoveIsSound ==
  ASSUME CleanupInv, NEW m \in lateMoves, LateMove(m)
  PROVE  CleanupInv'
<1>1. /\ UNCHANGED <<op, call, sweep, task, proofs, policy, guard, late, slips, reboots, plan, order, job, cleaning>>
      /\ lateMoves' = lateMoves \ {m} /\ m.plan \in Plans /\ m.cycle \in Cycles
  BY CleanupTypes DEF LateMove, database, threads, network, Moves
<1>2. /\ UNCHANGED <<refs, legacy, inode>> /\ there' \subseteq there /\ whole' \subseteq there'
      /\ trash' \in [Plans -> SUBSET Cycles] /\ \A q \in Plans \ {m.plan} : trash'[q] = trash[q]
  <2>1. CASE MoveAway(m.plan, m.cycle, m.inode)
    BY <1>1, <2>1, MovedAway
  <2>2. CASE UNCHANGED <<host, trash>>
    BY <2>2, TaskTypes, CleanupTypes DEF host, files
  <2> QED
    BY <2>1, <2>2 DEF LateMove
<1>3. slips = 0 => plan[m.plan].status = "unknown"
  BY DEF CleanupInv, LateIsSound
<1>4. ASSUME NEW p \in Plans PROVE PlanIsSound(p)'
  <2>1. PlanIsSound(p)
    BY DEF CleanupInv
  <2> QED
    BY <1>1, <1>2, <1>3, <2>1 DEF PlanIsSound, Unmoved
<1>5. QueueIsSound' /\ LateIsSound'
  BY <1>1 DEF CleanupInv, QueueIsSound, LateIsSound
<1>6. JobIsSound'
  <2>1. Claims' = Claims
    BY <1>1 DEF Claims, Needs, Wants
  <2>2. job.at = "move" => order[1] \in Plans /\ plan[order[1]].status = "executing"
    BY HeadIsFirst DEF CleanupInv, JobIsSound, QueueIsSound
  <2> QED
    BY <1>1, <1>2, <1>3, <2>1, <2>2 DEF CleanupInv, JobIsSound
<1> QED
  BY <1>1, <1>2, <1>4, <1>5, <1>6, OpTypes, CleanupTypes, MovesKeep

\* A restart sends nothing again; what was executing is in doubt.
LEMMA InterruptedIsSound ==
  ASSUME CleanupInv, NEW p \in Plans
  PROVE  /\ Interrupted(p) \in PlanRows
         /\ Interrupted(p).kind = plan[p].kind /\ Interrupted(p).snap = plan[p].snap
         /\ Interrupted(p).paths = plan[p].paths /\ Interrupted(p).removed = plan[p].removed
         /\ Interrupted(p).status = CASE plan[p].status = "executing" -> "unknown"
                                      [] plan[p].status = "checking" /\ plan[p].kind = "cycle" -> "blocked"
                                      [] OTHER -> plan[p].status
<1>1. plan[p] \in PlanRows
  BY CleanupTypes
<1> DEFINE as(s) == [plan[p] EXCEPT !.status = s]
<1>2. ASSUME NEW s \in {"unknown", "blocked"}
      PROVE  /\ as(s) \in PlanRows /\ as(s).kind = plan[p].kind /\ as(s).snap = plan[p].snap
             /\ as(s).paths = plan[p].paths /\ as(s).removed = plan[p].removed /\ as(s).status = s
  BY <1>1 DEF PlanRows
<1>3. \/ plan[p].status = "executing" /\ Interrupted(p) = as("unknown")
      \/ plan[p].status = "checking" /\ plan[p].kind = "cycle" /\ Interrupted(p) = as("blocked")
      \/ /\ plan[p].status # "executing" /\ ~(plan[p].status = "checking" /\ plan[p].kind = "cycle")
         /\ Interrupted(p) = plan[p]
  BY DEF Interrupted
<1> HIDE DEF as
<1> QED
  BY <1>1, <1>2, <1>3

LEMMA RebootIsSound ==
  ASSUME CleanupInv, Reboot
  PROVE  CleanupInv'
<1>1. PICK lost \in SUBSET Underway :
        /\ Rebooted(lost) /\ late' = late \cup lost /\ plan' = [p \in Plans |-> Interrupted(p)]
        /\ order' = <<>> /\ job' = NoJob /\ cleaning' = {} /\ UNCHANGED trash
        /\ \/ lateMoves' = lateMoves
           \/ \E c \in job.todo : At("move") /\ lateMoves' = lateMoves \cup
                    {[plan |-> p0, cycle |-> c, inode |-> plan[p0].snap[c]]}
  BY DEF Reboot
<1>2. /\ UNCHANGED <<policy, refs, legacy, there, inode, whole>>
      /\ call' = [o \in Ops |-> "none"] /\ sweep' = Idle /\ guard' = None /\ proofs' = {}
  BY <1>1 DEF Rebooted, Freed, host, files
<1>3. slips' \in 0..MaxLate /\ (slips' = 0 => slips = 0 /\ lost = {}) /\ reboots' \in 0..MaxReboots
  <2>1. /\ Cardinality(lost) \in Nat /\ (Cardinality(lost) = 0 <=> lost = {})
        /\ slips' = slips + Cardinality(lost) /\ slips' <= MaxLate /\ slips \in Nat /\ MaxLate \in Nat
    BY <1>1, LostAreCounted, OpTypes DEF Rebooted
  <2>2. reboots \in 0..MaxReboots /\ MaxReboots \in Nat /\ reboots < MaxReboots /\ reboots' = reboots + 1
    BY <1>1, ForcingAssumption, CleanupTypes DEF Rebooted, ForcingTypeOK
  <2>3. slips' \in 0..MaxLate /\ (slips' = 0 => slips = 0 /\ Cardinality(lost) = 0)
    BY <2>1
  <2>4. reboots' \in 0..MaxReboots
    BY <2>2
  <2> QED
    BY <2>1, <2>3, <2>4
<1>4. op' \in [Ops -> Statuses] /\ \A o \in Ops : op'[o] = Recovered(o) /\ (op'[o] = "cancelled" => op[o] = "cancelled")
  <2>1. \A o \in Ops : Recovered(o) \in Statuses /\ (Recovered(o) = "cancelled" => op[o] = "cancelled")
    BY OpTypes DEF Recovered, Statuses
  <2> QED
    BY <1>1, <2>1 DEF Rebooted
<1>5. \A o \in Ops : OpIsSound(o)'
  BY <1>2, <1>3, <1>4, OpTypes DEF OpIsSound, Idle, CleanupInv
<1>6. task' \in [Tasks -> TaskRows] /\ \A t \in Tasks : TaskIsSound(t)'
  <2>1. ASSUME NEW t \in Tasks
        PROVE  /\ task'[t] \in TaskRows /\ task'[t].cycle = task[t].cycle /\ task'[t].launched = task[t].launched
               /\ task'[t].alive = task[t].alive
               /\ task'[t].status = task[t].status \/ (task'[t].status = "queued" /\ ~task[t].launched)
    <3>1. task[t] \in TaskRows
      BY TaskTypes
    <3>2. task'[t] = IF task[t].status = "running" /\ ~task[t].launched
                     THEN [task[t] EXCEPT !.status = "queued"] ELSE task[t]
      BY <1>1 DEF Rebooted
    <3> QED
      BY <3>1, <3>2 DEF TaskRows
  <2>2. task' \in [Tasks -> TaskRows]
    BY <1>1, <2>1 DEF Rebooted
  <2>3. ASSUME NEW t \in Tasks PROVE TaskIsSound(t)'
    <3>1. TaskIsSound(t)
      BY DEF CleanupInv
    <3> QED
      BY <1>2, <2>1, <3>1 DEF TaskIsSound
  <2> QED
    BY <2>2, <2>3
<1>7. plan' \in [Plans -> PlanRows] /\ \A p \in Plans : plan'[p] = Interrupted(p)
  BY <1>1, InterruptedIsSound
<1>8. \A p \in Plans : PlanIsSound(p)'
  <2>1. ASSUME NEW p \in Plans PROVE PlanIsSound(p)'
    <3>1. PlanIsSound(p) /\ plan'[p] = Interrupted(p)
      BY <1>7 DEF CleanupInv
    <3> QED
      BY <1>1, <1>3, <3>1, InterruptedIsSound DEF PlanIsSound, Unmoved
  <2> QED
    BY <2>1
<1>9. lateMoves' \subseteq Moves /\ LateIsSound'
  <2>1. slips' = 0 => late' = {}
    BY <1>1, <1>3, OpTypes
  <2>2. \A m \in lateMoves : m.plan \in Plans /\ (slips = 0 => plan'[m.plan].status = "unknown")
    BY <1>7, CleanupTypes, InterruptedIsSound DEF Moves, CleanupInv, LateIsSound
  <2>3. CASE lateMoves' = lateMoves
    BY <1>3, <2>1, <2>2, <2>3, CleanupTypes DEF LateIsSound
  <2>4. ASSUME NEW c \in job.todo, At("move"),
               lateMoves' = lateMoves \cup {[plan |-> p0, cycle |-> c, inode |-> plan[p0].snap[c]]}
        PROVE  lateMoves' \subseteq Moves /\ LateIsSound'
    <3>1. plan[p0].snap[c] \in 1..MaxInodes
      <4>1. plan[p0].snap \in Snapshots /\ c \in DOMAIN plan[p0].snap
        BY <2>4, AtTheMove DEF PlanRows
      <4> QED
        BY <4>1 DEF Snapshots
    <3>2. lateMoves' \subseteq Moves
      BY <2>4, <3>1, AtTheMove, CleanupTypes DEF Moves
    <3>3. p0 \in Plans /\ plan'[p0].status = "unknown"
      <4>1. p0 \in Plans /\ plan[p0].status = "executing"
        BY <2>4, AtTheMove
      <4>2. \A p \in Plans : plan[p].status = "executing" => plan'[p].status = "unknown"
        BY <1>7, InterruptedIsSound
      <4> QED
        BY <1>7, <4>1, <4>2
    <3>4. ASSUME NEW m \in lateMoves', slips' = 0 PROVE plan'[m.plan].status = "unknown"
      <4>1. m \in lateMoves \/ m.plan = p0
        BY <2>4
      <4> QED
        BY <1>3, <2>2, <3>3, <3>4, <4>1
    <3> QED
      BY <2>1, <3>2, <3>4 DEF LateIsSound
  <2> QED
    BY <1>1, <2>3, <2>4
<1>10. FilesAreSound' /\ QueueIsSound' /\ JobIsSound'
  BY <1>1, <1>2, TaskTypes DEF FilesAreSound, QueueIsSound, JobIsSound, NoJob
<1>11. TypeOK'
  <2>1. sweep' \in [todo : SUBSET Ops, found : Ops \cup {None}]
    BY <1>2 DEF Idle
  <2>2. call' \in [Ops -> {"none", "trigger", "release"}]
    BY <1>2
  <2>3. ForcingTypeOK'
    BY <1>2, <1>3, <1>4, <1>6, <2>1, <2>2, CleanupTypes DEF ForcingTypeOK, TaskRows
  <2>4. /\ order' \in Seq(Plans) /\ Len(order') <= MaxQueue
        /\ job' \in [at : {"idle", "check", "identity", "recheck", "section", "move", "leave"},
                     todo : SUBSET Cycles, wrote : BOOLEAN] /\ job'.at = "idle"
    BY <1>1, CleanupTypes DEF NoJob
  <2> QED
    BY <1>1, <1>2, <1>7, <1>9, <2>3, <2>4, CleanupTypes DEF TypeOK, PlanRows
<1> QED
  BY <1>5, <1>6, <1>8, <1>9, <1>10, <1>11 DEF CleanupInv

-----------------------------------------------------------------------------
(* Every step, and what follows.                                           *)

LEMMA StillIsSound ==
  ASSUME CleanupInv, UNCHANGED vars
  PROVE  CleanupInv'
<1>1. /\ UNCHANGED <<op, call, sweep, task, proofs, policy, guard, refs, legacy, there, inode, whole, late, slips,
                     reboots, plan, order, job, cleaning, trash, lateMoves>>
  BY DEF vars, forcingVars, cleanup, database, threads, host, files, network
<1>2. (\A o \in Ops : OpIsSound(o)') /\ (\A t \in Tasks : TaskIsSound(t)') /\ FilesAreSound'
  BY <1>1 DEF CleanupInv, OpIsSound, TaskIsSound, Provable, FilesAreSound
<1>3. ForcingTypeOK'
  BY <1>1, CleanupTypes DEF ForcingTypeOK
<1> QED
  BY <1>1, <1>2, <1>3, OpTypes, OutsideStays DEF cleanup, Wants, Needs

LEMMA CleanupStep == CleanupInv /\ [Next]_vars => CleanupInv'
<1> SUFFICES ASSUME CleanupInv, [Next]_vars PROVE CleanupInv'
  OBVIOUS
<1>1. CASE ForcingStep /\ UNCHANGED cleanup
  BY <1>1, ForcingStepIsSound
<1>2. CASE RefreshProofs
  BY <1>2, ProofsAreSound
<1>3. CASE Reboot
  BY <1>3, RebootIsSound
<1>4. ASSUME NEW c \in Cycles, JobMoves(c) PROVE CleanupInv'
  BY <1>4, MoveIsSound
<1>5. CASE MoveRefused \/ \E c \in Cycles : MoveInDoubt(c)
  BY <1>5, FailureIsSound
<1>6. ASSUME NEW c \in Cycles, NEW a \in Actors, DeleteCycle(c, a) \/ RetryCycle(c, a) PROVE CleanupInv'
  BY <1>6, RequestIsSound
<1>7. CASE (\E a \in Actors : MakePlan(a)) \/ (\E p \in Plans : ExecutePlan(p))
  BY <1>7, PlanningIsSound
<1>8. ASSUME NEW p \in Plans, Purge(p) PROVE CleanupInv'
  BY <1>8, PurgeIsSound
<1>9. CASE JobStarts \/ JobFailsEarly \/ JobChecks \/ JobIdentifies
  BY <1>9, JobLooks
<1>10. CASE JobRechecks \/ JobEntersSection
  BY <1>10, JobExecutes
<1>11. CASE JobLeaves
  BY <1>11, LeavingIsSound
<1>12. ASSUME NEW m \in lateMoves, LateMove(m) PROVE CleanupInv'
  BY <1>12, LateMoveIsSound
<1>13. CASE UNCHANGED vars
  BY <1>13, StillIsSound
<1> QED
  BY <1>1, <1>2, <1>3, <1>4, <1>5, <1>6, <1>7, <1>8, <1>9, <1>10, <1>11, <1>12, <1>13 DEF Next

\* Only a job's own move, or a late one, takes a directory away.
LEMMA OthersLeaveFiles ==
  ASSUME CleanupInv, Next, \A c \in Cycles : ~JobMoves(c) /\ ~MoveInDoubt(c),
         ~ \E m \in lateMoves : LateMove(m)
  PROVE  there \subseteq there'
<1> USE DEF host, files
<1>1. CASE ForcingStep
  <2>1. (\E c \in Cycles : Download(c)) => there \subseteq there'
    BY DEF Download
  <2>2. ~(\E c \in Cycles : Download(c)) => UNCHANGED there
    BY <1>1 DEF ForcingStep, SweepList, SweepReady, PatchPolicy, RequestDownload, TriggerAnswered, CancelDownload,
                ReleaseAnswered, Answer, SweepInspect, ObserveReady, LateArrives, BindCycle, AskForFiles, Launch,
                ProcessExits, TaskEnds, TaskSucceeds, Resume, Restart
  <2> QED
    BY <2>1, <2>2
<1>2. CASE RefreshProofs \/ Reboot
  BY <1>2 DEF RefreshProofs, Reboot, Rebooted
<1>3. CASE JobStarts \/ JobFailsEarly \/ JobChecks \/ JobIdentifies \/ JobRechecks \/ JobEntersSection
  BY <1>3 DEF JobStarts, JobFailsEarly, JobChecks, JobIdentifies, JobRechecks, JobEntersSection, Execute, Quiet
<1>4. CASE MoveRefused \/ JobLeaves \/ (\E p \in Plans : Purge(p)) \/ (\E a \in Actors : MakePlan(a))
  BY <1>4 DEF MoveRefused, JobLeaves, Purge, MakePlan, forcingVars
<1>5. CASE (\E c \in Cycles, a \in Actors : DeleteCycle(c, a) \/ RetryCycle(c, a)) \/ \E p \in Plans : ExecutePlan(p)
  BY <1>5 DEF DeleteCycle, RetryCycle, ExecutePlan, Accept, forcingVars
<1> QED
  BY <1>1, <1>2, <1>3, <1>4, <1>5 DEF Next

LEMMA MoveSparesClaims ==
  CleanupInv /\ [Next]_vars => [\A c \in there \ there' : InTime => c \notin Claims]_vars
<1> SUFFICES ASSUME CleanupInv, Next, NEW c \in there \ there', job' # job PROVE c \notin Claims
  BY DEF InTime
<1>1. ASSUME NEW m \in lateMoves, LateMove(m) PROVE FALSE
  BY <1>1 DEF LateMove
<1>2. PICK d \in Cycles : JobMoves(d) \/ MoveInDoubt(d)
  BY <1>1, OthersLeaveFiles
<1>3. At("move") /\ d \in job.todo /\ there \ there' \subseteq {d}
  BY <1>2 DEF JobMoves, MoveInDoubt, MoveAway, host, files
<1> QED
  BY <1>3, AtTheMove

\* A plan that one step changes was not in doubt.
LEMMA DoubtRemains ==
  CleanupInv /\ [Next]_vars =>
    [\A p \in Plans : plan[p].status = "unknown" => plan'[p].status = "unknown"]_vars
<1> SUFFICES ASSUME CleanupInv, Next, NEW p \in Plans, plan[p].status = "unknown"
             PROVE  plan'[p].status = "unknown"
  OBVIOUS
<1>1. ASSUME NEW q \in Plans, plan[q].status # "unknown", \E row : plan' = [plan EXCEPT ![q] = row]
      PROVE  plan'[p].status = "unknown"
  BY <1>1, CleanupTypes
<1>2. CASE UNCHANGED plan
  BY <1>2
<1>3. order # <<>> => p0 \in Plans
  BY HeadIsFirst
<1>4. order # <<>> /\ job.at # "leave" => plan[p0].status # "unknown"
  BY HeadIsFirst, AtTheMove DEF At
<1>5. ASSUME order # <<>>, job.at # "leave", NEW s, Status(p0, s) PROVE plan'[p].status = "unknown"
  BY <1>1, <1>3, <1>4, <1>5 DEF Status
<1>6. CASE JobFailsEarly \/ JobIdentifies \/ JobRechecks \/ JobEntersSection
  <2>1. CASE JobFailsEarly
    BY <1>5, <2>1 DEF JobFailsEarly, GivesUp
  <2>2. CASE JobIdentifies
    BY <1>1, <1>3, <1>4, <2>2 DEF JobIdentifies, At
  <2>3. CASE JobRechecks \/ JobEntersSection
    BY <1>5, <2>3 DEF JobRechecks, JobEntersSection, Execute, At
  <2> QED
    BY <1>6, <2>1, <2>2, <2>3
<1>7. ASSUME NEW c \in Cycles, JobMoves(c) PROVE plan'[p].status = "unknown"
  <2>1. order # <<>> /\ job.at # "leave"
    BY <1>7 DEF JobMoves, At
  <2> QED
    BY <1>1, <1>2, <1>3, <1>4, <1>7, <2>1 DEF JobMoves
<1>8. ASSUME NEW refused, At("move"), JobEnds(refused) PROVE plan'[p].status = "unknown"
  <2>1. order # <<>> /\ job.at # "leave" /\ p # p0 /\ p0 \in Plans
    BY <1>3, <1>4, <1>8 DEF At
  <2> DEFINE once == [plan EXCEPT ![p0].status = Verdict(refused)]
  <2>2. once[p] = plan[p] /\ DOMAIN once = Plans
    BY <2>1, CleanupTypes
  <2>3. plan' = [once EXCEPT ![p0].retry = refused /\ plan[p0].kind = "cycle"]
    BY <1>8 DEF JobEnds
  <2> HIDE DEF once
  <2>4. plan'[p] = plan[p]
    BY <2>1, <2>2, <2>3
  <2> QED
    BY <2>4
<1>9. CASE MoveRefused \/ \E c \in Cycles : MoveInDoubt(c)
  BY <1>8, <1>9 DEF MoveRefused, MoveInDoubt
<1>10. ASSUME NEW q \in Plans, NEW value, Accept(q, value), plan[q].status # "unknown"
       PROVE  plan'[p].status = "unknown"
  BY <1>1, <1>10 DEF Accept
<1>11. CASE \E c \in Cycles, a \in Actors : DeleteCycle(c, a)
  BY <1>10, <1>11 DEF DeleteCycle, Fresh, NoPlan
<1>12. ASSUME NEW c \in Cycles, NEW a \in Actors, RetryCycle(c, a) PROVE plan'[p].status = "unknown"
  <2>1. Standing(c, a) # {} /\ Standing(c, a) \in SUBSET Nat /\ IsFiniteSet(Standing(c, a))
    BY <1>12, CleanupAssumption, FS_Subset DEF RetryCycle, Standing
  <2>2. Newest(Standing(c, a)) \in Plans
    BY <2>1, NewestIsLast DEF Standing
  <2> QED
    BY <1>10, <1>12, <2>2 DEF RetryCycle, Retriable
<1>13. CASE \E a \in Actors : MakePlan(a)
  <2>1. PICK q \in Plans : plan[q] = NoPlan /\ \E row : plan' = [plan EXCEPT ![q] = row]
    BY <1>13, Zenon DEF MakePlan, Fresh
  <2>2. NoPlan.status = "none"
    BY DEF NoPlan
  <2> QED
    BY <1>1, <2>1, <2>2
<1>14. CASE \E q \in Plans : ExecutePlan(q)
  BY <1>10, <1>14 DEF ExecutePlan
<1>15. ASSUME NEW q \in Plans, Purge(q) PROVE plan'[p].status = "unknown"
  <2>1. plan[q].status # "unknown"
    BY <1>15 DEF Purge, CleanupInv, PlanIsSound
  <2> QED
    BY <1>1, <1>15, <2>1 DEF Purge, Status
<1>16. CASE Reboot
  <2>1. plan'[p] = Interrupted(p)
    BY <1>16 DEF Reboot
  <2>2. Interrupted(p).status = "unknown"
    BY InterruptedIsSound
  <2> QED
    BY <2>1, <2>2
<1>17. CASE \/ ForcingStep /\ UNCHANGED cleanup
            \/ RefreshProofs \/ JobStarts \/ JobChecks \/ JobLeaves \/ \E m \in lateMoves : LateMove(m)
  BY <1>2, <1>17 DEF cleanup, RefreshProofs, JobStarts, JobChecks, JobLeaves, LateMove
<1> QED
  BY <1>6, <1>7, <1>9, <1>11, <1>12, <1>13, <1>14, <1>15, <1>16, <1>17 DEF Next

\* The inductive invariant of the forcing controller and its deletions holds,
\* however their threads, commands and restarts interleave.
THEOREM CleanupInvHolds == Spec => []CleanupInv
<1> QED
  BY CleanupStart, CleanupStep, PTL DEF Spec

\* The controller's rows, its queue and the files of the host have their types;
\* the guard is held by a deletion exactly while its job moves directories.
THEOREM CleanupTypeCorrect == Spec => []TypeOK
<1>1. CleanupInv => TypeOK
  BY DEF CleanupInv
<1> QED
  BY <1>1, CleanupInvHolds, PTL

\* A cancelled operation holds nothing on the host (cancel_download), as long as
\* no command has outlived its caller.
THEOREM CancelledHoldsNothingHolds == Spec => []CancelledHoldsNothing
<1>1. CleanupInv => CancelledHoldsNothing
  BY DEF CleanupInv, OpIsSound, CancelledHoldsNothing
<1> QED
  BY <1>1, CleanupInvHolds, PTL

\* A deletion reported as blocked has moved nothing, so that it may be tried
\* again under its number (delete_cycle_async).
THEOREM BlockedMovedNothingHolds == Spec => []BlockedMovedNothing
<1>1. CleanupInv => BlockedMovedNothing
  BY DEF CleanupInv, PlanIsSound, Unmoved, BlockedMovedNothing
<1> QED
  BY <1>1, CleanupInvHolds, PTL

\* A directory whose move the job waits for is claimed by no task, operation or
\* policy: the references made between its two looks are seen by the second, and
\* none is made while it holds the guard (_execute_directory_plan).
THEOREM SparesClaimsHolds == Spec => SparesClaims
<1> QED
  BY MoveSparesClaims, CleanupInvHolds, PTL DEF Spec, SparesClaims

\* A deletion in doubt is never sent again, nor is it given another verdict:
\* not by a request, the job, the second worker or a restart.
THEOREM NoReplayHolds == Spec => NoReplay
<1> QED
  BY DoubtRemains, CleanupInvHolds, PTL DEF Spec, NoReplay
=============================================================================
