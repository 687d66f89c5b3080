------------------------------ MODULE PoolProofs ------------------------------
(***************************************************************************)
(* Safety of the admission pool, and of the pool with the single lease over *)
(* the life of a task, for every set of attempts, tasks and CPUs, every      *)
(* demand and every number of faults.                                      *)
(*                                                                         *)
(* First the pool: the lemmas about one step of the supervisor say when an *)
(* attempt may begin to be active, and that the evidence a reservation is  *)
(* released on excludes it.  Then the lease: PoolInv carries over, Leased  *)
(* ties the lease to what is in flight under it, and Answered is about     *)
(* attempts whose end was reported: their state stays terminal, and a       *)
(* reservation still held then is that of a launch command which came too  *)
(* late, for an attempt that never had a process.                          *)
(***************************************************************************)
EXTENDS LeaseReclaim, ManagedProcessProofs

\* Nothing but a claimed launch makes an attempt active.
LEMMA BackgroundActive ==
  ASSUME SupervisorInv, Background, NEW b \in Attempts, Active(b)'
  PROVE  Active(b)
<1>1. TypeOK /\ AttemptInv(b)
  BY DEF SupervisorInv
<1> USE <1>1 DEF TypeOK, Active
<1>2. ASSUME NEW a \in Attempts, Cancel(a) PROVE Active(b)
  BY <1>2 DEF Cancel, CancelBeforeLaunch, CancelIntent, CancelChecks, CancelSaves
<1>3. ASSUME NEW a \in Attempts, WrapperStep(a) PROVE Active(b)
  BY <1>3 DEF WrapperStep, ConsumeIntent, Register, StartCommand, SaveOutcome, WrapperExits
<1>4. ASSUME NEW a \in Attempts, WorkerStep(a) PROVE Active(b)
  BY <1>4 DEF WorkerStep, WorkerVerifies, WorkerTerminates, WorkerKills, WorkerConfirms
<1>5. ASSUME NEW a \in Attempts, CommandForks(a) \/ CommandExits(a) \/ WrapperKilled(a) \/ WorkerDies(a)
      PROVE  Active(b)
  BY <1>5 DEF CommandForks, CommandExits, WrapperKilled, WorkerDies
<1>6. CASE HostReboots
  BY <1>6 DEF HostReboots
<1> QED
  BY <1>2, <1>3, <1>4, <1>5, <1>6 DEF Background

LEMMA ClaimActive ==
  ASSUME TypeOK, NEW a \in Attempts, LaunchClaim(a), NEW b \in Attempts, Active(b)'
  PROVE  Active(b) \/ b = a
BY DEF TypeOK, Active, LaunchClaim

\* A reservation is released on evidence that nothing of its attempt computes.
LEMMA ReleasableIsInactive ==
  ASSUME NEW a \in Attempts, AttemptInv(a), Releasable(a)
  PROVE  ~Active(a)
BY DEF Releasable, SafeTerminal, Active, Observed, Verdict, Terminal, AttemptInv, SpawnedIsUnregistered,
       ComputingIsRegistered, VerifiedIsFailed, VerifiedIsQuiet

\* What is in flight is active.
LEMMA InFlightIsActive == ASSUME NEW a \in Attempts, InFlight(a) PROVE Active(a)
BY DEF InFlight, Active

-----------------------------------------------------------------------------
\* The launch that holds compute.lock has its reservation.
LauncherIsHeld == \A a \in Pooled : launcher = a => pool[a].state = "held"

\* The reservations in force share no CPU.
HeldAreDisjoint ==
  \A a, b \in Attempts :
    pool[a].state = "held" /\ pool[b].state = "held" /\ a # b => pool[a].cpus \cap pool[b].cpus = {}

PoolInv ==
  /\ PoolTypeOK /\ SupervisorInv
  /\ LauncherIsHeld /\ HeldAreDisjoint /\ ActiveHoldsReservation

\* A refresh keeps records records, and only releases.
LEMMA RefreshedType ==
  ASSUME PoolTypeOK
  PROVE  Refreshed \in [Attempts -> [state : {"none", "held", "released"}, cpus : SUBSET Cpus]]
<1>1. ASSUME NEW b \in Attempts
      PROVE  [pool[b] EXCEPT !.state = "released"]
               \in [state : {"none", "held", "released"}, cpus : SUBSET Cpus]
  BY DEF PoolTypeOK
<1> QED
  BY <1>1 DEF Refreshed, PoolTypeOK

LEMMA RefreshedFacts ==
  ASSUME PoolTypeOK, NEW a \in Attempts
  PROVE  /\ Refreshed[a].cpus = pool[a].cpus
         /\ Refreshed[a].state = "held" <=> pool[a].state = "held" /\ ~Releasable(a)
         /\ Refreshed[a].state = "none" <=> pool[a].state = "none"
<1>1. Refreshed[a] = IF pool[a].state = "held" /\ Releasable(a)
                     THEN [pool[a] EXCEPT !.state = "released"] ELSE pool[a]
  BY DEF Refreshed
<1>2. /\ [pool[a] EXCEPT !.state = "released"].state = "released"
      /\ [pool[a] EXCEPT !.state = "released"].cpus = pool[a].cpus
  BY DEF PoolTypeOK
<1>3. CASE pool[a].state = "held" /\ Releasable(a)
  BY <1>1, <1>2, <1>3
<1>4. CASE ~(pool[a].state = "held" /\ Releasable(a))
  BY <1>1, <1>4
<1> QED
  BY <1>3, <1>4

\* The steps of the supervisor beside the admission.
LEMMA BackgroundKeepsPool ==
  ASSUME PoolInv, Background, UNCHANGED poolVars
  PROVE  PoolInv'
<1>1. SupervisorInv'
  BY InvariantStep DEF PoolInv, Next
<1>2. PoolTypeOK' /\ LauncherIsHeld' /\ HeldAreDisjoint'
  BY <1>1 DEF PoolInv, PoolTypeOK, SupervisorInv, poolVars, LauncherIsHeld, HeldAreDisjoint
<1>3. ActiveHoldsReservation'
  BY BackgroundActive DEF PoolInv, ActiveHoldsReservation, poolVars
<1> QED
  BY <1>1, <1>2, <1>3 DEF PoolInv

\* A step that only saves the refreshed pool.
LEMMA RefreshKeepsPool ==
  ASSUME PoolInv, launcher = None, pool' = Refreshed, UNCHANGED <<vars, lease, launcher>>
  PROVE  PoolInv'
<1>1. TypeOK' /\ SupervisorInv'
  BY InvariantStep DEF PoolInv, SupervisorInv
<1>2. PoolTypeOK'
  BY <1>1, RefreshedType DEF PoolInv, PoolTypeOK
<1>3. LauncherIsHeld'
  BY NoneAssumption, PoolAssumption DEF LauncherIsHeld
<1>4. HeldAreDisjoint'
  BY RefreshedFacts DEF PoolInv, HeldAreDisjoint
<1>5. ASSUME NEW a \in Attempts, a \in Pooled, Active(a)' PROVE pool'[a].state = "held"
  <2>1. Active(a) /\ AttemptInv(a)
    BY <1>5 DEF Active, vars, PoolInv, SupervisorInv
  <2> QED
    BY <1>5, <2>1, ReleasableIsInactive, RefreshedFacts DEF PoolInv, ActiveHoldsReservation
<1> QED
  BY <1>1, <1>2, <1>3, <1>4, <1>5 DEF PoolInv, ActiveHoldsReservation

\* A step of the lease, or of a launch command without its claim: the lock goes
\* to an attempt that does not ask the pool, or is let go.
LEMMA LockKeepsPool ==
  ASSUME PoolInv, UNCHANGED <<vars, pool>>, lease' \in Attempts \cup {None},
         launcher' \in (Attempts \ Pooled) \cup {launcher, None}
  PROVE  PoolInv'
<1>1. TypeOK' /\ SupervisorInv'
  BY InvariantStep DEF PoolInv, SupervisorInv
<1>2. PoolTypeOK' /\ HeldAreDisjoint'
  BY <1>1 DEF PoolInv, PoolTypeOK, HeldAreDisjoint
<1>3. LauncherIsHeld'
  BY NoneAssumption, PoolAssumption DEF PoolInv, LauncherIsHeld
<1>4. ActiveHoldsReservation'
  BY DEF PoolInv, ActiveHoldsReservation, Active, vars
<1> QED
  BY <1>1, <1>2, <1>3, <1>4 DEF PoolInv

\* A reservation takes only CPUs that nobody holds.
LEMMA ReserveKeepsPool ==
  ASSUME PoolInv, NEW a \in Attempts, PoolReserve(a)
  PROVE  PoolInv'
<1> DEFINE free == FreeCpus(Refreshed)
           share == Lowest(free, Need[a])
<1>0. PoolTypeOK /\ a \in Pooled /\ pool[a].state = "none"
  BY DEF PoolInv, PoolReserve
<1>1. /\ pool' = [Refreshed EXCEPT ![a] = [state |-> "held", cpus |-> share]]
      /\ launcher' = a /\ UNCHANGED <<vars, lease>>
  BY DEF PoolReserve
<1>2. share \subseteq free /\ free \subseteq Cpus
  BY DEF Lowest, FreeCpus, Usable
<1>3. \A b \in Attempts : Refreshed[b].state = "held" => share \cap Refreshed[b].cpus = {}
  BY <1>2 DEF FreeCpus, Held
<1> HIDE DEF share, free
<1>4. TypeOK' /\ SupervisorInv'
  BY <1>1, InvariantStep DEF PoolInv, SupervisorInv
<1>5. /\ pool' \in [Attempts -> [state : {"none", "held", "released"}, cpus : SUBSET Cpus]]
      /\ pool'[a] = [state |-> "held", cpus |-> share]
      /\ \A b \in Attempts : b # a => pool'[b] = Refreshed[b]
  BY <1>0, <1>1, <1>2, RefreshedType
<1>6. PoolTypeOK' /\ LauncherIsHeld'
  BY <1>1, <1>4, <1>5 DEF PoolInv, PoolTypeOK, LauncherIsHeld
<1>7. ASSUME NEW b \in Attempts, NEW c \in Attempts, b # c,
             pool'[b].state = "held", pool'[c].state = "held"
      PROVE  pool'[b].cpus \cap pool'[c].cpus = {}
  <2>1. CASE b = a
    BY <1>3, <1>5, <1>7, <2>1
  <2>2. CASE c = a
    BY <1>3, <1>5, <1>7, <2>2
  <2>3. CASE b # a /\ c # a
    BY <1>0, <1>5, <1>7, <2>3, RefreshedFacts DEF PoolInv, HeldAreDisjoint
  <2> QED
    BY <2>1, <2>2, <2>3
<1>8. ASSUME NEW b \in Attempts, b \in Pooled, Active(b)' PROVE pool'[b].state = "held"
  <2>1. Active(b) /\ AttemptInv(b)
    BY <1>1, <1>8 DEF Active, vars, PoolInv, SupervisorInv
  <2> QED
    BY <1>0, <1>5, <1>8, <2>1, ReleasableIsInactive, RefreshedFacts
       DEF PoolInv, ActiveHoldsReservation
<1> QED
  BY <1>4, <1>6, <1>7, <1>8 DEF PoolInv, HeldAreDisjoint, ActiveHoldsReservation

\* The claim under the lock starts what has a reservation.
LEMMA ClaimKeepsPool ==
  ASSUME PoolInv, NEW a \in Attempts, LauncherClaims(a)
  PROVE  PoolInv'
<1>1. LaunchClaim(a) \/ UNCHANGED vars
  BY DEF LauncherClaims
<1>2. launcher = a /\ launcher' = None /\ UNCHANGED <<pool, lease>>
  BY DEF LauncherClaims
<1>3. TypeOK' /\ SupervisorInv'
  BY <1>1, InvariantStep DEF PoolInv, SupervisorInv, Next
<1>4. PoolTypeOK' /\ HeldAreDisjoint'
  BY <1>2, <1>3 DEF PoolInv, PoolTypeOK, HeldAreDisjoint
<1>5. LauncherIsHeld'
  BY <1>2, NoneAssumption, PoolAssumption DEF LauncherIsHeld
<1>6. ASSUME NEW b \in Attempts, b \in Pooled, Active(b)' PROVE pool'[b].state = "held"
  <2>1. CASE LaunchClaim(a)
    BY <1>2, <1>6, <2>1, ClaimActive DEF PoolInv, PoolTypeOK, ActiveHoldsReservation, LauncherIsHeld
  <2>2. CASE UNCHANGED vars
    BY <1>2, <1>6, <2>2 DEF PoolInv, ActiveHoldsReservation, Active, vars
  <2> QED
    BY <1>1, <2>1, <2>2
<1> QED
  BY <1>3, <1>4, <1>5, <1>6 DEF PoolInv, ActiveHoldsReservation

\* The pool starts empty.
LEMMA PoolStart == PoolInit => PoolInv
<1>1. Init => SupervisorInv
  BY InitialInvariant
<1>2. PoolInit => PoolTypeOK /\ LauncherIsHeld /\ HeldAreDisjoint
  BY <1>1, NoneAssumption, PoolAssumption
     DEF PoolInit, SupervisorInv, PoolTypeOK, NoReservation, LauncherIsHeld, HeldAreDisjoint
<1>3. PoolInit => ActiveHoldsReservation
  BY DEF PoolInit, Init, ActiveHoldsReservation, Active
<1> QED
  BY <1>1, <1>2, <1>3 DEF PoolInit, PoolInv

-----------------------------------------------------------------------------
LEMMA PoolStep == PoolInv /\ [PoolNext]_allVars => PoolInv'
<1> SUFFICES ASSUME PoolInv, [PoolNext]_allVars PROVE PoolInv'
  OBVIOUS
<1>1. CASE Background /\ UNCHANGED poolVars
  BY <1>1, BackgroundKeepsPool
<1>2. CASE PoolRefresh
  BY <1>2, RefreshKeepsPool DEF PoolRefresh
<1>3. CASE LauncherDies \/ UNCHANGED allVars
  BY <1>3, LockKeepsPool DEF LauncherDies, allVars, poolVars, PoolInv, PoolTypeOK
<1>4. ASSUME NEW a \in Attempts, PoolReserve(a) PROVE PoolInv'
  BY <1>4, ReserveKeepsPool
<1>5. ASSUME NEW a \in Attempts, LauncherClaims(a) PROVE PoolInv'
  BY <1>5, ClaimKeepsPool
<1> QED
  BY <1>1, <1>2, <1>3, <1>4, <1>5 DEF PoolNext

\* The pool and the supervisor keep their common invariant (pool_launch,
\* pool_state, launch_claim under compute.lock).
THEOREM PoolInvHolds == PoolSpec => []PoolInv
BY PoolStart, PoolStep, PTL DEF PoolSpec

\* What a task may still run, a forgotten descendant included, is covered by a
\* reservation that was not given back (safe_terminal, pool_state).
THEOREM ActiveIsHeld == PoolSpec => []ActiveHoldsReservation
<1>1. PoolInv => ActiveHoldsReservation
  BY DEF PoolInv
<1> QED
  BY <1>1, PoolInvHolds, PTL

\* Two tasks that may run share no CPU (pool_launch: free of all reservations).
THEOREM CpuExclusiveHolds == PoolSpec => []CpuExclusive
<1>1. PoolInv => CpuExclusive
  BY PoolAssumption DEF PoolInv, ActiveHoldsReservation, HeldAreDisjoint, CpuExclusive
<1> QED
  BY <1>1, PoolInvHolds, PTL

-----------------------------------------------------------------------------
(* The lease, beside the pool.                                             *)

KeepTypeOK ==
  /\ waiting \subseteq Attempts /\ answering \subseteq Attempts /\ settled \subseteq Attempts
  /\ removed \subseteq Tasks

\* The lock's holder, and what is in flight, without the pool has the lease.
LauncherHasLease == \A a \in Attempts \ Pooled : launcher = a => lease = a
InFlightHasLease == \A a \in Attempts \ Pooled : InFlight(a) => lease = a

\* What goes on of an attempt that lost the lease is left by an end on record.
LeftBehindHasEnded == \A a \in Attempts \ Pooled :
  lease # a /\ members[a] \ {"wrapper"} # {} => file[a].status \in Terminal

Leased == LauncherHasLease /\ InFlightHasLease /\ LeftBehindHasEnded

\* A pooled attempt without a reservation was never launched.
WithoutReservation == \A a \in Pooled :
  pool[a].state = "none" =>
    /\ phase[a] = "none" /\ ~file[a].registered
    /\ file[a].status \in {"succeeded", "failed"} => file[a].verified

\* A verdict that was answered for: its state stays terminal, and the request of
\* an attempt that never had a process is not open.
SettledIsTerminal == \A a \in settled :
  file[a].status \in Terminal /\ (~file[a].registered => request[a].status # "pending")

\* A reservation made after the answer is of an attempt that was cancelled before
\* its launch.
LateWasCancelled == \A a \in settled :
  pool[a].state = "held" => file[a].verified /\ ~file[a].registered

Answered == WithoutReservation /\ SettledIsTerminal /\ LateWasCancelled

\* A reservation without its directory has lost its launch command too.
RootOrOrphan == \A a \in Held(pool) : RootPresent(a) \/ Orphaned(a)

ReclaimInv == PoolInv /\ KeepTypeOK /\ Leased /\ Answered /\ RootOrOrphan

-----------------------------------------------------------------------------
\* Nothing but a claimed launch puts an attempt in flight.
LEMMA BackgroundInFlight ==
  ASSUME SupervisorInv, Background, NEW b \in Attempts, InFlight(b)'
  PROVE  InFlight(b)
<1>1. TypeOK /\ AttemptInv(b)
  BY DEF SupervisorInv
<1> USE <1>1 DEF TypeOK, InFlight
<1>2. ASSUME NEW a \in Attempts, Cancel(a) PROVE InFlight(b)
  BY <1>2 DEF Cancel, CancelBeforeLaunch, CancelIntent, CancelChecks, CancelSaves
<1>3. ASSUME NEW a \in Attempts, WrapperStep(a) PROVE InFlight(b)
  BY <1>3 DEF WrapperStep, ConsumeIntent, Register, StartCommand, SaveOutcome, WrapperExits
<1>4. ASSUME NEW a \in Attempts, WorkerStep(a) PROVE InFlight(b)
  BY <1>4 DEF WorkerStep, WorkerVerifies, WorkerTerminates, WorkerKills, WorkerConfirms
<1>5. ASSUME NEW a \in Attempts, CommandForks(a) \/ CommandExits(a) \/ WrapperKilled(a) \/ WorkerDies(a)
      PROVE  InFlight(b)
  BY <1>5 DEF CommandForks, CommandExits, WrapperKilled, WorkerDies
<1>6. CASE HostReboots
  BY <1>6 DEF HostReboots
<1> QED
  BY <1>2, <1>3, <1>4, <1>5, <1>6 DEF Background

LEMMA ClaimInFlight ==
  ASSUME TypeOK, NEW a \in Attempts, LaunchClaim(a), NEW b \in Attempts, InFlight(b)'
  PROVE  InFlight(b) \/ b = a
BY DEF TypeOK, InFlight, LaunchClaim

\* Without a process only the launch and an early cancellation write the file.
LEMMA UnlaunchedStep ==
  ASSUME SupervisorInv, Background, NEW b \in Attempts, phase[b] = "none", ~file[b].registered,
         file[b].status \in {"succeeded", "failed"} => file[b].verified
  PROVE  /\ phase'[b] = "none" /\ ~file'[b].registered
         /\ file'[b].status \in {"succeeded", "failed"} => file'[b].verified
<1> DEFINE Goal == /\ phase'[b] = "none" /\ ~file'[b].registered
                   /\ file'[b].status \in {"succeeded", "failed"} => file'[b].verified
<1>1. TypeOK /\ AttemptInv(b) /\ members[b] = {}
  BY DEF SupervisorInv, AttemptInv, UnclaimedIsUntouched
<1> USE <1>1 DEF TypeOK
<1>2. ASSUME NEW a \in Attempts, CancelBeforeLaunch(a) PROVE Goal
  BY <1>2 DEF CancelBeforeLaunch, StateFile
<1>3. ASSUME NEW a \in Attempts, CancelIntent(a) \/ CancelChecks(a) \/ CancelSaves(a) PROVE Goal
  BY <1>3 DEF CancelIntent, CancelChecks, CancelSaves
<1>4. ASSUME NEW a \in Attempts, WrapperStep(a) PROVE Goal
  BY <1>4 DEF WrapperStep, ConsumeIntent, Register, StartCommand, SaveOutcome, WrapperExits
<1>5. ASSUME NEW a \in Attempts, WorkerVerifies(a) \/ WorkerTerminates(a) \/ WorkerKills(a) PROVE Goal
  BY <1>5 DEF WorkerVerifies, WorkerTerminates, WorkerKills
<1>6. ASSUME NEW a \in Attempts, WorkerConfirms(a) PROVE Goal
  BY <1>6 DEF WorkerConfirms, AttemptInv, WorkerHasRequest, Cancelling
<1>7. ASSUME NEW a \in Attempts, CommandForks(a) \/ CommandExits(a) \/ WrapperKilled(a) \/ WorkerDies(a)
      PROVE  Goal
  BY <1>7 DEF CommandForks, CommandExits, WrapperKilled, WorkerDies
<1>8. CASE HostReboots
  BY <1>8 DEF HostReboots
<1> QED
  BY <1>2, <1>3, <1>4, <1>5, <1>6, <1>7, <1>8 DEF Background, Cancel, WorkerStep

\* A death that only the count of faults shows.
LEMMA FaultKeepsPool ==
  ASSUME PoolInv, faults < MaxFaults, faults' = faults + 1,
         UNCHANGED <<file, active, request, members, phase, worker, starts, pool, launcher>>,
         lease' \in Attempts \cup {None}
  PROVE  PoolInv'
<1>1. TypeOK'
  BY FaultAssumption DEF PoolInv, SupervisorInv, TypeOK
<1>2. SupervisorInv'
  BY <1>1, Undisturbed DEF PoolInv, SupervisorInv
<1>3. PoolTypeOK' /\ LauncherIsHeld' /\ HeldAreDisjoint' /\ ActiveHoldsReservation'
  BY <1>1 DEF PoolInv, PoolTypeOK, LauncherIsHeld, HeldAreDisjoint, ActiveHoldsReservation, Active
<1> QED
  BY <1>2, <1>3 DEF PoolInv

-----------------------------------------------------------------------------
\* A terminal verdict is that of a terminal state.
LEMMA TerminalFile ==
  ASSUME SupervisorInv, NEW a \in Attempts, Observed(a) \in Terminal
  PROVE  file[a].status \in Terminal /\ request[a].status # "pending"
BY DEF SupervisorInv, AttemptInv, VerifiedIsFailed, Observed, Verdict, Terminal

\* An answered attempt that never had a reservation was cancelled before its
\* launch.
LEMMA SettledWithoutReservation ==
  ASSUME PoolInv, KeepTypeOK, Answered, NEW a \in settled, a \in Pooled, pool[a].state = "none"
  PROVE  file[a].verified /\ ~file[a].registered
<1>1. a \in Attempts /\ TypeOK /\ file[a].status \in Terminal
  BY DEF PoolInv, SupervisorInv, KeepTypeOK, Answered, SettledIsTerminal
<1>2. file[a].status \in {"succeeded", "failed"}
  BY <1>1 DEF TypeOK, StateFile, FileStatus, Terminal
<1> QED
  BY <1>2 DEF Answered, WithoutReservation

\* What was answered for stays so in a step that leaves the supervisor's rules in
\* force.
LEMMA SettledStays ==
  ASSUME PoolInv, KeepTypeOK, Answered, [Next]_vars, NEW a \in settled
  PROVE  /\ file'[a].status \in Terminal /\ (~file'[a].registered => request'[a].status # "pending")
         /\ file'[a].registered = file[a].registered
         /\ file[a].verified => file'[a].verified
<1>1. a \in Attempts /\ SupervisorInv /\ file[a].status \in Terminal
  BY DEF PoolInv, KeepTypeOK, Answered, SettledIsTerminal
<1> QED
  BY <1>1, VerdictStep DEF Answered, SettledIsTerminal

\* Taking the lease, with what it asks of the attempt that had it.
LEMMA TakeKeepsLeased ==
  ASSUME PoolInv, Leased, NEW a \in Attempts, LeaseTake(a)
  PROVE  Leased'
<1>1. lease' = a /\ launcher' = a /\ UNCHANGED vars /\ a \notin Pooled
  BY DEF LeaseTake
<1>2. ASSUME NEW b \in Attempts \ Pooled, InFlight(b)' PROVE b = a
  <2>1. InFlight(b) /\ lease = b
    BY <1>1, <1>2 DEF InFlight, vars, Leased, InFlightHasLease
  <2>2. Observed(b) \notin Terminal
    BY <2>1, InFlightIsNotTerminal DEF PoolInv, SupervisorInv
  <2> QED
    BY <2>1, <2>2 DEF LeaseTake, LeaseFree
<1>3. ASSUME NEW b \in Attempts \ Pooled, b # a, members[b] \ {"wrapper"} # {}
      PROVE  file[b].status \in Terminal
  <2>1. CASE lease = b
    BY <1>3, <2>1, TerminalFile DEF LeaseTake, LeaseFree, PoolInv
  <2>2. CASE lease # b
    BY <1>3, <2>2 DEF Leased, LeftBehindHasEnded
  <2> QED
    BY <2>1, <2>2
<1> QED
  BY <1>1, <1>2, <1>3 DEF Leased, LauncherHasLease, InFlightHasLease, LeftBehindHasEnded, vars

\* The lease is moved away only when its task has no process left.
LEMMA ReclaimKeepsLeased ==
  ASSUME PoolInv, Leased, NEW t \in Tasks, Reclaim(t)
  PROVE  Leased'
<1>1. /\ launcher = None /\ launcher' = None /\ UNCHANGED <<file, phase, members>>
      /\ NoLiveProcess(t) /\ TaskOf[lease] = t
  BY DEF Reclaim, vars
<1>2. ASSUME NEW b \in Attempts \ Pooled, InFlight(b)' PROVE lease' = b
  <2>1. InFlight(b) /\ lease = b /\ AttemptInv(b)
    BY <1>1, <1>2 DEF InFlight, Leased, InFlightHasLease, PoolInv, SupervisorInv
  <2>2. members[b] = {}
    BY <1>1, <2>1 DEF NoLiveProcess, AttemptsOf
  <2> QED
    BY <2>1, <2>2 DEF InFlight, AttemptInv, WrapperMatchesPhase
<1>3. ASSUME NEW b \in Attempts \ Pooled, members[b] \ {"wrapper"} # {}, lease' # b
      PROVE  file[b].status \in Terminal
  <2>1. lease # b
    BY <1>1, <1>3 DEF NoLiveProcess, AttemptsOf
  <2> QED
    BY <1>3, <2>1 DEF Leased, LeftBehindHasEnded
<1> QED
  BY <1>1, <1>2, <1>3, NoneAssumption DEF Leased, LauncherHasLease, InFlightHasLease, LeftBehindHasEnded

\* Beside the admission only what is in flight gets descendants.
LEMMA BackgroundKeepsLeased ==
  ASSUME PoolInv, Leased, Background, UNCHANGED poolVars
  PROVE  Leased'
<1>1. SupervisorInv /\ [Next]_vars /\ SupervisorInv'
  BY InvariantStep DEF PoolInv, Next
<1>2. LauncherHasLease' /\ InFlightHasLease'
  BY <1>1, BackgroundInFlight DEF Leased, LauncherHasLease, InFlightHasLease, poolVars
<1>3. ASSUME NEW b \in Attempts \ Pooled, lease' # b, (members[b] \ {"wrapper"} # {})'
      PROVE  file'[b].status \in Terminal
  <2>1. Active(b)'
    BY <1>1, <1>3 DEF SupervisorInv, TypeOK, Roles, Active
  <2>2. Active(b) /\ ~InFlight(b) /\ lease # b
    BY <1>1, <1>3, <2>1, BackgroundActive DEF Leased, InFlightHasLease, poolVars
  <2>3. members[b] \ {"wrapper"} # {}
    BY <2>2 DEF Active, InFlight
  <2>4. file[b].status \in Terminal
    BY <2>2, <2>3 DEF Leased, LeftBehindHasEnded
  <2> QED
    BY <1>1, <2>4, VerdictStep
<1> QED
  BY <1>2, <1>3 DEF Leased, LeftBehindHasEnded

\* The claim starts its attempt with a session of its own.
LEMMA ClaimKeepsLeased ==
  ASSUME PoolInv, Leased, NEW a \in Attempts, LauncherClaims(a)
  PROVE  Leased'
<1>1. /\ launcher = a /\ launcher' = None /\ UNCHANGED <<pool, lease>>
      /\ LaunchClaim(a) \/ UNCHANGED vars
  BY DEF LauncherClaims
<1>2. ASSUME NEW b \in Attempts \ Pooled, InFlight(b)' PROVE lease' = b
  BY <1>1, <1>2, ClaimInFlight
     DEF PoolInv, SupervisorInv, Leased, InFlightHasLease, LauncherHasLease, InFlight, vars
<1>3. ASSUME NEW b \in Attempts \ Pooled, lease' # b, (members[b] \ {"wrapper"} # {})'
      PROVE  file'[b].status \in Terminal
  <2>1. b # a
    BY <1>1, <1>3 DEF Leased, LauncherHasLease
  <2>2. members'[b] = members[b] /\ file'[b] = file[b]
    BY <1>1, <2>1 DEF LaunchClaim, vars, PoolInv, SupervisorInv, TypeOK
  <2> QED
    BY <1>1, <1>3, <2>2 DEF Leased, LeftBehindHasEnded
<1> QED
  BY <1>1, <1>2, <1>3, NoneAssumption DEF Leased, LauncherHasLease, InFlightHasLease, LeftBehindHasEnded

-----------------------------------------------------------------------------
\* The rules of the pool and the lease are kept by every step.
LEMMA LeasedStep ==
  ASSUME PoolInv, Leased, [ReclaimNext]_<<allVars, keepVars>>
  PROVE  PoolInv' /\ Leased'
<1>0. TypeOK /\ SupervisorInv /\ PoolTypeOK
  BY DEF PoolInv, SupervisorInv
<1>1. CASE Background /\ UNCHANGED poolVars
  <2>1. PoolInv'
    BY <1>1, BackgroundKeepsPool
  <2>2. Leased'
    BY <1>1, BackgroundKeepsLeased
  <2> QED
    BY <2>1, <2>2
<1>2. CASE /\ UNCHANGED <<vars, lease>> /\ launcher' \in {launcher, None}
           /\ UNCHANGED pool \/ (launcher = None /\ launcher' = None /\ pool' = Refreshed)
  <2>1. PoolInv'
    BY <1>0, <1>2, RefreshKeepsPool, LockKeepsPool DEF PoolTypeOK
  <2>2. Leased'
    BY <1>2, NoneAssumption DEF Leased, LauncherHasLease, InFlightHasLease, LeftBehindHasEnded, InFlight, vars
  <2> QED
    BY <2>1, <2>2
<1>3. ASSUME NEW a \in Attempts, Reserve(a) PROVE PoolInv' /\ Leased'
  <2>1. PoolReserve(a) /\ launcher' = a /\ a \in Pooled /\ UNCHANGED <<vars, lease>>
    BY <1>3 DEF Reserve, PoolReserve
  <2>2. PoolInv'
    BY <2>1, ReserveKeepsPool
  <2>3. Leased'
    BY <2>1 DEF Leased, LauncherHasLease, InFlightHasLease, LeftBehindHasEnded, InFlight, vars
  <2> QED
    BY <2>2, <2>3
<1>4. ASSUME NEW a \in Attempts, Take(a) PROVE PoolInv' /\ Leased'
  <2>1. LeaseTake(a)
    BY <1>4 DEF Take
  <2>2. PoolInv'
    BY <2>1, LockKeepsPool DEF LeaseTake
  <2> QED
    BY <2>1, <2>2, TakeKeepsLeased
<1>5. ASSUME NEW a \in Attempts, Claim(a) PROVE PoolInv' /\ Leased'
  BY <1>5, ClaimKeepsPool, ClaimKeepsLeased DEF Claim
<1>6. ASSUME NEW t \in Tasks, Reclaim(t) PROVE PoolInv' /\ Leased'
  <2>1. /\ lease' \in Attempts \cup {None}
        /\ UNCHANGED <<file, active, request, members, phase, worker, starts, pool, launcher>>
        /\ UNCHANGED vars \/ (faults < MaxFaults /\ faults' = faults + 1)
    BY <1>0, <1>6 DEF Reclaim, vars, PoolTypeOK
  <2>2. PoolInv'
    BY <2>1, LockKeepsPool, FaultKeepsPool
  <2> QED
    BY <1>6, <2>2, ReclaimKeepsLeased
<1>7. CASE UNCHANGED <<allVars, keepVars>>
  BY <1>2, <1>7 DEF allVars, poolVars
<1>8. CASE Report
  BY <1>2, <1>8 DEF Report
<1>9. CASE CallDies
  BY <1>2, <1>9 DEF CallDies
<1>10. ASSUME NEW a \in Attempts, Arrive(a) \/ Withdraw(a) \/ Return(a) \/ Answer(a)
       PROVE  PoolInv' /\ Leased'
  BY <1>2, <1>10 DEF Arrive, Withdraw, Return, Answer, poolVars
<1>11. ASSUME NEW t \in Tasks, RemoveTask(t) PROVE PoolInv' /\ Leased'
  BY <1>2, <1>11 DEF RemoveTask, poolVars
<1> QED
  BY <1>1, <1>3, <1>4, <1>5, <1>6, <1>7, <1>8, <1>9, <1>10, <1>11 DEF ReclaimNext

\* Calls come and go, reservations are released, attempts are answered for; files
\* and directories stay.
LEMMA CallsMove ==
  ASSUME ReclaimInv, UNCHANGED <<file, request, phase, removed>>,
         waiting' \subseteq Attempts, answering' \subseteq Attempts,
         settled \subseteq settled', settled' \subseteq Attempts,
         \A b \in settled' \ settled :
            /\ file[b].status \in Terminal /\ request[b].status # "pending"
            /\ pool'[b].state # "held",
         \A b \in Attempts : /\ pool'[b].state = "held" => pool[b].state = "held"
                             /\ pool'[b].state = "none" => pool[b].state = "none",
         \A b \in Attempts : b \in ({launcher} \cup waiting \cup answering)' =>
                             b \in {launcher} \cup waiting \cup answering \/ RootPresent(b)
  PROVE  KeepTypeOK' /\ Answered' /\ RootOrOrphan'
<1> USE DEF ReclaimInv, Answered
<1>1. KeepTypeOK' /\ WithoutReservation'
  BY PoolAssumption DEF KeepTypeOK, WithoutReservation
<1>2. SettledIsTerminal' /\ LateWasCancelled'
  BY DEF KeepTypeOK, SettledIsTerminal, LateWasCancelled
<1>3. ASSUME NEW b \in Held(pool'), ~RootPresent(b) PROVE Orphaned(b)'
  <2>1. b \in Attempts /\ Orphaned(b)
    BY <1>3 DEF Held, RootOrOrphan
  <2>2. \A c \in AttemptsOf(TaskOf[b]) : c \in Attempts /\ ~RootPresent(c)
    BY <1>3 DEF AttemptsOf, RootPresent
  <2>3. NoTaskProcess(TaskOf[b])'
    BY <2>1, <2>2 DEF Orphaned, NoTaskProcess, AttemptsOf
  <2> QED
    BY <2>1, <2>3 DEF Orphaned
<1>4. RootOrOrphan'
  BY <1>3 DEF RootOrOrphan, RootPresent
<1> QED
  BY <1>1, <1>2, <1>4

\* The invariant is kept by every step.
LEMMA ReclaimStep ==
  ASSUME ReclaimInv, [ReclaimNext]_<<allVars, keepVars>>
  PROVE  ReclaimInv'
<1> SUFFICES KeepTypeOK' /\ Answered' /\ RootOrOrphan'
  BY LeasedStep DEF ReclaimInv
<1> DEFINE Goal == KeepTypeOK' /\ Answered' /\ RootOrOrphan'
<1>0. /\ TypeOK /\ SupervisorInv /\ PoolTypeOK /\ PoolInv
      /\ KeepTypeOK /\ Leased /\ Answered /\ RootOrOrphan
  BY DEF ReclaimInv, PoolInv, SupervisorInv
<1> USE <1>0
<1>1. CASE Background /\ Absent /\ UNCHANGED <<poolVars, keepVars>>
  <2>1. KeepTypeOK'
    BY <1>1 DEF KeepTypeOK, keepVars
  <2>2. WithoutReservation'
    BY <1>1, UnlaunchedStep, PoolAssumption DEF Answered, WithoutReservation, poolVars
  <2>3. SettledIsTerminal' /\ LateWasCancelled'
    BY <1>1, SettledStays DEF Next, Answered, SettledIsTerminal, LateWasCancelled, keepVars, poolVars
  <2>4. RootOrOrphan'
    BY <1>1, SettledStays
       DEF Next, RootOrOrphan, Held, RootPresent, Orphaned, NoTaskProcess, AttemptsOf, keepVars, poolVars
  <2> QED
    BY <2>1, <2>2, <2>3, <2>4 DEF Answered
<1>2. CASE Report
  <2>1. /\ pool' = Refreshed
        /\ UNCHANGED <<vars, launcher, waiting, answering, settled, removed>>
    BY <1>2 DEF Report
  <2>2. ASSUME NEW b \in Attempts
        PROVE  /\ pool'[b].state = "held" => pool[b].state = "held"
               /\ pool'[b].state = "none" => pool[b].state = "none"
    <3>1. pool' = pool \/ pool'[b] = Refreshed[b]
      BY <2>1
    <3> QED
      BY <3>1, RefreshedFacts
  <2> QED
    BY <2>1, <2>2, CallsMove DEF vars, KeepTypeOK
<1>3. CASE CallDies
  BY <1>3, CallsMove, NoneAssumption DEF CallDies, vars, KeepTypeOK
<1>4. ASSUME NEW a \in Attempts, Arrive(a) \/ Withdraw(a) PROVE Goal
  BY <1>4, CallsMove DEF Arrive, Withdraw, vars, poolVars, KeepTypeOK
<1>5. ASSUME NEW a \in Attempts, Reserve(a) PROVE Goal
  <2>1. /\ launcher = None /\ launcher' = a /\ a \in Pooled /\ pool[a].state = "none"
        /\ waiting' = waiting \ {a} /\ RootPresent(a)
        /\ UNCHANGED <<vars, answering, settled, removed>> /\ PoolReserve(a)
    BY <1>5 DEF Reserve, PoolReserve
  <2>2. pool'[a].state = "held" /\ \A b \in Attempts \ {a} : pool'[b] = Refreshed[b]
    BY <2>1, RefreshedType DEF PoolReserve
  <2>3. \A b \in Attempts : /\ pool'[b].state = "held" => pool[b].state = "held" \/ b = a
                            /\ pool'[b].state = "none" => pool[b].state = "none"
    BY <2>2, RefreshedFacts
  <2>4. KeepTypeOK' /\ WithoutReservation' /\ SettledIsTerminal'
    BY <2>1, <2>3, PoolAssumption DEF KeepTypeOK, Answered, WithoutReservation, SettledIsTerminal, vars
  <2>5. ASSUME NEW b \in settled, pool'[b].state = "held" PROVE file[b].verified /\ ~file[b].registered
    <3>1. CASE b = a
      BY <2>1, <3>1, SettledWithoutReservation
    <3>2. CASE b # a
      BY <2>3, <2>5, <3>2 DEF KeepTypeOK, Answered, LateWasCancelled
    <3> QED
      BY <3>1, <3>2
  <2>6. LateWasCancelled'
    BY <2>1, <2>5 DEF LateWasCancelled, vars
  <2>7. ASSUME NEW b \in Held(pool'), ~RootPresent(b) PROVE Orphaned(b)'
    <3>1. b \in Attempts /\ Orphaned(b) /\ TaskOf[b] # TaskOf[a]
      BY <2>1, <2>3, <2>7 DEF Held, RootOrOrphan, RootPresent
    <3> QED
      BY <2>1, <3>1 DEF Orphaned, NoTaskProcess, AttemptsOf, vars
  <2>8. RootOrOrphan'
    BY <2>1, <2>7 DEF RootOrOrphan, RootPresent
  <2> QED
    BY <2>4, <2>6, <2>8 DEF Answered
<1>6. ASSUME NEW a \in Attempts, Take(a) PROVE Goal
  BY <1>6, CallsMove DEF Take, LeaseTake, vars, KeepTypeOK
<1>7. ASSUME NEW a \in Attempts, Claim(a) PROVE Goal
  <2>1. /\ launcher = a /\ launcher' = None /\ answering' = answering \cup {a}
        /\ UNCHANGED <<pool, waiting, settled, removed>>
        /\ [Next]_vars /\ (LaunchClaim(a) \/ UNCHANGED vars)
    BY <1>7 DEF Claim, LauncherClaims, Next
  <2>2. KeepTypeOK' /\ SettledIsTerminal' /\ LateWasCancelled'
    BY <2>1, SettledStays DEF KeepTypeOK, Answered, SettledIsTerminal, LateWasCancelled
  <2>3. ASSUME NEW b \in Pooled, pool[b].state = "none"
        PROVE  /\ phase'[b] = "none" /\ ~file'[b].registered
               /\ file'[b].status \in {"succeeded", "failed"} => file'[b].verified
    <3>1. b \in Attempts /\ b # a
      BY <2>1, <2>3, PoolAssumption DEF PoolInv, LauncherIsHeld
    <3>2. phase'[b] = phase[b] /\ file'[b] = file[b]
      BY <2>1, <3>1 DEF LaunchClaim, vars, TypeOK
    <3> QED
      BY <2>3, <3>2 DEF Answered, WithoutReservation
  <2>4. WithoutReservation'
    BY <2>1, <2>3 DEF WithoutReservation
  <2>5. ASSUME NEW b \in Held(pool), ~RootPresent(b) PROVE Orphaned(b)'
    <3>1. b \in Attempts /\ Orphaned(b) /\ TaskOf[b] # TaskOf[a]
      BY <2>1, <2>5 DEF Held, RootOrOrphan, Orphaned, NoTaskProcess, AttemptsOf
    <3>2. NoTaskProcess(TaskOf[b])'
      BY <2>1, <3>1, NoneAssumption DEF Orphaned, NoTaskProcess, AttemptsOf
    <3> QED
      BY <2>1, <3>1, <3>2, SettledStays DEF Orphaned
  <2>6. RootOrOrphan'
    BY <2>1, <2>5 DEF RootOrOrphan, RootPresent
  <2> QED
    BY <2>2, <2>4, <2>6 DEF Answered
<1>8. ASSUME NEW a \in Attempts, Return(a) PROVE Goal
  <2>1. /\ pool' = Refreshed \/ UNCHANGED pool
        /\ answering' = answering \ {a}
        /\ UNCHANGED <<vars, launcher, waiting, settled, removed>>
    BY <1>8 DEF Return
  <2>2. ASSUME NEW b \in Attempts
        PROVE  /\ pool'[b].state = "held" => pool[b].state = "held"
               /\ pool'[b].state = "none" => pool[b].state = "none"
    <3>1. pool' = pool \/ pool'[b] = Refreshed[b]
      BY <2>1
    <3> QED
      BY <3>1, RefreshedFacts
  <2> QED
    BY <2>1, <2>2, CallsMove DEF vars, KeepTypeOK
<1>9. ASSUME NEW a \in Attempts, Answer(a) PROVE Goal
  <2>1. /\ settled' = settled \cup {a} /\ Answerable(a)
        /\ UNCHANGED <<vars, launcher, waiting, answering, removed>>
        /\ IF pool[a].state = "none" THEN UNCHANGED pool ELSE pool' = Refreshed
    BY <1>9 DEF Answer
  <2>2. ASSUME NEW b \in Attempts
        PROVE  /\ pool'[b].state = "held" => pool[b].state = "held"
               /\ pool'[b].state = "none" => pool[b].state = "none"
    <3>1. pool' = pool \/ pool'[b] = Refreshed[b]
      BY <2>1
    <3> QED
      BY <3>1, RefreshedFacts
  <2>3. file[a].status \in Terminal /\ request[a].status # "pending"
    BY <2>1, TerminalFile DEF Answerable
  <2>4. pool'[a].state # "held"
    BY <2>1, RefreshedFacts DEF Answerable, Releasable
  <2> QED
    BY <2>1, <2>2, <2>3, <2>4, CallsMove DEF vars, KeepTypeOK
<1>10. ASSUME NEW t \in Tasks, RemoveTask(t) PROVE Goal
  <2>1. /\ removed' = removed \cup {t} /\ \A a \in Begun(t) : Proven(a)
        /\ UNCHANGED <<vars, poolVars, waiting, answering, settled>>
    BY <1>10 DEF RemoveTask
  <2>2. KeepTypeOK' /\ WithoutReservation' /\ SettledIsTerminal' /\ LateWasCancelled'
    BY <2>1 DEF KeepTypeOK, Answered, WithoutReservation, SettledIsTerminal, LateWasCancelled, vars, poolVars
  <2>3. ASSUME NEW a \in Held(pool), TaskOf[a] = t PROVE Orphaned(a)
    <3>1. a \in Begun(t) /\ a \in Attempts /\ pool[a].state = "held"
      BY <2>3 DEF Held, Begun, AttemptsOf
    <3>2. a \in settled /\ (file[a].registered \/ NoTaskProcess(t))
      BY <2>1, <2>3, <3>1 DEF Proven
    <3> QED
      BY <2>3, <3>1, <3>2 DEF Answered, LateWasCancelled, Orphaned
  <2>4. ASSUME NEW a \in Held(pool) PROVE (RootPresent(a) \/ Orphaned(a))'
    BY <2>1, <2>3, <2>4 DEF RootOrOrphan, RootPresent, Orphaned, NoTaskProcess, AttemptsOf, vars, poolVars
  <2>5. RootOrOrphan'
    BY <2>1, <2>4 DEF RootOrOrphan, poolVars
  <2> QED
    BY <2>2, <2>5 DEF Answered
<1>11. ASSUME NEW t \in Tasks, Reclaim(t) PROVE Goal
  BY <1>11, CallsMove DEF Reclaim, vars, KeepTypeOK
<1>12. CASE UNCHANGED <<allVars, keepVars>>
  BY <1>12, CallsMove DEF allVars, poolVars, keepVars, vars, KeepTypeOK
<1> QED
  BY <1>1, <1>2, <1>3, <1>4, <1>5, <1>6, <1>7, <1>8, <1>9, <1>10, <1>11, <1>12 DEF ReclaimNext

\* Nothing is launched, answered or removed at the start.
LEMMA ReclaimStart == ReclaimInit => ReclaimInv
<1> SUFFICES ASSUME ReclaimInit PROVE ReclaimInv
  OBVIOUS
<1>1. PoolInv
  BY PoolStart DEF ReclaimInit
<1>2. KeepTypeOK /\ SettledIsTerminal /\ LateWasCancelled /\ RootOrOrphan
  BY DEF ReclaimInit, KeepTypeOK, SettledIsTerminal, LateWasCancelled, RootOrOrphan, RootPresent
<1>3. WithoutReservation /\ Leased
  BY NoneAssumption, PoolAssumption DEF ReclaimInit, PoolInit, Init, WithoutReservation, Leased,
     LauncherHasLease, InFlightHasLease, LeftBehindHasEnded, InFlight
<1> QED
  BY <1>1, <1>2, <1>3 DEF ReclaimInv, Answered

-----------------------------------------------------------------------------
\* The pool and the lease keep their rules side by side (launch, pool_launch,
\* reclaim), whatever dies.
THEOREM LeasedHolds == ReclaimSpec => [](PoolInv /\ Leased)
<1>1. ReclaimInit => PoolInv /\ Leased
  BY ReclaimStart DEF ReclaimInv
<1>2. PoolInv /\ Leased /\ [ReclaimNext]_<<allVars, keepVars>> => (PoolInv /\ Leased)'
  BY LeasedStep
<1> QED
  BY <1>1, <1>2, PTL DEF ReclaimSpec

\* One attempt launched under the single lease has a command that runs or may
\* begin, and beside it only descendants go on that an earlier attempt left with
\* its end on record: the lease passes on, or is reclaimed, on no weaker evidence
\* (launch, reclaim).
THEOREM OneLeasedHolds == ReclaimSpec => []OneLeasedCommand
<1>1. ASSUME PoolInv /\ Leased, NEW a \in Attempts \ Pooled, NEW b \in Attempts \ Pooled,
             a # b, InFlight(a)
      PROVE  /\ ~InFlight(b)
             /\ members[b] \ {"wrapper"} # {} =>
                    file[b].status \in {"succeeded", "failed"} /\ ~file[b].verified
  <2>1. lease = a /\ ~InFlight(b) /\ AttemptInv(b) /\ TypeOK
    BY <1>1 DEF Leased, InFlightHasLease, PoolInv, SupervisorInv
  <2>2. ASSUME members[b] \ {"wrapper"} # {}
        PROVE  file[b].status \in {"succeeded", "failed"} /\ ~file[b].verified
    <3>1. file[b].status \in Terminal /\ ~file[b].verified
      BY <1>1, <2>1, <2>2 DEF Leased, LeftBehindHasEnded, AttemptInv, VerifiedIsQuiet
    <3> QED
      BY <2>1, <3>1 DEF TypeOK, StateFile, FileStatus, Terminal
  <2> QED
    BY <2>1, <2>2
<1>2. PoolInv /\ Leased => OneLeasedCommand
  BY <1>1 DEF OneLeasedCommand
<1> QED
  BY <1>2, LeasedHolds, PTL

\* A report, an answer or a late return gives no reservation back under which
\* something may still compute (release_terminal_reservation).
THEOREM ActiveIsHeldBesideLease == ReclaimSpec => []ActiveHoldsReservation
<1>1. PoolInv /\ Leased => ActiveHoldsReservation
  BY DEF PoolInv
<1> QED
  BY <1>1, LeasedHolds, PTL

\* Whatever dies, a held reservation loses its directory in one way only: it was
\* made late, for an attempt that had been cancelled without a process and
\* answered for, and its launch command is gone too, so that nothing computes
\* under it (release_terminal_reservation, terminal_evidence.py, task_deletion.py).
THEOREM RootsHold == ReclaimSpec => [](\A a \in Held(pool) : RootPresent(a) \/ Orphaned(a))
<1>1. ReclaimInv /\ [ReclaimNext]_<<allVars, keepVars>> => ReclaimInv'
  BY ReclaimStep
<1>2. ReclaimInv => \A a \in Held(pool) : RootPresent(a) \/ Orphaned(a)
  BY DEF ReclaimInv, RootOrOrphan
<1> QED
  BY <1>1, <1>2, ReclaimStart, PTL DEF ReclaimSpec

\* Beside the lease, answers, deletions and reclaims the supervisor keeps what it
\* promises: an attempt starts once, a root computes once, a verified cancellation
\* is quiet (launch_claim, cancel, execute).
THEOREM SupervisedBesideLease ==
  ReclaimSpec => [](CommandStartsOnce /\ OneCommandPerRoot /\ VerifiedCancelIsQuiet)
<1>1. PoolInv => CommandStartsOnce /\ OneCommandPerRoot /\ VerifiedCancelIsQuiet
  BY DEF PoolInv, SupervisorInv, AttemptInv, CommandStartsOnce, InFlightIsClaimed, OneCommandPerRoot,
         VerifiedIsQuiet, VerifiedCancelIsQuiet
<1> QED
  BY <1>1, LeasedHolds, PTL
=============================================================================
