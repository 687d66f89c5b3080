----------------------------- MODULE ComputePool -----------------------------
(***************************************************************************)
(* Admission of attempts to the remote machine, scripts/managed_process.py:*)
(* the reservation pool (compute-pool.json, WRF_COMPUTE_MAX_TASKS > 1) and *)
(* the single lease of earlier releases (compute-lease.json), both under   *)
(* compute.lock.  The supervisor below it is ManagedProcess.               *)
(*                                                                         *)
(* The memory test of pool_launch compares a demand with /proc/meminfo,    *)
(* which the model leaves open: it may refuse an admission in any state,   *)
(* and an admission the model does not take is such a refusal.             *)
(***************************************************************************)
EXTENDS ManagedProcess, Integers, FiniteSets

CONSTANTS Pooled,     \* attempts launched with WRF_COMPUTE_MAX_TASKS > 1
          Cpus,       \* CPUs of the scheduling affinity
          Headroom,   \* WRF_COMPUTE_CPU_HEADROOM, CPUs never handed out
          Need,       \* WRF_COMPUTE_CPU_BUDGET of each attempt
          MaxTasks    \* admission count, min(4, WRF_COMPUTE_MAX_TASKS)

ASSUME PoolAssumption ==
    /\ Pooled \subseteq Attempts
    /\ Cpus \subseteq Nat /\ IsFiniteSet(Cpus)
    /\ Headroom \in Nat
    /\ Need \in [Attempts -> Nat \ {0}]
    /\ MaxTasks \in Nat \ {0}

VARIABLES
    pool,      \* reservations of compute-pool.json, by attempt
    lease,     \* the attempt named in compute-lease.json
    launcher   \* the attempt whose launch holds compute.lock

poolVars == <<pool, lease, launcher>>
allVars == <<vars, poolVars>>

NoReservation == [state |-> "none", cpus |-> {}]

PoolTypeOK ==
    /\ TypeOK
    /\ pool \in [Attempts -> [state : {"none", "held", "released"}, cpus : SUBSET Cpus]]
    /\ lease \in Attempts \cup {None}
    /\ launcher \in Attempts \cup {None}

PoolInit ==
    /\ Init
    /\ pool = [a \in Attempts |-> NoReservation]
    /\ lease = None
    /\ launcher = None

Held(p) == {a \in Attempts : p[a].state = "held"}

\* The n smallest members of S: the slice free[:n] of the sorted CPU list.
Lowest(S, n) == {c \in S : Cardinality({d \in S : d < c}) < n}

Usable == Lowest(Cpus, Cardinality(Cpus) - Headroom)

\* Mutants: reserved CPUs are handed out again; uncertainty is enough to release;
\* a verified cancellation is not.
AnyCpus(p) == Usable
ReleasesUncertain(a) == Observed(a) \in Terminal \cup {"unknown"}
HoldsCancelled(a) == SafeTerminal(a) /\ Observed(a) # "cancelled"

FreeCpus(p) == Usable \ UNION {p[a].cpus : a \in Held(p)}

\* The evidence on which pool_state releases a reservation.
Releasable(a) == SafeTerminal(a)

\* pool_state: reservations of safely terminal attempts are released.
Refreshed ==
    [a \in Attempts |-> IF pool[a].state = "held" /\ Releasable(a)
                        THEN [pool[a] EXCEPT !.state = "released"] ELSE pool[a]]

-----------------------------------------------------------------------------
\* A held reservation whose attempt cannot be judged stops every admission.
Uncertain(a) ==
    \/ Observed(a) = "unknown"
    \/ Observed(a) \in Terminal /\ ~file[a].registered /\ ~file[a].verified

LegacyLeaseBlocked == \E a \in Attempts : lease = a /\ ~SafeTerminal(a)

HasPlace(p) == Cardinality(Held(p)) < MaxTasks

\* pool_launch of a key without a reservation: the reservation is durable
\* before launch_claim runs.  A launch that must wait, and one whose key is
\* known, only refreshes the pool (PoolRefresh).
PoolReserve(a) ==
    /\ launcher = None
    /\ a \in Pooled
    /\ pool[a].state = "none"
    /\ ~LegacyLeaseBlocked
    /\ \A b \in Held(Refreshed) : ~Uncertain(b)
    /\ HasPlace(Refreshed)
    /\ LET free == FreeCpus(Refreshed) IN
        /\ Cardinality(free) >= Need[a]
        /\ pool' = [Refreshed EXCEPT ![a] = [state |-> "held", cpus |-> Lowest(free, Need[a])]]
    /\ launcher' = a
    /\ UNCHANGED <<vars, lease>>

\* pool_report, and the refresh every pool_launch saves.
PoolRefresh ==
    /\ launcher = None
    /\ pool' = Refreshed
    /\ pool' # pool
    /\ UNCHANGED <<vars, lease, launcher>>

\* Mutant of LeaseFree: an uncertain lease passes on.
LeaseNotRunning(a) == \A b \in Attempts \ {a} : lease = b => Observed(b) # "running"

\* The lease passes on when its attempt has a terminal verdict.
LeaseFree(a) == \A b \in Attempts \ {a} : lease = b => Observed(b) \in Terminal

\* launch with WRF_COMPUTE_MAX_TASKS = 1.
LeaseTake(a) ==
    /\ launcher = None
    /\ a \notin Pooled
    /\ LeaseFree(a)
    /\ lease' = a
    /\ launcher' = a
    /\ UNCHANGED <<vars, pool>>

\* launch_claim under compute.lock: it launches, or finds the directory or an
\* unsettled previous launch and changes nothing.
LauncherClaims(a) ==
    /\ launcher = a /\ LockFree(TaskOf[a])
    /\ \/ LaunchClaim(a)
       \/ ~(Unclaimed(a) /\ RootIsFree(TaskOf[a])) /\ UNCHANGED vars
    /\ launcher' = None
    /\ UNCHANGED <<pool, lease>>

\* The CLI process dies between the reservation and the claim.
LauncherDies ==
    /\ launcher # None
    /\ launcher' = None
    /\ UNCHANGED <<vars, pool, lease>>

\* A host whose launches all ask the pool; LeaseReclaim adds the lease.
PoolNext ==
    \/ Background /\ UNCHANGED poolVars
    \/ PoolRefresh
    \/ LauncherDies
    \/ \E a \in Attempts : PoolReserve(a) \/ LauncherClaims(a)

PoolSpec == PoolInit /\ [][PoolNext]_allVars

\* Detached processes run; the pool is reported on and cancellation is asked
\* for again and again; a signalling worker comes to SIGKILL after ten
\* seconds.  Commands need not end by themselves.
PoolFairness ==
    /\ WF_allVars(PoolRefresh)
    /\ \A a \in Attempts :
        /\ WF_allVars(WrapperStep(a) /\ UNCHANGED poolVars)
        /\ WF_allVars(Cancel(a) /\ UNCHANGED poolVars)
        /\ WF_allVars(WorkerVerifies(a) /\ UNCHANGED poolVars)
        /\ WF_allVars(WorkerKills(a) /\ UNCHANGED poolVars)
        /\ WF_allVars(WorkerConfirms(a) /\ UNCHANGED poolVars)
        /\ WF_allVars(LauncherClaims(a))

PoolFairSpec == PoolSpec /\ PoolFairness

-----------------------------------------------------------------------------
(* Properties                                                              *)

\* The processes of an attempt that may use CPU time, now or later.
Active(a) ==
    \/ phase[a] \in {"spawned", "registered"}
    \/ members[a] \cap {"command", "stray"} # {}

\* A process of a pooled attempt, a forgotten descendant included, is only
\* ever alive under a reservation that is still held (safe_terminal).
ActiveHoldsReservation == \A a \in Attempts : a \in Pooled /\ Active(a) => pool[a].state = "held"

\* Two attempts whose processes are alive never run on the same CPU.
CpuExclusive ==
    \A a, b \in Pooled : Active(a) /\ Active(b) /\ a # b => pool[a].cpus \cap pool[b].cpus = {}

\* Over all roots, one attempt launched with the single lease has a command that
\* runs or may still begin.  Of an earlier one only descendants may go on beside
\* it, and only when its command came to its end and its wrapper recorded that:
\* the lease passes on by that record alone.  It never passes on beside processes
\* that a cancellation or an unknown end left behind (launch).
OneLeasedCommand ==
    \A a, b \in Attempts \ Pooled :
        a # b /\ InFlight(a) =>
            /\ ~InFlight(b)
            /\ members[b] \ {"wrapper"} # {} =>
                   file[b].status \in {"succeeded", "failed"} /\ ~file[b].verified

\* Every reservation is given back in the end when nothing crashes and no
\* command leaves descendants behind, provided its cancellation is asked for.
ReservationsReturn == \A a \in Attempts : pool[a].state = "held" ~> pool[a].state = "released"

\* A cancellation completes once the whole session has exited (README: the
\* cancel is complete after all MPI processes are confirmed gone).
CancelCompletesAfterExit ==
    \A a \in Attempts :
        request[a].status = "pending" /\ file[a].registered /\ members[a] = {}
            ~> request[a].status = "complete"
=============================================================================
