--------------------------- MODULE ManagedProcess ---------------------------
(***************************************************************************)
(* The remote process supervisor, scripts/managed_process.py.              *)
(*                                                                         *)
(* Every call over SSH is a short-lived CLI process.  What survives it is  *)
(* the files of the task's control root and the processes it detached: the *)
(* wrapper (execute), the command with its descendants, which share the    *)
(* wrapper's session, and the cancellation worker (cancel_execute).        *)
(*                                                                         *)
(* A section under launch.lock is one action, but for that of a cancel     *)
(* which finds the supervisor alive: the wrapper saves its outcome without *)
(* the lock, so it may do that between the check and the save.  A process  *)
(* may die between two of a section's durable writes: the action then      *)
(* stops after a prefix of its writes (Prefixes), which costs one of       *)
(* MaxFaults faults.  Process identities (pid, start ticks, boot id) are   *)
(* exact, so "process_alive" is membership of the live processes.          *)
(***************************************************************************)
EXTENDS Naturals

CONSTANTS Attempts,   \* attempt tokens
          Tasks,      \* tasks; each has one control root
          TaskOf,     \* the task of an attempt
          None,       \* no attempt
          Forking,    \* may a command leave descendants of its own behind?
          MaxFaults   \* bound on deaths of processes and of the host

ASSUME TaskAssumption == TaskOf \in [Attempts -> Tasks]
ASSUME NoneAssumption == None \notin Attempts
ASSUME FaultAssumption == MaxFaults \in Nat /\ Forking \in BOOLEAN

VARIABLES
    file,      \* launches/<token>/state.json
    active,    \* active-launch.json of each control root
    request,   \* launches/<token>/cancellation.json
    members,   \* live, non-zombie processes of the attempt's session
    phase,     \* how far execute() has come
    worker,    \* the cancellation worker recorded in cancellation.json, or a
               \* cancel call between its check and its save ("checked")
    starts,    \* history: how often the attempt's command was started
    faults     \* deaths so far

vars == <<file, active, request, members, phase, worker, starts, faults>>

Terminal == {"succeeded", "failed", "cancelled"}
FileStatus == {"nodir", "nofile", "unknown", "running", "succeeded", "failed"}
Roles == {"wrapper", "command", "stray"}
Phases == {"none", "spawned", "registered", "computing", "saved", "gone"}

\* state.json: "registered" when it holds the wrapper's identity, "verified"
\* when it holds cancelled and cancellation_verified.
StateFile == [status : FileStatus, registered : BOOLEAN, verified : BOOLEAN]

\* cancellation.json, with the processes its worker listed.
Request == [status : {"none", "pending", "complete"}, authorized : SUBSET Roles]

TypeOK ==
    /\ file \in [Attempts -> StateFile]
    /\ active \in [Tasks -> Attempts \cup {None}]
    /\ request \in [Attempts -> Request]
    /\ members \in [Attempts -> SUBSET Roles]
    /\ phase \in [Attempts -> Phases]
    /\ worker \in [Attempts -> {"none", "checked", "spawned", "signalling", "dead"}]
    /\ starts \in [Attempts -> Nat]
    /\ faults \in 0..MaxFaults

Init ==
    /\ file = [a \in Attempts |-> [status |-> "nodir", registered |-> FALSE, verified |-> FALSE]]
    /\ active = [t \in Tasks |-> None]
    /\ request = [a \in Attempts |-> [status |-> "none", authorized |-> {}]]
    /\ members = [a \in Attempts |-> {}]
    /\ phase = [a \in Attempts |-> "none"]
    /\ worker = [a \in Attempts |-> "none"]
    /\ starts = [a \in Attempts |-> 0]
    /\ faults = 0

-----------------------------------------------------------------------------
(* What a reader of the files concludes.                                   *)

\* process_alive of the wrapper identity kept in state.json.
SupervisorAlive(a) == file[a].registered /\ "wrapper" \in members[a]

WorkerAlive(a) == worker[a] \in {"spawned", "signalling"}

\* A cancel call that holds launch.lock, or the worker it detached.
Cancelling(a) == worker[a] \in {"checked", "spawned", "signalling"}

LockFree(t) == \A b \in Attempts : TaskOf[b] = t => worker[b] # "checked"

\* Mutant of Verdict: an attempt whose supervisor is gone has failed.
DeadIsFailed(a, state) ==
    IF request[a].status = "pending" THEN "unknown"
    ELSE IF state.verified THEN "cancelled"
    ELSE IF state.status \in Terminal THEN state.status
    ELSE IF state.registered /\ "wrapper" \notin members[a] THEN "failed" ELSE "unknown"

\* What inspect() returns for a state.json it has read, when it comes to
\* cancellation.json.
Verdict(a, state) ==
    IF request[a].status = "pending"
         THEN IF WorkerAlive(a) THEN "cancel_pending" ELSE "unknown"
    ELSE IF state.verified THEN "cancelled"
    ELSE IF state.status \in Terminal THEN state.status
    ELSE IF state.registered /\ "wrapper" \in members[a] THEN "running" ELSE "unknown"

\* An inspect() no step of another process comes into.  A guard asks it only
\* whether the verdict is terminal, and of the second of two readings with steps
\* between them that is the same: a terminal state.json stays terminal, and is
\* overwritten by nothing but a verified cancellation.  The verdict itself can
\* differ: Inspection reads in two steps.
Observed(a) ==
    IF file[a].status \in {"nodir", "nofile"} THEN "unknown" ELSE Verdict(a, file[a])

\* safe_terminal(): a terminal verdict whose processes have all gone.
SafeTerminal(a) ==
    /\ Observed(a) \in Terminal
    /\ IF file[a].registered THEN members[a] = {} ELSE file[a].verified

\* A dying process leaves a prefix of the n durable writes of its section.
Prefixes(n) == IF faults < MaxFaults THEN 1..n ELSE {n}
CountFault(done, n) == faults' = IF done < n THEN faults + 1 ELSE faults

-----------------------------------------------------------------------------
(* launch_claim                                                            *)

\* An attempt whose directory exists is only inspected, never replayed.
Unclaimed(a) == file[a].status = "nodir"

\* Mutant of RootIsFree: an unknown previous launch does not block.
IgnoresUnknown(t) == \A b \in Attempts : active[t] = b => Observed(b) # "running"

\* The root's previous launch has a terminal verdict.
RootIsFree(t) == \A b \in Attempts : active[t] = b => Observed(b) \in Terminal

LaunchClaim(a) ==
    /\ LockFree(TaskOf[a])
    /\ Unclaimed(a)
    /\ RootIsFree(TaskOf[a])
    /\ \E done \in Prefixes(4) :
        /\ file' = [file EXCEPT ![a].status = IF done = 1 THEN "nofile" ELSE "unknown"]
        /\ active' = IF done < 3 THEN active ELSE [active EXCEPT ![TaskOf[a]] = a]
        /\ phase' = IF done < 4 THEN phase ELSE [phase EXCEPT ![a] = "spawned"]
        /\ members' = IF done < 4 THEN members ELSE [members EXCEPT ![a] = {"wrapper"}]
        /\ CountFault(done, 4)
    /\ UNCHANGED <<request, worker, starts>>

-----------------------------------------------------------------------------
(* cancel                                                                  *)

\* No launch yet: a tombstone that a later launch will find.
CancelBeforeLaunch(a) ==
    /\ LockFree(TaskOf[a])
    /\ file[a].status = "nodir"
    /\ \E done \in Prefixes(2) :
        /\ file' = [file EXCEPT ![a] =
                        IF done = 1 THEN [@ EXCEPT !.status = "nofile"]
                        ELSE [@ EXCEPT !.status = "failed", !.verified = TRUE]]
        /\ CountFault(done, 2)
    /\ UNCHANGED <<active, request, members, phase, worker, starts>>

\* The request is new or its worker died, and state.json is not terminal.
Cancellable(a) ==
    /\ file[a].status \in {"unknown", "running"}
    /\ request[a].status # "complete"
    /\ ~WorkerAlive(a)

\* The claimed child has not registered: leave the intent for it to consume.
CancelIntent(a) ==
    /\ LockFree(TaskOf[a])
    /\ Cancellable(a)
    /\ ~file[a].registered
    /\ request' = [request EXCEPT ![a].status = "pending"]
    /\ UNCHANGED <<file, active, members, phase, worker, starts, faults>>

\* The registered supervisor is alive and its state is not terminal.
CancelChecks(a) ==
    /\ LockFree(TaskOf[a])
    /\ Cancellable(a)
    /\ SupervisorAlive(a)
    /\ worker' = [worker EXCEPT ![a] = "checked"]
    /\ UNCHANGED <<file, active, request, members, phase, starts, faults>>

\* Save the target, detach a worker and save the worker's identity, whatever
\* the wrapper has saved meanwhile.  A worker detached by a CLI process that
\* died before its last save finds no identity of its own there and exits.
CancelSaves(a) ==
    /\ worker[a] = "checked"
    /\ request' = [request EXCEPT ![a].status = "pending"]
    /\ \E done \in Prefixes(2) :
        /\ worker' = [worker EXCEPT ![a] = IF done < 2 THEN "dead" ELSE "spawned"]
        /\ CountFault(done, 2)
    /\ UNCHANGED <<file, active, members, phase, starts>>

Cancel(a) == CancelBeforeLaunch(a) \/ CancelIntent(a) \/ CancelChecks(a) \/ CancelSaves(a)

-----------------------------------------------------------------------------
(* execute, the wrapper                                                    *)

\* A cancellation intent is consumed before any command.
ConsumeIntent(a) ==
    /\ LockFree(TaskOf[a])
    /\ phase[a] = "spawned"
    /\ ~file[a].registered
    /\ request[a].status # "none"
    /\ \E done \in Prefixes(2) :
        /\ file' = [file EXCEPT ![a] = [@ EXCEPT !.status = "failed", !.verified = TRUE]]
        /\ request' = IF done < 2 THEN request ELSE [request EXCEPT ![a].status = "complete"]
        /\ phase' = [phase EXCEPT ![a] = IF done < 2 THEN "gone" ELSE "saved"]
        /\ members' = IF done < 2 THEN [members EXCEPT ![a] = {}] ELSE members
        /\ CountFault(done, 2)
    /\ UNCHANGED <<active, worker, starts>>

Register(a) ==
    /\ LockFree(TaskOf[a])
    /\ phase[a] = "spawned"
    /\ ~file[a].registered
    /\ request[a].status = "none"
    /\ file' = [file EXCEPT ![a] = [@ EXCEPT !.status = "running", !.registered = TRUE]]
    /\ phase' = [phase EXCEPT ![a] = "registered"]
    /\ UNCHANGED <<active, request, members, worker, starts, faults>>

\* Mutant of StartCommand: the wrapper runs a command that ended once more.
RetriesCommand(a) ==
    /\ phase[a] \in {"registered", "computing"}
    /\ "command" \notin members[a]
    /\ phase' = [phase EXCEPT ![a] = "computing"]
    /\ members' = [members EXCEPT ![a] = @ \cup {"command"}]
    /\ starts' = [starts EXCEPT ![a] = @ + 1]
    /\ starts[a] < 3
    /\ UNCHANGED <<file, active, request, worker, faults>>

StartCommand(a) ==
    /\ phase[a] = "registered"
    /\ phase' = [phase EXCEPT ![a] = "computing"]
    /\ members' = [members EXCEPT ![a] = @ \cup {"command"}]
    /\ starts' = [starts EXCEPT ![a] = @ + 1]
    /\ UNCHANGED <<file, active, request, worker, faults>>

\* subprocess.call has returned; state.json is replaced without a lock and
\* without reading it again.
SaveOutcome(a) ==
    /\ phase[a] = "computing"
    /\ "command" \notin members[a]
    /\ \E status \in {"succeeded", "failed"} :
        file' = [file EXCEPT ![a] = [status |-> status, registered |-> TRUE, verified |-> FALSE]]
    /\ phase' = [phase EXCEPT ![a] = "saved"]
    /\ UNCHANGED <<active, request, members, worker, starts, faults>>

WrapperExits(a) ==
    /\ phase[a] = "saved"
    /\ phase' = [phase EXCEPT ![a] = "gone"]
    /\ members' = [members EXCEPT ![a] = @ \ {"wrapper"}]
    /\ UNCHANGED <<file, active, request, worker, starts, faults>>

-----------------------------------------------------------------------------
(* The command and its descendants                                         *)

CommandForks(a) ==
    /\ Forking
    /\ "command" \in members[a]
    /\ members' = [members EXCEPT ![a] = @ \cup {"stray"}]
    /\ UNCHANGED <<file, active, request, phase, worker, starts, faults>>

CommandExits(a) ==
    /\ \E role \in members[a] \ {"wrapper"} : members' = [members EXCEPT ![a] = @ \ {role}]
    /\ UNCHANGED <<file, active, request, phase, worker, starts, faults>>

-----------------------------------------------------------------------------
(* cancel_execute, the worker                                              *)

\* Without the supervisor only processes an earlier worker listed are trusted.
WorkerVerifies(a) ==
    /\ LockFree(TaskOf[a])
    /\ worker[a] = "spawned"
    /\ worker' = [worker EXCEPT ![a] =
                    IF SupervisorAlive(a) \/ members[a] \subseteq request[a].authorized
                    THEN "signalling" ELSE "dead"]
    /\ UNCHANGED <<file, active, request, members, phase, starts, faults>>

\* List the session durably, then signal it: a TERM may be survived.
WorkerTerminates(a) ==
    /\ worker[a] = "signalling"
    /\ members[a] # {}
    /\ request' = [request EXCEPT ![a].authorized = members[a]]
    /\ \E survivors \in SUBSET members[a] :
        /\ members' = [members EXCEPT ![a] = survivors]
        /\ phase' = IF "wrapper" \in members[a] \ survivors
                    THEN [phase EXCEPT ![a] = "gone"] ELSE phase
    /\ UNCHANGED <<file, active, worker, starts, faults>>

\* After ten seconds the listed processes are killed.
WorkerKills(a) ==
    /\ worker[a] = "signalling"
    /\ members[a] # {}
    /\ request' = [request EXCEPT ![a].authorized = members[a]]
    /\ members' = [members EXCEPT ![a] = {}]
    /\ phase' = IF "wrapper" \in members[a] THEN [phase EXCEPT ![a] = "gone"] ELSE phase
    /\ UNCHANGED <<file, active, worker, starts, faults>>

\* Mutants of SessionEmpty: the exit of the wrapper, or of the command, is enough.
OnlyWrapperGone(a) == "wrapper" \notin members[a]
OnlyCommandGone(a) == "command" \notin members[a]

\* No live process of the session remains.
SessionEmpty(a) == members[a] = {}

WorkerConfirms(a) ==
    /\ worker[a] = "signalling"
    /\ SessionEmpty(a)
    /\ \E done \in Prefixes(2) :
        /\ file' = [file EXCEPT ![a] = [@ EXCEPT !.status = "failed", !.verified = TRUE]]
        /\ request' = IF done < 2 THEN request ELSE [request EXCEPT ![a].status = "complete"]
        /\ CountFault(done, 2)
    /\ worker' = [worker EXCEPT ![a] = "dead"]
    /\ UNCHANGED <<active, members, phase, starts>>

-----------------------------------------------------------------------------
(* Faults                                                                  *)

WrapperKilled(a) ==
    /\ faults < MaxFaults
    /\ "wrapper" \in members[a]
    /\ members' = [members EXCEPT ![a] = @ \ {"wrapper"}]
    /\ phase' = [phase EXCEPT ![a] = "gone"]
    /\ faults' = faults + 1
    /\ UNCHANGED <<file, active, request, worker, starts>>

\* The worker is killed, or gives up after its forty rounds; so may the cancel
\* call be before it saves anything.
WorkerDies(a) ==
    /\ faults < MaxFaults
    /\ Cancelling(a)
    /\ worker' = [worker EXCEPT ![a] = "dead"]
    /\ faults' = faults + 1
    /\ UNCHANGED <<file, active, request, members, phase, starts>>

\* A reboot ends every process and changes the boot id.
HostReboots ==
    /\ faults < MaxFaults
    /\ \E a \in Attempts : members[a] # {} \/ Cancelling(a)
    /\ members' = [a \in Attempts |-> {}]
    /\ phase' = [a \in Attempts |-> IF "wrapper" \in members[a] THEN "gone" ELSE phase[a]]
    /\ worker' = [a \in Attempts |-> IF Cancelling(a) THEN "dead" ELSE worker[a]]
    /\ faults' = faults + 1
    /\ UNCHANGED <<file, active, request, starts>>

-----------------------------------------------------------------------------
WrapperStep(a) ==
    ConsumeIntent(a) \/ Register(a) \/ StartCommand(a) \/ SaveOutcome(a) \/ WrapperExits(a)

WorkerStep(a) ==
    WorkerVerifies(a) \/ WorkerTerminates(a) \/ WorkerKills(a) \/ WorkerConfirms(a)

\* Everything but the launch, which a resource policy may guard.
Background ==
    \/ \E a \in Attempts :
        \/ Cancel(a) \/ WrapperStep(a) \/ WorkerStep(a)
        \/ CommandForks(a) \/ CommandExits(a)
        \/ WrapperKilled(a) \/ WorkerDies(a)
    \/ HostReboots

Next == Background \/ \E a \in Attempts : LaunchClaim(a)

Spec == Init /\ [][Next]_vars

-----------------------------------------------------------------------------
(* Properties                                                              *)

\* The command of an attempt is started at most once, whatever launch,
\* cancel and crash sequences happen: an uncertain launch is never replayed
\* (launch_claim, execute).
CommandStartsOnce == \A a \in Attempts : starts[a] <= 1

InFlight(a) == phase[a] \in {"spawned", "registered"} \/ "command" \in members[a]

\* A control root never has two attempts that compute or may still begin to
\* (the active-launch.json check of launch_claim).
OneCommandPerRoot ==
    \A a, b \in Attempts :
        TaskOf[a] = TaskOf[b] /\ InFlight(a) /\ InFlight(b) => a = b

\* A verified cancellation is final: nothing of the session computes and no
\* command can begin any more; the wrapper that consumed an intent may still
\* be exiting (cancel, cancel_execute, execute).
VerifiedCancelIsQuiet ==
    \A a \in Attempts :
        file[a].verified => ~InFlight(a) /\ members[a] \subseteq {"wrapper"}

\* The stage of an attempt in the abstract ledger.
Life(a) ==
    IF file[a].status = "nodir" THEN "fresh"
    ELSE IF phase[a] \in {"spawned", "registered"} THEN "claimed"
    ELSE IF "command" \in members[a] THEN "computing" ELSE "over"

Ledger == INSTANCE AttemptLedger WITH life <- [a \in Attempts |-> Life(a)]

\* The supervisor implements the abstract ledger of attempts: a token is used
\* once and a root has one attempt in flight.
ImplementsLedger == Ledger!LedgerSpec
=============================================================================
