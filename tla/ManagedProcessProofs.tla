------------------------ MODULE ManagedProcessProofs ------------------------
(***************************************************************************)
(* Safety of the process supervisor for every set of attempts and tasks,   *)
(* every number of faults, and commands that fork or do not.               *)
(*                                                                         *)
(* The invariant ties the three places an attempt lives in: the program    *)
(* counter of its wrapper, the processes of its session, and the files a   *)
(* reader sees.  The decisive part is InFlightIsClaimed: what may compute  *)
(* is named in active-launch.json and its state.json is not terminal, so   *)
(* a launch that finds the root free finds nothing in flight.              *)
(***************************************************************************)
EXTENDS Inspection, TLAPS

\* The wrapper is in its session exactly while execute() runs.
WrapperMatchesPhase(a) ==
    "wrapper" \in members[a] <=> phase[a] \in {"spawned", "registered", "computing", "saved"}

\* Nothing was ever detached for an attempt without a claim.
UnclaimedIsUntouched(a) ==
    /\ file[a].status = "nodir" => phase[a] = "none" /\ ~file[a].registered
    /\ phase[a] = "none" => members[a] = {}

\* A child that has not registered owns a claim without identity.
SpawnedIsUnregistered(a) ==
    phase[a] = "spawned" =>
        file[a].status = "unknown" /\ ~file[a].registered /\ members[a] = {"wrapper"}

\* What computes, or is about to, is registered under a running state.
ComputingIsRegistered(a) ==
    phase[a] \in {"registered", "computing"} \/ "command" \in members[a] =>
        file[a].status = "running" /\ file[a].registered

InFlightIsClaimed(a) == InFlight(a) => active[TaskOf[a]] = a

VerifiedIsFailed(a) == file[a].verified => file[a].status = "failed"

VerifiedIsQuiet(a) == file[a].verified => ~InFlight(a) /\ members[a] \subseteq {"wrapper"}

NotYetStarted(a) ==
    phase[a] \in {"none", "spawned", "registered"} =>
        starts[a] = 0 /\ "command" \notin members[a]

\* A cancel call between its check and its save, and the worker it detaches, are
\* about a registered supervisor whose cancellation is not confirmed, whatever
\* outcome is saved meanwhile; the worker has an open request.
WorkerHasRequest(a) ==
    /\ Cancelling(a) =>
           file[a].registered /\ ~file[a].verified /\ request[a].status # "complete"
    /\ WorkerAlive(a) => request[a].status = "pending"

AttemptInv(a) ==
    /\ WrapperMatchesPhase(a)
    /\ UnclaimedIsUntouched(a)
    /\ SpawnedIsUnregistered(a)
    /\ ComputingIsRegistered(a)
    /\ InFlightIsClaimed(a)
    /\ VerifiedIsFailed(a)
    /\ VerifiedIsQuiet(a)
    /\ NotYetStarted(a)
    /\ WorkerHasRequest(a)
    /\ starts[a] <= 1

SupervisorInv == TypeOK /\ \A a \in Attempts : AttemptInv(a)

-----------------------------------------------------------------------------
\* A section that stops early has a fault left to spend.
LEMMA PrefixBound ==
  ASSUME TypeOK, NEW n \in Nat, NEW done \in Prefixes(n), CountFault(done, n)
  PROVE  done \in {n} \cup 1..n /\ faults' \in 0..MaxFaults
BY FaultAssumption DEF TypeOK, Prefixes, CountFault

\* Records stay records when some of their fields are replaced.
LEMMA FileUpdate ==
  ASSUME NEW r \in StateFile, NEW s \in FileStatus, NEW v \in BOOLEAN
  PROVE  /\ [r EXCEPT !.status = s] \in StateFile
         /\ [r EXCEPT !.status = s, !.verified = v] \in StateFile
         /\ [r EXCEPT !.status = s, !.registered = v] \in StateFile
BY DEF StateFile

LEMMA RequestUpdate ==
  ASSUME NEW r \in Request, NEW s \in {"none", "pending", "complete"}, NEW m \in SUBSET Roles
  PROVE  /\ [r EXCEPT !.status = s] \in Request
         /\ [r EXCEPT !.authorized = m] \in Request
BY DEF Request

\* Every action keeps every variable to its type.
LEMMA TypeStep == TypeOK /\ [Next]_vars => TypeOK'
<1> USE TaskAssumption, NoneAssumption, FaultAssumption DEF TypeOK
<1> SUFFICES ASSUME TypeOK, [Next]_vars PROVE TypeOK'
  OBVIOUS
<1>1. ASSUME NEW a \in Attempts, LaunchClaim(a) PROVE TypeOK'
  <2>1. PICK done \in Prefixes(4) :
             /\ file' = [file EXCEPT ![a].status = IF done = 1 THEN "nofile" ELSE "unknown"]
             /\ active' = IF done < 3 THEN active ELSE [active EXCEPT ![TaskOf[a]] = a]
             /\ phase' = IF done < 4 THEN phase ELSE [phase EXCEPT ![a] = "spawned"]
             /\ members' = IF done < 4 THEN members ELSE [members EXCEPT ![a] = {"wrapper"}]
             /\ CountFault(done, 4)
    BY <1>1 DEF LaunchClaim
  <2>2. faults' \in 0..MaxFaults
    BY <2>1, PrefixBound
  <2>3. [file[a] EXCEPT !.status = IF done = 1 THEN "nofile" ELSE "unknown"] \in StateFile
    BY FileUpdate DEF FileStatus
  <2>4. file' \in [Attempts -> StateFile]
    BY <2>1, <2>3
  <2>5. active' \in [Tasks -> Attempts \cup {None}]
    BY <2>1
  <2>6. phase' \in [Attempts -> Phases] /\ members' \in [Attempts -> SUBSET Roles]
    BY <2>1 DEF Phases, Roles
  <2> QED
    BY <1>1, <2>2, <2>4, <2>5, <2>6 DEF LaunchClaim
<1>2. ASSUME NEW a \in Attempts, CancelBeforeLaunch(a) PROVE TypeOK'
  <2>1. PICK done \in Prefixes(2) :
             /\ file' = [file EXCEPT ![a] =
                           IF done = 1 THEN [@ EXCEPT !.status = "nofile"]
                           ELSE [@ EXCEPT !.status = "failed", !.verified = TRUE]]
             /\ CountFault(done, 2)
    BY <1>2 DEF CancelBeforeLaunch
  <2>2. faults' \in 0..MaxFaults
    BY <2>1, PrefixBound
  <2>3. /\ [file[a] EXCEPT !.status = "nofile"] \in StateFile
        /\ [file[a] EXCEPT !.status = "failed", !.verified = TRUE] \in StateFile
    BY FileUpdate DEF FileStatus
  <2>4. file' \in [Attempts -> StateFile]
    BY <2>1, <2>3
  <2> QED
    BY <1>2, <2>2, <2>4 DEF CancelBeforeLaunch
<1>3. ASSUME NEW a \in Attempts, CancelIntent(a) PROVE TypeOK'
  <2>1. [request[a] EXCEPT !.status = "pending"] \in Request
    BY RequestUpdate
  <2>2. request' \in [Attempts -> Request]
    BY <1>3, <2>1 DEF CancelIntent
  <2> QED
    BY <1>3, <2>2 DEF CancelIntent
<1>4. ASSUME NEW a \in Attempts, CancelChecks(a) PROVE TypeOK'
  BY <1>4 DEF CancelChecks
<1>20. ASSUME NEW a \in Attempts, CancelSaves(a) PROVE TypeOK'
  <2>1. [request[a] EXCEPT !.status = "pending"] \in Request
    BY RequestUpdate
  <2>2. request' \in [Attempts -> Request]
    BY <1>20, <2>1 DEF CancelSaves
  <2>3. PICK done \in Prefixes(2) :
             /\ worker' = [worker EXCEPT ![a] = IF done < 2 THEN "dead" ELSE "spawned"]
             /\ CountFault(done, 2)
    BY <1>20 DEF CancelSaves
  <2>4. faults' \in 0..MaxFaults
    BY <2>3, PrefixBound
  <2> QED
    BY <1>20, <2>2, <2>3, <2>4 DEF CancelSaves
<1>5. ASSUME NEW a \in Attempts, ConsumeIntent(a) PROVE TypeOK'
  <2>1. PICK done \in Prefixes(2) :
             /\ file' = [file EXCEPT ![a] = [@ EXCEPT !.status = "failed", !.verified = TRUE]]
             /\ request' = IF done < 2 THEN request ELSE [request EXCEPT ![a].status = "complete"]
             /\ phase' = [phase EXCEPT ![a] = IF done < 2 THEN "gone" ELSE "saved"]
             /\ members' = IF done < 2 THEN [members EXCEPT ![a] = {}] ELSE members
             /\ CountFault(done, 2)
    BY <1>5 DEF ConsumeIntent
  <2>2. faults' \in 0..MaxFaults
    BY <2>1, PrefixBound
  <2>3. [file[a] EXCEPT !.status = "failed", !.verified = TRUE] \in StateFile
    BY FileUpdate DEF FileStatus
  <2>4. file' \in [Attempts -> StateFile]
    BY <2>1, <2>3
  <2>5. [request[a] EXCEPT !.status = "complete"] \in Request
    BY RequestUpdate
  <2>6. request' \in [Attempts -> Request]
    BY <2>1, <2>5
  <2>7. phase' \in [Attempts -> Phases] /\ members' \in [Attempts -> SUBSET Roles]
    BY <2>1 DEF Phases
  <2> QED
    BY <1>5, <2>2, <2>4, <2>6, <2>7 DEF ConsumeIntent
<1>6. ASSUME NEW a \in Attempts, Register(a) PROVE TypeOK'
  <2>1. [file[a] EXCEPT !.status = "running", !.registered = TRUE] \in StateFile
    BY FileUpdate DEF FileStatus
  <2>2. file' \in [Attempts -> StateFile]
    BY <1>6, <2>1 DEF Register
  <2> QED
    BY <1>6, <2>2 DEF Register, Phases
<1>7. ASSUME NEW a \in Attempts, StartCommand(a) PROVE TypeOK'
  BY <1>7 DEF StartCommand, Phases, Roles
<1>8. ASSUME NEW a \in Attempts, SaveOutcome(a) PROVE TypeOK'
  BY <1>8 DEF SaveOutcome, Phases, StateFile, FileStatus
<1>9. ASSUME NEW a \in Attempts, WrapperExits(a) PROVE TypeOK'
  BY <1>9 DEF WrapperExits, Phases
<1>10. ASSUME NEW a \in Attempts, CommandForks(a) PROVE TypeOK'
  BY <1>10 DEF CommandForks, Roles
<1>11. ASSUME NEW a \in Attempts, CommandExits(a) PROVE TypeOK'
  BY <1>11 DEF CommandExits
<1>12. ASSUME NEW a \in Attempts, WorkerVerifies(a) PROVE TypeOK'
  BY <1>12 DEF WorkerVerifies
<1>13. ASSUME NEW a \in Attempts, WorkerTerminates(a) PROVE TypeOK'
  <2>1. [request[a] EXCEPT !.authorized = members[a]] \in Request
    BY RequestUpdate
  <2>2. request' \in [Attempts -> Request]
    BY <1>13, <2>1 DEF WorkerTerminates
  <2>3. members' \in [Attempts -> SUBSET Roles] /\ phase' \in [Attempts -> Phases]
    BY <1>13 DEF WorkerTerminates, Phases
  <2> QED
    BY <1>13, <2>2, <2>3 DEF WorkerTerminates
<1>14. ASSUME NEW a \in Attempts, WorkerKills(a) PROVE TypeOK'
  <2>1. [request[a] EXCEPT !.authorized = members[a]] \in Request
    BY RequestUpdate
  <2>2. request' \in [Attempts -> Request]
    BY <1>14, <2>1 DEF WorkerKills
  <2>3. members' \in [Attempts -> SUBSET Roles] /\ phase' \in [Attempts -> Phases]
    BY <1>14 DEF WorkerKills, Phases
  <2> QED
    BY <1>14, <2>2, <2>3 DEF WorkerKills
<1>15. ASSUME NEW a \in Attempts, WorkerConfirms(a) PROVE TypeOK'
  <2>1. PICK done \in Prefixes(2) :
             /\ file' = [file EXCEPT ![a] = [@ EXCEPT !.status = "failed", !.verified = TRUE]]
             /\ request' = IF done < 2 THEN request ELSE [request EXCEPT ![a].status = "complete"]
             /\ CountFault(done, 2)
    BY <1>15 DEF WorkerConfirms
  <2>2. faults' \in 0..MaxFaults
    BY <2>1, PrefixBound
  <2>3. [file[a] EXCEPT !.status = "failed", !.verified = TRUE] \in StateFile
    BY FileUpdate DEF FileStatus
  <2>4. file' \in [Attempts -> StateFile]
    BY <2>1, <2>3
  <2>5. [request[a] EXCEPT !.status = "complete"] \in Request
    BY RequestUpdate
  <2>6. request' \in [Attempts -> Request]
    BY <2>1, <2>5
  <2> QED
    BY <1>15, <2>2, <2>4, <2>6 DEF WorkerConfirms
<1>16. ASSUME NEW a \in Attempts, WrapperKilled(a) PROVE TypeOK'
  BY <1>16 DEF WrapperKilled, Phases
<1>17. ASSUME NEW a \in Attempts, WorkerDies(a) PROVE TypeOK'
  BY <1>17 DEF WorkerDies
<1>18. CASE HostReboots
  BY <1>18 DEF HostReboots, Phases
<1>19. CASE UNCHANGED vars
  BY <1>19 DEF vars
<1> QED
  BY <1>1, <1>2, <1>3, <1>4, <1>5, <1>6, <1>7, <1>8, <1>9, <1>10, <1>11, <1>12, <1>13, <1>14, <1>15, <1>16, <1>17, <1>18, <1>19, <1>20 DEF Next, Background, Cancel, WrapperStep, WorkerStep

\* Every variable keeps to its type (files, processes, program counters).
THEOREM TypeCorrect == Spec => []TypeOK
<1>1. Init => TypeOK
  BY NoneAssumption, FaultAssumption DEF TypeOK, Init, StateFile, FileStatus, Request, Phases
<1> QED
  BY <1>1, TypeStep, PTL DEF Spec

-----------------------------------------------------------------------------
\* What may compute is never read as terminal, so its root is not free.
LEMMA InFlightIsNotTerminal ==
  ASSUME NEW a \in Attempts, AttemptInv(a), InFlight(a)
  PROVE  Observed(a) \notin Terminal
BY DEF AttemptInv, SpawnedIsUnregistered, ComputingIsRegistered, VerifiedIsFailed, InFlight,
       Observed, Verdict, Terminal

\* A step that leaves an attempt and its place in its root alone keeps its part
\* of the invariant.
LEMMA Undisturbed ==
  ASSUME NEW b \in Attempts, AttemptInv(b),
         file'[b] = file[b], members'[b] = members[b],
         phase'[b] = phase[b], starts'[b] = starts[b],
         request'[b] = request[b], worker'[b] = worker[b],
         InFlight(b) => active'[TaskOf[b]] = active[TaskOf[b]]
  PROVE  AttemptInv(b)'
BY DEF AttemptInv, WrapperMatchesPhase, UnclaimedIsUntouched, SpawnedIsUnregistered,
          ComputingIsRegistered, InFlightIsClaimed, VerifiedIsFailed, VerifiedIsQuiet, NotYetStarted,
          WorkerHasRequest, WorkerAlive, Cancelling, InFlight

\* The inductive invariant is kept by every action.
LEMMA InvariantStep == SupervisorInv /\ [Next]_vars => SupervisorInv'
<1> SUFFICES ASSUME SupervisorInv, [Next]_vars, NEW b \in Attempts PROVE AttemptInv(b)'
  BY TypeStep DEF SupervisorInv
<1> USE TaskAssumption, NoneAssumption
<1>0. TypeOK /\ AttemptInv(b)
  BY DEF SupervisorInv
<1>1. ASSUME NEW a \in Attempts, LaunchClaim(a) PROVE AttemptInv(b)'
  <2>1. PICK done \in Prefixes(4) :
             /\ file' = [file EXCEPT ![a].status = IF done = 1 THEN "nofile" ELSE "unknown"]
             /\ active' = IF done < 3 THEN active ELSE [active EXCEPT ![TaskOf[a]] = a]
             /\ phase' = IF done < 4 THEN phase ELSE [phase EXCEPT ![a] = "spawned"]
             /\ members' = IF done < 4 THEN members ELSE [members EXCEPT ![a] = {"wrapper"}]
    BY <1>1 DEF LaunchClaim
  <2>2. /\ starts' = starts /\ request' = request /\ worker' = worker
        /\ file[a].status = "nodir"
    BY <1>1 DEF LaunchClaim, Unclaimed
  <2>3. done \in 1..4
    BY DEF Prefixes
  <2>4. CASE b # a
    <3>1. file'[b] = file[b] /\ members'[b] = members[b] /\ phase'[b] = phase[b]
      BY <1>0, <2>1, <2>4 DEF TypeOK
    <3>2. ASSUME InFlight(b) PROVE active'[TaskOf[b]] = active[TaskOf[b]]
      <4>1. active[TaskOf[b]] = b /\ Observed(b) \notin Terminal
        BY <1>0, <3>2, InFlightIsNotTerminal DEF AttemptInv, InFlightIsClaimed
      <4>2. TaskOf[b] # TaskOf[a]
        BY <1>1, <4>1 DEF LaunchClaim, RootIsFree
      <4> QED
        BY <1>0, <2>1, <4>2 DEF TypeOK
    <3> QED
      BY <1>0, <2>2, <3>1, <3>2, Undisturbed
  <2>5. CASE b = a
    <3>1. CASE done < 4
      <4>1. members'[a] = {} /\ phase'[a] = "none" /\ file'[a].status # "nodir"
        BY <1>0, <2>1, <2>2, <2>5, <3>1 DEF TypeOK, AttemptInv, UnclaimedIsUntouched
      <4>2. file'[a].registered = file[a].registered /\ ~file[a].registered /\ ~file'[a].verified
        BY <1>0, <2>1, <2>2, <2>5 DEF TypeOK, StateFile, AttemptInv, UnclaimedIsUntouched, VerifiedIsFailed
      <4> QED
        BY <1>0, <2>2, <2>5, <4>1, <4>2 DEF
          AttemptInv, WrapperMatchesPhase, UnclaimedIsUntouched, SpawnedIsUnregistered,
          ComputingIsRegistered, InFlightIsClaimed, VerifiedIsFailed, VerifiedIsQuiet, NotYetStarted,
          WorkerHasRequest, WorkerAlive, Cancelling, InFlight
    <3>2. CASE done = 4
      <4>1. members'[a] = {"wrapper"} /\ phase'[a] = "spawned" /\ active'[TaskOf[a]] = a
        BY <1>0, <2>1, <3>2 DEF TypeOK
      <4>2. /\ file'[a].status = "unknown" /\ ~file'[a].verified
            /\ file'[a].registered = file[a].registered /\ ~file[a].registered
        BY <1>0, <2>1, <2>2, <2>5, <3>2 DEF TypeOK, StateFile, AttemptInv, UnclaimedIsUntouched, VerifiedIsFailed
      <4> QED
        BY <1>0, <2>2, <2>5, <4>1, <4>2 DEF
          AttemptInv, WrapperMatchesPhase, UnclaimedIsUntouched, SpawnedIsUnregistered,
          ComputingIsRegistered, InFlightIsClaimed, VerifiedIsFailed, VerifiedIsQuiet, NotYetStarted,
          WorkerHasRequest, WorkerAlive, Cancelling, InFlight
    <3> QED
      BY <2>3, <3>1, <3>2
  <2> QED
    BY <2>4, <2>5
<1>2. ASSUME NEW a \in Attempts, CancelBeforeLaunch(a) PROVE AttemptInv(b)'
  <2>1. CASE b # a
    BY <1>0, <1>2, <2>1, Undisturbed DEF CancelBeforeLaunch, TypeOK
  <2>2. CASE b = a
    BY <1>0, <1>2, <2>2 DEF CancelBeforeLaunch, TypeOK, StateFile,
          AttemptInv, WrapperMatchesPhase, UnclaimedIsUntouched, SpawnedIsUnregistered,
          ComputingIsRegistered, InFlightIsClaimed, VerifiedIsFailed, VerifiedIsQuiet, NotYetStarted,
          WorkerHasRequest, WorkerAlive, Cancelling, InFlight
  <2> QED
    BY <2>1, <2>2
<1>3. ASSUME NEW a \in Attempts, CancelIntent(a) PROVE AttemptInv(b)'
  <2>1. CASE b # a
    BY <1>0, <1>3, <2>1, Undisturbed DEF CancelIntent, TypeOK
  <2>2. CASE b = a
    BY <1>0, <1>3, <2>2 DEF CancelIntent, TypeOK,
          AttemptInv, WrapperMatchesPhase, UnclaimedIsUntouched, SpawnedIsUnregistered,
          ComputingIsRegistered, InFlightIsClaimed, VerifiedIsFailed, VerifiedIsQuiet, NotYetStarted,
          WorkerHasRequest, WorkerAlive, Cancelling, InFlight
  <2> QED
    BY <2>1, <2>2
<1>4. ASSUME NEW a \in Attempts, CancelChecks(a) PROVE AttemptInv(b)'
  <2>1. CASE b # a
    BY <1>0, <1>4, <2>1, Undisturbed DEF CancelChecks, TypeOK
  <2>2. CASE b = a
    BY <1>0, <1>4, <2>2 DEF CancelChecks, Cancellable, SupervisorAlive, TypeOK,
          AttemptInv, WrapperMatchesPhase, UnclaimedIsUntouched, SpawnedIsUnregistered,
          ComputingIsRegistered, InFlightIsClaimed, VerifiedIsFailed, VerifiedIsQuiet, NotYetStarted,
          WorkerHasRequest, WorkerAlive, Cancelling, InFlight
  <2> QED
    BY <2>1, <2>2
<1>20. ASSUME NEW a \in Attempts, CancelSaves(a) PROVE AttemptInv(b)'
  <2>1. CASE b # a
    BY <1>0, <1>20, <2>1, Undisturbed DEF CancelSaves, TypeOK
  <2>2. CASE b = a
    BY <1>0, <1>20, <2>2 DEF CancelSaves, Request, TypeOK,
          AttemptInv, WrapperMatchesPhase, UnclaimedIsUntouched, SpawnedIsUnregistered,
          ComputingIsRegistered, InFlightIsClaimed, VerifiedIsFailed, VerifiedIsQuiet, NotYetStarted,
          WorkerHasRequest, WorkerAlive, Cancelling, InFlight
  <2> QED
    BY <2>1, <2>2
<1>5. ASSUME NEW a \in Attempts, ConsumeIntent(a) PROVE AttemptInv(b)'
  <2>1. CASE b # a
    BY <1>0, <1>5, <2>1, Undisturbed DEF ConsumeIntent, TypeOK
  <2>2. CASE b = a
    BY <1>0, <1>5, <2>2 DEF ConsumeIntent, TypeOK,
          AttemptInv, WrapperMatchesPhase, UnclaimedIsUntouched, SpawnedIsUnregistered,
          ComputingIsRegistered, InFlightIsClaimed, VerifiedIsFailed, VerifiedIsQuiet, NotYetStarted,
          WorkerHasRequest, WorkerAlive, Cancelling, InFlight
  <2> QED
    BY <2>1, <2>2
<1>6. ASSUME NEW a \in Attempts, Register(a) PROVE AttemptInv(b)'
  <2>1. CASE b # a
    BY <1>0, <1>6, <2>1, Undisturbed DEF Register, TypeOK
  <2>2. CASE b = a
    BY <1>0, <1>6, <2>2 DEF Register, TypeOK,
          AttemptInv, WrapperMatchesPhase, UnclaimedIsUntouched, SpawnedIsUnregistered,
          ComputingIsRegistered, InFlightIsClaimed, VerifiedIsFailed, VerifiedIsQuiet, NotYetStarted,
          WorkerHasRequest, WorkerAlive, Cancelling, InFlight
  <2> QED
    BY <2>1, <2>2
<1>7. ASSUME NEW a \in Attempts, StartCommand(a) PROVE AttemptInv(b)'
  <2>1. CASE b # a
    BY <1>0, <1>7, <2>1, Undisturbed DEF StartCommand, TypeOK
  <2>2. CASE b = a
    BY <1>0, <1>7, <2>2 DEF StartCommand, TypeOK,
          AttemptInv, WrapperMatchesPhase, UnclaimedIsUntouched, SpawnedIsUnregistered,
          ComputingIsRegistered, InFlightIsClaimed, VerifiedIsFailed, VerifiedIsQuiet, NotYetStarted,
          WorkerHasRequest, WorkerAlive, Cancelling, InFlight
  <2> QED
    BY <2>1, <2>2
<1>8. ASSUME NEW a \in Attempts, SaveOutcome(a) PROVE AttemptInv(b)'
  <2>1. CASE b # a
    BY <1>0, <1>8, <2>1, Undisturbed DEF SaveOutcome, TypeOK
  <2>2. CASE b = a
    BY <1>0, <1>8, <2>2 DEF SaveOutcome, TypeOK,
          AttemptInv, WrapperMatchesPhase, UnclaimedIsUntouched, SpawnedIsUnregistered,
          ComputingIsRegistered, InFlightIsClaimed, VerifiedIsFailed, VerifiedIsQuiet, NotYetStarted,
          WorkerHasRequest, WorkerAlive, Cancelling, InFlight
  <2> QED
    BY <2>1, <2>2
<1>9. ASSUME NEW a \in Attempts, WrapperExits(a) PROVE AttemptInv(b)'
  <2>1. CASE b # a
    BY <1>0, <1>9, <2>1, Undisturbed DEF WrapperExits, TypeOK
  <2>2. CASE b = a
    BY <1>0, <1>9, <2>2 DEF WrapperExits, TypeOK,
          AttemptInv, WrapperMatchesPhase, UnclaimedIsUntouched, SpawnedIsUnregistered,
          ComputingIsRegistered, InFlightIsClaimed, VerifiedIsFailed, VerifiedIsQuiet, NotYetStarted,
          WorkerHasRequest, WorkerAlive, Cancelling, InFlight
  <2> QED
    BY <2>1, <2>2
<1>10. ASSUME NEW a \in Attempts, CommandForks(a) PROVE AttemptInv(b)'
  <2>1. CASE b # a
    BY <1>0, <1>10, <2>1, Undisturbed DEF CommandForks, TypeOK
  <2>2. CASE b = a
    BY <1>0, <1>10, <2>2 DEF CommandForks, TypeOK,
          AttemptInv, WrapperMatchesPhase, UnclaimedIsUntouched, SpawnedIsUnregistered,
          ComputingIsRegistered, InFlightIsClaimed, VerifiedIsFailed, VerifiedIsQuiet, NotYetStarted,
          WorkerHasRequest, WorkerAlive, Cancelling, InFlight
  <2> QED
    BY <2>1, <2>2
<1>11. ASSUME NEW a \in Attempts, CommandExits(a) PROVE AttemptInv(b)'
  <2>1. CASE b # a
    BY <1>0, <1>11, <2>1, Undisturbed DEF CommandExits, TypeOK
  <2>2. CASE b = a
    BY <1>0, <1>11, <2>2 DEF CommandExits, TypeOK,
          AttemptInv, WrapperMatchesPhase, UnclaimedIsUntouched, SpawnedIsUnregistered,
          ComputingIsRegistered, InFlightIsClaimed, VerifiedIsFailed, VerifiedIsQuiet, NotYetStarted,
          WorkerHasRequest, WorkerAlive, Cancelling, InFlight
  <2> QED
    BY <2>1, <2>2
<1>12. ASSUME NEW a \in Attempts, WorkerVerifies(a) PROVE AttemptInv(b)'
  <2>1. CASE b # a
    BY <1>0, <1>12, <2>1, Undisturbed DEF WorkerVerifies, TypeOK
  <2>2. CASE b = a
    BY <1>0, <1>12, <2>2 DEF WorkerVerifies, TypeOK,
          AttemptInv, WrapperMatchesPhase, UnclaimedIsUntouched, SpawnedIsUnregistered,
          ComputingIsRegistered, InFlightIsClaimed, VerifiedIsFailed, VerifiedIsQuiet, NotYetStarted,
          WorkerHasRequest, WorkerAlive, Cancelling, InFlight
  <2> QED
    BY <2>1, <2>2
<1>13. ASSUME NEW a \in Attempts, WorkerTerminates(a) PROVE AttemptInv(b)'
  <2>1. CASE b # a
    BY <1>0, <1>13, <2>1, Undisturbed DEF WorkerTerminates, TypeOK
  <2>2. CASE b = a
    BY <1>0, <1>13, <2>2 DEF WorkerTerminates, TypeOK,
          AttemptInv, WrapperMatchesPhase, UnclaimedIsUntouched, SpawnedIsUnregistered,
          ComputingIsRegistered, InFlightIsClaimed, VerifiedIsFailed, VerifiedIsQuiet, NotYetStarted,
          WorkerHasRequest, WorkerAlive, Cancelling, InFlight
  <2> QED
    BY <2>1, <2>2
<1>14. ASSUME NEW a \in Attempts, WorkerKills(a) PROVE AttemptInv(b)'
  <2>1. CASE b # a
    BY <1>0, <1>14, <2>1, Undisturbed DEF WorkerKills, TypeOK
  <2>2. CASE b = a
    BY <1>0, <1>14, <2>2 DEF WorkerKills, TypeOK,
          AttemptInv, WrapperMatchesPhase, UnclaimedIsUntouched, SpawnedIsUnregistered,
          ComputingIsRegistered, InFlightIsClaimed, VerifiedIsFailed, VerifiedIsQuiet, NotYetStarted,
          WorkerHasRequest, WorkerAlive, Cancelling, InFlight
  <2> QED
    BY <2>1, <2>2
<1>15. ASSUME NEW a \in Attempts, WorkerConfirms(a) PROVE AttemptInv(b)'
  <2>1. CASE b # a
    BY <1>0, <1>15, <2>1, Undisturbed DEF WorkerConfirms, TypeOK
  <2>2. CASE b = a
    BY <1>0, <1>15, <2>2 DEF WorkerConfirms, SessionEmpty, TypeOK,
          AttemptInv, WrapperMatchesPhase, UnclaimedIsUntouched, SpawnedIsUnregistered,
          ComputingIsRegistered, InFlightIsClaimed, VerifiedIsFailed, VerifiedIsQuiet, NotYetStarted,
          WorkerHasRequest, WorkerAlive, Cancelling, InFlight
  <2> QED
    BY <2>1, <2>2
<1>16. ASSUME NEW a \in Attempts, WrapperKilled(a) PROVE AttemptInv(b)'
  <2>1. CASE b # a
    BY <1>0, <1>16, <2>1, Undisturbed DEF WrapperKilled, TypeOK
  <2>2. CASE b = a
    BY <1>0, <1>16, <2>2 DEF WrapperKilled, TypeOK,
          AttemptInv, WrapperMatchesPhase, UnclaimedIsUntouched, SpawnedIsUnregistered,
          ComputingIsRegistered, InFlightIsClaimed, VerifiedIsFailed, VerifiedIsQuiet, NotYetStarted,
          WorkerHasRequest, WorkerAlive, Cancelling, InFlight
  <2> QED
    BY <2>1, <2>2
<1>17. ASSUME NEW a \in Attempts, WorkerDies(a) PROVE AttemptInv(b)'
  <2>1. CASE b # a
    BY <1>0, <1>17, <2>1, Undisturbed DEF WorkerDies, TypeOK
  <2>2. CASE b = a
    BY <1>0, <1>17, <2>2 DEF WorkerDies, TypeOK,
          AttemptInv, WrapperMatchesPhase, UnclaimedIsUntouched, SpawnedIsUnregistered,
          ComputingIsRegistered, InFlightIsClaimed, VerifiedIsFailed, VerifiedIsQuiet, NotYetStarted,
          WorkerHasRequest, WorkerAlive, Cancelling, InFlight
  <2> QED
    BY <2>1, <2>2
<1>18. CASE HostReboots
  BY <1>0, <1>18 DEF HostReboots, TypeOK,
          AttemptInv, WrapperMatchesPhase, UnclaimedIsUntouched, SpawnedIsUnregistered,
          ComputingIsRegistered, InFlightIsClaimed, VerifiedIsFailed, VerifiedIsQuiet, NotYetStarted,
          WorkerHasRequest, WorkerAlive, Cancelling, InFlight
<1>19. CASE UNCHANGED vars
  BY <1>0, <1>19, Undisturbed DEF vars
<1> QED
  BY <1>1, <1>2, <1>3, <1>4, <1>5, <1>6, <1>7, <1>8, <1>9, <1>10, <1>11, <1>12, <1>13, <1>14, <1>15, <1>16, <1>17, <1>18, <1>19, <1>20 DEF Next, Background, Cancel, WrapperStep, WorkerStep

\* The invariant holds at the start.
LEMMA InitialInvariant == Init => SupervisorInv
BY NoneAssumption, FaultAssumption DEF Init, SupervisorInv, TypeOK, StateFile, FileStatus, Request,
          Phases, AttemptInv, WrapperMatchesPhase, UnclaimedIsUntouched, SpawnedIsUnregistered,
          ComputingIsRegistered, InFlightIsClaimed, VerifiedIsFailed, VerifiedIsQuiet, NotYetStarted,
          WorkerHasRequest, WorkerAlive, Cancelling, InFlight

\* The invariant holds in every reachable state.
THEOREM InvariantHolds == Spec => []SupervisorInv
BY InitialInvariant, InvariantStep, PTL DEF Spec

\* No sequence of launches, cancels, deaths and reboots starts the command of
\* an attempt twice (launch_claim, execute).
THEOREM StartsOnceHolds == Spec => []CommandStartsOnce
<1>1. SupervisorInv => CommandStartsOnce
  BY DEF SupervisorInv, AttemptInv, CommandStartsOnce
<1> QED
  BY <1>1, InvariantHolds, PTL

\* Two attempts of a task are never in flight together: both would be the one
\* attempt that active-launch.json names (launch_claim).
THEOREM OnePerRootHolds == Spec => []OneCommandPerRoot
<1>1. SupervisorInv => OneCommandPerRoot
  BY DEF SupervisorInv, AttemptInv, InFlightIsClaimed, OneCommandPerRoot
<1> QED
  BY <1>1, InvariantHolds, PTL

\* Once a cancellation is verified nothing of the attempt computes, or will
\* (cancel, cancel_execute, execute).
THEOREM CancelIsQuietHolds == Spec => []VerifiedCancelIsQuiet
<1>1. SupervisorInv => VerifiedCancelIsQuiet
  BY DEF SupervisorInv, AttemptInv, VerifiedIsQuiet, VerifiedCancelIsQuiet
<1> QED
  BY <1>1, InvariantHolds, PTL

-----------------------------------------------------------------------------
\* What state.json says at the end: a verified cancellation and its request
\* are written no more, and an outcome only by a verified cancellation.
LEMMA VerdictStep ==
  ASSUME SupervisorInv, [Next]_vars, NEW b \in Attempts, file[b].status \in Terminal
  PROVE  /\ file'[b].status \in Terminal
         /\ file'[b].registered = file[b].registered
         /\ file'[b] # file[b] => file'[b].verified
         /\ file[b].verified => file'[b] = file[b]
         /\ file[b].verified /\ request[b].status # "pending" => request'[b] = request[b]
         /\ ~file[b].registered => request'[b] = request[b]
<1>1. TypeOK /\ AttemptInv(b)
  BY DEF SupervisorInv
<1>2. phase[b] \notin {"spawned", "registered", "computing"}
  BY <1>1 DEF Terminal, AttemptInv, SpawnedIsUnregistered, ComputingIsRegistered
<1>3. Cancelling(b) => /\ file[b].registered /\ ~file[b].verified
                       /\ WorkerAlive(b) => request[b].status = "pending"
  BY <1>1 DEF AttemptInv, WorkerHasRequest
<1> DEFINE Goal == /\ file'[b].status \in Terminal
                   /\ file'[b].registered = file[b].registered
                   /\ file'[b] # file[b] => file'[b].verified
                   /\ file[b].verified => file'[b] = file[b]
                   /\ file[b].verified /\ request[b].status # "pending" => request'[b] = request[b]
                   /\ ~file[b].registered => request'[b] = request[b]
<1>4. ASSUME NEW a \in Attempts, WorkerConfirms(a) PROVE Goal
  <2>1. file' = [file EXCEPT ![a] = [@ EXCEPT !.status = "failed", !.verified = TRUE]]
        /\ worker[a] = "signalling" /\ (b # a => request'[b] = request[b])
    BY <1>1, <1>4 DEF WorkerConfirms, TypeOK
  <2>2. CASE b # a
    BY <1>1, <2>1, <2>2 DEF TypeOK
  <2>3. CASE b = a
    <3>1. file'[b].status = "failed" /\ file'[b].verified /\ file'[b].registered = file[b].registered
      BY <1>1, <2>1, <2>3 DEF TypeOK, StateFile
    <3>2. file[b].registered /\ ~file[b].verified
      BY <1>3, <2>1, <2>3 DEF Cancelling
    <3> QED
      BY <3>1, <3>2 DEF Terminal
  <2> QED
    BY <2>2, <2>3
<1>5. ASSUME NEW a \in Attempts, Cancel(a) PROVE Goal
  <2>1. file'[b] = file[b]
    BY <1>1, <1>5 DEF Cancel, CancelBeforeLaunch, CancelIntent, CancelChecks, CancelSaves, TypeOK, Terminal
  <2>2. CASE CancelSaves(a)
    BY <1>1, <1>3, <2>1, <2>2 DEF CancelSaves, Cancelling, TypeOK
  <2>3. CASE CancelIntent(a)
    BY <1>1, <2>1, <2>3 DEF CancelIntent, Cancellable, TypeOK, Terminal
  <2>4. CASE CancelBeforeLaunch(a) \/ CancelChecks(a)
    BY <2>1, <2>4 DEF CancelBeforeLaunch, CancelChecks
  <2> QED
    BY <1>5, <2>2, <2>3, <2>4 DEF Cancel
<1>6. ASSUME NEW a \in Attempts, WorkerVerifies(a) \/ WorkerTerminates(a) \/ WorkerKills(a) PROVE Goal
  <2>1. file' = file
    BY <1>6 DEF WorkerVerifies, WorkerTerminates, WorkerKills
  <2>2. request'[b] = request[b] \/ WorkerAlive(b)
    BY <1>1, <1>6 DEF WorkerVerifies, WorkerTerminates, WorkerKills, WorkerAlive, TypeOK
  <2> QED
    BY <1>3, <2>1, <2>2 DEF WorkerAlive, Cancelling
<1>7. CASE file'[b] = file[b] /\ request'[b] = request[b]
  BY <1>7
<1> QED
  BY <1>1, <1>2, <1>4, <1>5, <1>6, <1>7 DEF TypeOK, Terminal, Next, Background, WrapperStep, WorkerStep, vars,
     LaunchClaim, Unclaimed, ConsumeIntent, Register, StartCommand, SaveOutcome, WrapperExits, CommandForks,
     CommandExits, WrapperKilled, WorkerDies, HostReboots

-----------------------------------------------------------------------------
\* A step that moves no attempt but to its end is a step of the ledger.
LEMMA OnlyEnds ==
  ASSUME \A a \in Attempts : Life(a)' = Life(a) \/ Life(a)' = "over"
  PROVE  [Ledger!LedgerNext]_([a \in Attempts |-> Life(a)])
<1> DEFINE S == {a \in Attempts : Life(a)' = "over"}
<1>1. [a \in Attempts |-> Life(a)]' = [a \in Attempts |-> IF a \in S THEN "over" ELSE Life(a)]
  OBVIOUS
<1>2. Ledger!Retire(S)
  BY <1>1 DEF Ledger!Retire
<1> QED
  BY <1>2 DEF Ledger!LedgerNext

\* Every step of the supervisor is a step of the ledger or leaves it alone.
LEMMA LedgerStep ==
  SupervisorInv /\ [Next]_vars => [Ledger!LedgerNext]_([a \in Attempts |-> Life(a)])
<1> SUFFICES ASSUME SupervisorInv, [Next]_vars
             PROVE  [Ledger!LedgerNext]_([a \in Attempts |-> Life(a)])
  OBVIOUS
<1> USE TaskAssumption
<1>0. TypeOK /\ \A b \in Attempts : AttemptInv(b)
  BY DEF SupervisorInv
<1>1. ASSUME NEW a \in Attempts, LaunchClaim(a)
      PROVE  [Ledger!LedgerNext]_([b \in Attempts |-> Life(b)])
  <2>1. Life(a) = "fresh" /\ \A b \in Attempts \ {a} : Life(b)' = Life(b)
    BY <1>0, <1>1 DEF LaunchClaim, Unclaimed, TypeOK, Life
  <2>2. Life(a)' \in {"claimed", "over"}
    BY <1>0, <1>1 DEF LaunchClaim, Unclaimed, TypeOK, Life, AttemptInv, UnclaimedIsUntouched
  <2>3. CASE Life(a)' = "over"
    BY <2>1, <2>3, OnlyEnds
  <2>4. CASE Life(a)' = "claimed"
    <3>1. ASSUME NEW b \in Attempts, TaskOf[b] = TaskOf[a], Life(b) \in {"claimed", "computing"}
          PROVE  FALSE
      <4>1. InFlight(b)
        BY <3>1 DEF Life, InFlight
      <4>2. active[TaskOf[a]] = b /\ Observed(b) \notin Terminal
        BY <1>0, <3>1, <4>1, InFlightIsNotTerminal DEF AttemptInv, InFlightIsClaimed
      <4> QED
        BY <1>1, <4>2 DEF LaunchClaim, RootIsFree
    <3>2. [b \in Attempts |-> Life(b)]' = [[b \in Attempts |-> Life(b)] EXCEPT ![a] = "claimed"]
      BY <2>1, <2>4
    <3>3. Ledger!Claim(a)
      BY <2>1, <3>1, <3>2 DEF Ledger!Claim, Ledger!InFlight
    <3> QED
      BY <3>3 DEF Ledger!LedgerNext
  <2> QED
    BY <2>2, <2>3, <2>4
<1>2. ASSUME NEW a \in Attempts, StartCommand(a)
      PROVE  [Ledger!LedgerNext]_([b \in Attempts |-> Life(b)])
  <2>1. Life(a) = "claimed"
    BY <1>0, <1>2 DEF StartCommand, Life, AttemptInv, UnclaimedIsUntouched
  <2>2. Life(a)' = "computing" /\ \A b \in Attempts \ {a} : Life(b)' = Life(b)
    BY <1>0, <1>2, <2>1 DEF StartCommand, TypeOK, Life
  <2>3. [b \in Attempts |-> Life(b)]' = [[b \in Attempts |-> Life(b)] EXCEPT ![a] = "computing"]
    BY <2>2
  <2>4. Ledger!Compute(a)
    BY <2>1, <2>3 DEF Ledger!Compute
  <2> QED
    BY <2>4 DEF Ledger!LedgerNext
<1>3. ASSUME [(\E a \in Attempts : Cancel(a) \/ ConsumeIntent(a) \/ Register(a) \/ SaveOutcome(a)
                   \/ WrapperExits(a) \/ WorkerStep(a) \/ CommandForks(a) \/ CommandExits(a)
                   \/ WrapperKilled(a) \/ WorkerDies(a)) \/ HostReboots]_vars,
             NEW b \in Attempts
      PROVE  Life(b)' = Life(b) \/ Life(b)' = "over"
  <2>1. AttemptInv(b)
    BY <1>0
  <2>2. CASE HostReboots
    BY <1>0, <2>2 DEF HostReboots, TypeOK, Life
  <2>3. CASE UNCHANGED vars
    BY <2>3 DEF vars, Life
  <2>4. ASSUME NEW a \in Attempts, Cancel(a) PROVE Life(b)' = Life(b) \/ Life(b)' = "over"
    <3>1. CASE CancelBeforeLaunch(a)
      <4>1. phase[a] = "none" /\ members[a] = {}
        BY <1>0, <3>1 DEF CancelBeforeLaunch, AttemptInv, UnclaimedIsUntouched
      <4>2. CASE b = a
        <5>1. Life(b)' \in {"fresh", "over"} /\ Life(b) = "fresh"
          BY <3>1, <4>1, <4>2 DEF CancelBeforeLaunch, Life
        <5> QED
          BY <5>1
      <4>3. CASE b # a
        BY <1>0, <3>1, <4>3 DEF CancelBeforeLaunch, TypeOK, Life
      <4> QED
        BY <4>2, <4>3
    <3>2. CASE CancelIntent(a) \/ CancelChecks(a) \/ CancelSaves(a)
      BY <3>2 DEF CancelIntent, CancelChecks, CancelSaves, Life
    <3> QED
      BY <2>4, <3>1, <3>2 DEF Cancel
  <2>5. ASSUME NEW a \in Attempts, ConsumeIntent(a) \/ Register(a) \/ SaveOutcome(a) \/ WrapperExits(a)
        PROVE  Life(b)' = Life(b) \/ Life(b)' = "over"
    <3>1. CASE ConsumeIntent(a)
      <4>1. /\ file'[b].status = "nodir" <=> file[b].status = "nodir"
            /\ b # a => phase'[b] = phase[b] /\ members'[b] = members[b]
            /\ phase'[a] \in {"gone", "saved"} /\ "command" \notin members'[a]
        BY <1>0, <3>1 DEF ConsumeIntent, TypeOK, StateFile, AttemptInv, SpawnedIsUnregistered
      <4> QED
        BY <4>1 DEF Life
    <3>2. CASE Register(a)
      <4>1. /\ file'[b].status = "nodir" <=> file[b].status = "nodir"
            /\ b # a => phase'[b] = phase[b]
            /\ phase[a] = "spawned" /\ phase'[a] = "registered" /\ members' = members
        BY <1>0, <3>2 DEF Register, TypeOK, StateFile, AttemptInv, SpawnedIsUnregistered
      <4> QED
        BY <4>1 DEF Life
    <3>3. CASE SaveOutcome(a)
      <4>1. /\ file'[b].status = "nodir" <=> file[b].status = "nodir"
            /\ b # a => phase'[b] = phase[b]
            /\ phase'[a] = "saved" /\ "command" \notin members[a] /\ members' = members
        BY <1>0, <3>3 DEF SaveOutcome, TypeOK, StateFile, AttemptInv, ComputingIsRegistered
      <4> QED
        BY <4>1 DEF Life
    <3>4. CASE WrapperExits(a)
      BY <1>0, <3>4 DEF WrapperExits, TypeOK, Life
    <3> QED
      BY <2>5, <3>1, <3>2, <3>3, <3>4
  <2>6. ASSUME NEW a \in Attempts, WorkerStep(a) PROVE Life(b)' = Life(b) \/ Life(b)' = "over"
    <3>1. CASE WorkerVerifies(a)
      BY <3>1 DEF WorkerVerifies, Life
    <3>2. CASE WorkerTerminates(a) \/ WorkerKills(a)
      <4>1. /\ file' = file /\ members'[b] \subseteq members[b]
            /\ phase'[b] \in {phase[b], "gone"}
        BY <1>0, <3>2 DEF WorkerTerminates, WorkerKills, TypeOK
      <4>2. phase[b] \in {"spawned", "registered"} => "command" \notin members[b]
        BY <2>1 DEF AttemptInv, NotYetStarted
      <4> QED
        BY <4>1, <4>2 DEF Life
    <3>3. CASE WorkerConfirms(a)
      <4>1. /\ phase' = phase /\ members' = members /\ members[a] = {}
            /\ b # a => file'[b] = file[b]
            /\ file'[a].status = "failed"
        BY <1>0, <3>3 DEF WorkerConfirms, SessionEmpty, TypeOK, StateFile
      <4>2. phase[a] \notin {"spawned", "registered"}
        BY <1>0, <4>1 DEF AttemptInv, WrapperMatchesPhase
      <4> QED
        BY <4>1, <4>2 DEF Life
    <3> QED
      BY <2>6, <3>1, <3>2, <3>3 DEF WorkerStep
  <2>7. ASSUME NEW a \in Attempts, CommandForks(a) \/ CommandExits(a) \/ WrapperKilled(a) \/ WorkerDies(a)
        PROVE  Life(b)' = Life(b) \/ Life(b)' = "over"
    BY <1>0, <2>1, <2>7 DEF CommandForks, CommandExits, WrapperKilled, WorkerDies, TypeOK, Life,
       AttemptInv, NotYetStarted
  <2> QED
    BY <1>3, <2>2, <2>3, <2>4, <2>5, <2>6, <2>7
<1> QED
  BY <1>1, <1>2, <1>3, OnlyEnds DEF Next, Background, WrapperStep

\* The supervisor implements the abstract ledger: a token is used once, and a
\* root has one attempt in flight (managed_process.py as a whole).
THEOREM LedgerImplemented == Spec => ImplementsLedger
<1>1. Init => Ledger!LedgerInit
  BY DEF Init, Ledger!LedgerInit, Life
<1> QED
  BY <1>1, LedgerStep, InvariantHolds, PTL DEF Spec, ImplementsLedger, Ledger!LedgerSpec

-----------------------------------------------------------------------------
(* Readers, who look at state.json and then at cancellation.json.          *)

\* A state.json that holds an outcome, and not the end of a cancellation.
HoldsOutcome(state) == state.status \in Terminal /\ ~state.verified

\* What is told of an attempt has happened, and a cancellation that was told is
\* there to stay.
ToldIsSound(a) ==
    /\ told[a] # {} => file[a].status \in Terminal
    /\ "cancelled" \in told[a] => file[a].verified /\ request[a].status # "pending"

\* What a reader holds in its hands was true and has not been taken back.
ReadIsSound(a) == \A r \in Readers :
    reader[r].of = a =>
        /\ reader[r].state.status \in Terminal => file[a].status \in Terminal
        /\ reader[r].state.verified => reader[r].state.status = "failed" /\ file[a].verified
        /\ reader[r].knew => reader[r].state.verified /\ request[a].status # "pending"

\* What was told, what readers will tell and what is on disk agree on the outcome.
OneOutcome(a) == \E outcome \in {"succeeded", "failed"} :
    /\ told[a] \subseteq {outcome, "cancelled"}
    /\ \A r \in Readers :
           reader[r].of = a /\ HoldsOutcome(reader[r].state) => reader[r].state.status = outcome
    /\ HoldsOutcome(file[a]) => file[a].status = outcome

InspectionInv ==
    /\ SupervisorInv /\ InspectionTypeOK
    /\ \A a \in Attempts : ToldIsSound(a) /\ ReadIsSound(a) /\ OneOutcome(a)

\* A terminal answer is that of the state read, over a request that is not open.
LEMMA TerminalVerdict ==
  ASSUME NEW a \in Attempts, NEW state \in StateFile, Verdict(a, state) \in Terminal
  PROVE  /\ request[a].status # "pending"
         /\ \/ state.verified /\ Verdict(a, state) = "cancelled"
            \/ HoldsOutcome(state) /\ Verdict(a, state) = state.status
<1>1. request[a].status # "pending"
  BY DEF Verdict, Terminal
<1>2. CASE state.verified
  BY <1>1, <1>2 DEF Verdict
<1>3. CASE ~state.verified
  BY <1>1, <1>3 DEF Verdict, Terminal, HoldsOutcome
<1> QED
  BY <1>1, <1>2, <1>3

\* The other processes leave what was read and told sound.
LEMMA NextKeepsReaders ==
  ASSUME InspectionInv, Next, UNCHANGED <<reader, told>>
  PROVE  InspectionInv'
<1>1. SupervisorInv /\ SupervisorInv' /\ InspectionTypeOK'
  BY InvariantStep DEF InspectionInv, InspectionTypeOK
<1> SUFFICES ASSUME NEW a \in Attempts PROVE ToldIsSound(a)' /\ ReadIsSound(a)' /\ OneOutcome(a)'
  BY <1>1 DEF InspectionInv
<1>2. ToldIsSound(a) /\ ReadIsSound(a) /\ OneOutcome(a)
  BY DEF InspectionInv
<1>3. CASE file[a].status \in Terminal
  <2>1. /\ file'[a].status \in Terminal
        /\ file'[a] # file[a] => file'[a].verified
        /\ file[a].verified => file'[a] = file[a]
        /\ file[a].verified /\ request[a].status # "pending" => request'[a] = request[a]
    BY <1>1, <1>3, VerdictStep
  <2>2. ToldIsSound(a)'
    BY <1>2, <2>1 DEF ToldIsSound
  <2>3. ReadIsSound(a)'
    BY <1>2, <2>1 DEF ReadIsSound
  <2>4. OneOutcome(a)'
    BY <1>2, <2>1 DEF OneOutcome, HoldsOutcome
  <2> QED
    BY <2>2, <2>3, <2>4
<1>4. CASE file[a].status \notin Terminal
  <2>1. /\ told[a] = {}
        /\ \A r \in Readers : reader[r].of = a =>
              reader[r].state.status \notin Terminal /\ ~reader[r].state.verified /\ ~reader[r].knew
    BY <1>2, <1>4 DEF ToldIsSound, ReadIsSound, Terminal
  <2>2. ToldIsSound(a)' /\ ReadIsSound(a)'
    BY <2>1 DEF ToldIsSound, ReadIsSound
  <2>3. HoldsOutcome(file'[a]) => file'[a].status \in {"succeeded", "failed"}
    BY <1>1 DEF SupervisorInv, TypeOK, StateFile, FileStatus, HoldsOutcome, Terminal
  <2>4. \E outcome \in {"succeeded", "failed"} : HoldsOutcome(file'[a]) => file'[a].status = outcome
    BY <2>3
  <2>5. OneOutcome(a)'
    BY <2>1, <2>4 DEF OneOutcome, HoldsOutcome
  <2> QED
    BY <2>2, <2>5
<1> QED
  BY <1>3, <1>4

\* A first reading takes what is on disk.
LEMMA ReadStateStep ==
  ASSUME InspectionInv, NEW s \in Readers, NEW b \in Attempts, ReadState(s, b)
  PROVE  InspectionInv'
<1> DEFINE now == [of |-> b, state |-> file[b], knew |-> "cancelled" \in told[b]]
<1>1. /\ TypeOK /\ SupervisorInv /\ InspectionTypeOK /\ UNCHANGED <<vars, told>>
      /\ reader' = [reader EXCEPT ![s] = now]
  BY DEF InspectionInv, SupervisorInv, ReadState
<1>2. reader'[s] = now /\ \A r \in Readers \ {s} : reader'[r] = reader[r]
  BY <1>1 DEF InspectionTypeOK
<1>3. now.of = b /\ now.state = file[b] /\ (now.knew <=> "cancelled" \in told[b])
  OBVIOUS
<1>4. now \in [of : Attempts \cup {None}, state : StateFile, knew : BOOLEAN]
  BY <1>1 DEF TypeOK
<1> HIDE DEF now
<1>5. SupervisorInv' /\ InspectionTypeOK'
  BY <1>1, <1>4, InvariantStep DEF InspectionTypeOK
<1> SUFFICES ASSUME NEW a \in Attempts PROVE ToldIsSound(a)' /\ ReadIsSound(a)' /\ OneOutcome(a)'
  BY <1>5 DEF InspectionInv
<1>6. ToldIsSound(a) /\ ReadIsSound(a) /\ OneOutcome(a) /\ AttemptInv(a)
  BY DEF InspectionInv, SupervisorInv
<1>7. ToldIsSound(a)'
  BY <1>1, <1>6 DEF ToldIsSound, vars
<1>8. ReadIsSound(a)'
  BY <1>1, <1>2, <1>3, <1>6 DEF ReadIsSound, ToldIsSound, AttemptInv, VerifiedIsFailed, vars
<1>9. OneOutcome(a)'
  BY <1>1, <1>2, <1>3, <1>6 DEF OneOutcome, HoldsOutcome, vars
<1> QED
  BY <1>7, <1>8, <1>9

\* The second reading tells what the first one found, unless a cancellation is open.
LEMMA ReadCancellationStep ==
  ASSUME InspectionInv, NEW s \in Readers, NEW b \in Attempts, ReadCancellation(s, b)
  PROVE  InspectionInv'
<1> DEFINE verdict == Verdict(b, reader[s].state)
<1>1. /\ SupervisorInv /\ InspectionTypeOK /\ UNCHANGED vars /\ reader[s].of = b
      /\ told' = [told EXCEPT ![b] = @ \cup ({verdict} \cap Terminal)]
      /\ reader' = [reader EXCEPT ![s] = Idle]
  BY DEF InspectionInv, ReadCancellation
<1>2. Idle \in [of : Attempts \cup {None}, state : StateFile, knew : BOOLEAN] /\ Idle.of \notin Attempts
  BY NoneAssumption DEF Idle, NoState, StateFile, FileStatus
<1>3. SupervisorInv' /\ InspectionTypeOK'
  BY <1>1, <1>2, InvariantStep DEF InspectionTypeOK
<1>4. \A r \in Readers : reader'[r].of \in Attempts => reader'[r] = reader[r]
  BY <1>1, <1>2 DEF InspectionTypeOK
<1> SUFFICES ASSUME NEW a \in Attempts PROVE ToldIsSound(a)' /\ ReadIsSound(a)' /\ OneOutcome(a)'
  BY <1>3 DEF InspectionInv
<1>5. ToldIsSound(a) /\ ReadIsSound(a) /\ OneOutcome(a)
  BY DEF InspectionInv
<1>6. ReadIsSound(a)'
  BY <1>1, <1>4, <1>5 DEF ReadIsSound, vars
<1>7. CASE told'[a] = told[a]
  <2>1. ToldIsSound(a)'
    BY <1>1, <1>5, <1>7 DEF ToldIsSound, vars
  <2>2. OneOutcome(a)'
    BY <1>1, <1>4, <1>5, <1>7 DEF OneOutcome, vars
  <2> QED
    BY <1>6, <2>1, <2>2
<1>8. CASE a = b /\ verdict \in Terminal /\ told'[a] = told[a] \cup {verdict}
  <2>1. /\ request[a].status # "pending"
        /\ \/ reader[s].state.verified /\ verdict = "cancelled"
           \/ HoldsOutcome(reader[s].state) /\ verdict = reader[s].state.status
    BY <1>1, <1>8, TerminalVerdict DEF InspectionTypeOK
  <2> HIDE DEF verdict
  <2>2. ToldIsSound(a)'
    BY <1>1, <1>5, <1>8, <2>1 DEF ToldIsSound, ReadIsSound, HoldsOutcome, Terminal, vars
  <2>3. OneOutcome(a)'
    BY <1>1, <1>4, <1>5, <1>8, <2>1 DEF OneOutcome, vars
  <2> QED
    BY <1>6, <2>2, <2>3
<1> QED
  BY <1>1, <1>7, <1>8 DEF InspectionTypeOK

\* What readers are told keeps to the files, in every reachable state.
THEOREM InspectionInvHolds == InspectionSpec => []InspectionInv
<1>1. InspectionInit => InspectionInv
  BY InitialInvariant DEF InspectionInit, InspectionInv, InspectionTypeOK, Idle, NoState, StateFile, FileStatus,
     ToldIsSound, ReadIsSound, OneOutcome, HoldsOutcome, Init, Terminal
<1>2. InspectionInv /\ [InspectionNext]_<<vars, reader, told>> => InspectionInv'
  <2> SUFFICES ASSUME InspectionInv, [InspectionNext]_<<vars, reader, told>> PROVE InspectionInv'
    OBVIOUS
  <2>1. CASE UNCHANGED <<vars, reader, told>>
    <3>1. SupervisorInv'
      BY <2>1, InvariantStep DEF InspectionInv
    <3> QED
      BY <2>1, <3>1 DEF InspectionInv, InspectionTypeOK, ToldIsSound, ReadIsSound, OneOutcome, vars
  <2> QED
    BY <2>1, NextKeepsReaders, ReadStateStep, ReadCancellationStep DEF InspectionNext
<1> QED
  BY <1>1, <1>2, PTL DEF InspectionSpec

\* A terminal verdict means that nothing of the command runs or may begin, for
\* every way in which the two readings of inspect fall among the other steps.
THEOREM VerdictIsOverHolds == InspectionSpec => []VerdictIsOver
<1>1. ASSUME InspectionInv, NEW a \in Attempts, told[a] # {} PROVE ~InFlight(a)
  <2>1. AttemptInv(a) /\ file[a].status \in {"succeeded", "failed", "cancelled"}
    BY <1>1 DEF InspectionInv, SupervisorInv, ToldIsSound, Terminal
  <2> QED
    BY <2>1 DEF AttemptInv, SpawnedIsUnregistered, ComputingIsRegistered, InFlight
<1>2. InspectionInv => VerdictIsOver
  BY <1>1 DEF VerdictIsOver
<1> QED
  BY <1>2, InspectionInvHolds, PTL

\* Verdicts change only from one outcome to a cancellation, which is the last
\* (cancel, cancel_execute, execute, inspect).
THEOREM VerdictsInOrder == InspectionSpec => []OutcomeThenCancelled
<1>1. ASSUME InspectionInv, NEW a \in Attempts PROVE ~({"succeeded", "failed"} \subseteq told[a])
  BY <1>1 DEF InspectionInv, OneOutcome
<1>2. ASSUME InspectionInv, NEW r \in Readers, NEW a \in Attempts, reader[r].of = a, reader[r].knew
      PROVE  Verdict(a, reader[r].state) = "cancelled"
  BY <1>2 DEF InspectionInv, ReadIsSound, Verdict
<1>3. InspectionInv => OutcomeThenCancelled
  BY <1>1, <1>2 DEF OutcomeThenCancelled
<1> QED
  BY <1>3, InspectionInvHolds, PTL
=============================================================================
