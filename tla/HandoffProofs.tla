---------------------------- MODULE HandoffProofs ----------------------------
(***************************************************************************)
(* Proofs about WorkerHandoff, for either slot protocol, any providers that *)
(* lack a file and any number of requests and killed programs.             *)
(*                                                                         *)
(* The programs exclude each other by locks that they give up when they are *)
(* killed, and by audit files that stay.  The invariant says what each of  *)
(* the two is good for: a controller that holds the gates of a provider has *)
(* its old worker between files (AtBoundary), a pause that holds them has  *)
(* it in the middle of one; and an audit that does not name a provider is  *)
(* proof that its worker was not signalled by that plan.                   *)
(***************************************************************************)
EXTENDS WorkerHandoff, TLAPS

WorkerPcs == {"none", "start", "pick", "probe", "picked", "gated", "moving", "seal", "leave"}
ControllerPcs == {"none", "fencing", "turn", "check", "look", "stop", "termed", "exited", "spawned", "dead"}
AuditStates == {"none", "waiting", "stopping", "started", "timeout", "review"}
Entries == {"none", "verified", "exited", "started"}
PausePcs == {"none", "prepared", "frozen", "looked", "cut", "curlgone", "ending", "gone", "free",
             "starting", "spawned", "ended", "killed"}

PauseAudits == {"none", "prepared", "review", "interrupt", "curl_exited", "interrupted", "released",
                "starting", "started"}

\* Every variable the properties look at has its type.
HandoffTypeOK ==
  /\ mode \in {"legacy", "modern"}
  /\ file \in [Sources -> {"queued", "downloading", "ready"}]
  /\ sealed \subseteq Sources
  /\ worker \in [Sources -> [gen : {"old", "new"}, pc : WorkerPcs, stopped : BOOLEAN, term : BOOLEAN]]
  /\ marker \in [Sources -> {"none", "torn", "old", "new"}]
  /\ curl \in [Sources -> BOOLEAN]
  /\ waking \subseteq Sources
  /\ ctl \in [Plans -> [pc : ControllerPcs, source : Sources, pending : SUBSET Sources,
                        stopped : BOOLEAN, alarm : BOOLEAN]]
  /\ audit \in [Plans -> [status : AuditStates, entry : [Sources -> Entries]]]
  /\ pause \in PausePcs /\ pauseAudit \in PauseAudits
  /\ signalled \in [Sources -> SUBSET Operations]

\* Between files: the place a plan may stop a worker at.
AtBoundary(s) ==
  /\ file[s] # "downloading" /\ ~curl[s]
  /\ worker[s].pc \notin {"probe", "seal", "gated", "moving"}

\* What a worker's place says of its file, and who may have touched it.
WorkerIsSound(s) ==
  /\ worker[s].pc = "none" => worker[s] = NoWorker
  /\ worker[s].stopped \/ worker[s].term => worker[s].gen = "old"
  /\ worker[s].stopped => s = "ecmwf"
  /\ s \in sealed => file[s] = "ready"
  /\ worker[s].pc \in {"picked", "gated"} => file[s] = "queued"
  /\ worker[s].pc = "moving" => file[s] = "downloading"
  /\ worker[s].pc = "seal" => file[s] = "ready" /\ s \notin sealed

\* An old worker that was signalled has the signal pending, at the boundary if
\* a plan sent it and in the middle of a transfer if a pause did.
SignalIsSound(s) ==
  /\ "pause" \in signalled[s] => s = "ecmwf" /\ mode = "modern" /\ signalled[s] = {"pause"}
                                 /\ pause \notin {"none", "prepared", "frozen", "looked", "cut", "curlgone"}
  /\ OldAlive(s) => (worker[s].term <=> signalled[s] # {})
  /\ OldAlive(s) /\ "pause" \in signalled[s] => worker[s].pc = "moving"
  /\ OldAlive(s) /\ worker[s].term /\ "pause" \notin signalled[s] => AtBoundary(s)

ControllerIsSound(p) ==
  /\ ctl[p].pc = "none" => \A s \in Sources : audit[p].entry[s] = "none"
  /\ ctl[p].pc # "none" => audit[p].status # "none"
  /\ ctl[p].pc \in {"stop", "termed", "exited", "spawned"} => audit[p].entry[ctl[p].source] # "none"
  /\ \A s \in Sources : p \in signalled[s] => audit[p].entry[s] # "none"
  /\ \A s \in Sources : HoldsGates(p, s) /\ OldAlive(s) => AtBoundary(s)

\* The first plan is over and has not signalled ECMWF's worker.
FirstPlanIsOver ==
  audit["both"].status # "none" /\ ~Live("both") /\ "both" \notin signalled["ecmwf"]

\* Who rests on the first plan's audit, and what a pause has in its hands.
InTurn ==
  /\ mode = "legacy" => pause = "none"
  /\ mode = "legacy" /\ ctl["ecmwf"].pc # "none" => FirstPlanIsOver
  /\ pause # "none" => FirstPlanIsOver /\ pauseAudit # "none"
  /\ worker["ecmwf"].stopped =>
       \/ pause \in {"frozen", "looked", "cut", "curlgone", "killed"}
       \/ pause = "ended" /\ pauseAudit = "interrupted"
  /\ pause \in {"frozen", "looked", "cut", "curlgone"} => OldAlive("ecmwf") /\ worker["ecmwf"].stopped
  /\ pause \in {"looked", "cut", "curlgone"} => worker["ecmwf"].pc = "moving"
  /\ pause \in {"looked", "cut", "curlgone", "ending"} => \A p \in Plans : ~HoldsGates(p, "ecmwf")

HandoffInv ==
  /\ HandoffTypeOK
  /\ \A s \in Sources : WorkerIsSound(s) /\ SignalIsSound(s)
  /\ \A p \in Plans : ControllerIsSound(p)
  /\ InTurn

-----------------------------------------------------------------------------
(* What follows from the invariant, and the start.                         *)

LEMMA HandoffStart == Init => HandoffInv
<1> SUFFICES ASSUME Init PROVE HandoffInv
  OBVIOUS
<1> USE DEF Init, Sources, Plans, Operations, OldWorker, NoWorker
<1>1. HandoffTypeOK
  BY HandoffAssumption DEF HandoffTypeOK, WorkerPcs, ControllerPcs, AuditStates, Entries, PausePcs, PauseAudits
<1>2. \A s \in Sources : WorkerIsSound(s) /\ SignalIsSound(s)
  BY DEF WorkerIsSound, SignalIsSound, OldAlive
<1>3. \A p \in Plans : ControllerIsSound(p)
  BY DEF ControllerIsSound, HoldsGates
<1>4. InTurn
  BY DEF InTurn, FirstPlanIsOver, Live
<1> QED
  BY <1>1, <1>2, <1>3, <1>4 DEF HandoffInv

LEMMA UntouchedFollows == HandoffInv => UnactedIsUntouched
  BY DEF HandoffInv, ControllerIsSound, UnactedIsUntouched

LEMMA AloneFollows == HandoffInv => ActsAlone
<1> SUFFICES ASSUME HandoffInv, NEW o \in signalled["ecmwf"], o = "pause" \/ (o = "ecmwf" /\ mode = "legacy")
             PROVE  signalled["ecmwf"] = {o}
  BY DEF ActsAlone
<1>1. CASE o = "pause"
  BY <1>1 DEF HandoffInv, SignalIsSound, Sources
<1>2. CASE o = "ecmwf" /\ mode = "legacy"
  <2>1. "pause" \notin signalled["ecmwf"]
    BY <1>2 DEF HandoffInv, SignalIsSound, Sources
  <2>2. ctl["ecmwf"].pc # "none"
    BY <1>2 DEF HandoffInv, ControllerIsSound, Sources, Plans
  <2>3. "both" \notin signalled["ecmwf"]
    BY <1>2, <2>2 DEF HandoffInv, InTurn, FirstPlanIsOver
  <2>4. signalled["ecmwf"] \subseteq {"both", "ecmwf", "pause"}
    BY DEF HandoffInv, HandoffTypeOK, Sources, Operations, Plans
  <2> QED
    BY <1>2, <2>1, <2>3, <2>4
<1> QED
  BY <1>1, <1>2

LEMMA OwnedFollows == HandoffInv => StoppedIsOwned
  BY DEF HandoffInv, InTurn, StoppedIsOwned

-----------------------------------------------------------------------------
(* One worker moves.                                                       *)

\* What a step of the pool may do to the worker of s, whoever looks at it: it
\* does not change hands or age, stands where it is stopped or told to end, and
\* stays between files while a plan holds its gates.
Moves(s) ==
  /\ OldAlive(s)' => OldAlive(s) /\ worker'[s].term = worker[s].term
  /\ worker'[s].stopped = worker[s].stopped
  /\ OldAlive(s)' /\ (worker[s].term \/ worker[s].stopped) => worker'[s].pc = worker[s].pc
  /\ worker[s].stopped => OldAlive(s)'
  /\ OldAlive(s)' /\ AtBoundary(s) /\ (worker[s].term \/ \E p \in Plans : HoldsGates(p, s)) => AtBoundary(s)'

\* The others of the pool are not touched, nor are the programs.
OthersStay(s) ==
  /\ \A q \in Sources \ {s} : /\ worker'[q] = worker[q] /\ file'[q] = file[q] /\ curl'[q] = curl[q]
                              /\ (q \in sealed' <=> q \in sealed)
  /\ mode' = mode /\ ctl' = ctl /\ audit' = audit /\ pause' = pause /\ pauseAudit' = pauseAudit
  /\ signalled' = signalled

LEMMA PoolMoves ==
  ASSUME HandoffInv, NEW s \in Sources, HandoffTypeOK', OthersStay(s), WorkerIsSound(s)', Moves(s)
  PROVE  HandoffInv'
<1> USE DEF OthersStay
<1>1. ASSUME NEW q \in Sources PROVE WorkerIsSound(q)' /\ SignalIsSound(q)'
  <2>1. CASE q = s
    BY <2>1 DEF HandoffInv, SignalIsSound, Moves
  <2>2. CASE q # s
    <3>1. WorkerIsSound(q)'
      BY <2>2 DEF HandoffInv, WorkerIsSound
    <3>2. SignalIsSound(q)'
      BY <2>2 DEF HandoffInv, SignalIsSound, OldAlive, AtBoundary
    <3> QED
      BY <3>1, <3>2
  <2> QED
    BY <2>1, <2>2
<1>2. ASSUME NEW p \in Plans PROVE ControllerIsSound(p)'
  <2>1. ControllerIsSound(p)
    BY DEF HandoffInv
  <2>2. ASSUME NEW q \in Sources, HoldsGates(p, q)', OldAlive(q)' PROVE AtBoundary(q)'
    <3>1. CASE q = s
      BY <2>1, <2>2, <3>1 DEF Moves, ControllerIsSound, HoldsGates
    <3>2. CASE q # s
      BY <2>1, <2>2, <3>2 DEF ControllerIsSound, HoldsGates, OldAlive, AtBoundary
    <3> QED
      BY <3>1, <3>2
  <2> QED
    BY <2>1, <2>2 DEF ControllerIsSound
<1>3. InTurn'
  <2>1. InTurn
    BY DEF HandoffInv
  <2>2. CASE s = "ecmwf"
    BY <2>1, <2>2 DEF InTurn, Moves, FirstPlanIsOver, Live, HoldsGates
  <2>3. CASE s # "ecmwf"
    BY <2>1, <2>3 DEF InTurn, FirstPlanIsOver, Live, HoldsGates, OldAlive, Sources
  <2> QED
    BY <2>2, <2>3
<1> QED
  BY <1>1, <1>2, <1>3 DEF HandoffInv


\* A worker that runs goes to its next place; what it writes of its file has to
\* be out of the way of whoever holds its gates.
RanTo(s, from, pc) ==
  /\ worker' \in [Sources -> [gen : {"old", "new"}, pc : WorkerPcs, stopped : BOOLEAN, term : BOOLEAN]]
  /\ \A q \in Sources \ {s} : worker'[q] = worker[q]
  /\ worker[s].pc = from /\ worker'[s].pc = pc /\ ~worker'[s].stopped /\ ~worker'[s].term
  /\ (\A p \in Plans : ~HoldsGates(p, s)) \/ (AtBoundary(s) => AtBoundary(s)') => Moves(s)

LEMMA RunsTo ==
  ASSUME HandoffInv, NEW s \in Sources, NEW from \in WorkerPcs \ {"none"}, NEW pc \in WorkerPcs \ {"none"},
         Runs(s, from), Goto(s, pc)
  PROVE  RanTo(s, from, pc)
<1>1. worker \in [Sources -> [gen : {"old", "new"}, pc : WorkerPcs, stopped : BOOLEAN, term : BOOLEAN]]
  BY DEF HandoffInv, HandoffTypeOK
<1>2. /\ worker' \in [Sources -> [gen : {"old", "new"}, pc : WorkerPcs, stopped : BOOLEAN, term : BOOLEAN]]
      /\ \A q \in Sources \ {s} : worker'[q] = worker[q]
      /\ worker[s].pc = from /\ worker'[s].pc = pc /\ worker'[s].gen = worker[s].gen
      /\ ~worker[s].stopped /\ ~worker[s].term /\ ~worker'[s].stopped /\ ~worker'[s].term
      /\ worker'[s].stopped = worker[s].stopped /\ worker'[s].term = worker[s].term
  BY <1>1 DEF Goto, Runs
<1>3. OldAlive(s)' => OldAlive(s)
  BY <1>2 DEF OldAlive
<1> QED
  BY <1>2, <1>3 DEF Moves, RanTo

LEMMA WorkerGoesOn ==
  ASSUME HandoffInv, NEW s \in Sources, WorkerStep(s)
  PROVE  HandoffInv'
<1>1. HandoffTypeOK /\ WorkerIsSound(s)
  BY DEF HandoffInv
<1>2. UNCHANGED <<mode, ctl, audit, pause, pauseAudit, signalled>>
  BY DEF WorkerStep, plan, bridge
<1>3. StateFree(s) => \A p \in Plans : ~HoldsGates(p, s)
  BY DEF StateFree
<1>4. OthersStay(s) /\ HandoffTypeOK' /\ Moves(s) /\ WorkerIsSound(s)'
  <2> USE DEF WorkerPcs
  <2>1. CASE Pick(s)
    <3>1. PICK pc \in {"picked", "probe", "leave"} :
            RanTo(s, "pick", pc) /\ (pc = "picked" => file[s] = "queued")
      BY <2>1, RunsTo DEF Pick
    <3>2. OthersStay(s) /\ HandoffTypeOK'
      BY <2>1, <1>1, <1>2, <3>1 DEF Pick, RanTo, OthersStay, HandoffTypeOK
    <3>3. Moves(s)
      BY <2>1, <1>3, <3>1 DEF Pick, RanTo
    <3>4. WorkerIsSound(s)'
      BY <2>1, <1>1, <3>1 DEF Pick, RanTo, WorkerIsSound
    <3> QED
      BY <3>2, <3>3, <3>4
  <2>2. CASE ProbeEnds(s)
    <3>1. RanTo(s, "probe", "pick")
      BY <2>2, RunsTo DEF ProbeEnds
    <3>2. OthersStay(s) /\ HandoffTypeOK'
      BY <2>2, <1>1, <1>2, <3>1 DEF ProbeEnds, RanTo, OthersStay, HandoffTypeOK
    <3>3. Moves(s)
      BY <2>2, <1>3, <3>1 DEF ProbeEnds, RanTo
    <3>4. WorkerIsSound(s)'
      BY <2>2, <1>1, <3>1 DEF ProbeEnds, RanTo, WorkerIsSound
    <3> QED
      BY <3>2, <3>3, <3>4
  <2>3. CASE TakeGates(s)
    <3>1. PICK pc \in {"gated", "pick"} : RanTo(s, "picked", pc)
      BY <2>3, RunsTo DEF TakeGates
    <3>2. OthersStay(s) /\ HandoffTypeOK'
      BY <2>3, <1>1, <1>2, <3>1 DEF TakeGates, RanTo, OthersStay, HandoffTypeOK
    <3>3. Moves(s)
      BY <2>3, <1>3, <3>1 DEF TakeGates, RanTo, CycleFree, AtBoundary
    <3>4. WorkerIsSound(s)'
      BY <2>3, <1>1, <3>1 DEF TakeGates, RanTo, WorkerIsSound
    <3> QED
      BY <3>2, <3>3, <3>4
  <2>4. CASE StartTransfer(s)
    <3>1. RanTo(s, "gated", "moving")
      BY <2>4, RunsTo DEF StartTransfer
    <3>2. OthersStay(s) /\ HandoffTypeOK'
      BY <2>4, <1>1, <1>2, <3>1 DEF StartTransfer, RanTo, OthersStay, HandoffTypeOK
    <3>3. Moves(s)
      BY <2>4, <1>3, <3>1 DEF StartTransfer, RanTo
    <3>4. WorkerIsSound(s)'
      BY <2>4, <1>1, <3>1 DEF StartTransfer, RanTo, WorkerIsSound, HandoffTypeOK
    <3> QED
      BY <3>2, <3>3, <3>4
  <2>5. CASE Settle(s)
    <3>1. PICK pc \in {"seal", "pick"} :
            RanTo(s, "moving", pc) /\ file' = [file EXCEPT ![s] = IF pc = "seal" THEN "ready" ELSE "queued"]
      BY <2>5, RunsTo DEF Settle
    <3>2. OthersStay(s) /\ HandoffTypeOK'
      BY <2>5, <1>1, <1>2, <3>1 DEF Settle, RanTo, OthersStay, HandoffTypeOK
    <3>3. Moves(s)
      BY <2>5, <1>3, <3>1 DEF Settle, RanTo
    <3>4. WorkerIsSound(s)'
      BY <2>5, <1>1, <3>1 DEF Settle, RanTo, WorkerIsSound, HandoffTypeOK
    <3> QED
      BY <3>2, <3>3, <3>4
  <2>6. CASE Seal(s)
    <3>1. RanTo(s, "seal", "pick")
      BY <2>6, RunsTo DEF Seal
    <3>2. OthersStay(s) /\ HandoffTypeOK'
      BY <2>6, <1>1, <1>2, <3>1 DEF Seal, RanTo, OthersStay, HandoffTypeOK
    <3>3. Moves(s)
      BY <3>1 DEF RanTo, AtBoundary
    <3>4. WorkerIsSound(s)'
      BY <2>6, <1>1, <3>1 DEF Seal, RanTo, WorkerIsSound
    <3> QED
      BY <3>2, <3>3, <3>4
  <2>7. CASE Recover(s)
    <3>1. RanTo(s, "start", "pick")
      BY <2>7, RunsTo DEF Recover
    <3>2. OthersStay(s) /\ HandoffTypeOK'
      BY <2>7, <1>1, <1>2, <3>1 DEF Recover, RanTo, OthersStay, HandoffTypeOK
    <3>3. Moves(s)
      BY <2>7, <1>3, <3>1 DEF Recover, RanTo
    <3>4. WorkerIsSound(s)'
      BY <2>7, <1>1, <3>1 DEF Recover, RanTo, WorkerIsSound
    <3> QED
      BY <3>2, <3>3, <3>4
  <2>8. CASE CurlEnds(s)
    <3>1. OthersStay(s) /\ HandoffTypeOK'
      BY <2>8, <1>1, <1>2 DEF CurlEnds, OthersStay, HandoffTypeOK, NoWorker
    <3>2. Moves(s)
      BY <2>8, <1>1 DEF CurlEnds, Moves, OldAlive, AtBoundary, WorkerIsSound, HandoffTypeOK, NoWorker
    <3>3. WorkerIsSound(s)'
      BY <2>8, <1>1 DEF CurlEnds, WorkerIsSound, HandoffTypeOK, NoWorker
    <3> QED
      BY <3>1, <3>2, <3>3
  <2>9. CASE Leave(s)
    <3>1. OthersStay(s) /\ HandoffTypeOK'
      BY <2>9, <1>1, <1>2 DEF Leave, OthersStay, HandoffTypeOK, NoWorker
    <3>2. Moves(s)
      BY <2>9, <1>1 DEF Leave, Moves, OldAlive, AtBoundary, WorkerIsSound, HandoffTypeOK, NoWorker, Runs
    <3>3. WorkerIsSound(s)'
      BY <2>9, <1>1 DEF Leave, WorkerIsSound, HandoffTypeOK, NoWorker, Runs
    <3> QED
      BY <3>1, <3>2, <3>3
  <2>10. CASE Die(s)
    <3>1. OthersStay(s) /\ HandoffTypeOK'
      BY <2>10, <1>1, <1>2 DEF Die, OthersStay, HandoffTypeOK, NoWorker
    <3>2. Moves(s)
      BY <2>10, <1>1 DEF Die, Moves, OldAlive, AtBoundary, WorkerIsSound, HandoffTypeOK, NoWorker
    <3>3. WorkerIsSound(s)'
      BY <2>10, <1>1 DEF Die, WorkerIsSound, HandoffTypeOK, NoWorker
    <3> QED
      BY <3>1, <3>2, <3>3
  <2>11. CASE TryStart(s)
    <3>1. CASE worker' = worker
      <4>1. UNCHANGED <<file, sealed, curl>> /\ waking' \subseteq waking
            /\ marker' \in [Sources -> {"none", "torn", "old", "new"}]
        BY <2>11, <1>1 DEF TryStart, HandoffTypeOK
      <4>2. OthersStay(s) /\ HandoffTypeOK'
        BY <1>1, <1>2, <3>1, <4>1 DEF OthersStay, HandoffTypeOK
      <4>3. Moves(s)
        BY <1>1, <3>1, <4>1 DEF Moves, OldAlive, AtBoundary, WorkerIsSound, NoWorker
      <4>4. WorkerIsSound(s)'
        BY <1>1, <3>1, <4>1 DEF WorkerIsSound
      <4> QED
        BY <4>2, <4>3, <4>4
    <3>2. CASE worker[s].pc = "none" /\ Goto(s, "start") /\ marker' = [marker EXCEPT ![s] = "torn"]
      <4>1. worker[s] = NoWorker
        BY <1>1, <3>2 DEF WorkerIsSound
      <4>2. /\ worker' \in [Sources -> [gen : {"old", "new"}, pc : WorkerPcs, stopped : BOOLEAN, term : BOOLEAN]]
            /\ worker'[s] = [NoWorker EXCEPT !.pc = "start"] /\ \A q \in Sources \ {s} : worker'[q] = worker[q]
        BY <1>1, <3>2, <4>1 DEF Goto, HandoffTypeOK, NoWorker
      <4>3. OthersStay(s) /\ HandoffTypeOK'
        BY <2>11, <1>1, <1>2, <3>2, <4>2 DEF TryStart, OthersStay, HandoffTypeOK
      <4>4. Moves(s)
        BY <4>1, <4>2 DEF Moves, OldAlive, NoWorker
      <4>5. WorkerIsSound(s)'
        BY <2>11, <1>1, <4>2 DEF TryStart, WorkerIsSound, NoWorker
      <4> QED
        BY <4>3, <4>4, <4>5
    <3> QED
      BY <2>11, <3>1, <3>2 DEF TryStart
  <2> QED
    BY <2>1, <2>2, <2>3, <2>4, <2>5, <2>6, <2>7, <2>8, <2>9, <2>10, <2>11 DEF WorkerStep
<1> QED
  BY <1>4, PoolMoves

LEMMA RequestIsSound ==
  ASSUME HandoffInv, NEW s \in Sources, Request(s)
  PROVE  HandoffInv'
<1>1. HandoffTypeOK /\ WorkerIsSound(s)
  BY DEF HandoffInv
<1>2. UNCHANGED <<mode, worker, marker, curl, ctl, audit, pause, pauseAudit, signalled>>
  BY DEF Request, plan, bridge
<1>3. OthersStay(s) /\ HandoffTypeOK'
  BY <1>1, <1>2 DEF Request, OthersStay, HandoffTypeOK
<1>4. Moves(s)
  <2>1. (OldAlive(s)' <=> OldAlive(s)) /\ (worker[s].stopped => OldAlive(s))
    BY <1>1, <1>2 DEF OldAlive, WorkerIsSound, NoWorker
  <2>2. file'[s] \in {file[s], "queued"}
    BY <1>1 DEF Request, HandoffTypeOK
  <2>3. AtBoundary(s) => AtBoundary(s)'
    BY <1>2, <2>2 DEF AtBoundary
  <2> QED
    BY <1>2, <2>1, <2>3 DEF Moves
<1>5. WorkerIsSound(s)'
  BY <1>1, <1>2 DEF Request, WorkerIsSound, HandoffTypeOK
<1> QED
  BY <1>3, <1>4, <1>5, PoolMoves

-----------------------------------------------------------------------------
(* One controller moves.                                                   *)

PlanOnly(p) ==
  /\ UNCHANGED <<mode, file, sealed, marker, curl, pause, pauseAudit>>
  /\ \A q \in Plans \ {p} : ctl'[q] = ctl[q] /\ audit'[q] = audit[q]

\* What a step may do to the plan p: its audit forgets nothing and is there
\* before the controller is; it begins once, and takes gates at a boundary only.
Advances(p) ==
  /\ \A s \in Sources : audit[p].entry[s] # "none" => audit'[p].entry[s] # "none"
  /\ audit[p].status # "none" => audit'[p].status # "none"
  /\ ctl'[p].pc = "none" => ctl[p].pc = "none" /\ audit'[p] = audit[p]
  /\ ctl'[p].pc # "none" => audit'[p].status # "none"
  /\ Live(p)' => Live(p) \/ audit[p].status = "none"
  /\ p = "ecmwf" /\ mode = "legacy" /\ ctl[p].pc = "none" /\ ctl'[p].pc # "none" => FirstPlanIsOver
  /\ ctl'[p].pc \in {"stop", "termed", "exited", "spawned"} => audit'[p].entry[ctl'[p].source] # "none"
  /\ \A s \in Sources : HoldsGates(p, s)' =>
       HoldsGates(p, s) \/ (AtBoundary(s) /\ (s = "ecmwf" => pause \notin {"looked", "cut", "curlgone", "ending"}))

LEMMA PlanMoves ==
  ASSUME HandoffInv, NEW p \in Plans, HandoffTypeOK', PlanOnly(p), Advances(p), UNCHANGED <<worker, signalled>>
  PROVE  HandoffInv'
<1>1. ASSUME NEW s \in Sources PROVE WorkerIsSound(s)' /\ SignalIsSound(s)'
  BY DEF HandoffInv, PlanOnly, WorkerIsSound, SignalIsSound, OldAlive, AtBoundary
<1>2. ASSUME NEW q \in Plans PROVE ControllerIsSound(q)'
  <2>1. ControllerIsSound(q)
    BY DEF HandoffInv
  <2>2. \A s \in Sources : (OldAlive(s)' <=> OldAlive(s)) /\ (AtBoundary(s)' <=> AtBoundary(s))
    BY DEF PlanOnly, OldAlive, AtBoundary
  <2>3. CASE q = p
    BY <2>1, <2>2, <2>3 DEF Advances, ControllerIsSound
  <2>4. CASE q # p
    BY <2>1, <2>2, <2>4 DEF PlanOnly, ControllerIsSound, HoldsGates
  <2> QED
    BY <2>3, <2>4
<1>3. InTurn'
  <2>1. InTurn
    BY DEF HandoffInv
  <2>2. FirstPlanIsOver => FirstPlanIsOver'
    BY DEF FirstPlanIsOver, PlanOnly, Advances, Live, Plans
  <2>3. mode = "legacy" /\ (ctl["ecmwf"].pc # "none")' => FirstPlanIsOver'
    BY <2>1, <2>2 DEF InTurn, PlanOnly, Advances, Plans
  <2>4. pause \in {"looked", "cut", "curlgone", "ending"} => \A q \in Plans : ~HoldsGates(q, "ecmwf")'
    BY <2>1 DEF InTurn, PlanOnly, Advances, HoldsGates, Plans, Sources
  <2> QED
    BY <2>1, <2>2, <2>3, <2>4 DEF InTurn, PlanOnly, OldAlive
<1> QED
  BY <1>1, <1>2, <1>3 DEF HandoffInv

LEMMA NoteWrites ==
  ASSUME audit \in [Plans -> [status : AuditStates, entry : [Sources -> Entries]]],
         NEW p \in Plans, NEW s \in Sources, NEW status \in AuditStates, NEW entry \in Entries, Note(p, status, s, entry)
  PROVE  /\ audit' \in [Plans -> [status : AuditStates, entry : [Sources -> Entries]]]
         /\ audit'[p].status = status /\ audit'[p].entry[s] = entry
         /\ \A q \in Sources \ {s} : audit'[p].entry[q] = audit[p].entry[q]
         /\ \A q \in Plans \ {p} : audit'[q] = audit[q]
<1> DEFINE old == audit[p]
           first == [audit EXCEPT ![p].status = status]
           half == [old EXCEPT !.status = status]
<1>1. /\ half \in [status : AuditStates, entry : [Sources -> Entries]]
      /\ half.status = status /\ half.entry = old.entry
  OBVIOUS
<1>2. /\ first \in [Plans -> [status : AuditStates, entry : [Sources -> Entries]]] /\ first[p] = half
      /\ \A q \in Plans \ {p} : first[q] = audit[q]
  BY <1>1
<1>3. audit' = [first EXCEPT ![p].entry[s] = entry]
  BY DEF Note
<1> HIDE DEF half, first
<1> DEFINE a == [half EXCEPT !.entry[s] = entry]
<1>4. /\ a \in [status : AuditStates, entry : [Sources -> Entries]]
      /\ a.status = status /\ a.entry[s] = entry
      /\ \A q \in Sources \ {s} : a.entry[q] = half.entry[q]
  BY <1>1
<1>5. audit' = [first EXCEPT ![p] = a]
  BY <1>2, <1>3
<1> HIDE DEF a
<1> QED
  BY <1>1, <1>2, <1>4, <1>5

LEMMA StepGoes ==
  ASSUME ctl \in [Plans -> [pc : ControllerPcs, source : Sources, pending : SUBSET Sources, stopped : BOOLEAN, alarm : BOOLEAN]],
         NEW p \in Plans, NEW pc \in ControllerPcs, Step(p, pc)
  PROVE  /\ ctl' \in [Plans -> [pc : ControllerPcs, source : Sources, pending : SUBSET Sources, stopped : BOOLEAN, alarm : BOOLEAN]]
         /\ ctl'[p].pc = pc /\ ctl'[p].source = ctl[p].source
         /\ \A q \in Plans \ {p} : ctl'[q] = ctl[q]
  BY DEF Step

LEMMA TurnPasses ==
  ASSUME ctl \in [Plans -> [pc : ControllerPcs, source : Sources, pending : SUBSET Sources, stopped : BOOLEAN, alarm : BOOLEAN]],
         NEW p \in Plans, NEW pending \in SUBSET Sources, NextTurn(p, pending)
  PROVE  /\ ctl' \in [Plans -> [pc : ControllerPcs, source : Sources, pending : SUBSET Sources, stopped : BOOLEAN, alarm : BOOLEAN]]
         /\ ctl'[p].pc \in {"turn", "dead"}
         /\ \A q \in Plans \ {p} : ctl'[q] = ctl[q]
<1> DEFINE other == pending \ {ctl[p].source}
           next == IF other = {} THEN ctl[p].source ELSE CHOOSE s \in other : TRUE
           c == [ctl[p] EXCEPT !.pc = IF pending = {} THEN "dead" ELSE "turn", !.pending = pending, !.source = next]
<1>1. next \in Sources
  OBVIOUS
<1>2. c \in [pc : ControllerPcs, source : Sources, pending : SUBSET Sources, stopped : BOOLEAN, alarm : BOOLEAN]
      /\ c.pc \in {"turn", "dead"}
  BY <1>1 DEF ControllerPcs
<1>3. ctl' = [ctl EXCEPT ![p] = c]
  BY DEF NextTurn
<1> QED
  BY <1>2, <1>3

LEMMA ControllerDies ==
  ASSUME ctl \in [Plans -> [pc : ControllerPcs, source : Sources, pending : SUBSET Sources, stopped : BOOLEAN, alarm : BOOLEAN]],
         NEW p \in Plans, ctl' = [ctl EXCEPT ![p].pc = "dead", ![p].alarm = FALSE]
  PROVE  /\ ctl' \in [Plans -> [pc : ControllerPcs, source : Sources, pending : SUBSET Sources, stopped : BOOLEAN, alarm : BOOLEAN]]
         /\ ctl'[p].pc = "dead" /\ \A q \in Plans \ {p} : ctl'[q] = ctl[q]
<1> DEFINE first == [ctl EXCEPT ![p].pc = "dead"]
<1>1. /\ first \in [Plans -> [pc : ControllerPcs, source : Sources, pending : SUBSET Sources, stopped : BOOLEAN, alarm : BOOLEAN]]
      /\ first[p].pc = "dead" /\ \A q \in Plans \ {p} : first[q] = ctl[q]
  BY DEF ControllerPcs
<1> QED
  BY <1>1

LEMMA FailIsSound ==
  ASSUME HandoffInv, NEW p \in Plans, NEW status \in AuditStates \ {"none"}, Live(p), Fail(p, status),
         UNCHANGED <<mode, file, sealed, marker, curl, pause, pauseAudit, worker, signalled>>, waking' \subseteq Sources
  PROVE  HandoffInv'
<1>1. HandoffTypeOK
  BY DEF HandoffInv
<1>2. Ahead(p) \in Entries /\ (Ahead(p) = "none" => audit[p].entry[ctl[p].source] = "none")
  BY <1>1 DEF Ahead, HandoffTypeOK, Entries
<1>3. PICK entry \in {Ahead(p), audit[p].entry[ctl[p].source]} : Note(p, status, ctl[p].source, entry)
  BY DEF Fail
<1>4. entry \in Entries /\ ctl[p].source \in Sources /\ (entry = "none" => audit[p].entry[ctl[p].source] = "none")
  BY <1>1, <1>2 DEF HandoffTypeOK
<1>5. /\ audit' \in [Plans -> [status : AuditStates, entry : [Sources -> Entries]]]
      /\ audit'[p].status = status /\ audit'[p].entry[ctl[p].source] = entry
      /\ \A q \in Sources \ {ctl[p].source} : audit'[p].entry[q] = audit[p].entry[q]
      /\ \A q \in Plans \ {p} : audit'[q] = audit[q]
  BY <1>1, <1>3, <1>4, NoteWrites DEF HandoffTypeOK
<1>6. /\ ctl' \in [Plans -> [pc : ControllerPcs, source : Sources, pending : SUBSET Sources, stopped : BOOLEAN, alarm : BOOLEAN]]
      /\ ctl'[p].pc = "dead" /\ \A q \in Plans \ {p} : ctl'[q] = ctl[q]
  BY <1>1, ControllerDies DEF Fail, HandoffTypeOK
<1>7. HandoffTypeOK'
  BY <1>1, <1>5, <1>6 DEF HandoffTypeOK
<1>8. PlanOnly(p)
  BY <1>5, <1>6 DEF PlanOnly
<1>9. Advances(p)
  BY <1>4, <1>5, <1>6 DEF Advances, Live, HoldsGates
<1> QED
  BY <1>7, <1>8, <1>9, PlanMoves

\* The signal: the worker is at the boundary because the controller holds its
\* gates, which also means that no pause has its hands on it.
LEMMA TermIsSound ==
  ASSUME HandoffInv, NEW p \in Plans, SendTerm(p), OldAlive(ctl[p].source),
         UNCHANGED <<mode, file, sealed, marker, curl, pause, pauseAudit>>
  PROVE  HandoffInv'
<1> PICK s \in Sources : s = ctl[p].source
  BY DEF HandoffInv, HandoffTypeOK
<1>1. HandoffTypeOK /\ (\A q \in Sources : WorkerIsSound(q) /\ SignalIsSound(q))
      /\ (\A q \in Plans : ControllerIsSound(q)) /\ InTurn
  BY DEF HandoffInv
<1>2. OldAlive(s) /\ HoldsGates(p, s) /\ ctl[p].pc = "stop"
  BY DEF SendTerm, Act, HoldsGates
<1>3. Step(p, "termed") /\ UNCHANGED <<audit, waking>>
      /\ worker' = [worker EXCEPT ![s].term = TRUE] /\ signalled' = [signalled EXCEPT ![s] = @ \cup {p}]
  BY DEF SendTerm
<1>4. AtBoundary(s) /\ "pause" \notin signalled[s]
  BY <1>1, <1>2 DEF ControllerIsSound, SignalIsSound, AtBoundary
<1>5. /\ ctl' \in [Plans -> [pc : ControllerPcs, source : Sources, pending : SUBSET Sources, stopped : BOOLEAN, alarm : BOOLEAN]]
      /\ ctl'[p].pc = "termed" /\ ctl'[p].source = ctl[p].source
      /\ \A q \in Plans \ {p} : ctl'[q] = ctl[q]
  BY <1>1, <1>3, StepGoes DEF HandoffTypeOK, ControllerPcs
<1>6. /\ worker' \in [Sources -> [gen : {"old", "new"}, pc : WorkerPcs, stopped : BOOLEAN, term : BOOLEAN]]
      /\ worker'[s].term /\ worker'[s].gen = worker[s].gen /\ worker'[s].pc = worker[s].pc
      /\ worker'[s].stopped = worker[s].stopped
      /\ \A q \in Sources \ {s} : worker'[q] = worker[q]
  <2>1. worker \in [Sources -> [gen : {"old", "new"}, pc : WorkerPcs, stopped : BOOLEAN, term : BOOLEAN]]
    BY <1>1 DEF HandoffTypeOK
  <2> QED
    BY <1>3, <2>1
<1>7. /\ signalled' \in [Sources -> SUBSET Operations] /\ signalled'[s] = signalled[s] \cup {p}
      /\ \A q \in Sources \ {s} : signalled'[q] = signalled[q]
  BY <1>1, <1>3 DEF HandoffTypeOK, Operations
<1>8. HandoffTypeOK'
  BY <1>1, <1>3, <1>5, <1>6, <1>7 DEF HandoffTypeOK
<1>9. \A q \in Sources : (OldAlive(q)' <=> OldAlive(q)) /\ (AtBoundary(q)' <=> AtBoundary(q))
  BY <1>6 DEF OldAlive, AtBoundary
<1>10. ASSUME NEW q \in Sources PROVE WorkerIsSound(q)' /\ SignalIsSound(q)'
  <2>1. CASE q = s
    <3>1. worker[s].pc # "none" /\ worker[s].gen = "old" /\ p # "pause"
      BY <1>2 DEF OldAlive, Plans
    <3>2. WorkerIsSound(s)'
      BY <1>1, <1>3, <1>6, <3>1 DEF WorkerIsSound
    <3>3. SignalIsSound(s)'
      BY <1>1, <1>4, <1>6, <1>7, <1>9, <3>1 DEF SignalIsSound
    <3> QED
      BY <2>1, <3>2, <3>3
  <2>2. CASE q # s
    BY <1>1, <1>6, <1>7, <1>9, <2>2 DEF WorkerIsSound, SignalIsSound
  <2> QED
    BY <2>1, <2>2
<1>11. ASSUME NEW q \in Plans PROVE ControllerIsSound(q)'
  <2>1. \A r \in Sources : HoldsGates(q, r)' <=> HoldsGates(q, r)
    BY <1>2, <1>5 DEF HoldsGates
  <2>2. audit[p].entry[s] # "none" /\ audit' = audit
    BY <1>1, <1>2, <1>3 DEF ControllerIsSound
  <2>3. \A r \in Sources : q \in signalled'[r] => audit[q].entry[r] # "none"
    BY <1>1, <1>7, <2>2 DEF ControllerIsSound
  <2>4. ControllerIsSound(q)
    BY <1>1
  <2>5. CASE q = p
    BY <1>2, <1>5, <1>9, <2>1, <2>2, <2>3, <2>4, <2>5 DEF ControllerIsSound
  <2>6. CASE q # p
    BY <1>5, <1>9, <2>1, <2>2, <2>3, <2>4, <2>6 DEF ControllerIsSound
  <2> QED
    BY <2>5, <2>6
<1>12. InTurn'
  <2>1. FirstPlanIsOver => FirstPlanIsOver'
    <3>1. CASE p = "both"
      BY <1>2, <3>1 DEF FirstPlanIsOver, Live
    <3>2. CASE p # "both"
      BY <1>3, <1>5, <1>7, <3>2 DEF FirstPlanIsOver, Live, Sources, Plans
    <3> QED
      BY <3>1, <3>2
  <2>2. ctl["ecmwf"].pc = "none" <=> ctl'["ecmwf"].pc = "none"
    BY <1>2, <1>5 DEF Plans
  <2>3. \A q \in Plans : HoldsGates(q, "ecmwf")' <=> HoldsGates(q, "ecmwf")
    BY <1>2, <1>5 DEF HoldsGates
  <2>4. worker'["ecmwf"].stopped = worker["ecmwf"].stopped /\ worker'["ecmwf"].pc = worker["ecmwf"].pc
    BY <1>6 DEF Sources
  <2> QED
    BY <1>1, <1>9, <2>1, <2>2, <2>3, <2>4 DEF InTurn, Sources
<1> QED
  BY <1>8, <1>10, <1>11, <1>12 DEF HandoffInv

LEMMA ControllerGoesOn ==
  ASSUME HandoffInv, NEW p \in Plans, ControllerStep(p)
  PROVE  HandoffInv'
<1>1. HandoffTypeOK /\ (\A q \in Plans : ControllerIsSound(q)) /\ ControllerIsSound(p) /\ ctl[p].source \in Sources
  BY DEF HandoffInv, HandoffTypeOK
<1>2. UNCHANGED <<mode, file, sealed, marker, curl, pause, pauseAudit>>
  BY DEF ControllerStep, bridge
<1> DEFINE CtlTyped == ctl' \in [Plans -> [pc : ControllerPcs, source : Sources, pending : SUBSET Sources, stopped : BOOLEAN, alarm : BOOLEAN]]
           Turned(pc) == CtlTyped /\ ctl'[p].pc = pc /\ ctl'[p].source = ctl[p].source
                         /\ \A q \in Plans \ {p} : ctl'[q] = ctl[q]
           Noted(status, entry) ==
             /\ audit' \in [Plans -> [status : AuditStates, entry : [Sources -> Entries]]]
             /\ audit'[p].status = status /\ audit'[p].entry[ctl[p].source] = entry
             /\ \A q \in Sources \ {ctl[p].source} : audit'[p].entry[q] = audit[p].entry[q]
             /\ \A q \in Plans \ {p} : audit'[q] = audit[q]
<1>3. \A pc \in ControllerPcs : Step(p, pc) => Turned(pc)
  BY <1>1, StepGoes DEF HandoffTypeOK
<1>4. \A status \in AuditStates, entry \in Entries : Note(p, status, ctl[p].source, entry) => Noted(status, entry)
  BY <1>1, NoteWrites DEF HandoffTypeOK
<1> USE DEF ControllerPcs, AuditStates, Entries
<1>5. CASE Start(p)
  <2>1. PICK pc \in {"fencing", "turn"} : Turned(pc)
    BY <1>3, <1>5 DEF Start
  <2>2. /\ audit' \in [Plans -> [status : AuditStates, entry : [Sources -> Entries]]]
        /\ audit'[p].status = "waiting" /\ audit'[p].entry = audit[p].entry
        /\ \A q \in Plans \ {p} : audit'[q] = audit[q]
    BY <1>1, <1>5 DEF Start, HandoffTypeOK
  <2>3. HandoffTypeOK' /\ PlanOnly(p)
    BY <1>1, <1>2, <1>5, <2>1, <2>2 DEF Start, HandoffTypeOK, PlanOnly
  <2>4. p = "ecmwf" /\ mode = "legacy" => FirstPlanIsOver
    <3>1. Unacted => FirstPlanIsOver
      BY <1>1 DEF Unacted, OnlyGfs, FirstPlanIsOver, ControllerIsSound, Plans, Sources
    <3> QED
      BY <1>5, <3>1 DEF Start
  <2>5. Advances(p)
    BY <1>5, <2>1, <2>2, <2>4 DEF Start, Advances, HoldsGates, Live
  <2> QED
    BY <1>5, <2>3, <2>5, PlanMoves DEF Start
<1>6. CASE HoldSlot(p)
  <2>1. Turned("turn") /\ ctl[p].pc = "fencing" /\ UNCHANGED <<audit, worker, waking, signalled>>
    BY <1>3, <1>6 DEF HoldSlot, Act
  <2>2. HandoffTypeOK' /\ PlanOnly(p)
    BY <1>1, <1>2, <2>1 DEF HandoffTypeOK, PlanOnly
  <2>3. Advances(p)
    BY <1>1, <2>1 DEF Advances, HoldsGates, Live, ControllerIsSound
  <2> QED
    BY <2>1, <2>2, <2>3, PlanMoves
<1>7. CASE TakeTurn(p)
  <2>1. Turned("check") /\ ctl[p].pc = "turn" /\ UNCHANGED <<audit, worker, waking, signalled>>
    BY <1>3, <1>7 DEF TakeTurn, Act
  <2>2. HandoffTypeOK' /\ PlanOnly(p)
    BY <1>1, <1>2, <2>1 DEF HandoffTypeOK, PlanOnly
  <2>3. Advances(p)
    BY <1>1, <2>1 DEF Advances, HoldsGates, Live, ControllerIsSound
  <2> QED
    BY <2>1, <2>2, <2>3, PlanMoves
<1>8. CASE CheckWorker(p)
  <2>1. ctl[p].pc = "check" /\ UNCHANGED <<worker, waking, signalled>>
    BY <1>8 DEF CheckWorker, Act
  <2>2. CASE Fail(p, "review")
    BY <1>1, <1>2, <2>1, <2>2, FailIsSound DEF Live, HandoffTypeOK
  <2>3. CASE Step(p, "look") /\ UNCHANGED audit
    <3>1. Turned("look")
      BY <1>3, <2>3
    <3>2. HandoffTypeOK' /\ PlanOnly(p)
      BY <1>1, <1>2, <2>1, <2>3, <3>1 DEF HandoffTypeOK, PlanOnly
    <3>3. Advances(p)
      BY <1>1, <2>1, <2>3, <3>1 DEF Advances, HoldsGates, Live, ControllerIsSound
    <3> QED
      BY <2>1, <3>2, <3>3, PlanMoves
  <2> QED
    BY <1>8, <2>2, <2>3 DEF CheckWorker
<1>9. CASE Look(p)
  <2>1. ctl[p].pc = "look" /\ UNCHANGED <<worker, waking, signalled>>
    BY <1>9 DEF Look, Act
  <2>2. CASE Fail(p, "review")
    BY <1>1, <1>2, <2>1, <2>2, FailIsSound DEF Live, HandoffTypeOK
  <2>3. CASE NextTurn(p, ctl[p].pending) /\ UNCHANGED audit
    <3>1. CtlTyped /\ ctl'[p].pc \in {"turn", "dead"} /\ \A q \in Plans \ {p} : ctl'[q] = ctl[q]
      BY <1>1, <2>3, TurnPasses DEF HandoffTypeOK
    <3>2. HandoffTypeOK' /\ PlanOnly(p)
      BY <1>1, <1>2, <2>1, <2>3, <3>1 DEF HandoffTypeOK, PlanOnly
    <3>3. Advances(p)
      BY <1>1, <2>1, <2>3, <3>1 DEF Advances, HoldsGates, Live, ControllerIsSound
    <3> QED
      BY <2>1, <3>2, <3>3, PlanMoves
  <2>4. CASE Ready(ctl[p].source) /\ OldAlive(ctl[p].source) /\ Step(p, "stop") /\ Note(p, "stopping", ctl[p].source, "verified")
    <3>1. Turned("stop") /\ Noted("stopping", "verified")
      BY <1>3, <1>4, <2>4
    <3>2. HandoffTypeOK' /\ PlanOnly(p)
      BY <1>1, <1>2, <2>1, <3>1 DEF HandoffTypeOK, PlanOnly
    <3>3. AtBoundary(ctl[p].source)
      <4>1. WorkerIsSound(ctl[p].source)
        BY <1>1 DEF HandoffInv
      <4> QED
        BY <2>4, <4>1 DEF Ready, Children, CycleFree, Transferring, AtBoundary, WorkerIsSound
    <3>4. ctl[p].source = "ecmwf" => pause \notin {"looked", "cut", "curlgone", "ending"}
      BY <2>4 DEF Ready, StateFree
    <3>5. Advances(p)
      BY <1>1, <2>1, <3>1, <3>3, <3>4 DEF Advances, HoldsGates, Live
    <3> QED
      BY <2>1, <3>2, <3>5, PlanMoves
  <2> QED
    BY <1>9, <2>2, <2>3, <2>4 DEF Look
<1>10. CASE SendTerm(p)
  <2>1. CASE OldAlive(ctl[p].source)
    BY <1>2, <1>10, <2>1, TermIsSound
  <2>2. CASE ~OldAlive(ctl[p].source)
    BY <1>1, <1>2, <1>10, <2>2, FailIsSound DEF SendTerm, Act, Live, HandoffTypeOK
  <2> QED
    BY <2>1, <2>2
<1>11. CASE AwaitExit(p)
  <2>1. ctl[p].pc = "termed" /\ UNCHANGED <<worker, waking, signalled>>
    BY <1>11 DEF AwaitExit, Act
  <2>2. CASE Fail(p, "review")
    BY <1>1, <1>2, <2>1, <2>2, FailIsSound DEF Live, HandoffTypeOK
  <2>3. CASE Step(p, "exited") /\ Note(p, "stopping", ctl[p].source, "exited")
    <3>1. Turned("exited") /\ Noted("stopping", "exited")
      BY <1>3, <1>4, <2>3
    <3>2. HandoffTypeOK' /\ PlanOnly(p)
      BY <1>1, <1>2, <2>1, <3>1 DEF HandoffTypeOK, PlanOnly
    <3>3. Advances(p)
      BY <1>1, <2>1, <3>1 DEF Advances, HoldsGates, Live
    <3> QED
      BY <2>1, <3>2, <3>3, PlanMoves
  <2> QED
    BY <1>11, <2>2, <2>3 DEF AwaitExit
<1>12. CASE Spawn(p)
  <2>1. Turned("spawned") /\ ctl[p].pc = "exited" /\ UNCHANGED <<audit, worker, signalled>> /\ waking' = waking \cup {ctl[p].source}
    BY <1>3, <1>12 DEF Spawn, Act
  <2>2. HandoffTypeOK' /\ PlanOnly(p)
    BY <1>1, <1>2, <2>1 DEF HandoffTypeOK, PlanOnly
  <2>3. Advances(p)
    BY <1>1, <2>1 DEF Advances, HoldsGates, Live, ControllerIsSound
  <2> QED
    BY <2>1, <2>2, <2>3, PlanMoves
<1>13. CASE SaveStarted(p)
  <2> DEFINE left == ctl[p].pending \ {ctl[p].source}
             status == IF left = {} THEN "started" ELSE "waiting"
  <2>1. ctl[p].pc = "spawned" /\ UNCHANGED <<worker, waking, signalled>>
    BY <1>13 DEF SaveStarted, Act
  <2>2. left \in SUBSET Sources /\ status \in AuditStates \ {"none"}
    BY <1>1 DEF HandoffTypeOK
  <2>3. NextTurn(p, left) /\ Note(p, status, ctl[p].source, "started")
    BY <1>13 DEF SaveStarted
  <2> HIDE DEF left, status
  <2>4. CtlTyped /\ ctl'[p].pc \in {"turn", "dead"} /\ \A q \in Plans \ {p} : ctl'[q] = ctl[q]
    BY <1>1, <2>2, <2>3, TurnPasses DEF HandoffTypeOK
  <2>5. Noted(status, "started")
    BY <1>4, <2>2, <2>3
  <2>6. HandoffTypeOK' /\ PlanOnly(p)
    BY <1>1, <1>2, <2>1, <2>4, <2>5 DEF HandoffTypeOK, PlanOnly
  <2>7. Advances(p)
    BY <1>1, <2>1, <2>2, <2>4, <2>5 DEF Advances, HoldsGates, Live
  <2> QED
    BY <2>1, <2>6, <2>7, PlanMoves
<1>14. CASE TimeOut(p)
  BY <1>1, <1>2, <1>14, FailIsSound DEF TimeOut, HandoffTypeOK
<1> QED
  BY <1>5, <1>6, <1>7, <1>8, <1>9, <1>10, <1>11, <1>12, <1>13, <1>14 DEF ControllerStep

-----------------------------------------------------------------------------
(* The programs around the plans.                                          *)

\* Freezing, resuming and alarming a controller leaves it at its place.
LEMMA FrozenIsSound ==
  ASSUME HandoffInv, UNCHANGED <<mode, pool, audit, pause, pauseAudit, signalled>>,
         \/ ctl' = ctl
         \/ \E stopped \in BOOLEAN : SetStopped(stopped)
         \/ ctl' = [ctl EXCEPT !["both"].alarm = TRUE]
  PROVE  HandoffInv'
<1>1. HandoffTypeOK
  BY DEF HandoffInv
<1>2. /\ ctl' \in [Plans -> [pc : ControllerPcs, source : Sources, pending : SUBSET Sources, stopped : BOOLEAN, alarm : BOOLEAN]]
      /\ \A p \in Plans : ctl'[p].pc = ctl[p].pc /\ ctl'[p].source = ctl[p].source
  <2>1. ctl \in [Plans -> [pc : ControllerPcs, source : Sources, pending : SUBSET Sources, stopped : BOOLEAN, alarm : BOOLEAN]]
    BY <1>1 DEF HandoffTypeOK
  <2>2. ASSUME NEW stopped \in BOOLEAN, ctl' = [ctl EXCEPT !["both"].stopped = stopped]
        PROVE  /\ ctl' \in [Plans -> [pc : ControllerPcs, source : Sources, pending : SUBSET Sources, stopped : BOOLEAN, alarm : BOOLEAN]]
               /\ \A p \in Plans : ctl'[p].pc = ctl[p].pc /\ ctl'[p].source = ctl[p].source
    BY <2>1, <2>2
  <2>3. ASSUME ctl' = [ctl EXCEPT !["both"].alarm = TRUE]
        PROVE  /\ ctl' \in [Plans -> [pc : ControllerPcs, source : Sources, pending : SUBSET Sources, stopped : BOOLEAN, alarm : BOOLEAN]]
               /\ \A p \in Plans : ctl'[p].pc = ctl[p].pc /\ ctl'[p].source = ctl[p].source
    BY <2>1, <2>3
  <2> QED
    BY <2>1, <2>2, <2>3 DEF SetStopped
<1>3. HandoffTypeOK'
  BY <1>1, <1>2 DEF HandoffTypeOK, pool
<1>4. \A p \in Plans, s \in Sources : HoldsGates(p, s)' <=> HoldsGates(p, s)
  BY <1>2 DEF HoldsGates
<1>5. FirstPlanIsOver' <=> FirstPlanIsOver
  BY <1>2 DEF FirstPlanIsOver, Live, Plans
<1>6. \A s \in Sources : (WorkerIsSound(s) /\ SignalIsSound(s))'
  BY DEF pool, HandoffInv, WorkerIsSound, SignalIsSound, OldAlive, AtBoundary
<1>7. \A p \in Plans : ControllerIsSound(p)'
  BY <1>2, <1>4 DEF pool, HandoffInv, ControllerIsSound, OldAlive, AtBoundary
<1>8. InTurn'
  BY <1>2, <1>4, <1>5 DEF pool, HandoffInv, InTurn, OldAlive, Plans, Sources
<1> QED
  BY <1>3, <1>6, <1>7, <1>8 DEF HandoffInv

LEMMA FenceIsSound == HandoffInv /\ FenceStep => HandoffInv'
  BY FrozenIsSound DEF FenceStep, bridge, pool

LEMMA WithdrawalIsSound == HandoffInv /\ WithdrawalStep => HandoffInv'
<1> SUFFICES ASSUME HandoffInv, WithdrawalStep PROVE HandoffInv'
  OBVIOUS
<1>1. \/ ctl' = ctl
      \/ \E stopped \in BOOLEAN : SetStopped(stopped)
      \/ ctl' = [ctl EXCEPT !["both"].alarm = TRUE]
  BY DEF WithdrawalStep, BeginWithdrawal, FreezeController, AskWithdrawal, ResumeController, AwaitController, CloseWithdrawal
<1> QED
  BY <1>1, FrozenIsSound DEF WithdrawalStep

\* A pause touches ECMWF's worker only, and not its place.
LEMMA PauseMoves ==
  ASSUME HandoffInv, HandoffTypeOK', UNCHANGED <<mode, file, sealed, curl, ctl, audit>>,
         worker'["gfs"] = worker["gfs"], signalled'["gfs"] = signalled["gfs"],
         worker'["ecmwf"].pc = worker["ecmwf"].pc, worker'["ecmwf"].gen = worker["ecmwf"].gen,
         signalled'["ecmwf"] \subseteq signalled["ecmwf"] \cup {"pause"},
         WorkerIsSound("ecmwf")', SignalIsSound("ecmwf")', InTurn'
  PROVE  HandoffInv'
<1>1. \A s \in Sources : (OldAlive(s)' <=> OldAlive(s)) /\ (AtBoundary(s)' <=> AtBoundary(s))
  BY DEF OldAlive, AtBoundary, Sources
<1>2. WorkerIsSound("gfs")' /\ SignalIsSound("gfs")'
  BY <1>1 DEF HandoffInv, WorkerIsSound, SignalIsSound, Sources
<1>3. ASSUME NEW p \in Plans PROVE ControllerIsSound(p)'
  <2>1. \A s \in Sources : p \in signalled'[s] => p \in signalled[s]
    BY DEF Sources, Plans
  <2>2. ControllerIsSound(p)
    BY DEF HandoffInv
  <2> QED
    BY <1>1, <2>1, <2>2 DEF ControllerIsSound, HoldsGates
<1> QED
  BY <1>2, <1>3 DEF HandoffInv, Sources

LEMMA PauseIsSound == HandoffInv /\ PauseStep => HandoffInv'
<1> SUFFICES ASSUME HandoffInv, PauseStep PROVE HandoffInv'
  OBVIOUS
<1>1. HandoffTypeOK /\ InTurn /\ WorkerIsSound("ecmwf") /\ SignalIsSound("ecmwf")
  BY DEF HandoffInv, Sources
<1>2. UNCHANGED <<mode, file, sealed, marker, curl, ctl, audit>>
  BY DEF PauseStep, plan
<1>3. worker \in [Sources -> [gen : {"old", "new"}, pc : WorkerPcs, stopped : BOOLEAN, term : BOOLEAN]]
  BY <1>1 DEF HandoffTypeOK
<1>4. "ecmwf" \in Sources /\ "gfs" \in Sources /\ "pause" \in Operations
  BY DEF Sources, Operations
<1> DEFINE Held(stopped, term) ==
             /\ worker' \in [Sources -> [gen : {"old", "new"}, pc : WorkerPcs, stopped : BOOLEAN, term : BOOLEAN]]
             /\ worker'["gfs"] = worker["gfs"]
             /\ worker'["ecmwf"].pc = worker["ecmwf"].pc /\ worker'["ecmwf"].gen = worker["ecmwf"].gen
             /\ worker'["ecmwf"].stopped = stopped /\ worker'["ecmwf"].term = term
<1>5. ASSUME NEW v \in BOOLEAN, Set("stopped", v) PROVE Held(v, worker["ecmwf"].term)
  BY <1>3, <1>4, <1>5 DEF Set
<1>6. worker' = worker => Held(worker["ecmwf"].stopped, worker["ecmwf"].term)
  BY <1>3
<1>7. FirstPlanIsOver /\ signalled'["ecmwf"] \subseteq signalled["ecmwf"] \cup {"pause"} => FirstPlanIsOver'
  BY <1>2 DEF FirstPlanIsOver, Live
<1>8. OldAlive("ecmwf")' <=> worker'["ecmwf"].gen = "old" /\ worker'["ecmwf"].pc # "none"
  BY DEF OldAlive
<1>9. AtBoundary("ecmwf") /\ worker'["ecmwf"].pc = worker["ecmwf"].pc => AtBoundary("ecmwf")'
  BY <1>2 DEF AtBoundary
<1>10. \A p \in Plans : HoldsGates(p, "ecmwf")' <=> HoldsGates(p, "ecmwf")
  BY <1>2 DEF HoldsGates
<1> HIDE DEF Held
\* A step that sends no signal: what is left to show is what its place says.
<1>11. ASSUME NEW v \in BOOLEAN, Held(v, worker["ecmwf"].term), signalled' = signalled, waking' \subseteq Sources,
              pause' \in PausePcs \ {"none"}, pauseAudit' \in PauseAudits \ {"none"},
              mode = "modern" /\ FirstPlanIsOver,
              v => /\ OldAlive("ecmwf")
                   /\ \/ pause' \in {"frozen", "looked", "cut", "curlgone", "killed"}
                      \/ pause' = "ended" /\ pauseAudit' = "interrupted",
              pause' \in {"frozen", "looked", "cut", "curlgone"} => OldAlive("ecmwf") /\ v,
              pause' \in {"looked", "cut", "curlgone"} => worker["ecmwf"].pc = "moving",
              pause' \in {"looked", "cut", "curlgone", "ending"} => \A p \in Plans : ~HoldsGates(p, "ecmwf"),
              "pause" \in signalled["ecmwf"] => pause' \notin {"prepared", "frozen", "looked", "cut", "curlgone"}
       PROVE  HandoffInv'
  <2>1. /\ worker' \in [Sources -> [gen : {"old", "new"}, pc : WorkerPcs, stopped : BOOLEAN, term : BOOLEAN]]
        /\ worker'["gfs"] = worker["gfs"]
        /\ worker'["ecmwf"].pc = worker["ecmwf"].pc /\ worker'["ecmwf"].gen = worker["ecmwf"].gen
        /\ worker'["ecmwf"].stopped = v /\ worker'["ecmwf"].term = worker["ecmwf"].term
    BY <1>11 DEF Held
  <2>2. HandoffTypeOK'
    BY <1>1, <1>2, <1>11, <2>1 DEF HandoffTypeOK
  <2>3. OldAlive("ecmwf")' <=> OldAlive("ecmwf")
    BY <2>1 DEF OldAlive
  <2>4. WorkerIsSound("ecmwf")'
    <3>1. worker["ecmwf"].pc = "none" => worker'["ecmwf"] = worker["ecmwf"]
      BY <1>1, <1>3, <1>4, <1>11, <2>1 DEF WorkerIsSound, NoWorker, OldAlive
    <3> QED
      BY <1>1, <1>2, <1>11, <2>1, <3>1 DEF WorkerIsSound, OldAlive
  <2>5. SignalIsSound("ecmwf")'
    BY <1>1, <1>2, <1>9, <1>11, <2>1, <2>3 DEF SignalIsSound, PausePcs
  <2>6. InTurn'
    BY <1>1, <1>2, <1>7, <1>10, <1>11, <2>1, <2>3 DEF InTurn
  <2> QED
    BY <1>2, <1>11, <2>1, <2>2, <2>4, <2>5, <2>6, PauseMoves
<1>12. pause # "none" => mode = "modern" /\ FirstPlanIsOver /\ pauseAudit \in PauseAudits \ {"none"}
  BY <1>1 DEF InTurn, HandoffTypeOK
<1>13. waking \subseteq Sources /\ worker["ecmwf"].stopped \in BOOLEAN
  BY <1>1, <1>3, <1>4 DEF HandoffTypeOK
<1>14. "pause" \in signalled["ecmwf"] => pause \notin {"none", "prepared", "frozen", "looked", "cut", "curlgone"}
  BY <1>1 DEF SignalIsSound
<1>15. pause \in {"none", "prepared", "ending", "gone", "free", "starting", "spawned"} => ~worker["ecmwf"].stopped
  BY <1>1 DEF InTurn
<1> USE DEF PausePcs, PauseAudits
<1>16. CASE BeginPause /\ UNCHANGED <<waking, signalled>>
  <2>1. FirstPlanIsOver
    <3>1. "both" \notin signalled["ecmwf"]
      BY <1>4, <1>16 DEF BeginPause, OnlyGfs, HandoffInv, ControllerIsSound, Plans
    <3> QED
      BY <1>16, <3>1 DEF BeginPause, FirstPlanIsOver
  <2>2. pause = "none"
    BY <1>1, <1>16 DEF BeginPause, InTurn
  <2>3. Held(FALSE, worker["ecmwf"].term)
    BY <1>6, <1>13, <1>15, <1>16, <2>2 DEF BeginPause
  <2> QED
    BY <1>11, <1>13, <1>14, <1>16, <2>1, <2>2, <2>3 DEF BeginPause, PauseGoto
<1>17. CASE FreezeWorker /\ UNCHANGED <<waking, signalled>>
  <2>1. CASE OldAlive("ecmwf") /\ pause' = "frozen" /\ Set("stopped", TRUE) /\ UNCHANGED pauseAudit
    <3>1. Held(TRUE, worker["ecmwf"].term)
      BY <1>5, <2>1
    <3> QED
      BY <1>11, <1>12, <1>13, <1>14, <1>17, <2>1, <3>1 DEF FreezeWorker
  <2>2. CASE PauseGoto("ended", "review") /\ UNCHANGED worker
    <3>1. Held(FALSE, worker["ecmwf"].term)
      BY <1>6, <1>13, <1>15, <1>17, <2>2 DEF FreezeWorker
    <3> QED
      BY <1>11, <1>12, <1>13, <1>17, <2>2, <3>1 DEF FreezeWorker, PauseGoto
  <2> QED
    BY <1>17, <2>1, <2>2 DEF FreezeWorker
<1>18. ASSUME Refuse, pause # "none", UNCHANGED <<waking, signalled>> PROVE HandoffInv'
  <2>1. Held(FALSE, worker["ecmwf"].term)
    BY <1>5, <1>18 DEF Refuse
  <2> QED
    BY <1>11, <1>12, <1>13, <1>18, <2>1 DEF Refuse, PauseGoto
<1>19. ASSUME Abandon, pause # "none", UNCHANGED <<waking, signalled>> PROVE HandoffInv'
  <2>1. Held(worker["ecmwf"].stopped, worker["ecmwf"].term)
    BY <1>6, <1>19 DEF Abandon
  <2>2. worker["ecmwf"].stopped => OldAlive("ecmwf")
    BY <1>1 DEF WorkerIsSound, OldAlive, NoWorker
  <2> QED
    BY <1>11, <1>12, <1>13, <1>19, <2>1, <2>2 DEF Abandon, PauseGoto
<1>20. CASE LookAtTransfer /\ UNCHANGED <<waking, signalled>>
  <2>1. CASE Refuse
    BY <1>18, <1>20, <2>1 DEF LookAtTransfer
  <2>2. CASE ~Refuse
    <3>1. /\ pause = "frozen" /\ pause' = "looked" /\ UNCHANGED <<worker, pauseAudit>>
          /\ StateFree("ecmwf") /\ worker["ecmwf"].pc = "moving"
      BY <1>20, <2>2 DEF LookAtTransfer
    <3>2. OldAlive("ecmwf") /\ worker["ecmwf"].stopped
      BY <1>1, <3>1 DEF InTurn
    <3>3. Held(TRUE, worker["ecmwf"].term)
      BY <1>6, <1>13, <3>1, <3>2
    <3>4. \A p \in Plans : ~HoldsGates(p, "ecmwf")
      BY <3>1 DEF StateFree
    <3> QED
      BY <1>11, <1>12, <1>13, <1>14, <1>20, <3>1, <3>2, <3>3, <3>4
  <2> QED
    BY <2>1, <2>2
<1>21. pause \in {"looked", "cut", "curlgone"} =>
         /\ OldAlive("ecmwf") /\ worker["ecmwf"].stopped /\ worker["ecmwf"].pc = "moving"
         /\ \A p \in Plans : ~HoldsGates(p, "ecmwf")
  BY <1>1 DEF InTurn
<1>22. CASE InterruptCurl /\ UNCHANGED <<waking, signalled>>
  <2>1. CASE Refuse
    BY <1>18, <1>22, <2>1 DEF InterruptCurl
  <2>2. CASE PauseGoto("cut", "interrupt") /\ UNCHANGED worker
    <3>1. Held(TRUE, worker["ecmwf"].term)
      BY <1>6, <1>13, <1>21, <1>22, <2>2 DEF InterruptCurl
    <3> QED
      BY <1>11, <1>12, <1>13, <1>14, <1>21, <1>22, <2>2, <3>1 DEF InterruptCurl, PauseGoto
  <2> QED
    BY <1>22, <2>1, <2>2 DEF InterruptCurl
<1>23. CASE AwaitCurl /\ UNCHANGED <<waking, signalled>>
  <2>1. CASE Abandon
    BY <1>19, <1>23, <2>1 DEF AwaitCurl
  <2>2. CASE PauseGoto("curlgone", "curl_exited") /\ UNCHANGED worker
    <3>1. Held(TRUE, worker["ecmwf"].term)
      BY <1>6, <1>13, <1>21, <1>23, <2>2 DEF AwaitCurl
    <3> QED
      BY <1>11, <1>12, <1>13, <1>14, <1>21, <1>23, <2>2, <3>1 DEF AwaitCurl, PauseGoto
  <2> QED
    BY <1>23, <2>1, <2>2 DEF AwaitCurl
<1>24. CASE EndWorker /\ UNCHANGED waking
  <2>1. /\ pause = "curlgone" /\ pause' = "ending" /\ UNCHANGED pauseAudit /\ OldAlive("ecmwf")
        /\ worker["ecmwf"].pc = "moving" /\ \A p \in Plans : ~HoldsGates(p, "ecmwf")
    BY <1>21, <1>24 DEF EndWorker
  <2>2. signalled["ecmwf"] = {}
    BY <1>1, <1>14, <2>1 DEF SignalIsSound, AtBoundary
  <2>3. Held(FALSE, TRUE)
    <3> DEFINE first == [worker EXCEPT !["ecmwf"].term = TRUE]
    <3>1. /\ first \in [Sources -> [gen : {"old", "new"}, pc : WorkerPcs, stopped : BOOLEAN, term : BOOLEAN]]
          /\ first["ecmwf"].term /\ first["ecmwf"].pc = worker["ecmwf"].pc
          /\ first["ecmwf"].gen = worker["ecmwf"].gen /\ first["gfs"] = worker["gfs"]
      BY <1>3, <1>4
    <3>2. worker' = [first EXCEPT !["ecmwf"].stopped = FALSE]
      BY <1>24, <2>1 DEF EndWorker
    <3> HIDE DEF first
    <3> QED
      BY <1>4, <3>1, <3>2 DEF Held
  <2>4. /\ signalled' \in [Sources -> SUBSET Operations]
        /\ signalled'["ecmwf"] = {"pause"} /\ signalled'["gfs"] = signalled["gfs"]
    BY <1>1, <1>4, <1>24, <2>1, <2>2 DEF EndWorker, HandoffTypeOK
  <2>5. /\ worker' \in [Sources -> [gen : {"old", "new"}, pc : WorkerPcs, stopped : BOOLEAN, term : BOOLEAN]]
        /\ worker'["gfs"] = worker["gfs"]
        /\ worker'["ecmwf"].pc = "moving" /\ worker'["ecmwf"].gen = "old" /\ worker["ecmwf"].gen = "old"
        /\ ~worker'["ecmwf"].stopped /\ worker'["ecmwf"].term
    BY <2>1, <2>3 DEF Held, OldAlive
  <2>6. HandoffTypeOK'
    BY <1>1, <1>2, <1>24, <2>1, <2>4, <2>5 DEF HandoffTypeOK
  <2>7. WorkerIsSound("ecmwf")'
    BY <1>1, <1>2, <2>1, <2>5 DEF WorkerIsSound
  <2>8. SignalIsSound("ecmwf")'
    BY <1>2, <1>12, <2>1, <2>4, <2>5 DEF SignalIsSound
  <2>9. InTurn'
    BY <1>2, <1>7, <1>10, <1>12, <2>1, <2>2, <2>4, <2>5 DEF InTurn
  <2> QED
    BY <1>2, <2>1, <2>2, <2>4, <2>5, <2>6, <2>7, <2>8, <2>9, PauseMoves
<1>25. CASE \/ (AwaitWorker \/ CheckReleased) /\ UNCHANGED <<waking, signalled>>
            \/ Restart /\ UNCHANGED <<worker, signalled>>
  <2>1. CASE Abandon /\ pause # "none" /\ UNCHANGED waking
    BY <1>19, <1>25, <2>1
  <2>2. CASE ~(Abandon /\ pause # "none" /\ UNCHANGED waking)
    <3>1. /\ pause \in {"ending", "gone", "free", "starting", "spawned"}
          /\ pause' \in {"gone", "free", "starting", "spawned", "ended"}
          /\ pauseAudit' \in {pauseAudit, "released", "starting", "started"}
          /\ waking' \subseteq Sources
      <4>1. AwaitWorker /\ ~Abandon => pause = "ending" /\ pause' = "gone" /\ UNCHANGED pauseAudit
        BY DEF AwaitWorker
      <4>2. CheckReleased /\ ~Abandon => pause = "gone" /\ pause' = "free" /\ pauseAudit' = "released"
        BY DEF CheckReleased, PauseGoto
      <4>3. Restart => /\ pause \in {"free", "starting", "spawned"} /\ pause' \in {"starting", "spawned", "ended"}
                       /\ pauseAudit' \in {pauseAudit, "starting", "started"}
                       /\ waking' \subseteq waking \cup {"ecmwf"}
        BY DEF Restart, PauseGoto
      <4>4. AwaitWorker \/ CheckReleased => pause # "none"
        BY DEF AwaitWorker, CheckReleased
      <4> QED
        BY <1>4, <1>13, <1>25, <2>2, <4>1, <4>2, <4>3, <4>4
    <3>2. worker' = worker
      BY <1>25, <2>2 DEF AwaitWorker, CheckReleased
    <3>3. Held(FALSE, worker["ecmwf"].term)
      BY <1>6, <1>13, <1>15, <3>1, <3>2
    <3> QED
      BY <1>11, <1>12, <1>25, <3>1, <3>3
  <2> QED
    BY <2>1, <2>2
<1> QED
  BY <1>16, <1>17, <1>20, <1>22, <1>23, <1>24, <1>25 DEF PauseStep

LEMMA CrashIsSound == HandoffInv /\ Crash => HandoffInv'
<1> SUFFICES ASSUME HandoffInv, Crash PROVE HandoffInv'
  OBVIOUS
<1>1. HandoffTypeOK /\ UNCHANGED <<mode, pool, audit, signalled>>
  BY DEF HandoffInv, Crash
<1>2. ASSUME NEW p \in Plans, Live(p), UNCHANGED <<pause, pauseAudit>>,
             ctl' = [ctl EXCEPT ![p].pc = "dead", ![p].stopped = FALSE, ![p].alarm = FALSE]
      PROVE  HandoffInv'
  <2> DEFINE Typed(c) == c \in [Plans -> [pc : ControllerPcs, source : Sources, pending : SUBSET Sources,
                                          stopped : BOOLEAN, alarm : BOOLEAN]]
             first == [ctl EXCEPT ![p].pc = "dead"]
             second == [first EXCEPT ![p].stopped = FALSE]
  <2>1. Typed(first) /\ first[p].pc = "dead" /\ \A q \in Plans \ {p} : first[q] = ctl[q]
    BY <1>1 DEF HandoffTypeOK, ControllerPcs
  <2>2. ctl' = [second EXCEPT ![p].alarm = FALSE]
    BY <1>2
  <2> HIDE DEF first
  <2>3. Typed(second) /\ second[p].pc = "dead" /\ \A q \in Plans \ {p} : second[q] = ctl[q]
    BY <2>1
  <2> HIDE DEF second
  <2>4. Typed(ctl') /\ ctl'[p].pc = "dead" /\ \A q \in Plans \ {p} : ctl'[q] = ctl[q]
    BY <2>2, <2>3
  <2>5. HandoffTypeOK' /\ PlanOnly(p)
    BY <1>1, <1>2, <2>4 DEF HandoffTypeOK, PlanOnly, pool
  <2>6. Advances(p)
    BY <1>1, <1>2, <2>4 DEF Advances, HoldsGates, Live, HandoffInv, ControllerIsSound
  <2> QED
    BY <1>1, <2>5, <2>6, PlanMoves DEF pool
<1>3. ASSUME PauseLive, pause' = "killed", UNCHANGED <<ctl, pauseAudit>> PROVE HandoffInv'
  <2>1. UNCHANGED <<mode, file, sealed, worker, marker, curl, waking, ctl, audit, signalled, pauseAudit>>
    BY <1>1, <1>3 DEF pool
  <2>2. HandoffTypeOK'
    BY <1>1, <1>3, <2>1 DEF HandoffTypeOK, PausePcs
  <2>3. WorkerIsSound("ecmwf")' /\ SignalIsSound("ecmwf")'
    BY <1>3, <2>1 DEF HandoffInv, WorkerIsSound, SignalIsSound, OldAlive, AtBoundary, Sources
  <2>4. InTurn'
    BY <1>3, <2>1 DEF HandoffInv, InTurn, PauseLive, FirstPlanIsOver, Live
  <2> QED
    BY <1>3, <2>1, <2>2, <2>3, <2>4, PauseMoves
<1>4. CASE UNCHANGED <<ctl, pause, pauseAudit>>
  BY <1>1, <1>4, FrozenIsSound
<1> QED
  BY <1>2, <1>3, <1>4 DEF Crash, bridge

-----------------------------------------------------------------------------
(* Theorems                                                                *)

LEMMA HandoffStep == HandoffInv /\ [Next]_vars => HandoffInv'
<1>1. CASE UNCHANGED vars
  BY <1>1, FrozenIsSound DEF vars, plan, bridge
<1> QED
  BY <1>1, WorkerGoesOn, RequestIsSound, ControllerGoesOn, FenceIsSound, WithdrawalIsSound, PauseIsSound, CrashIsSound
  DEF Next

\* The inductive invariant of the maintenance programs and the workers holds,
\* for either protocol, any number of requests and any number of killed
\* programs.
THEOREM HandoffInvHolds == Spec => []HandoffInv
<1> QED
  BY HandoffStart, HandoffStep, PTL DEF Spec

\* An audit that does not name a provider is proof that the plan did not signal
\* its worker: the entry is saved before SIGTERM (handoff_pool_workers.py), and
\* withdrawals and pauses rest on it.
THEOREM UnactedIsUntouchedHolds == Spec => []UnactedIsUntouched
<1> QED
  BY HandoffInvHolds, UntouchedFollows, PTL

\* A pause, and the legacy plan for ECMWF alone, is the only operation that ever
\* signals ECMWF's worker.
THEOREM ActsAloneHolds == Spec => []ActsAlone
<1> QED
  BY HandoffInvHolds, AloneFollows, PTL

\* A frozen worker is in the hands of a pause, or was left by a killed or an
\* abandoned one; no refusal of pause_pool_worker.py leaves it behind.
THEOREM StoppedIsOwnedHolds == Spec => []StoppedIsOwned
<1> QED
  BY HandoffInvHolds, OwnedFollows, PTL

\* A worker that a plan ends is between files (identity, locks and file boundary
\* of handoff_pool_workers.py), wherever the plan was interrupted.
THEOREM BoundaryOnlyHolds == Spec => BoundaryOnly
<1>1. HandoffInv /\ [Next]_vars =>
        [\A s \in Sources : OldAlive(s) /\ worker[s].term /\ ~OldAlive(s)' /\ "pause" \notin signalled[s] =>
           /\ file[s] # "downloading" /\ ~curl[s]
           /\ worker[s].pc \notin {"probe", "seal"}]_vars
  BY DEF HandoffInv, SignalIsSound, AtBoundary
<1> QED
  BY <1>1, HandoffInvHolds, PTL DEF Spec, BoundaryOnly
=============================================================================
