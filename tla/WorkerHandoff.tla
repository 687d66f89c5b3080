---------------------------- MODULE WorkerHandoff ----------------------------
(***************************************************************************)
(* Maintenance of the forcing pool's workers: a plan of                    *)
(* scripts/handoff_pool_workers.py stops the idle worker of an old release *)
(* and starts one of the new release for each provider; the companion fence *)
(* of that script holds the next transfer back; scripts/pause_pool_worker.py*)
(* withdraws a waiting plan and interrupts the ECMWF transfer itself.      *)
(*                                                                         *)
(* An operator runs them one after another under wrf-maintenance.lock, but *)
(* the program that acts runs on the compute host: it goes on when the local*)
(* one is gone, and may itself be killed.  Each leaves an audit file that  *)
(* later programs read as the proof of what it did.                        *)
(*                                                                         *)
(* Of a worker (forcing_pool_queue.py, modelled in ForcingPool) this module *)
(* keeps what the programs look at: the last missing file of one cycle, the *)
(* manifest, the child process, the locks and the marker.  A worker of the *)
(* plan is `old`; whatever was started later is `new`.                     *)
(***************************************************************************)
EXTENDS Naturals, FiniteSets

CONSTANTS
  Modes,        \* "legacy": one transfer slot for all providers; "modern": one each
  Missing,      \* providers whose cycle lacks a file at first
  MaxRequests,  \* bound on new forecast requests, which trigger a worker
  MaxCrashes    \* bound on operator programs killed or cut off

ASSUME HandoffAssumption ==
  /\ Modes \subseteq {"legacy", "modern"} /\ Missing \subseteq {"gfs", "ecmwf"}
  /\ MaxRequests \in Nat /\ MaxCrashes \in Nat

Sources == {"gfs", "ecmwf"}
Plans == {"both", "ecmwf"}        \* the first plan, and a later one for ECMWF alone
Operations == Plans \cup {"pause"}

VARIABLES
  mode,       \* the slot protocol the plans bind
  file,       \* the cycle's last file: queued, downloading or ready
  sealed,     \* providers whose complete cycle has its manifest
  worker,     \* [gen, pc, stopped, term] of each provider's worker
  marker,     \* .pool-worker.lockdir: none, torn, or the worker it names
  curl,       \* providers with a transfer process, which outlives its parent
  waking,     \* providers with a started worker that has not tried the gate
  ctl,        \* the controllers: [pc, source, pending, stopped, alarm]
  audit,      \* their audit files: [status, entry]
  fence,      \* the companion fence of the first plan
  withdrawal, \* place of the withdrawing program
  receipt,    \* its receipt
  pause,      \* place of the pausing program
  pauseAudit,
  signalled,  \* operations that sent SIGTERM to each provider's old worker
  detached,   \* operations whose local program is gone
  requests, crashes

pool == <<file, sealed, worker, marker, curl, waking, requests>>
plan == <<ctl, audit, fence>>
bridge == <<withdrawal, receipt, pause, pauseAudit>>
vars == <<mode, pool, plan, bridge, signalled, detached, crashes>>

NoWorker == [gen |-> "new", pc |-> "none", stopped |-> FALSE, term |-> FALSE]
OldWorker == [NoWorker EXCEPT !.gen = "old", !.pc = "pick"]

Live(p) == ctl[p].pc \notin {"none", "dead"}
PauseLive == pause \notin {"none", "ended", "killed"}
OldAlive(s) == worker[s].gen = "old" /\ worker[s].pc # "none"
Original(s) == OldAlive(s) /\ marker[s] = "old"
Children(s) == OldAlive(s) /\ (curl[s] \/ worker[s].pc = "probe")

Init ==
  /\ mode \in Modes
  /\ file = [s \in Sources |-> IF s \in Missing THEN "queued" ELSE "ready"]
  /\ sealed = Sources \ Missing
  /\ worker = [s \in Sources |-> OldWorker]
  /\ marker = [s \in Sources |-> "old"]
  /\ curl = [s \in Sources |-> FALSE]
  /\ waking = {}
  /\ ctl = [p \in Plans |-> [pc |-> "none", source |-> "ecmwf", stopped |-> FALSE, alarm |-> FALSE,
                             pending |-> IF p = "both" THEN Sources ELSE {"ecmwf"}]]
  /\ audit = [p \in Plans |-> [status |-> "none", entry |-> [s \in Sources |-> "none"]]]
  /\ fence = "none" /\ withdrawal = "none" /\ receipt = "none"
  /\ pause = "none" /\ pauseAudit = "none"
  /\ signalled = [s \in Sources |-> {}]
  /\ detached = {} /\ requests = 0 /\ crashes = 0

-----------------------------------------------------------------------------
(* Locks.  The transfer slot and the worker gate pass to curl; a controller *)
(* holds the slot, the queue lock and the cycle gates from its look to the *)
(* end of the worker; the fence, and the legacy plan for ECMWF alone, hold *)
(* the one slot.                                                           *)

SameSlot(s, q) == mode = "legacy" \/ s = q
Transferring(s) == worker[s].pc \in {"gated", "moving"}
HoldsGates(p, s) == ctl[p].pc \in {"stop", "termed"} /\ ctl[p].source = s
HoldsSlot(p, s) ==
  IF mode = "modern" THEN ctl[p].source = s /\ ctl[p].pc \in {"check", "look", "stop", "termed"}
  ELSE p = "ecmwf" /\ ctl[p].pc \notin {"none", "fencing", "dead"}

SlotFree(s) ==
  /\ \A q \in Sources : SameSlot(s, q) => ~Transferring(q) /\ ~curl[q]
  /\ \A p \in Plans : ~HoldsSlot(p, s)
  /\ fence # "held" \/ mode = "modern"

StateFree(s) ==
  /\ \A p \in Plans : ~HoldsGates(p, s)
  /\ s # "ecmwf" \/ pause \notin {"looked", "cut", "curlgone", "ending"}

CycleFree(s) == ~Transferring(s) /\ \A p \in Plans : ~HoldsGates(p, s)

-----------------------------------------------------------------------------
(* The workers.                                                            *)

Runs(s, pc) == worker[s].pc = pc /\ ~worker[s].stopped /\ ~worker[s].term
Goto(s, pc) == worker' = [worker EXCEPT ![s].pc = pc]

\* Choices of _pick_next: a file that is due, a publication check, or nothing to do.
Pick(s) ==
  /\ Runs(s, "pick") /\ StateFree(s)
  /\ \/ file[s] = "queued" /\ Goto(s, "picked") /\ UNCHANGED marker
     \/ Goto(s, "probe") /\ UNCHANGED marker
     \/ Goto(s, "leave") /\ marker' = [marker EXCEPT ![s] = "torn"]
  /\ UNCHANGED <<file, sealed, curl, waking>>

ProbeEnds(s) ==
  /\ Runs(s, "probe") /\ StateFree(s) /\ Goto(s, "pick")
  /\ UNCHANGED <<file, sealed, marker, curl, waking>>

\* _download_one: slot, then cycle gate; if one is busy the reason is recorded.
TakeGates(s) ==
  /\ Runs(s, "picked")
  /\ IF SlotFree(s) /\ CycleFree(s) THEN Goto(s, "gated") ELSE StateFree(s) /\ Goto(s, "pick")
  /\ UNCHANGED <<file, sealed, marker, curl, waking>>

StartTransfer(s) ==
  /\ Runs(s, "gated") /\ StateFree(s) /\ Goto(s, "moving")
  /\ file' = [file EXCEPT ![s] = "downloading"]
  /\ curl' = [curl EXCEPT ![s] = TRUE]
  /\ UNCHANGED <<sealed, marker, waking>>

CurlEnds(s) ==
  /\ curl[s] /\ curl' = [curl EXCEPT ![s] = FALSE]
  /\ UNCHANGED <<file, sealed, worker, marker, waking>>

\* The record is written; a complete cycle is then hashed with no gate held.
Settle(s) ==
  /\ Runs(s, "moving") /\ ~curl[s] /\ StateFree(s)
  /\ \/ file' = [file EXCEPT ![s] = "ready"] /\ Goto(s, "seal")
     \/ file' = [file EXCEPT ![s] = "queued"] /\ Goto(s, "pick")
  /\ UNCHANGED <<sealed, marker, curl, waking>>

Seal(s) ==
  /\ Runs(s, "seal") /\ Goto(s, "pick") /\ sealed' = sealed \cup {s}
  /\ UNCHANGED <<file, marker, curl, waking>>

Leave(s) ==
  /\ Runs(s, "leave")
  /\ worker' = [worker EXCEPT ![s] = NoWorker]
  /\ marker' = [marker EXCEPT ![s] = "none"]
  /\ UNCHANGED <<file, sealed, curl, waking>>

\* A killed worker is gone; its marker, its record and its curl stay.
Die(s) ==
  /\ worker[s].term /\ ~worker[s].stopped
  /\ worker' = [worker EXCEPT ![s] = NoWorker]
  /\ UNCHANGED <<file, sealed, marker, curl, waking>>

TryStart(s) ==
  /\ s \in waking /\ waking' = waking \ {s}
  /\ IF worker[s].pc = "none" /\ ~curl[s] /\ marker[s] # "torn"
     THEN Goto(s, "start") /\ marker' = [marker EXCEPT ![s] = "torn"]
     ELSE UNCHANGED <<worker, marker>>
  /\ UNCHANGED <<file, sealed, curl>>

Recover(s) ==
  /\ Runs(s, "start") /\ StateFree(s) /\ Goto(s, "pick")
  /\ marker' = [marker EXCEPT ![s] = "new"]
  /\ file' = [file EXCEPT ![s] = IF @ = "downloading" THEN "queued" ELSE @]
  /\ UNCHANGED <<sealed, curl, waking>>

WorkerStep(s) ==
  /\ \/ Pick(s) \/ ProbeEnds(s) \/ TakeGates(s) \/ StartTransfer(s) \/ CurlEnds(s) \/ Settle(s)
     \/ Seal(s) \/ Leave(s) \/ Die(s) \/ TryStart(s) \/ Recover(s)
  /\ UNCHANGED <<mode, requests, plan, bridge, signalled, detached, crashes>>

\* An ordinary request for another cycle, whose trigger starts a worker.
Request(s) ==
  /\ requests < MaxRequests /\ StateFree(s)
  /\ requests' = requests + 1
  /\ file' = [file EXCEPT ![s] = IF s \in sealed THEN "queued" ELSE @]
  /\ sealed' = sealed \ {s}
  /\ waking' = waking \cup {s}
  /\ UNCHANGED <<mode, worker, marker, curl, plan, bridge, signalled, detached, crashes>>

-----------------------------------------------------------------------------
(* The controllers.                                                        *)

LockFree == /\ \A p \in Plans : Live(p) => p \in detached
            /\ PauseLive => "pause" \in detached

\* The audit names one provider and says that it was exchanged.
OnlyGfs(p) == audit[p].entry["gfs"] = "started" /\ audit[p].entry["ecmwf"] = "none"

\* Mutant of Unacted: any ended plan whose ECMWF worker is still there.
IdentityIsEnough == ~Live("both") /\ Original("ecmwf")

\* verify_unacted_ecmwf: the first plan ran out of time before it touched ECMWF.
Unacted ==
  /\ audit["both"].status = "timeout" /\ OnlyGfs("both") /\ ~Live("both")
  /\ Original("ecmwf") /\ fence = "released"

\* Mutant of Ready: a complete cycle needs no manifest.
ReadyUnsealed(s) ==
  /\ StateFree(s) /\ CycleFree(s)
  /\ file[s] # "downloading" /\ worker[s].pc # "probe"
  /\ ~Children(s)

\* The file boundary: no transfer, probe or manifest under way, and no lock taken.
Ready(s) ==
  /\ StateFree(s) /\ CycleFree(s)
  /\ file[s] # "downloading" /\ worker[s].pc # "probe"
  /\ file[s] = "ready" => s \in sealed
  /\ ~Children(s)

Act(p, pc) == ctl[p].pc = pc /\ ~ctl[p].stopped /\ ~ctl[p].alarm
Step(p, pc) == ctl' = [ctl EXCEPT ![p].pc = pc]
Note(p, status, s, entry) ==
  audit' = [audit EXCEPT ![p].status = status, ![p].entry[s] = entry]

\* The turn passes to the next pending provider, or back to the same one.
NextTurn(p, pending) ==
  LET other == pending \ {ctl[p].source}
  IN ctl' = [ctl EXCEPT ![p].pc = IF pending = {} THEN "dead" ELSE "turn",
                        ![p].pending = pending,
                        ![p].source = IF other = {} THEN @ ELSE CHOOSE s \in other : TRUE]

\* An exception: the locks are let go, the report is saved for review.  The
\* entry in memory may be one save ahead of the file.
Ahead(p) == CASE ctl[p].pc = "look" /\ Ready(ctl[p].source) -> "verified"
              [] ctl[p].pc = "termed" /\ ~OldAlive(ctl[p].source) -> "exited"
              [] ctl[p].pc = "spawned" -> "started"
              [] OTHER -> audit[p].entry[ctl[p].source]
Fail(p, status) ==
  /\ \E entry \in {Ahead(p), audit[p].entry[ctl[p].source]} : Note(p, status, ctl[p].source, entry)
  /\ ctl' = [ctl EXCEPT ![p].pc = "dead", ![p].alarm = FALSE]

Start(p) ==
  /\ ctl[p].pc = "none" /\ audit[p].status = "none" /\ LockFree
  /\ p = "ecmwf" /\ mode = "legacy" => Unacted
  /\ Step(p, IF p = "ecmwf" /\ mode = "legacy" THEN "fencing" ELSE "turn")
  /\ audit' = [audit EXCEPT ![p].status = "waiting"]
  /\ UNCHANGED <<worker, waking, signalled>>

\* The legacy plan for one provider holds the slot of all.
HoldSlot(p) ==
  /\ Act(p, "fencing") /\ SlotFree("ecmwf") /\ Step(p, "turn")
  /\ UNCHANGED <<audit, worker, waking, signalled>>

TakeTurn(p) ==
  /\ Act(p, "turn")
  /\ mode = "modern" => SlotFree(ctl[p].source)
  /\ Step(p, "check")
  /\ UNCHANGED <<audit, worker, waking, signalled>>

\* check_identity and the marker come before the queue lock is tried.
CheckWorker(p) ==
  /\ Act(p, "check")
  /\ IF Original(ctl[p].source) THEN Step(p, "look") /\ UNCHANGED audit ELSE Fail(p, "review")
  /\ UNCHANGED <<worker, waking, signalled>>

\* Mutant of Look: the entry is saved with the exit of the worker only.
SavesLater(p) ==
  /\ Act(p, "look") /\ Ready(ctl[p].source) /\ OldAlive(ctl[p].source) /\ Step(p, "stop")
  /\ UNCHANGED <<audit, worker, waking, signalled>>

\* The intent is saved before the signal.
Look(p) ==
  /\ Act(p, "look")
  /\ LET s == ctl[p].source
     IN CASE ~Ready(s) -> NextTurn(p, ctl[p].pending) /\ UNCHANGED audit
          [] Ready(s) /\ OldAlive(s) -> Step(p, "stop") /\ Note(p, "stopping", s, "verified")
          [] OTHER -> Fail(p, "review")
  /\ UNCHANGED <<worker, waking, signalled>>

SendTerm(p) ==
  /\ Act(p, "stop")
  /\ LET s == ctl[p].source
     IN IF OldAlive(s)
        THEN /\ Step(p, "termed") /\ UNCHANGED audit
             /\ worker' = [worker EXCEPT ![s].term = TRUE]
             /\ signalled' = [signalled EXCEPT ![s] = @ \cup {p}]
        ELSE Fail(p, "review") /\ UNCHANGED <<worker, signalled>>
  /\ UNCHANGED waking

\* The worker is seen to exit, or fifteen seconds pass; it is never killed by force.
AwaitExit(p) ==
  /\ Act(p, "termed")
  /\ IF OldAlive(ctl[p].source) THEN Fail(p, "review")
     ELSE Step(p, "exited") /\ Note(p, "stopping", ctl[p].source, "exited")
  /\ UNCHANGED <<worker, waking, signalled>>

Spawn(p) ==
  /\ Act(p, "exited") /\ Step(p, "spawned")
  /\ waking' = waking \cup {ctl[p].source}
  /\ UNCHANGED <<audit, worker, signalled>>

SaveStarted(p) ==
  /\ Act(p, "spawned")
  /\ LET left == ctl[p].pending \ {ctl[p].source}
     IN /\ NextTurn(p, left)
        /\ Note(p, IF left = {} THEN "started" ELSE "waiting", ctl[p].source, "started")
  /\ UNCHANGED <<worker, waking, signalled>>

\* SIGALRM raises wherever the controller is; the legacy plan for both
\* providers has no timer and looks at its deadline between rounds.
TimeOut(p) ==
  /\ Live(p) /\ ~ctl[p].stopped
  /\ ctl[p].alarm \/ mode = "modern" \/ p = "ecmwf" \/ ctl[p].pc = "turn"
  /\ Fail(p, "timeout")
  /\ UNCHANGED <<worker, waking, signalled>>

ControllerStep(p) ==
  /\ \/ Start(p) \/ HoldSlot(p) \/ TakeTurn(p) \/ CheckWorker(p) \/ Look(p) \/ SendTerm(p)
     \/ AwaitExit(p) \/ Spawn(p) \/ SaveStarted(p) \/ TimeOut(p)
  /\ UNCHANGED <<mode, file, sealed, marker, curl, requests, fence, bridge, detached, crashes>>

\* fence_existing_handoff: it waits for the slot, holds it, and lets it go
\* when the plan has ended or its own time is up.
FenceStep ==
  /\ mode = "legacy"
  /\ \/ /\ fence = "none" /\ Live("both") /\ audit["both"].status \in {"waiting", "stopping"}
        /\ fence' = "waiting"
     \/ fence = "waiting" /\ SlotFree("gfs") /\ fence' = "held"
     \/ fence = "held" /\ audit["both"].status = "started" /\ fence' = "handed"
     \/ fence \in {"waiting", "held"} /\ fence' = "released"
  /\ UNCHANGED <<mode, pool, ctl, audit, bridge, signalled, detached, crashes>>

-----------------------------------------------------------------------------
(* Withdrawing a waiting plan: its own timeout handler is made to run.     *)

SetStopped(stopped) == ctl' = [ctl EXCEPT !["both"].stopped = stopped]

BeginWithdrawal ==
  /\ mode = "modern" /\ receipt = "none" /\ OnlyGfs("both")
  /\ receipt' = "checking"
  /\ withdrawal' = CASE audit["both"].status = "waiting" /\ Live("both") -> "bound"
                     [] audit["both"].status \in {"timeout", "review"} /\ ~Live("both") -> "final"
                     [] OTHER -> "ended"
  /\ UNCHANGED ctl

FreezeController ==
  /\ withdrawal = "bound"
  /\ IF Live("both") THEN SetStopped(TRUE) /\ withdrawal' = "frozen"
     ELSE withdrawal' = "ended" /\ UNCHANGED ctl
  /\ UNCHANGED receipt

\* The audit is read again while its writer stands still.
AskWithdrawal ==
  /\ withdrawal = "frozen"
  /\ IF audit["both"].status = "waiting" /\ OnlyGfs("both") /\ Live("both")
     THEN /\ ctl' = [ctl EXCEPT !["both"].alarm = TRUE]
          /\ receipt' = "requested" /\ withdrawal' = "asked"
     ELSE SetStopped(FALSE) /\ withdrawal' = "ended" /\ UNCHANGED receipt

ResumeController ==
  /\ withdrawal = "asked" /\ SetStopped(FALSE) /\ withdrawal' = "awaiting"
  /\ UNCHANGED receipt

AwaitController ==
  /\ withdrawal = "awaiting"
  /\ withdrawal' = IF Live("both") THEN "ended" ELSE "final"
  /\ UNCHANGED <<ctl, receipt>>

CloseWithdrawal ==
  /\ withdrawal = "final" /\ withdrawal' = "ended"
  /\ receipt' = IF audit["both"].status = "timeout" /\ OnlyGfs("both") THEN "resolved" ELSE receipt
  /\ UNCHANGED ctl

WithdrawalStep ==
  /\ \/ BeginWithdrawal \/ FreezeController \/ AskWithdrawal
     \/ ResumeController \/ AwaitController \/ CloseWithdrawal
  /\ UNCHANGED <<mode, pool, audit, fence, pause, pauseAudit, signalled, detached, crashes>>

-----------------------------------------------------------------------------
(* Pausing the ECMWF transfer in the middle of its file.                   *)

Set(f, v) == worker' = [worker EXCEPT !["ecmwf"][f] = v]
PauseGoto(pc, status) == pause' = pc /\ pauseAudit' = status

\* Mutant of Refuse: the report is saved and the worker stays as it is.
RefusesOnly == PauseGoto("ended", "review") /\ UNCHANGED worker

\* Before the interruption the worker is resumed untouched; after it the
\* worker stays as it is, with its gates.
Refuse == PauseGoto("ended", "review") /\ Set("stopped", FALSE)
Abandon == PauseGoto("ended", "interrupted") /\ UNCHANGED worker

BeginPause ==
  /\ mode = "modern" /\ pauseAudit = "none" /\ LockFree
  /\ receipt = "resolved" /\ audit["both"].status = "timeout" /\ OnlyGfs("both") /\ ~Live("both")
  /\ Original("ecmwf")
  /\ PauseGoto("prepared", "prepared") /\ UNCHANGED worker

FreezeWorker ==
  /\ pause = "prepared"
  /\ IF OldAlive("ecmwf") THEN pause' = "frozen" /\ Set("stopped", TRUE) /\ UNCHANGED pauseAudit
     ELSE PauseGoto("ended", "review") /\ UNCHANGED worker

\* One file is downloading, its curl is the only child and has the gates, and
\* the worker was not frozen inside a section of the queue lock.
LookAtTransfer ==
  /\ pause = "frozen"
  /\ IF /\ Original("ecmwf") /\ StateFree("ecmwf") /\ file["ecmwf"] = "downloading"
        /\ curl["ecmwf"] /\ worker["ecmwf"].pc = "moving"
     THEN pause' = "looked" /\ UNCHANGED <<worker, pauseAudit>>
     ELSE Refuse

\* SIGTERM to curl alone, after the intent is saved.
InterruptCurl ==
  /\ pause = "looked"
  /\ \/ PauseGoto("cut", "interrupt") /\ UNCHANGED worker
     \/ Refuse

AwaitCurl ==
  /\ pause = "cut"
  /\ IF curl["ecmwf"] THEN Abandon ELSE PauseGoto("curlgone", "curl_exited") /\ UNCHANGED worker

EndWorker ==
  /\ pause = "curlgone" /\ pause' = "ending"
  /\ worker' = IF OldAlive("ecmwf")
               THEN [worker EXCEPT !["ecmwf"].term = TRUE, !["ecmwf"].stopped = FALSE] ELSE worker
  /\ signalled' = [signalled EXCEPT !["ecmwf"] = IF OldAlive("ecmwf") THEN @ \cup {"pause"} ELSE @]
  /\ UNCHANGED pauseAudit

AwaitWorker ==
  /\ pause = "ending"
  /\ IF OldAlive("ecmwf") THEN Abandon ELSE pause' = "gone" /\ UNCHANGED <<worker, pauseAudit>>

\* All inherited gates are free and nobody touched the queue since.
CheckReleased ==
  /\ pause = "gone"
  /\ IF /\ worker["ecmwf"].pc = "none" /\ ~curl["ecmwf"] /\ SlotFree("ecmwf") /\ CycleFree("ecmwf")
        /\ file["ecmwf"] = "downloading"
     THEN PauseGoto("free", "released") /\ UNCHANGED worker
     ELSE Abandon

Restart ==
  \/ pause = "free" /\ PauseGoto("starting", "starting") /\ UNCHANGED waking
  \/ pause = "starting" /\ pause' = "spawned" /\ waking' = waking \cup {"ecmwf"} /\ UNCHANGED pauseAudit
  \/ pause = "spawned" /\ PauseGoto("ended", "started") /\ UNCHANGED waking

PauseStep ==
  /\ \/ /\ BeginPause \/ FreezeWorker \/ LookAtTransfer \/ InterruptCurl
           \/ AwaitCurl \/ AwaitWorker \/ CheckReleased
        /\ UNCHANGED <<waking, signalled>>
     \/ EndWorker /\ UNCHANGED waking
     \/ Restart /\ UNCHANGED <<worker, signalled>>
  /\ UNCHANGED <<mode, file, sealed, marker, curl, requests, plan, withdrawal, receipt, detached, crashes>>

-----------------------------------------------------------------------------
(* An operator's program is killed, or goes on without its local half.     *)

Crash ==
  /\ crashes < MaxCrashes /\ crashes' = crashes + 1
  /\ \/ \E p \in Plans : /\ Live(p)
                         /\ ctl' = [ctl EXCEPT ![p].pc = "dead", ![p].stopped = FALSE, ![p].alarm = FALSE]
                         /\ UNCHANGED <<fence, bridge, detached>>
     \/ /\ fence \in {"waiting", "held"} /\ fence' = "lost"
        /\ UNCHANGED <<ctl, bridge, detached>>
     \/ /\ withdrawal \notin {"none", "ended"} /\ withdrawal' = "ended"
        /\ UNCHANGED <<ctl, fence, receipt, pause, pauseAudit, detached>>
     \/ /\ PauseLive /\ pause' = "killed"
        /\ UNCHANGED <<ctl, fence, withdrawal, receipt, pauseAudit, detached>>
     \/ /\ \E o \in Operations \ detached :
             /\ IF o = "pause" THEN PauseLive ELSE Live(o)
             /\ detached' = detached \cup {o}
        /\ UNCHANGED <<ctl, fence, bridge>>
  /\ UNCHANGED <<mode, pool, audit, signalled>>

Next ==
  \/ \E s \in Sources : WorkerStep(s) \/ Request(s)
  \/ \E p \in Plans : ControllerStep(p)
  \/ FenceStep \/ WithdrawalStep \/ PauseStep \/ Crash

Spec == Init /\ [][Next]_vars

-----------------------------------------------------------------------------
(* Properties                                                              *)

\* A worker that a plan ends is between files: it writes no record, runs no
\* transfer or probe and is not hashing its complete cycle.
BoundaryOnly ==
  [][\A s \in Sources : OldAlive(s) /\ worker[s].term /\ ~OldAlive(s)' /\ "pause" \notin signalled[s] =>
       /\ file[s] # "downloading" /\ ~curl[s]
       /\ worker[s].pc \notin {"probe", "seal"}]_vars

\* A provider that the audit on disk does not name was not signalled by its
\* plan, whatever killed the controller: later operations rest on this.
UnactedIsUntouched ==
  \A p \in Plans, s \in Sources : p \in signalled[s] => audit[p].entry[s] # "none"

\* An operation that starts from the proof that ECMWF was untouched is the
\* only one that ever signals its worker.
ActsAlone ==
  \A o \in signalled["ecmwf"] :
    o = "pause" \/ (o = "ecmwf" /\ mode = "legacy") => signalled["ecmwf"] = {o}

\* A worker stands still only in the hands of a pause, after a pause was
\* killed, or where an interrupted transfer left it for review.
StoppedIsOwned ==
  worker["ecmwf"].stopped =>
    \/ pause \in {"frozen", "looked", "cut", "curlgone", "killed"}
    \/ pause = "ended" /\ pauseAudit = "interrupted"
=============================================================================
