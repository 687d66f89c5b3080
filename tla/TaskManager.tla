----------------------------- MODULE TaskManager -----------------------------
(***************************************************************************)
(* The task manager of the API process, task_manager.py, over its SQLite   *)
(* rows (database.py) and the remote host (hpc_transport.py).              *)
(*                                                                         *)
(* A task is driven by at most one worker thread (_run_task), which talks  *)
(* to the host by synchronous SSH calls and writes the row without a lock  *)
(* between them.  User operations, a cancel thread, a cancel observer and  *)
(* retry timers touch the same row.  Rows survive a restart of the API,    *)
(* everything in memory does not.  An SSH call may fail, and a launch      *)
(* command may take effect after the caller gave up on it.                 *)
(*                                                                         *)
(* A worker step is what the thread does from one SSH call (or lock) to    *)
(* the next.  The supervisor on the host (module ManagedProcess) is        *)
(* reduced to what its clients see; that it runs one attempt per control   *)
(* root is NOT assumed, so what is checked is the manager's own care.  CPU *)
(* and memory budgets of _dispatch are left open: a dispatch the model     *)
(* does not take is one they refused.                                      *)
(***************************************************************************)
EXTENDS Naturals, FiniteSets

CONSTANTS Tasks,
          Confirm,        \* tasks whose recovery_policy is "confirm"
          MaxConcurrent,  \* ordinary_max_concurrent
          Faulty,         \* do data, configuration and model errors happen?
          SlowStart,      \* may a child register after the launch has replied?
          MaxAttempts,    \* bound on attempts of a task
          MaxTokens,      \* bound on launch tokens drawn for a task
          MaxReboots,     \* bound on restarts of the API
          MaxGlitches     \* bound on failed SSH calls and lost processes

ASSUME BoundAssumption ==
    /\ Confirm \subseteq Tasks /\ IsFiniteSet(Tasks)
    /\ Faulty \in BOOLEAN /\ SlowStart \in BOOLEAN
    /\ {MaxConcurrent, MaxAttempts, MaxTokens} \subseteq Nat \ {0}
    /\ {MaxReboots, MaxGlitches} \subseteq Nat

VARIABLES
    row,          \* wrf_tasks
    cancelled,    \* _cancelled
    thread,       \* _task_threads: where the worker is, and what it has seen
    canceller,    \* _cancel_threads
    observer,     \* _cancel_observers
    cancelTimer,  \* _cancel_timers
    retryTimer,   \* _reconcile_timers
    stopping,     \* _stop
    remote,       \* what became of each launch token on the host
    asked,        \* launches with a pending cancellation request on the host
    inflight,     \* launch commands still on their way to the host
    control,      \* service.pid and exit.code of the task's control root
    drawn,        \* history: launch tokens drawn for the task
    reboots, glitches

memory == <<cancelled, canceller, observer, cancelTimer, retryTimer>>
host == <<remote, asked, inflight, control>>
vars == <<row, thread, memory, host, drawn, stopping, reboots, glitches>>

Final == {"succeeded", "failed", "cancelled", "waiting_restart"}
Statuses == Final \cup {"none", "queued", "prefetching", "uploading", "running", "rendering",
                        "reconciling", "cancel_pending", "paused_external"}
Terminal == {"succeeded", "failed", "cancelled"}
Tokens == 1..MaxTokens

\* token 0: no launch_attempt.  process: what the launch reply said of it.
Row == [status : Statuses, attempt : 0..MaxAttempts, token : {0} \cup Tokens,
        release : BOOLEAN, launched : BOOLEAN, denied : BOOLEAN,
        process : {"none", "empty", "named"}, wrf : BOOLEAN, retry : BOOLEAN, terminal : {"none"} \cup Terminal,
        failure : {"none", "forcing", "data", "other"}]

\* A row as created (with the release of the day) or begun again (without one).
Unstarted(n, release) ==
    [status |-> "queued", attempt |-> n, token |-> 0, release |-> release, launched |-> FALSE,
     denied |-> FALSE, process |-> "none", wrf |-> FALSE, retry |-> FALSE, terminal |-> "none",
     failure |-> "none"]

Pcs == {"none", "begin", "retry", "reconcile", "reconciled", "pin", "prefetch", "bundle", "upload",
        "launch", "launching", "launched", "monitor", "monitored", "finalize", "validated",
        "download", "publish", "failing", "settling"}
Errors == {"cancel", "external", "output", "forcing", "data", "model"}
Replies == Terminal \cup {"running", "cancel_pending", "unknown", "lost", "missing"}
Binding == (0..MaxAttempts) \X ({0} \cup Tokens)
Idle == [pc |-> "none", seen |-> "none"]
NoCall == [pc |-> "none", seen |-> "none", bind |-> <<0, 0>>]

\* Every variable has its type (rows, threads, timers and what the host keeps).
TypeOK ==
    /\ row \in [Tasks -> Row]
    /\ cancelled \subseteq Tasks
    /\ thread \in [Tasks -> [pc : Pcs, seen : {"none", "started", "denied", "refused"}
                                               \cup Errors \cup Replies]]
    /\ canceller \in [Tasks -> [pc : {"none", "ask", "poll"}, seen : {"none"} \cup Replies, bind : Binding]]
    /\ observer \in [Tasks -> [pc : {"none", "tell"}, seen : {"none"} \cup Replies, bind : Binding]]
    /\ cancelTimer \subseteq Tasks /\ retryTimer \subseteq Tasks /\ stopping \in BOOLEAN
    /\ remote \in [Tasks -> [Tokens -> {"absent", "claimed", "running", "lost", "stopped", "revoked"}
                                       \cup Terminal]]
    /\ asked \subseteq Tasks \X Tokens
    /\ inflight \subseteq Tasks \X Tokens
    /\ control \in [Tasks -> {"absent", "missing", "lost", "succeeded", "failed"}]
    /\ drawn \in [Tasks -> 0..MaxTokens]
    /\ reboots \in 0..MaxReboots /\ glitches \in 0..MaxGlitches

Init ==
    /\ row = [t \in Tasks |-> [Unstarted(0, FALSE) EXCEPT !.status = "none"]]
    /\ cancelled = {}
    /\ thread = [t \in Tasks |-> Idle]
    /\ canceller = [t \in Tasks |-> NoCall]
    /\ observer = [t \in Tasks |-> NoCall]
    /\ cancelTimer = {} /\ retryTimer = {} /\ stopping = FALSE
    /\ remote = [t \in Tasks |-> [k \in Tokens |-> "absent"]]
    /\ asked = {} /\ inflight = {}
    /\ control = [t \in Tasks |-> "absent"]
    /\ drawn = [t \in Tasks |-> 0]
    /\ reboots = 0 /\ glitches = 0

-----------------------------------------------------------------------------
(* The host as seen over SSH.  A launch is "claimed" until its child has   *)
(* registered, "revoked" when it was cancelled before that, "cancelled"    *)
(* when its session was killed and "stopped" when the wrapper still managed *)
(* to save an exit code; "lost" when its processes vanished unrecorded.    *)

\* inspect: a pending request shows as such while its worker lives.
TokenReplies(t, k) ==
    CASE remote[t][k] \in {"absent", "claimed", "lost"} -> {"unknown"}
      [] remote[t][k] \in {"revoked", "stopped"} -> {"cancelled"}
      [] remote[t][k] = "running" /\ <<t, k>> \in asked -> {"cancel_pending", "unknown"}
      [] OTHER -> {remote[t][k]}

\* hpc.status: by token when the row has one, else by the files of the control
\* root, whose path depends on the release.
RemoteReplies(t) ==
    IF row[t].token # 0 THEN TokenReplies(t, row[t].token)
    ELSE IF row[t].release /\ control[t] # "absent" THEN {control[t]} ELSE {"missing"}

\* launch and launch_claim: a token with a directory is only inspected; the
\* lease or an unsettled launch refuses, the pool may deny.
RemoteHandlesLaunch(t, k) ==
    /\ <<t, k>> \in inflight
    /\ inflight' = inflight \ {<<t, k>>}
    /\ \E reply \in {"started", "denied", "refused"} :
        /\ reply # "started" => remote[t][k] = "absent"
        /\ IF reply = "started" /\ remote[t][k] = "absent"
           THEN /\ \E begun \in IF SlowStart THEN {"claimed", "running"} ELSE {"running"} :
                     remote' = [remote EXCEPT ![t][k] = begun]
                /\ control' = [control EXCEPT ![t] = IF @ \in Terminal THEN @ ELSE "lost"]
           ELSE UNCHANGED <<remote, control>>
        /\ thread' = IF thread[t].pc = "launching" /\ row[t].token = k
                     THEN [thread EXCEPT ![t] = [pc |-> "launched", seen |-> reply]] ELSE thread
    /\ UNCHANGED <<row, memory, asked, drawn, stopping, reboots, glitches>>

\* execute: the child registers, unless a cancellation is waiting for it.
RemoteRegisters(t, k) ==
    /\ remote[t][k] = "claimed"
    /\ remote' = [remote EXCEPT ![t][k] = IF <<t, k>> \in asked THEN "revoked" ELSE "running"]
    /\ asked' = asked \ {<<t, k>>}
    /\ UNCHANGED <<row, thread, memory, inflight, control, drawn, stopping, reboots, glitches>>

\* The processes of a launch are gone.  Only a wrapper that saw the command
\* end writes exit.code; a killed session leaves it as it was.
RemoteEnds(t, k) ==
    /\ remote[t][k] = "running"
    /\ \E outcome \in {"succeeded", "failed", "cancelled", "stopped", "lost"} :
        /\ outcome \in {"cancelled", "stopped"} => <<t, k>> \in asked
        /\ outcome \in {"succeeded", "failed"} => <<t, k>> \notin asked
        /\ outcome = "failed" => Faulty
        /\ outcome = "lost" => glitches < MaxGlitches
        /\ glitches' = IF outcome = "lost" THEN glitches + 1 ELSE glitches
        /\ remote' = [remote EXCEPT ![t][k] = outcome]
        /\ control' = [control EXCEPT ![t] = CASE outcome = "stopped" -> "failed"
                                               [] outcome \in {"succeeded", "failed"} -> outcome
                                               [] OTHER -> @]
    /\ asked' = asked \ {<<t, k>>}
    /\ UNCHANGED <<row, thread, memory, inflight, drawn, stopping, reboots>>

\* Is anything of this launch alive, or about to be?
Alive(t, k) ==
    \/ remote[t][k] \in {"claimed", "running"}
    \/ remote[t][k] = "absent" /\ <<t, k>> \in inflight

-----------------------------------------------------------------------------
(* Steps common to the threads.                                            *)

Become(t, r) == row' = [row EXCEPT ![t] = r]
Show(t, status) == Become(t, [row[t] EXCEPT !.status = status])

Goto(t, pc) == thread' = [thread EXCEPT ![t] = [pc |-> pc, seen |-> "none"]]
Saw(t, pc, seen) == thread' = [thread EXCEPT ![t] = [pc |-> pc, seen |-> seen]]
Fail(t, error) == Saw(t, "failing", error)
Exit(t) == thread' = [thread EXCEPT ![t] = Idle]

\* An SSH call that fails on the way: an external error for the worker.
Glitch == glitches < MaxGlitches /\ glitches' = glitches + 1
External(t) == Glitch /\ Fail(t, "external") /\ UNCHANGED row

\* Any other exception, and _raise_if_cancelled.
Error(t, kind) == Faulty /\ Fail(t, kind) /\ UNCHANGED <<row, glitches>>
CancelSeen(t) == t \in cancelled /\ Fail(t, "cancel") /\ UNCHANGED <<row, glitches>>

At(t, pc) == thread[t].pc = pc
WorkerOnly == UNCHANGED <<memory, host, drawn, stopping, reboots>>

\* _start_remote_cancel: one cancel thread per task; its timer is dropped.
StartRemoteCancel(t) ==
    IF canceller[t].pc # "none" THEN UNCHANGED <<canceller, cancelTimer>>
    ELSE /\ canceller' = [canceller EXCEPT ![t] = [pc |-> "ask", seen |-> "none",
                                                   bind |-> <<row[t].attempt, row[t].token>>]]
         /\ cancelTimer' = cancelTimer \ {t}

\* A launch whose end has not been recorded.
Unresolved(t) == row[t].launched /\ ~row[t].wrf /\ row[t].terminal = "none"

\* No worker and no cancel thread: _require_recovery_idle.
Quiet(t) == At(t, "none") /\ canceller[t].pc = "none"

-----------------------------------------------------------------------------
(* submit, _dispatch and the reconcile timer.                              *)

Submit(t) ==
    /\ row[t].status = "none"
    /\ ~stopping
    /\ Become(t, Unstarted(1, TRUE))
    /\ UNCHANGED <<thread, memory, host, drawn, stopping, reboots, glitches>>

Reserving == {"running", "rendering", "reconciling", "cancel_pending", "paused_external", "waiting_restart"}

Occupied(t) ==
    {u \in Tasks \ {t} : thread[u].pc # "none" \/ (row[u].status \in Reserving /\ Unresolved(u))}

\* Queued tasks wait for a place, reconciling ones do not.
Dispatch(t) ==
    /\ ~stopping
    /\ At(t, "none")
    /\ \/ row[t].status = "queued" /\ Cardinality(Occupied(t)) < MaxConcurrent
       \/ row[t].status = "reconciling" /\ t \notin retryTimer
    /\ Goto(t, "begin")
    /\ UNCHANGED <<row, glitches>> /\ WorkerOnly

RetryTimerFires(t) ==
    /\ t \in retryTimer
    /\ retryTimer' = retryTimer \ {t}
    /\ UNCHANGED <<row, thread, cancelled, canceller, observer, cancelTimer, host, drawn, stopping,
                   reboots, glitches>>

-----------------------------------------------------------------------------
(* _run_task and _execute up to the launch.                                *)

Begin(t) ==
    /\ At(t, "begin")
    /\ IF row[t].status \in Final \/ t \in cancelled THEN Exit(t)
       ELSE Goto(t, IF row[t].retry THEN "retry"
                    ELSE IF row[t].status = "reconciling" THEN "reconcile" ELSE "pin")
    /\ UNCHANGED <<row, glitches>> /\ WorkerOnly

\* retry_outputs_only: the computation is confirmed, then results are fetched.
RetryOutputsOnly(t) ==
    /\ At(t, "retry")
    /\ \/ /\ RemoteReplies(t) = {"succeeded"}
          /\ Become(t, [row[t] EXCEPT !.status = "rendering", !.retry = FALSE, !.wrf = TRUE])
          /\ Goto(t, "finalize") /\ UNCHANGED glitches
       \/ RemoteReplies(t) # {"succeeded"} /\ Show(t, "rendering") /\ Fail(t, "output") /\ UNCHANGED glitches
       \/ Show(t, "rendering") /\ Fail(t, "external") /\ Glitch
    /\ WorkerOnly

\* _reconcile, up to the answer of the host.
Reconcile(t) ==
    /\ At(t, "reconcile")
    /\ \/ CancelSeen(t)
       \/ External(t)
       \/ /\ t \notin cancelled
          /\ \E seen \in RemoteReplies(t) : Saw(t, "reconciled", seen)
          /\ UNCHANGED <<row, glitches>>
    /\ WorkerOnly

\* _merge_remote_profile
Observed(t, seen) == [row[t] EXCEPT !.terminal = IF seen \in Terminal THEN seen ELSE @]

\* Mutant of Completed: any recorded end counts as a computation.
AnyEndCompletes(seen) == seen \in Terminal

Completed(seen) == seen = "succeeded"

\* The rest of _reconcile, from the answer.
Reconciled(t) ==
    LET seen == thread[t].seen IN
    /\ At(t, "reconciled")
    /\ CASE seen = "running" ->
              Become(t, [row[t] EXCEPT !.status = "running", !.failure = "none"]) /\ Goto(t, "monitor")
         [] Completed(seen) ->
              Become(t, [Observed(t, seen) EXCEPT !.wrf = TRUE]) /\ Goto(t, "finalize")
         [] seen = "failed" /\ ~Completed(seen) ->
              Become(t, Observed(t, seen)) /\ Fail(t, "model")
         [] seen = "missing" /\ ~row[t].launched ->
              UNCHANGED row /\ Goto(t, "pin")
         [] OTHER ->
              /\ Become(t, [Observed(t, seen) EXCEPT !.status = "waiting_restart", !.failure = "other"])
              /\ Exit(t)
    /\ UNCHANGED glitches /\ WorkerOnly

\* _pin_runtime_release asks the host; then the row is rewritten whatever it is.
PinRelease(t) ==
    /\ At(t, "pin")
    /\ \/ /\ Become(t, [row[t] EXCEPT !.status = "prefetching", !.release = TRUE, !.failure = "none"])
          /\ Goto(t, "prefetch") /\ UNCHANGED glitches
       \/ External(t)
       \/ Error(t, "model")
    /\ WorkerOnly

\* Cycle selection and the wait for forcing data, which a stop cuts short.
Prefetch(t) ==
    /\ At(t, "prefetch")
    /\ \/ t \notin cancelled /\ Goto(t, "bundle") /\ UNCHANGED <<row, glitches>>
       \/ CancelSeen(t)
       \/ External(t)
       \/ Error(t, "data")
       \/ Error(t, "forcing")
       \/ stopping /\ Fail(t, "data") /\ UNCHANGED <<row, glitches>>
    /\ WorkerOnly

\* write_task_bundle and validate_forcing_semantics; again an unconditional write.
Bundle(t) ==
    /\ At(t, "bundle")
    /\ \/ Show(t, "uploading") /\ Goto(t, "upload") /\ UNCHANGED glitches
       \/ External(t)
       \/ Error(t, "model")
    /\ WorkerOnly

\* Mutant of LaunchToken: a denied launch does not keep its token.
AlwaysFreshToken(t) == drawn[t] + 1

\* A denied launch is repeated under its token, any other draws a fresh one.
LaunchToken(t) == IF row[t].denied THEN row[t].token ELSE drawn[t] + 1

\* prepare_runtime; then, under the state lock, the launch intent is durable.
Upload(t) ==
    /\ At(t, "upload")
    /\ LaunchToken(t) <= MaxTokens
    /\ control' = [control EXCEPT ![t] = IF @ = "absent" THEN "missing" ELSE @]
    /\ \/ /\ t \notin cancelled
          /\ Become(t, [row[t] EXCEPT !.status = "running", !.launched = TRUE, !.token = LaunchToken(t)])
          /\ drawn' = [drawn EXCEPT ![t] = IF LaunchToken(t) > @ THEN LaunchToken(t) ELSE @]
          /\ Goto(t, "launch") /\ UNCHANGED glitches
       \/ CancelSeen(t) /\ UNCHANGED drawn
       \/ External(t) /\ UNCHANGED drawn
       \/ Error(t, "model") /\ UNCHANGED drawn
    /\ UNCHANGED <<memory, remote, asked, inflight, stopping, reboots>>

-----------------------------------------------------------------------------
(* The launch, the monitor and the results.                                *)

\* hpc.launch: release check and preflight, then the command is sent.
SendLaunch(t) ==
    /\ At(t, "launch")
    /\ \/ /\ inflight' = inflight \cup {<<t, row[t].token>>}
          /\ Goto(t, "launching") /\ UNCHANGED <<row, glitches>>
       \/ External(t) /\ UNCHANGED inflight
       \/ Error(t, "model") /\ UNCHANGED inflight
    /\ UNCHANGED <<memory, remote, asked, control, drawn, stopping, reboots>>

\* The caller gives up on a command that may still arrive.
ReplyLost(t) ==
    /\ At(t, "launching")
    /\ External(t)
    /\ WorkerOnly

\* The reply of the launch.
Launched(t) ==
    LET hasProcess == remote[t][row[t].token] \notin {"absent", "claimed", "revoked"}
        accepted == [row[t] EXCEPT !.denied = FALSE, !.process = IF hasProcess THEN "named" ELSE "empty"] IN
    /\ At(t, "launched")
    /\ CASE thread[t].seen = "denied" ->
              /\ Become(t, [row[t] EXCEPT !.launched = FALSE, !.denied = TRUE,
                                !.status = IF t \in cancelled THEN "cancelled" ELSE "queued"])
              /\ Exit(t) /\ UNCHANGED <<canceller, cancelTimer>>
         [] thread[t].seen = "refused" ->
              UNCHANGED <<row, canceller, cancelTimer>> /\ Fail(t, "model")
         [] thread[t].seen = "started" /\ t \in cancelled ->
              /\ Become(t, [accepted EXCEPT !.status = "cancel_pending"])
              /\ StartRemoteCancel(t) /\ Fail(t, "cancel")
         [] OTHER ->
              Become(t, accepted) /\ Goto(t, "monitor") /\ UNCHANGED <<canceller, cancelTimer>>
    /\ UNCHANGED <<cancelled, observer, retryTimer, host, drawn, stopping, reboots, glitches>>

Monitor(t) ==
    /\ At(t, "monitor")
    /\ \/ stopping /\ Exit(t) /\ UNCHANGED <<row, glitches>>
       \/ CancelSeen(t)
       \/ External(t)
       \/ /\ t \notin cancelled
          /\ \E seen \in RemoteReplies(t) : Saw(t, "monitored", seen)
          /\ UNCHANGED <<row, glitches>>
    /\ WorkerOnly

\* _persist_observed_progress gives up on a settled row.
Monitored(t) ==
    LET seen == thread[t].seen IN
    /\ At(t, "monitored")
    /\ CASE row[t].status \in Final -> UNCHANGED row /\ Exit(t)
         [] row[t].status \notin Final /\ Completed(seen) ->
              Become(t, [Observed(t, seen) EXCEPT !.wrf = TRUE]) /\ Goto(t, "finalize")
         [] row[t].status \notin Final /\ seen = "running" -> UNCHANGED row /\ Goto(t, "monitor")
         [] OTHER -> Become(t, Observed(t, seen)) /\ Fail(t, "model")
    /\ UNCHANGED glitches /\ WorkerOnly

Finalize(t) ==
    /\ At(t, "finalize")
    /\ CancelSeen(t) \/ (t \notin cancelled /\ Goto(t, "validated") /\ UNCHANGED <<row, glitches>>)
    /\ WorkerOnly

\* After validate_outputs on the host: one more unconditional write.
Validated(t) ==
    /\ At(t, "validated")
    /\ \/ Show(t, "rendering") /\ Goto(t, "download") /\ UNCHANGED glitches
       \/ External(t)
       \/ Error(t, "output")
    /\ WorkerOnly

Download(t) ==
    /\ At(t, "download")
    /\ \/ CancelSeen(t)
       \/ External(t)
       \/ Error(t, "output")
       \/ t \notin cancelled /\ Goto(t, "publish") /\ UNCHANGED <<row, glitches>>
    /\ WorkerOnly

\* Rendered and catalogued: success is written without another look at the row.
Publish(t) ==
    /\ At(t, "publish")
    /\ Become(t, [row[t] EXCEPT !.status = "succeeded", !.failure = "none"])
    /\ Exit(t)
    /\ UNCHANGED glitches /\ WorkerOnly

\* The handlers of _run_task: first whether the task was cancelled ...
Failing(t) ==
    /\ At(t, "failing")
    /\ IF thread[t].seen # "cancel" /\ t \notin cancelled
       THEN /\ Saw(t, "settling", thread[t].seen)
            /\ UNCHANGED <<row, canceller, cancelTimer>>
       ELSE /\ Exit(t)  \* _complete_task_cancellation
            /\ CASE row[t].status \in Final -> UNCHANGED <<row, canceller, cancelTimer>>
                 [] row[t].status \notin Final /\ row[t].launched ->
                      Show(t, "cancel_pending") /\ StartRemoteCancel(t)
                 [] OTHER -> Show(t, "cancelled") /\ UNCHANGED <<canceller, cancelTimer>>
    /\ UNCHANGED <<cancelled, observer, retryTimer, host, drawn, stopping, reboots, glitches>>

\* ... then what becomes of the failure, written whatever the row is by now.
Settling(t) ==
    LET error == thread[t].seen
        failure == IF error \in {"forcing", "data"} THEN error ELSE "other"
        settled(status) == Become(t, [row[t] EXCEPT !.status = status, !.failure = failure]) IN
    /\ At(t, "settling")
    /\ CASE error = "external" ->  \* _defer_external, until its patience ends
              \/ t \notin Confirm /\ settled("reconciling") /\ retryTimer' = retryTimer \cup {t}
              \/ settled("paused_external") /\ UNCHANGED retryTimer
         [] error # "external" /\ (row[t].wrf \/ error = "output") ->
              settled("failed") /\ UNCHANGED retryTimer
         [] OTHER -> settled("waiting_restart") /\ UNCHANGED retryTimer
    /\ Exit(t)
    /\ UNCHANGED <<cancelled, canceller, observer, cancelTimer, host, drawn, stopping, reboots, glitches>>

-----------------------------------------------------------------------------
(* cancel, the cancel thread and the observer of accepted cancellations.   *)

Cancel(t) ==
    /\ row[t].status # "none" /\ ~stopping
    /\ row[t].status \notin Final \/ Unresolved(t)
    /\ cancelled' = cancelled \cup {t}
    /\ IF row[t].launched THEN Show(t, "cancel_pending") /\ StartRemoteCancel(t)
       ELSE Show(t, "cancelled") /\ UNCHANGED <<canceller, cancelTimer>>
    /\ UNCHANGED <<thread, observer, retryTimer, host, drawn, stopping, reboots, glitches>>

\* Mutant of Bound: a late observation is not tied to its launch.
Unbound(t, bind) == TRUE

Bound(t, bind) == bind = <<row[t].attempt, row[t].token>>

\* _record_cancel_observation
Record(t, seen, bind) ==
    IF row[t].status = "cancel_pending" /\ Bound(t, bind) /\ seen \in Terminal
    THEN Become(t, [row[t] EXCEPT !.status = "cancelled", !.terminal = seen])
    ELSE UNCHANGED row

\* Mutant of Reschedule: an unconfirmed cancellation is not looked at again.
NeverAgain(t) == UNCHANGED cancelTimer

\* _schedule_cancel_reconcile
Reschedule(t) ==
    cancelTimer' = IF row'[t].status = "cancel_pending" /\ ~stopping THEN cancelTimer \cup {t} ELSE cancelTimer

\* hpc.cancel: a tombstone, a request, or only the verdict.
CancellerAsks(t) ==
    LET k == canceller[t].bind[2]
        heard(reply) == canceller' = [canceller EXCEPT ![t].pc = "poll", ![t].seen = reply] IN
    /\ canceller[t].pc = "ask"
    /\ \/ Glitch /\ heard("unknown") /\ UNCHANGED <<remote, asked>>
       \/ /\ UNCHANGED glitches
          /\ CASE remote[t][k] = "absent" ->
                    /\ remote' = [remote EXCEPT ![t][k] = "revoked"]
                    /\ heard("cancelled") /\ UNCHANGED asked
               [] remote[t][k] \in {"claimed", "running"} ->
                    asked' = asked \cup {<<t, k>>} /\ heard("cancel_pending") /\ UNCHANGED remote
               [] OTHER ->
                    /\ \E reply \in TokenReplies(t, k) : heard(reply)
                    /\ UNCHANGED <<remote, asked>>
    /\ UNCHANGED <<row, thread, cancelled, observer, cancelTimer, retryTimer, inflight, control, drawn,
                   stopping, reboots>>

\* Some more looks at hpc.status, which goes by the row's current token.
CancellerPolls(t) ==
    /\ canceller[t].pc = "poll"
    /\ canceller[t].seen \notin Terminal /\ ~stopping
    /\ \E seen \in RemoteReplies(t) \ {canceller[t].seen} :
         canceller' = [canceller EXCEPT ![t].seen = seen]
    /\ UNCHANGED <<row, thread, cancelled, observer, cancelTimer, retryTimer, host, drawn, stopping,
                   reboots, glitches>>

CancellerTells(t) ==
    /\ canceller[t].pc = "poll"
    /\ Record(t, canceller[t].seen, canceller[t].bind)
    /\ canceller' = [canceller EXCEPT ![t] = NoCall]
    /\ Reschedule(t)
    /\ UNCHANGED <<thread, cancelled, observer, retryTimer, host, drawn, stopping, reboots, glitches>>

\* The timer's thread reads the row's binding and asks the host; one at a time.
ObserverLooks(t) ==
    /\ t \in cancelTimer /\ observer[t].pc = "none"
    /\ cancelTimer' = cancelTimer \ {t}
    /\ IF row[t].status # "cancel_pending" THEN UNCHANGED <<observer, glitches>>
       ELSE \/ Glitch /\ observer' = [observer EXCEPT ![t] = [pc |-> "tell", seen |-> "unknown",
                                                   bind |-> <<row[t].attempt, row[t].token>>]]
            \/ /\ \E seen \in RemoteReplies(t) :
                    observer' = [observer EXCEPT ![t] = [pc |-> "tell", seen |-> seen,
                                                   bind |-> <<row[t].attempt, row[t].token>>]]
               /\ UNCHANGED glitches
    /\ UNCHANGED <<row, thread, cancelled, canceller, retryTimer, host, drawn, stopping, reboots>>

ObserverTells(t) ==
    /\ observer[t].pc = "tell"
    /\ Record(t, observer[t].seen, observer[t].bind)
    /\ observer' = [observer EXCEPT ![t] = NoCall]
    /\ Reschedule(t)
    /\ UNCHANGED <<thread, cancelled, canceller, retryTimer, host, drawn, stopping, reboots, glitches>>

-----------------------------------------------------------------------------
(* restart, resume_external, retry_outputs, and the life of the API.       *)

\* terminal_evidence: a registered launch must have failed with an exit code;
\* one without a process must be revoked, which the row knows if it never had
\* a reply; one never sent leaves no trace.  What the probe asks of earlier
\* attempts is left open: a restart that is not taken may be one it refused.
LaunchIsOver(t) ==
    LET k == row[t].token IN
    /\ row[t].launched
    /\ \/ row[t].process = "named" /\ remote[t][k] \in {"failed", "stopped"} /\ <<t, k>> \notin asked
       \/ /\ remote[t][k] = "revoked"
          /\ row[t].process = "empty" \/ (row[t].status = "cancelled" /\ row[t].terminal = "cancelled")

NeverLaunched(t) ==
    /\ ~row[t].launched
    /\ row[t].status # "cancelled" => row[t].release /\ row[t].failure = "forcing"
    /\ row[t].release => control[t] = "absent"

\* Mutant of MayRestart: silence on the host is taken for an end.
SilenceIsEnough(t) ==
    \/ row[t].token = 0 /\ NeverLaunched(t)
    \/ row[t].token # 0 /\ RemoteReplies(t) \cap {"failed", "cancelled", "unknown"} # {}

MayRestart(t) == IF row[t].token = 0 THEN NeverLaunched(t) ELSE LaunchIsOver(t)

\* The old attempt is archived, then the row begins anew, under the task's lock.
Restart(t) ==
    /\ row[t].status \in {"waiting_restart", "failed", "cancelled"} /\ ~row[t].wrf
    /\ ~stopping /\ Quiet(t)
    /\ row[t].attempt < MaxAttempts
    /\ MayRestart(t)
    /\ Become(t, Unstarted(row[t].attempt + 1, FALSE))
    /\ cancelled' = cancelled \ {t}
    /\ UNCHANGED <<thread, canceller, observer, cancelTimer, retryTimer, host, drawn, stopping, reboots,
                   glitches>>

\* By the user, or by _resume_paused_tasks: _cancelled is left alone.
Resume(t) ==
    /\ row[t].status = "paused_external"
    /\ ~stopping /\ Quiet(t)
    /\ Show(t, "reconciling")
    /\ retryTimer' = retryTimer \ {t}
    /\ UNCHANGED <<thread, cancelled, canceller, observer, cancelTimer, host, drawn, stopping, reboots, glitches>>

\* retry_outputs, and render_partial, which differs in what Finalize tolerates.
RetryOutputs(t) ==
    /\ row[t].status = "failed" /\ row[t].wrf
    /\ ~stopping /\ Quiet(t)
    /\ Become(t, [row[t] EXCEPT !.status = "queued", !.retry = TRUE])
    /\ cancelled' = cancelled \ {t}
    /\ UNCHANGED <<thread, canceller, observer, cancelTimer, retryTimer, host, drawn, stopping, reboots, glitches>>

\* stop(): threads are asked to end and timers are dropped.
Stop ==
    /\ ~stopping /\ reboots < MaxReboots
    /\ stopping' = TRUE
    /\ cancelTimer' = {} /\ retryTimer' = {}
    /\ UNCHANGED <<row, thread, cancelled, canceller, observer, host, drawn, reboots, glitches>>

\* The process is gone, gracefully or not, and start() reads the rows.
Reboot ==
    LET pending == {t \in Tasks : row[t].status = "cancel_pending"}
        active == {t \in Tasks : row[t].status \in {"prefetching", "uploading", "running", "rendering"}} IN
    /\ reboots < MaxReboots
    /\ reboots' = reboots + 1
    /\ stopping' = FALSE
    /\ thread' = [t \in Tasks |-> Idle]
    /\ observer' = [t \in Tasks |-> NoCall]
    /\ cancelTimer' = {} /\ retryTimer' = {}
    /\ cancelled' = pending
    /\ canceller' = [t \in Tasks |-> IF t \in pending /\ row[t].launched
                                     THEN [pc |-> "ask", seen |-> "none",
                                           bind |-> <<row[t].attempt, row[t].token>>]
                                     ELSE NoCall]
    /\ row' = [t \in Tasks |-> IF t \in active THEN [row[t] EXCEPT !.status = "reconciling"]
                               ELSE IF t \in pending /\ ~row[t].launched
                               THEN [row[t] EXCEPT !.status = "cancelled"] ELSE row[t]]
    /\ UNCHANGED <<host, drawn, glitches>>

-----------------------------------------------------------------------------
WorkerStep(t) ==
    \/ Begin(t) \/ RetryOutputsOnly(t) \/ Reconcile(t) \/ Reconciled(t) \/ PinRelease(t)
    \/ Prefetch(t) \/ Bundle(t) \/ Upload(t) \/ SendLaunch(t) \/ ReplyLost(t) \/ Launched(t)
    \/ Monitor(t) \/ Monitored(t) \/ Finalize(t) \/ Validated(t) \/ Download(t) \/ Publish(t)
    \/ Failing(t) \/ Settling(t)

CancelStep(t) == CancellerAsks(t) \/ CancellerTells(t) \/ ObserverLooks(t) \/ ObserverTells(t)

Operation(t) == Submit(t) \/ Cancel(t) \/ Restart(t) \/ Resume(t) \/ RetryOutputs(t)

HostStep(t) == \E k \in Tokens : RemoteHandlesLaunch(t, k) \/ RemoteRegisters(t, k) \/ RemoteEnds(t, k)

Next ==
    \/ \E t \in Tasks : \/ Dispatch(t) \/ RetryTimerFires(t) \/ WorkerStep(t)
                        \/ CancelStep(t) \/ CancellerPolls(t)
                        \/ Operation(t) \/ HostStep(t)
    \/ Stop
    \/ Reboot

Spec == Init /\ [][Next]_vars

\* Threads run, timers fire, SSH calls return, the host gets on with its work
\* and a stopped API is started again.  Nothing obliges a user, a crash, or a
\* command whose caller is gone.
Fairness ==
    /\ WF_vars(stopping /\ Reboot)
    /\ \A t \in Tasks :
        /\ WF_vars(Dispatch(t))
        /\ WF_vars(RetryTimerFires(t))
        /\ WF_vars(WorkerStep(t))
        /\ WF_vars(CancelStep(t))
        /\ \A k \in Tokens :
              /\ WF_vars(At(t, "launching") /\ RemoteHandlesLaunch(t, k))
              /\ WF_vars(RemoteRegisters(t, k))
              /\ WF_vars(RemoteEnds(t, k))

FairSpec == Spec /\ Fairness

-----------------------------------------------------------------------------
(* Properties.                                                             *)

\* Whatever computes on the host, or may yet start there, is the launch that
\* the row durably names: no restart, crash or lost reply ever leaves a
\* computation that the manager does not know of (launch intent in _execute,
\* proof in restart_plan).
EveryLaunchIsOnRecord ==
    \A t \in Tasks : \A k \in Tokens : Alive(t, k) => row[t].launched /\ row[t].token = k

\* An attempt is launched under one token, over denials, lost replies and
\* restarts of the API: the host can tell a replay from a new attempt.
OneTokenPerAttempt == \A t \in Tasks : drawn[t] <= row[t].attempt

\* A task that succeeded has a successful launch of its own behind it.
SuccessIsComputed ==
    \A t \in Tasks : row[t].status = "succeeded" => row[t].token # 0 /\ remote[t][row[t].token] = "succeeded"

\* While a row says cancelled, nothing of the task runs or can start.
CancelledIsDead ==
    \A t \in Tasks : row[t].status = "cancelled" => \A k \in Tokens : ~Alive(t, k)

\* A launch intent is only written while fewer than MaxConcurrent other
\* launches are unresolved ("Reconciliation can run; a new computation cannot").
LaunchWithinCapacity ==
    [][\A t \in Tasks : ~row[t].launched /\ row'[t].launched =>
         Cardinality({u \in Tasks \ {t} : Unresolved(u)}) < MaxConcurrent]_vars

\* Every accepted cancellation settles, without another request of the user.
CancelSettles == \A t \in Tasks : row[t].status = "cancel_pending" ~> row[t].status \in Final

\* A recorded verdict is about a launch of this attempt.
VerdictOfOwnAttempt == \A t \in Tasks : row[t].terminal # "none" => row[t].token # 0

\* After a cancellation was accepted the row goes on to say cancel_pending while
\* anything of the task is alive on the host; only a worker that has not met its
\* next look at _cancelled may show a stage of its own for a while (cancel,
\* _run_task, _defer_external).
PendingUntilExit ==
    \A t \in cancelled :
        thread[t].pc = "none" /\ (\E k \in Tokens : Alive(t, k)) => row[t].status = "cancel_pending"

\* The API forgets an accepted cancellation only with the task settled, or when
\* the user asks for a new attempt or for the outputs (cancel, start).
CancelSurvives ==
    [][\A t \in cancelled \ cancelled' :
         row'[t].status \in Final \/ row'[t].attempt # row[t].attempt \/ row[t].wrf]_vars

\* A launch whose cancellation the host verified leaves a task that can be run
\* again: the row says cancelled and so does its terminal evidence.
VerifiedCancelCanRestart ==
    \A t \in Tasks :
        /\ row[t].status = "cancelled" /\ row[t].launched /\ row[t].terminal = "cancelled"
        /\ ~row[t].wrf /\ Quiet(t)
        => MayRestart(t)
=============================================================================
