-------------------------- MODULE TaskManagerProofs --------------------------
(***************************************************************************)
(* Proofs about TaskManager, for any tasks and any bounds: type            *)
(* correctness, that what lives on the host is on record, that an attempt  *)
(* draws one token, that a success was computed and that a cancelled task  *)
(* is dead.                                                                *)
(*                                                                         *)
(* The four rest on one invariant, which says of every task how its row,   *)
(* its worker, its cancel threads and the host fit together.  It speaks    *)
(* of one task at a time: nothing a task does touches another one.         *)
(***************************************************************************)
EXTENDS TaskManager, TLAPS

\* Nothing of a launch in this state lives or will.
Over == {"revoked", "stopped"} \cup Terminal

\* The launch on record has computed its result.
Computed(t) == row[t].token # 0 /\ remote[t][row[t].token] = "succeeded"

\* Before the launch intent is written.
Preparing == {"pin", "prefetch", "bundle", "upload"}

\* The row against the host and the tokens drawn.
RowIsSound(t) ==
    /\ row[t].launched \/ row[t].denied => row[t].token # 0
    /\ row[t].token <= drawn[t] /\ drawn[t] <= row[t].attempt
    /\ row[t].status # "none" /\ ~row[t].launched /\ ~row[t].denied => drawn[t] < row[t].attempt
    /\ ~row[t].launched /\ row[t].token # 0 => remote[t][row[t].token] \in {"absent", "revoked"}
    /\ row[t].status = "queued" => row[t].retry \/ ~row[t].launched
    /\ row[t].status = "cancel_pending" => row[t].launched
    /\ row[t].status = "cancelled" /\ row[t].launched => remote[t][row[t].token] \in Over
    /\ row[t].status = "succeeded" \/ control[t] = "succeeded" => Computed(t)

\* A row that does not exist yet has no threads and no history.
NoRowIsIdle(t) ==
    row[t].status = "none" =>
      /\ ~row[t].launched /\ drawn[t] = 0
      /\ thread[t].pc = "none" /\ canceller[t].pc = "none"

\* The worker, where it stands, against the row and the host.
WorkerIsSound(t) ==
    /\ thread[t].pc = "begin" => t \in cancelled \/ row[t].status \in {"queued", "reconciling"}
    /\ thread[t].pc \in Preparing => ~row[t].launched
    /\ thread[t].pc \in {"launch", "launching", "launched"} => row[t].launched
    /\ thread[t].pc = "launched" /\ thread[t].seen = "denied" =>
         remote[t][row[t].token] \in {"absent", "revoked"} /\ <<t, row[t].token>> \notin inflight
    /\ \/ thread[t].pc \in {"finalize", "validated", "download", "publish"}
       \/ thread[t].pc \in {"reconciled", "monitored"} /\ thread[t].seen = "succeeded"
       => Computed(t)
    /\ thread[t].pc = "failing" /\ thread[t].seen = "cancel" => t \in cancelled

\* What the cancel thread and the observer hold of the host is still so.
CancelIsSound(t) ==
    /\ canceller[t].pc # "none" =>
         /\ t \in cancelled
         /\ canceller[t].bind = <<row[t].attempt, row[t].token>> /\ row[t].token # 0
    /\ canceller[t].pc = "poll" /\ canceller[t].seen \in Terminal =>
         remote[t][canceller[t].bind[2]] \in Over
    /\ observer[t].pc = "tell" =>
         /\ observer[t].bind[2] # 0
         /\ observer[t].seen \in Terminal => remote[t][observer[t].bind[2]] \in Over

OnRecord(t) == \A k \in Tokens : Alive(t, k) => row[t].launched /\ row[t].token = k

TaskInv(t) ==
    RowIsSound(t) /\ NoRowIsIdle(t) /\ WorkerIsSound(t) /\ CancelIsSound(t) /\ OnRecord(t)

\* Inductive: types, and every task is sound.
ManagerInv == TypeOK /\ \A t \in Tasks : TaskInv(t)

-----------------------------------------------------------------------------
(* Frames.                                                                 *)

WorkerType == [pc : Pcs, seen : {"none", "started", "denied", "refused"} \cup Errors \cup Replies]

\* Nothing of the task is changed.
Kept(u) ==
    /\ row'[u] = row[u] /\ thread'[u] = thread[u] /\ canceller'[u] = canceller[u]
    /\ observer'[u] = observer[u] /\ remote'[u] = remote[u] /\ control'[u] = control[u]
    /\ drawn'[u] = drawn[u] /\ (u \in cancelled' <=> u \in cancelled)
    /\ \A k \in Tokens : <<u, k>> \in inflight' <=> <<u, k>> \in inflight

\* A task that a step does not touch stays sound.
LEMMA UntouchedIsSound ==
    ASSUME TypeOK, NEW u \in Tasks, TaskInv(u), Kept(u)
    PROVE  TaskInv(u)'
<1>1. row[u].token # 0 => row[u].token \in Tokens
  BY DEF TypeOK, Row
<1>2. row[u] \in Row
  BY DEF TypeOK
<1>3. Computed(u)' <=> Computed(u)
  BY DEF Kept, Computed
<1>4. RowIsSound(u)'
  BY <1>3 DEF TaskInv, RowIsSound, Kept
<1>5. NoRowIsIdle(u)'
  BY DEF TaskInv, NoRowIsIdle, Kept
<1>6. WorkerIsSound(u)'
  <2>1. row[u].launched => row[u].token \in Tokens
    BY <1>1 DEF TaskInv, RowIsSound
  <2> QED
    BY <1>3, <2>1 DEF TaskInv, WorkerIsSound, Kept, Preparing
<1>7. CancelIsSound(u)'
  BY DEF TaskInv, CancelIsSound, Kept
<1>8. OnRecord(u)'
  BY DEF TaskInv, OnRecord, Alive, Kept
<1> QED
  BY <1>4, <1>5, <1>6, <1>7, <1>8 DEF TaskInv

\* A launch on record has a token.
LEMMA LaunchedHasToken ==
    ASSUME TypeOK, NEW t \in Tasks, RowIsSound(t), row[t].launched \/ row[t].denied
    PROVE  row[t].token \in Tokens
BY DEF TypeOK, Row, RowIsSound

\* A worker that gets on without touching the host or what is kept in memory,
\* and at most settles its row, keeps the invariant if its new place is sound.
LEMMA WorkerMoves ==
    ASSUME ManagerInv, NEW t \in Tasks, NEW r \in Row, NEW w \in WorkerType,
           row' = [row EXCEPT ![t] = r], thread' = [thread EXCEPT ![t] = w],
           UNCHANGED <<cancelled, canceller, observer, cancelTimer, retryTimer>>,
           UNCHANGED <<remote, asked, inflight, control, drawn, stopping, reboots>>,
           glitches' \in 0..MaxGlitches,
           r.launched = row[t].launched, r.denied = row[t].denied,
           r.token = row[t].token, r.attempt = row[t].attempt,
           row[t].status # "none", r.status # "none",
           r.status = "queued" => r.retry \/ ~r.launched,
           r.status = "cancel_pending" => r.launched,
           r.status = "cancelled" => row[t].status = "cancelled",
           r.status = "succeeded" => Computed(t),
           w.pc \notin {"begin", "launched"},
           w.pc \in Preparing => ~r.launched,
           w.pc \in {"launch", "launching"} => r.launched,
           \/ w.pc \in {"finalize", "validated", "download", "publish"}
           \/ w.pc \in {"reconciled", "monitored"} /\ w.seen = "succeeded"
           => Computed(t),
           w.pc = "failing" /\ w.seen = "cancel" => t \in cancelled
    PROVE  ManagerInv'
<1> USE DEF ManagerInv
<1>1. TypeOK'
  BY DEF TypeOK, WorkerType
<1>2. /\ row'[t] = r /\ thread'[t] = w
      /\ \A u \in Tasks \ {t} : row'[u] = row[u] /\ thread'[u] = thread[u]
  BY DEF TypeOK
<1>3. ASSUME NEW u \in Tasks, u # t PROVE TaskInv(u)'
  <2>1. Kept(u)
    BY <1>2, <1>3 DEF Kept
  <2> QED
    BY <2>1, UntouchedIsSound
<1>4. TaskInv(t)'
  <2> TaskInv(t)
    OBVIOUS
  <2>1. Computed(t)' <=> Computed(t)
    BY <1>2 DEF Computed
  <2>2. RowIsSound(t)'
    BY <1>2, <2>1 DEF TaskInv, RowIsSound
  <2>3. NoRowIsIdle(t)'
    BY <1>2 DEF NoRowIsIdle
  <2>4. WorkerIsSound(t)'
    BY <1>2, <2>1 DEF WorkerIsSound
  <2>5. CancelIsSound(t)'
    BY <1>2 DEF TaskInv, CancelIsSound
  <2>6. OnRecord(t)'
    BY <1>2 DEF TaskInv, OnRecord, Alive
  <2> QED
    BY <2>2, <2>3, <2>4, <2>5, <2>6 DEF TaskInv
<1> QED
  BY <1>1, <1>3, <1>4

\* What the host says of a launch, and what a final word means.
LEMMA RepliesOfToken ==
    ASSUME TypeOK, NEW t \in Tasks, NEW k \in Tokens, NEW seen \in TokenReplies(t, k)
    PROVE  /\ seen \in Replies
           /\ seen \in Terminal => remote[t][k] \in Over
           /\ seen = "succeeded" => remote[t][k] = "succeeded"
<1>1. remote[t][k] \in {"absent", "claimed", "running", "lost", "stopped", "revoked"} \cup Terminal
  BY DEF TypeOK
<1> QED
  BY <1>1 DEF TokenReplies, Replies, Terminal, Over

LEMMA RepliesOfRemote ==
    ASSUME TypeOK, NEW t \in Tasks, RowIsSound(t), NEW seen \in RemoteReplies(t)
    PROVE  /\ seen \in Replies
           /\ seen = "succeeded" => Computed(t)
           /\ row[t].token # 0 /\ seen \in Terminal => remote[t][row[t].token] \in Over
<1>1. CASE row[t].token # 0
  <2>1. row[t].token \in Tokens
    BY <1>1 DEF TypeOK, Row
  <2>2. seen \in TokenReplies(t, row[t].token)
    BY <1>1 DEF RemoteReplies
  <2> QED
    BY <1>1, <2>1, <2>2, RepliesOfToken DEF Computed
<1>2. CASE row[t].token = 0
  <2>1. seen \in {control[t], "missing"}
    BY <1>2 DEF RemoteReplies
  <2>2. control[t] # "absent" \/ seen = "missing"
    BY <1>2 DEF RemoteReplies
  <2> QED
    BY <1>2, <2>1, <2>2 DEF TypeOK, Replies, Terminal, RowIsSound
<1> QED
  BY <1>1, <1>2

\* The same when the row is left as it is.
LEMMA WorkerGoesOn ==
    ASSUME ManagerInv, NEW t \in Tasks, NEW w \in WorkerType,
           row' = row, thread' = [thread EXCEPT ![t] = w], WorkerOnly,
           glitches' \in 0..MaxGlitches, thread[t].pc # "none",
           w.pc \notin {"begin", "launched"},
           w.pc \in Preparing => ~row[t].launched,
           w.pc \in {"launch", "launching"} => row[t].launched,
           \/ w.pc \in {"finalize", "validated", "download", "publish"}
           \/ w.pc \in {"reconciled", "monitored"} /\ w.seen = "succeeded"
           => Computed(t),
           w.pc = "failing" /\ w.seen = "cancel" => t \in cancelled
    PROVE  ManagerInv'
<1>1. row[t] \in Row /\ row' = [row EXCEPT ![t] = row[t]]
  BY DEF ManagerInv, TypeOK
<1>2. RowIsSound(t) /\ row[t].status # "none"
  BY DEF ManagerInv, TaskInv, NoRowIsIdle
<1>3. /\ row[t].status = "queued" => row[t].retry \/ ~row[t].launched
      /\ row[t].status = "cancel_pending" => row[t].launched
      /\ row[t].status = "succeeded" => Computed(t)
  BY <1>2 DEF RowIsSound
<1>4. /\ UNCHANGED <<cancelled, canceller, observer, cancelTimer, retryTimer>>
      /\ UNCHANGED <<remote, asked, inflight, control, drawn, stopping, reboots>>
  BY DEF WorkerOnly, memory, host
<1> QED
  BY <1>1, <1>2, <1>3, <1>4, WorkerMoves

\* A status other than "queued" and "succeeded", and no more of the launch than
\* what was observed, may be written at any time.
LEMMA WorkerWrites ==
    ASSUME ManagerInv, NEW t \in Tasks, NEW r \in Row, NEW w \in WorkerType,
           Become(t, r), thread' = [thread EXCEPT ![t] = w], WorkerOnly,
           glitches' \in 0..MaxGlitches, thread[t].pc # "none",
           r.launched = row[t].launched, r.denied = row[t].denied,
           r.token = row[t].token, r.attempt = row[t].attempt,
           \/ r.status = row[t].status /\ r.retry = row[t].retry
           \/ r.status \notin {"none", "queued", "cancel_pending", "cancelled", "succeeded"}
           \/ r.status = "succeeded" /\ Computed(t),
           w.pc \notin {"begin", "launched"},
           w.pc \in Preparing => ~row[t].launched,
           w.pc \in {"launch", "launching"} => row[t].launched,
           \/ w.pc \in {"finalize", "validated", "download", "publish"}
           \/ w.pc \in {"reconciled", "monitored"} /\ w.seen = "succeeded"
           => Computed(t),
           w.pc = "failing" /\ w.seen = "cancel" => t \in cancelled
    PROVE  ManagerInv'
<1>2. RowIsSound(t) /\ row[t].status # "none"
  BY DEF ManagerInv, TaskInv, NoRowIsIdle
<1>3. /\ r.status # "none"
      /\ r.status = "queued" => r.retry \/ ~r.launched
      /\ r.status = "cancel_pending" => r.launched
      /\ r.status = "cancelled" => row[t].status = "cancelled"
      /\ r.status = "succeeded" => Computed(t)
  BY <1>2 DEF RowIsSound
<1>4. /\ UNCHANGED <<cancelled, canceller, observer, cancelTimer, retryTimer>>
      /\ UNCHANGED <<remote, asked, inflight, control, drawn, stopping, reboots>>
  BY DEF WorkerOnly, memory, host
<1>5. row' = [row EXCEPT ![t] = r]
  BY DEF Become
<1> QED
  BY <1>2, <1>3, <1>4, <1>5, WorkerMoves

\* A stage that ends in an error.
LEMMA StageFails ==
    ASSUME ManagerInv, NEW t \in Tasks, thread[t].pc # "none", WorkerOnly,
           CancelSeen(t) \/ External(t) \/ \E kind \in {"output", "forcing", "data", "model"} : Error(t, kind)
    PROVE  ManagerInv'
<1>1. PICK kind \in Errors : Fail(t, kind) /\ UNCHANGED row /\ (kind = "cancel" => t \in cancelled)
  BY DEF CancelSeen, External, Error, Errors
<1>2. glitches' \in 0..MaxGlitches
  BY BoundAssumption DEF CancelSeen, External, Glitch, Error, ManagerInv, TypeOK
<1>3. [pc |-> "failing", seen |-> kind] \in WorkerType
  BY DEF WorkerType, Pcs
<1> QED
  BY <1>1, <1>2, <1>3, WorkerGoesOn DEF Fail, Saw, Preparing

-----------------------------------------------------------------------------
(* The worker up to the launch intent.                                     *)

LEMMA BeginKeeps ==
    ASSUME ManagerInv, NEW t \in Tasks, Begin(t) PROVE ManagerInv'
<1>1. PICK pc \in {"none", "retry", "reconcile", "pin"} :
        Goto(t, pc) /\ (pc = "pin" => t \notin cancelled /\ row[t].status \notin Final
                                      /\ ~row[t].retry /\ row[t].status # "reconciling")
  BY DEF Begin, Exit, Goto, Idle
<1>2. pc = "pin" => ~row[t].launched
  BY <1>1 DEF ManagerInv, TaskInv, WorkerIsSound, RowIsSound, Begin, At
<1>3. [pc |-> pc, seen |-> "none"] \in WorkerType
  BY DEF WorkerType, Pcs
<1>4. glitches' \in 0..MaxGlitches /\ thread[t].pc # "none" /\ row' = row /\ WorkerOnly
  BY DEF Begin, At, ManagerInv, TypeOK
<1> QED
  BY <1>1, <1>2, <1>3, <1>4, WorkerGoesOn DEF Goto, Preparing

LEMMA RetryKeeps ==
    ASSUME ManagerInv, NEW t \in Tasks, RetryOutputsOnly(t) PROVE ManagerInv'
<1>1. RowIsSound(t) /\ TypeOK /\ row[t] \in Row
  BY DEF ManagerInv, TaskInv, TypeOK
<1>2. thread[t].pc # "none" /\ WorkerOnly
  BY DEF RetryOutputsOnly, At
<1>3. CASE /\ RemoteReplies(t) = {"succeeded"}
           /\ Become(t, [row[t] EXCEPT !.status = "rendering", !.retry = FALSE, !.wrf = TRUE])
           /\ Goto(t, "finalize") /\ UNCHANGED glitches
  <2>1. Computed(t)
    BY <1>1, <1>3, RepliesOfRemote
  <2>2. [row[t] EXCEPT !.status = "rendering", !.retry = FALSE, !.wrf = TRUE] \in Row
    BY <1>1 DEF Row, Statuses
  <2>3. [pc |-> "finalize", seen |-> "none"] \in WorkerType
    BY DEF WorkerType, Pcs
  <2>4. glitches' \in 0..MaxGlitches
    BY <1>1, <1>3 DEF TypeOK
  <2> DEFINE r == [row[t] EXCEPT !.status = "rendering", !.retry = FALSE, !.wrf = TRUE]
  <2>5. /\ r.launched = row[t].launched /\ r.denied = row[t].denied
        /\ r.token = row[t].token /\ r.attempt = row[t].attempt /\ r.status = "rendering"
    BY <1>1 DEF Row
  <2> QED
    BY <1>2, <1>3, <2>1, <2>2, <2>3, <2>4, <2>5, WorkerWrites DEF Goto, Preparing
<1>4. CASE /\ Show(t, "rendering")
           /\ (Fail(t, "output") /\ UNCHANGED glitches) \/ (Fail(t, "external") /\ Glitch)
  <2> DEFINE r == [row[t] EXCEPT !.status = "rendering"]
  <2>1. r \in Row
    BY <1>1 DEF Row, Statuses
  <2>2. /\ r.launched = row[t].launched /\ r.denied = row[t].denied
        /\ r.token = row[t].token /\ r.attempt = row[t].attempt /\ r.status = "rendering"
    BY <1>1 DEF Row
  <2>3. PICK kind \in {"output", "external"} : thread' = [thread EXCEPT ![t] = [pc |-> "failing", seen |-> kind]]
    BY <1>4 DEF Fail, Saw
  <2>4. [pc |-> "failing", seen |-> kind] \in WorkerType
    BY DEF WorkerType, Pcs, Errors
  <2>5. glitches' \in 0..MaxGlitches
    BY <1>1, <1>4, BoundAssumption DEF TypeOK, Glitch
  <2> QED
    BY <1>2, <1>4, <2>1, <2>2, <2>3, <2>4, <2>5, WorkerWrites DEF Show, Preparing
<1>5. \/ /\ RemoteReplies(t) = {"succeeded"}
         /\ Become(t, [row[t] EXCEPT !.status = "rendering", !.retry = FALSE, !.wrf = TRUE])
         /\ Goto(t, "finalize") /\ UNCHANGED glitches
      \/ RemoteReplies(t) # {"succeeded"} /\ Show(t, "rendering") /\ Fail(t, "output") /\ UNCHANGED glitches
      \/ Show(t, "rendering") /\ Fail(t, "external") /\ Glitch
  BY DEF RetryOutputsOnly
<1> QED
  BY <1>3, <1>4, <1>5

LEMMA ReconcileKeeps ==
    ASSUME ManagerInv, NEW t \in Tasks, Reconcile(t) PROVE ManagerInv'
<1>1. RowIsSound(t) /\ TypeOK
  BY DEF ManagerInv, TaskInv
<1>2. thread[t].pc # "none" /\ WorkerOnly
  BY DEF Reconcile, At
<1>3. CASE CancelSeen(t) \/ External(t)
  BY <1>2, <1>3, StageFails
<1>4. ASSUME NEW seen \in RemoteReplies(t), Saw(t, "reconciled", seen), UNCHANGED <<row, glitches>>
      PROVE  ManagerInv'
  <2>1. seen \in Replies /\ (seen = "succeeded" => Computed(t))
    BY <1>1, RepliesOfRemote
  <2>2. [pc |-> "reconciled", seen |-> seen] \in WorkerType
    BY <2>1 DEF WorkerType, Pcs
  <2>3. glitches' \in 0..MaxGlitches
    BY <1>1, <1>4 DEF TypeOK
  <2> QED
    BY <1>2, <1>4, <2>1, <2>2, <2>3, WorkerGoesOn DEF Saw, Preparing
<1> QED
  BY <1>3, <1>4 DEF Reconcile

\* What the answer of the host leads to, in Reconciled and in Monitored.
LEMMA ObservedType ==
    ASSUME TypeOK, NEW t \in Tasks, NEW seen
    PROVE  /\ Observed(t, seen) \in Row
           /\ Observed(t, seen).launched = row[t].launched /\ Observed(t, seen).denied = row[t].denied
           /\ Observed(t, seen).token = row[t].token /\ Observed(t, seen).attempt = row[t].attempt
           /\ Observed(t, seen).status = row[t].status /\ Observed(t, seen).retry = row[t].retry
<1>1. row[t] \in Row
  BY DEF TypeOK
<1> QED
  BY <1>1 DEF Observed, Row, Terminal

\* The computation is confirmed, or it has failed.
LEMMA VerdictKeeps ==
    ASSUME ManagerInv, NEW t \in Tasks, NEW seen, WorkerOnly, UNCHANGED glitches, thread[t].pc # "none",
           \/ Computed(t) /\ Become(t, [Observed(t, seen) EXCEPT !.wrf = TRUE]) /\ Goto(t, "finalize")
           \/ Become(t, Observed(t, seen)) /\ Fail(t, "model")
    PROVE  ManagerInv'
<1>1. TypeOK /\ glitches' \in 0..MaxGlitches
  BY DEF ManagerInv, TypeOK
<1> DEFINE o == Observed(t, seen)
<1>2. /\ o \in Row /\ o.launched = row[t].launched /\ o.denied = row[t].denied
      /\ o.token = row[t].token /\ o.attempt = row[t].attempt
      /\ o.status = row[t].status /\ o.retry = row[t].retry
  BY <1>1, ObservedType
<1> HIDE DEF o
<1>3. CASE Computed(t) /\ Become(t, [o EXCEPT !.wrf = TRUE]) /\ Goto(t, "finalize")
  <2> DEFINE r == [o EXCEPT !.wrf = TRUE]
  <2>1. /\ r \in Row /\ r.launched = row[t].launched /\ r.denied = row[t].denied
        /\ r.token = row[t].token /\ r.attempt = row[t].attempt
        /\ r.status = row[t].status /\ r.retry = row[t].retry
    BY <1>2 DEF Row
  <2> HIDE DEF r
  <2>2. [pc |-> "finalize", seen |-> "none"] \in WorkerType
    BY DEF WorkerType, Pcs
  <2>3. Become(t, r)
    BY <1>3 DEF r
  <2> QED
    BY <1>1, <1>3, <2>1, <2>2, <2>3, WorkerWrites DEF Goto, Preparing
<1>4. CASE Become(t, o) /\ Fail(t, "model")
  <2>1. [pc |-> "failing", seen |-> "model"] \in WorkerType
    BY DEF WorkerType, Pcs, Errors
  <2> QED
    BY <1>1, <1>2, <1>4, <2>1, WorkerWrites DEF Fail, Saw, Preparing
<1> QED
  BY <1>3, <1>4 DEF o

LEMMA ReconciledKeeps ==
    ASSUME ManagerInv, NEW t \in Tasks, Reconciled(t) PROVE ManagerInv'
<1> DEFINE seen == thread[t].seen
<1>1. TypeOK /\ WorkerIsSound(t) /\ row[t] \in Row
  BY DEF ManagerInv, TaskInv, TypeOK
<1>2. thread[t].pc = "reconciled" /\ WorkerOnly /\ UNCHANGED glitches /\ glitches' \in 0..MaxGlitches
  BY <1>1 DEF Reconciled, At, TypeOK
<1>3. CASE seen = "running"
  <2> DEFINE r == [row[t] EXCEPT !.status = "running", !.failure = "none"]
  <2>1. Become(t, r) /\ Goto(t, "monitor")
    BY <1>3 DEF Reconciled, Completed
  <2>2. /\ r \in Row /\ r.launched = row[t].launched /\ r.denied = row[t].denied
        /\ r.token = row[t].token /\ r.attempt = row[t].attempt /\ r.status = "running"
    BY <1>1 DEF Row, Statuses
  <2> HIDE DEF r
  <2>3. [pc |-> "monitor", seen |-> "none"] \in WorkerType
    BY DEF WorkerType, Pcs
  <2> QED
    BY <1>2, <2>1, <2>2, <2>3, WorkerWrites DEF Goto, Preparing
<1>4. CASE seen = "succeeded"
  <2>1. Computed(t)
    BY <1>1, <1>2, <1>4 DEF WorkerIsSound
  <2>2. Become(t, [Observed(t, seen) EXCEPT !.wrf = TRUE]) /\ Goto(t, "finalize")
    BY <1>4 DEF Reconciled, Completed
  <2> QED
    BY <1>2, <2>1, <2>2, VerdictKeeps
<1>5. CASE seen = "failed"
  <2>1. Become(t, Observed(t, seen)) /\ Fail(t, "model")
    BY <1>5 DEF Reconciled, Completed
  <2> QED
    BY <1>2, <2>1, VerdictKeeps
<1>6. CASE seen = "missing" /\ ~row[t].launched
  <2>1. row' = row /\ Goto(t, "pin")
    BY <1>6 DEF Reconciled, Completed
  <2>2. [pc |-> "pin", seen |-> "none"] \in WorkerType
    BY DEF WorkerType, Pcs
  <2> QED
    BY <1>2, <1>6, <2>1, <2>2, WorkerGoesOn DEF Goto, Preparing
<1>7. CASE seen \notin {"running", "succeeded", "failed"} /\ ~(seen = "missing" /\ ~row[t].launched)
  <2> DEFINE o == Observed(t, seen)
             r == [o EXCEPT !.status = "waiting_restart", !.failure = "other"]
  <2>1. Become(t, r) /\ Exit(t)
    BY <1>7 DEF Reconciled, Completed
  <2>2. /\ o \in Row /\ o.launched = row[t].launched /\ o.denied = row[t].denied
        /\ o.token = row[t].token /\ o.attempt = row[t].attempt
    BY <1>1, ObservedType
  <2> HIDE DEF o
  <2>3. /\ r \in Row /\ r.launched = row[t].launched /\ r.denied = row[t].denied
        /\ r.token = row[t].token /\ r.attempt = row[t].attempt /\ r.status = "waiting_restart"
    BY <2>2 DEF Row, Statuses, Final
  <2> HIDE DEF r
  <2>4. Idle \in WorkerType
    BY DEF WorkerType, Pcs, Idle
  <2> QED
    BY <1>2, <2>1, <2>3, <2>4, WorkerWrites DEF Exit, Idle, Preparing
<1> QED
  BY <1>3, <1>4, <1>5, <1>6, <1>7

\* The stages that rewrite the status of the row.
LEMMA ShowKeeps ==
    ASSUME ManagerInv, NEW t \in Tasks, NEW pc, WorkerOnly, UNCHANGED glitches, Goto(t, pc),
           \/ thread[t].pc = "pin" /\ pc = "prefetch"
              /\ Become(t, [row[t] EXCEPT !.status = "prefetching", !.release = TRUE, !.failure = "none"])
           \/ thread[t].pc = "bundle" /\ pc = "upload" /\ Show(t, "uploading")
           \/ thread[t].pc = "validated" /\ pc = "download" /\ Show(t, "rendering")
           \/ thread[t].pc = "publish" /\ pc = "none"
              /\ Become(t, [row[t] EXCEPT !.status = "succeeded", !.failure = "none"])
    PROVE  ManagerInv'
<1>1. WorkerIsSound(t) /\ row[t] \in Row /\ glitches' \in 0..MaxGlitches
  BY DEF ManagerInv, TaskInv, TypeOK
<1>2. PICK r \in Row :
        /\ Become(t, r) /\ r.launched = row[t].launched /\ r.denied = row[t].denied
        /\ r.token = row[t].token /\ r.attempt = row[t].attempt
        /\ \/ r.status \in {"prefetching", "uploading", "rendering"}
           \/ r.status = "succeeded" /\ thread[t].pc = "publish"
  <2>1. CASE Become(t, [row[t] EXCEPT !.status = "prefetching", !.release = TRUE, !.failure = "none"])
    <3> DEFINE r == [row[t] EXCEPT !.status = "prefetching", !.release = TRUE, !.failure = "none"]
    <3>1. /\ r \in Row /\ r.launched = row[t].launched /\ r.denied = row[t].denied
          /\ r.token = row[t].token /\ r.attempt = row[t].attempt /\ r.status = "prefetching"
      BY <1>1 DEF Row, Statuses
    <3> QED
      BY <2>1, <3>1
  <2>2. ASSUME NEW s \in {"uploading", "rendering"}, Show(t, s)
        PROVE  \E r \in Row :
                 /\ Become(t, r) /\ r.launched = row[t].launched /\ r.denied = row[t].denied
                 /\ r.token = row[t].token /\ r.attempt = row[t].attempt
                 /\ r.status \in {"prefetching", "uploading", "rendering"}
    <3> DEFINE r == [row[t] EXCEPT !.status = s]
    <3>1. /\ r \in Row /\ r.launched = row[t].launched /\ r.denied = row[t].denied
          /\ r.token = row[t].token /\ r.attempt = row[t].attempt /\ r.status = s
      BY <1>1 DEF Row, Statuses
    <3> QED
      BY <2>2, <3>1 DEF Show
  <2>3. CASE /\ Become(t, [row[t] EXCEPT !.status = "succeeded", !.failure = "none"])
             /\ thread[t].pc = "publish"
    <3> DEFINE r == [row[t] EXCEPT !.status = "succeeded", !.failure = "none"]
    <3>1. /\ r \in Row /\ r.launched = row[t].launched /\ r.denied = row[t].denied
          /\ r.token = row[t].token /\ r.attempt = row[t].attempt /\ r.status = "succeeded"
      BY <1>1 DEF Row, Statuses, Final
    <3> QED
      BY <2>3, <3>1
  <2> QED
    BY <2>1, <2>2, <2>3
<1>3. thread[t].pc \in {"validated", "publish"} => Computed(t)
  BY <1>1 DEF WorkerIsSound
<1>4. /\ pc \in {"prefetch", "upload"} => ~row[t].launched
      /\ pc = "download" => Computed(t)
      /\ pc \in {"prefetch", "upload", "download", "none"} /\ thread[t].pc # "none"
  BY <1>1 DEF WorkerIsSound, Preparing
<1>5. [pc |-> pc, seen |-> "none"] \in WorkerType
  BY <1>4 DEF WorkerType, Pcs
<1> QED
  BY <1>1, <1>2, <1>3, <1>4, <1>5, WorkerWrites DEF Goto, Preparing

\* The stages that go on with the row as it is.
LEMMA GoOnKeeps ==
    ASSUME ManagerInv, NEW t \in Tasks, NEW pc, WorkerOnly, UNCHANGED <<row, glitches>>, Goto(t, pc),
           \/ thread[t].pc = "prefetch" /\ pc = "bundle"
           \/ thread[t].pc = "finalize" /\ pc = "validated"
           \/ thread[t].pc = "download" /\ pc = "publish"
           \/ thread[t].pc = "monitored" /\ pc = "monitor"
           \/ thread[t].pc \in {"monitor", "monitored"} /\ pc = "none"
    PROVE  ManagerInv'
<1>1. WorkerIsSound(t) /\ glitches' \in 0..MaxGlitches
  BY DEF ManagerInv, TaskInv, TypeOK
<1>2. [pc |-> pc, seen |-> "none"] \in WorkerType
  BY DEF WorkerType, Pcs
<1>3. /\ pc = "bundle" => ~row[t].launched
      /\ pc \in {"validated", "publish"} => Computed(t)
  BY <1>1 DEF WorkerIsSound, Preparing
<1> QED
  BY <1>1, <1>2, <1>3, WorkerGoesOn DEF Goto, Preparing

LEMMA StagesKeep ==
    ASSUME ManagerInv, NEW t \in Tasks,
           \/ PinRelease(t) \/ Prefetch(t) \/ Bundle(t) \/ ReplyLost(t)
           \/ Finalize(t) \/ Validated(t) \/ Download(t) \/ Publish(t)
    PROVE  ManagerInv'
<1>1. CASE PinRelease(t)
  BY <1>1, ShowKeeps, StageFails DEF PinRelease, At
<1>2. CASE Prefetch(t)
  <2>1. CASE stopping /\ Fail(t, "data") /\ UNCHANGED <<row, glitches>>
    <3>1. [pc |-> "failing", seen |-> "data"] \in WorkerType
      BY DEF WorkerType, Pcs, Errors
    <3> QED
      BY <1>2, <2>1, <3>1, WorkerGoesOn DEF Prefetch, At, Fail, Saw, Preparing, ManagerInv, TypeOK
  <2> QED
    BY <1>2, <2>1, GoOnKeeps, StageFails DEF Prefetch, At
<1>3. CASE Bundle(t)
  BY <1>3, ShowKeeps, StageFails DEF Bundle, At
<1>4. CASE ReplyLost(t)
  BY <1>4, StageFails DEF ReplyLost, At
<1>5. CASE Finalize(t)
  BY <1>5, GoOnKeeps, StageFails DEF Finalize, At
<1>6. CASE Validated(t)
  BY <1>6, ShowKeeps, StageFails DEF Validated, At
<1>7. CASE Download(t)
  BY <1>7, GoOnKeeps, StageFails DEF Download, At
<1>8. CASE Publish(t)
  BY <1>8, ShowKeeps DEF Publish, At, Exit, Goto, Idle
<1> QED
  BY <1>1, <1>2, <1>3, <1>4, <1>5, <1>6, <1>7, <1>8

LEMMA MonitorKeeps ==
    ASSUME ManagerInv, NEW t \in Tasks, Monitor(t) PROVE ManagerInv'
<1>1. RowIsSound(t) /\ TypeOK
  BY DEF ManagerInv, TaskInv
<1>2. thread[t].pc = "monitor" /\ WorkerOnly
  BY DEF Monitor, At
<1>3. CASE CancelSeen(t) \/ External(t)
  BY <1>2, <1>3, StageFails
<1>4. CASE Exit(t) /\ UNCHANGED <<row, glitches>>
  BY <1>2, <1>4, GoOnKeeps DEF Exit, Goto, Idle
<1>5. ASSUME NEW seen \in RemoteReplies(t), Saw(t, "monitored", seen), UNCHANGED <<row, glitches>>
      PROVE  ManagerInv'
  <2>1. seen \in Replies /\ (seen = "succeeded" => Computed(t))
    BY <1>1, RepliesOfRemote
  <2>2. [pc |-> "monitored", seen |-> seen] \in WorkerType
    BY <2>1 DEF WorkerType, Pcs
  <2>3. glitches' \in 0..MaxGlitches
    BY <1>1, <1>5 DEF TypeOK
  <2> QED
    BY <1>2, <1>5, <2>1, <2>2, <2>3, WorkerGoesOn DEF Saw, Preparing
<1> QED
  BY <1>3, <1>4, <1>5 DEF Monitor

LEMMA MonitoredKeeps ==
    ASSUME ManagerInv, NEW t \in Tasks, Monitored(t) PROVE ManagerInv'
<1> DEFINE seen == thread[t].seen
<1>1. WorkerIsSound(t)
  BY DEF ManagerInv, TaskInv
<1>2. thread[t].pc = "monitored" /\ WorkerOnly /\ UNCHANGED glitches
  BY DEF Monitored, At
<1>3. CASE row[t].status \in Final
  <2>1. UNCHANGED row /\ Exit(t)
    BY <1>3 DEF Monitored
  <2> QED
    BY <1>2, <2>1, GoOnKeeps DEF Exit, Goto, Idle
<1>4. CASE row[t].status \notin Final /\ seen = "succeeded"
  <2>1. Computed(t)
    BY <1>1, <1>2, <1>4 DEF WorkerIsSound
  <2>2. Become(t, [Observed(t, seen) EXCEPT !.wrf = TRUE]) /\ Goto(t, "finalize")
    BY <1>4 DEF Monitored, Completed
  <2> QED
    BY <1>2, <2>1, <2>2, VerdictKeeps
<1>5. CASE row[t].status \notin Final /\ seen = "running"
  <2>1. UNCHANGED row /\ Goto(t, "monitor")
    BY <1>5 DEF Monitored, Completed
  <2> QED
    BY <1>2, <2>1, GoOnKeeps
<1>6. CASE row[t].status \notin Final /\ seen \notin {"succeeded", "running"}
  <2>1. Become(t, Observed(t, seen)) /\ Fail(t, "model")
    BY <1>6 DEF Monitored, Completed
  <2> QED
    BY <1>2, <2>1, VerdictKeeps
<1> QED
  BY <1>3, <1>4, <1>5, <1>6

-----------------------------------------------------------------------------
(* The launch, on both sides.                                              *)

\* A step of one task: the others are left as they are.
LEMMA OneTaskMoves ==
    ASSUME ManagerInv, NEW t \in Tasks, TypeOK', TaskInv(t)', \A u \in Tasks \ {t} : Kept(u)
    PROVE  ManagerInv'
<1>1. ASSUME NEW u \in Tasks \ {t} PROVE TaskInv(u)'
  BY UntouchedIsSound DEF ManagerInv
<1> QED
  BY <1>1 DEF ManagerInv

LEMMA UploadKeeps ==
    ASSUME ManagerInv, NEW t \in Tasks, Upload(t) PROVE ManagerInv'
<1> DEFINE k == LaunchToken(t)
<1>1. /\ TypeOK /\ TaskInv(t) /\ row[t] \in Row /\ row[t].token \in {0} \cup Tokens
      /\ drawn[t] \in 0..MaxTokens /\ row[t].attempt \in 0..MaxAttempts
  BY DEF ManagerInv, TypeOK, Row
<1>2. /\ thread[t].pc = "upload" /\ k <= MaxTokens
      /\ UNCHANGED <<cancelled, canceller, observer, cancelTimer, retryTimer>>
      /\ UNCHANGED <<remote, asked, inflight, stopping, reboots>>
      /\ control' = [control EXCEPT ![t] = IF @ = "absent" THEN "missing" ELSE @]
  BY DEF Upload, At, memory
<1>3. ~row[t].launched /\ row[t].status # "none"
  BY <1>1, <1>2 DEF TaskInv, WorkerIsSound, Preparing, NoRowIsIdle
<1>4. /\ control' \in [Tasks -> {"absent", "missing", "lost", "succeeded", "failed"}]
      /\ control'[t] = "succeeded" <=> control[t] = "succeeded"
      /\ \A u \in Tasks \ {t} : control'[u] = control[u]
  BY <1>1, <1>2 DEF TypeOK
<1>5. row[t].status # "succeeded" /\ control[t] # "succeeded"
  BY <1>1, <1>3 DEF TaskInv, RowIsSound, Computed
<1>6. CASE /\ t \notin cancelled
           /\ Become(t, [row[t] EXCEPT !.status = "running", !.launched = TRUE, !.token = k])
           /\ drawn' = [drawn EXCEPT ![t] = IF k > @ THEN k ELSE @]
           /\ Goto(t, "launch") /\ UNCHANGED glitches
  <2> DEFINE r == [row[t] EXCEPT !.status = "running", !.launched = TRUE, !.token = k]
  <2>1. /\ k \in Tokens /\ k <= row[t].attempt
        /\ k <= drawn[t] \/ k = drawn[t] + 1
    BY <1>1, <1>2, <1>3, BoundAssumption DEF TaskInv, RowIsSound, LaunchToken, Tokens
  <2>2. /\ r \in Row /\ r.launched /\ r.token = k /\ r.attempt = row[t].attempt
        /\ r.status = "running"
    BY <1>1, <2>1 DEF Row, Statuses
  <2> HIDE DEF r, k
  <2>3. row' = [row EXCEPT ![t] = r]
    BY <1>6 DEF Become, r
  <2>4. row'[t] = r /\ \A u \in Tasks \ {t} : row'[u] = row[u]
    BY <1>1, <2>3 DEF TypeOK
  <2>5. /\ thread'[t] = [pc |-> "launch", seen |-> "none"]
        /\ \A u \in Tasks \ {t} : thread'[u] = thread[u]
    BY <1>1, <1>6 DEF Goto, TypeOK
  <2>6. /\ drawn'[t] \in 0..MaxTokens /\ k <= drawn'[t] /\ drawn'[t] <= row[t].attempt
        /\ drawn' \in [Tasks -> 0..MaxTokens] /\ \A u \in Tasks \ {t} : drawn'[u] = drawn[u]
    BY <1>1, <1>2, <1>6, <2>1, BoundAssumption DEF TaskInv, RowIsSound, TypeOK, Tokens
  <2>7. TypeOK'
    <3>1. thread' \in [Tasks -> WorkerType]
      BY <1>1, <1>6 DEF TypeOK, WorkerType, Goto, Pcs
    <3>2. row' \in [Tasks -> Row]
      BY <1>1, <2>2, <2>3 DEF TypeOK
    <3> QED
      BY <1>1, <1>2, <1>4, <1>6, <2>6, <3>1, <3>2 DEF TypeOK, WorkerType
  <2>8. TaskInv(t)'
    <3>1. canceller[t].pc = "none"
      BY <1>1, <1>6 DEF TaskInv, CancelIsSound
    <3>2. RowIsSound(t)'
      BY <1>4, <1>5, <2>1, <2>2, <2>4, <2>6 DEF RowIsSound, Tokens
    <3>3. NoRowIsIdle(t)'
      BY <2>2, <2>4 DEF NoRowIsIdle
    <3>4. WorkerIsSound(t)'
      BY <2>2, <2>4, <2>5 DEF WorkerIsSound, Preparing
    <3>5. CancelIsSound(t)'
      BY <1>1, <1>2, <3>1 DEF TaskInv, CancelIsSound
    <3>6. OnRecord(t)'
      BY <1>1, <1>2, <1>3 DEF TaskInv, OnRecord, Alive
    <3> QED
      BY <3>2, <3>3, <3>4, <3>5, <3>6 DEF TaskInv
  <2> QED
    BY <1>2, <1>4, <2>4, <2>5, <2>6, <2>7, <2>8, OneTaskMoves DEF Kept
<1>7. CASE (CancelSeen(t) \/ External(t) \/ Error(t, "model")) /\ UNCHANGED drawn
  <2>1. PICK kind \in Errors : Fail(t, kind) /\ UNCHANGED row /\ (kind = "cancel" => t \in cancelled)
    BY <1>7 DEF CancelSeen, External, Error, Errors
  <2>2. glitches' \in 0..MaxGlitches
    BY <1>1, <1>7, BoundAssumption DEF CancelSeen, External, Glitch, Error, TypeOK
  <2>3. thread' \in [Tasks -> WorkerType]
    BY <1>1, <2>1 DEF TypeOK, WorkerType, Fail, Saw, Pcs
  <2>4. /\ thread'[t] = [pc |-> "failing", seen |-> kind]
        /\ \A u \in Tasks \ {t} : thread'[u] = thread[u]
    BY <1>1, <2>1 DEF Fail, Saw, TypeOK
  <2>5. TypeOK'
    BY <1>1, <1>2, <1>4, <1>7, <2>1, <2>2, <2>3 DEF TypeOK, WorkerType
  <2>6. TaskInv(t)'
    <3>1. RowIsSound(t)'
      BY <1>1, <1>2, <1>4, <1>5, <1>7, <2>1 DEF TaskInv, RowIsSound
    <3>2. NoRowIsIdle(t)'
      BY <1>3, <2>1 DEF NoRowIsIdle
    <3>3. WorkerIsSound(t)'
      BY <1>2, <2>1, <2>4 DEF WorkerIsSound, Preparing
    <3>4. CancelIsSound(t)' /\ OnRecord(t)'
      BY <1>1, <1>2, <2>1 DEF TaskInv, CancelIsSound, OnRecord, Alive
    <3> QED
      BY <3>1, <3>2, <3>3, <3>4 DEF TaskInv
  <2> QED
    BY <1>2, <1>4, <1>7, <2>1, <2>4, <2>5, <2>6, OneTaskMoves DEF Kept
<1> QED
  BY <1>6, <1>7 DEF Upload

LEMMA SendLaunchKeeps ==
    ASSUME ManagerInv, NEW t \in Tasks, SendLaunch(t) PROVE ManagerInv'
<1>1. TypeOK /\ TaskInv(t)
  BY DEF ManagerInv
<1>2. /\ thread[t].pc = "launch"
      /\ UNCHANGED <<cancelled, canceller, observer, cancelTimer, retryTimer>>
      /\ UNCHANGED <<remote, asked, control, drawn, stopping, reboots>>
  BY DEF SendLaunch, At, memory
<1>3. row[t].launched /\ row[t].token \in Tokens
  BY <1>1, <1>2, LaunchedHasToken DEF TaskInv, WorkerIsSound
<1>4. CASE /\ inflight' = inflight \cup {<<t, row[t].token>>}
           /\ Goto(t, "launching") /\ UNCHANGED <<row, glitches>>
  <2>1. thread' \in [Tasks -> WorkerType]
    BY <1>1, <1>4 DEF TypeOK, WorkerType, Goto, Pcs
  <2>2. /\ thread'[t] = [pc |-> "launching", seen |-> "none"]
        /\ \A u \in Tasks \ {t} : thread'[u] = thread[u]
    BY <1>1, <1>4 DEF Goto, TypeOK
  <2>3. TypeOK'
    BY <1>1, <1>2, <1>3, <1>4, <2>1 DEF TypeOK, WorkerType
  <2>4. TaskInv(t)'
    <3>1. RowIsSound(t)' /\ CancelIsSound(t)'
      BY <1>1, <1>2, <1>4 DEF TaskInv, RowIsSound, CancelIsSound, Computed
    <3>2. NoRowIsIdle(t)'
      BY <1>1, <1>2, <1>4 DEF TaskInv, NoRowIsIdle
    <3>3. WorkerIsSound(t)'
      BY <1>3, <1>4, <2>2 DEF WorkerIsSound, Preparing
    <3>4. OnRecord(t)'
      BY <1>1, <1>2, <1>3, <1>4 DEF TaskInv, OnRecord, Alive
    <3> QED
      BY <3>1, <3>2, <3>3, <3>4 DEF TaskInv
  <2>5. \A u \in Tasks \ {t} : Kept(u)
    BY <1>2, <1>4, <2>2 DEF Kept
  <2> QED
    BY <2>3, <2>4, <2>5, OneTaskMoves
<1>5. CASE (External(t) \/ Error(t, "model")) /\ UNCHANGED inflight
  BY <1>2, <1>5, StageFails DEF WorkerOnly, memory, host
<1> QED
  BY <1>4, <1>5 DEF SendLaunch

LaunchStates == {"absent", "claimed", "running", "lost", "stopped", "revoked"} \cup Terminal

\* A launch of a row that was not over may come to life, live on or end: only
\* what was said about a dead one has to stay true.
LEMMA LaunchMoves ==
    ASSUME ManagerInv, NEW t \in Tasks, NEW k \in Tokens, NEW state \in LaunchStates,
           remote' = [remote EXCEPT ![t][k] = state],
           remote[t][k] \notin Over,
           UNCHANGED <<row, cancelled, canceller, observer, drawn>>, TypeOK',
           \A u \in Tasks : thread'[u] = thread[u] \/ (u = t /\ WorkerIsSound(t)'),
           \A u \in Tasks : control'[u] = control[u]
                             \/ (u = t /\ (control'[t] = "succeeded" => Computed(t)')),
           \A u \in Tasks \ {t}, j \in Tokens : <<u, j>> \in inflight' <=> <<u, j>> \in inflight,
           \A j \in Tokens : <<t, j>> \in inflight' => <<t, j>> \in inflight,
           row[t].status = "none" => thread'[t].pc = "none",
           state = "revoked" \/ Alive(t, k)
    PROVE  ManagerInv'
<1>1. TypeOK /\ TaskInv(t) /\ row[t] \in Row
  BY DEF ManagerInv, TypeOK
<1>2. /\ remote'[t][k] = state
      /\ \A j \in Tokens \ {k} : remote'[t][j] = remote[t][j]
      /\ \A u \in Tasks \ {t} : remote'[u] = remote[u]
  BY <1>1 DEF TypeOK
<1>3. \A j \in Tokens : remote[t][j] \in Over => remote'[t][j] = remote[t][j]
  BY <1>2
<1>4. Computed(t) => Computed(t)'
  BY <1>1, <1>3 DEF Computed, Over, Terminal, TypeOK, Row
<1>4a. state # "revoked" => row[t].launched /\ row[t].token = k
  BY <1>1 DEF TaskInv, OnRecord
<1>5. /\ canceller[t].bind[2] \in {0} \cup Tokens /\ observer[t].bind[2] \in {0} \cup Tokens
      /\ row[t].token \in {0} \cup Tokens
  BY <1>1 DEF TypeOK, Row, Binding
<1>6. RowIsSound(t)'
  <2>1. control'[t] = "succeeded" => Computed(t)'
    BY <1>1, <1>4 DEF TaskInv, RowIsSound
  <2>2. row[t].status = "cancelled" /\ row[t].launched => remote'[t][row[t].token] \in Over
    BY <1>1, <1>3, <1>5 DEF TaskInv, RowIsSound
  <2>3. ~row[t].launched /\ row[t].token # 0 => remote'[t][row[t].token] \in {"absent", "revoked"}
    BY <1>1, <1>2, <1>5, <1>4a DEF TaskInv, RowIsSound
  <2>4. row[t].status = "succeeded" => Computed(t)'
    BY <1>1, <1>4 DEF TaskInv, RowIsSound
  <2> QED
    BY <1>1, <2>1, <2>2, <2>3, <2>4 DEF TaskInv, RowIsSound
<1>7. NoRowIsIdle(t)'
  BY <1>1 DEF TaskInv, NoRowIsIdle
<1>8. WorkerIsSound(t)'
  <2>1. CASE thread'[t] = thread[t]
    <3>1. thread[t].pc = "launched" /\ thread[t].seen = "denied" =>
            remote'[t][row[t].token] \in {"absent", "revoked"} /\ <<t, row[t].token>> \notin inflight'
      <4>1. SUFFICES ASSUME thread[t].pc = "launched", thread[t].seen = "denied"
                     PROVE  remote'[t][row[t].token] \in {"absent", "revoked"}
                            /\ <<t, row[t].token>> \notin inflight'
        OBVIOUS
      <4>2. /\ row[t].launched /\ row[t].token \in Tokens
            /\ remote[t][row[t].token] \in {"absent", "revoked"} /\ <<t, row[t].token>> \notin inflight
        BY <1>1, <4>1, LaunchedHasToken DEF TaskInv, WorkerIsSound
      <4>3. state = "revoked"
        BY <1>4a, <4>2 DEF Alive
      <4>4. <<t, row[t].token>> \notin inflight'
        BY <4>2
      <4> QED
        BY <1>2, <4>2, <4>3, <4>4
    <3> QED
      BY <1>1, <1>4, <2>1, <3>1 DEF TaskInv, WorkerIsSound
  <2> QED
    BY <2>1
<1>9. CancelIsSound(t)'
  BY <1>1, <1>3, <1>5 DEF TaskInv, CancelIsSound
<1>10. OnRecord(t)'
  BY <1>1, <1>2, <1>4a DEF TaskInv, OnRecord, Alive
<1>11. \A u \in Tasks \ {t} : Kept(u)
  BY <1>2 DEF Kept
<1> QED
  BY <1>6, <1>7, <1>8, <1>9, <1>10, <1>11, OneTaskMoves DEF TaskInv

LEMMA RemoteHandlesLaunchKeeps ==
    ASSUME ManagerInv, NEW t \in Tasks, NEW k \in Tokens, RemoteHandlesLaunch(t, k)
    PROVE  ManagerInv'
<1>1. TypeOK /\ TaskInv(t)
  BY DEF ManagerInv
<1>2. /\ <<t, k>> \in inflight /\ inflight' = inflight \ {<<t, k>>}
      /\ UNCHANGED <<row, cancelled, canceller, observer, cancelTimer, retryTimer>>
      /\ UNCHANGED <<asked, drawn, stopping, reboots, glitches>>
  BY DEF RemoteHandlesLaunch, memory
<1>3. PICK reply \in {"started", "denied", "refused"} :
        /\ reply # "started" => remote[t][k] = "absent"
        /\ IF reply = "started" /\ remote[t][k] = "absent"
           THEN /\ \E begun \in IF SlowStart THEN {"claimed", "running"} ELSE {"running"} :
                     remote' = [remote EXCEPT ![t][k] = begun]
                /\ control' = [control EXCEPT ![t] = IF @ \in Terminal THEN @ ELSE "lost"]
           ELSE UNCHANGED <<remote, control>>
        /\ thread' = IF thread[t].pc = "launching" /\ row[t].token = k
                     THEN [thread EXCEPT ![t] = [pc |-> "launched", seen |-> reply]] ELSE thread
  BY DEF RemoteHandlesLaunch
<1>4. /\ thread' \in [Tasks -> WorkerType] /\ \A u \in Tasks \ {t} : thread'[u] = thread[u]
      /\ \/ thread'[t] = thread[t]
         \/ /\ thread[t].pc = "launching" /\ row[t].token = k
            /\ thread'[t] = [pc |-> "launched", seen |-> reply]
  BY <1>1, <1>3 DEF TypeOK, WorkerType, Pcs
<1>5. /\ control' \in [Tasks -> {"absent", "missing", "lost", "succeeded", "failed"}]
      /\ \A u \in Tasks \ {t} : control'[u] = control[u]
      /\ control'[t] = "succeeded" => control[t] = "succeeded"
  BY <1>1, <1>3 DEF TypeOK, Terminal
<1>6. remote' \in [Tasks -> [Tokens -> LaunchStates]]
  <2>1. UNCHANGED remote \/ \E begun \in {"claimed", "running"} : remote' = [remote EXCEPT ![t][k] = begun]
    BY <1>3
  <2>2. remote \in [Tasks -> [Tokens -> LaunchStates]] /\ {"claimed", "running"} \subseteq LaunchStates
    BY <1>1 DEF TypeOK, LaunchStates
  <2> QED
    BY <2>1, <2>2
<1>7. inflight' \subseteq Tasks \X Tokens
  BY <1>1, <1>2 DEF TypeOK
<1>8. TypeOK'
  BY <1>1, <1>2, <1>4, <1>5, <1>6, <1>7 DEF TypeOK, WorkerType, LaunchStates
<1>9. /\ row[t].status = "none" => thread'[t].pc = "none"
      /\ thread'[t].pc \in {"launched"} => row[t].launched
  BY <1>1, <1>4 DEF TaskInv, NoRowIsIdle, WorkerIsSound
<1>10. CASE reply = "started" /\ remote[t][k] = "absent"
  <2>1. PICK begun \in {"claimed", "running"} : remote' = [remote EXCEPT ![t][k] = begun]
    BY <1>3, <1>10
  <2>2. Alive(t, k) /\ remote[t][k] \notin Over
    BY <1>2, <1>10 DEF Alive, Over, Terminal
  <2>3. thread'[t] # thread[t] => WorkerIsSound(t)'
    BY <1>2, <1>4, <1>9, <1>10 DEF WorkerIsSound, Preparing
  <2>4. control'[t] = "succeeded" => Computed(t)'
    <3>1. control'[t] = "succeeded" => row[t].token # 0 /\ remote[t][row[t].token] = "succeeded"
      BY <1>1, <1>5 DEF TaskInv, RowIsSound, Computed
    <3>2. remote'[t][k] = begun /\ \A j \in Tokens \ {k} : remote'[t][j] = remote[t][j]
      BY <1>1, <2>1 DEF TypeOK
    <3>3. row[t].token \in {0} \cup Tokens
      BY <1>1 DEF TypeOK, Row
    <3> QED
      BY <1>2, <1>10, <3>1, <3>2, <3>3 DEF Computed
  <2>5. /\ \A u \in Tasks \ {t}, j \in Tokens : <<u, j>> \in inflight' <=> <<u, j>> \in inflight
        /\ \A j \in Tokens : <<t, j>> \in inflight' => <<t, j>> \in inflight
    BY <1>2
  <2>6. begun \in LaunchStates
    BY DEF LaunchStates
  <2> QED
    BY <1>2, <1>4, <1>5, <1>8, <1>9, <2>1, <2>2, <2>3, <2>4, <2>5, <2>6, LaunchMoves
<1>11. CASE ~(reply = "started" /\ remote[t][k] = "absent")
  <2>1. UNCHANGED <<remote, control>>
    BY <1>3, <1>11
  <2>2. RowIsSound(t)' /\ NoRowIsIdle(t)' /\ CancelIsSound(t)'
    BY <1>1, <1>2, <1>9, <2>1 DEF TaskInv, RowIsSound, NoRowIsIdle, CancelIsSound, Computed
  <2>3. WorkerIsSound(t)'
    <3>1. CASE thread'[t] = thread[t]
      BY <1>1, <1>2, <2>1, <3>1 DEF TaskInv, WorkerIsSound, Computed
    <3>2. CASE /\ thread[t].pc = "launching" /\ row[t].token = k
               /\ thread'[t] = [pc |-> "launched", seen |-> reply]
      BY <1>2, <1>3, <1>9, <2>1, <3>2 DEF WorkerIsSound, Preparing
    <3> QED
      BY <1>4, <3>1, <3>2
  <2>4. OnRecord(t)'
    BY <1>1, <1>2, <2>1 DEF TaskInv, OnRecord, Alive
  <2>5. \A u \in Tasks \ {t} : Kept(u)
    BY <1>2, <1>4, <2>1 DEF Kept
  <2> QED
    BY <1>8, <2>2, <2>3, <2>4, <2>5, OneTaskMoves DEF TaskInv
<1> QED
  BY <1>10, <1>11

LEMMA RemoteRegistersKeeps ==
    ASSUME ManagerInv, NEW t \in Tasks, NEW k \in Tokens, RemoteRegisters(t, k)
    PROVE  ManagerInv'
<1>1. TypeOK /\ TaskInv(t)
  BY DEF ManagerInv
<1>2. /\ remote[t][k] = "claimed" /\ asked' = asked \ {<<t, k>>}
      /\ UNCHANGED <<row, thread, cancelled, canceller, observer, cancelTimer, retryTimer>>
      /\ UNCHANGED <<inflight, control, drawn, stopping, reboots, glitches>>
  BY DEF RemoteRegisters, memory
<1>3. PICK state \in {"revoked", "running"} : remote' = [remote EXCEPT ![t][k] = state]
  BY DEF RemoteRegisters
<1>4. remote' \in [Tasks -> [Tokens -> LaunchStates]] /\ asked' \subseteq Tasks \X Tokens
  BY <1>1, <1>2, <1>3 DEF TypeOK, LaunchStates
<1>5. TypeOK'
  BY <1>1, <1>2, <1>4 DEF TypeOK, LaunchStates
<1>6. Alive(t, k) /\ remote[t][k] \notin Over /\ state \in LaunchStates
  BY <1>2 DEF Alive, Over, Terminal, LaunchStates
<1>7. row[t].status = "none" => thread'[t].pc = "none"
  BY <1>1, <1>2 DEF TaskInv, NoRowIsIdle
<1> QED
  BY <1>2, <1>3, <1>5, <1>6, <1>7, LaunchMoves

LEMMA RemoteEndsKeeps ==
    ASSUME ManagerInv, NEW t \in Tasks, NEW k \in Tokens, RemoteEnds(t, k)
    PROVE  ManagerInv'
<1>1. TypeOK /\ TaskInv(t)
  BY DEF ManagerInv
<1>2. /\ remote[t][k] = "running" /\ asked' = asked \ {<<t, k>>}
      /\ UNCHANGED <<row, thread, cancelled, canceller, observer, cancelTimer, retryTimer>>
      /\ UNCHANGED <<inflight, drawn, stopping, reboots>>
  BY DEF RemoteEnds, memory
<1>3. PICK outcome \in {"succeeded", "failed", "cancelled", "stopped", "lost"} :
        /\ outcome = "lost" => glitches < MaxGlitches
        /\ glitches' = IF outcome = "lost" THEN glitches + 1 ELSE glitches
        /\ remote' = [remote EXCEPT ![t][k] = outcome]
        /\ control' = [control EXCEPT ![t] = CASE outcome = "stopped" -> "failed"
                                               [] outcome \in {"succeeded", "failed"} -> outcome
                                               [] OTHER -> @]
  BY DEF RemoteEnds
<1>4. remote' \in [Tasks -> [Tokens -> LaunchStates]] /\ asked' \subseteq Tasks \X Tokens
  BY <1>1, <1>2, <1>3 DEF TypeOK, LaunchStates, Terminal
<1>5. /\ control' \in [Tasks -> {"absent", "missing", "lost", "succeeded", "failed"}]
      /\ \A u \in Tasks \ {t} : control'[u] = control[u]
      /\ control'[t] = "succeeded" => control[t] = "succeeded" \/ outcome = "succeeded"
  BY <1>1, <1>3 DEF TypeOK
<1>6. glitches' \in 0..MaxGlitches
  BY <1>1, <1>3, BoundAssumption DEF TypeOK
<1>7. TypeOK'
  BY <1>1, <1>2, <1>4, <1>5, <1>6 DEF TypeOK, LaunchStates
<1>8. Alive(t, k) /\ remote[t][k] \notin Over /\ outcome \in LaunchStates
  BY <1>2 DEF Alive, Over, Terminal, LaunchStates
<1>9. row[t].status = "none" => thread'[t].pc = "none"
  BY <1>1, <1>2 DEF TaskInv, NoRowIsIdle
<1>10. row[t].token = k
  BY <1>1, <1>8 DEF TaskInv, OnRecord
<1>11. control'[t] = "succeeded" => Computed(t)'
  <2>1. control[t] # "succeeded"
    BY <1>1, <1>2, <1>10 DEF TaskInv, RowIsSound, Computed
  <2>2. remote'[t][k] = outcome
    BY <1>1, <1>3 DEF TypeOK
  <2>3. k # 0
    BY DEF Tokens
  <2> QED
    BY <1>2, <1>5, <1>10, <2>1, <2>2, <2>3 DEF Computed
<1> QED
  BY <1>2, <1>3, <1>5, <1>7, <1>8, <1>9, <1>11, LaunchMoves

-----------------------------------------------------------------------------
(* Failures and cancellation.                                              *)

\* A row is settled, or a cancellation gets on: the host is left alone.
LEMMA RowSettles ==
    ASSUME ManagerInv, NEW t \in Tasks, NEW r \in Row, TypeOK',
           row' = [row EXCEPT ![t] = r],
           UNCHANGED <<remote, inflight, control, drawn>>,
           \A u \in Tasks \ {t} : /\ thread'[u] = thread[u] /\ canceller'[u] = canceller[u]
                                   /\ observer'[u] = observer[u] /\ (u \in cancelled' <=> u \in cancelled),
           r.launched = row[t].launched, r.denied = row[t].denied \/ r.launched,
           r.token = row[t].token, r.attempt = row[t].attempt,
           row[t].status # "none", r.status # "none",
           r.status = "queued" => r.retry \/ ~r.launched,
           r.status = "cancel_pending" => r.launched,
           r.status = "cancelled" /\ r.launched => remote[t][r.token] \in Over,
           r.status = "succeeded" => Computed(t),
           WorkerIsSound(t)', CancelIsSound(t)'
    PROVE  ManagerInv'
<1>1. TypeOK /\ TaskInv(t)
  BY DEF ManagerInv
<1>2. row'[t] = r /\ \A u \in Tasks \ {t} : row'[u] = row[u]
  BY <1>1 DEF TypeOK
<1>3. RowIsSound(t)'
  BY <1>1, <1>2 DEF TaskInv, RowIsSound, Computed
<1>4. NoRowIsIdle(t)'
  BY <1>2 DEF NoRowIsIdle
<1>5. OnRecord(t)'
  BY <1>1, <1>2 DEF TaskInv, OnRecord, Alive
<1>6. \A u \in Tasks \ {t} : Kept(u)
  BY <1>2 DEF Kept
<1> QED
  BY <1>3, <1>4, <1>5, <1>6, OneTaskMoves DEF TaskInv

CallType == [pc : {"none", "ask", "poll"}, seen : {"none"} \cup Replies, bind : Binding]

LEMMA StartRemoteCancelFacts ==
    ASSUME TypeOK, NEW t \in Tasks, TaskInv(t), row[t].launched, StartRemoteCancel(t)
    PROVE  /\ canceller' \in [Tasks -> CallType] /\ cancelTimer' \subseteq Tasks
           /\ \A u \in Tasks \ {t} : canceller'[u] = canceller[u]
           /\ canceller'[t].bind = <<row[t].attempt, row[t].token>> /\ row[t].token # 0
           /\ canceller'[t].pc = "poll" => canceller'[t] = canceller[t]
<1>1. row[t].token \in Tokens /\ row[t].attempt \in 0..MaxAttempts
  BY LaunchedHasToken DEF TaskInv, TypeOK, Row
<1>2. CASE canceller[t].pc # "none"
  BY <1>1, <1>2 DEF StartRemoteCancel, TypeOK, CallType, TaskInv, CancelIsSound, RowIsSound
<1>3. CASE canceller[t].pc = "none"
  <2> DEFINE c == [pc |-> "ask", seen |-> "none", bind |-> <<row[t].attempt, row[t].token>>]
  <2>1. canceller' = [canceller EXCEPT ![t] = c] /\ cancelTimer' = cancelTimer \ {t}
    BY <1>3 DEF StartRemoteCancel
  <2>2. c \in CallType /\ c.bind = <<row[t].attempt, row[t].token>> /\ c.pc = "ask"
    BY <1>1 DEF CallType, Binding
  <2>3. row[t].token # 0
    BY <1>1 DEF Tokens
  <2>4. canceller \in [Tasks -> CallType] /\ cancelTimer \subseteq Tasks
    BY DEF TypeOK, CallType
  <2> HIDE DEF c
  <2> QED
    BY <2>1, <2>2, <2>3, <2>4
<1> QED
  BY <1>2, <1>3

\* The cancel thread of a cancelled task, whether it was there or is new.
LEMMA CancelStarted ==
    ASSUME ManagerInv, NEW t \in Tasks, row[t].launched, StartRemoteCancel(t),
           t \in cancelled', UNCHANGED <<observer, remote>>,
           row'[t].attempt = row[t].attempt, row'[t].token = row[t].token
    PROVE  CancelIsSound(t)'
<1>1. TypeOK /\ TaskInv(t)
  BY DEF ManagerInv
<1>2. /\ canceller'[t].bind = <<row[t].attempt, row[t].token>> /\ row[t].token # 0
      /\ canceller'[t].pc = "poll" => canceller'[t] = canceller[t]
  BY <1>1, StartRemoteCancelFacts
<1> QED
  BY <1>1, <1>2 DEF TaskInv, CancelIsSound

LEMMA FailingKeeps ==
    ASSUME ManagerInv, NEW t \in Tasks, Failing(t) PROVE ManagerInv'
<1>1. TypeOK /\ TaskInv(t) /\ row[t] \in Row /\ thread[t] \in WorkerType
  BY DEF ManagerInv, TypeOK, WorkerType
<1>2. /\ thread[t].pc = "failing"
      /\ UNCHANGED <<cancelled, observer, retryTimer, remote, asked, inflight, control>>
      /\ UNCHANGED <<drawn, stopping, reboots, glitches>>
  BY DEF Failing, At, host
<1>3. row[t].status # "none" /\ (thread[t].seen = "cancel" => t \in cancelled)
  BY <1>1, <1>2 DEF TaskInv, NoRowIsIdle, WorkerIsSound
<1>4. CASE thread[t].seen # "cancel" /\ t \notin cancelled
  <2>1. Saw(t, "settling", thread[t].seen) /\ UNCHANGED <<row, canceller, cancelTimer>>
    BY <1>4 DEF Failing
  <2>2. [pc |-> "settling", seen |-> thread[t].seen] \in WorkerType
    BY <1>1 DEF WorkerType, Pcs
  <2> QED
    BY <1>1, <1>2, <2>1, <2>2, WorkerGoesOn DEF Saw, WorkerOnly, memory, host, TypeOK, Preparing
<1>5. CASE ~(thread[t].seen # "cancel" /\ t \notin cancelled) /\ row[t].status \in Final
  <2>1. Exit(t) /\ UNCHANGED <<row, canceller, cancelTimer>>
    BY <1>5 DEF Failing
  <2>2. Idle \in WorkerType
    BY DEF WorkerType, Pcs, Idle
  <2> QED
    BY <1>1, <1>2, <2>1, <2>2, WorkerGoesOn DEF Exit, WorkerOnly, memory, host, TypeOK, Preparing, Idle
<1>6. CASE ~(thread[t].seen # "cancel" /\ t \notin cancelled) /\ row[t].status \notin Final
  <2>1. t \in cancelled /\ Exit(t)
    BY <1>3, <1>6 DEF Failing
  <2>2. /\ thread' \in [Tasks -> WorkerType] /\ thread'[t] = Idle
        /\ \A u \in Tasks \ {t} : thread'[u] = thread[u]
    BY <1>1, <2>1 DEF Exit, Idle, TypeOK, WorkerType, Pcs
  <2>3. WorkerIsSound(t)'
    BY <2>2 DEF WorkerIsSound, Idle, Preparing
  <2>4. CASE row[t].launched
    <3> DEFINE r == [row[t] EXCEPT !.status = "cancel_pending"]
    <3>1. Become(t, r) /\ StartRemoteCancel(t)
      BY <1>6, <2>4 DEF Failing, Show
    <3>2. /\ r \in Row /\ r.launched = row[t].launched /\ r.denied = row[t].denied
          /\ r.token = row[t].token /\ r.attempt = row[t].attempt /\ r.status = "cancel_pending"
      BY <1>1 DEF Row, Statuses
    <3> HIDE DEF r
    <3>3. row' = [row EXCEPT ![t] = r] /\ row' \in [Tasks -> Row] /\ row'[t] = r
      BY <1>1, <3>1, <3>2 DEF Become, TypeOK
    <3>4. /\ canceller' \in [Tasks -> CallType] /\ cancelTimer' \subseteq Tasks
          /\ \A u \in Tasks \ {t} : canceller'[u] = canceller[u]
      BY <1>1, <2>4, <3>1, StartRemoteCancelFacts
    <3>5. TypeOK'
      BY <1>1, <1>2, <2>2, <3>3, <3>4 DEF TypeOK, WorkerType, CallType
    <3>6. CancelIsSound(t)'
      BY <1>2, <2>1, <2>4, <3>1, <3>2, <3>3, CancelStarted
    <3> QED
      BY <1>2, <1>3, <2>2, <2>3, <2>4, <3>2, <3>3, <3>4, <3>5, <3>6, RowSettles
  <2>5. CASE ~row[t].launched
    <3> DEFINE r == [row[t] EXCEPT !.status = "cancelled"]
    <3>1. Become(t, r) /\ UNCHANGED <<canceller, cancelTimer>>
      BY <1>6, <2>5 DEF Failing, Show
    <3>2. /\ r \in Row /\ r.launched = row[t].launched /\ r.denied = row[t].denied
          /\ r.token = row[t].token /\ r.attempt = row[t].attempt /\ r.status = "cancelled"
      BY <1>1 DEF Row, Statuses, Final
    <3> HIDE DEF r
    <3>3. row' = [row EXCEPT ![t] = r] /\ row' \in [Tasks -> Row] /\ row'[t] = r
      BY <1>1, <3>1, <3>2 DEF Become, TypeOK
    <3>4. TypeOK'
      BY <1>1, <1>2, <2>2, <3>1, <3>3 DEF TypeOK, WorkerType
    <3>5. CancelIsSound(t)'
      BY <1>1, <1>2, <3>1, <3>2, <3>3 DEF TaskInv, CancelIsSound
    <3> QED
      BY <1>2, <1>3, <2>2, <2>3, <2>5, <3>1, <3>2, <3>3, <3>4, <3>5, RowSettles
  <2> QED
    BY <2>4, <2>5
<1> QED
  BY <1>4, <1>5, <1>6

LEMMA SettlingKeeps ==
    ASSUME ManagerInv, NEW t \in Tasks, Settling(t) PROVE ManagerInv'
<1>1. TypeOK /\ TaskInv(t) /\ row[t] \in Row
  BY DEF ManagerInv, TypeOK
<1>2. /\ thread[t].pc = "settling" /\ Exit(t)
      /\ UNCHANGED <<cancelled, canceller, observer, cancelTimer, remote, asked, inflight, control>>
      /\ UNCHANGED <<drawn, stopping, reboots, glitches>>
  BY DEF Settling, At, host
<1>3. PICK s \in {"reconciling", "paused_external", "failed", "waiting_restart"},
           f \in {"forcing", "data", "other"} :
        /\ Become(t, [row[t] EXCEPT !.status = s, !.failure = f])
        /\ retryTimer' \in {retryTimer, retryTimer \cup {t}}
  <2> DEFINE e == thread[t].seen
             f == IF e \in {"forcing", "data"} THEN e ELSE "other"
             settled(s) == Become(t, [row[t] EXCEPT !.status = s, !.failure = f])
  <2>1. \/ settled("reconciling") /\ retryTimer' = retryTimer \cup {t}
        \/ settled("paused_external") /\ UNCHANGED retryTimer
        \/ settled("failed") /\ UNCHANGED retryTimer
        \/ settled("waiting_restart") /\ UNCHANGED retryTimer
    BY DEF Settling
  <2>2. f \in {"forcing", "data", "other"}
    OBVIOUS
  <2> HIDE DEF f
  <2> QED
    BY <2>1, <2>2
<1> DEFINE r == [row[t] EXCEPT !.status = s, !.failure = f]
<1>4. /\ r \in Row /\ r.launched = row[t].launched /\ r.denied = row[t].denied
      /\ r.token = row[t].token /\ r.attempt = row[t].attempt
      /\ r.status \in {"reconciling", "paused_external", "failed", "waiting_restart"}
  BY <1>1 DEF Row, Statuses, Final
<1> HIDE DEF r
<1>5. row' = [row EXCEPT ![t] = r] /\ row' \in [Tasks -> Row] /\ row'[t] = r
  BY <1>1, <1>3, <1>4 DEF Become, TypeOK, r
<1>6. /\ thread' \in [Tasks -> WorkerType] /\ thread'[t] = Idle
      /\ \A u \in Tasks \ {t} : thread'[u] = thread[u]
  BY <1>1, <1>2 DEF Exit, Idle, TypeOK, WorkerType, Pcs
<1>7. TypeOK'
  BY <1>1, <1>2, <1>3, <1>5, <1>6 DEF TypeOK, WorkerType
<1>8. WorkerIsSound(t)' /\ CancelIsSound(t)' /\ row[t].status # "none"
  BY <1>1, <1>2, <1>4, <1>5, <1>6 DEF TaskInv, WorkerIsSound, CancelIsSound, NoRowIsIdle, Idle, Preparing
<1> QED
  BY <1>2, <1>4, <1>5, <1>6, <1>7, <1>8, RowSettles

\* A row that only shows another status.
LEMMA ShownRow ==
    ASSUME TypeOK, NEW t \in Tasks, NEW s \in Statuses
    PROVE  LET r == [row[t] EXCEPT !.status = s] IN
           /\ r \in Row /\ r.launched = row[t].launched /\ r.denied = row[t].denied
           /\ r.token = row[t].token /\ r.attempt = row[t].attempt /\ r.status = s
           /\ Show(t, s) => row' = [row EXCEPT ![t] = r] /\ row' \in [Tasks -> Row] /\ row'[t] = r
<1>1. row[t] \in Row /\ row \in [Tasks -> Row]
  BY DEF TypeOK
<1> DEFINE r == [row[t] EXCEPT !.status = s]
<1>2. /\ r \in Row /\ r.launched = row[t].launched /\ r.denied = row[t].denied
      /\ r.token = row[t].token /\ r.attempt = row[t].attempt /\ r.status = s
  BY <1>1 DEF Row
<1>3. Show(t, s) => row' = [row EXCEPT ![t] = r]
  BY DEF Show, Become
<1> HIDE DEF r
<1>4. Show(t, s) => row' \in [Tasks -> Row] /\ row'[t] = r
  BY <1>1, <1>2, <1>3
<1> QED
  BY <1>2, <1>3, <1>4 DEF r

LEMMA CancelKeeps ==
    ASSUME ManagerInv, NEW t \in Tasks, Cancel(t) PROVE ManagerInv'
<1>1. TypeOK /\ TaskInv(t)
  BY DEF ManagerInv
<1>2. /\ row[t].status # "none" /\ cancelled' = cancelled \cup {t}
      /\ UNCHANGED <<thread, observer, retryTimer, remote, asked, inflight, control>>
      /\ UNCHANGED <<drawn, stopping, reboots, glitches>>
  BY DEF Cancel, host
<1> DEFINE s == IF row[t].launched THEN "cancel_pending" ELSE "cancelled"
           r == [row[t] EXCEPT !.status = s]
<1>3. Show(t, s)
  BY DEF Cancel
<1>4. s \in Statuses
  BY DEF Statuses, Final
<1>5. /\ r \in Row /\ r.launched = row[t].launched /\ r.denied = row[t].denied
      /\ r.token = row[t].token /\ r.attempt = row[t].attempt /\ r.status = s
      /\ row' = [row EXCEPT ![t] = r] /\ row' \in [Tasks -> Row] /\ row'[t] = r
  BY <1>1, <1>3, <1>4, ShownRow
<1> HIDE DEF r
<1>6. /\ canceller' \in [Tasks -> CallType] /\ cancelTimer' \subseteq Tasks
      /\ \A u \in Tasks \ {t} : canceller'[u] = canceller[u]
      /\ CancelIsSound(t)'
  <2>1. CASE row[t].launched
    <3>1. StartRemoteCancel(t)
      BY <2>1 DEF Cancel
    <3> QED
      BY <1>1, <1>2, <1>5, <2>1, <3>1, StartRemoteCancelFacts, CancelStarted
  <2>2. CASE ~row[t].launched
    <3>1. UNCHANGED <<canceller, cancelTimer>>
      BY <2>2 DEF Cancel
    <3> QED
      BY <1>1, <1>2, <1>5, <3>1 DEF TypeOK, CallType, TaskInv, CancelIsSound
  <2> QED
    BY <2>1, <2>2
<1>7. TypeOK'
  BY <1>1, <1>2, <1>5, <1>6 DEF TypeOK, CallType
<1>8. WorkerIsSound(t)'
  BY <1>1, <1>2, <1>5 DEF TaskInv, WorkerIsSound, Computed, NoRowIsIdle
<1> QED
  BY <1>2, <1>5, <1>6, <1>7, <1>8, RowSettles

\* The cancel thread and the observer, between the host and the row.
LEMMA CallsKeep ==
    ASSUME ManagerInv, NEW t \in Tasks, TypeOK',
           UNCHANGED <<row, thread, cancelled, remote, inflight, control, drawn>>,
           \A u \in Tasks \ {t} : canceller'[u] = canceller[u] /\ observer'[u] = observer[u],
           row[t].status = "none" => canceller'[t].pc = "none",
           CancelIsSound(t)'
    PROVE  ManagerInv'
<1>1. TaskInv(t)
  BY DEF ManagerInv
<1>2. RowIsSound(t)' /\ NoRowIsIdle(t)' /\ WorkerIsSound(t)' /\ OnRecord(t)'
  BY <1>1 DEF TaskInv, RowIsSound, NoRowIsIdle, WorkerIsSound, OnRecord, Alive, Computed
<1>3. \A u \in Tasks \ {t} : Kept(u)
  BY DEF Kept
<1> QED
  BY <1>2, <1>3, OneTaskMoves DEF TaskInv

LEMMA CancellerAsksKeeps ==
    ASSUME ManagerInv, NEW t \in Tasks, CancellerAsks(t) PROVE ManagerInv'
<1> DEFINE k == canceller[t].bind[2]
           heard(reply) == canceller' = [canceller EXCEPT ![t].pc = "poll", ![t].seen = reply]
<1>1. TypeOK /\ TaskInv(t)
  BY DEF ManagerInv
<1>2. /\ canceller[t].pc = "ask"
      /\ UNCHANGED <<row, thread, cancelled, observer, cancelTimer, retryTimer, inflight, control>>
      /\ UNCHANGED <<drawn, stopping, reboots>>
  BY DEF CancellerAsks
<1>3. /\ k \in Tokens /\ t \in cancelled /\ row[t].token = k /\ row[t].status # "none"
      /\ canceller[t].bind = <<row[t].attempt, row[t].token>>
  <2>1. /\ t \in cancelled /\ canceller[t].bind = <<row[t].attempt, row[t].token>> /\ row[t].token # 0
    BY <1>1, <1>2 DEF TaskInv, CancelIsSound
  <2>2. row[t].token \in {0} \cup Tokens
    BY <1>1 DEF TypeOK, Row
  <2>3. row[t].status # "none"
    BY <1>1, <1>2 DEF TaskInv, NoRowIsIdle
  <2> QED
    BY <2>1, <2>2, <2>3
<1>4. glitches' \in 0..MaxGlitches
  BY <1>1, BoundAssumption DEF CancellerAsks, Glitch, TypeOK
<1>5. ASSUME NEW reply, heard(reply)
      PROVE  /\ \A u \in Tasks \ {t} : canceller'[u] = canceller[u]
             /\ canceller'[t].pc = "poll" /\ canceller'[t].seen = reply
             /\ canceller'[t].bind = canceller[t].bind
             /\ reply \in Replies => canceller' \in [Tasks -> CallType]
  <2> DEFINE c == [canceller[t] EXCEPT !.pc = "poll", !.seen = reply]
  <2>1. canceller \in [Tasks -> CallType]
    BY <1>1 DEF TypeOK, CallType
  <2>2. /\ c.pc = "poll" /\ c.seen = reply /\ c.bind = canceller[t].bind
        /\ reply \in Replies => c \in CallType
    BY <2>1 DEF CallType
  <2>3. canceller' = [canceller EXCEPT ![t] = c]
    BY <1>5, <2>1 DEF CallType
  <2> HIDE DEF c
  <2> QED
    BY <2>1, <2>2, <2>3
<1> HIDE DEF k, heard
<1>6. CASE remote[t][k] = "absent" /\ remote' = [remote EXCEPT ![t][k] = "revoked"]
           /\ heard("cancelled") /\ UNCHANGED asked
  <2>1. /\ remote'[t][k] = "revoked"
        /\ \A j \in Tokens \ {k} : remote'[t][j] = remote[t][j]
        /\ \A u \in Tasks \ {t} : remote'[u] = remote[u]
        /\ remote' \in [Tasks -> [Tokens -> LaunchStates]]
    <3>1. remote \in [Tasks -> [Tokens -> LaunchStates]] /\ "revoked" \in LaunchStates
      BY <1>1 DEF TypeOK, LaunchStates
    <3> QED
      BY <1>3, <1>6, <3>1
  <2>2. canceller' \in [Tasks -> CallType]
    BY <1>5, <1>6 DEF Replies, Terminal
  <2>3. TypeOK'
    BY <1>1, <1>2, <1>4, <1>6, <2>1, <2>2 DEF TypeOK, LaunchStates, CallType
  <2>4. /\ canceller'[t].pc = "poll" /\ canceller'[t].bind = canceller[t].bind
        /\ \A u \in Tasks \ {t} : canceller'[u] = canceller[u]
    BY <1>5, <1>6
  <2>5. \A j \in Tokens : remote[t][j] \in Over => remote'[t][j] = remote[t][j]
    BY <1>6, <2>1 DEF Over, Terminal
  <2>6. Computed(t) => Computed(t)'
    BY <1>2, <1>3, <1>6 DEF Computed
  <2>7. RowIsSound(t)'
    <3>1. ~Computed(t)
      BY <1>3, <1>6 DEF Computed
    <3> QED
      BY <1>1, <1>2, <1>3, <2>1, <3>1 DEF TaskInv, RowIsSound, Over
  <2>8. NoRowIsIdle(t)'
    BY <1>2, <1>3 DEF NoRowIsIdle
  <2>9. WorkerIsSound(t)'
    BY <1>1, <1>2, <1>3, <2>1, <2>6 DEF TaskInv, WorkerIsSound
  <2>10. CancelIsSound(t)'
    <3>1. canceller'[t].bind = <<row[t].attempt, row[t].token>> /\ row[t].token # 0
      BY <1>3, <2>4 DEF Tokens
    <3>2. remote'[t][canceller'[t].bind[2]] \in Over
      BY <1>3, <2>1, <3>1 DEF Over
    <3>3. observer[t].bind[2] \in {0} \cup Tokens
      BY <1>1 DEF TypeOK, Binding
    <3> QED
      BY <1>1, <1>2, <1>3, <2>5, <3>1, <3>2, <3>3 DEF TaskInv, CancelIsSound
  <2>11. OnRecord(t)'
    BY <1>1, <1>2, <2>1 DEF TaskInv, OnRecord, Alive
  <2>12. \A u \in Tasks \ {t} : Kept(u)
    BY <1>2, <2>1, <2>4 DEF Kept
  <2> QED
    BY <2>3, <2>7, <2>8, <2>9, <2>10, <2>11, <2>12, OneTaskMoves DEF TaskInv
<1>7. ASSUME NEW reply \in Replies, heard(reply), UNCHANGED remote,
             reply \in Terminal => remote[t][k] \in Over,
             asked' \in {asked, asked \cup {<<t, k>>}}
      PROVE  ManagerInv'
  <2>1. /\ canceller' \in [Tasks -> CallType]
        /\ canceller'[t].pc = "poll" /\ canceller'[t].seen = reply
        /\ canceller'[t].bind = canceller[t].bind
        /\ \A u \in Tasks \ {t} : canceller'[u] = canceller[u]
    BY <1>5, <1>7
  <2>2. asked' \subseteq Tasks \X Tokens
    BY <1>1, <1>3, <1>7 DEF TypeOK
  <2>3. TypeOK'
    BY <1>1, <1>2, <1>4, <1>7, <2>1, <2>2 DEF TypeOK, CallType
  <2>4. CancelIsSound(t)'
    BY <1>1, <1>2, <1>3, <1>7, <2>1 DEF TaskInv, CancelIsSound, k, Tokens
  <2> QED
    BY <1>2, <1>3, <1>7, <2>1, <2>3, <2>4, CallsKeep
<1>8. \/ Glitch /\ heard("unknown") /\ UNCHANGED <<remote, asked>>
      \/ /\ remote[t][k] = "absent" /\ remote' = [remote EXCEPT ![t][k] = "revoked"]
         /\ heard("cancelled") /\ UNCHANGED asked
      \/ asked' = asked \cup {<<t, k>>} /\ heard("cancel_pending") /\ UNCHANGED remote
      \/ (\E reply \in TokenReplies(t, k) : heard(reply)) /\ UNCHANGED <<remote, asked>>
  BY DEF CancellerAsks, k, heard
<1>9. "unknown" \in Replies \ Terminal /\ "cancel_pending" \in Replies \ Terminal
  BY DEF Replies, Terminal
<1>10. \A reply \in TokenReplies(t, k) : reply \in Replies /\ (reply \in Terminal => remote[t][k] \in Over)
  BY <1>1, <1>3, RepliesOfToken
<1> QED
  BY <1>6, <1>7, <1>8, <1>9, <1>10

LEMMA CancellerPollsKeeps ==
    ASSUME ManagerInv, NEW t \in Tasks, CancellerPolls(t) PROVE ManagerInv'
<1>1. TypeOK /\ TaskInv(t)
  BY DEF ManagerInv
<1>2. PICK seen \in RemoteReplies(t) : canceller' = [canceller EXCEPT ![t].seen = seen]
  BY DEF CancellerPolls
<1>3. /\ canceller[t].pc = "poll"
      /\ UNCHANGED <<row, thread, cancelled, observer, cancelTimer, retryTimer, remote, asked, inflight>>
      /\ UNCHANGED <<control, drawn, stopping, reboots, glitches>>
  BY DEF CancellerPolls, host
<1>4. seen \in Replies /\ (row[t].token # 0 /\ seen \in Terminal => remote[t][row[t].token] \in Over)
  BY <1>1, RepliesOfRemote DEF TaskInv
<1>5. /\ canceller' \in [Tasks -> CallType] /\ canceller'[t].seen = seen
      /\ canceller'[t].bind = canceller[t].bind /\ canceller'[t].pc = "poll"
      /\ \A u \in Tasks \ {t} : canceller'[u] = canceller[u]
  <2> DEFINE c == [canceller[t] EXCEPT !.seen = seen]
  <2>1. canceller \in [Tasks -> CallType]
    BY <1>1 DEF TypeOK, CallType
  <2>2. c.pc = "poll" /\ c.seen = seen /\ c.bind = canceller[t].bind /\ c \in CallType
    BY <1>3, <1>4, <2>1 DEF CallType
  <2>3. canceller' = [canceller EXCEPT ![t] = c]
    BY <1>2, <2>1 DEF CallType
  <2> HIDE DEF c
  <2> QED
    BY <2>1, <2>2, <2>3
<1>6. TypeOK'
  BY <1>1, <1>3, <1>5 DEF TypeOK, CallType
<1>7. CancelIsSound(t)' /\ row[t].status # "none"
  BY <1>1, <1>3, <1>4, <1>5 DEF TaskInv, CancelIsSound, NoRowIsIdle
<1> QED
  BY <1>3, <1>5, <1>6, <1>7, CallsKeep

\* An observation is recorded and its thread ends.
LEMMA TellKeeps ==
    ASSUME ManagerInv, NEW t \in Tasks, NEW seen, NEW bind,
           Record(t, seen, bind), Reschedule(t),
           seen \in Terminal => remote[t][bind[2]] \in Over,
           UNCHANGED <<thread, cancelled, retryTimer, remote, asked, inflight, control>>,
           UNCHANGED <<drawn, stopping, reboots, glitches>>,
           \/ canceller' = [canceller EXCEPT ![t] = NoCall] /\ UNCHANGED observer
           \/ observer' = [observer EXCEPT ![t] = NoCall] /\ UNCHANGED canceller
    PROVE  ManagerInv'
<1>1. TypeOK /\ TaskInv(t) /\ row[t] \in Row
  BY DEF ManagerInv, TypeOK
<1>2. cancelTimer' \subseteq Tasks
  BY <1>1 DEF Reschedule, TypeOK
<1>3. NoCall \in CallType /\ NoCall \in [pc : {"none", "tell"}, seen : {"none"} \cup Replies, bind : Binding]
  BY BoundAssumption DEF NoCall, CallType, Binding
<1>4. /\ canceller' \in [Tasks -> CallType]
      /\ observer' \in [Tasks -> [pc : {"none", "tell"}, seen : {"none"} \cup Replies, bind : Binding]]
      /\ \A u \in Tasks \ {t} : canceller'[u] = canceller[u] /\ observer'[u] = observer[u]
      /\ canceller'[t] \in {canceller[t], NoCall} /\ observer'[t] \in {observer[t], NoCall}
  <2>1. /\ canceller \in [Tasks -> CallType]
        /\ observer \in [Tasks -> [pc : {"none", "tell"}, seen : {"none"} \cup Replies, bind : Binding]]
    BY <1>1 DEF TypeOK, CallType
  <2> QED
    BY <1>3, <2>1
<1>5. CASE row' = row
  <2>1. TypeOK'
    BY <1>1, <1>2, <1>4, <1>5 DEF TypeOK, CallType
  <2>2. CancelIsSound(t)' /\ (row[t].status = "none" => canceller'[t].pc = "none")
    BY <1>1, <1>4, <1>5 DEF TaskInv, CancelIsSound, NoRowIsIdle, NoCall
  <2> QED
    BY <1>4, <1>5, <2>1, <2>2, CallsKeep
<1>6. CASE /\ row[t].status = "cancel_pending" /\ bind = <<row[t].attempt, row[t].token>> /\ seen \in Terminal
           /\ Become(t, [row[t] EXCEPT !.status = "cancelled", !.terminal = seen])
  <2> DEFINE r == [row[t] EXCEPT !.status = "cancelled", !.terminal = seen]
  <2>1. /\ r \in Row /\ r.launched = row[t].launched /\ r.denied = row[t].denied
        /\ r.token = row[t].token /\ r.attempt = row[t].attempt /\ r.status = "cancelled"
    BY <1>1, <1>6 DEF Row, Statuses, Final
  <2> HIDE DEF r
  <2>2. row' = [row EXCEPT ![t] = r] /\ row' \in [Tasks -> Row] /\ row'[t] = r
    BY <1>1, <1>6, <2>1 DEF Become, TypeOK, r
  <2>3. TypeOK'
    BY <1>1, <1>2, <1>4, <2>2 DEF TypeOK, CallType
  <2>4. remote[t][r.token] \in Over
    BY <1>6, <2>1
  <2>5. WorkerIsSound(t)'
    BY <1>1, <1>6, <2>1, <2>2 DEF TaskInv, WorkerIsSound, Computed
  <2>6. CancelIsSound(t)'
    BY <1>1, <1>4, <2>1, <2>2 DEF TaskInv, CancelIsSound, NoCall
  <2> QED
    BY <1>4, <1>6, <2>1, <2>2, <2>3, <2>4, <2>5, <2>6, RowSettles
<1> QED
  BY <1>5, <1>6 DEF Record, Bound

LEMMA CancellerTellsKeeps ==
    ASSUME ManagerInv, NEW t \in Tasks, CancellerTells(t) PROVE ManagerInv'
<1>1. canceller[t].seen \in Terminal => remote[t][canceller[t].bind[2]] \in Over
  BY DEF CancellerTells, ManagerInv, TaskInv, CancelIsSound
<1> QED
  BY <1>1, TellKeeps DEF CancellerTells, host

LEMMA ObserverTellsKeeps ==
    ASSUME ManagerInv, NEW t \in Tasks, ObserverTells(t) PROVE ManagerInv'
<1>1. observer[t].seen \in Terminal => remote[t][observer[t].bind[2]] \in Over
  BY DEF ObserverTells, ManagerInv, TaskInv, CancelIsSound
<1> QED
  BY <1>1, TellKeeps DEF ObserverTells, host

LEMMA ObserverLooksKeeps ==
    ASSUME ManagerInv, NEW t \in Tasks, ObserverLooks(t) PROVE ManagerInv'
<1>1. TypeOK /\ TaskInv(t) /\ row[t] \in Row
  BY DEF ManagerInv, TypeOK
<1>2. /\ cancelTimer' = cancelTimer \ {t}
      /\ UNCHANGED <<row, thread, cancelled, canceller, retryTimer, remote, asked, inflight, control>>
      /\ UNCHANGED <<drawn, stopping, reboots>>
  BY DEF ObserverLooks, host
<1>3. glitches' \in 0..MaxGlitches
  BY <1>1, BoundAssumption DEF ObserverLooks, Glitch, TypeOK
<1> DEFINE ObserverType == [pc : {"none", "tell"}, seen : {"none"} \cup Replies, bind : Binding]
<1>4. observer \in [Tasks -> ObserverType]
  BY <1>1 DEF TypeOK
<1>5. CASE UNCHANGED observer
  <2>1. TypeOK'
    BY <1>1, <1>2, <1>3, <1>5 DEF TypeOK
  <2>2. CancelIsSound(t)' /\ (row[t].status = "none" => canceller'[t].pc = "none")
    BY <1>1, <1>2, <1>5 DEF TaskInv, CancelIsSound, NoRowIsIdle
  <2> QED
    BY <1>2, <1>5, <2>1, <2>2, CallsKeep
<1>6. ASSUME NEW seen \in Replies, row[t].status = "cancel_pending",
             row[t].token # 0 /\ seen \in Terminal => remote[t][row[t].token] \in Over,
             observer' = [observer EXCEPT ![t] = [pc |-> "tell", seen |-> seen,
                                                  bind |-> <<row[t].attempt, row[t].token>>]]
      PROVE  ManagerInv'
  <2> DEFINE o == [pc |-> "tell", seen |-> seen, bind |-> <<row[t].attempt, row[t].token>>]
  <2>1. row[t].token \in Tokens /\ row[t].attempt \in 0..MaxAttempts
    BY <1>1, <1>6, LaunchedHasToken DEF TaskInv, RowIsSound, Row
  <2>2. o \in ObserverType /\ o.seen = seen /\ o.bind[2] = row[t].token /\ o.pc = "tell"
    BY <2>1 DEF Binding
  <2> HIDE DEF o
  <2>3. /\ observer' \in [Tasks -> ObserverType] /\ observer'[t] = o
        /\ \A u \in Tasks \ {t} : observer'[u] = observer[u]
    BY <1>4, <1>6, <2>2 DEF o
  <2>4. TypeOK'
    BY <1>1, <1>2, <1>3, <2>3 DEF TypeOK
  <2>5. CancelIsSound(t)'
    BY <1>1, <1>2, <1>6, <2>1, <2>2, <2>3 DEF TaskInv, CancelIsSound, Tokens
  <2> QED
    BY <1>2, <1>6, <2>3, <2>4, <2>5, CallsKeep
<1>7. /\ "unknown" \in Replies \ Terminal
      /\ \A seen \in RemoteReplies(t) :
           seen \in Replies /\ (row[t].token # 0 /\ seen \in Terminal => remote[t][row[t].token] \in Over)
  BY <1>1, RepliesOfRemote DEF TaskInv, Replies, Terminal
<1>8. \/ UNCHANGED observer
      \/ /\ row[t].status = "cancel_pending"
         /\ \E seen \in RemoteReplies(t) \cup {"unknown"} :
              observer' = [observer EXCEPT ![t] = [pc |-> "tell", seen |-> seen,
                                                   bind |-> <<row[t].attempt, row[t].token>>]]
  BY DEF ObserverLooks
<1> QED
  BY <1>5, <1>6, <1>7, <1>8

LEMMA DeniedKeeps ==
    ASSUME ManagerInv, NEW t \in Tasks, Launched(t), thread[t].seen = "denied" PROVE ManagerInv'
<1>1. TypeOK /\ TaskInv(t) /\ row[t] \in Row
  BY DEF ManagerInv, TypeOK
<1>2. /\ thread[t].pc = "launched"
      /\ UNCHANGED <<cancelled, observer, retryTimer, remote, asked, inflight, control>>
      /\ UNCHANGED <<drawn, stopping, reboots, glitches>>
  BY DEF Launched, At, host
<1> DEFINE s == IF t \in cancelled THEN "cancelled" ELSE "queued"
           r == [row[t] EXCEPT !.launched = FALSE, !.denied = TRUE, !.status = s]
<1>3. Become(t, r) /\ Exit(t) /\ UNCHANGED <<canceller, cancelTimer>>
  BY DEF Launched
<1>4. /\ r \in Row /\ ~r.launched /\ r.denied /\ r.token = row[t].token
      /\ r.attempt = row[t].attempt /\ r.status \in {"cancelled", "queued"}
  BY <1>1 DEF Row, Statuses, Final
<1> HIDE DEF r
<1>5. /\ row' \in [Tasks -> Row] /\ row'[t] = r
      /\ \A u \in Tasks \ {t} : row'[u] = row[u]
  BY <1>1, <1>3, <1>4 DEF Become, TypeOK
<1>6. /\ thread' \in [Tasks -> WorkerType] /\ thread'[t] = Idle
      /\ \A u \in Tasks \ {t} : thread'[u] = thread[u]
  BY <1>1, <1>3 DEF Exit, Idle, TypeOK, WorkerType, Pcs
<1>7. /\ row[t].launched /\ row[t].token \in Tokens
      /\ remote[t][row[t].token] \in {"absent", "revoked"} /\ <<t, row[t].token>> \notin inflight
  BY <1>1, <1>2, LaunchedHasToken DEF TaskInv, WorkerIsSound
<1>8. TypeOK'
  BY <1>1, <1>2, <1>3, <1>5, <1>6 DEF TypeOK, WorkerType
<1>9. RowIsSound(t)'
  <2>1. row[t].token # 0 /\ ~Computed(t)
    BY <1>7 DEF Computed, Tokens
  <2> QED
    BY <1>1, <1>2, <1>4, <1>5, <1>7, <2>1 DEF TaskInv, RowIsSound
<1>10. NoRowIsIdle(t)' /\ WorkerIsSound(t)'
  BY <1>4, <1>5, <1>6 DEF NoRowIsIdle, WorkerIsSound, Idle, Preparing
<1>11. CancelIsSound(t)'
  BY <1>1, <1>2, <1>3, <1>4, <1>5 DEF TaskInv, CancelIsSound
<1>12. OnRecord(t)'
  BY <1>1, <1>2, <1>7 DEF TaskInv, OnRecord, Alive
<1>13. \A u \in Tasks \ {t} : Kept(u)
  BY <1>2, <1>3, <1>5, <1>6 DEF Kept
<1> QED
  BY <1>8, <1>9, <1>10, <1>11, <1>12, <1>13, OneTaskMoves DEF TaskInv

LEMMA LaunchedKeeps ==
    ASSUME ManagerInv, NEW t \in Tasks, Launched(t) PROVE ManagerInv'
<1>1. TypeOK /\ TaskInv(t) /\ row[t] \in Row
  BY DEF ManagerInv, TypeOK
<1>2. /\ thread[t].pc = "launched"
      /\ UNCHANGED <<cancelled, observer, retryTimer, remote, asked, inflight, control>>
      /\ UNCHANGED <<drawn, stopping, reboots, glitches>>
  BY DEF Launched, At, host
<1>3. row[t].launched /\ row[t].status # "none"
  BY <1>1, <1>2 DEF TaskInv, WorkerIsSound, NoRowIsIdle
<1> DEFINE p == IF remote[t][row[t].token] \notin {"absent", "claimed", "revoked"} THEN "named" ELSE "empty"
           a == [row[t] EXCEPT !.denied = FALSE, !.process = p]
<1>4. /\ a \in Row /\ a.launched = row[t].launched
      /\ a.token = row[t].token /\ a.attempt = row[t].attempt
      /\ a.status = row[t].status /\ a.retry = row[t].retry
  BY <1>1 DEF Row
<1>5. CASE thread[t].seen = "denied"
  BY <1>5, DeniedKeeps
<1>6. CASE thread[t].seen = "refused"
  <2>1. UNCHANGED <<row, canceller, cancelTimer>> /\ Fail(t, "model")
    BY <1>6 DEF Launched
  <2>2. [pc |-> "failing", seen |-> "model"] \in WorkerType
    BY DEF WorkerType, Pcs, Errors
  <2> QED
    BY <1>1, <1>2, <2>1, <2>2, WorkerGoesOn DEF Fail, Saw, WorkerOnly, memory, host, TypeOK, Preparing
<1>7. CASE thread[t].seen = "started" /\ t \in cancelled
  <2> DEFINE r == [a EXCEPT !.status = "cancel_pending"]
  <2>1. Become(t, r) /\ StartRemoteCancel(t) /\ Fail(t, "cancel")
    BY <1>7 DEF Launched
  <2> HIDE DEF a
  <2>2. /\ r \in Row /\ r.launched = row[t].launched /\ r.token = row[t].token
        /\ r.attempt = row[t].attempt /\ r.status = "cancel_pending"
    BY <1>4 DEF Row, Statuses
  <2> HIDE DEF r
  <2>3. row' = [row EXCEPT ![t] = r] /\ row' \in [Tasks -> Row] /\ row'[t] = r
    BY <1>1, <2>1, <2>2 DEF Become, TypeOK
  <2>4. /\ canceller' \in [Tasks -> CallType] /\ cancelTimer' \subseteq Tasks
        /\ \A u \in Tasks \ {t} : canceller'[u] = canceller[u]
    BY <1>1, <1>3, <2>1, StartRemoteCancelFacts
  <2>5. /\ thread' \in [Tasks -> WorkerType] /\ thread'[t] = [pc |-> "failing", seen |-> "cancel"]
        /\ \A u \in Tasks \ {t} : thread'[u] = thread[u]
    BY <1>1, <2>1 DEF Fail, Saw, TypeOK, WorkerType, Pcs, Errors
  <2>6. TypeOK'
    BY <1>1, <1>2, <2>3, <2>4, <2>5 DEF TypeOK, WorkerType, CallType
  <2>7. WorkerIsSound(t)'
    BY <1>2, <1>7, <2>5 DEF WorkerIsSound, Preparing
  <2>8. CancelIsSound(t)'
    BY <1>2, <1>3, <1>7, <2>1, <2>2, <2>3, CancelStarted
  <2> QED
    BY <1>2, <1>3, <2>2, <2>3, <2>4, <2>5, <2>6, <2>7, <2>8, RowSettles
<1>8. CASE thread[t].seen \notin {"denied", "refused"} /\ ~(thread[t].seen = "started" /\ t \in cancelled)
  <2>1. Become(t, a) /\ Goto(t, "monitor") /\ UNCHANGED <<canceller, cancelTimer>>
    BY <1>8 DEF Launched
  <2> HIDE DEF a
  <2>2. row' = [row EXCEPT ![t] = a] /\ row' \in [Tasks -> Row] /\ row'[t] = a
    BY <1>1, <1>4, <2>1 DEF Become, TypeOK
  <2>3. /\ thread' \in [Tasks -> WorkerType] /\ thread'[t] = [pc |-> "monitor", seen |-> "none"]
        /\ \A u \in Tasks \ {t} : thread'[u] = thread[u]
    BY <1>1, <2>1 DEF Goto, TypeOK, WorkerType, Pcs
  <2>4. TypeOK'
    BY <1>1, <1>2, <2>1, <2>2, <2>3 DEF TypeOK, WorkerType
  <2>5. WorkerIsSound(t)'
    BY <2>3 DEF WorkerIsSound, Preparing
  <2>6. CancelIsSound(t)'
    BY <1>1, <1>2, <1>4, <2>1, <2>2 DEF TaskInv, CancelIsSound
  <2>7. /\ a.status = "queued" => a.retry \/ ~a.launched
        /\ a.status = "cancelled" /\ a.launched => remote[t][a.token] \in Over
        /\ a.status = "succeeded" => Computed(t)
    BY <1>1, <1>4 DEF TaskInv, RowIsSound
  <2> QED
    BY <1>2, <1>3, <1>4, <2>1, <2>2, <2>3, <2>4, <2>5, <2>6, <2>7, RowSettles
<1> QED
  BY <1>5, <1>6, <1>7, <1>8

-----------------------------------------------------------------------------
(* Operations, timers and the life of the API.                             *)

\* A fresh row, of a task whose launches are all over.
LEMMA BeginAnew ==
    ASSUME ManagerInv, NEW t \in Tasks, NEW n \in 1..MaxAttempts, NEW release \in BOOLEAN,
           Become(t, Unstarted(n, release)),
           UNCHANGED <<thread, canceller, observer, cancelTimer, retryTimer, remote, asked, inflight, control>>,
           UNCHANGED <<drawn, stopping, reboots, glitches>>,
           cancelled' \in {cancelled, cancelled \ {t}},
           At(t, "none"), canceller[t].pc = "none", drawn[t] < n,
           ~Computed(t), \A k \in Tokens : ~Alive(t, k)
    PROVE  ManagerInv'
<1>1. TypeOK /\ TaskInv(t)
  BY DEF ManagerInv
<1> DEFINE r == Unstarted(n, release)
<1>2. /\ r \in Row /\ ~r.launched /\ ~r.denied /\ r.token = 0 /\ r.attempt = n /\ r.status = "queued"
  BY BoundAssumption DEF Unstarted, Row, Statuses
<1> HIDE DEF r
<1>3. row' \in [Tasks -> Row] /\ row'[t] = r /\ \A u \in Tasks \ {t} : row'[u] = row[u]
  BY <1>1, <1>2 DEF Become, TypeOK, r
<1>4. TypeOK'
  BY <1>1, <1>3 DEF TypeOK
<1>5. RowIsSound(t)'
  <2>1. drawn[t] \in 0..MaxTokens
    BY <1>1 DEF TypeOK
  <2>2. control[t] # "succeeded"
    BY <1>1 DEF TaskInv, RowIsSound
  <2> QED
    BY <1>2, <1>3, <2>1, <2>2 DEF RowIsSound, Computed
<1>6. NoRowIsIdle(t)' /\ WorkerIsSound(t)'
  BY <1>2, <1>3 DEF NoRowIsIdle, WorkerIsSound, At, Preparing
<1>7. CancelIsSound(t)' /\ OnRecord(t)'
  BY <1>1 DEF TaskInv, CancelIsSound, OnRecord, Alive
<1>8. \A u \in Tasks \ {t} : Kept(u)
  BY <1>3 DEF Kept
<1> QED
  BY <1>4, <1>5, <1>6, <1>7, <1>8, OneTaskMoves DEF TaskInv

LEMMA SubmitKeeps ==
    ASSUME ManagerInv, NEW t \in Tasks, Submit(t) PROVE ManagerInv'
<1>1. TypeOK /\ TaskInv(t)
  BY DEF ManagerInv
<1>2. 1 \in 1..MaxAttempts
  BY BoundAssumption
<1>3. /\ At(t, "none") /\ canceller[t].pc = "none" /\ drawn[t] = 0 /\ ~row[t].launched
  BY <1>1 DEF Submit, TaskInv, NoRowIsIdle, At
<1>4. ~Computed(t)
  <2>1. row[t].token \in {0} \cup Tokens
    BY <1>1 DEF TypeOK, Row
  <2> QED
    BY <1>1, <1>3, <2>1 DEF TaskInv, RowIsSound, Computed
<1>5. \A k \in Tokens : ~Alive(t, k)
  BY <1>1, <1>3 DEF TaskInv, OnRecord
<1>6. drawn[t] < 1
  BY <1>3
<1>7. /\ Become(t, Unstarted(1, TRUE))
      /\ UNCHANGED <<thread, cancelled, canceller, observer, cancelTimer, retryTimer>>
      /\ UNCHANGED <<remote, asked, inflight, control, drawn, stopping, reboots, glitches>>
  BY DEF Submit, memory, host
<1>8. TRUE \in BOOLEAN /\ cancelled' \in {cancelled, cancelled \ {t}}
  BY <1>7
<1> QED
  BY <1>2, <1>3, <1>4, <1>5, <1>6, <1>7, <1>8, BeginAnew

LEMMA RestartKeeps ==
    ASSUME ManagerInv, NEW t \in Tasks, Restart(t) PROVE ManagerInv'
<1>1. TypeOK /\ TaskInv(t) /\ row[t].attempt \in 0..MaxAttempts /\ row[t].token \in {0} \cup Tokens
      /\ drawn[t] \in 0..MaxTokens
  BY DEF ManagerInv, TypeOK, Row
<1> DEFINE n == row[t].attempt + 1
<1>2. n \in 1..MaxAttempts /\ drawn[t] < n
  BY <1>1, BoundAssumption DEF Restart, TaskInv, RowIsSound
<1>3. At(t, "none") /\ canceller[t].pc = "none"
  BY DEF Restart, Quiet
<1>4. ~Computed(t) /\ \A k \in Tokens : ~Alive(t, k)
  <2>1. CASE row[t].token = 0
    <3>1. ~row[t].launched
      BY <2>1 DEF Restart, MayRestart, NeverLaunched
    <3> QED
      BY <1>1, <2>1, <3>1 DEF TaskInv, OnRecord, Computed
  <2>2. CASE row[t].token # 0
    <3>1. remote[t][row[t].token] \in {"failed", "stopped", "revoked"}
      BY <2>2 DEF Restart, MayRestart, LaunchIsOver
    <3> QED
      BY <1>1, <3>1 DEF TaskInv, OnRecord, Computed, Alive
  <2> QED
    BY <2>1, <2>2
<1> HIDE DEF n
<1>5. Become(t, Unstarted(n, FALSE)) /\ FALSE \in BOOLEAN
  BY DEF Restart, n
<1> QED
  BY <1>2, <1>3, <1>4, <1>5, BeginAnew DEF Restart, host

LEMMA ResumeKeeps ==
    ASSUME ManagerInv, NEW t \in Tasks, Resume(t) PROVE ManagerInv'
<1>1. TypeOK /\ TaskInv(t) /\ "reconciling" \in Statuses
  BY DEF ManagerInv, Statuses
<1> DEFINE r == [row[t] EXCEPT !.status = "reconciling"]
<1>2. /\ r \in Row /\ r.launched = row[t].launched /\ r.denied = row[t].denied
      /\ r.token = row[t].token /\ r.attempt = row[t].attempt /\ r.status = "reconciling"
      /\ row' = [row EXCEPT ![t] = r] /\ row' \in [Tasks -> Row] /\ row'[t] = r
  BY <1>1, ShownRow DEF Resume
<1> HIDE DEF r
<1>3. /\ thread[t].pc = "none" /\ row[t].status # "none"
      /\ UNCHANGED <<thread, cancelled, canceller, observer, cancelTimer, remote, asked, inflight, control>>
      /\ UNCHANGED <<drawn, stopping, reboots, glitches>>
      /\ retryTimer' = retryTimer \ {t}
  BY DEF Resume, Quiet, At, host
<1>4. TypeOK'
  BY <1>1, <1>2, <1>3 DEF TypeOK
<1>5. WorkerIsSound(t)' /\ CancelIsSound(t)'
  BY <1>1, <1>2, <1>3 DEF TaskInv, WorkerIsSound, CancelIsSound, Preparing
<1> QED
  BY <1>2, <1>3, <1>4, <1>5, RowSettles

LEMMA RetryOutputsKeeps ==
    ASSUME ManagerInv, NEW t \in Tasks, RetryOutputs(t) PROVE ManagerInv'
<1>1. TypeOK /\ TaskInv(t) /\ row[t] \in Row
  BY DEF ManagerInv, TypeOK
<1> DEFINE r == [row[t] EXCEPT !.status = "queued", !.retry = TRUE]
<1>2. /\ r \in Row /\ r.launched = row[t].launched /\ r.denied = row[t].denied
      /\ r.token = row[t].token /\ r.attempt = row[t].attempt /\ r.status = "queued" /\ r.retry
  BY <1>1 DEF Row, Statuses
<1> HIDE DEF r
<1>3. row' = [row EXCEPT ![t] = r] /\ row' \in [Tasks -> Row] /\ row'[t] = r
  BY <1>1, <1>2 DEF RetryOutputs, Become, TypeOK, r
<1>4. /\ thread[t].pc = "none" /\ canceller[t].pc = "none" /\ row[t].status # "none"
      /\ UNCHANGED <<thread, canceller, observer, cancelTimer, retryTimer, remote, asked, inflight, control>>
      /\ UNCHANGED <<drawn, stopping, reboots, glitches>>
      /\ cancelled' = cancelled \ {t}
  BY DEF RetryOutputs, Quiet, At, host
<1>5. TypeOK'
  BY <1>1, <1>3, <1>4 DEF TypeOK
<1>6. WorkerIsSound(t)' /\ CancelIsSound(t)'
  BY <1>1, <1>4 DEF TaskInv, WorkerIsSound, CancelIsSound, Preparing
<1> QED
  BY <1>2, <1>3, <1>4, <1>5, <1>6, RowSettles

LEMMA DispatchKeeps ==
    ASSUME ManagerInv, NEW t \in Tasks, Dispatch(t) PROVE ManagerInv'
<1>1. TypeOK /\ TaskInv(t)
  BY DEF ManagerInv
<1>2. /\ row[t].status \in {"queued", "reconciling"} /\ Goto(t, "begin")
      /\ UNCHANGED <<row, cancelled, canceller, observer, cancelTimer, retryTimer>>
      /\ UNCHANGED <<remote, asked, inflight, control, drawn, stopping, reboots, glitches>>
  BY DEF Dispatch, WorkerOnly, memory, host
<1>3. /\ thread' \in [Tasks -> WorkerType] /\ thread'[t] = [pc |-> "begin", seen |-> "none"]
      /\ \A u \in Tasks \ {t} : thread'[u] = thread[u]
  BY <1>1, <1>2 DEF Goto, TypeOK, WorkerType, Pcs
<1>4. TypeOK'
  BY <1>1, <1>2, <1>3 DEF TypeOK, WorkerType
<1>5. RowIsSound(t)' /\ CancelIsSound(t)' /\ OnRecord(t)'
  BY <1>1, <1>2 DEF TaskInv, RowIsSound, CancelIsSound, OnRecord, Alive, Computed
<1>6. NoRowIsIdle(t)' /\ WorkerIsSound(t)'
  BY <1>2, <1>3 DEF NoRowIsIdle, WorkerIsSound, Preparing
<1>7. \A u \in Tasks \ {t} : Kept(u)
  BY <1>2, <1>3 DEF Kept
<1> QED
  BY <1>4, <1>5, <1>6, <1>7, OneTaskMoves DEF TaskInv

LEMMA TimersKeep ==
    ASSUME ManagerInv,
           UNCHANGED <<row, thread, cancelled, canceller, observer, remote, asked, inflight, control>>,
           UNCHANGED <<drawn, reboots, glitches>>,
           cancelTimer' \subseteq Tasks, retryTimer' \subseteq Tasks, stopping' \in BOOLEAN
    PROVE  ManagerInv'
<1>1. TypeOK'
  BY DEF ManagerInv, TypeOK
<1>2. ASSUME NEW u \in Tasks PROVE TaskInv(u)'
  <2>1. Kept(u)
    BY DEF Kept
  <2> QED
    BY <2>1, UntouchedIsSound DEF ManagerInv
<1> QED
  BY <1>1, <1>2 DEF ManagerInv

\* After a restart of the API no thread is left but those it starts itself.
LEMMA RebootKeeps ==
    ASSUME ManagerInv, Reboot PROVE ManagerInv'
<1> DEFINE pending == {t \in Tasks : row[t].status = "cancel_pending"}
           active == {t \in Tasks : row[t].status \in {"prefetching", "uploading", "running", "rendering"}}
           call(t) == [pc |-> "ask", seen |-> "none", bind |-> <<row[t].attempt, row[t].token>>]
<1>1. TypeOK /\ \A t \in Tasks : TaskInv(t)
  BY DEF ManagerInv
<1>2. /\ reboots < MaxReboots /\ reboots' = reboots + 1 /\ stopping' = FALSE
      /\ cancelTimer' = {} /\ retryTimer' = {} /\ cancelled' = pending
      /\ UNCHANGED <<remote, asked, inflight, control, drawn, glitches>>
  BY DEF Reboot, host
<1>3. /\ thread' \in [Tasks -> WorkerType]
      /\ observer' \in [Tasks -> [pc : {"none", "tell"}, seen : {"none"} \cup Replies, bind : Binding]]
      /\ \A t \in Tasks : thread'[t] = Idle /\ observer'[t] = NoCall
  BY BoundAssumption DEF Reboot, WorkerType, Pcs, Idle, NoCall, Binding
<1>4. ASSUME NEW t \in Tasks
      PROVE  /\ canceller'[t] = IF t \in pending /\ row[t].launched THEN call(t) ELSE NoCall
             /\ row'[t] = IF t \in active THEN [row[t] EXCEPT !.status = "reconciling"]
                          ELSE IF t \in pending /\ ~row[t].launched
                          THEN [row[t] EXCEPT !.status = "cancelled"] ELSE row[t]
  BY DEF Reboot
<1>5. DOMAIN canceller' = Tasks /\ DOMAIN row' = Tasks
      /\ canceller' = [t \in Tasks |-> canceller'[t]] /\ row' = [t \in Tasks |-> row'[t]]
  BY DEF Reboot
<1>6. ASSUME NEW t \in Tasks
      PROVE  /\ row'[t] \in Row /\ row'[t].launched = row[t].launched /\ row'[t].denied = row[t].denied
             /\ row'[t].token = row[t].token /\ row'[t].attempt = row[t].attempt
             /\ row'[t].retry = row[t].retry
             /\ row'[t].status \in {row[t].status, "reconciling", "cancelled"}
             /\ row'[t].status = "cancelled" /\ row[t].launched => row[t].status = "cancelled"
             /\ row'[t].status = "none" <=> row[t].status = "none"
  <2>1. row[t] \in Row
    BY <1>1 DEF TypeOK
  <2>2. CASE row'[t] = [row[t] EXCEPT !.status = "reconciling"] /\ t \in active
    BY <2>1, <2>2 DEF Row, Statuses
  <2>3. CASE row'[t] = [row[t] EXCEPT !.status = "cancelled"] /\ ~row[t].launched /\ t \in pending
    BY <2>1, <2>3 DEF Row, Statuses, Final
  <2>4. CASE row'[t] = row[t]
    BY <2>1, <2>4
  <2> QED
    BY <1>4, <2>2, <2>3, <2>4
<1>7. ASSUME NEW t \in Tasks
      PROVE  /\ canceller'[t] \in CallType /\ canceller'[t].pc # "poll"
             /\ canceller'[t].pc # "none" =>
                  /\ t \in pending /\ row[t].token # 0
                  /\ canceller'[t].bind = <<row[t].attempt, row[t].token>>
  <2>1. row[t].attempt \in 0..MaxAttempts /\ row[t].token \in {0} \cup Tokens
    BY <1>1 DEF TypeOK, Row
  <2>2. CASE t \in pending /\ row[t].launched
    <3>1. canceller'[t] = call(t) /\ row[t].token # 0
      BY <1>1, <1>4, <2>2 DEF TaskInv, RowIsSound
    <3> QED
      BY <2>1, <2>2, <3>1 DEF CallType, Binding
  <2>3. CASE ~(t \in pending /\ row[t].launched)
    <3>1. canceller'[t] = NoCall
      BY <1>4, <2>3
    <3> QED
      BY <3>1, BoundAssumption DEF CallType, Binding, NoCall
  <2> QED
    BY <2>2, <2>3
<1>8. TypeOK'
  <2>1. row' \in [Tasks -> Row] /\ canceller' \in [Tasks -> CallType]
    BY <1>5, <1>6, <1>7
  <2>2. reboots' \in 0..MaxReboots
    BY <1>1, <1>2, BoundAssumption DEF TypeOK
  <2>3. cancelled' \subseteq Tasks /\ cancelTimer' \subseteq Tasks /\ retryTimer' \subseteq Tasks
    BY <1>2
  <2> QED
    BY <1>1, <1>2, <1>3, <2>1, <2>2, <2>3 DEF TypeOK, WorkerType, CallType
<1>9. ASSUME NEW t \in Tasks PROVE TaskInv(t)'
  <2>1. TaskInv(t)
    BY <1>1
  <2>2. RowIsSound(t)'
    BY <1>2, <1>6, <2>1 DEF TaskInv, RowIsSound, Computed
  <2>3. NoRowIsIdle(t)'
    <3>1. row[t].status = "none" => canceller'[t].pc = "none"
      BY <1>7
    <3> QED
      BY <1>2, <1>3, <1>6, <2>1, <3>1 DEF TaskInv, NoRowIsIdle, Idle
  <2>4. WorkerIsSound(t)'
    BY <1>3 DEF WorkerIsSound, Idle, Preparing
  <2>5. CancelIsSound(t)'
    BY <1>2, <1>3, <1>6, <1>7 DEF CancelIsSound, NoCall
  <2>6. OnRecord(t)'
    BY <1>2, <1>6, <2>1 DEF TaskInv, OnRecord, Alive
  <2> QED
    BY <2>2, <2>3, <2>4, <2>5, <2>6 DEF TaskInv
<1> QED
  BY <1>8, <1>9 DEF ManagerInv

-----------------------------------------------------------------------------
(* The theorems.                                                           *)

LEMMA ManagerStart == Init => ManagerInv
<1> SUFFICES ASSUME Init PROVE ManagerInv
  OBVIOUS
<1>1. TypeOK
  <2>1. [Unstarted(0, FALSE) EXCEPT !.status = "none"] \in Row
    <3> DEFINE r == Unstarted(0, FALSE)
    <3>1. r \in Row
      BY BoundAssumption DEF Unstarted, Row, Statuses
    <3> HIDE DEF r
    <3>2. [r EXCEPT !.status = "none"] \in Row
      BY <3>1 DEF Row, Statuses
    <3> QED
      BY <3>2 DEF r
  <2>2. /\ Idle \in WorkerType /\ NoCall \in CallType
        /\ NoCall \in [pc : {"none", "tell"}, seen : {"none"} \cup Replies, bind : Binding]
    <3>1. Idle \in WorkerType
      BY DEF Idle, WorkerType, Pcs
    <3> QED
      BY <3>1, BoundAssumption DEF NoCall, CallType, Binding
  <2>3. row \in [Tasks -> Row] /\ thread \in [Tasks -> WorkerType] /\ canceller \in [Tasks -> CallType]
    BY <2>1, <2>2 DEF Init
  <2>4. 0 \in 0..MaxReboots /\ 0 \in 0..MaxGlitches /\ 0 \in 0..MaxTokens
    BY BoundAssumption
  <2> QED
    BY <2>2, <2>3, <2>4 DEF Init, TypeOK, WorkerType, CallType
<1>2. ASSUME NEW t \in Tasks PROVE TaskInv(t)
  <2>1. /\ ~row[t].launched /\ ~row[t].denied /\ row[t].token = 0 /\ row[t].attempt = 0
        /\ row[t].status = "none"
    BY DEF Init, Unstarted
  <2>2. /\ thread[t].pc = "none" /\ canceller[t].pc = "none" /\ observer[t].pc = "none"
        /\ drawn[t] = 0 /\ control[t] = "absent" /\ inflight = {}
        /\ \A k \in Tokens : remote[t][k] = "absent"
    BY DEF Init, Idle, NoCall
  <2> QED
    BY <2>1, <2>2 DEF TaskInv, RowIsSound, NoRowIsIdle, WorkerIsSound, CancelIsSound, OnRecord,
                      Alive, Preparing
<1> QED
  BY <1>1, <1>2 DEF ManagerInv

LEMMA ManagerStep == ManagerInv /\ [Next]_vars => ManagerInv'
<1> SUFFICES ASSUME ManagerInv, [Next]_vars PROVE ManagerInv'
  OBVIOUS
<1>1. ASSUME NEW t \in Tasks, WorkerStep(t) PROVE ManagerInv'
  BY <1>1, BeginKeeps, RetryKeeps, ReconcileKeeps, ReconciledKeeps, StagesKeep, UploadKeeps,
     SendLaunchKeeps, LaunchedKeeps, MonitorKeeps, MonitoredKeeps, FailingKeeps, SettlingKeeps
     DEF WorkerStep
<1>2. ASSUME NEW t \in Tasks, CancelStep(t) \/ CancellerPolls(t) PROVE ManagerInv'
  BY <1>2, CancellerAsksKeeps, CancellerTellsKeeps, ObserverLooksKeeps, ObserverTellsKeeps,
     CancellerPollsKeeps DEF CancelStep
<1>3. ASSUME NEW t \in Tasks, Operation(t) \/ Dispatch(t) PROVE ManagerInv'
  BY <1>3, SubmitKeeps, CancelKeeps, RestartKeeps, ResumeKeeps, RetryOutputsKeeps, DispatchKeeps
     DEF Operation
<1>4. ASSUME NEW t \in Tasks, HostStep(t) PROVE ManagerInv'
  BY <1>4, RemoteHandlesLaunchKeeps, RemoteRegistersKeeps, RemoteEndsKeeps DEF HostStep
<1>5. ASSUME NEW t \in Tasks, RetryTimerFires(t) PROVE ManagerInv'
  BY <1>5, TimersKeep DEF RetryTimerFires, host, ManagerInv, TypeOK
<1>6. CASE Stop
  BY <1>6, TimersKeep DEF Stop, host
<1>7. CASE UNCHANGED vars
  BY <1>7, TimersKeep DEF vars, memory, host, ManagerInv, TypeOK
<1> QED
  BY <1>1, <1>2, <1>3, <1>4, <1>5, <1>6, <1>7, RebootKeeps DEF Next

\* The invariant holds in every state of the manager, its host and its crashes.
THEOREM ManagerInvHolds == Spec => []ManagerInv
BY ManagerStart, ManagerStep, PTL DEF Spec

\* Every variable keeps its type.
THEOREM ManagerTypeCorrect == Spec => []TypeOK
<1>1. ManagerInv => TypeOK
  BY DEF ManagerInv
<1> QED
  BY <1>1, ManagerInvHolds, PTL

\* Nothing lives on the host, or may yet, that the row does not name.
THEOREM EveryLaunchIsOnRecordHolds == Spec => []EveryLaunchIsOnRecord
<1>1. ManagerInv => EveryLaunchIsOnRecord
  BY DEF ManagerInv, TaskInv, OnRecord, EveryLaunchIsOnRecord
<1> QED
  BY <1>1, ManagerInvHolds, PTL

\* Denials, lost replies and restarts of the API cost an attempt no new token.
THEOREM OneTokenPerAttemptHolds == Spec => []OneTokenPerAttempt
<1>1. ManagerInv => OneTokenPerAttempt
  BY DEF ManagerInv, TaskInv, RowIsSound, OneTokenPerAttempt
<1> QED
  BY <1>1, ManagerInvHolds, PTL

\* A task that succeeded was computed under the token on its row.
THEOREM SuccessIsComputedHolds == Spec => []SuccessIsComputed
<1>1. ManagerInv => SuccessIsComputed
  BY DEF ManagerInv, TaskInv, RowIsSound, Computed, SuccessIsComputed
<1> QED
  BY <1>1, ManagerInvHolds, PTL

\* What is shown as cancelled neither runs nor can start.
THEOREM CancelledIsDeadHolds == Spec => []CancelledIsDead
<1>1. ManagerInv => CancelledIsDead
  BY DEF ManagerInv, TaskInv, RowIsSound, OnRecord, Alive, Over, Terminal, CancelledIsDead
<1> QED
  BY <1>1, ManagerInvHolds, PTL
=============================================================================
