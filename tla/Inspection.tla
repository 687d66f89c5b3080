----------------------------- MODULE Inspection -----------------------------
(***************************************************************************)
(* Readers of the supervisor's files: the status, launch and cancel calls  *)
(* of scripts/managed_process.py, whose inspect() reads state.json and then *)
(* cancellation.json, without a lock and with steps of every other process *)
(* between the two.                                                        *)
(***************************************************************************)
EXTENDS ManagedProcess

CONSTANT Readers  \* calls of inspect() that may be under way together

VARIABLES
    reader,  \* the attempt a call is about, the state.json it has read, and whether
             \* "cancelled" had been told of the attempt when it read it
    told     \* history: the terminal verdicts given of each attempt

NoState == [status |-> "nodir", registered |-> FALSE, verified |-> FALSE]
Idle == [of |-> None, state |-> NoState, knew |-> FALSE]

InspectionTypeOK ==
    /\ reader \in [Readers -> [of : Attempts \cup {None}, state : StateFile, knew : BOOLEAN]]
    /\ told \in [Attempts -> SUBSET Terminal]

InspectionInit ==
    /\ Init
    /\ reader = [r \in Readers |-> Idle]
    /\ told = [a \in Attempts |-> {}]

\* state.json; a missing one is answered at once, and with no verdict.
ReadState(r, a) ==
    /\ reader[r].of = None
    /\ file[a].status \notin {"nodir", "nofile"}
    /\ reader' = [reader EXCEPT ![r] =
                    [of |-> a, state |-> file[a], knew |-> "cancelled" \in told[a]]]
    /\ UNCHANGED <<vars, told>>

\* cancellation.json, and with it the answer.
ReadCancellation(r, a) ==
    /\ reader[r].of = a
    /\ told' = [told EXCEPT ![a] = @ \cup ({Verdict(a, reader[r].state)} \cap Terminal)]
    /\ reader' = [reader EXCEPT ![r] = Idle]
    /\ UNCHANGED vars

InspectionNext ==
    \/ Next /\ UNCHANGED <<reader, told>>
    \/ \E r \in Readers, a \in Attempts : ReadState(r, a) \/ ReadCancellation(r, a)

InspectionSpec == InspectionInit /\ [][InspectionNext]_<<vars, reader, told>>

-----------------------------------------------------------------------------
(* Properties                                                              *)

\* Once any reader has been told that an attempt has come to its end, however
\* its two readings fell among the steps of wrapper, worker and deaths, nothing
\* of the attempt's command runs or may still begin (inspect; the API goes on to
\* outputs, a new attempt or a deletion on that word).
VerdictIsOver == \A a \in Attempts : told[a] # {} => ~InFlight(a)

\* Verdicts of an attempt change in one way only: its outcome is told, and then
\* that it was cancelled, by a cancel that looked before the outcome was saved.
\* No reader is told success and another failure, and a reader that begins after
\* "cancelled" was told will never be told anything else (cancel, cancel_execute,
\* execute).
OutcomeThenCancelled ==
    /\ \A a \in Attempts : ~({"succeeded", "failed"} \subseteq told[a])
    /\ \A r \in Readers, a \in Attempts :
           reader[r].of = a /\ reader[r].knew => Verdict(a, reader[r].state) = "cancelled"

\* What the code does not give: that a verdict once told is the last.
VerdictIsLast == \A a \in Attempts : \A u, v \in told[a] : u = v
=============================================================================
