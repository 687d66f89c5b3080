---------------------------- MODULE AttemptLedger ----------------------------
(***************************************************************************)
(* What the remote supervisor (scripts/managed_process.py) promises about  *)
(* compute attempts, without files, processes or locks: an attempt token   *)
(* is used at most once, and a task's control root never has two attempts  *)
(* in flight.  Ending an attempt needs no reason: it may finish, fail, be  *)
(* cancelled, be barred before it was launched, or die with the host.      *)
(***************************************************************************)
CONSTANTS Attempts,  \* attempt tokens
          Tasks,     \* tasks, one control root each
          TaskOf     \* the task an attempt belongs to

VARIABLE life        \* the stage each attempt has reached

Stages == {"fresh", "claimed", "computing", "over"}

InFlight(a) == life[a] \in {"claimed", "computing"}

LedgerInit == life = [a \in Attempts |-> "fresh"]

\* A fresh token is claimed only while its root has nothing in flight.
Claim(a) ==
    /\ life[a] = "fresh"
    /\ \A b \in Attempts : TaskOf[b] = TaskOf[a] => ~InFlight(b)
    /\ life' = [life EXCEPT ![a] = "claimed"]

Compute(a) ==
    /\ life[a] = "claimed"
    /\ life' = [life EXCEPT ![a] = "computing"]

\* Any attempts may end, together when the host goes down; none comes back.
Retire(S) == life' = [a \in Attempts |-> IF a \in S THEN "over" ELSE life[a]]

LedgerNext ==
    \/ \E a \in Attempts : Claim(a) \/ Compute(a)
    \/ \E S \in SUBSET Attempts : Retire(S)

LedgerSpec == LedgerInit /\ [][LedgerNext]_life
=============================================================================
