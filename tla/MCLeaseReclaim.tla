--------------------------- MODULE MCLeaseReclaim ---------------------------
(* Instance of LeaseReclaim for TLC: a1 and a2 are attempts of one task, a3 *)
(* of another; only a1 asks the pool.                                      *)
EXTENDS LeaseReclaim

CONSTANTS a1, a2, a3, t1, t2

MCAttempts == {a1, a2, a3}
MCTasks == {t1, t2}
MCTaskOf == [a \in MCAttempts |-> IF a = a3 THEN t2 ELSE t1]
MCCpus == 0..4
MCNeed == [a \in MCAttempts |-> IF a = a1 THEN 2 ELSE 1]
MCOnlyA1 == {a1}

\* The cancellation of one attempt at a time is enough here: two of different
\* attempts meet in MCManagedProcess.
OneCancel ==
  Cardinality({a \in Attempts : request[a].status # "none" \/ worker[a] # "none" \/ file[a].verified}) <= 1

\* One launch command at a time is past the lock without having answered.
OneAnswers == Cardinality(answering) <= 1
=============================================================================
