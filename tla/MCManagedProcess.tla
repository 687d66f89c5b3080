-------------------------- MODULE MCManagedProcess --------------------------
(* Instances of ManagedProcess, with a reader of its files, for TLC: two   *)
(* attempts of one task share a control root; roots do not interact below  *)
(* the resource pool.                                                      *)
EXTENDS Inspection

CONSTANTS a1, a2, t1, r1

MCAttempts == {a1, a2}
MCTasks == {t1}
MCTaskOf == [a \in MCAttempts |-> t1]
=============================================================================
