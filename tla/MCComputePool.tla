---------------------------- MODULE MCComputePool ----------------------------
(* Instances of ComputePool for TLC: a1 and a2 are attempts of one task, a3 *)
(* of another.  a1 wants both of the CPUs that are handed out, so that an    *)
(* admission may have to wait for CPUs while there is a place.               *)
EXTENDS ComputePool

CONSTANTS a1, a2, a3, t1, t2

MCAttempts == {a1, a2, a3}
MCTasks == {t1, t2}
MCTaskOf == [a \in MCAttempts |-> IF a = a3 THEN t2 ELSE t1]
MCCpus == 0..3
MCNeed == [a \in MCAttempts |-> IF a = a1 THEN 2 ELSE 1]
MCPair == {a1, a3}
MCPairTaskOf == [a \in MCPair |-> IF a = a3 THEN t2 ELSE t1]
MCPairNeed == [a \in MCPair |-> IF a = a1 THEN 2 ELSE 1]
=============================================================================
