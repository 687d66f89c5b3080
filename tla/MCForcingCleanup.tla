-------------------------- MODULE MCForcingCleanup --------------------------
(* Instances of ForcingCleanup for TLC: one download operation and one task   *)
(* that can use the older of two cycles.                                   *)
EXTENDS ForcingCleanup

CONSTANTS o1, t1, admin

MCOps == {o1}
MCCycles == {1, 2, 3}
MCLatest == {3}
MCStored == {1, 2, 3}
MCHoldable == {1}
MCCycleOf == [o \in MCOps |-> 1]
MCTasks == {t1}
MCCovers == [t \in MCTasks |-> {1, 2}]
MCOnePlan == {1}
MCTwoPlans == {1, 2}
MCActors == {admin}
=============================================================================
