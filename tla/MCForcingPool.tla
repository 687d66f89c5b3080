---------------------------- MODULE MCForcingPool ----------------------------
(* Two files in the new cycle, one in the old: an operation that holds a reference on *)
(* the new cycle, a task that waits for one of its files, and the prefetch.          *)
EXTENDS ForcingPool, TLC
CONSTANTS new, old, f1, f2, g1, r1
MCCycleOf  == f1 :> new @@ f2 :> new @@ g1 :> old
MCRank     == f1 :> 1 @@ f2 :> 2 @@ g1 :> 3
MCRequests == {[cycle |-> new, hours |-> {f1, f2}, ref |-> r1], [cycle |-> new, hours |-> {f2}, ref |-> None]}
==============================================================================
