--------------------------- MODULE MCTaskDeletion ---------------------------
(* Instances of TaskDeletion for TLC: two plans of two actors for one        *)
(* attempt, or one plan over two attempts and a restart of the API.  A path  *)
(* on the host may be made anew under the old or another identity.           *)
EXTENDS TaskDeletion, TLC

CONSTANTS p1, p2, a1, a2, i1, i2, j1, k1

MCTwo == {p1, p2}
MCOne == {p1}
MCOwner == p1 :> a1 @@ p2 :> a2
MCInodes == [remote |-> {i1, i2}, run |-> {j1}, product |-> {k1}]
MCSymmetry == Permutations(MCTwo) \cup Permutations({i1, i2})
MCSymmetryOne == Permutations({i1, i2})
=============================================================================
