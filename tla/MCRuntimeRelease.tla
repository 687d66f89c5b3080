--------------------------- MODULE MCRuntimeRelease ---------------------------
(* Instance of RuntimeRelease for TLC. *)
EXTENDS RuntimeRelease, TLC

\* Four processes in an automatic split, one for a small nest, and a split given
\* in full that leaves nine rows and is refused.
MCRequests == {
  [domains |-> {<<41, 41>>, <<25, 20>>}, nx |-> Automatic, ny |-> Automatic],
  [domains |-> {<<41, 41>>, <<22, 13>>}, nx |-> 1, ny |-> Automatic],
  [domains |-> {<<41, 39>>}, nx |-> 1, ny |-> 4]}

MCSymmetry == Permutations(Releases) \cup Permutations(Transactions)

=============================================================================
