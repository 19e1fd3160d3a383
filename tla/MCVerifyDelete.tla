--------------------------- MODULE MCVerifyDelete ---------------------------
(* Instances of VerifyDelete for TLC.                                       *)
EXTENDS VerifyDelete, TLC

CONSTANTS i1, i2, r1, r2

\* One Live Photo.
MCTwo == {i1, i2}
MCOnePair == (i1 :> i2) @@ (i2 :> i1)

\* Two tasks that do the same.
MCTasks == {r1, r2}
MCTaskSymmetry == Permutations(MCTasks)

=============================================================================
