---------------------------- MODULE MCRunPublish ----------------------------
(* An instance of RunPublish for TLC. *)
EXTENDS RunPublish, TLC

CONSTANTS r1, r2

OneRun == {r1}
TwoRuns == {r1, r2}

ThreeIds == {"a", "b", "c"}
FiveIds == {"a", "b", "c", "d", "e"}

Symmetry == Permutations(TwoRuns)

=============================================================================
