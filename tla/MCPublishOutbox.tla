-------------------------- MODULE MCPublishOutbox --------------------------
(* An instance of PublishOutbox for TLC: every run has a row and every row a  *)
(* stale copy in a drain, and there is still an id for a new operation.       *)
EXTENDS PublishOutbox

CONSTANTS r1, r2

TwoRuns == {r1, r2}

FiveIds == {"a", "b", "c", "d", "e"}

=============================================================================
