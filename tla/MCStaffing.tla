----------------------------- MODULE MCStaffing -----------------------------
(* Instances of Staffing for TLC. *)
EXTENDS Staffing

NoDeps == [r \in Runs |-> {}]

\* Run 2 waits on run 1.
Chain == [r \in Runs |-> IF r = 2 THEN {1} ELSE {}]

=============================================================================
