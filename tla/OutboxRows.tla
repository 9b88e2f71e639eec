----------------------------- MODULE OutboxRows -----------------------------
(***************************************************************************)
(* What the publish outbox promises: one row a run, appended and cancelled  *)
(* at once; a drain claims the rows it finds and settles, in one step,      *)
(* those it claimed and nothing else.  A row that is gone comes back only   *)
(* through append, and a row appended during a drain survives it.           *)
(***************************************************************************)
EXTENDS Naturals

CONSTANTS
    Items,      \* the runs a row may belong to
    Op,         \* publish operations: records with an id and an attempt
    NoRow       \* no row: not an operation

VARIABLES
    rows,       \* the row of each run
    claimed     \* ids of the rows the drain under way read when it began

vars == <<rows, claimed>>

Row == Op \cup {NoRow}

\* Settling a claimed row keeps, retries or removes it; others are not touched.
Settled(old) ==
    IF old # NoRow /\ old.id \in claimed
    THEN {old, NoRow} \cup {op \in Op : op.id = old.id /\ op.attempt = old.attempt + 1}
    ELSE {old}

Init == rows = [i \in Items |-> NoRow] /\ claimed = {}

Append(i, op) == rows' = [rows EXCEPT ![i] = op] /\ UNCHANGED claimed

Cancel(i) == rows' = [rows EXCEPT ![i] = NoRow] /\ UNCHANGED claimed

Claim == claimed' = {rows[i].id : i \in {i \in Items : rows[i] # NoRow}} /\ UNCHANGED rows

Settle ==
    /\ claimed' = {}
    /\ rows' \in [Items -> Row]
    /\ \A i \in Items : rows'[i] \in Settled(rows[i])

\* A crash of the daemon: the drain is forgotten, the rows are not.
Forget == claimed' = {} /\ UNCHANGED rows

Next ==
    \/ \E i \in Items : (\E op \in Op : Append(i, op)) \/ Cancel(i)
    \/ Claim \/ Settle \/ Forget

Spec == Init /\ [][Next]_vars

=============================================================================
