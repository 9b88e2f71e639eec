---------------------------- MODULE PublishOutbox ----------------------------
(***************************************************************************)
(* The durable publish outbox (src/src/dispatch/publish-outbox.ts): a JSONL *)
(* file with at most one row a run, rewritten whole by append(), cancel()   *)
(* and the end of a drain.  A drain works on the rows it read when it       *)
(* began, awaits one publish after another, and only then rewrites the      *)
(* file; appends and cancels happen meanwhile.  A row is to be tried later  *)
(* (nextAttemptAt is a time) or never again (MAX_SAFE_INTEGER); a drain     *)
(* finds any of the former due.  The order of the file is abstracted.       *)
(***************************************************************************)
EXTENDS Integers

CONSTANTS
    Items,          \* the runs that may have a row
    Ids,            \* operation ids (UUIDs): one more than rows and snapshot can hold
    MaxAttempts     \* PUBLISH_MAX_ATTEMPTS

NoId == "no id"
Nobody == "nobody"

ASSUME OutboxAssumption ==
    /\ MaxAttempts \in Nat \ {0}
    /\ NoId \notin Ids /\ Nobody \notin Items

\* A row that will be retried has an attempt left on the ladder.
Op == {op \in [id : Ids, attempt : 1 .. MaxAttempts, at : {"later", "never"}] :
         op.at = "later" => op.attempt < MaxAttempts}
NoRow == [id |-> NoId, attempt |-> 0, at |-> "never"]
Row == Op \cup {NoRow}

VARIABLES
    rows,       \* the file: the row of each run, or NoRow
    cancelled,  \* this.cancelled: runs whose row must not be written back
    draining,   \* this.draining is set
    snapshot,   \* ops: the rows drainNow read
    kept,       \* kept: what will be written back of them
    todo,       \* runs whose due row is still to be applied
    applying    \* the run whose apply() is awaited, or Nobody

drainVars == <<draining, snapshot, kept, todo, applying>>
vars == <<rows, cancelled, drainVars>>

NoRows == [i \in Items |-> NoRow]

\* Types, and with them #227's bound: no row, and nothing a drain will write back,
\* is retried beyond PUBLISH_MAX_ATTEMPTS.
TypeOK ==
    /\ rows \in [Items -> Row]
    /\ cancelled \in SUBSET Items
    /\ draining \in BOOLEAN
    /\ snapshot \in [Items -> Row]
    /\ kept \in [Items -> Row]
    /\ todo \in SUBSET Items
    /\ applying \in Items \cup {Nobody}

-----------------------------------------------------------------------------
\* When the next attempt is due, given that attempt number n failed.  A permanent
\* error, or the last attempt, leaves a row that never falls due.
PlanAt(n, kind) == IF kind = "permanent" \/ n >= MaxAttempts THEN "never" ELSE "later"

ErrorKinds == {"transient", "permanent"}

FreshId == CHOOSE id \in Ids : \A i \in Items : rows[i].id # id /\ snapshot[i].id # id

Written(i, attempt, at) ==
    /\ FreshId \in Ids /\ \A j \in Items : rows[j].id # FreshId /\ snapshot[j].id # FreshId
    /\ rows' = [rows EXCEPT ![i] = [id |-> FreshId, attempt |-> attempt, at |-> at]]

\* append(): a new operation replaces the run's row and lifts its cancel mark.
AppendRow(i, attempt, at) ==
    /\ Written(i, attempt, at)
    /\ cancelled' = cancelled \ {i}
    /\ UNCHANGED drainVars

\* cancel(): the mark is set even when there is no row.
Cancel(i) ==
    /\ cancelled' = cancelled \cup {i}
    /\ rows' = [rows EXCEPT ![i] = NoRow]
    /\ UNCHANGED drainVars

\* drain(): one at a time.  Rows that are not due are kept as they are, and the
\* first that is due is applied before anything else can run.
DrainBegin(due, first) ==
    /\ ~draining
    /\ \A i \in due : rows[i].at = "later"
    /\ IF due = {} THEN first = Nobody ELSE first \in due
    /\ draining' = TRUE
    /\ snapshot' = rows
    /\ todo' = due \ {first}
    /\ applying' = first
    /\ kept' = [i \in Items |-> IF i \in due THEN NoRow ELSE rows[i]]
    /\ UNCHANGED <<rows, cancelled>>

ApplyBegin(i) ==
    /\ i \in todo /\ applying = Nobody
    /\ todo' = todo \ {i}
    /\ applying' = i
    /\ UNCHANGED <<rows, cancelled, draining, snapshot, kept>>

\* apply() removed the row: published, or no longer wanted.
ApplyRemoves(i) ==
    /\ applying = i
    /\ applying' = Nobody
    /\ UNCHANGED <<rows, cancelled, draining, snapshot, kept, todo>>

\* apply() failed again and plans the next attempt.
ApplyKeeps(i, kind) ==
    LET n == snapshot[i].attempt + 1
    IN  /\ applying = i
        /\ applying' = Nobody
        /\ kept' = [kept EXCEPT ![i] = [id |-> snapshot[i].id, attempt |-> n, at |-> PlanAt(n, kind)]]
        /\ UNCHANGED <<rows, cancelled, draining, snapshot, todo>>

\* apply() threw: the row stays as it was.
ApplyThrows(i) ==
    /\ applying = i
    /\ applying' = Nobody
    /\ kept' = [kept EXCEPT ![i] = snapshot[i]]
    /\ UNCHANGED <<rows, cancelled, draining, snapshot, todo>>

\* The run's row was appended after the drain read the file.
NewlyAppended(i) == rows[i] # NoRow /\ \A j \in Items : snapshot[j].id # rows[i].id

\* Mutant: the drain writes back what it kept, over whatever was appended.
FinalUnmerged(i) == IF i \in cancelled THEN NoRow ELSE kept[i]

Final(i) ==
    IF i \in cancelled THEN NoRow
    ELSE IF NewlyAppended(i) THEN rows[i] ELSE kept[i]

DrainEnd ==
    /\ draining /\ todo = {} /\ applying = Nobody
    /\ draining' = FALSE
    /\ rows' = [i \in Items |-> Final(i)]
    /\ snapshot' = NoRows /\ kept' = NoRows
    /\ UNCHANGED <<cancelled, todo, applying>>

\* The daemon dies and restarts: the file alone survives.
Crash ==
    /\ cancelled' = {}
    /\ draining' = FALSE
    /\ snapshot' = NoRows /\ kept' = NoRows
    /\ todo' = {} /\ applying' = Nobody
    /\ UNCHANGED <<rows>>

Init ==
    /\ rows = NoRows
    /\ cancelled = {}
    /\ draining = FALSE
    /\ snapshot = NoRows /\ kept = NoRows
    /\ todo = {} /\ applying = Nobody

\* A caller that publishes, fails and appends the first row, or cancels.
Next ==
    \/ \E i \in Items :
         \/ \E kind \in ErrorKinds : AppendRow(i, 1, PlanAt(1, kind)) \/ ApplyKeeps(i, kind)
         \/ Cancel(i)
         \/ ApplyBegin(i) \/ ApplyRemoves(i) \/ ApplyThrows(i)
    \/ \E due \in SUBSET Items, first \in Items \cup {Nobody} : DrainBegin(due, first)
    \/ DrainEnd \/ Crash

Spec == Init /\ [][Next]_vars

-----------------------------------------------------------------------------
(* Properties *)

\* Lines 437-439: a drain that awaited across cancels and appends still settles
\* its own rows and nothing else, as if it had rewritten the file in one step.
Promise == INSTANCE OutboxRows WITH
             claimed <- IF draining THEN {snapshot[i].id : i \in {i \in Items : snapshot[i] # NoRow}}
                        ELSE {}

ImplementsRows == Promise!Spec

=============================================================================
