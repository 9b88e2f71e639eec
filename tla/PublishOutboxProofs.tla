------------------------- MODULE PublishOutboxProofs -------------------------
(***************************************************************************)
(* The outbox implements OutboxRows, for any runs, ids and ladder.          *)
(*                                                                          *)
(* A drain rewrites the file from a copy it read some awaits ago.  That it  *)
(* settles just the rows it claimed rests on how the copy and the file can  *)
(* differ: a row of the file either is its run's row in the copy or has an  *)
(* id the copy does not know, and a row that has gone left a cancel mark.   *)
(***************************************************************************)
EXTENDS PublishOutbox, TLAPS

\* What the copy of a row may become by the time the drain writes it back.
Successors(old) ==
    IF old = NoRow THEN {NoRow}
    ELSE {old, NoRow} \cup {op \in Op : op.id = old.id /\ op.attempt = old.attempt + 1}

\* A row and a copy with the same id are the same row of the same run.
SameRow ==
    \A i, j \in Items :
      /\ rows[i] # NoRow /\ rows[i].id = rows[j].id => i = j
      /\ rows[i] # NoRow /\ rows[i].id = snapshot[j].id => i = j /\ rows[i] = snapshot[i]

\* Cancel marks tell exactly the runs whose row has gone since the copy was read.
Marked ==
    \A i \in Items :
      /\ rows[i] # NoRow => i \notin cancelled
      /\ rows[i] = NoRow => snapshot[i] = NoRow \/ i \in cancelled

Draining ==
    /\ \A i \in Items : kept[i] \in Successors(snapshot[i])
    /\ \A i \in todo \cup ({applying} \ {Nobody}) : snapshot[i].at = "later"
    /\ ~draining => snapshot = NoRows /\ kept = NoRows /\ todo = {} /\ applying = Nobody

IInv == TypeOK /\ SameRow /\ Marked /\ Draining

-----------------------------------------------------------------------------
\* NoRow is no operation: its id is not one.
LEMMA NoRowNoOp == NoRow \notin Op /\ NoRow.id = NoId /\ NoRow.attempt = 0 /\ NoRow.at = "never"
  BY OutboxAssumption DEF NoRow, Op

\* A row of the file is an operation, and no run without a row shares its id.
LEMMA RowIds ==
  ASSUME TypeOK, NEW i \in Items, rows[i] # NoRow
  PROVE  rows[i] \in Op /\ rows[i].id \in Ids /\ rows[i].id # NoRow.id
  BY NoRowNoOp, OutboxAssumption DEF TypeOK, Row, Op

\* planPublishRetry keeps to the ladder: a row planned for later has an attempt left.
LEMMA PlanKept ==
  ASSUME NEW n \in 1 .. MaxAttempts, NEW kind \in ErrorKinds, NEW id \in Ids
  PROVE  [id |-> id, attempt |-> n, at |-> PlanAt(n, kind)] \in Op
  BY OutboxAssumption DEF Op, PlanAt

\* append(): the new row's id is in neither the file nor the copy.
LEMMA AppendSound ==
  ASSUME IInv, NEW i \in Items, NEW kind \in ErrorKinds, AppendRow(i, 1, PlanAt(1, kind))
  PROVE  IInv' /\ \E op \in Op : Promise!Append(i, op)
  <1> DEFINE op == [id |-> FreshId, attempt |-> 1, at |-> PlanAt(1, kind)]
  <1>1. /\ FreshId \in Ids /\ \A j \in Items : rows[j].id # FreshId /\ snapshot[j].id # FreshId
        /\ rows' = [rows EXCEPT ![i] = op] /\ cancelled' = cancelled \ {i} /\ UNCHANGED drainVars
    BY DEF AppendRow, Written
  <1>2. op \in Op /\ op.id = FreshId /\ op # NoRow
    BY <1>1, PlanKept, NoRowNoOp, OutboxAssumption
  <1> HIDE DEF op
  <1>3. TypeOK'
    BY <1>1, <1>2 DEF IInv, TypeOK, drainVars, Row
  <1>4. \A j \in Items : rows'[j] = IF j = i THEN op ELSE rows[j]
    BY <1>1 DEF IInv, TypeOK
  <1>5. SameRow'
    BY <1>1, <1>2, <1>4, NoRowNoOp DEF IInv, SameRow, drainVars
  <1>6. Marked'
    BY <1>1, <1>2, <1>4 DEF IInv, Marked, drainVars
  <1>7. Draining'
    BY <1>1 DEF IInv, Draining, drainVars, Successors
  <1>8. Promise!Append(i, op)
    BY <1>1 DEF Promise!Append, drainVars
  <1> QED
    BY <1>2, <1>3, <1>5, <1>6, <1>7, <1>8 DEF IInv

\* cancel(): the mark stands for the row that is gone.
LEMMA CancelSound ==
  ASSUME IInv, NEW i \in Items, Cancel(i)
  PROVE  IInv' /\ Promise!Cancel(i)
  <1>1. /\ cancelled' = cancelled \cup {i}
        /\ rows' = [rows EXCEPT ![i] = NoRow] /\ UNCHANGED drainVars
    BY DEF Cancel
  <1>2. TypeOK'
    BY <1>1 DEF IInv, TypeOK, drainVars, Row
  <1>3. \A j \in Items : rows'[j] = IF j = i THEN NoRow ELSE rows[j]
    BY <1>1 DEF IInv, TypeOK
  <1>4. \A j \in Items : rows[j] # NoRow => rows[j].id # NoRow.id
    BY RowIds DEF IInv
  <1>5. SameRow'
    BY <1>1, <1>3, <1>4 DEF IInv, SameRow, drainVars
  <1>6. Marked'
    BY <1>1, <1>3 DEF IInv, Marked, drainVars
  <1>7. Draining'
    BY <1>1 DEF IInv, Draining, drainVars, Successors
  <1>8. Promise!Cancel(i)
    BY <1>1 DEF Promise!Cancel, drainVars
  <1> QED
    BY <1>2, <1>5, <1>6, <1>7, <1>8 DEF IInv

\* A drain begins: the copy is the file, and every row in it is claimed.
LEMMA DrainBeginSound ==
  ASSUME IInv, NEW due \in SUBSET Items, NEW first \in Items \cup {Nobody}, DrainBegin(due, first)
  PROVE  IInv' /\ Promise!Claim
  <1>1. /\ ~draining /\ draining'
        /\ \A i \in due : rows[i].at = "later"
        /\ IF due = {} THEN first = Nobody ELSE first \in due
        /\ snapshot' = rows /\ todo' = due \ {first} /\ applying' = first
        /\ kept' = [i \in Items |-> IF i \in due THEN NoRow ELSE rows[i]]
        /\ UNCHANGED <<rows, cancelled>>
    BY DEF DrainBegin
  <1>2. TypeOK'
    BY <1>1 DEF IInv, TypeOK, Row
  <1>3. SameRow'
    BY <1>1 DEF IInv, SameRow
  <1>4. Marked'
    BY <1>1 DEF IInv, Marked
  <1>5. Draining'
    <2>1. \A i \in Items : kept'[i] \in Successors(snapshot'[i])
      BY <1>1 DEF Successors
    <2>2. \A i \in todo' \cup ({applying'} \ {Nobody}) : snapshot'[i].at = "later"
      BY <1>1
    <2> QED
      BY <1>1, <2>1, <2>2 DEF Draining, Successors
  <1>6. Promise!Claim
    BY <1>1 DEF Promise!Claim
  <1> QED
    BY <1>2, <1>3, <1>4, <1>5, <1>6 DEF IInv

\* Applying a row changes the copy and never the file: a step the promise does not see.
Unseen == UNCHANGED <<rows, cancelled, draining, snapshot>>

LEMMA ApplySound ==
  ASSUME IInv, NEW i \in Items,
         ApplyBegin(i) \/ ApplyRemoves(i) \/ ApplyThrows(i) \/ \E kind \in ErrorKinds : ApplyKeeps(i, kind)
  PROVE  IInv' /\ UNCHANGED Promise!vars
  <1>1. Unseen
    BY DEF Unseen, ApplyBegin, ApplyRemoves, ApplyThrows, ApplyKeeps
  <1>2. SameRow' /\ Marked'
    BY <1>1 DEF IInv, SameRow, Marked, Unseen
  <1>3. UNCHANGED Promise!vars
    BY <1>1 DEF Unseen, Promise!vars
  <1>4. CASE ApplyBegin(i) \/ ApplyRemoves(i)
    <2>1. TypeOK'
      BY <1>1, <1>4 DEF IInv, TypeOK, Unseen, ApplyBegin, ApplyRemoves
    <2>2. Draining'
      BY <1>1, <1>4, OutboxAssumption DEF IInv, TypeOK, Draining, Unseen, ApplyBegin, ApplyRemoves, Successors
    <2> QED
      BY <1>2, <1>3, <2>1, <2>2 DEF IInv
  <1>5. CASE ApplyThrows(i)
    <2>1. TypeOK'
      BY <1>1, <1>5 DEF IInv, TypeOK, Unseen, ApplyThrows
    <2>2. Draining'
      BY <1>1, <1>5 DEF IInv, TypeOK, Draining, Unseen, ApplyThrows, Successors
    <2> QED
      BY <1>2, <1>3, <2>1, <2>2 DEF IInv
  <1>6. ASSUME NEW kind \in ErrorKinds, ApplyKeeps(i, kind)
        PROVE  IInv'
    <2> DEFINE n == snapshot[i].attempt + 1
               op == [id |-> snapshot[i].id, attempt |-> n, at |-> PlanAt(n, kind)]
    <2>1. /\ applying = i /\ applying' = Nobody /\ todo' = todo
          /\ kept' = [kept EXCEPT ![i] = op]
      BY <1>6 DEF ApplyKeeps
    <2>2. snapshot[i] \in Op /\ snapshot[i] # NoRow /\ snapshot[i].at = "later"
      BY <2>1, NoRowNoOp, OutboxAssumption DEF IInv, TypeOK, Row, Draining
    <2>3. n \in 1 .. MaxAttempts
      BY <2>2, OutboxAssumption DEF Op
    <2>5. op \in Op /\ op.id = snapshot[i].id /\ op.attempt = snapshot[i].attempt + 1
      BY <2>2, <2>3, PlanKept DEF Op
    <2> HIDE DEF op, n
    <2>6. TypeOK'
      BY <1>1, <2>1, <2>5 DEF IInv, TypeOK, Unseen, Row
    <2>7. Draining'
      <3>1. \A j \in Items : kept'[j] = IF j = i THEN op ELSE kept[j]
        BY <2>1 DEF IInv, TypeOK
      <3>2. op \in Successors(snapshot[i])
        BY <2>2, <2>5 DEF Successors
      <3>3. \A j \in Items : kept'[j] \in Successors(snapshot'[j])
        BY <1>1, <3>1, <3>2 DEF IInv, Draining, Unseen, Successors
      <3>4. draining'
        BY <1>1, <2>1, OutboxAssumption DEF IInv, Draining, Unseen
      <3> QED
        BY <1>1, <2>1, <3>3, <3>4 DEF IInv, Draining, Unseen
    <2> QED
      BY <1>2, <2>6, <2>7 DEF IInv
  <1> QED
    BY <1>3, <1>4, <1>5, <1>6

-----------------------------------------------------------------------------
\* The end of a drain: what it writes for a run is what settling its row allows.
LEMMA DrainEndSound ==
  ASSUME IInv, DrainEnd
  PROVE  IInv' /\ Promise!Settle
  <1> DEFINE claims == {snapshot[i].id : i \in {i \in Items : snapshot[i] # NoRow}}
  <1>1. /\ draining /\ draining' = FALSE /\ todo = {} /\ applying = Nobody
        /\ rows' = [i \in Items |-> Final(i)]
        /\ snapshot' = NoRows /\ kept' = NoRows
        /\ UNCHANGED <<cancelled, todo, applying>>
    BY DEF DrainEnd
  <1>2. ASSUME NEW i \in Items
        PROVE  /\ rows'[i] \in Row
               /\ rows'[i] # NoRow => rows'[i].id = rows[i].id /\ rows[i] # NoRow /\ i \notin cancelled
               /\ IF rows[i] # NoRow /\ rows[i].id \in claims
                  THEN rows'[i] \in {rows[i], NoRow} \cup
                         {op \in Op : op.id = rows[i].id /\ op.attempt = rows[i].attempt + 1}
                  ELSE rows'[i] = rows[i]
    <2>1. rows'[i] = Final(i)
      BY <1>1
    <2>2. kept[i] \in Successors(snapshot[i]) /\ kept[i] \in Row /\ rows[i] \in Row
      BY DEF IInv, TypeOK, Draining
    <2>3. CASE rows[i] = NoRow
      <3>1. i \in cancelled \/ kept[i] = NoRow
        BY <2>2, <2>3 DEF IInv, Marked, Successors
      <3>2. Final(i) = NoRow
        BY <2>3, <3>1 DEF Final, NewlyAppended
      <3> QED
        BY <2>1, <2>2, <2>3, <3>2
    <2>4. CASE rows[i] # NoRow /\ rows[i].id \in claims
      <3>1. rows[i] = snapshot[i]
        BY <2>4 DEF IInv, SameRow
      <3>2. ~NewlyAppended(i)
        BY <3>1 DEF NewlyAppended
      <3>3. Final(i) \in {NoRow, kept[i]}
        BY <3>2 DEF Final
      <3>4. i \notin cancelled
        BY <2>4 DEF IInv, Marked
      <3> QED
        BY <2>1, <2>2, <2>4, <3>1, <3>3, <3>4 DEF Successors, Row
    <2>5. CASE rows[i] # NoRow /\ rows[i].id \notin claims
      <3>1. \A j \in Items : snapshot[j].id # rows[i].id
        BY <2>5, RowIds DEF IInv
      <3>2. i \notin cancelled /\ NewlyAppended(i)
        BY <2>5, <3>1 DEF IInv, Marked, NewlyAppended
      <3> QED
        BY <2>1, <2>2, <2>5, <3>2 DEF Final
    <2> QED
      BY <2>3, <2>4, <2>5
  <1> HIDE DEF claims
  <1>3. NoRows \in [Items -> Row] /\ \A i \in Items : NoRows[i] = NoRow
    BY DEF NoRows, Row
  <1>4. TypeOK'
    BY <1>1, <1>2, <1>3 DEF IInv, TypeOK
  <1>5. SameRow'
    <2>1. \A i, j \in Items : rows'[i] # NoRow /\ rows'[i].id = rows'[j].id => i = j
      <3> SUFFICES ASSUME NEW i \in Items, NEW j \in Items, rows'[i] # NoRow, rows'[i].id = rows'[j].id
                   PROVE  i = j
        OBVIOUS
      <3>1. rows[i] # NoRow /\ rows'[i].id = rows[i].id /\ rows[i].id # NoRow.id
        BY <1>2, RowIds DEF IInv
      <3>2. rows'[j] # NoRow
        BY <3>1
      <3> QED
        BY <1>2, <3>1, <3>2 DEF IInv, SameRow
    <2>2. \A i, j \in Items : rows'[i] # NoRow => rows'[i].id # snapshot'[j].id
      BY <1>1, <1>2, <1>3, RowIds DEF IInv
    <2> QED
      BY <2>1, <2>2 DEF SameRow
  <1>6. Marked'
    BY <1>1, <1>2, <1>3 DEF Marked
  <1>7. Draining'
    BY <1>1, <1>3 DEF Draining, Successors
  <1>8. Promise!Settle
    BY <1>1, <1>2, <1>4 DEF Promise!Settle, Promise!Settled, Promise!Row, TypeOK, Row, claims
  <1> QED
    BY <1>4, <1>5, <1>6, <1>7, <1>8 DEF IInv

\* A crash loses the copy and the marks, and nothing of the file.
LEMMA CrashSound ==
  ASSUME IInv, Crash
  PROVE  IInv' /\ Promise!Forget
  <1>1. /\ cancelled' = {} /\ draining' = FALSE /\ snapshot' = NoRows /\ kept' = NoRows
        /\ todo' = {} /\ applying' = Nobody /\ UNCHANGED rows
    BY DEF Crash
  <1>2. NoRows \in [Items -> Row] /\ \A i \in Items : NoRows[i] = NoRow
    BY DEF NoRows, Row
  <1>3. TypeOK'
    BY <1>1, <1>2 DEF IInv, TypeOK
  <1>4. SameRow'
    BY <1>1, <1>2, RowIds DEF IInv, SameRow
  <1>5. Marked' /\ Draining'
    BY <1>1, <1>2 DEF Marked, Draining, Successors
  <1>6. Promise!Forget
    BY <1>1 DEF Promise!Forget
  <1> QED
    BY <1>3, <1>4, <1>5, <1>6 DEF IInv

-----------------------------------------------------------------------------
LEMMA InitSound == Init => IInv /\ Promise!Init
  <1> SUFFICES ASSUME Init PROVE IInv /\ Promise!Init
    OBVIOUS
  <1>1. NoRows \in [Items -> Row] /\ \A i \in Items : NoRows[i] = NoRow
    BY DEF NoRows, Row
  <1>2. TypeOK
    BY <1>1 DEF Init, TypeOK
  <1>3. SameRow /\ Marked /\ Draining
    BY <1>1 DEF Init, SameRow, Marked, Draining, Successors
  <1>4. Promise!Init
    BY DEF Init, Promise!Init, NoRows
  <1> QED
    BY <1>2, <1>3, <1>4 DEF IInv

LEMMA NextSound ==
  ASSUME IInv, [Next]_vars
  PROVE  IInv' /\ [Promise!Next]_(Promise!vars)
  <1>1. CASE UNCHANGED vars
    <2>1. UNCHANGED Promise!vars
      BY <1>1 DEF vars, drainVars, Promise!vars
    <2>2. IInv'
      BY <1>1 DEF vars, drainVars, IInv, TypeOK, SameRow, Marked, Draining
    <2> QED
      BY <2>1, <2>2
  <1>2. ASSUME NEW i \in Items, NEW kind \in ErrorKinds, AppendRow(i, 1, PlanAt(1, kind))
        PROVE  IInv' /\ Promise!Next
    BY <1>2, AppendSound DEF Promise!Next
  <1>3. ASSUME NEW i \in Items, Cancel(i)
        PROVE  IInv' /\ Promise!Next
    BY <1>3, CancelSound DEF Promise!Next
  <1>4. ASSUME NEW i \in Items,
               ApplyBegin(i) \/ ApplyRemoves(i) \/ ApplyThrows(i) \/ \E kind \in ErrorKinds : ApplyKeeps(i, kind)
        PROVE  IInv' /\ UNCHANGED Promise!vars
    BY <1>4, ApplySound
  <1>5. ASSUME NEW due \in SUBSET Items, NEW first \in Items \cup {Nobody}, DrainBegin(due, first)
        PROVE  IInv' /\ Promise!Next
    BY <1>5, DrainBeginSound DEF Promise!Next
  <1>6. CASE DrainEnd
    BY <1>6, DrainEndSound DEF Promise!Next
  <1>7. CASE Crash
    BY <1>7, CrashSound DEF Promise!Next
  <1> QED
    BY <1>1, <1>2, <1>3, <1>4, <1>5, <1>6, <1>7 DEF Next

\* Lines 387-451 for any number of runs: no interleaving of appends, cancels and
\* crashes with a drain loses, resurrects or repeats a row.
THEOREM Implementation == Spec => ImplementsRows
  <1>1. Spec => []IInv
    BY InitSound, NextSound, PTL DEF Spec
  <1>2. Init => Promise!Init
    BY InitSound
  <1>3. IInv /\ [Next]_vars => [Promise!Next]_(Promise!vars)
    BY NextSound
  <1> QED
    BY <1>1, <1>2, <1>3, PTL DEF Spec, ImplementsRows, Promise!Spec

\* Types, and the ladder: no row is retried beyond PUBLISH_MAX_ATTEMPTS.
THEOREM TypeCorrect == Spec => []TypeOK
  <1>1. Spec => []IInv
    BY InitSound, NextSound, PTL DEF Spec
  <1>2. IInv => TypeOK
    BY DEF IInv
  <1> QED
    BY <1>1, <1>2, PTL

=============================================================================
