-------------------------- MODULE RunPublishProofs --------------------------
(***************************************************************************)
(* A publishing run is always owned, whatever crashes; and no two attempts  *)
(* of a run overlap as long as nothing crashes: for any runs, ids, ladder   *)
(* and number of re-checks.                                                 *)
(*                                                                          *)
(* What the outbox's file and the drain's copy of it know of each other is   *)
(* proved of the outbox by itself (PublishOutboxProofs); here it is joined   *)
(* with the ledger: a row that a drain will drop belongs to a run that is    *)
(* neither at work nor publishing, and a run that may still be staffed has   *)
(* left no trace in the outbox.                                             *)
(***************************************************************************)
EXTENDS RunPublish, TLAPS

\* The outbox, with what is proved of it.
Kept == INSTANCE PublishOutboxProofs WITH Items <- Runs

-----------------------------------------------------------------------------
(* The outbox inside this module *)

LEMMA OutboxKnown == Kept!OutboxAssumption
  BY RunPublishAssumption DEF Kept!OutboxAssumption, Nobody, Outbox!Nobody, Kept!Nobody, Outbox!NoId, Kept!NoId

LEMMA OneOutbox ==
  /\ NoRow = Kept!NoRow /\ Nobody = Kept!Nobody /\ Outbox!Row = Kept!Row /\ Outbox!NoRows = Kept!NoRows
  /\ Outbox!ErrorKinds = Kept!ErrorKinds
  BY DEF NoRow, Outbox!NoRow, Kept!NoRow, Outbox!NoId, Kept!NoId, Nobody, Outbox!Nobody, Kept!Nobody,
         Outbox!Row, Kept!Row, Outbox!Op, Kept!Op, Outbox!NoRows, Kept!NoRows, Outbox!ErrorKinds, Kept!ErrorKinds

\* What the file and the copy know of each other, in this module's terms.
Copies ==
    /\ Outbox!TypeOK
    /\ \A i, j \in Runs : rows[i] # NoRow /\ rows[i].id = snapshot[j].id => rows[i] = snapshot[i]
    /\ \A i \in Runs : rows[i] # NoRow => i \notin cancelled
    /\ \A i \in Runs : rows[i] = NoRow => snapshot[i] = NoRow \/ i \in cancelled
    /\ \A i \in Runs : snapshot[i] = NoRow => kept[i] = NoRow
    /\ \A i \in todo \cup ({applying} \ {Nobody}) : snapshot[i].at = "later"
    /\ ~draining => snapshot = Outbox!NoRows /\ kept = Outbox!NoRows /\ todo = {} /\ applying = Nobody

LEMMA CopiesKnown == Kept!IInv => Copies
  <1> SUFFICES ASSUME Kept!IInv PROVE Copies
    OBVIOUS
  <1>1. Outbox!TypeOK
    BY OneOutbox DEF Kept!IInv, Kept!TypeOK, Outbox!TypeOK, Nobody
  <1>2. \A i, j \in Runs : rows[i] # NoRow /\ rows[i].id = snapshot[j].id => rows[i] = snapshot[i]
    BY OneOutbox DEF Kept!IInv, Kept!SameRow
  <1>3. \A i \in Runs : /\ rows[i] # NoRow => i \notin cancelled
                        /\ rows[i] = NoRow => snapshot[i] = NoRow \/ i \in cancelled
    BY OneOutbox DEF Kept!IInv, Kept!Marked
  <1>4. \A i \in Runs : snapshot[i] = NoRow => kept[i] = NoRow
    BY OneOutbox DEF Kept!IInv, Kept!Draining, Kept!Successors
  <1>5. /\ \A i \in todo \cup ({applying} \ {Nobody}) : snapshot[i].at = "later"
        /\ ~draining => snapshot = Outbox!NoRows /\ kept = Outbox!NoRows /\ todo = {} /\ applying = Nobody
    BY OneOutbox DEF Kept!IInv, Kept!Draining
  <1> QED
    BY <1>1, <1>2, <1>3, <1>4, <1>5 DEF Copies

\* The steps the outbox takes here ...
OutboxStep ==
    \/ \E i \in Runs, kind \in Outbox!ErrorKinds :
         Outbox!AppendRow(i, 1, Outbox!PlanAt(1, kind)) \/ Outbox!ApplyKeeps(i, kind)
    \/ \E i \in Runs : Outbox!Cancel(i) \/ Outbox!ApplyBegin(i) \/ Outbox!ApplyRemoves(i)
    \/ \E due \in SUBSET Runs, i \in Runs \cup {Nobody} : Outbox!DrainBegin(due, i)
    \/ Outbox!DrainEnd \/ Outbox!Crash

\* ... are steps of its own specification.
LEMMA OutboxNext ==
  ASSUME OutboxStep \/ UNCHANGED outbox
  PROVE  [Kept!Next]_(Kept!vars)
  <1> USE DEF Kept!Next
  <1>1. ASSUME NEW i \in Runs, NEW kind \in Outbox!ErrorKinds,
               Outbox!AppendRow(i, 1, Outbox!PlanAt(1, kind))
        PROVE  Kept!Next
    <2>1. Outbox!FreshId = Kept!FreshId
      BY Zenon DEF Outbox!FreshId, Kept!FreshId
    <2>2. kind \in Kept!ErrorKinds /\ Outbox!PlanAt(1, kind) = Kept!PlanAt(1, kind)
      BY DEF Outbox!PlanAt, Kept!PlanAt, Outbox!ErrorKinds, Kept!ErrorKinds
    <2>3. Kept!AppendRow(i, 1, Kept!PlanAt(1, kind))
      BY <1>1, <2>1, <2>2 DEF Outbox!AppendRow, Kept!AppendRow, Outbox!Written, Kept!Written,
                              Outbox!drainVars, Kept!drainVars
    <2> QED
      BY <2>2, <2>3
  <1>2. ASSUME NEW i \in Runs, NEW kind \in Outbox!ErrorKinds, Outbox!ApplyKeeps(i, kind)
        PROVE  Kept!Next
    <2>1. Kept!ApplyKeeps(i, kind) /\ kind \in Kept!ErrorKinds
      BY <1>2, OneOutbox DEF Outbox!ApplyKeeps, Kept!ApplyKeeps, Outbox!PlanAt, Kept!PlanAt, Nobody
    <2> QED
      BY <2>1
  <1>3. ASSUME NEW i \in Runs, Outbox!Cancel(i) PROVE Kept!Next
    <2>1. Kept!Cancel(i)
      BY <1>3, OneOutbox DEF Outbox!Cancel, Kept!Cancel, Outbox!drainVars, Kept!drainVars, NoRow
    <2> QED
      BY <2>1
  <1>4. ASSUME NEW i \in Runs, Outbox!ApplyBegin(i) \/ Outbox!ApplyRemoves(i) PROVE Kept!Next
    <2>1. Kept!ApplyBegin(i) \/ Kept!ApplyRemoves(i)
      BY <1>4, OneOutbox
         DEF Outbox!ApplyBegin, Kept!ApplyBegin, Outbox!ApplyRemoves, Kept!ApplyRemoves, Nobody
    <2> QED
      BY <2>1
  <1>5. ASSUME NEW due \in SUBSET Runs, NEW i \in Runs \cup {Nobody}, Outbox!DrainBegin(due, i)
        PROVE  Kept!Next
    <2>1. Kept!DrainBegin(due, i) /\ i \in Runs \cup {Kept!Nobody}
      BY <1>5, OneOutbox DEF Outbox!DrainBegin, Kept!DrainBegin, Nobody, NoRow
    <2> QED
      BY <2>1
  <1>6. CASE Outbox!DrainEnd
    <2>1. ASSUME NEW i \in Runs PROVE Outbox!Final(i) = Kept!Final(i)
      BY OneOutbox DEF Outbox!Final, Kept!Final, Outbox!NewlyAppended, Kept!NewlyAppended, NoRow
    <2>2. [i \in Runs |-> Outbox!Final(i)] = [i \in Runs |-> Kept!Final(i)]
      BY <2>1
    <2>3. Kept!DrainEnd
      BY <1>6, <2>2, OneOutbox DEF Outbox!DrainEnd, Kept!DrainEnd, Nobody
    <2> QED
      BY <2>3
  <1>7. CASE Outbox!Crash
    <2>1. Kept!Crash
      BY <1>7, OneOutbox DEF Outbox!Crash, Kept!Crash, Nobody
    <2> QED
      BY <2>1
  <1>8. CASE UNCHANGED outbox
    BY <1>8 DEF outbox, Kept!vars, Kept!drainVars
  <1> QED
    BY <1>1, <1>2, <1>3, <1>4, <1>5, <1>6, <1>7, <1>8 DEF OutboxStep

LEMMA OutboxSound ==
  ASSUME Kept!IInv, OutboxStep \/ UNCHANGED outbox
  PROVE  Kept!IInv'
  BY OutboxKnown, OutboxNext, Kept!NextSound

LEMMA CopiesKept == Kept!IInv' => Copies'
  BY CopiesKnown, PTL

-----------------------------------------------------------------------------
(* The invariant *)

\* The row of the file that the drain has a copy of, and what it will write for it: nothing.
Claimed(i) == rows[i] # NoRow /\ rows[i] = snapshot[i]

Leaving(i) ==
    /\ Claimed(i)
    /\ \/ kept[i] = NoRow /\ i \notin todo /\ applying # i
       \/ applying = i /\ retry = "dropping"

\* A row leaves the file by a drain only when its run has landed or was given up.
Dropped == \A i \in Runs : Leaving(i) => state[i] \notin {"reviewing", "publishing"}

Owner(i) ==
    \/ <<i, "review">> \in pushing \cup advising \/ <<i, "boot">> \in pushing \cup advising
    \/ rows[i] # NoRow \/ i \in couriering

\* PublishingOwned through the boot: what has no owner yet is on the boot's list.
Owned ==
    \A i \in Runs : state[i] = "publishing" =>
      /\ boot = "up" => Owner(i)
      /\ boot = "resume" => Owner(i) \/ i \in owed

DogTypeOK ==
    dog \in [pc : {"idle", "advising", "checking", "holding"}, run : Runs \cup {Nobody},
             published : Records, prUrl : BOOLEAN, attempts : Nat]

\* A re-check is spent at most RecheckMax times, and once more for each death between the
\* last one and the park.
Counted ==
    /\ \A i \in Runs :
         /\ attempts[i] <= RecheckMax + crashes
         /\ state[i] = "unverified" /\ ~(dog.pc = "holding" /\ dog.run = i)
              => attempts[i] < RecheckMax + crashes
    /\ dog.pc = "checking" => dog.run \in Runs /\ dog.attempts \in 1 .. RecheckMax + crashes

IInv == Kept!IInv /\ TypeOK /\ DogTypeOK /\ Dropped /\ Owned /\ Counted

-----------------------------------------------------------------------------
(* The outbox's part of a step *)

LEMMA OutboxMoves ==
  ASSUME [Next]_vars
  PROVE  OutboxStep \/ UNCHANGED outbox
  <1> USE DEF OutboxStep, outbox
  <1>1. CASE UNCHANGED vars
    BY <1>1 DEF vars
  <1>2. ASSUME NEW i \in Runs, ReviewPasses(i) \/ ReviewHolds(i) \/ People(i) \/ BootResumes(i)
        PROVE  OutboxStep \/ UNCHANGED outbox
    BY <1>2 DEF ReviewPasses, ReviewHolds, People, Cancel, CourierBegins, CourierEnds, Backfill, Resume,
                BootResumes
  <1>3. ASSUME NEW call \in Calls, FirstAttempt(call) \/ FirstParks(call)
        PROVE  OutboxStep \/ UNCHANGED outbox
    <2>1. call[1] \in Runs
      BY DEF Calls
    <2> QED
      BY <1>3, <2>1 DEF FirstAttempt, FirstLands, FirstFails, FirstParks
  <1>4. CASE Drains
    <2>1. ASSUME NEW due \in SUBSET Runs, NEW i \in Runs \cup {Nobody}, DrainBegin(due, i)
          PROVE  OutboxStep
      BY <2>1 DEF DrainBegin
    <2>2. ASSUME NEW i \in Runs, ApplyBegin(i) \/ RetryDrops(i) \/ RetryParks(i) \/ RetryLands(i)
          PROVE  OutboxStep
      BY <2>2 DEF ApplyBegin, RetryDrops, RetryParks, RetryLands, Outbox!ErrorKinds
    <2>3. ASSUME NEW i \in Runs, NEW kind \in Outbox!ErrorKinds, RetryFails(i, kind)
          PROVE  OutboxStep \/ UNCHANGED outbox
      BY <2>3 DEF RetryFails
    <2>4. CASE DrainEnd
      BY <2>4 DEF DrainEnd
    <2> QED
      BY <1>4, <2>1, <2>2, <2>3, <2>4 DEF Drains
  <1>5. CASE Watchdog
    BY <1>5 DEF Watchdog, StallBegins, RecheckBegins, StallParks, RecheckVerifies, RecheckPending,
                RecheckFails, RecheckParks
  <1>6. CASE Crash \/ BootLists \/ BootUp
    BY <1>6 DEF Crash, BootLists, BootUp
  <1> QED
    BY <1>1, <1>2, <1>3, <1>4, <1>5, <1>6 DEF Next

\* append(): the new row is not one that the drain read.
LEMMA AppendWrites ==
  ASSUME Copies, NEW i \in Runs, NEW at, Outbox!AppendRow(i, 1, at)
  PROVE  /\ rows'[i] # NoRow /\ rows'[i] # snapshot[i]
         /\ \A j \in Runs \ {i} : rows'[j] = rows[j]
         /\ UNCHANGED <<draining, snapshot, kept, todo, applying>>
  <1> DEFINE op == [id |-> Outbox!FreshId, attempt |-> 1, at |-> at]
  <1>1. /\ Outbox!FreshId \in Ids /\ snapshot[i].id # Outbox!FreshId
        /\ rows' = [rows EXCEPT ![i] = op] /\ UNCHANGED Outbox!drainVars
    BY DEF Outbox!AppendRow, Outbox!Written
  <1>2. op.id = Outbox!FreshId
    OBVIOUS
  <1>3. op # NoRow /\ op # snapshot[i]
    BY <1>1, <1>2, RunPublishAssumption DEF NoRow, Outbox!NoRow, Outbox!NoId
  <1> HIDE DEF op
  <1>4. rows \in [Runs -> Outbox!Row]
    BY DEF Copies, Outbox!TypeOK
  <1> QED
    BY <1>1, <1>3, <1>4 DEF Outbox!drainVars

\* The end of a drain takes from the file the rows that were leaving, and adds none.
LEMMA DrainWrites ==
  ASSUME Copies, Outbox!DrainEnd, NEW i \in Runs
  PROVE  /\ rows[i] = NoRow => rows'[i] = NoRow
         /\ rows[i] # NoRow /\ ~Leaving(i) => rows'[i] # NoRow
  <1>1. rows'[i] = Outbox!Final(i) /\ todo = {} /\ applying = Nobody
    BY DEF Outbox!DrainEnd, Nobody
  <1>2. CASE rows[i] = NoRow
    <2>1. i \in cancelled \/ kept[i] = NoRow
      BY <1>2 DEF Copies
    <2>2. ~Outbox!NewlyAppended(i)
      BY <1>2 DEF Outbox!NewlyAppended, NoRow
    <2> QED
      BY <1>1, <1>2, <2>1, <2>2 DEF Outbox!Final, NoRow
  <1>3. CASE rows[i] # NoRow
    <2>1. i \notin cancelled
      BY <1>3 DEF Copies
    <2>2. CASE Outbox!NewlyAppended(i)
      BY <1>1, <1>3, <2>1, <2>2 DEF Outbox!Final
    <2>3. CASE ~Outbox!NewlyAppended(i)
      <3>1. Claimed(i)
        BY <1>3, <2>3 DEF Copies, Outbox!NewlyAppended, Claimed, NoRow
      <3>2. ~Leaving(i) => kept[i] # NoRow
        BY <1>1, <3>1, RunPublishAssumption DEF Leaving
      <3> QED
        BY <1>1, <1>3, <2>1, <2>3, <3>2 DEF Outbox!Final
    <2> QED
      BY <2>2, <2>3
  <1> QED
    BY <1>2, <1>3

-----------------------------------------------------------------------------
(* The steps, one part of the invariant after the other *)

\* The re-checks: an attempt is spent by a re-check that fails, and by nothing else.
LEMMA CountedKept ==
  ASSUME IInv, [Next]_vars
  PROVE  Counted'
  <1> USE RunPublishAssumption DEF IInv, TypeOK, Counted
  <1>1. CASE UNCHANGED vars
    BY <1>1 DEF vars, ledger
  <1>2. ASSUME NEW i \in Runs, ReviewPasses(i) \/ ReviewHolds(i) \/ Resume(i) \/ BootResumes(i)
                               \/ Cancel(i) \/ CourierBegins(i) \/ Backfill(i)
        PROVE  Counted'
    BY <1>2 DEF ReviewPasses, ReviewHolds, Resume, BootResumes, Cancel, CourierBegins, Backfill,
                Publish, Hold, ledger
  <1>3. ASSUME NEW i \in Runs, NEW record, NEW verdict, Land(i, record, verdict), UNCHANGED <<dog, crashes>>
        PROVE  Counted'
    BY <1>3 DEF Land
  <1>4. ASSUME NEW i \in Runs, CourierEnds(i) PROVE Counted'
    BY <1>3, <1>4 DEF CourierEnds
  <1>5. ASSUME NEW call \in Calls, FirstAttempt(call) \/ FirstParks(call) PROVE Counted'
    <2>1. call[1] \in Runs
      BY DEF Calls
    <2>2. CASE FirstLands(call)
      BY <1>3, <2>1, <2>2 DEF FirstLands, FinalizePublish
    <2>3. CASE FirstParks(call)
      BY <2>1, <2>3 DEF FirstParks, Hold
    <2>4. ASSUME NEW kind \in Outbox!ErrorKinds, FirstFails(call, kind) PROVE Counted'
      BY <2>4 DEF FirstFails, ledger
    <2> QED
      BY <1>5, <2>2, <2>3, <2>4 DEF FirstAttempt
  <1>6. CASE Drains
    <2>1. ASSUME NEW i \in Runs, RetryLands(i) PROVE Counted'
      BY <1>3, <2>1 DEF RetryLands, FinalizePublish
    <2>2. ASSUME NEW i \in Runs, RetryParks(i) PROVE Counted'
      BY <2>2 DEF RetryParks, Hold
    <2>3. ASSUME NEW i \in Runs, ApplyBegin(i) \/ RetryDrops(i) PROVE Counted'
      BY <2>3 DEF ApplyBegin, RetryDrops, ledger
    <2>4. ASSUME NEW i \in Runs, NEW kind \in Outbox!ErrorKinds, RetryFails(i, kind) PROVE Counted'
      BY <2>4 DEF RetryFails, ledger
    <2>5. ASSUME NEW due \in SUBSET Runs, NEW i \in Runs \cup {Nobody}, DrainBegin(due, i) PROVE Counted'
      BY <2>5 DEF DrainBegin, ledger
    <2>6. CASE DrainEnd
      BY <2>6 DEF DrainEnd, ledger
    <2> QED
      BY <1>6, <2>1, <2>2, <2>3, <2>4, <2>5, <2>6 DEF Drains
  <1>7. CASE Watchdog
    <2> USE DEF DogTypeOK, DogIdle
    <2>1. ASSUME NEW i \in Runs, StallBegins(i) PROVE Counted'
      BY <2>1 DEF StallBegins, ledger
    <2>2. ASSUME NEW i \in Runs, RecheckBegins(i) PROVE Counted'
      <3>1. dog' = [pc |-> "checking", run |-> i, published |-> published[i], prUrl |-> prUrl[i],
                    attempts |-> attempts[i] + 1] /\ UNCHANGED <<attempts, state, crashes>>
        BY <2>2 DEF RecheckBegins, ledger
      <3>2. attempts[i] \in Nat /\ attempts[i] < RecheckMax + crashes /\ dog.pc = "idle"
        BY <2>2 DEF RecheckBegins
      <3> QED
        BY <3>1, <3>2
    <2>3. CASE StallParks
      BY <2>3 DEF StallParks, Hold
    <2>4. CASE RecheckVerifies
      BY <2>4 DEF RecheckVerifies, ProofPatched
    <2>5. CASE RecheckPending
      BY <2>5 DEF RecheckPending, ProofPatched
    <2>6. CASE RecheckFails
      BY <2>6 DEF RecheckFails, ProofPatched
    <2>7. CASE RecheckParks
      BY <2>7 DEF RecheckParks, Hold
    <2> QED
      BY <1>7, <2>1, <2>2, <2>3, <2>4, <2>5, <2>6, <2>7 DEF Watchdog
  <1>8. CASE Crash
    BY <1>8 DEF Crash, ledger, DogIdle
  <1>9. CASE BootLists \/ BootUp
    BY <1>9 DEF BootLists, BootUp, ledger
  <1> QED
    BY <1>1, <1>2, <1>4, <1>5, <1>6, <1>7, <1>8, <1>9 DEF Next, People

\* The types of what the outbox does not hold; the number of re-checks is Counted's.
LedgerTypeOK ==
    /\ state \in [Runs -> States]
    /\ published \in [Runs -> Records] /\ prUrl \in [Runs -> BOOLEAN]
    /\ blocker \in [Runs -> {"none", "admin-permission", "transient"}]
    /\ proof \in [Runs -> {"none", "unverified", "verified"}]
    /\ attempts \in [Runs -> Nat]
    /\ pushing \in SUBSET Calls /\ advising \in SUBSET Calls
    /\ retry \in {"idle", "dropping", "pushing", "advising"}
    /\ couriering \in SUBSET Runs
    /\ DogTypeOK
    /\ boot \in {"drain", "drained", "resume", "up"} /\ owed \in SUBSET Runs
    /\ crashes \in 0 .. MaxCrashes

LEMMA LedgerTypeKept ==
  ASSUME IInv, [Next]_vars
  PROVE  LedgerTypeOK'
  <1> USE RunPublishAssumption DEF States, Records
  <1>0. LedgerTypeOK
    BY DEF IInv, TypeOK, LedgerTypeOK
  <1>1. CASE UNCHANGED vars
    BY <1>0, <1>1 DEF vars, ledger, LedgerTypeOK, DogTypeOK
  <1>2. ASSUME NEW i \in Runs, ReviewPasses(i) \/ ReviewHolds(i) \/ Resume(i) \/ BootResumes(i)
        PROVE  LedgerTypeOK'
    BY <1>0, <1>2 DEF ReviewPasses, ReviewHolds, Resume, BootResumes, Publish, Hold, ledger, Calls,
                      LedgerTypeOK, DogTypeOK
  <1>3. ASSUME NEW i \in Runs, Cancel(i) \/ CourierBegins(i) \/ Backfill(i)
        PROVE  LedgerTypeOK'
    <2>1. CASE Cancel(i) \/ CourierBegins(i)
      BY <1>0, <2>1 DEF Cancel, CourierBegins, ledger, LedgerTypeOK, DogTypeOK
    <2>2. CASE Backfill(i)
      BY <1>0, <2>2 DEF Backfill, LedgerTypeOK, DogTypeOK
    <2> QED
      BY <1>3, <2>1, <2>2
  <1>4. ASSUME NEW i \in Runs, CourierEnds(i) PROVE LedgerTypeOK'
    BY <1>0, <1>4 DEF CourierEnds, Land, ProofOf, LedgerTypeOK, DogTypeOK
  <1>5. ASSUME NEW call \in Calls, FirstAttempt(call) \/ FirstParks(call) PROVE LedgerTypeOK'
    <2>1. call[1] \in Runs
      BY DEF Calls
    <2>2. CASE FirstLands(call)
      BY <1>0, <2>1, <2>2 DEF FirstLands, FinalizePublish, Land, ProofOf, LedgerTypeOK, DogTypeOK
    <2>3. CASE FirstParks(call)
      BY <1>0, <2>1, <2>3 DEF FirstParks, Hold, LedgerTypeOK, DogTypeOK
    <2>4. ASSUME NEW kind \in Outbox!ErrorKinds, FirstFails(call, kind) PROVE LedgerTypeOK'
      BY <1>0, <2>4 DEF FirstFails, ledger, LedgerTypeOK, DogTypeOK
    <2> QED
      BY <1>5, <2>2, <2>3, <2>4 DEF FirstAttempt
  <1>6. CASE Drains
    <2>1. ASSUME NEW i \in Runs, RetryLands(i) PROVE LedgerTypeOK'
      BY <1>0, <2>1 DEF RetryLands, FinalizePublish, Land, ProofOf, LedgerTypeOK, DogTypeOK
    <2>2. ASSUME NEW i \in Runs, RetryParks(i) PROVE LedgerTypeOK'
      BY <1>0, <2>2 DEF RetryParks, Hold, LedgerTypeOK, DogTypeOK
    <2>3. ASSUME NEW i \in Runs, ApplyBegin(i) \/ RetryDrops(i) PROVE LedgerTypeOK'
      BY <1>0, <2>3 DEF ApplyBegin, RetryDrops, ledger, ApplyPc, LedgerTypeOK, DogTypeOK
    <2>4. ASSUME NEW i \in Runs, NEW kind \in Outbox!ErrorKinds, RetryFails(i, kind) PROVE LedgerTypeOK'
      BY <1>0, <2>4 DEF RetryFails, ledger, LedgerTypeOK, DogTypeOK
    <2>5. ASSUME NEW due \in SUBSET Runs, NEW i \in Runs \cup {Nobody}, DrainBegin(due, i) PROVE LedgerTypeOK'
      BY <1>0, <2>5 DEF DrainBegin, ledger, ApplyPc, LedgerTypeOK, DogTypeOK
    <2>6. CASE DrainEnd
      BY <1>0, <2>6 DEF DrainEnd, ledger, LedgerTypeOK, DogTypeOK
    <2> QED
      BY <1>6, <2>1, <2>2, <2>3, <2>4, <2>5, <2>6 DEF Drains
  <1>7. CASE Watchdog
    <2>0. dog.run \in Runs \cup {Nobody} /\ dog.attempts \in Nat
      BY <1>0 DEF LedgerTypeOK, DogTypeOK, DogIdle
    <2>1. ASSUME NEW i \in Runs, StallBegins(i) PROVE LedgerTypeOK'
      <3>1. DogTypeOK'
        BY <2>1 DEF StallBegins, DogIdle, DogTypeOK
      <3> QED
        BY <1>0, <2>1, <3>1 DEF StallBegins, ledger, LedgerTypeOK
    <2>2. ASSUME NEW i \in Runs, RecheckBegins(i) PROVE LedgerTypeOK'
      <3>1. DogTypeOK'
        BY <1>0, <2>2 DEF RecheckBegins, LedgerTypeOK, DogTypeOK
      <3> QED
        BY <1>0, <2>2, <3>1 DEF RecheckBegins, ledger, LedgerTypeOK
    <2>3. ASSUME dog' = DogIdle \/ dog' = [dog EXCEPT !.pc = "holding"] PROVE DogTypeOK'
      <3>1. CASE dog' = DogIdle
        BY <3>1 DEF DogTypeOK, DogIdle
      <3>2. CASE dog' = [dog EXCEPT !.pc = "holding"]
        <4>1. DogTypeOK
          BY <1>0 DEF LedgerTypeOK
        <4> QED
          BY <3>2, <4>1 DEF DogTypeOK
      <3> QED
        BY <2>3, <3>1, <3>2
    <2>4. CASE StallParks
      <3>1. DogTypeOK'
        BY <2>3, <2>4 DEF StallParks
      <3> QED
        BY <1>0, <2>4, <3>1 DEF StallParks, Hold, LedgerTypeOK
    <2>5. CASE RecheckParks
      <3>1. DogTypeOK'
        BY <2>3, <2>5 DEF RecheckParks
      <3> QED
        BY <1>0, <2>5, <3>1 DEF RecheckParks, Hold, LedgerTypeOK
    <2>6. CASE RecheckPending
      <3>1. dog.attempts - 1 \in Nat
        BY <2>6 DEF RecheckPending, IInv, Counted
      <3>2. DogTypeOK'
        BY <2>3, <2>6 DEF RecheckPending
      <3> QED
        BY <1>0, <2>6, <3>1, <3>2 DEF RecheckPending, ProofPatched, ProofOf, LedgerTypeOK
    <2>7. CASE RecheckVerifies
      <3>1. DogTypeOK'
        BY <2>3, <2>7 DEF RecheckVerifies
      <3> QED
        BY <1>0, <2>0, <2>7, <3>1 DEF RecheckVerifies, ProofPatched, ProofOf, LedgerTypeOK
    <2>8. CASE RecheckFails
      <3>1. DogTypeOK'
        BY <2>3, <2>8 DEF RecheckFails
      <3> QED
        BY <1>0, <2>0, <2>8, <3>1 DEF RecheckFails, ProofPatched, ProofOf, LedgerTypeOK
    <2> QED
      BY <1>7, <2>1, <2>2, <2>4, <2>5, <2>6, <2>7, <2>8 DEF Watchdog
  <1>8. CASE Crash
    BY <1>0, <1>8 DEF Crash, ledger, DogIdle, LedgerTypeOK, DogTypeOK
  <1>9. CASE BootLists \/ BootUp
    BY <1>0, <1>9 DEF BootLists, BootUp, ledger, LedgerTypeOK, DogTypeOK
  <1> QED
    BY <1>1, <1>2, <1>3, <1>4, <1>5, <1>6, <1>7, <1>8, <1>9 DEF Next, People

LEMMA TypeKept ==
  ASSUME LedgerTypeOK', Copies', Counted'
  PROVE  TypeOK' /\ DogTypeOK'
  BY RunPublishAssumption DEF LedgerTypeOK, DogTypeOK, TypeOK, Copies, Counted

-----------------------------------------------------------------------------
\* What leaves Dropped as it is: the outbox does not move, and no run with a row goes
\* back to work or to publishing.
Calm ==
    /\ UNCHANGED <<outbox, retry>>
    /\ \A i \in Runs : state'[i] \in {"reviewing", "publishing"}
                         => state[i] \in {"reviewing", "publishing"} \/ rows[i] = NoRow

LEMMA DroppedKept ==
  ASSUME IInv, [Next]_vars
  PROVE  Dropped'
  <1> USE RunPublishAssumption DEF IInv, TypeOK, Dropped, Leaving, Claimed
  <1>0. Copies
    BY CopiesKnown
  <1>1. CASE Calm
    BY <1>1 DEF Calm, outbox
  <1>2. CASE UNCHANGED vars
    BY <1>2 DEF vars, ledger, outbox
  <1>3. ASSUME NEW i \in Runs, ReviewPasses(i) \/ ReviewHolds(i) \/ CourierEnds(i) \/ Backfill(i) \/ Resume(i)
        PROVE  Calm
    BY <1>3 DEF Calm, ReviewPasses, ReviewHolds, CourierEnds, Backfill, Resume, PublishBlocked, Publish,
                Hold, Land, ledger, outbox
  <1>4. ASSUME NEW i \in Runs, BootResumes(i)
        PROVE  Calm
    BY <1>4 DEF Calm, BootResumes, Publish, ledger, outbox
  <1>5. ASSUME NEW i \in Runs, Cancel(i) \/ CourierBegins(i)
        PROVE  Dropped'
    BY <1>5 DEF Cancel, CourierBegins, Outbox!Cancel, Outbox!drainVars, Outbox!TypeOK, NoRow, ledger
  <1>6. ASSUME NEW call \in Calls, FirstAttempt(call) \/ FirstParks(call)
        PROVE  Dropped'
    <2>1. call[1] \in Runs
      BY DEF Calls
    <2>2. CASE FirstLands(call) \/ FirstParks(call)
      <3>1. UNCHANGED outbox /\ retry' = retry
        BY <2>2 DEF FirstLands, FirstParks
      <3>2. CASE FirstLands(call)
        BY <2>1, <3>1, <3>2, <1>1 DEF Calm, FirstLands, FinalizePublish, Land
      <3>3. CASE FirstParks(call)
        BY <2>1, <3>1, <3>3, <1>1 DEF Calm, FirstParks, Hold
      <3> QED
        BY <2>2, <3>2, <3>3
    <2>3. ASSUME NEW kind \in Outbox!ErrorKinds, FirstFails(call, kind)
          PROVE  Dropped'
      <3>1. /\ rows'[call[1]] # snapshot[call[1]]
            /\ \A j \in Runs \ {call[1]} : rows'[j] = rows[j]
            /\ UNCHANGED <<snapshot, kept, todo, applying, retry, state>>
        BY <1>0, <2>1, <2>3, AppendWrites DEF FirstFails, ledger
      <3> QED
        BY <3>1
    <2> QED
      BY <1>6, <2>2, <2>3 DEF FirstAttempt
  <1>7. CASE Drains
    <2>1. ASSUME NEW due \in SUBSET Runs, NEW i \in Runs \cup {Nobody}, DrainBegin(due, i)
          PROVE  Dropped'
      BY <2>1 DEF DrainBegin, Outbox!DrainBegin, ApplyPc, RUN_TERMINAL, RUN_FINAL, NoRow, ledger
    <2>2. ASSUME NEW i \in Runs, ApplyBegin(i) PROVE Dropped'
      BY <2>2 DEF ApplyBegin, Outbox!ApplyBegin, ApplyPc, RUN_TERMINAL, RUN_FINAL, Nobody, ledger
    <2>3. ASSUME NEW i \in Runs, RetryDrops(i) PROVE Dropped'
      BY <2>3 DEF RetryDrops, Outbox!ApplyRemoves, Nobody, ledger
    <2>4. ASSUME NEW i \in Runs, RetryLands(i) PROVE Dropped'
      BY <2>4 DEF RetryLands, Outbox!ApplyRemoves, FinalizePublish, Land, Nobody
    <2>5. ASSUME NEW i \in Runs, RetryParks(i) PROVE Dropped'
      BY <2>5 DEF RetryParks, Outbox!ApplyKeeps, Hold, Nobody, Copies, Outbox!TypeOK
    <2>6. ASSUME NEW i \in Runs, NEW kind \in Outbox!ErrorKinds, RetryFails(i, kind) PROVE Dropped'
      <3>1. CASE UNCHANGED outbox
        BY <2>6, <3>1 DEF RetryFails, outbox, ledger
      <3>2. CASE Outbox!ApplyKeeps(i, kind)
        <4>1. applying = i /\ UNCHANGED <<rows, snapshot, todo, state>>
              /\ \A j \in Runs \ {i} : kept'[j] = kept[j]
          BY <2>6, <3>2 DEF RetryFails, Outbox!ApplyKeeps, Outbox!TypeOK, Copies, ledger
        <4>2. kept'[i] # NoRow
          <5> DEFINE op == [id |-> snapshot[i].id, attempt |-> snapshot[i].attempt + 1,
                            at |-> Outbox!PlanAt(snapshot[i].attempt + 1, kind)]
          <5>1. kept'[i] = op
            BY <1>0, <3>2 DEF Outbox!ApplyKeeps, Outbox!TypeOK, Copies
          <5>2. snapshot[i] \in Outbox!Row /\ snapshot[i].at = "later"
            BY <1>0, <4>1 DEF Copies, Outbox!TypeOK
          <5>3. op.id \in Ids
            BY <5>2 DEF Outbox!Row, Outbox!Op, Outbox!NoRow
          <5> HIDE DEF op
          <5> QED
            BY <5>1, <5>3 DEF NoRow, Outbox!NoRow
        <4>3. applying' \notin Runs
          BY <3>2 DEF Outbox!ApplyKeeps, Nobody
        <4> QED
          BY <4>1, <4>2, <4>3
      <3> QED
        BY <2>6, <3>1, <3>2 DEF RetryFails
    <2>7. CASE DrainEnd
      BY <2>7 DEF DrainEnd, Outbox!DrainEnd, Outbox!NoRows, NoRow
    <2> QED
      BY <1>7, <2>1, <2>2, <2>3, <2>4, <2>5, <2>6, <2>7 DEF Drains
  <1>8. CASE Watchdog
    <2>1. Calm
      BY <1>8 DEF Calm, Watchdog, StallBegins, RecheckBegins, StallParks, RecheckVerifies, RecheckPending,
                  RecheckFails, RecheckParks, Hold, ProofPatched, ledger, outbox
    <2> QED
      BY <1>1, <2>1
  <1>9. CASE Crash
    BY <1>9 DEF Crash, Outbox!Crash, Outbox!NoRows, NoRow
  <1>10. CASE BootLists \/ BootUp
    BY <1>10 DEF BootLists, BootUp, ledger, outbox
  <1> QED
    BY <1>1, <1>2, <1>3, <1>4, <1>5, <1>6, <1>7, <1>8, <1>9, <1>10 DEF Next, People

-----------------------------------------------------------------------------
\* A step that leaves the boot alone and takes no owner from a run that stays publishing.
Faithful ==
    /\ UNCHANGED <<boot, owed>>
    /\ \A i \in Runs : state'[i] = "publishing" => Owner(i)' \/ (state[i] = "publishing" /\ ~Owner(i))

LEMMA OwnedKept ==
  ASSUME IInv, [Next]_vars
  PROVE  Owned'
  <1> USE DEF IInv, TypeOK
  <1>0. Copies
    BY CopiesKnown
  <1>1. CASE Faithful
    BY <1>1 DEF Faithful, Owned
  <1>2. CASE UNCHANGED vars
    BY <1>2 DEF vars, ledger, outbox, Owned, Owner
  <1>3. ASSUME NEW i \in Runs, ReviewPasses(i) PROVE Faithful
    BY <1>3 DEF Faithful, ReviewPasses, Publish, Owner, outbox
  <1>4. ASSUME NEW i \in Runs, ReviewHolds(i) \/ Backfill(i) \/ Resume(i) PROVE Faithful
    BY <1>4 DEF Faithful, ReviewHolds, Backfill, Resume, Hold, Owner, outbox
  <1>5. ASSUME NEW i \in Runs, Cancel(i) \/ CourierBegins(i) PROVE Faithful
    BY <1>5 DEF Faithful, Cancel, CourierBegins, Outbox!Cancel, Outbox!TypeOK, Owner, ledger
  <1>6. ASSUME NEW i \in Runs, CourierEnds(i) PROVE Faithful
    BY <1>6 DEF Faithful, CourierEnds, Land, Owner, outbox
  <1>7. ASSUME NEW i \in Runs, BootResumes(i) PROVE Owned'
    <2>1. /\ boot = "resume" /\ boot' = boot /\ owed' = owed \ {i}
          /\ UNCHANGED <<rows, advising, couriering>> /\ pushing \subseteq pushing'
      BY <1>7 DEF BootResumes, Publish, outbox
    <2>2. \A j \in Runs \ {i} : state'[j] = state[j]
      BY <1>7 DEF BootResumes, Publish, ledger
    <2>3. rows[i] # NoRow \/ <<i, "boot">> \in pushing'
      BY <1>7 DEF BootResumes, Publish
    <2>4. \A j \in Runs : Owner(j) => Owner(j)'
      BY <2>1 DEF Owner
    <2>5. Owner(i)'
      BY <2>1, <2>3 DEF Owner
    <2> QED
      BY <2>1, <2>2, <2>4, <2>5 DEF Owned
  <1>8. ASSUME NEW call \in Calls, FirstAttempt(call) \/ FirstParks(call) PROVE Faithful
    <2>1. call[1] \in Runs
      BY DEF Calls
    <2>2. CASE FirstLands(call)
      BY <2>1, <2>2 DEF Faithful, FirstLands, FinalizePublish, Land, Owner, outbox
    <2>3. CASE FirstParks(call)
      <3>1. /\ \A i \in Runs : state'[i] = "publishing" => state[i] = "publishing" /\ i # call[1]
            /\ advising' = advising \ {call} /\ UNCHANGED <<rows, pushing, couriering, boot, owed>>
        BY <2>1, <2>3 DEF FirstParks, Hold, outbox
      <3>2. ASSUME NEW i \in Runs, i # call[1], Owner(i) PROVE Owner(i)'
        BY <3>1, <3>2 DEF Owner
      <3> QED
        BY <3>1, <3>2 DEF Faithful
    <2>4. ASSUME NEW kind \in Outbox!ErrorKinds, FirstFails(call, kind) PROVE Faithful
      <3>1. /\ rows'[call[1]] # NoRow /\ \A j \in Runs \ {call[1]} : rows'[j] = rows[j]
            /\ pushing' = pushing \ {call} /\ advising \subseteq advising'
            /\ UNCHANGED <<state, couriering, boot, owed>>
        BY <1>0, <2>1, <2>4, AppendWrites DEF FirstFails, ledger
      <3>2. Owner(call[1])'
        BY <3>1 DEF Owner
      <3>3. ASSUME NEW i \in Runs, i # call[1], Owner(i) PROVE Owner(i)'
        BY <3>1, <3>3 DEF Owner
      <3> QED
        BY <3>1, <3>2, <3>3 DEF Faithful
    <2> QED
      BY <1>8, <2>2, <2>3, <2>4 DEF FirstAttempt
  <1>9. CASE Drains
    <2>1. ASSUME NEW due \in SUBSET Runs, NEW i \in Runs \cup {Nobody}, DrainBegin(due, i)
          PROVE  Owned'
      BY <2>1 DEF DrainBegin, Outbox!DrainBegin, Owned, Owner, ledger
    <2>2. ASSUME NEW i \in Runs, ApplyBegin(i) \/ RetryDrops(i) PROVE Faithful
      BY <2>2 DEF Faithful, ApplyBegin, Outbox!ApplyBegin, RetryDrops, Outbox!ApplyRemoves, Owner, ledger
    <2>3. ASSUME NEW i \in Runs, RetryLands(i) PROVE Faithful
      BY <2>3 DEF Faithful, RetryLands, Outbox!ApplyRemoves, FinalizePublish, Land, Owner
    <2>4. ASSUME NEW i \in Runs, RetryParks(i) PROVE Faithful
      BY <2>4 DEF Faithful, RetryParks, Outbox!ApplyKeeps, Hold, Owner
    <2>5. ASSUME NEW i \in Runs, NEW kind \in Outbox!ErrorKinds, RetryFails(i, kind) PROVE Faithful
      <3>1. UNCHANGED <<rows, pushing, advising, couriering, boot, owed, state>>
        BY <2>5 DEF RetryFails, Outbox!ApplyKeeps, outbox, ledger
      <3> QED
        BY <3>1 DEF Faithful, Owner
    <2>6. CASE DrainEnd
      <3>1. UNCHANGED <<pushing, advising, couriering, boot, owed, state>>
        BY <2>6 DEF DrainEnd, ledger
      <3>2. ASSUME NEW i \in Runs, state[i] = "publishing", rows[i] # NoRow PROVE rows'[i] # NoRow
        <4>1. ~Leaving(i)
          BY <3>2 DEF Dropped
        <4> QED
          BY <1>0, <2>6, <3>2, <4>1, DrainWrites DEF DrainEnd
      <3> QED
        <4>1. ASSUME NEW i \in Runs, state[i] = "publishing", Owner(i) PROVE Owner(i)'
          BY <3>1, <3>2, <4>1 DEF Owner
        <4>2. Faithful
          BY <3>1, <4>1 DEF Faithful
        <4> QED
          BY <1>1, <4>2
    <2> QED
      BY <1>1, <1>9, <2>1, <2>2, <2>3, <2>4, <2>5, <2>6 DEF Drains
  <1>10. CASE Watchdog
    <2>1. /\ UNCHANGED <<rows, pushing, advising, couriering, boot, owed>>
          /\ \A i \in Runs : state'[i] = "publishing" => state[i] = "publishing"
      BY <1>10 DEF Watchdog, StallBegins, RecheckBegins, StallParks, RecheckVerifies, RecheckPending,
                   RecheckFails, RecheckParks, Hold, ledger, outbox
    <2>2. \A i \in Runs : Owner(i) => Owner(i)'
      BY <2>1 DEF Owner
    <2>3. Faithful
      BY <2>1, <2>2 DEF Faithful
    <2> QED
      BY <1>1, <2>3
  <1>11. CASE Crash
    BY <1>11 DEF Crash, Owned
  <1>12. CASE BootLists
    BY <1>12 DEF BootLists, Owned, ledger
  <1>13. CASE BootUp
    <2>1. boot = "resume" /\ owed = {} /\ UNCHANGED <<rows, pushing, advising, couriering, state, owed>>
      BY <1>13 DEF BootUp, ledger, outbox
    <2> QED
      BY <2>1 DEF Owned, Owner
  <1> QED
    BY <1>1, <1>2, <1>3, <1>4, <1>5, <1>6, <1>7, <1>8, <1>9, <1>10, <1>11, <1>12, <1>13 DEF Next, People

-----------------------------------------------------------------------------
(* The theorems *)

LEMMA InitSound == Init => IInv
  <1> SUFFICES ASSUME Init PROVE IInv
    OBVIOUS
  <1>1. Kept!IInv
    <2>1. Kept!Init
      BY OneOutbox DEF Init, Outbox!Init, Kept!Init, Nobody
    <2> QED
      BY <2>1, OutboxKnown, Kept!InitSound
  <1>2. Copies
    BY <1>1, CopiesKnown
  <1>3. DogTypeOK
    BY DEF Init, DogIdle, DogTypeOK, Records
  <1>4. TypeOK
    BY <1>2, RunPublishAssumption
       DEF Init, TypeOK, Copies, States, Records, Calls, DogIdle
  <1>5. Dropped /\ Owned
    BY DEF Init, Dropped, Leaving, Claimed, Owned, Outbox!Init, Outbox!NoRows, NoRow
  <1>6. Counted
    BY RunPublishAssumption DEF Init, Counted, DogIdle
  <1> QED
    BY <1>1, <1>3, <1>4, <1>5, <1>6 DEF IInv

LEMMA IInvKept == IInv /\ [Next]_vars => IInv'
  <1> SUFFICES ASSUME IInv, [Next]_vars PROVE IInv'
    OBVIOUS
  <1>1. Kept!IInv'
    BY OutboxMoves, OutboxSound DEF IInv
  <1>2. Copies' /\ Counted' /\ LedgerTypeOK'
    BY <1>1, CopiesKept, CountedKept, LedgerTypeKept
  <1>3. TypeOK' /\ DogTypeOK'
    BY <1>2, TypeKept
  <1> QED
    BY <1>1, <1>2, <1>3, DroppedKept, OwnedKept DEF IInv

LEMMA IInvAlways == Spec => []IInv
  BY InitSound, IInvKept, PTL DEF Spec

\* The types, and the bound on the attempts that re-checks of a proof spend: at most
\* proof_recheck_max, and one more for each death of the daemon in between.
THEOREM TypeCorrect == Spec => []TypeOK
  <1>1. IInv => TypeOK
    BY DEF IInv
  <1> QED
    BY IInvAlways, <1>1, PTL

\* Whatever crashes, cancels, couriers or resumes, a run that a booted daemon shows as
\* publishing has an attempt under way, a row in the outbox or a courier: the drain never
\* takes the row of a publishing run, and start() finds every run that lost its attempt.
THEOREM OwnedCorrect == Spec => []PublishingOwned
  <1>1. IInv => PublishingOwned
    BY DEF IInv, TypeOK, Owned, Owner, PublishingOwned, Publishers, Calls
  <1> QED
    BY IInvAlways, <1>1, PTL

\* The supervisor uses the outbox as PublishOutbox says, so what a drain promises holds here,
\* whichever handlers come between its awaits: a drain settles the rows it claimed and nothing
\* else, a row that is gone comes back only through a failed first attempt, and one that is
\* appended during a drain survives it (dispatch/publish-outbox.ts, lines 387-451).
THEOREM PromiseCorrect == Spec => Kept!ImplementsRows
  <1>1. Init => Kept!Init
    BY OneOutbox DEF Init, Outbox!Init, Kept!Init, Nobody
  <1>2. [Next]_vars => [Kept!Next]_(Kept!vars)
    BY OutboxMoves, OutboxNext
  <1>3. Kept!Spec => Kept!ImplementsRows
    BY OutboxKnown, Kept!Implementation
  <1> QED
    BY <1>1, <1>2, <1>3, PTL DEF Spec, Kept!Spec

-----------------------------------------------------------------------------
(* A daemon that does not die *)

Pushed(i) == <<i, "review">> \in pushing

\* Nothing of the run is in the outbox or in a drain's hands.
Free(i) == rows[i] = NoRow /\ i \notin todo /\ applying # i

\* The run is at work, or may be resumed to it.
Fresh(i) ==
    \/ state[i] = "reviewing"
    \/ state[i] = "parked" /\ blocker[i] # "admin-permission" /\ published[i] = "none"

Alone ==
    /\ boot = "up" /\ pushing \subseteq Runs \X {"review"}
    /\ \A i \in Runs : state[i] = "unverified" => published[i] # "none"
    /\ dog.pc \in {"checking", "holding"} => dog.run \in Runs /\ published[dog.run] # "none"
    /\ \A i \in Runs : Fresh(i) => ~Pushed(i) /\ Free(i)
    /\ \A i \in Runs : Pushed(i) => Free(i)

\* A step of a run, or of nobody, after which what was fresh or pushed is so no more, or
\* was it before; what is free stays free as long as it matters.
Parting ==
    /\ boot' = boot /\ pushing' \subseteq pushing
    /\ \A i \in Runs : Fresh(i)' => Fresh(i)
    /\ \A i \in Runs : Free(i) /\ (Fresh(i)' \/ Pushed(i)') => Free(i)'

Proven ==
    /\ \A i \in Runs : published[i] # "none" => published'[i] # "none"
    /\ \A i \in Runs : state'[i] = "unverified" => state[i] = "unverified" \/ published'[i] # "none"
    /\ dog'.pc \in {"checking", "holding"}
         => dog'.run \in Runs /\ (published[dog'.run] # "none" \/ state[dog'.run] = "unverified")

LEMMA AloneParts ==
  ASSUME Alone, Parting, Proven
  PROVE  Alone'
  <1> USE DEF Alone, Parting, Proven
  <1>1. \A i \in Runs : Pushed(i)' => Pushed(i)
    BY DEF Pushed
  <1> HIDE DEF Pushed, Free, Fresh
  <1> QED
    BY <1>1

LEMMA AloneKept ==
  ASSUME MaxCrashes = 0, IInv, Alone, [Next]_vars
  PROVE  Alone'
  <1> USE DEF IInv, TypeOK
  <1>0. Copies
    BY CopiesKnown
  <1>1. CASE UNCHANGED vars
    BY <1>1 DEF vars, ledger, outbox, Alone, Fresh, Free, Pushed
  <1>2. ASSUME NEW i \in Runs, ReviewPasses(i) PROVE Alone'
    <2>1. Fresh(i)
      BY <1>2 DEF ReviewPasses, Fresh
    <2>2. /\ pushing' = pushing \cup {<<i, "review">>} /\ state' = [state EXCEPT ![i] = "publishing"]
          /\ UNCHANGED <<published, blocker, outbox, dog, boot>>
      BY <1>2 DEF ReviewPasses, Publish
    <2> QED
      BY <2>1, <2>2 DEF Alone, Fresh, Free, Pushed, outbox
  <1>3. ASSUME NEW i \in Runs, ReviewHolds(i) \/ Resume(i) \/ Backfill(i) PROVE Alone'
    <2>1. Parting
      BY <1>3 DEF Parting, ReviewHolds, Resume, Backfill, PublishBlocked, Hold, Fresh, Free, Pushed, outbox
    <2>2. Proven
      BY <1>3 DEF Proven, ReviewHolds, Resume, Backfill, Hold, Alone
    <2> QED
      BY <2>1, <2>2, AloneParts
  <1>4. ASSUME NEW i \in Runs, Cancel(i) \/ CourierBegins(i) PROVE Alone'
    <2>1. Parting
      BY <1>4 DEF Parting, Cancel, CourierBegins, Outbox!Cancel, Outbox!drainVars, Fresh, Free, Pushed, ledger,
                  Outbox!TypeOK, NoRow
    <2>2. Proven
      BY <1>4 DEF Proven, Cancel, CourierBegins, Alone, ledger
    <2> QED
      BY <2>1, <2>2, AloneParts
  <1>5. ASSUME NEW i \in Runs, CourierEnds(i) PROVE Alone'
    <2>1. Parting
      BY <1>5 DEF Parting, CourierEnds, Land, Fresh, Free, Pushed, outbox
    <2>2. Proven
      BY <1>5 DEF Proven, CourierEnds, Land, Alone
    <2> QED
      BY <2>1, <2>2, AloneParts
  <1>6. ASSUME NEW call \in Calls, FirstAttempt(call) \/ FirstParks(call) PROVE Alone'
    <2>0. call[1] \in Runs
      BY DEF Calls
    <2>1. CASE FirstLands(call)
      <3>1. Parting
        BY <2>0, <2>1 DEF Parting, FirstLands, FinalizePublish, Land, Fresh, Free, Pushed, outbox
      <3>2. Proven
        BY <2>0, <2>1 DEF Proven, FirstLands, FinalizePublish, Land, Alone
      <3> QED
        BY <3>1, <3>2, AloneParts
    <2>2. CASE FirstParks(call)
      <3>1. Parting
        BY <2>0, <2>2 DEF Parting, FirstParks, Hold, Fresh, Free, Pushed, outbox
      <3>2. Proven
        BY <2>0, <2>2 DEF Proven, FirstParks, Hold, Alone
      <3> QED
        BY <3>1, <3>2, AloneParts
    <2>3. ASSUME NEW kind \in Outbox!ErrorKinds, FirstFails(call, kind) PROVE Alone'
      <3>1. Pushed(call[1]) /\ call = <<call[1], "review">>
        BY <2>3 DEF FirstFails, Alone, Pushed
      <3>2. /\ pushing' = pushing \ {call} /\ UNCHANGED <<ledger, dog, boot, todo, applying>>
            /\ \A j \in Runs \ {call[1]} : rows'[j] = rows[j]
        BY <1>0, <2>0, <2>3, AppendWrites DEF FirstFails
      <3>3. ~Fresh(call[1]) /\ ~Pushed(call[1])'
        BY <2>0, <3>1, <3>2 DEF Alone, Pushed
      <3>4. Parting
        BY <3>2, <3>3 DEF Parting, Fresh, Free, Pushed, ledger
      <3>5. Proven
        BY <3>2 DEF Proven, Alone, ledger
      <3> QED
        BY <3>4, <3>5, AloneParts
    <2> QED
      BY <1>6, <2>1, <2>2, <2>3 DEF FirstAttempt
  <1>7. CASE Drains
    <2>1. ASSUME NEW due \in SUBSET Runs, NEW i \in Runs \cup {Nobody}, DrainBegin(due, i)
          PROVE  Parting /\ Proven
      <3>1. /\ UNCHANGED <<ledger, rows, pushing, dog>> /\ boot' = boot
            /\ \A j \in Runs : j \in todo' \/ applying' = j => rows[j].at = "later"
        <4>1. applying' = i /\ todo' \subseteq due /\ (i = Nobody \/ i \in due)
              /\ \A j \in due : rows[j].at = "later"
          BY <2>1 DEF DrainBegin, Outbox!DrainBegin, Nobody
        <4>2. UNCHANGED <<ledger, rows, pushing, dog>> /\ boot' = boot
          BY <2>1 DEF DrainBegin, Outbox!DrainBegin, Alone
        <4> QED
          BY <4>1, <4>2, RunPublishAssumption
      <3>2. \A j \in Runs : Free(j) => Free(j)'
        BY <3>1 DEF Free, NoRow, Outbox!NoRow
      <3> QED
        BY <3>1, <3>2 DEF Parting, Proven, Fresh, Pushed, Alone, ledger
    <2>2. ASSUME NEW i \in Runs, ApplyBegin(i) \/ RetryDrops(i) PROVE Parting /\ Proven
      BY <2>2, RunPublishAssumption
         DEF Parting, Proven, ApplyBegin, Outbox!ApplyBegin, RetryDrops, Outbox!ApplyRemoves, Fresh, Free,
             Pushed, Alone, ledger, Nobody
    <2>3. ASSUME NEW i \in Runs, RetryLands(i) PROVE Parting /\ Proven
      BY <2>3, RunPublishAssumption
         DEF Parting, Proven, RetryLands, Outbox!ApplyRemoves, FinalizePublish, Land, Fresh, Free, Pushed,
             Alone, Nobody
    <2>4. ASSUME NEW i \in Runs, RetryParks(i) PROVE Parting /\ Proven
      BY <2>4, RunPublishAssumption
         DEF Parting, Proven, RetryParks, Outbox!ApplyKeeps, Hold, Fresh, Free, Pushed, Alone, Nobody
    <2>5. ASSUME NEW i \in Runs, NEW kind \in Outbox!ErrorKinds, RetryFails(i, kind)
          PROVE  Parting /\ Proven
      <3>1. /\ UNCHANGED <<ledger, rows, todo, pushing, dog, boot>>
            /\ applying' \in {applying, Nobody}
        BY <2>5 DEF RetryFails, Outbox!ApplyKeeps, outbox, Nobody
      <3> QED
        BY <3>1, RunPublishAssumption DEF Parting, Proven, Fresh, Free, Pushed, Alone, ledger
    <2>6. CASE DrainEnd
      <3>1. UNCHANGED <<ledger, pushing, dog, boot>> /\ todo' = todo /\ applying' = applying
        BY <2>6 DEF DrainEnd, Outbox!DrainEnd
      <3>2. \A i \in Runs : rows[i] = NoRow => rows'[i] = NoRow
        BY <1>0, <2>6, DrainWrites DEF DrainEnd
      <3>3. Parting /\ Proven
        BY <3>1, <3>2 DEF Parting, Proven, Fresh, Free, Pushed, Alone, ledger
      <3> QED
        BY <3>3, AloneParts
    <2> QED
      BY <1>7, <2>1, <2>2, <2>3, <2>4, <2>5, <2>6, AloneParts DEF Drains
  <1>8. CASE Watchdog
    <2>1. ASSUME NEW i \in Runs, StallBegins(i) \/ RecheckBegins(i) PROVE Parting /\ Proven
      <3>1. UNCHANGED <<ledger, outbox, pushing, boot>>
        BY <2>1 DEF StallBegins, RecheckBegins
      <3>2. dog'.pc = "advising" \/ (dog'.pc = "checking" /\ dog'.run = i /\ state[i] = "unverified")
        <4>1. CASE StallBegins(i)
          <5>1. dog' = [DogIdle EXCEPT !.pc = "advising", !.run = i]
            BY <4>1 DEF StallBegins
          <5> QED
            BY <5>1 DEF DogIdle
        <4>2. CASE RecheckBegins(i)
          BY <4>2 DEF RecheckBegins
        <4> QED
          BY <2>1, <4>1, <4>2
      <3>3. Parting
        BY <3>1 DEF Parting, Fresh, Free, Pushed, ledger, outbox
      <3> QED
        BY <3>1, <3>2, <3>3 DEF Proven, Alone, ledger
    <2>2. CASE StallParks
      <3>1. Parting /\ Proven
        BY <2>2 DEF Parting, Proven, StallParks, Hold, DogIdle, Fresh, Free, Pushed, Alone, outbox
      <3> QED
        BY <3>1, AloneParts
    <2>3. CASE RecheckParks
      <3>1. Parting
        BY <2>3 DEF Parting, RecheckParks, Hold, Fresh, Free, Pushed, Alone, outbox
      <3>2. Proven
        BY <2>3 DEF Proven, RecheckParks, Hold, DogIdle, Alone
      <3> QED
        BY <3>1, <3>2, AloneParts
    <2>4. CASE RecheckVerifies \/ RecheckPending
      <3>1. Parting
        BY <2>4 DEF Parting, RecheckVerifies, RecheckPending, ProofPatched, Fresh, Free, Pushed, outbox
      <3>2. Proven
        BY <2>4 DEF Proven, RecheckVerifies, RecheckPending, ProofPatched, DogIdle, Alone
      <3> QED
        BY <3>1, <3>2, AloneParts
    <2>5. CASE RecheckFails
      <3>1. Parting
        BY <2>5 DEF Parting, RecheckFails, ProofPatched, Fresh, Free, Pushed, outbox
      <3>2. dog' = DogIdle \/ dog' = [dog EXCEPT !.pc = "holding"]
        BY <2>5 DEF RecheckFails
      <3>3. dog'.pc = "holding" => dog'.run = dog.run
        BY <3>2 DEF DogIdle, DogTypeOK
      <3>4. UNCHANGED <<state, published>> /\ dog.pc = "checking" /\ dog'.pc \in {"idle", "holding"}
        BY <2>5, <3>2 DEF RecheckFails, ProofPatched, DogIdle, DogTypeOK
      <3>5. Proven
        BY <3>3, <3>4 DEF Proven, Alone
      <3> QED
        BY <3>1, <3>5, AloneParts
    <2> QED
      BY <1>8, <2>1, <2>2, <2>3, <2>4, <2>5, AloneParts DEF Watchdog
  <1>9. ~Crash /\ ~BootLists /\ ~BootUp /\ \A i \in Runs : ~BootResumes(i)
    BY DEF Crash, BootLists, BootUp, BootResumes, Alone
  <1> HIDE DEF IInv, TypeOK
  <1> QED
    BY <1>1, <1>2, <1>3, <1>4, <1>5, <1>6, <1>7, <1>8, <1>9 DEF Next, People

\* In a daemon that does not die, no two attempts to publish a run overlap and none runs
\* beside a worker of the run, for any runs, ids, requests and interleaving: the guards of
\* resume(), the drain and publishRun, on three different pieces of state, exclude it.
THEOREM OnePublisherCorrect ==
  ASSUME MaxCrashes = 0
  PROVE  Spec => []OnePublisher
  <1>1. Init => Alone
    BY RunPublishAssumption
       DEF Init, Alone, Fresh, Free, Pushed, Outbox!Init, Outbox!NoRows, NoRow, DogIdle, Nobody
  <1>2. IInv /\ Alone /\ [Next]_vars => Alone'
    BY AloneKept
  <1>3. Alone => OnePublisher
    <2> SUFFICES ASSUME Alone, NEW i \in Runs
                 PROVE  /\ \A c, d \in Publishers(i) : c = d
                        /\ Publishers(i) # {} => ~Retrying(i) /\ rows[i] = NoRow
                        /\ state[i] = "reviewing" => Publishers(i) = {} /\ ~Retrying(i)
      BY DEF OnePublisher
    <2>1. \A c \in Publishers(i) : c = <<i, "review">> /\ Pushed(i)
      BY DEF Alone, Publishers, Pushed
    <2>2. Pushed(i) \/ Fresh(i) => ~Retrying(i) /\ rows[i] = NoRow
      BY DEF Alone, Free, Retrying
    <2>3. state[i] = "reviewing" => Fresh(i) /\ ~Pushed(i)
      BY DEF Alone, Fresh
    <2> QED
      BY <2>1, <2>2, <2>3
  <1> QED
    BY <1>1, <1>2, <1>3, IInvAlways, PTL DEF Spec

=============================================================================
