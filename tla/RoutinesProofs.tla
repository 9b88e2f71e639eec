--------------------------- MODULE RoutinesProofs ---------------------------
(***************************************************************************)
(* The routine scheduler and the watched feed, proved one after the other:  *)
(* two modules that share nothing but this file, as they share MCQueues.     *)
(* Each theorem assumes that the limits of its module are numbers.           *)
(***************************************************************************)
EXTENDS Routines, WatchLoop, FiniteSetTheorems, SequenceTheorems, TLAPS

-----------------------------------------------------------------------------
(***************************************************************************)
(* A routine fires once in a period, for any routines, overlapping passes,  *)
(* days and deaths of the daemon.  The claim on file is what tells the next  *)
(* pass that a day was taken; so the invariant says that a day which was     *)
(* dispatched for, or is in a dispatch, is claimed on file, and by one pass. *)
(***************************************************************************)

\* What a pass holds: its list, and the copy it will write back
Listing == [id : Routine, on : BOOLEAN, st : Records]
PassRecord == [at : {"idle", "walk", "dispatch"}, todo : SUBSET Listing, budget : 0..1,
               id : Routine \cup {0}, day : 0..MaxDay, base : Records, force : BOOLEAN]

Dispatching(p, r) == round[p].at = "dispatch" /\ ~round[p].force /\ round[p].id = r

RoutinesTypes ==
    /\ record \in [Routine -> Records] /\ listed \in [Routine -> {"on", "off", "gone"}]
    /\ today \in 1..MaxDay /\ minute \in 1..3
    /\ round \in [Doers -> PassRecord]
    /\ asked \in 0..MaxAsked /\ trouble \in 0..MaxTrouble
    /\ fires \in [Routine -> [1..MaxDay -> 0..2]] /\ overwritten \in SUBSET Routine

\* No copy, on file or in a pass, is from a day to come.
NotAhead ==
    /\ \A r \in Routine : record[r].fired <= today
    /\ \A p \in Doers : /\ round[p].base.fired <= today
                        /\ \A s \in round[p].todo : s.st.fired <= today
                        /\ round[p].at = "dispatch" => round[p].id \in Routine /\ round[p].day \in 1..today

\* Of a routine that nothing excuses: a day it was dispatched for, or is in a dispatch for, is
\* claimed on file, and only one of the two is the case, once.
ClaimHolds(r) ==
    /\ \A d \in 1..MaxDay : fires[r][d] # 2 /\ (fires[r][d] = 1 => d <= record[r].fired)
    /\ \A p \in Doers : Dispatching(p, r) =>
          /\ round[p].day <= record[r].fired
          /\ fires[r][round[p].day] = 0
          /\ \A q \in Doers : Dispatching(q, r) /\ round[q].day = round[p].day => q = p

ClaimsHold == \A r \in Routine \ overwritten : ClaimHolds(r)

RoutinesInv == RoutinesTypes /\ NotAhead /\ ClaimsHold

-----------------------------------------------------------------------------
LEMMA RecordsFields ==
    ASSUME NEW st \in Records
    PROVE  st.fired \in Nat /\ st.period \in Nat /\ st.chosen \in Nat
  BY RoutinesAssumption DEF Records

LEMMA RoutinesInitially == RoutinesInit => RoutinesInv
<1> SUFFICES ASSUME RoutinesInit PROVE RoutinesInv
  OBVIOUS
<1>1. Never \in Records /\ Never.fired = 0
  BY RoutinesAssumption DEF Never, Records
<1>2. NoRound \in PassRecord /\ NoRound.at = "idle" /\ NoRound.todo = {} /\ NoRound.base = Never
  BY <1>1, RoutinesAssumption DEF NoRound, PassRecord
<1>3. RoutinesTypes
  BY <1>1, <1>2, RoutinesAssumption DEF RoutinesInit, RoutinesTypes
<1>4. NotAhead
  BY <1>1, <1>2 DEF RoutinesInit, NotAhead
<1>5. ClaimsHold
  <2> SUFFICES ASSUME NEW r \in Routine PROVE ClaimHolds(r)
    BY DEF ClaimsHold
  <2>1. \A d \in 1..MaxDay : fires[r][d] = 0
    BY DEF RoutinesInit
  <2>2. \A p \in Doers : ~Dispatching(p, r)
    BY <1>2 DEF RoutinesInit, Dispatching
  <2> QED BY <2>1, <2>2 DEF ClaimHolds
<1> QED BY <1>3, <1>4, <1>5 DEF RoutinesInv

-----------------------------------------------------------------------------
(* What a step must do for the claims to hold after it *)

\* A state is written: of other routines nothing, of a removed one nothing.
LEMMA Written ==
    ASSUME RoutinesTypes, NEW r \in Routine, NEW st \in Records, SetRoutineState(r, st)
    PROVE  /\ record' \in [Routine -> Records]
           /\ \A x \in Routine : x # r => record'[x] = record[x]
           /\ record'[r] = IF listed[r] = "gone" THEN record[r] ELSE st
  BY DEF RoutinesTypes, SetRoutineState

\* A claim stands if no step takes it back, starts a dispatch or ends one with a post.
LEMMA ClaimsStand ==
    ASSUME RoutinesTypes, RoutinesTypes', ClaimsHold,
           overwritten \subseteq overwritten', fires' = fires,
           \A r \in Routine \ overwritten' : record[r].fired <= record'[r].fired,
           \A p \in Doers : round'[p].at = "dispatch" /\ ~round'[p].force => round'[p] = round[p]
    PROVE  ClaimsHold'
<1> SUFFICES ASSUME NEW r \in Routine, r \notin overwritten' PROVE ClaimHolds(r)'
  BY DEF ClaimsHold
<1>1. ClaimHolds(r) /\ record[r].fired <= record'[r].fired
  BY DEF ClaimsHold
<1>2. record[r].fired \in Nat /\ record'[r].fired \in Nat
  BY RecordsFields DEF RoutinesTypes
<1>3. ASSUME NEW d \in 1..MaxDay
      PROVE  fires'[r][d] # 2 /\ (fires'[r][d] = 1 => d <= record'[r].fired)
  BY <1>1, <1>2, RoutinesAssumption DEF ClaimHolds
<1>4. ASSUME NEW p \in Doers, Dispatching(p, r)'
      PROVE  Dispatching(p, r) /\ round'[p].day = round[p].day /\ round[p].day \in Nat
  BY <1>4, RoutinesAssumption DEF Dispatching, RoutinesTypes, PassRecord
<1>5. ASSUME NEW p \in Doers, Dispatching(p, r)'
      PROVE  /\ round'[p].day <= record'[r].fired
             /\ fires'[r][round'[p].day] = 0
             /\ \A q \in Doers : Dispatching(q, r)' /\ round'[q].day = round'[p].day => q = p
  BY <1>1, <1>2, <1>4, <1>5 DEF ClaimHolds
<1> QED BY <1>3, <1>5 DEF ClaimHolds

\* A dispatch begins: the day was not claimed on file, and is now.
LEMMA ClaimTaken ==
    ASSUME RoutinesTypes, RoutinesTypes', NotAhead, ClaimsHold,
           overwritten \subseteq overwritten', fires' = fires, today' = today,
           NEW w \in Doers, NEW c \in Routine,
           round'[w].id = c, round'[w].day = today,
           \A p \in Doers : p # w => round'[p] = round[p],
           c \notin overwritten' => record[c].fired # today /\ record'[c].fired = today,
           \A r \in Routine : r # c => record'[r] = record[r]
    PROVE  ClaimsHold'
<1> SUFFICES ASSUME NEW r \in Routine, r \notin overwritten' PROVE ClaimHolds(r)'
  BY DEF ClaimsHold
<1>1. ClaimHolds(r) /\ record[r].fired <= today
  BY DEF ClaimsHold, NotAhead
<1>2. /\ record[r].fired \in Nat /\ record'[r].fired \in Nat /\ today \in 1..MaxDay /\ MaxDay \in Nat
      /\ \A p \in Doers : round[p].day \in Nat /\ round'[p].day \in Nat
      /\ \A d \in 1..MaxDay : fires[r][d] \in 0..2
  BY RecordsFields, RoutinesAssumption DEF RoutinesTypes, PassRecord
<1>3. record[r].fired <= record'[r].fired
  BY <1>1, <1>2
<1>4. ASSUME NEW d \in 1..MaxDay
      PROVE  fires'[r][d] # 2 /\ (fires'[r][d] = 1 => d <= record'[r].fired)
  BY <1>1, <1>2, <1>3 DEF ClaimHolds
<1>5. ASSUME NEW p \in Doers, p # w, Dispatching(p, r)'
      PROVE  Dispatching(p, r) /\ round'[p].day = round[p].day /\ round[p].day <= record[r].fired
             /\ fires[r][round[p].day] = 0
  BY <1>1, <1>5 DEF Dispatching, ClaimHolds
<1>6. ASSUME NEW p \in Doers, Dispatching(p, r)'
      PROVE  /\ round'[p].day <= record'[r].fired
             /\ fires'[r][round'[p].day] = 0
             /\ \A q \in Doers : Dispatching(q, r)' /\ round'[q].day = round'[p].day => q = p
  <2>1. CASE r # c
    <3>1. \A q \in Doers : Dispatching(q, r)' => q # w
      BY <2>1 DEF Dispatching
    <3> QED BY <1>1, <1>2, <1>3, <1>5, <1>6, <3>1 DEF ClaimHolds
  <2>2. CASE r = c
    <3>1. record[r].fired < today /\ record'[r].fired = today
      BY <1>1, <1>2, <2>2
    <3>2. \A q \in Doers : q # w /\ Dispatching(q, r)' => round'[q].day < today
      BY <1>2, <1>5, <3>1
    <3>3. CASE p = w
      <4>1. round'[p].day = today /\ fires[r][today] \in 0..2 /\ fires[r][today] # 1 /\ fires[r][today] # 2
        BY <1>1, <1>2, <3>1, <3>3 DEF ClaimHolds
      <4> QED BY <1>2, <3>1, <3>2, <3>3, <4>1
    <3>4. CASE p # w
      <4>1. round'[p].day < today
        BY <1>6, <3>2, <3>4
      <4>2. \A q \in Doers : Dispatching(q, r)' /\ round'[q].day = round'[p].day => q # w
        BY <1>2, <4>1
      <4> QED BY <1>1, <1>2, <1>3, <1>5, <1>6, <3>4, <4>2 DEF ClaimHolds
    <3> QED BY <3>3, <3>4
  <2> QED BY <2>1, <2>2
<1> QED BY <1>4, <1>6 DEF ClaimHolds

-----------------------------------------------------------------------------
(* The steps *)

\* A pass that is idle or walks its list
Walk(todo, budget) == [NoRound EXCEPT !.at = "walk", !.todo = todo, !.budget = budget]

LEMMA Walking ==
    ASSUME NEW todo \in SUBSET Listing, NEW budget \in 0..1
    PROVE  /\ NoRound \in PassRecord /\ Walk(todo, budget) \in PassRecord
           /\ NoRound.at = "idle" /\ Walk(todo, budget).at = "walk"
           /\ NoRound.todo = {} /\ Walk(todo, budget).todo = todo
           /\ NoRound.base.fired = 0 /\ Walk(todo, budget).base.fired = 0
<1>1. Never \in Records /\ Never.fired = 0
  BY RoutinesAssumption DEF Never, Records
<1>2. NoRound \in PassRecord /\ NoRound.at = "idle" /\ NoRound.todo = {} /\ NoRound.base = Never
  BY <1>1, RoutinesAssumption DEF NoRound, PassRecord
<1> DEFINE x == Walk(todo, budget)
<1>3. x \in PassRecord /\ x.at = "walk" /\ x.todo = todo /\ x.base = Never
  BY <1>1, <1>2 DEF PassRecord, Walk
<1> QED BY <1>1, <1>2, <1>3

LEMMA Onwards ==
    ASSUME NEW todo \in SUBSET Listing, NEW budget \in 0..1
    PROVE  /\ RoundOn(todo, budget) \in PassRecord /\ RoundOn(todo, budget).at # "dispatch"
           /\ RoundOn(todo, budget).todo = todo /\ RoundOn(todo, budget).base.fired = 0
<1>1. RoundOn(todo, budget) = IF todo = {} THEN NoRound ELSE Walk(todo, budget)
  BY DEF RoundOn, Walk
<1>2. CASE todo = {}
  BY <1>1, <1>2, Walking
<1>3. CASE todo # {}
  BY <1>1, <1>3, Walking
<1> QED BY <1>2, <1>3

\* What an evaluation holds in its hands
LEMMA Rolls ==
    ASSUME RoutinesTypes, NotAhead,
           NEW p \in Doers, NEW s \in round[p].todo, NEW st \in Rolled(s)
    PROVE  /\ s.id \in Routine /\ st \in Records /\ st.fired <= today
           /\ round[p] \in PassRecord /\ round[p].todo \ {s} \in SUBSET Listing
           /\ Claimed(st) \in Records /\ [st EXCEPT !.fired = today] \in Records
           /\ Claimed(st).fired = today /\ [st EXCEPT !.fired = today].fired = today
<1>1. round[p] \in PassRecord /\ s \in Listing /\ s.st \in Records /\ s.st.fired <= today
  BY DEF RoutinesTypes, NotAhead, PassRecord, Listing
<1>2. today \in 1..MaxDay
  BY DEF RoutinesTypes
<1>3. st \in Records /\ st.fired = s.st.fired
  <2>1. CASE st = s.st
    BY <1>1, <2>1
  <2>2. CASE st # s.st
    <3>1. PICK c \in Slots(s.id) : st = [s.st EXCEPT !.period = today, !.chosen = c]
      BY <2>2 DEF Rolled
    <3>2. c \in 0..2 /\ today \in 0..MaxDay
      BY <1>2, RoutinesAssumption DEF Slots
    <3> QED BY <1>1, <3>1, <3>2 DEF Records
  <2> QED BY <2>1, <2>2
<1> QED BY <1>1, <1>2, <1>3, RoutinesAssumption DEF Claimed, Records, Listing, PassRecord

LEMMA TickKeeps ==
    ASSUME RoutinesInv, NEW p \in RoutinePasses, RoutineTick(p)
    PROVE  RoutinesInv'
<1> DEFINE all == {[id |-> r, on |-> listed[r] = "on", st |-> record[r]] :
                      r \in {r \in Routine : listed[r] # "gone"}}
           x == [NoRound EXCEPT !.at = "walk", !.budget = 1, !.todo = all]
<1>1. RoutinesTypes /\ NotAhead /\ ClaimsHold /\ p \in Doers
  BY DEF RoutinesInv, Doers
<1>2. all \in SUBSET Listing /\ \A s \in all : s.st.fired <= today
  <2>1. \A r \in Routine : record[r] \in Records /\ record[r].fired <= today
    BY <1>1 DEF RoutinesTypes, NotAhead
  <2>2. ASSUME NEW r \in Routine PROVE [id |-> r, on |-> listed[r] = "on", st |-> record[r]] \in Listing
    BY <2>1 DEF Listing
  <2> QED BY <2>1, <2>2
<1>3. x \in PassRecord /\ x.at = "walk" /\ x.todo = all /\ x.base.fired = 0
  <2>1. x = Walk(all, 1)
    BY DEF NoRound, Walk
  <2> HIDE DEF x, all
  <2> QED BY <1>2, <2>1, Walking
<1>4. /\ round' = [round EXCEPT ![p] = x]
      /\ UNCHANGED <<record, listed, today, minute, asked, trouble, fires, overwritten>>
  BY DEF RoutineTick
<1> HIDE DEF all, x
<1>5. RoutinesTypes'
  BY <1>1, <1>3, <1>4 DEF RoutinesTypes
<1>6. NotAhead'
  BY <1>1, <1>2, <1>3, <1>4, RoutinesAssumption DEF RoutinesTypes, NotAhead
<1>7. ClaimsHold'
  <2>1. \A r \in Routine : record[r].fired \in Nat
    BY <1>1, RecordsFields DEF RoutinesTypes
  <2> QED BY <1>1, <1>3, <1>4, <1>5, <2>1, ClaimsStand DEF RoutinesTypes
<1> QED BY <1>5, <1>6, <1>7 DEF RoutinesInv

LEMMA PassedKeeps ==
    ASSUME RoutinesInv, NEW p \in RoutinePasses, NEW s \in round[p].todo, NEW st \in Rolled(s),
           Passed(p, s, st), UNCHANGED <<listed, today, minute, asked, trouble, fires>>
    PROVE  RoutinesInv'
<1>1. RoutinesTypes /\ NotAhead /\ ClaimsHold /\ p \in Doers
  BY DEF RoutinesInv, Doers
<1>2. /\ s.id \in Routine /\ st \in Records /\ st.fired <= today
      /\ round[p] \in PassRecord /\ round[p].todo \ {s} \in SUBSET Listing
  BY <1>1, Rolls
<1> DEFINE x == RoundOn(round[p].todo \ {s}, round[p].budget)
<1>3. x \in PassRecord /\ x.at # "dispatch" /\ x.todo \subseteq round[p].todo /\ x.base.fired = 0
  BY <1>2, Onwards DEF PassRecord
<1>4. round' = [round EXCEPT ![p] = x]
  BY DEF Passed
<1> HIDE DEF x
<1>5. \A r \in Routine : record[r].fired \in Nat /\ record[r].fired <= today
  BY <1>1, RecordsFields DEF RoutinesTypes, NotAhead
<1>6. /\ record' \in [Routine -> Records]
      /\ overwritten' \in SUBSET Routine /\ overwritten \subseteq overwritten'
      /\ \A r \in Routine : record'[r].fired <= today
      /\ \A r \in Routine \ overwritten' : record[r].fired <= record'[r].fired
  <2>1. CASE s.on /\ st # s.st
    <3>1. /\ SetRoutineState(s.id, st)
          /\ overwritten' = IF TakesBack(s.id, st) THEN overwritten \cup {s.id} ELSE overwritten
      BY <2>1 DEF Passed
    <3>2. /\ record' \in [Routine -> Records]
          /\ \A r \in Routine : r # s.id => record'[r] = record[r]
          /\ record'[s.id] = IF listed[s.id] = "gone" THEN record[s.id] ELSE st
      BY <1>1, <1>2, <3>1, Written
    <3>3. overwritten' \in SUBSET Routine /\ overwritten \subseteq overwritten'
      BY <1>1, <1>2, <3>1 DEF RoutinesTypes
    <3>4. \A r \in Routine : record'[r].fired <= today
      BY <1>2, <1>5, <3>2
    <3>5. s.id \notin overwritten' => record[s.id].fired <= record'[s.id].fired
      BY <1>2, <1>5, <3>1, <3>2, RecordsFields DEF TakesBack
    <3> QED BY <1>5, <3>2, <3>3, <3>4, <3>5
  <2>2. CASE ~(s.on /\ st # s.st)
    BY <1>1, <1>5, <2>2 DEF Passed, RoutinesTypes
  <2> QED BY <2>1, <2>2
<1>7. RoutinesTypes'
  BY <1>1, <1>3, <1>4, <1>6 DEF RoutinesTypes
<1>8. NotAhead'
  BY <1>1, <1>3, <1>4, <1>6, RoutinesAssumption DEF RoutinesTypes, NotAhead
<1>9. ClaimsHold'
  BY <1>1, <1>3, <1>4, <1>6, <1>7, ClaimsStand DEF RoutinesTypes
<1> QED BY <1>7, <1>8, <1>9 DEF RoutinesInv

LEMMA SkippedKeeps ==
    ASSUME RoutinesInv, NEW p \in RoutinePasses, NEW s \in round[p].todo, NEW st \in Rolled(s),
           Skipped(p, s, st), UNCHANGED <<listed, today, minute, asked, trouble, fires>>
    PROVE  RoutinesInv'
<1>1. RoutinesTypes /\ NotAhead /\ ClaimsHold /\ p \in Doers
  BY DEF RoutinesInv, Doers
<1> DEFINE c == [st EXCEPT !.fired = today]
<1>2. /\ s.id \in Routine /\ c \in Records /\ c.fired = today
      /\ round[p] \in PassRecord /\ round[p].todo \ {s} \in SUBSET Listing
  BY <1>1, Rolls
<1> DEFINE x == RoundOn(round[p].todo \ {s}, round[p].budget)
<1>3. x \in PassRecord /\ x.at # "dispatch" /\ x.todo \subseteq round[p].todo /\ x.base.fired = 0
  BY <1>2, Onwards DEF PassRecord
<1>4. round' = [round EXCEPT ![p] = x] /\ SetRoutineState(s.id, c) /\ overwritten' = overwritten
  BY DEF Skipped
<1> HIDE DEF x, c
<1>5. /\ \A r \in Routine : record[r].fired \in Nat /\ record[r].fired <= today
      /\ today \in Nat
  BY <1>1, RecordsFields, RoutinesAssumption DEF RoutinesTypes, NotAhead
<1>6. /\ record' \in [Routine -> Records]
      /\ \A r \in Routine : r # s.id => record'[r] = record[r]
      /\ record'[s.id] = IF listed[s.id] = "gone" THEN record[s.id] ELSE c
  BY <1>1, <1>2, <1>4, Written
<1>7. \A r \in Routine : record'[r].fired <= today /\ record[r].fired <= record'[r].fired
  BY <1>2, <1>5, <1>6
<1>8. RoutinesTypes'
  BY <1>1, <1>3, <1>4, <1>6 DEF RoutinesTypes
<1>9. NotAhead'
  BY <1>1, <1>3, <1>4, <1>7, RoutinesAssumption DEF RoutinesTypes, NotAhead
<1>10. ClaimsHold'
  BY <1>1, <1>3, <1>4, <1>7, <1>8, ClaimsStand DEF RoutinesTypes
<1> QED BY <1>8, <1>9, <1>10 DEF RoutinesInv

LEMMA FiresKeeps ==
    ASSUME RoutinesInv, NEW p \in RoutinePasses, NEW s \in round[p].todo, NEW st \in Rolled(s),
           Fires(p, s, st), UNCHANGED <<listed, today, minute, asked, trouble, fires>>
    PROVE  RoutinesInv'
<1>1. RoutinesTypes /\ NotAhead /\ ClaimsHold /\ p \in Doers
  BY DEF RoutinesInv, Doers
<1> DEFINE c == Claimed(st)
<1>2. /\ s.id \in Routine /\ c \in Records /\ c.fired = today
      /\ round[p] \in PassRecord /\ round[p].todo \ {s} \in SUBSET Listing
  BY <1>1, Rolls
<1> DEFINE x == [round[p] EXCEPT !.at = "dispatch", !.todo = @ \ {s}, !.budget = IF Late(s.id) THEN 0 ELSE @,
                                !.id = s.id, !.day = today, !.base = c]
<1>3. /\ round' = [round EXCEPT ![p] = x] /\ SetRoutineState(s.id, c)
      /\ overwritten' = IF \/ listed[s.id] = "gone" \/ record[s.id].fired = today
                           \/ TakesBack(s.id, c)
                        THEN overwritten \cup {s.id} ELSE overwritten
  <2>1. SetRoutineState(s.id, c)
    BY DEF Fires
  <2>2. round' = [round EXCEPT ![p] = x]
    BY DEF Fires
  <2>3. overwritten' = IF \/ listed[s.id] = "gone" \/ record[s.id].fired = today
                           \/ TakesBack(s.id, c)
                      THEN overwritten \cup {s.id} ELSE overwritten
    BY DEF Fires
  <2> QED BY <2>1, <2>2, <2>3
<1> HIDE DEF c
<1>4. /\ x \in PassRecord /\ x.todo \subseteq round[p].todo /\ x.id = s.id /\ x.day = today /\ x.base = c
      /\ today \in 1..MaxDay
  <2>1. today \in 1..MaxDay /\ today \in 0..MaxDay
    BY <1>1, RoutinesAssumption DEF RoutinesTypes
  <2> DEFINE left == IF Late(s.id) THEN 0 ELSE round[p].budget
  <2>2. left \in 0..1
    BY <1>2 DEF PassRecord
  <2> HIDE DEF left
  <2>3. x = [round[p] EXCEPT !.at = "dispatch", !.todo = @ \ {s}, !.budget = left,
                            !.id = s.id, !.day = today, !.base = c]
    BY DEF left
  <2> HIDE DEF x
  <2>4. x \in PassRecord
    BY <1>2, <2>1, <2>2, <2>3 DEF PassRecord
  <2>5. x.todo = round[p].todo \ {s} /\ x.id = s.id /\ x.day = today /\ x.base = c
    BY <1>2, <2>3 DEF PassRecord
  <2> QED BY <2>1, <2>4, <2>5
<1> HIDE DEF x
<1>5. /\ \A r \in Routine : record[r].fired \in Nat /\ record[r].fired <= today
      /\ today \in Nat
  BY <1>1, RecordsFields, RoutinesAssumption DEF RoutinesTypes, NotAhead
<1>6. /\ record' \in [Routine -> Records]
      /\ \A r \in Routine : r # s.id => record'[r] = record[r]
      /\ record'[s.id] = IF listed[s.id] = "gone" THEN record[s.id] ELSE c
  BY <1>1, <1>2, <1>3, Written
<1>7. \A r \in Routine : record'[r].fired <= today
  BY <1>2, <1>5, <1>6
<1>8. RoutinesTypes'
  BY <1>1, <1>2, <1>3, <1>4, <1>6 DEF RoutinesTypes
<1>9. NotAhead'
  BY <1>1, <1>2, <1>3, <1>4, <1>5, <1>7 DEF RoutinesTypes, NotAhead
<1>10. ClaimsHold'
  <2>1. overwritten \subseteq overwritten' /\ round'[p] = x /\ \A q \in Doers : q # p => round'[q] = round[q]
    BY <1>1, <1>3 DEF RoutinesTypes
  <2>2. s.id \notin overwritten' => record[s.id].fired # today /\ record'[s.id].fired = today
    BY <1>2, <1>3, <1>6
  <2> QED BY <1>1, <1>2, <1>4, <1>6, <1>8, <2>1, <2>2, ClaimTaken
<1> QED BY <1>8, <1>9, <1>10 DEF RoutinesInv

LEMMA FireNowKeeps ==
    ASSUME RoutinesInv, NEW r \in Routine, NEW force \in BOOLEAN, FireRoutineNow(r, force)
    PROVE  RoutinesInv'
<1>1. RoutinesTypes /\ NotAhead /\ ClaimsHold /\ Byhand \in Doers
  BY DEF RoutinesInv, Doers
<1>2. /\ record[r] \in Records /\ record[r].fired \in Nat /\ record[r].fired <= today
      /\ today \in 1..MaxDay /\ today \in 0..MaxDay
      /\ Claimed(record[r]) \in Records /\ Claimed(record[r]).fired = today
  BY <1>1, RecordsFields, RoutinesAssumption DEF RoutinesTypes, NotAhead, Records, Claimed
<1> DEFINE st == IF force THEN record[r] ELSE Claimed(record[r])
           x == [NoRound EXCEPT !.at = "dispatch", !.id = r, !.day = today, !.base = st, !.force = force]
<1>3. /\ listed[r] # "gone" /\ (~force => record[r].fired # today)
      /\ asked < MaxAsked /\ asked' = asked + 1
      /\ SetRoutineState(r, st) /\ round' = [round EXCEPT ![Byhand] = x]
      /\ UNCHANGED <<listed, today, minute, trouble, fires, overwritten>>
  BY DEF FireRoutineNow
<1>4. st \in Records /\ st.fired <= today /\ record[r].fired <= st.fired
  BY <1>2
<1> HIDE DEF st
<1>5. x \in PassRecord /\ x.todo = {} /\ x.id = r /\ x.day = today /\ x.base = st /\ x.force = force
  <2>1. NoRound \in PassRecord /\ NoRound.todo = {}
    BY Walking, RoutinesAssumption
  <2> QED BY <1>2, <1>4, <2>1 DEF PassRecord
<1> HIDE DEF x
<1>6. /\ record' \in [Routine -> Records]
      /\ \A c \in Routine : c # r => record'[c] = record[c]
      /\ record'[r] = st
  BY <1>1, <1>3, <1>4, Written
<1>7. \A c \in Routine : record[c].fired \in Nat /\ record[c].fired <= today
  BY <1>1, RecordsFields DEF RoutinesTypes, NotAhead
<1>8. \A c \in Routine : record'[c].fired <= today /\ record[c].fired <= record'[c].fired
  BY <1>4, <1>6, <1>7
<1>9. RoutinesTypes'
  BY <1>1, <1>3, <1>5, <1>6, RoutinesAssumption DEF RoutinesTypes
<1>10. NotAhead'
  BY <1>1, <1>2, <1>3, <1>4, <1>5, <1>8 DEF RoutinesTypes, NotAhead
<1>11. ClaimsHold'
  <2>1. round'[Byhand] = x /\ \A q \in Doers : q # Byhand => round'[q] = round[q]
    BY <1>1, <1>3 DEF RoutinesTypes
  <2>2. CASE force
    BY <1>1, <1>3, <1>5, <1>8, <1>9, <2>1, <2>2, ClaimsStand
  <2>3. CASE ~force
    <3>1. record[r].fired # today /\ record'[r].fired = today
      BY <1>2, <1>3, <1>6, <2>3 DEF st
    <3> QED BY <1>1, <1>3, <1>5, <1>6, <1>9, <2>1, <3>1, ClaimTaken
  <2> QED BY <2>2, <2>3
<1> QED BY <1>9, <1>10, <1>11 DEF RoutinesInv

\* What the end of a dispatch writes, whatever came of it
LEMMA OutcomeWrites ==
    ASSUME RoutinesTypes, NotAhead, NEW p \in Doers, round[p].at = "dispatch", Outcome(p)
    PROVE  /\ record' \in [Routine -> Records] /\ overwritten' \in SUBSET Routine
           /\ round' \in [Doers -> PassRecord]
           /\ overwritten \subseteq overwritten'
           /\ \A r \in Routine : record'[r].fired <= today
           /\ \A r \in Routine \ overwritten' : record[r].fired <= record'[r].fired
           /\ round'[p].at # "dispatch" /\ round'[p].base.fired = 0 /\ round'[p].todo = round[p].todo
           /\ \A q \in Doers : q # p => round'[q] = round[q]
<1> DEFINE i == round[p].id
           b == round[p].base
           x == RoundOn(round[p].todo, round[p].budget)
<1>1. round[p] \in PassRecord /\ i \in Routine /\ b \in Records /\ b.fired <= today
  BY DEF RoutinesTypes, NotAhead, PassRecord
<1>2. x \in PassRecord /\ x.at # "dispatch" /\ x.todo = round[p].todo /\ x.base.fired = 0
  BY <1>1, Onwards DEF PassRecord
<1>3. /\ SetRoutineState(i, b) /\ round' = [round EXCEPT ![p] = x]
      /\ overwritten' = IF TakesBack(i, b) THEN overwritten \cup {i} ELSE overwritten
  BY DEF Outcome
<1> HIDE DEF i, b, x
<1>4. /\ record' \in [Routine -> Records]
      /\ \A r \in Routine : r # i => record'[r] = record[r]
      /\ record'[i] = IF listed[i] = "gone" THEN record[i] ELSE b
  BY <1>1, <1>3, Written
<1>5. \A r \in Routine : record[r].fired \in Nat /\ record[r].fired <= today
  BY RecordsFields DEF RoutinesTypes, NotAhead
<1>6. i \notin overwritten' => record[i].fired <= record'[i].fired
  BY <1>1, <1>3, <1>4, <1>5, RecordsFields DEF TakesBack
<1>7. overwritten' \in SUBSET Routine /\ overwritten \subseteq overwritten'
  BY <1>1, <1>3 DEF RoutinesTypes
<1>8. \A r \in Routine : record'[r].fired <= today
  BY <1>1, <1>4, <1>5
<1>9. \A r \in Routine \ overwritten' : record[r].fired <= record'[r].fired
  BY <1>4, <1>5, <1>6
<1>10. /\ round' \in [Doers -> PassRecord] /\ round'[p] = x
       /\ \A q \in Doers : q # p => round'[q] = round[q]
  BY <1>2, <1>3 DEF RoutinesTypes
<1> QED BY <1>2, <1>4, <1>7, <1>8, <1>9, <1>10

LEMMA NotDispatchedKeeps ==
    ASSUME RoutinesInv, NEW p \in Doers, NotDispatched(p)
    PROVE  RoutinesInv'
<1>1. RoutinesTypes /\ NotAhead /\ ClaimsHold
  BY DEF RoutinesInv
<1>2. /\ round[p].at = "dispatch" /\ Outcome(p) /\ trouble < MaxTrouble /\ trouble' = trouble + 1
      /\ UNCHANGED <<listed, today, minute, asked, fires>>
  BY DEF NotDispatched
<1>3. /\ record' \in [Routine -> Records] /\ overwritten' \in SUBSET Routine
      /\ round' \in [Doers -> PassRecord]
      /\ overwritten \subseteq overwritten'
      /\ \A r \in Routine : record'[r].fired <= today
      /\ \A r \in Routine \ overwritten' : record[r].fired <= record'[r].fired
      /\ round'[p].at # "dispatch" /\ round'[p].base.fired = 0 /\ round'[p].todo = round[p].todo
      /\ \A q \in Doers : q # p => round'[q] = round[q]
  BY <1>1, <1>2, OutcomeWrites
<1>4. RoutinesTypes'
  BY <1>1, <1>2, <1>3, RoutinesAssumption DEF RoutinesTypes
<1>5. NotAhead'
  BY <1>1, <1>2, <1>3, RoutinesAssumption DEF NotAhead, RoutinesTypes
<1>6. ClaimsHold'
  BY <1>1, <1>2, <1>3, <1>4, ClaimsStand
<1> QED BY <1>4, <1>5, <1>6 DEF RoutinesInv

\* The dispatch is counted for its day, which no other is in.
LEMMA DispatchedKeeps ==
    ASSUME RoutinesInv, NEW p \in Doers, Dispatched(p)
    PROVE  RoutinesInv'
<1>1. RoutinesTypes /\ NotAhead /\ ClaimsHold
  BY DEF RoutinesInv
<1> DEFINE i == round[p].id
           d0 == round[p].day
<1>2. /\ round[p].at = "dispatch" /\ Outcome(p)
      /\ fires' = IF round[p].force THEN fires
                  ELSE [fires EXCEPT ![i][d0] = IF @ < 2 THEN @ + 1 ELSE @]
      /\ UNCHANGED <<listed, today, minute, asked, trouble>>
  BY DEF Dispatched
<1>3. /\ record' \in [Routine -> Records] /\ overwritten' \in SUBSET Routine
      /\ round' \in [Doers -> PassRecord]
      /\ overwritten \subseteq overwritten'
      /\ \A r \in Routine : record'[r].fired <= today
      /\ \A r \in Routine \ overwritten' : record[r].fired <= record'[r].fired
      /\ round'[p].at # "dispatch" /\ round'[p].base.fired = 0 /\ round'[p].todo = round[p].todo
      /\ \A q \in Doers : q # p => round'[q] = round[q]
  BY <1>1, <1>2, OutcomeWrites
<1>4. i \in Routine /\ d0 \in 1..MaxDay /\ today \in 1..MaxDay /\ MaxDay \in Nat
  BY <1>1, <1>2, RoutinesAssumption DEF NotAhead, RoutinesTypes
<1>5. /\ \A r \in Routine, d \in 1..MaxDay : fires[r][d] \in 0..2
      /\ \A r \in Routine, d \in 1..MaxDay : r # i \/ d # d0 \/ round[p].force => fires'[r][d] = fires[r][d]
      /\ ~round[p].force => fires'[i][d0] = IF fires[i][d0] < 2 THEN fires[i][d0] + 1 ELSE fires[i][d0]
      /\ fires' \in [Routine -> [1..MaxDay -> 0..2]]
  <2>1. fires \in [Routine -> [1..MaxDay -> 0..2]]
    BY <1>1 DEF RoutinesTypes
  <2> DEFINE n == IF fires[i][d0] < 2 THEN fires[i][d0] + 1 ELSE fires[i][d0]
  <2>2. n \in 0..2
    BY <1>4, <2>1
  <2>3. CASE round[p].force
    BY <1>2, <2>1, <2>3
  <2>4. CASE ~round[p].force
    <3>1. fires' = [fires EXCEPT ![i][d0] = n]
      BY <1>2, <2>4
    <3> HIDE DEF n, i, d0
    <3>2. fires' \in [Routine -> [1..MaxDay -> 0..2]] /\ fires'[i][d0] = n
      BY <1>4, <2>1, <2>2, <3>1
    <3>3. \A r \in Routine, d \in 1..MaxDay : r # i \/ d # d0 => fires'[r][d] = fires[r][d]
      BY <1>4, <2>1, <3>1
    <3> QED BY <2>1, <2>4, <3>2, <3>3 DEF n
  <2> QED BY <2>3, <2>4
<1> HIDE DEF i, d0
<1>6. RoutinesTypes'
  BY <1>1, <1>2, <1>3, <1>5 DEF RoutinesTypes
<1>7. NotAhead'
  BY <1>1, <1>2, <1>3, RoutinesAssumption DEF NotAhead, RoutinesTypes
<1>8. ClaimsHold'
  <2> SUFFICES ASSUME NEW r \in Routine, r \notin overwritten' PROVE ClaimHolds(r)'
    BY DEF ClaimsHold
  <2>1. ClaimHolds(r) /\ record[r].fired <= record'[r].fired
    BY <1>1, <1>3 DEF ClaimsHold
  <2>2. record[r].fired \in Nat /\ record'[r].fired \in Nat
    BY <1>1, <1>3, RecordsFields DEF RoutinesTypes
  <2>3. ASSUME NEW q \in Doers, Dispatching(q, r)'
        PROVE  /\ q # p /\ Dispatching(q, r) /\ round'[q] = round[q] /\ round[q].day \in 1..MaxDay
               /\ round[q].day <= record[r].fired /\ fires[r][round[q].day] = 0
    <3>1. q # p /\ Dispatching(q, r) /\ round'[q] = round[q]
      BY <1>3, <2>3 DEF Dispatching
    <3> QED BY <1>1, <1>4, <2>1, <3>1 DEF NotAhead, ClaimHolds, Dispatching
  <2>4. r = i /\ ~round[p].force => fires[r][d0] = 0 /\ d0 <= record[r].fired
    BY <1>2, <2>1 DEF Dispatching, ClaimHolds, i, d0
  <2>5. ASSUME NEW d \in 1..MaxDay
        PROVE  fires'[r][d] # 2 /\ (fires'[r][d] = 1 => d <= record'[r].fired)
    <3>1. CASE r = i /\ d = d0 /\ ~round[p].force
      BY <1>4, <1>5, <2>1, <2>2, <2>4, <3>1
    <3>2. CASE ~(r = i /\ d = d0 /\ ~round[p].force)
      BY <1>4, <1>5, <2>1, <2>2, <3>2 DEF ClaimHolds
    <3> QED BY <3>1, <3>2
  <2>6. ASSUME NEW q \in Doers, Dispatching(q, r)'
        PROVE  /\ round'[q].day <= record'[r].fired
               /\ fires'[r][round'[q].day] = 0
               /\ \A o \in Doers : Dispatching(o, r)' /\ round'[o].day = round'[q].day => o = q
    <3>1. r = i /\ round[q].day = d0 /\ ~round[p].force => FALSE
      BY <1>2, <2>1, <2>3, <2>6 DEF Dispatching, ClaimHolds, i, d0
    <3>2. fires'[r][round[q].day] = 0
      BY <1>5, <2>3, <2>6, <3>1
    <3>3. round[q].day <= record'[r].fired
      BY <1>4, <2>1, <2>2, <2>3, <2>6
    <3>4. \A o \in Doers : Dispatching(o, r)' /\ round'[o].day = round'[q].day => o = q
      BY <2>1, <2>3, <2>6 DEF ClaimHolds
    <3> QED BY <2>3, <2>6, <3>2, <3>3, <3>4
  <2> QED BY <2>5, <2>6 DEF ClaimHolds
<1> QED BY <1>6, <1>7, <1>8 DEF RoutinesInv

LEMMA ToggleKeeps ==
    ASSUME RoutinesInv, NEW r \in Routine, Toggle(r)
    PROVE  RoutinesInv'
<1>1. RoutinesTypes /\ NotAhead /\ ClaimsHold
  BY DEF RoutinesInv
<1>2. /\ listed' \in [Routine -> {"on", "off", "gone"}] /\ asked' \in 0..MaxAsked
      /\ UNCHANGED <<record, today, minute, round, trouble, fires, overwritten>>
  BY <1>1, RoutinesAssumption DEF Toggle, RoutinesTypes
<1>3. RoutinesTypes' /\ NotAhead'
  BY <1>1, <1>2 DEF RoutinesTypes, NotAhead
<1>4. \A c \in Routine : record[c].fired \in Nat
  BY <1>1, RecordsFields DEF RoutinesTypes
<1> QED BY <1>1, <1>2, <1>3, <1>4, ClaimsStand DEF RoutinesInv

LEMMA ClockKeeps ==
    ASSUME RoutinesInv, Clock
    PROVE  RoutinesInv'
<1>1. RoutinesTypes /\ NotAhead /\ ClaimsHold
  BY DEF RoutinesInv
<1>2. /\ today' \in 1..MaxDay /\ today <= today' /\ minute' \in 1..3 /\ today \in 1..MaxDay
      /\ UNCHANGED <<record, listed, round, asked, trouble, fires, overwritten>>
  BY <1>1, RoutinesAssumption DEF Clock, RoutinesTypes
<1>3. /\ \A c \in Routine : record[c].fired \in Nat
      /\ \A p \in Doers : /\ round[p].base.fired \in Nat
                          /\ \A s \in round[p].todo : s.st.fired \in Nat
  BY <1>1, RecordsFields DEF RoutinesTypes, PassRecord, Listing
<1>4. RoutinesTypes'
  BY <1>1, <1>2 DEF RoutinesTypes
<1>5. NotAhead'
  BY <1>1, <1>2, <1>3, RoutinesAssumption DEF NotAhead
<1> QED BY <1>1, <1>2, <1>3, <1>4, <1>5, ClaimsStand DEF RoutinesInv

\* Whatever the lane took of the dispatches under way is counted; nothing is under way after it.
LEMMA DaemonDiesKeeps ==
    ASSUME RoutinesInv, SchedulerDies
    PROVE  RoutinesInv'
<1>1. RoutinesTypes /\ NotAhead /\ ClaimsHold
  BY DEF RoutinesInv
<1>2. /\ trouble < MaxTrouble /\ trouble' = trouble + 1
      /\ round' = [p \in Doers |-> NoRound]
      /\ UNCHANGED <<record, listed, today, minute, asked, overwritten>>
  BY DEF SchedulerDies
<1>3. PICK took \in SUBSET {p \in Doers : round[p].at = "dispatch" /\ ~round[p].force} :
         fires' = [r \in Routine |-> [d \in 1..MaxDay |->
                     IF fires[r][d] < 2 /\ \E p \in took : round[p].id = r /\ round[p].day = d
                     THEN fires[r][d] + 1 ELSE fires[r][d]]]
  BY DEF SchedulerDies
<1>4. /\ fires' \in [Routine -> [1..MaxDay -> 0..2]]
      /\ \A r \in Routine, d \in 1..MaxDay :
            /\ fires[r][d] \in 0..2
            /\ \/ fires'[r][d] = fires[r][d]
               \/ fires'[r][d] = fires[r][d] + 1 /\ \E p \in Doers : Dispatching(p, r) /\ round[p].day = d
  <2>1. \A r \in Routine, d \in 1..MaxDay : fires[r][d] \in 0..2
    BY <1>1 DEF RoutinesTypes
  <2>2. ASSUME NEW r \in Routine, NEW d \in 1..MaxDay
        PROVE  fires'[r][d] = IF fires[r][d] < 2 /\ \E p \in took : round[p].id = r /\ round[p].day = d
                              THEN fires[r][d] + 1 ELSE fires[r][d]
    BY <1>3
  <2>3. fires' \in [Routine -> [1..MaxDay -> 0..2]]
    BY <1>3, <2>1
  <2> QED BY <2>1, <2>2, <2>3 DEF Dispatching
<1>5. NoRound \in PassRecord /\ NoRound.at = "idle" /\ NoRound.todo = {} /\ NoRound.base.fired = 0
  <2>1. {} \in SUBSET Listing /\ 0 \in 0..1
    OBVIOUS
  <2> QED BY <2>1, Walking
<1>6. RoutinesTypes'
  BY <1>1, <1>2, <1>4, <1>5, RoutinesAssumption DEF RoutinesTypes
<1>7. NotAhead'
  BY <1>1, <1>2, <1>5, RoutinesAssumption DEF NotAhead, RoutinesTypes
<1>8. ClaimsHold'
  <2> SUFFICES ASSUME NEW r \in Routine, r \notin overwritten' PROVE ClaimHolds(r)'
    BY DEF ClaimsHold
  <2>1. ClaimHolds(r)
    BY <1>1, <1>2 DEF ClaimsHold
  <2>2. \A p \in Doers : ~Dispatching(p, r)'
    BY <1>2, <1>5 DEF Dispatching
  <2>3. ASSUME NEW d \in 1..MaxDay
        PROVE  fires'[r][d] # 2 /\ (fires'[r][d] = 1 => d <= record'[r].fired)
    <3>1. CASE fires'[r][d] = fires[r][d]
      BY <1>2, <2>1, <3>1 DEF ClaimHolds
    <3>2. CASE fires'[r][d] = fires[r][d] + 1 /\ \E p \in Doers : Dispatching(p, r) /\ round[p].day = d
      BY <1>2, <2>1, <3>2 DEF ClaimHolds
    <3> QED BY <1>4, <3>1, <3>2
  <2> QED BY <2>2, <2>3 DEF ClaimHolds
<1> QED BY <1>6, <1>7, <1>8 DEF RoutinesInv

-----------------------------------------------------------------------------
LEMMA RoutinesStep ==
    ASSUME RoutinesInv, [RoutinesNext]_ovars
    PROVE  RoutinesInv'
<1>1. ASSUME NEW p \in RoutinePasses, RoutineTick(p) PROVE RoutinesInv'
  BY <1>1, TickKeeps
<1>2. ASSUME NEW p \in RoutinePasses, EvaluateRoutine(p) PROVE RoutinesInv'
  <2>1. PICK s \in round[p].todo : \E st \in Rolled(s) :
           /\ Passed(p, s, st) \/ Skipped(p, s, st) \/ Fires(p, s, st)
           /\ UNCHANGED <<listed, today, minute, asked, trouble, fires>>
    BY <1>2 DEF EvaluateRoutine
  <2>2. PICK st \in Rolled(s) :
           /\ Passed(p, s, st) \/ Skipped(p, s, st) \/ Fires(p, s, st)
           /\ UNCHANGED <<listed, today, minute, asked, trouble, fires>>
    BY <2>1
  <2> QED BY <2>2, PassedKeeps, SkippedKeeps, FiresKeeps
<1>3. ASSUME NEW p \in Doers, Dispatched(p) PROVE RoutinesInv'
  BY <1>3, DispatchedKeeps
<1>4. ASSUME NEW p \in Doers, NotDispatched(p) PROVE RoutinesInv'
  BY <1>4, NotDispatchedKeeps
<1>5. ASSUME NEW r \in Routine, Toggle(r) PROVE RoutinesInv'
  BY <1>5, ToggleKeeps
<1>6. ASSUME NEW r \in Routine, NEW force \in BOOLEAN, FireRoutineNow(r, force) PROVE RoutinesInv'
  BY <1>6, FireNowKeeps
<1>7. CASE Clock
  BY <1>7, ClockKeeps
<1>8. CASE SchedulerDies
  BY <1>8, DaemonDiesKeeps
<1>9. CASE UNCHANGED ovars
  BY <1>9 DEF ovars, RoutinesInv, RoutinesTypes, NotAhead, ClaimsHold, ClaimHolds, Dispatching
<1> QED BY <1>1, <1>2, <1>3, <1>4, <1>5, <1>6, <1>7, <1>8, <1>9 DEF RoutinesNext

\* scheduler.ts:14-16, for any number of routines, overlapping passes, days and deaths of the
\* daemon: a routine fires once in a period, unless a stale copy made it fire or took a claim back.
THEOREM FiringCorrect == RoutinesSpec => []FiredOnce
<1>1. RoutinesInit => RoutinesInv
  BY RoutinesInitially
<1>2. RoutinesInv /\ [RoutinesNext]_ovars => RoutinesInv'
  BY RoutinesStep
<1>3. RoutinesInv => FiredOnce
  BY DEF RoutinesInv, ClaimsHold, ClaimHolds, FiredOnce
<1> QED BY <1>1, <1>2, <1>3, PTL DEF RoutinesSpec

\* scheduler.ts:14-16: a claim stands on file while its dispatch is under way and ever after, and
\* no second dispatch for the period is, whatever people and deaths of the daemon do.
THEOREM ClaimsCorrect == RoutinesSpec => []ClaimsHold
<1>1. RoutinesInit => RoutinesInv
  BY RoutinesInitially
<1>2. RoutinesInv /\ [RoutinesNext]_ovars => RoutinesInv'
  BY RoutinesStep
<1>3. RoutinesInv => ClaimsHold
  BY DEF RoutinesInv
<1> QED BY <1>1, <1>2, <1>3, PTL DEF RoutinesSpec

\* The routines' file, passes and counts keep their types, for any routines and passes.
THEOREM RoutinesTypesCorrect == RoutinesSpec => []RoutinesTypeOK
<1>1. RoutinesInit => RoutinesInv
  BY RoutinesInitially
<1>2. RoutinesInv /\ [RoutinesNext]_ovars => RoutinesInv'
  BY RoutinesStep
<1>3. RoutinesInv => RoutinesTypeOK
  BY DEF RoutinesInv, RoutinesTypes, NotAhead, PassRecord, RoutinesTypeOK
<1> QED BY <1>1, <1>2, <1>3, PTL DEF RoutinesSpec

-----------------------------------------------------------------------------
(***************************************************************************)
(* The rails of a watched feed, for any feed, interval and cap of a day.     *)
(* The caps are applied to the file, before minutes of writing; so the       *)
(* invariant says that, but for a blurred round, the file holds what was     *)
(* posted, one round at most writes, and what it checked holds until then.   *)
(***************************************************************************)

PostRecord == [model : {ModelOf[i] : i \in FeedItems}, at : Nat, simulated : BOOLEAN]
WatchState == [seeded : BOOLEAN, seenIds : SUBSET FeedItems, posts : Seq(PostRecord), lastPolledAt : Nat]
CycleState == [at : {"idle", "fetching", "posting", "posted"}, since : Nat, dry : BOOLEAN,
               item : FeedItems \cup {0}, newly : SUBSET FeedItems]
MadeRecord == [item : FeedItems, at : Nat, simulated : BOOLEAN]

Busy(p) == cycle[p].at \in {"posting", "posted"}

WatchTypes ==
    /\ watched \in WatchState
    /\ dryRun \in BOOLEAN /\ feed \subseteq FeedItems /\ time \in Nat
    /\ cycle \in [Cyclers -> CycleState]
    /\ \A p \in Cyclers : Busy(p) => cycle[p].item \in FeedItems
    /\ made \in Seq(MadeRecord) /\ coldFeed \subseteq FeedItems /\ blurred \in BOOLEAN

\* What was in the feed at the cold start is seen for good, and not posted about.
ColdSeen ==
    /\ ~watched.seeded => coldFeed = {} /\ made = <<>> /\ \A p \in Cyclers : ~Busy(p)
    /\ coldFeed \subseteq watched.seenIds
    /\ \A p \in Cyclers : Busy(p) => cycle[p].item \notin coldFeed
    /\ \A i \in 1..Len(made) : made[i].item \notin coldFeed

\* A round that fetches began in this interval, and no post on file is from a later one.
OnTime ==
    /\ \A p \in Cyclers : cycle[p].since <= time /\ (cycle[p].at = "fetching" => cycle[p].since = time)
    /\ \A i \in 1..Len(watched.posts) : watched.posts[i].at <= time

\* The file holds what was posted, the post of a round that is about to record it excepted.
OneBusy == \A p, q \in Cyclers : Busy(p) /\ Busy(q) => p = q

Same(post, m) == ModelOf[m.item] = post.model /\ m.at = post.at /\ m.simulated = post.simulated

OnFile ==
    /\ \A i \in 1..Len(watched.posts) : i \in 1..Len(made) /\ Same(watched.posts[i], made[i])
    /\ (\A p \in Cyclers : cycle[p].at # "posted") => Len(made) = Len(watched.posts)
    /\ \A p \in Cyclers : cycle[p].at = "posted" =>
          /\ Len(made) = Len(watched.posts) + 1
          /\ made[Len(made)] = [item |-> cycle[p].item, at |-> cycle[p].since, simulated |-> cycle[p].dry]

\* What a round that writes a post has checked still holds of the file.
MayPost(p) ==
    /\ \A i \in Bucket(cycle[p].dry) : /\ watched.posts[i].model # ModelOf[cycle[p].item]
                                       /\ cycle[p].since - watched.posts[i].at >= HourLength
    /\ Cardinality(Bucket(cycle[p].dry)) < PerDay

Kept ==
    /\ OneBusy /\ OnFile /\ Spaced /\ Capped
    /\ \A p \in Cyclers : cycle[p].at = "posting" => MayPost(p)

Rails == ~blurred => Kept

WatchInv == WatchTypes /\ ColdSeen /\ OnTime /\ Rails

-----------------------------------------------------------------------------
LEMMA NoCycleFacts ==
    NoCycle \in CycleState /\ NoCycle.at = "idle" /\ NoCycle.since = 0
  BY DEF NoCycle, CycleState

LEMMA WatchInitially == WatchInit => WatchInv
<1> SUFFICES ASSUME WatchInit PROVE WatchInv
  OBVIOUS
<1>1. /\ \A p \in Cyclers : cycle[p] = NoCycle /\ ~Busy(p) /\ cycle[p].at = "idle" /\ cycle[p].since = 0
      /\ cycle \in [Cyclers -> CycleState]
  BY NoCycleFacts DEF WatchInit, Busy
<1>2. /\ watched \in WatchState /\ watched.posts = <<>> /\ ~watched.seeded /\ watched.seenIds = {}
      /\ made \in Seq(MadeRecord) /\ Len(made) = 0 /\ Len(watched.posts) = 0
      /\ made = <<>> /\ coldFeed = {} /\ time = 1 /\ blurred = FALSE
  BY DEF WatchInit, WatchState
<1>3. WatchTypes
  <2>1. dryRun \in BOOLEAN /\ feed \subseteq FeedItems /\ coldFeed \subseteq FeedItems /\ blurred \in BOOLEAN
    BY DEF WatchInit
  <2> QED BY <1>1, <1>2, <2>1 DEF WatchTypes
<1>4. ColdSeen /\ OnTime
  BY <1>1, <1>2 DEF ColdSeen, OnTime
<1>5. OneBusy /\ OnFile /\ Spaced
  BY <1>1, <1>2 DEF OneBusy, OnFile, Spaced
<1>6. Capped
  <2> SUFFICES ASSUME NEW dry \in BOOLEAN
               PROVE  Cardinality({i \in 1..Len(made) : made[i].simulated = dry}) <= PerDay
    BY DEF Capped
  <2> DEFINE some == {i \in 1..Len(made) : made[i].simulated = dry}
  <2>1. some = {}
    BY <1>2
  <2> HIDE DEF some
  <2>2. Cardinality(some) = 0
    BY <2>1, FS_EmptySet
  <2>3. Cardinality(some) <= PerDay
    BY <2>2, WatchAssumption
  <2> QED BY <2>3 DEF some
<1> QED BY <1>1, <1>3, <1>4, <1>5, <1>6 DEF WatchInv, Rails, Kept

-----------------------------------------------------------------------------
(* What a step must do for the rails to hold after it *)

LEMMA ColdStands ==
    ASSUME WatchTypes, ColdSeen, coldFeed' = coldFeed, made' = made,
           watched'.seeded = watched.seeded, watched.seenIds \subseteq watched'.seenIds,
           \A p \in Cyclers : Busy(p)' => Busy(p) /\ cycle'[p].item = cycle[p].item
    PROVE  ColdSeen'
  BY DEF ColdSeen

\* No post is made, begun or recorded; whoever made one is still about to record it.
LEMMA RailsStand ==
    ASSUME WatchTypes, Rails, made' = made, watched'.posts = watched.posts,
           ~blurred' => ~blurred,
           \A p \in Cyclers : Busy(p)' => cycle'[p] = cycle[p],
           ~blurred' => \A p \in Cyclers : cycle[p].at = "posted" => cycle'[p] = cycle[p]
    PROVE  Rails'
<1> SUFFICES ASSUME ~blurred' PROVE Kept'
  BY DEF Rails
<1>1. Kept
  BY DEF Rails
<1>2. OneBusy'
  BY <1>1 DEF Kept, OneBusy, Busy
<1>3. OnFile'
  <2>1. \A p \in Cyclers : cycle'[p].at = "posted" => cycle[p].at = "posted" /\ cycle'[p] = cycle[p]
    BY DEF Busy
  <2>2. \A p \in Cyclers : cycle[p].at = "posted" => cycle'[p].at = "posted"
    OBVIOUS
  <2> QED BY <1>1, <2>1, <2>2 DEF Kept, OnFile, Same
<1>4. Spaced' /\ Capped'
  BY <1>1 DEF Kept, Spaced, Capped
<1>5. ASSUME NEW p \in Cyclers, cycle'[p].at = "posting" PROVE MayPost(p)'
  <2>1. cycle'[p] = cycle[p]
    BY <1>5 DEF Busy
  <2> QED BY <1>1, <1>5, <2>1 DEF Kept, MayPost, Bucket
<1> QED BY <1>2, <1>3, <1>4, <1>5 DEF Kept

-----------------------------------------------------------------------------
(* The steps that leave the posts alone *)

\* A round begins, by the clock or by hand.
LEMMA BeginsKeeps ==
    ASSUME WatchInv, NEW p \in Cyclers, Begins(p),
           UNCHANGED <<watched, dryRun, feed, time, made, coldFeed, blurred>>
    PROVE  WatchInv'
<1>1. WatchTypes /\ ColdSeen /\ OnTime /\ Rails
  BY DEF WatchInv
<1> DEFINE x == [NoCycle EXCEPT !.at = "fetching", !.since = time, !.dry = dryRun]
<1>2. cycle' = [cycle EXCEPT ![p] = x] /\ cycle[p] = NoCycle
  BY DEF Begins
<1>3. x \in CycleState /\ x.at = "fetching" /\ x.since = time
  BY <1>1, NoCycleFacts DEF WatchTypes, CycleState
<1> HIDE DEF x
<1>4. /\ cycle' \in [Cyclers -> CycleState] /\ cycle'[p] = x
      /\ \A q \in Cyclers : q # p => cycle'[q] = cycle[q]
  BY <1>1, <1>2, <1>3 DEF WatchTypes
<1>5. \A q \in Cyclers : /\ Busy(q)' => q # p /\ cycle'[q] = cycle[q] /\ Busy(q)
                         /\ cycle[q].at = "posted" => cycle'[q] = cycle[q]
  BY <1>2, <1>3, <1>4, NoCycleFacts DEF Busy
<1>6. WatchTypes'
  BY <1>1, <1>4, <1>5 DEF WatchTypes
<1>7. ColdSeen'
  BY <1>1, <1>5, ColdStands
<1>8. OnTime'
  BY <1>1, <1>3, <1>4 DEF OnTime, WatchTypes
<1>9. Rails'
  BY <1>1, <1>5, RailsStand
<1> QED BY <1>6, <1>7, <1>8, <1>9 DEF WatchInv

\* A round ends without a post.
LEMMA RoundEnds ==
    ASSUME WatchInv, NEW p \in Cyclers, cycle[p].at \in {"fetching", "posting"},
           cycle' = [cycle EXCEPT ![p] = NoCycle],
           watched' \in WatchState, watched'.posts = watched.posts,
           coldFeed' \subseteq FeedItems, UNCHANGED <<dryRun, feed, time, made, blurred>>
    PROVE  /\ WatchTypes' /\ OnTime' /\ Rails'
           /\ \A q \in Cyclers : Busy(q)' => Busy(q) /\ cycle'[q] = cycle[q]
<1>1. WatchTypes /\ ColdSeen /\ OnTime /\ Rails
  BY DEF WatchInv
<1>2. /\ cycle' \in [Cyclers -> CycleState] /\ cycle'[p] = NoCycle
      /\ \A q \in Cyclers : q # p => cycle'[q] = cycle[q]
  BY <1>1, NoCycleFacts DEF WatchTypes
<1>3. \A q \in Cyclers : /\ Busy(q)' => q # p /\ cycle'[q] = cycle[q] /\ Busy(q)
                         /\ cycle[q].at = "posted" => cycle'[q] = cycle[q]
  BY <1>2, NoCycleFacts DEF Busy
<1>4. WatchTypes'
  BY <1>1, <1>2, <1>3 DEF WatchTypes
<1>5. OnTime'
  BY <1>1, <1>2, NoCycleFacts DEF OnTime, WatchTypes
<1>6. Rails'
  BY <1>1, <1>3, RailsStand
<1> QED BY <1>3, <1>4, <1>5, <1>6

LEMMA FeedFailsKeeps ==
    ASSUME WatchInv, NEW p \in Cyclers, FeedFails(p) PROVE WatchInv'
<1>1. WatchTypes /\ ColdSeen
  BY DEF WatchInv
<1>2. /\ cycle[p].at = "fetching" /\ cycle' = [cycle EXCEPT ![p] = NoCycle]
      /\ watched' = [watched EXCEPT !.lastPolledAt = cycle[p].since]
      /\ UNCHANGED <<dryRun, feed, time, made, coldFeed, blurred>>
  BY DEF FeedFails, Polled
<1>3. cycle[p].since \in Nat
  BY <1>1 DEF WatchTypes, CycleState
<1>4. /\ watched' \in WatchState /\ watched'.posts = watched.posts
      /\ watched'.seeded = watched.seeded /\ watched'.seenIds = watched.seenIds
  BY <1>1, <1>2, <1>3 DEF WatchTypes, WatchState
<1>5. /\ WatchTypes' /\ OnTime' /\ Rails'
      /\ \A q \in Cyclers : Busy(q)' => Busy(q) /\ cycle'[q] = cycle[q]
  BY <1>1, <1>2, <1>4, RoundEnds DEF WatchTypes
<1>6. ColdSeen'
  BY <1>1, <1>2, <1>4, <1>5, ColdStands
<1> QED BY <1>5, <1>6 DEF WatchInv

\* What was new counts as seen: a quiet round, or a post that failed.
LEMMA SeenKeeps ==
    ASSUME WatchInv, NEW p \in Cyclers, cycle[p].at \in {"fetching", "posting"},
           NEW newly \in SUBSET FeedItems, PersistSeen(cycle[p].since, newly),
           cycle' = [cycle EXCEPT ![p] = NoCycle],
           UNCHANGED <<dryRun, feed, time, made, coldFeed, blurred>>
    PROVE  WatchInv'
<1>1. WatchTypes /\ ColdSeen
  BY DEF WatchInv
<1>2. cycle[p].since \in Nat
  BY <1>1 DEF WatchTypes, CycleState
<1>3. /\ watched' \in WatchState /\ watched'.posts = watched.posts
      /\ watched'.seeded = watched.seeded /\ watched.seenIds \subseteq watched'.seenIds
  BY <1>1, <1>2 DEF WatchTypes, WatchState, PersistSeen
<1>4. /\ WatchTypes' /\ OnTime' /\ Rails'
      /\ \A q \in Cyclers : Busy(q)' => Busy(q) /\ cycle'[q] = cycle[q]
  BY <1>1, <1>3, RoundEnds DEF WatchTypes
<1>5. ColdSeen'
  BY <1>1, <1>3, <1>4, ColdStands
<1> QED BY <1>4, <1>5 DEF WatchInv

LEMMA QuietKeeps ==
    ASSUME WatchInv, NEW p \in Cyclers, Quiet(p) PROVE WatchInv'
<1>1. feed \ watched.seenIds \in SUBSET FeedItems
  BY DEF WatchInv, WatchTypes
<1>2. /\ cycle[p].at = "fetching" /\ PersistSeen(cycle[p].since, feed \ watched.seenIds)
      /\ cycle' = [cycle EXCEPT ![p] = NoCycle]
      /\ UNCHANGED <<dryRun, feed, time, made, coldFeed, blurred>>
  BY DEF Quiet
<1> QED BY <1>1, <1>2, SeenKeeps

LEMMA PostFailsKeeps ==
    ASSUME WatchInv, NEW p \in Cyclers, PostFails(p) PROVE WatchInv'
<1>1. cycle[p].newly \in SUBSET FeedItems
  BY DEF WatchInv, WatchTypes, CycleState
<1>2. /\ cycle[p].at = "posting" /\ PersistSeen(cycle[p].since, cycle[p].newly)
      /\ cycle' = [cycle EXCEPT ![p] = NoCycle]
      /\ UNCHANGED <<dryRun, feed, time, made, coldFeed, blurred>>
  BY DEF PostFails
<1> QED BY <1>1, <1>2, SeenKeeps

\* The cold start: nobody has posted, and all of the feed is seen.
LEMMA SeedsKeeps ==
    ASSUME WatchInv, NEW p \in Cyclers, Seeds(p) PROVE WatchInv'
<1>1. WatchTypes /\ ColdSeen
  BY DEF WatchInv
<1>2. /\ cycle[p].at = "fetching" /\ ~watched.seeded /\ cycle' = [cycle EXCEPT ![p] = NoCycle]
      /\ watched' = [watched EXCEPT !.seeded = TRUE, !.seenIds = @ \cup feed, !.lastPolledAt = cycle[p].since]
      /\ coldFeed' = IF coldFeed = {} THEN feed ELSE coldFeed
      /\ UNCHANGED <<dryRun, feed, time, made, blurred>>
  BY DEF Seeds, Seeded
<1>3. cycle[p].since \in Nat
  BY <1>1 DEF WatchTypes, CycleState
<1>4. /\ watched' \in WatchState /\ watched'.posts = watched.posts
      /\ watched'.seeded = TRUE /\ feed \subseteq watched'.seenIds
  BY <1>1, <1>2, <1>3 DEF WatchTypes, WatchState
<1>5. coldFeed' \subseteq FeedItems
  BY <1>1, <1>2 DEF WatchTypes
<1>6. /\ WatchTypes' /\ OnTime' /\ Rails'
      /\ \A q \in Cyclers : Busy(q)' => Busy(q) /\ cycle'[q] = cycle[q]
  BY <1>2, <1>4, <1>5, RoundEnds
<1>7. coldFeed' = feed /\ made' = <<>> /\ \A q \in Cyclers : ~Busy(q)'
  BY <1>1, <1>2, <1>6 DEF ColdSeen
<1>8. ColdSeen'
  BY <1>4, <1>7 DEF ColdSeen
<1> QED BY <1>6, <1>8 DEF WatchInv

-----------------------------------------------------------------------------
(* The steps of a post *)

LEMMA BucketFinite ==
    ASSUME WatchTypes, NEW dry \in BOOLEAN
    PROVE  IsFiniteSet(Bucket(dry)) /\ Cardinality(Bucket(dry)) \in Nat
<1>1. IsFiniteSet(1..Len(watched.posts)) /\ Bucket(dry) \subseteq 1..Len(watched.posts)
  BY FS_Interval, LenProperties DEF WatchTypes, WatchState, Bucket
<1> QED BY <1>1, FS_Subset, FS_CardinalityType

\* The caps are applied to every post of the bucket: none on file is from a later time.
LEMMA WithinMeansFree ==
    ASSUME WatchTypes, OnTime, NEW dry \in BOOLEAN, WithinRateLimit(Bucket(dry), time)
    PROVE  /\ \A i \in Bucket(dry) : time - watched.posts[i].at >= HourLength
           /\ Cardinality(Bucket(dry)) < PerDay
<1> DEFINE before == {i \in Bucket(dry) : watched.posts[i].at <= time}
           recent == {i \in before : time - watched.posts[i].at < HourLength}
<1>1. before = Bucket(dry)
  BY DEF OnTime, Bucket
<1>2. Cardinality(recent) < PerHour /\ Cardinality(before) < PerDay
  BY DEF WithinRateLimit, Below
<1>3. recent \subseteq Bucket(dry)
  BY <1>1
<1> HIDE DEF before
<1>4. recent = {}
  <2> HIDE DEF recent
  <2>1. IsFiniteSet(recent) /\ Cardinality(recent) \in Nat
    BY <1>3, BucketFinite, FS_Subset, FS_CardinalityType
  <2>2. Cardinality(recent) = 0
    BY <1>2, <2>1, WatchAssumption
  <2> QED BY <2>1, <2>2, FS_EmptySet
<1>5. ASSUME NEW i \in Bucket(dry) PROVE time - watched.posts[i].at >= HourLength
  <2>1. ~(time - watched.posts[i].at < HourLength)
    BY <1>1, <1>4, <1>5
  <2>2. watched.posts[i].at \in Nat /\ time \in Nat
    <3>1. watched.posts \in Seq(PostRecord) /\ i \in 1..Len(watched.posts) /\ time \in Nat
      BY <1>5 DEF WatchTypes, WatchState, Bucket
    <3>2. watched.posts[i] \in PostRecord
      BY <3>1, ElementOfSeq
    <3> QED BY <3>1, <3>2 DEF PostRecord
  <2> QED BY <2>1, <2>2, WatchAssumption
<1> QED BY <1>1, <1>2, <1>5

LEMMA PostBeginsKeeps ==
    ASSUME WatchInv, NEW p \in Cyclers, PostBegins(p) PROVE WatchInv'
<1>1. WatchTypes /\ ColdSeen /\ OnTime /\ Rails
  BY DEF WatchInv
<1>2. PICK i \in Candidates(p) :
        cycle' = [cycle EXCEPT ![p].at = "posting", ![p].item = i, ![p].newly = feed \ watched.seenIds]
  BY DEF PostBegins
<1>3. /\ cycle[p].at = "fetching" /\ watched.seeded
      /\ WithinRateLimit(Bucket(cycle[p].dry), cycle[p].since)
      /\ blurred' = (blurred \/ \E q \in Cyclers : cycle[q].at \in {"posting", "posted"})
      /\ UNCHANGED <<watched, dryRun, feed, time, made, coldFeed>>
  BY DEF PostBegins
<1>4. /\ i \in feed \ watched.seenIds /\ i \in FeedItems
      /\ \A n \in Bucket(cycle[p].dry) : watched.posts[n].model # ModelOf[i]
  BY <1>1 DEF Candidates, WatchTypes
<1>5. cycle[p] \in CycleState /\ cycle[p].since = time /\ cycle[p].dry \in BOOLEAN
  BY <1>1, <1>3 DEF WatchTypes, OnTime, CycleState
<1>6. /\ cycle' \in [Cyclers -> CycleState]
      /\ cycle'[p].at = "posting" /\ cycle'[p].item = i /\ cycle'[p].since = time /\ cycle'[p].dry = cycle[p].dry
      /\ \A q \in Cyclers : q # p => cycle'[q] = cycle[q]
  <2>1. feed \ watched.seenIds \in SUBSET FeedItems
    BY <1>1 DEF WatchTypes
  <2>2. cycle \in [Cyclers -> CycleState]
    BY <1>1 DEF WatchTypes
  <2> QED BY <1>2, <1>4, <1>5, <2>1, <2>2 DEF CycleState
<1>7. WatchTypes'
  <2>1. blurred' \in BOOLEAN
    BY <1>3
  <2>2. \A q \in Cyclers : Busy(q)' => cycle'[q].item \in FeedItems
    BY <1>1, <1>4, <1>6 DEF WatchTypes, Busy
  <2> QED BY <1>1, <1>3, <1>6, <2>1, <2>2 DEF WatchTypes
<1>8. ColdSeen'
  <2>1. \A q \in Cyclers : Busy(q)' => cycle'[q].item \notin coldFeed
    BY <1>1, <1>4, <1>6 DEF ColdSeen, Busy
  <2> QED BY <1>1, <1>3, <2>1 DEF ColdSeen
<1>9. OnTime'
  BY <1>1, <1>3, <1>6 DEF OnTime, WatchTypes
<1>10. Rails'
  <2> SUFFICES ASSUME ~blurred' PROVE Kept'
    BY DEF Rails
  <2>1. Kept /\ \A q \in Cyclers : ~Busy(q)
    BY <1>1, <1>3 DEF Rails, Busy
  <2>2. \A q \in Cyclers : Busy(q)' => q = p
    BY <1>6, <2>1 DEF Busy
  <2>3. OneBusy'
    BY <2>2 DEF OneBusy
  <2>4. OnFile'
    <3>1. \A q \in Cyclers : cycle[q].at # "posted" /\ cycle'[q].at # "posted"
      BY <1>6, <2>1 DEF Busy
    <3> QED BY <1>3, <2>1, <3>1 DEF Kept, OnFile, Same
  <2>5. Spaced' /\ Capped'
    BY <1>3, <2>1 DEF Kept, Spaced, Capped
  <2>6. MayPost(p)'
    <3>1. /\ \A n \in Bucket(cycle[p].dry) : time - watched.posts[n].at >= HourLength
          /\ Cardinality(Bucket(cycle[p].dry)) < PerDay
      BY <1>1, <1>3, <1>5, WithinMeansFree
    <3>2. Bucket(cycle[p].dry)' = Bucket(cycle[p].dry) /\ watched' = watched
      BY <1>3, <1>6 DEF Bucket
    <3> QED BY <1>4, <1>6, <3>1, <3>2 DEF MayPost
  <2>7. ASSUME NEW q \in Cyclers, cycle'[q].at = "posting" PROVE MayPost(q)'
    BY <2>2, <2>6, <2>7 DEF Busy
  <2> QED BY <2>3, <2>4, <2>5, <2>7 DEF Kept
<1> QED BY <1>7, <1>8, <1>9, <1>10 DEF WatchInv

LEMMA RecordPostKeeps ==
    ASSUME WatchInv, NEW p \in Cyclers, RecordPost(p) PROVE WatchInv'
<1>1. WatchTypes /\ ColdSeen /\ OnTime /\ Rails
  BY DEF WatchInv
<1> DEFINE post == [model |-> ModelOf[cycle[p].item], at |-> cycle[p].since, simulated |-> cycle[p].dry]
<1>2. /\ cycle[p].at = "posted"
      /\ watched' = [watched EXCEPT !.seenIds = @ \cup cycle[p].newly, !.lastPolledAt = cycle[p].since,
                                    !.posts = Append(@, post)]
      /\ cycle' = [cycle EXCEPT ![p] = NoCycle]
      /\ UNCHANGED <<dryRun, feed, time, made, coldFeed, blurred>>
  BY DEF RecordPost
<1>3. /\ cycle[p] \in CycleState /\ cycle[p].item \in FeedItems /\ watched.posts \in Seq(PostRecord)
      /\ cycle[p].since <= time /\ Len(watched.posts) \in Nat /\ cycle \in [Cyclers -> CycleState]
  BY <1>1, <1>2 DEF WatchTypes, WatchState, OnTime, Busy
<1>4. post \in PostRecord /\ post.at <= time
  BY <1>3 DEF PostRecord, CycleState
<1> HIDE DEF post
<1>5. /\ watched' \in WatchState /\ watched'.posts = Append(watched.posts, post)
      /\ watched'.seeded = watched.seeded /\ watched.seenIds \subseteq watched'.seenIds
  <2>1. cycle[p].newly \in SUBSET FeedItems /\ cycle[p].since \in Nat
    BY <1>3 DEF CycleState
  <2>2. Append(watched.posts, post) \in Seq(PostRecord)
    BY <1>3, <1>4
  <2> QED BY <1>1, <1>2, <2>1, <2>2 DEF WatchTypes, WatchState
<1>6. /\ Len(watched'.posts) = Len(watched.posts) + 1
      /\ \A i \in 1..Len(watched.posts) : watched'.posts[i] = watched.posts[i]
      /\ watched'.posts[Len(watched.posts) + 1] = post
  BY <1>3, <1>4, <1>5
<1>7. /\ cycle' \in [Cyclers -> CycleState] /\ cycle'[p] = NoCycle
      /\ \A q \in Cyclers : q # p => cycle'[q] = cycle[q]
  BY <1>2, <1>3, NoCycleFacts
<1>8. \A q \in Cyclers : Busy(q)' => q # p /\ cycle'[q] = cycle[q] /\ Busy(q)
  BY <1>7, NoCycleFacts DEF Busy
<1>9. WatchTypes'
  BY <1>1, <1>2, <1>5, <1>7, <1>8 DEF WatchTypes
<1>10. ColdSeen'
  BY <1>1, <1>2, <1>5, <1>8, ColdStands
<1>11. OnTime'
  <2>1. \A i \in 1..Len(watched'.posts) : watched'.posts[i].at <= time
    <3> SUFFICES ASSUME NEW i \in 1..Len(watched'.posts) PROVE watched'.posts[i].at <= time
      OBVIOUS
    <3>1. CASE i = Len(watched.posts) + 1
      BY <1>4, <1>6, <3>1
    <3>2. CASE i # Len(watched.posts) + 1
      <4>1. i \in 1..Len(watched.posts)
        BY <1>3, <1>6, <3>2
      <4> QED BY <1>1, <1>6, <4>1 DEF OnTime
    <3> QED BY <3>1, <3>2
  <2> QED BY <1>1, <1>2, <1>7, <2>1, NoCycleFacts DEF OnTime, WatchTypes
<1>12. Rails'
  <2> SUFFICES ASSUME ~blurred' PROVE Kept'
    BY DEF Rails
  <2>1. Kept /\ \A q \in Cyclers : Busy(q) => q = p
    BY <1>1, <1>2 DEF Rails, Kept, OneBusy, Busy
  <2>2. \A q \in Cyclers : ~Busy(q)'
    BY <1>8, <2>1
  <2>3. /\ Len(made) = Len(watched.posts) + 1
        /\ made[Len(watched.posts) + 1] = [item |-> cycle[p].item, at |-> cycle[p].since, simulated |-> cycle[p].dry]
    BY <1>2, <2>1 DEF Kept, OnFile
  <2>4. OnFile'
    <3>1. ASSUME NEW i \in 1..Len(watched'.posts)
          PROVE  i \in 1..Len(made) /\ Same(watched'.posts[i], made[i])
      <4>1. i \in 1..Len(made)
        BY <1>3, <1>6, <2>3
      <4>2. CASE i = Len(watched.posts) + 1
        BY <1>6, <2>3, <4>2 DEF Same, post
      <4>3. CASE i # Len(watched.posts) + 1
        <5>1. i \in 1..Len(watched.posts)
          BY <1>3, <1>6, <4>3
        <5> QED BY <1>6, <2>1, <4>1, <5>1 DEF Kept, OnFile
      <4> QED BY <4>1, <4>2, <4>3
    <3>2. \A q \in Cyclers : cycle'[q].at # "posted"
      BY <2>2 DEF Busy
    <3> QED BY <1>2, <1>6, <2>3, <3>1, <3>2 DEF OnFile, Same
  <2>5. OneBusy' /\ Spaced' /\ Capped'
    BY <1>2, <2>1, <2>2 DEF Kept, OneBusy, Spaced, Capped
  <2> QED BY <2>2, <2>4, <2>5 DEF Kept, Busy
<1> QED BY <1>9, <1>10, <1>11, <1>12 DEF WatchInv

LEMMA PostedKeeps ==
    ASSUME WatchInv, NEW p \in Cyclers, Posted(p) PROVE WatchInv'
<1>1. WatchTypes /\ ColdSeen /\ OnTime /\ Rails
  BY DEF WatchInv
<1> DEFINE m == [item |-> cycle[p].item, at |-> cycle[p].since, simulated |-> cycle[p].dry]
           n == Len(made)
<1>2. /\ cycle[p].at = "posting" /\ made' = Append(made, m)
      /\ cycle' = [cycle EXCEPT ![p].at = "posted"]
      /\ UNCHANGED <<watched, dryRun, feed, time, coldFeed, blurred>>
  BY DEF Posted
<1>3. /\ cycle[p] \in CycleState /\ cycle[p].item \in FeedItems /\ made \in Seq(MadeRecord) /\ n \in Nat
      /\ cycle \in [Cyclers -> CycleState]
  BY <1>1, <1>2 DEF WatchTypes, Busy
<1>4. m \in MadeRecord
  BY <1>3 DEF MadeRecord, CycleState
<1>5. /\ m.item = cycle[p].item /\ m.at = cycle[p].since /\ m.simulated = cycle[p].dry
      /\ cycle[p].since \in Nat /\ cycle[p].dry \in BOOLEAN
  BY <1>3 DEF CycleState
<1> HIDE DEF m
<1>6. /\ made' \in Seq(MadeRecord) /\ Len(made') = n + 1 /\ made'[n + 1] = m
      /\ \A i \in 1..n : made'[i] = made[i]
  BY <1>2, <1>3, <1>4
<1> HIDE DEF n
<1>7. /\ cycle' \in [Cyclers -> CycleState] /\ cycle'[p].at = "posted" /\ cycle'[p].item = cycle[p].item
      /\ cycle'[p].since = cycle[p].since /\ cycle'[p].dry = cycle[p].dry
      /\ \A q \in Cyclers : q # p => cycle'[q] = cycle[q]
  BY <1>2, <1>3 DEF CycleState
<1>8. \A q \in Cyclers : Busy(q)' => Busy(q) /\ cycle'[q].item = cycle[q].item
  BY <1>2, <1>7 DEF Busy
<1>9. WatchTypes'
  BY <1>1, <1>2, <1>6, <1>7, <1>8 DEF WatchTypes
<1>10. ColdSeen'
  <2>1. watched.seeded /\ cycle[p].item \notin coldFeed
    BY <1>1, <1>2 DEF ColdSeen, Busy
  <2>2. \A i \in 1..Len(made') : made'[i].item \notin coldFeed
    BY <1>1, <1>3, <1>5, <1>6, <2>1 DEF ColdSeen, n
  <2> QED BY <1>1, <1>2, <1>8, <2>1, <2>2 DEF ColdSeen
<1>11. OnTime'
  BY <1>1, <1>2, <1>7 DEF OnTime, WatchTypes
<1>12. Rails'
  <2> SUFFICES ASSUME ~blurred' PROVE Kept'
    BY DEF Rails
  <2>1. Kept /\ MayPost(p) /\ \A q \in Cyclers : Busy(q) => q = p
    BY <1>1, <1>2 DEF Rails, Kept, OneBusy, Busy
  <2>2. \A q \in Cyclers : Busy(q)' => q = p
    BY <1>8, <2>1
  <2>3. /\ n = Len(watched.posts)
        /\ \A i \in 1..n : Same(watched.posts[i], made[i])
    <3>1. \A q \in Cyclers : cycle[q].at # "posted"
      BY <1>2, <2>1 DEF Busy
    <3> QED BY <2>1, <3>1 DEF Kept, OnFile, n
  <2>4. OnFile'
    <3>1. \A i \in 1..Len(watched.posts) : i \in 1..Len(made') /\ Same(watched.posts[i], made'[i])
      BY <1>3, <1>6, <2>3
    <3>2. \A q \in Cyclers : cycle'[q].at = "posted" => q = p
      BY <2>2 DEF Busy
    <3>3. made'[Len(made')] = [item |-> cycle'[p].item, at |-> cycle'[p].since, simulated |-> cycle'[p].dry]
      BY <1>6, <1>7 DEF m
    <3> QED BY <1>2, <1>6, <1>7, <2>3, <3>1, <3>2, <3>3 DEF OnFile, Same
  <2>5. ASSUME NEW i \in 1..n, made[i].simulated = m.simulated
        PROVE  ModelOf[made[i].item] # ModelOf[m.item] /\ m.at - made[i].at >= HourLength
    <3>1. i \in Bucket(cycle[p].dry) /\ Same(watched.posts[i], made[i])
      BY <1>5, <2>3, <2>5 DEF Bucket, Same
    <3> QED BY <1>5, <2>1, <3>1 DEF MayPost, Same
  <2>6. Spaced'
    <3> SUFFICES ASSUME NEW i \in 1..(n + 1), NEW j \in 1..(n + 1), i # j, made'[i].simulated = made'[j].simulated
                 PROVE  /\ ModelOf[made'[i].item] # ModelOf[made'[j].item]
                        /\ \/ made'[i].at - made'[j].at >= HourLength
                           \/ made'[j].at - made'[i].at >= HourLength
      BY <1>6 DEF Spaced
    <3>1. CASE i \in 1..n /\ j \in 1..n
      BY <1>6, <2>1, <3>1 DEF Kept, Spaced, n
    <3>2. CASE i \in 1..n /\ j = n + 1
      BY <1>6, <2>5, <3>2
    <3>3. CASE i = n + 1 /\ j \in 1..n
      BY <1>6, <2>5, <3>3
    <3> QED BY <1>3, <3>1, <3>2, <3>3
  <2>7. Capped'
    <3> SUFFICES ASSUME NEW dry \in BOOLEAN
                 PROVE  Cardinality({i \in 1..Len(made') : made'[i].simulated = dry}) <= PerDay
      BY DEF Capped
    <3> DEFINE old == {i \in 1..n : made[i].simulated = dry}
               new == {i \in 1..Len(made') : made'[i].simulated = dry}
    <3>1. CASE dry # m.simulated
      <4>1. new = old
        BY <1>3, <1>6, <3>1
      <4>2. Cardinality(old) <= PerDay
        BY <2>1 DEF Kept, Capped, n
      <4> QED BY <4>1, <4>2
    <3>2. CASE dry = m.simulated
      <4>1. old = Bucket(cycle[p].dry)
        BY <1>5, <2>3, <3>2 DEF Bucket, Same
      <4>2. new = old \cup {n + 1}
        BY <1>3, <1>6, <3>2
      <4> HIDE DEF old, new
      <4>3. IsFiniteSet(old) /\ Cardinality(old) \in Nat /\ Cardinality(old) < PerDay
        BY <1>1, <1>5, <2>1, <4>1, BucketFinite DEF MayPost
      <4>4. Cardinality(new) \in Nat /\ Cardinality(new) <= Cardinality(old) + 1
        <5>1. Cardinality(old \cup {n + 1}) = IF n + 1 \in old THEN Cardinality(old) ELSE Cardinality(old) + 1
          BY <4>3, FS_AddElement
        <5> QED BY <4>2, <4>3, <5>1
      <4>5. Cardinality(new) <= PerDay
        BY <4>3, <4>4, WatchAssumption
      <4> QED BY <4>5 DEF new
    <3> QED BY <3>1, <3>2
  <2>8. OneBusy' /\ \A q \in Cyclers : cycle'[q].at # "posting"
    BY <1>7, <2>2 DEF OneBusy, Busy
  <2> QED BY <2>4, <2>6, <2>7, <2>8 DEF Kept
<1> QED BY <1>9, <1>10, <1>11, <1>12 DEF WatchInv

-----------------------------------------------------------------------------
(* The steps around the rounds *)

\* The mode is switched, or the feed grows.
LEMMA AroundKeeps ==
    ASSUME WatchInv, dryRun' \in BOOLEAN, feed' \subseteq FeedItems,
           UNCHANGED <<watched, time, cycle, made, coldFeed, blurred>>
    PROVE  WatchInv'
<1>1. WatchTypes /\ ColdSeen /\ OnTime /\ Rails
  BY DEF WatchInv
<1>2. WatchTypes'
  BY <1>1 DEF WatchTypes, Busy
<1>3. ColdSeen' /\ OnTime'
  BY <1>1 DEF ColdSeen, OnTime, Busy
<1>4. Rails'
  BY <1>1, RailsStand
<1> QED BY <1>2, <1>3, <1>4 DEF WatchInv

LEMMA TimePassesKeeps ==
    ASSUME WatchInv, TimePasses PROVE WatchInv'
<1>1. WatchTypes /\ ColdSeen /\ OnTime /\ Rails
  BY DEF WatchInv
<1>2. /\ \A p \in Cyclers : cycle[p].at # "fetching" /\ cycle[p].since \in Nat
      /\ time \in Nat /\ time' = time + 1
      /\ UNCHANGED <<watched, dryRun, feed, cycle, made, coldFeed, blurred>>
  BY <1>1 DEF TimePasses, WatchTypes, CycleState
<1>3. \A i \in 1..Len(watched.posts) : watched.posts[i].at \in Nat
  <2>1. watched.posts \in Seq(PostRecord)
    BY <1>1 DEF WatchTypes, WatchState
  <2>2. \A i \in 1..Len(watched.posts) : watched.posts[i] \in PostRecord
    BY <2>1, ElementOfSeq
  <2> QED BY <2>2 DEF PostRecord
<1>4. WatchTypes' /\ ColdSeen'
  BY <1>1, <1>2 DEF WatchTypes, ColdSeen, Busy
<1>5. OnTime'
  BY <1>1, <1>2, <1>3 DEF OnTime
<1>6. Rails'
  BY <1>1, <1>2, RailsStand
<1> QED BY <1>4, <1>5, <1>6 DEF WatchInv

\* A death between a post and its record blurs what follows.
LEMMA WatchDiesKeeps ==
    ASSUME WatchInv, WatchDies PROVE WatchInv'
<1>1. WatchTypes /\ ColdSeen /\ OnTime /\ Rails
  BY DEF WatchInv
<1>2. /\ cycle' = [p \in Cyclers |-> NoCycle]
      /\ blurred' = (blurred \/ \E q \in Cyclers : cycle[q].at = "posted")
      /\ UNCHANGED <<watched, dryRun, feed, time, made, coldFeed>>
  BY DEF WatchDies
<1>3. /\ cycle' \in [Cyclers -> CycleState]
      /\ \A p \in Cyclers : ~Busy(p)' /\ cycle'[p].at = "idle" /\ cycle'[p].since = 0
  BY <1>2, NoCycleFacts DEF Busy
<1>4. blurred' \in BOOLEAN
  BY <1>2
<1>5. WatchTypes'
  BY <1>1, <1>2, <1>3, <1>4 DEF WatchTypes
<1>6. ColdSeen' /\ OnTime'
  BY <1>1, <1>2, <1>3 DEF ColdSeen, OnTime, WatchTypes
<1>7. Rails'
  <2>1. ~blurred' => ~blurred /\ \A p \in Cyclers : cycle[p].at # "posted"
    BY <1>2
  <2> QED BY <1>1, <1>2, <1>3, <2>1, RailsStand
<1> QED BY <1>5, <1>6, <1>7 DEF WatchInv

-----------------------------------------------------------------------------
LEMMA WatchStep ==
    ASSUME WatchInv, [WatchNext]_wvars PROVE WatchInv'
<1>1. ASSUME NEW p \in Pollers, PollDue(p) PROVE WatchInv'
  BY <1>1, BeginsKeeps DEF PollDue, Cyclers
<1>2. CASE FireByHand
  BY <1>2, BeginsKeeps DEF FireByHand, Cyclers
<1>3. ASSUME NEW p \in Cyclers, FeedFails(p) PROVE WatchInv'
  BY <1>3, FeedFailsKeeps
<1>4. ASSUME NEW p \in Cyclers, Seeds(p) PROVE WatchInv'
  BY <1>4, SeedsKeeps
<1>5. ASSUME NEW p \in Cyclers, Quiet(p) PROVE WatchInv'
  BY <1>5, QuietKeeps
<1>6. ASSUME NEW p \in Cyclers, PostBegins(p) PROVE WatchInv'
  BY <1>6, PostBeginsKeeps
<1>7. ASSUME NEW p \in Cyclers, Posted(p) PROVE WatchInv'
  BY <1>7, PostedKeeps
<1>8. ASSUME NEW p \in Cyclers, RecordPost(p) PROVE WatchInv'
  BY <1>8, RecordPostKeeps
<1>9. ASSUME NEW p \in Cyclers, PostFails(p) PROVE WatchInv'
  BY <1>9, PostFailsKeeps
<1>10. CASE Switch
  <2>1. dryRun' \in BOOLEAN /\ feed' \subseteq FeedItems
    BY <1>10 DEF Switch, WatchInv, WatchTypes
  <2> QED BY <1>10, <2>1, AroundKeeps DEF Switch
<1>11. CASE FeedGrows
  <2>1. dryRun' \in BOOLEAN /\ feed' \subseteq FeedItems
    BY <1>11 DEF FeedGrows, WatchInv, WatchTypes
  <2> QED BY <1>11, <2>1, AroundKeeps DEF FeedGrows
<1>12. CASE TimePasses
  BY <1>12, TimePassesKeeps
<1>13. CASE WatchDies
  BY <1>13, WatchDiesKeeps
<1>14. CASE UNCHANGED wvars
  <2>1. dryRun' \in BOOLEAN /\ feed' \subseteq FeedItems
    BY <1>14 DEF wvars, WatchInv, WatchTypes
  <2> QED BY <1>14, <2>1, AroundKeeps DEF wvars
<1> QED BY <1>1, <1>2, <1>3, <1>4, <1>5, <1>6, <1>7, <1>8, <1>9, <1>10, <1>11, <1>12, <1>13, <1>14
        DEF WatchNext

\* rate-limit.ts:10-11 and watch.ts:81-83,186-188, for any feed, number of overlapping ticks and
\* daily cap: the caps and the cold start hold, but for what a blurred round posts.
THEOREM RailsCorrect == WatchSpec => []RailsHold
<1>1. WatchInit => WatchInv
  BY WatchInitially
<1>2. WatchInv /\ [WatchNext]_wvars => WatchInv'
  BY WatchStep
<1>3. WatchInv => RailsHold
  BY DEF WatchInv, ColdSeen, ColdStartSilent, Rails, Kept, RailsHold
<1> QED BY <1>1, <1>2, <1>3, PTL DEF WatchSpec

-----------------------------------------------------------------------------
(* The bounds and the types of the file: what a round under way will write *)

UnderWay(p) == cycle[p].at # "idle"

Counted == time \in 1..MaxTime /\ byhand \in 0..MaxHand /\ mishaps \in 0..MaxMishaps

Dated ==
    /\ watched.lastPolledAt \in 0..time
    /\ \A i \in 1..Len(watched.posts) : watched.posts[i].at >= 1

Aimed == \A p \in Cyclers : /\ UnderWay(p) => cycle[p].since >= 1
                            /\ Busy(p) => cycle[p].item \in cycle[p].newly

Bounded == Counted /\ Dated /\ Aimed

LEMMA BoundedInitially == WatchInit => Bounded
<1> SUFFICES ASSUME WatchInit PROVE Bounded
  OBVIOUS
<1>1. \A p \in Cyclers : ~UnderWay(p) /\ ~Busy(p)
  BY NoCycleFacts DEF WatchInit, UnderWay, Busy
<1>2. Counted /\ Dated
  BY WatchAssumption DEF WatchInit, Counted, Dated
<1> QED BY <1>1, <1>2 DEF Bounded, Aimed

LEMMA CountedStep ==
    ASSUME Counted, [WatchNext]_wvars PROVE Counted' /\ time <= time'
<1>1. CASE TimePasses
  BY <1>1, WatchAssumption DEF TimePasses, Counted
<1>2. CASE FireByHand \/ Switch
  BY <1>2, WatchAssumption DEF FireByHand, Switch, Counted
<1>3. CASE WatchDies \/ \E p \in Cyclers : FeedFails(p) \/ PostFails(p)
  BY <1>3, WatchAssumption DEF WatchDies, FeedFails, PostFails, Counted
<1>4. CASE \/ \E p \in Pollers : PollDue(p)
           \/ \E p \in Cyclers : Seeds(p) \/ Quiet(p) \/ PostBegins(p) \/ Posted(p) \/ RecordPost(p)
           \/ FeedGrows \/ UNCHANGED wvars
  <2>1. UNCHANGED <<time, byhand, mishaps>>
    BY <1>4 DEF PollDue, Seeds, Quiet, PostBegins, Posted, RecordPost, FeedGrows, wvars
  <2> QED BY <2>1 DEF Counted
<1> QED BY <1>1, <1>2, <1>3, <1>4 DEF WatchNext

\* A round is dated by the time it begins at, and keeps that date and what it was begun for.
LEMMA AimedStep ==
    ASSUME WatchInv, Bounded, [WatchNext]_wvars PROVE Aimed'
<1>1. cycle \in [Cyclers -> CycleState] /\ time >= 1 /\ Aimed
  BY DEF WatchInv, WatchTypes, Bounded, Counted
<1>2. ASSUME NEW p \in Cyclers, Begins(p) PROVE Aimed'
  <2> DEFINE x == [NoCycle EXCEPT !.at = "fetching", !.since = time, !.dry = dryRun]
  <2>1. x.at = "fetching" /\ x.since = time
    BY DEF NoCycle
  <2>2. cycle'[p] = x /\ \A q \in Cyclers : q # p => cycle'[q] = cycle[q]
    BY <1>1, <1>2 DEF Begins
  <2> HIDE DEF x
  <2> QED BY <1>1, <2>1, <2>2 DEF Aimed, UnderWay, Busy
<1>3. ASSUME NEW p \in Cyclers, cycle' = [cycle EXCEPT ![p] = NoCycle] PROVE Aimed'
  <2>1. cycle'[p] = NoCycle /\ \A q \in Cyclers : q # p => cycle'[q] = cycle[q]
    BY <1>1, <1>3
  <2> QED BY <1>1, <2>1, NoCycleFacts DEF Aimed, UnderWay, Busy
<1>4. ASSUME NEW p \in Cyclers, PostBegins(p) PROVE Aimed'
  <2>1. PICK i \in Candidates(p) :
          cycle' = [cycle EXCEPT ![p].at = "posting", ![p].item = i, ![p].newly = feed \ watched.seenIds]
    BY <1>4 DEF PostBegins
  <2>2. cycle[p].at = "fetching" /\ i \in feed \ watched.seenIds
    BY <1>4, <2>1 DEF PostBegins, Candidates
  <2>3. /\ cycle'[p].since = cycle[p].since /\ cycle'[p].item \in cycle'[p].newly
        /\ \A q \in Cyclers : q # p => cycle'[q] = cycle[q]
    BY <1>1, <2>1, <2>2 DEF CycleState
  <2>4. cycle[p].since >= 1
    BY <1>1, <2>2 DEF Aimed, UnderWay
  <2> QED BY <1>1, <2>3, <2>4 DEF Aimed, UnderWay, Busy
<1>5. ASSUME NEW p \in Cyclers, Posted(p) PROVE Aimed'
  <2>1. cycle[p].at = "posting" /\ cycle' = [cycle EXCEPT ![p].at = "posted"]
    BY <1>5 DEF Posted
  <2>2. /\ cycle'[p].since = cycle[p].since /\ cycle'[p].item = cycle[p].item
        /\ cycle'[p].newly = cycle[p].newly /\ \A q \in Cyclers : q # p => cycle'[q] = cycle[q]
    BY <1>1, <2>1 DEF CycleState
  <2> QED BY <1>1, <2>1, <2>2 DEF Aimed, UnderWay, Busy
<1>6. CASE WatchDies
  <2>1. \A q \in Cyclers : cycle'[q] = NoCycle
    BY <1>6 DEF WatchDies
  <2> QED BY <2>1, NoCycleFacts DEF Aimed, UnderWay, Busy
<1>7. CASE UNCHANGED cycle
  BY <1>1, <1>7 DEF Aimed, UnderWay, Busy
<1>8. ASSUME NEW p \in Cyclers, FeedFails(p) \/ Seeds(p) \/ Quiet(p) \/ RecordPost(p) \/ PostFails(p)
      PROVE  Aimed'
  BY <1>3, <1>8 DEF FeedFails, Seeds, Quiet, RecordPost, PostFails
<1>9. CASE (\E p \in Pollers : PollDue(p)) \/ FireByHand
  BY <1>2, <1>9 DEF PollDue, FireByHand, Cyclers
<1>10. CASE Switch \/ FeedGrows \/ TimePasses \/ UNCHANGED wvars
  BY <1>7, <1>10 DEF Switch, FeedGrows, TimePasses, wvars
<1> QED BY <1>4, <1>5, <1>6, <1>8, <1>9, <1>10 DEF WatchNext

\* What a round writes is dated by when it began.
LEMMA DatedStep ==
    ASSUME WatchInv, Bounded, [WatchNext]_wvars PROVE Dated'
<1>1. /\ watched \in WatchState /\ Dated /\ cycle \in [Cyclers -> CycleState]
      /\ time \in Nat /\ time' \in Nat /\ time <= time'
  BY CountedStep DEF WatchInv, WatchTypes, Bounded, Counted
<1>2. ASSUME NEW p \in Cyclers, UnderWay(p) PROVE cycle[p].since \in 1..time
  BY <1>1, <1>2 DEF CycleState, Bounded, Aimed, WatchInv, OnTime
<1>3. CASE UNCHANGED watched
  BY <1>1, <1>3 DEF Dated
<1>4. ASSUME NEW p \in Cyclers, UnderWay(p), watched'.lastPolledAt = cycle[p].since,
             watched'.posts = watched.posts
      PROVE  Dated'
  BY <1>1, <1>2, <1>4 DEF Dated
<1>5. ASSUME NEW p \in Cyclers, RecordPost(p) PROVE Dated'
  <2> DEFINE post == [model |-> ModelOf[cycle[p].item], at |-> cycle[p].since, simulated |-> cycle[p].dry]
  <2>1. /\ UnderWay(p) /\ watched'.lastPolledAt = cycle[p].since
        /\ watched'.posts = Append(watched.posts, post)
    BY <1>1, <1>5 DEF RecordPost, WatchState, UnderWay
  <2>2. watched.posts \in Seq(PostRecord) /\ post.at \in 1..time
    BY <1>1, <1>2, <2>1 DEF WatchState
  <2> HIDE DEF post
  <2>3. \A i \in 1..Len(watched'.posts) : \/ i \in 1..Len(watched.posts) /\ watched'.posts[i] = watched.posts[i]
                                          \/ watched'.posts[i] = post
    BY <2>1, <2>2
  <2>4. \A i \in 1..Len(watched'.posts) : watched'.posts[i].at >= 1
    BY <1>1, <2>2, <2>3 DEF Dated
  <2> QED BY <1>1, <1>2, <2>1, <2>4 DEF Dated
<1>6. ASSUME NEW p \in Cyclers, FeedFails(p) \/ Seeds(p) \/ Quiet(p) \/ PostFails(p) PROVE Dated'
  <2>1. /\ UnderWay(p) /\ watched'.lastPolledAt = cycle[p].since /\ watched'.posts = watched.posts
    BY <1>1, <1>6 DEF FeedFails, Seeds, Quiet, PostFails, Polled, Seeded, PersistSeen, WatchState, UnderWay
  <2> QED BY <1>4, <2>1
<1>7. ASSUME NEW p \in Cyclers, PostBegins(p) \/ Posted(p) PROVE Dated'
  BY <1>3, <1>7 DEF PostBegins, Posted
<1>8. CASE \/ \E p \in Pollers : PollDue(p)
           \/ FireByHand \/ Switch \/ FeedGrows \/ TimePasses \/ WatchDies \/ UNCHANGED wvars
  BY <1>3, <1>8 DEF PollDue, FireByHand, Switch, FeedGrows, TimePasses, WatchDies, wvars
<1> QED BY <1>5, <1>6, <1>7, <1>8 DEF WatchNext

\* A watch routine's file and rounds keep their types, for any feed and any bounds: every post on
\* file is of the feed, dated by a round that took place, and a post under way is of what was new.
THEOREM WatchTypesCorrect == WatchSpec => []WatchTypeOK
<1>1. WatchInit => WatchInv /\ Bounded
  BY WatchInitially, BoundedInitially
<1>2. WatchInv /\ Bounded /\ [WatchNext]_wvars => (WatchInv /\ Bounded)'
  BY WatchStep, CountedStep, AimedStep, DatedStep DEF Bounded
<1>3. WatchInv /\ Bounded => WatchTypeOK
  <2> SUFFICES ASSUME WatchInv, Bounded PROVE WatchTypeOK
    OBVIOUS
  <2>1. /\ watched \in WatchState /\ cycle \in [Cyclers -> CycleState] /\ time \in 1..MaxTime
        /\ dryRun \in BOOLEAN /\ feed \subseteq FeedItems /\ coldFeed \subseteq FeedItems /\ blurred \in BOOLEAN
    BY DEF WatchInv, WatchTypes, Bounded, Counted
  <2>2. ASSUME NEW i \in 1..Len(watched.posts) PROVE watched.posts[i] \in Posts
    <3>1. watched.posts[i] \in PostRecord
      BY <2>1, <2>2, ElementOfSeq DEF WatchState
    <3>2. watched.posts[i].at >= 1 /\ watched.posts[i].at <= time
      BY <2>2 DEF WatchInv, OnTime, Bounded, Dated
    <3> QED BY <2>1, <3>1, <3>2, WatchAssumption DEF PostRecord, Posts
  <2>3. \A p \in Cyclers : /\ cycle[p].at \in {"idle", "fetching", "posting", "posted"}
                           /\ cycle[p].at \in {"posting", "posted"} => cycle[p].item \in cycle[p].newly
    BY <2>1 DEF CycleState, Bounded, Aimed, Busy
  <2>4. byhand \in 0..MaxHand /\ mishaps \in 0..MaxMishaps /\ watched.lastPolledAt \in 0..time
    BY DEF Bounded, Counted, Dated
  <2>5. watched.seeded \in BOOLEAN /\ watched.seenIds \subseteq FeedItems
    BY <2>1 DEF WatchState
  <2> QED BY <2>1, <2>2, <2>3, <2>4, <2>5 DEF WatchTypeOK
<1> QED BY <1>1, <1>2, <1>3, PTL DEF WatchSpec

=============================================================================
