---------------------------- MODULE QueuesProofs ----------------------------
(***************************************************************************)
(* The gate of the turns, the driver of a worker, the reminders, the lock of *)
(* the registries and the directed turns, proved one after another: five     *)
(* modules that share nothing but this file, as they share MCQueues.         *)
(***************************************************************************)
EXTENDS TurnGate, DriverTurn, Reminders, FileLock, DirectedTurns, FiniteSetTheorems, SequenceTheorems, TLAPS

-----------------------------------------------------------------------------
(***************************************************************************)
(* The gate keeps its count for any number of sessions, people and slots.   *)
(* The count goes astray only if a turn could get a second slot while it    *)
(* holds one; so the invariant also says that nobody waits twice or while   *)
(* it holds a slot.                                                         *)
(***************************************************************************)

Once(q) == \A i, j \in 1..Len(q) : q[i] = q[j] => i = j

\* Whoever waits waits once, and holds no slot.
WaitsOnce ==
    /\ Once(first) /\ Once(rest)
    /\ \A i \in 1..Len(first) : first[i] \notin holding
    /\ \A i \in 1..Len(rest) : rest[i] \notin holding

GateInv == GateTypeOK /\ SlotsAccounted /\ WaitsOnce

-----------------------------------------------------------------------------
(* Sequences *)

LEMMA AppendOnce ==
    ASSUME NEW S, NEW q \in Seq(S), NEW x \in S, Once(q), \A i \in 1..Len(q) : q[i] # x
    PROVE  Once(Append(q, x))
  BY DEF Once

LEMMA TailOnce ==
    ASSUME NEW S, NEW q \in Seq(S), q # <<>>, Once(q)
    PROVE  /\ Tail(q) \in Seq(S) /\ Once(Tail(q))
           /\ Head(q) = q[1] /\ 1 \in 1..Len(q)
           /\ \A i \in 1..Len(Tail(q)) : Tail(q)[i] # Head(q)
           /\ \A i \in 1..Len(Tail(q)) : \E j \in 1..Len(q) : Tail(q)[i] = q[j]
<1>1. /\ Tail(q) \in Seq(S) /\ Len(Tail(q)) = Len(q) - 1 /\ Head(q) = q[1]
      /\ Len(q) \in Nat /\ Len(q) >= 1
      /\ \A i \in 1..Len(Tail(q)) : i + 1 \in 1..Len(q) /\ Tail(q)[i] = q[i + 1]
  BY HeadTailProperties, EmptySeq
<1>2. Once(Tail(q))
  BY <1>1 DEF Once
<1> QED BY <1>1, <1>2 DEF Once

\* The array of waiters, and its head
LEMMA WaitersParts ==
    ASSUME GateTypeOK
    PROVE  /\ Waiters = <<>> <=> first = <<>> /\ rest = <<>>
           /\ first # <<>> => Head(Waiters) = Head(first)
           /\ first = <<>> => Waiters = rest
<1>1. first \in Seq(Turns) /\ rest \in Seq(Turns)
  BY GateAssumption, SeqMonotonic DEF GateTypeOK
<1>2. Waiters = <<>> <=> first = <<>> /\ rest = <<>>
  BY <1>1, ConcatEmptySeq, ConcatEqualIffEmpty DEF Waiters
<1>3. first # <<>> => Head(Waiters) = Head(first)
  BY <1>1 DEF Waiters
<1>4. first = <<>> => Waiters = rest
  BY <1>1, ConcatEmptySeq DEF Waiters
<1> QED BY <1>2, <1>3, <1>4

-----------------------------------------------------------------------------
LEMMA GateInitially == GateInit => GateInv
<1> SUFFICES ASSUME GateInit PROVE GateInv
  OBVIOUS
<1>1. GateTypeOK
  BY GateAssumption DEF GateInit, GateTypeOK
<1>2. Cardinality(holding) = 0 /\ Waiters = <<>>
  BY FS_EmptySet, <1>1, WaitersParts DEF GateInit
<1> QED BY <1>1, <1>2, GateAssumption DEF GateInit, GateInv, SlotsAccounted, WaitsOnce, Once

LEMMA AcquireKeeps ==
    ASSUME GateInv, NEW t \in Turns, Acquire(t)
    PROVE  GateInv'
<1> USE GateAssumption
<1>1. IsFiniteSet(holding)
  BY FS_Subset DEF GateInv, GateTypeOK
<1>2. CASE active < Limit
  <2>1. first = <<>> /\ rest = <<>>
    BY <1>2, WaitersParts DEF GateInv, SlotsAccounted, GateTypeOK
  <2>2. Cardinality(holding \cup {t}) = Cardinality(holding) + 1
    BY <1>1, FS_AddElement DEF Acquire, Outside
  <2>3. GateTypeOK'
    BY <1>2 DEF GateInv, GateTypeOK, Acquire
  <2>4. WaitsOnce'
    BY <1>2, <2>1 DEF Acquire, WaitsOnce, Once
  <2>5. Waiters' = <<>>
    BY <2>1, <1>2, WaitersParts DEF Acquire, Waiters, GateInv
  <2>6. active' = active + 1 /\ holding' = holding \cup {t} /\ active = Cardinality(holding)
    BY <1>2 DEF GateInv, SlotsAccounted, Acquire
  <2>7. SlotsAccounted'
    BY <1>2, <2>2, <2>5, <2>6 DEF GateInv, GateTypeOK, SlotsAccounted
  <2> QED BY <2>3, <2>4, <2>7 DEF GateInv
<1>3. CASE ~(active < Limit)
  <2>1. active = Limit /\ active' = active /\ holding' = holding
    BY <1>3 DEF GateInv, GateTypeOK, Acquire
  <2>2. SlotsAccounted'
    BY <2>1 DEF GateInv, SlotsAccounted
  <2>3. CASE t \in People
    <3>1. first' = Append(first, t) /\ rest' = rest
      BY <1>3, <2>3 DEF Acquire, Jump
    <3>2. Once(Append(first, t))
      BY <2>3, AppendOnce DEF GateInv, GateTypeOK, WaitsOnce, Acquire, Outside
    <3>3. \A i \in 1..Len(Append(first, t)) : Append(first, t)[i] \notin holding
      BY DEF GateInv, GateTypeOK, WaitsOnce, Acquire, Outside
    <3>4. GateTypeOK'
      BY <2>1, <2>3, <3>1 DEF GateInv, GateTypeOK
    <3> QED BY <2>1, <2>2, <3>1, <3>2, <3>3, <3>4 DEF GateInv, WaitsOnce
  <2>4. CASE t \notin People
    <3>1. rest' = Append(rest, t) /\ first' = first
      BY <1>3, <2>4 DEF Acquire
    <3>2. Once(Append(rest, t))
      BY <2>4, AppendOnce DEF GateInv, GateTypeOK, WaitsOnce, Acquire, Outside
    <3>3. \A i \in 1..Len(Append(rest, t)) : Append(rest, t)[i] \notin holding
      BY DEF GateInv, GateTypeOK, WaitsOnce, Acquire, Outside
    <3>4. GateTypeOK'
      BY <2>1, <2>4, <3>1 DEF GateInv, GateTypeOK
    <3> QED BY <2>1, <2>2, <3>1, <3>2, <3>3, <3>4 DEF GateInv, WaitsOnce
  <2> QED BY <2>3, <2>4
<1> QED BY <1>2, <1>3

\* A slot changes hands: as many hold one after as before.
LEMMA HandOn ==
    ASSUME GateInv, NEW t \in holding, NEW w \in Turns, w \notin holding, active = Limit,
           holding' = (holding \ {t}) \cup {w}, active' = active
    PROVE  SlotsAccounted' /\ holding' \subseteq Turns
<1>1. IsFiniteSet(holding) /\ t \in Turns
  BY FS_Subset, GateAssumption DEF GateInv, GateTypeOK
<1>2. Cardinality(holding \ {t}) = Cardinality(holding) - 1 /\ IsFiniteSet(holding \ {t})
  BY <1>1, FS_RemoveElement
<1>3. Cardinality((holding \ {t}) \cup {w}) = Cardinality(holding \ {t}) + 1
  BY <1>2, FS_AddElement
<1>4. Cardinality(holding) \in Nat
  BY <1>1, FS_CardinalityType
<1>5. Cardinality(holding') = Cardinality(holding)
  BY <1>2, <1>3, <1>4
<1> QED BY <1>1, <1>5 DEF GateInv, GateTypeOK, SlotsAccounted, Waiters

LEMMA ReleaseKeeps ==
    ASSUME GateInv, NEW t \in Turns, Release(t)
    PROVE  GateInv'
<1> USE GateAssumption
<1>1. IsFiniteSet(holding) /\ t \in holding
  BY FS_Subset DEF GateInv, GateTypeOK, Release
<1>2. CASE Waiters = <<>>
  <2>1. /\ active' = active - 1 /\ holding' = holding \ {t} /\ first' = first /\ rest' = rest
        /\ first = <<>> /\ rest = <<>>
    BY <1>2, WaitersParts DEF Release, GateInv
  <2>2. Cardinality(holding \ {t}) = Cardinality(holding) - 1
    BY <1>1, FS_RemoveElement
  <2>3. Cardinality(holding) \in Nat /\ Cardinality(holding) # 0
    BY <1>1, FS_CardinalityType, FS_EmptySet
  <2>4. GateTypeOK'
    BY <2>1, <2>3 DEF GateInv, GateTypeOK, SlotsAccounted
  <2>5. Waiters' = <<>>
    BY <1>2, <2>1 DEF Waiters
  <2>6. SlotsAccounted'
    BY <2>1, <2>2, <2>5 DEF GateInv, GateTypeOK, SlotsAccounted
  <2>7. WaitsOnce'
    BY <2>1 DEF WaitsOnce, Once
  <2> QED BY <2>4, <2>6, <2>7 DEF GateInv
<1>3. CASE Waiters # <<>>
  <2>1. active = Limit /\ active' = active /\ holding' = (holding \ {t}) \cup {Head(Waiters)}
    BY <1>3 DEF Release, GateInv, SlotsAccounted, Handed
  <2>2. CASE first # <<>>
    <3>1. /\ first' = Tail(first) /\ rest' = rest
          /\ holding' = (holding \ {t}) \cup {Head(first)}
      BY <1>3, <2>1, <2>2, WaitersParts DEF Release, GateInv
    <3>2. /\ Tail(first) \in Seq(People) /\ Once(Tail(first))
          /\ Head(first) = first[1] /\ 1 \in 1..Len(first)
          /\ \A i \in 1..Len(Tail(first)) : Tail(first)[i] # Head(first)
          /\ \A i \in 1..Len(Tail(first)) : \E j \in 1..Len(first) : Tail(first)[i] = first[j]
      BY <2>2, TailOnce DEF GateInv, GateTypeOK, WaitsOnce
    <3>3. Head(first) \in People /\ Head(first) \in Turns /\ Head(first) \notin holding
      BY <3>2, ElementOfSeq DEF GateInv, GateTypeOK, WaitsOnce
    <3>4. SlotsAccounted' /\ holding' \subseteq Turns
      BY <1>1, <2>1, <3>1, <3>3, HandOn
    <3>5. GateTypeOK'
      BY <2>1, <3>1, <3>2, <3>4 DEF GateInv, GateTypeOK
    <3>6. \A i \in 1..Len(rest) : rest[i] \in Turns \ People
      BY ElementOfSeq DEF GateInv, GateTypeOK
    <3>7. WaitsOnce'
      BY <3>1, <3>2, <3>3, <3>6 DEF GateInv, WaitsOnce
    <3> QED BY <3>4, <3>5, <3>7 DEF GateInv
  <2>3. CASE first = <<>>
    <3>1. /\ rest' = Tail(rest) /\ first' = first /\ rest # <<>>
          /\ holding' = (holding \ {t}) \cup {Head(rest)}
      BY <1>3, <2>1, <2>3, WaitersParts DEF Release, GateInv
    <3>2. /\ Tail(rest) \in Seq(Turns \ People) /\ Once(Tail(rest))
          /\ Head(rest) = rest[1] /\ 1 \in 1..Len(rest)
          /\ \A i \in 1..Len(Tail(rest)) : Tail(rest)[i] # Head(rest)
          /\ \A i \in 1..Len(Tail(rest)) : \E j \in 1..Len(rest) : Tail(rest)[i] = rest[j]
      BY <3>1, TailOnce DEF GateInv, GateTypeOK, WaitsOnce
    <3>3. Head(rest) \in Turns /\ Head(rest) \notin holding
      BY <3>2, ElementOfSeq DEF GateInv, GateTypeOK, WaitsOnce
    <3>4. SlotsAccounted' /\ holding' \subseteq Turns
      BY <1>1, <2>1, <3>1, <3>3, HandOn
    <3>5. GateTypeOK'
      BY <2>1, <3>1, <3>2, <3>4 DEF GateInv, GateTypeOK
    <3>6. WaitsOnce'
      BY <2>3, <3>1, <3>2, <3>3 DEF GateInv, WaitsOnce, Once
    <3> QED BY <3>4, <3>5, <3>6 DEF GateInv
  <2> QED BY <2>2, <2>3
<1> QED BY <1>2, <1>3

\* Every step of the gate keeps the invariant.
THEOREM GateInvariance == GateSpec => []GateInv
<1>1. GateInit => GateInv
  BY GateInitially
<1>2. GateInv /\ [GateNext]_gvars => GateInv'
  <2> SUFFICES ASSUME GateInv, [GateNext]_gvars PROVE GateInv'
    OBVIOUS
  <2>1. CASE Releases
    BY <2>1, ReleaseKeeps DEF Releases
  <2>2. CASE \E t \in Turns : Acquire(t)
    BY <2>2, AcquireKeeps
  <2>3. CASE UNCHANGED gvars
    BY <2>3 DEF gvars, GateInv, GateTypeOK, SlotsAccounted, WaitsOnce, Once, Waiters
  <2> QED BY <2>1, <2>2, <2>3 DEF GateNext
<1> QED BY <1>1, <1>2, PTL DEF GateSpec

\* The gate keeps its types: people wait in one list, and everybody else in the other.
THEOREM GateTypesCorrect == GateSpec => []GateTypeOK
<1>1. GateInv => GateTypeOK
  BY DEF GateInv
<1> QED BY <1>1, GateInvariance, PTL

\* turn-gate.ts:9-11, for any number of sessions and slots: the count is that of the turns that
\* hold a slot, never above the limit, and no slot is free while somebody waits.
THEOREM SlotsCorrect == GateSpec => []SlotsAccounted
<1>1. GateInv => SlotsAccounted
  BY DEF GateInv
<1> QED BY <1>1, GateInvariance, PTL

\* turn-gate.ts:22, the array of waiters: no session is twice in it, or in it while it holds a slot,
\* so that no slot is handed to a turn that has one.
THEOREM WaitersCorrect == GateSpec => []WaitsOnce
<1>1. GateInv => WaitsOnce
  BY DEF GateInv
<1> QED BY <1>1, GateInvariance, PTL

-----------------------------------------------------------------------------
(***************************************************************************)
(* The verdict on a worker, for any number of relaunches.  The wall-clock   *)
(* cap may trip only while nothing else has been reported, and that hangs   *)
(* on who can speak: of all processes only the last one's turn can still    *)
(* end, a relaunch is under way only after a turn that ended without a      *)
(* report, and steering that waits has not seen one either.                 *)
(***************************************************************************)

\* Earlier processes have ended their turns, later ones do not exist, and the session promise is
\* settled while the present one works or its successor is prepared.
Generations ==
    /\ \A g \in G : (g < gen => turn[g] = "over")
                 /\ (g > gen => proc[g] = "none" /\ turn[g] = "boot")
    /\ turn[gen] = "work" => ~armed
    /\ resuming => turn[gen] = "over" /\ finished /\ ~armed
    /\ capping => capped

Clean == result \in {"none", "cap"} /\ done \in {"none", "cap"}

\* Nothing but the cap has been reported while anything may still come of the worker; a success
\* that was reported is the end of it.
Verdict ==
    /\ capped \/ ~finished \/ resuming \/ nudges > 0 => Clean
    /\ done = "success" =>
         result = "success" /\ finished /\ ~resuming /\ ~armed /\ turn[gen] = "over"

DriverInv == DriverTypeOK /\ Generations /\ Verdict

-----------------------------------------------------------------------------
(* Helpers *)

\* What Finishes does: of the two, those that are heard; the first of them is what counts.
Heard(s) == s # "none" /\ Hears(s)

LEMMA FinishCases ==
    ASSUME NEW one, NEW two, Finishes(one, two)
    PROVE  \/ UNCHANGED <<result, done, nudges>>
           \/ \E a, b \in {one, two} :
                /\ Heard(a) /\ result' = a /\ nudges' = 0
                /\ Heard(b) /\ done' = (IF done # "none" THEN done ELSE b)
<1>1. CASE Heard(one)
  BY <1>1 DEF Finishes, Heard
<1>2. CASE ~Heard(one) /\ Heard(two)
  BY <1>2 DEF Finishes, Heard
<1>3. CASE ~Heard(one) /\ ~Heard(two)
  BY <1>3 DEF Finishes, Heard
<1> QED BY <1>1, <1>2, <1>3

LEMMA FinishOne ==
    ASSUME NEW s, s # "none", Finish(s)
    PROVE  \/ UNCHANGED <<result, done, nudges>>
           \/ /\ Hears(s) /\ result' = s /\ nudges' = 0
              /\ done' = IF done # "none" THEN done ELSE s
  BY FinishCases DEF Finish, Heard

\* The variables that Finishes sets keep their types.
LEMMA FinishTypes ==
    ASSUME DriverTypeOK, NEW one \in Reports, NEW two \in Reports, Finishes(one, two)
    PROVE  result' \in Reports /\ done' \in Reports /\ nudges' \in 0..MaxLaunches
  BY FinishCases, DriverAssumption DEF DriverTypeOK

LEMMA SetStateTypes ==
    ASSUME DriverTypeOK, NEW s \in {"spawning", "running", "review", "failed", "aborted"}, SetState(s)
    PROVE  state' \in {"spawning", "running", "review", "failed", "aborted"} /\ watchdog' \in BOOLEAN
  BY DEF DriverTypeOK, SetState

LEMMA SignalledType ==
    ASSUME DriverTypeOK, NEW g \in G \cup {0}
    PROVE  /\ Signalled(g) \in [G -> {"none", "up", "term", "gone"}]
           /\ \A x \in G : proc[x] = "none" <=> Signalled(g)[x] = "none"
  BY DEF DriverTypeOK, Signalled

\* A promise that is rejected, after a report of the step's own.
LEMMA RejectsCases ==
    ASSUME DriverTypeOK, NEW open \in BOOLEAN, NEW own \in {"none", "process_exit"}, Rejects(open, own)
    PROVE  /\ result' \in Reports /\ done' \in Reports /\ nudges' \in 0..MaxLaunches
           /\ launching' \in {"spawn", "resume", "no"} /\ spawned' \in {"no", "ok", "failed"}
           /\ \/ UNCHANGED <<result, done, nudges>>
              \/ /\ own # "none" \/ (open /\ launching = "resume")
                 /\ ~capped /\ nudges' = 0 /\ (done' = "success" => done = "success")
<1> DEFINE two == IF open /\ launching = "resume" THEN "resume" ELSE "none"
<1>1. Finishes(own, two) /\ own \in Reports /\ two \in Reports
  BY DEF Rejects, Reports
<1>2. result' \in Reports /\ done' \in Reports /\ nudges' \in 0..MaxLaunches
  BY <1>1, FinishTypes
<1>3. launching' \in {"spawn", "resume", "no"} /\ spawned' \in {"no", "ok", "failed"}
  BY DEF Rejects, DriverTypeOK
<1>4. CASE UNCHANGED <<result, done, nudges>>
  BY <1>2, <1>3, <1>4
<1>5. CASE ~UNCHANGED <<result, done, nudges>>
  <2>1. PICK a, b \in {own, two} : /\ Heard(a) /\ nudges' = 0
                                   /\ Heard(b) /\ done' = (IF done # "none" THEN done ELSE b)
    BY <1>1, <1>5, FinishCases
  <2>2. a # "none" /\ b # "success" /\ a # "cap"
    BY <2>1 DEF Heard
  <2>3. ~capped
    BY <2>1, <2>2 DEF Heard, Hears
  <2>4. own # "none" \/ (open /\ launching = "resume")
    BY <2>1, <2>2
  <2> QED BY <1>2, <1>3, <2>1, <2>2, <2>3, <2>4
<1> QED BY <1>4, <1>5

\* Only the last process can still end its turn.
LEMMA LastSpeaks ==
    ASSUME DriverInv, NEW g \in G, Speaks(g), turn[g] # "over"
    PROVE  g = gen
  BY DEF DriverInv, DriverTypeOK, Generations, Speaks, G

-----------------------------------------------------------------------------
LEMMA DriverInitially == DriverInit => DriverInv
<1> SUFFICES ASSUME DriverInit PROVE DriverInv
  OBVIOUS
<1>1. DriverTypeOK
  <2>1. 1 \in G
    BY DriverAssumption DEF G
  <2>2. proc \in [G -> {"none", "up", "term", "gone"}] /\ pipe \in [G -> {"open", "eof"}]
    BY DEF DriverInit
  <2>3. turn \in [G -> {"boot", "work", "over"}] /\ exit \in [G -> {"no", "drain", "seen"}]
    BY DEF DriverInit
  <2>4. 0 \in 0..MaxLaunches
    BY DriverAssumption
  <2> QED BY <2>1, <2>2, <2>3, <2>4 DEF DriverInit, DriverTypeOK, Reports
<1>2. Generations
  BY DriverAssumption DEF DriverInit, Generations, G
<1>3. Verdict
  BY DEF DriverInit, Verdict, Clean
<1> QED BY <1>1, <1>2, <1>3 DEF DriverInv

LEMMA HandshakeKeeps ==
    ASSUME DriverInv, NEW g \in G, Handshake(g)
    PROVE  DriverInv'
<1> USE DEF DriverInv, Handshake, launch, procs, heard
<1>1. g = gen
  BY LastSpeaks
<1>2. DriverTypeOK'
  BY <1>1, DriverAssumption DEF DriverTypeOK, SetState, Speaks, Terminal, G
<1>3. Generations'
  BY <1>1 DEF Generations, DriverTypeOK, Speaks, G
<1>4. Verdict'
  BY <1>1 DEF Verdict, Clean, Generations, DriverTypeOK, Hears
<1> QED BY <1>2, <1>3, <1>4

LEMMA TurnResumesKeeps ==
    ASSUME DriverInv, NEW g \in G, TurnResumes(g)
    PROVE  DriverInv'
<1> USE DEF DriverInv, TurnResumes, launch, procs, heard
<1>1. g = gen
  BY LastSpeaks
<1>2. /\ child' = 0 /\ proc' \in [G -> {"none", "up", "term", "gone"}]
      /\ \A x \in G : proc[x] = "none" <=> proc'[x] = "none"
  BY SignalledType DEF KillChild, DriverTypeOK
<1>3. DriverTypeOK'
  BY <1>1, <1>2, DriverAssumption DEF DriverTypeOK, SetState, Speaks, Terminal, G
<1>4. Generations'
  BY <1>1, <1>2 DEF Generations, DriverTypeOK, Speaks, G
<1>5. Verdict'
  BY <1>1, <1>2 DEF Verdict, Clean, Generations, DriverTypeOK, Hears
<1> QED BY <1>3, <1>4, <1>5

LEMMA TurnSucceedsKeeps ==
    ASSUME DriverInv, NEW g \in G, TurnSucceeds(g)
    PROVE  DriverInv'
<1> USE DEF DriverInv, TurnSucceeds, launch, procs, heard
<1>1. g = gen
  BY LastSpeaks
<1>2. result' \in Reports /\ done' \in Reports /\ nudges' \in 0..MaxLaunches
  BY FinishTypes DEF Finish, Reports
<1>3. \/ UNCHANGED <<result, done, nudges>>
      \/ /\ Hears("success") /\ result' = "success" /\ nudges' = 0
         /\ done' = IF done # "none" THEN done ELSE "success"
  BY FinishOne
<1>4. DriverTypeOK'
  <2>1. turn' \in [G -> {"boot", "work", "over"}]
    BY DEF DriverTypeOK
  <2>2. state' \in {"spawning", "running", "review", "failed", "aborted"}
    BY DEF DriverTypeOK
  <2> QED BY <1>2, <2>1, <2>2 DEF DriverTypeOK
<1>5. Generations'
  BY <1>1, <1>2, <1>3 DEF Generations, DriverTypeOK, Speaks, G
<1>6. Verdict'
  BY <1>1, <1>2, <1>3 DEF Verdict, Clean, Generations, DriverTypeOK, Hears
<1> QED BY <1>4, <1>5, <1>6

LEMMA TurnFailsKeeps ==
    ASSUME DriverInv, NEW g \in G, TurnFails(g)
    PROVE  DriverInv'
<1> USE DEF DriverInv, TurnFails, launch, procs, heard
<1>1. g = gen
  BY LastSpeaks
<1>2. result' \in Reports /\ done' \in Reports /\ nudges' \in 0..MaxLaunches
  BY FinishTypes DEF Finish, Reports
<1>3. \/ UNCHANGED <<result, done, nudges>>
      \/ /\ Hears("turn_failed") /\ result' = "turn_failed" /\ nudges' = 0
         /\ done' = IF done # "none" THEN done ELSE "turn_failed"
  BY FinishOne
<1>4. DriverTypeOK'
  BY <1>1, <1>2, <1>3, DriverAssumption DEF DriverTypeOK, SetState, Speaks, Terminal, G
<1>5. Generations'
  BY <1>1, <1>2, <1>3 DEF Generations, DriverTypeOK, Speaks, G
<1>6. Verdict'
  BY <1>1, <1>2, <1>3 DEF Verdict, Clean, Generations, DriverTypeOK, Hears
<1> QED BY <1>4, <1>5, <1>6

LEMMA ExitsKeeps ==
    ASSUME DriverInv, NEW g \in G, Exits(g)
    PROVE  DriverInv'
<1> USE DEF DriverInv, Exits, launch, procs, heard
<1>1. DriverTypeOK'
  BY DriverAssumption DEF DriverTypeOK, SetState, Speaks, Terminal, G
<1>2. Generations'
  BY DEF Generations, DriverTypeOK, Speaks, G
<1>3. Verdict'
  BY DEF Verdict, Clean, Generations, DriverTypeOK, Hears
<1> QED BY <1>1, <1>2, <1>3

LEMMA DrainedKeeps ==
    ASSUME DriverInv, NEW g \in G, Drained(g)
    PROVE  DriverInv'
<1> USE DEF DriverInv, Drained, launch, procs, heard
<1>1. DriverTypeOK'
  BY DriverAssumption DEF DriverTypeOK, SetState, Speaks, Terminal, G
<1>2. Generations'
  BY DEF Generations, DriverTypeOK, Speaks, G
<1>3. Verdict'
  BY DEF Verdict, Clean, Generations, DriverTypeOK, Hears
<1> QED BY <1>1, <1>2, <1>3

LEMMA ExitSeenKeeps ==
    ASSUME DriverInv, NEW g \in G, ExitSeen(g)
    PROVE  DriverInv'
<1> USE DEF DriverInv, ExitSeen, launch, procs, heard
<1>1. DriverTypeOK'
  <2>1. exit' \in [G -> {"no", "drain", "seen"}] /\ child' \in {0, gen} /\ spawnTimer' \in BOOLEAN
    BY DEF DriverTypeOK
  <2> QED BY <2>1 DEF DriverTypeOK
<1>2. Generations'
  BY DEF Generations, DriverTypeOK, Speaks, G
<1>3. Verdict'
  BY DEF Verdict, Clean, Generations, DriverTypeOK, Hears
<1> QED BY <1>1, <1>2, <1>3

LEMMA ExitEndsKeeps ==
    ASSUME DriverInv, NEW g \in G, ExitEnds(g)
    PROVE  DriverInv'
<1> USE DEF DriverInv
<1> DEFINE open == armed /\ ~emitted
           own == IF Unreported THEN "process_exit" ELSE "none"
<1>1. /\ Rejects(open, own) /\ armed' = (armed /\ ~open)
      /\ finished' = (finished \/ Unreported \/ (open /\ launching = "resume"))
      /\ SetState(IF Unreported THEN "failed" ELSE state)
      /\ exit' = [exit EXCEPT ![g] = "seen"] /\ proc' \in {proc, Signalled(gen)}
      /\ UNCHANGED <<capped, gen, child, emitted, spawnTimer, resuming, capping, pipe, turn, aborted>>
  BY DEF ExitEnds
<1>2. open \in BOOLEAN /\ own \in {"none", "process_exit"}
  BY DEF DriverTypeOK
<1> HIDE DEF open, own
<1>3. /\ result' \in Reports /\ done' \in Reports /\ nudges' \in 0..MaxLaunches
      /\ launching' \in {"spawn", "resume", "no"} /\ spawned' \in {"no", "ok", "failed"}
      /\ \/ UNCHANGED <<result, done, nudges>>
         \/ /\ own # "none" \/ (open /\ launching = "resume")
            /\ ~capped /\ nudges' = 0 /\ (done' = "success" => done = "success")
  BY <1>1, <1>2, RejectsCases
<1>4. /\ proc' \in [G -> {"none", "up", "term", "gone"}]
      /\ \A x \in G : proc[x] = "none" <=> proc'[x] = "none"
  BY <1>1, SignalledType DEF DriverTypeOK
<1>5. armed' \in BOOLEAN /\ finished' \in BOOLEAN /\ (armed' => armed) /\ (finished => finished')
  BY <1>1, <1>2 DEF DriverTypeOK, Unreported
<1>6. state' \in {"spawning", "running", "review", "failed", "aborted"} /\ watchdog' \in BOOLEAN
  BY <1>1, SetStateTypes DEF DriverTypeOK
<1>7. DriverTypeOK'
  BY <1>1, <1>3, <1>4, <1>5, <1>6 DEF DriverTypeOK
<1>8. Generations'
  BY <1>1, <1>4, <1>5 DEF Generations
<1>9. finished => own = "none"
  BY DEF own, Unreported
<1>10. ~armed => ~open
  BY DEF open
<1>11. Verdict'
  <2>1. CASE UNCHANGED <<result, done, nudges>>
    BY <1>1, <1>5, <2>1 DEF Verdict, Clean
  <2>2. CASE /\ own # "none" \/ (open /\ launching = "resume")
             /\ ~capped /\ nudges' = 0 /\ (done' = "success" => done = "success")
    <3>1. ~resuming /\ done # "success"
      BY <1>9, <1>10, <2>2 DEF Generations, Verdict
    <3>2. finished'
      BY <1>1, <2>2 DEF own
    <3> QED BY <1>1, <2>2, <3>1, <3>2 DEF Verdict
  <2> QED BY <1>3, <2>1, <2>2
<1> QED BY <1>7, <1>8, <1>11

LEMMA SpawnTimeoutKeeps ==
    ASSUME DriverInv, SpawnTimeout
    PROVE  DriverInv'
<1> USE DEF DriverInv
<1>1. /\ child' = 0 /\ proc' \in [G -> {"none", "up", "term", "gone"}]
      /\ \A x \in G : proc[x] = "none" <=> proc'[x] = "none"
  BY SignalledType DEF KillChild, DriverTypeOK, SpawnTimeout
<1>2. /\ result' \in Reports /\ done' \in Reports /\ nudges' \in 0..MaxLaunches
      /\ launching' \in {"spawn", "resume", "no"} /\ spawned' \in {"no", "ok", "failed"}
      /\ \/ UNCHANGED <<result, done, nudges>>
         \/ /\ armed /\ launching = "resume"
            /\ ~capped /\ nudges' = 0 /\ (done' = "success" => done = "success")
  BY RejectsCases DEF DriverTypeOK, SpawnTimeout
<1>3. state' \in {"spawning", "running", "review", "failed", "aborted"} /\ watchdog' \in BOOLEAN
  BY SetStateTypes DEF SpawnTimeout
<1>4. finished' \in BOOLEAN /\ (finished => finished')
  BY DEF SpawnTimeout, DriverTypeOK
<1>5. DriverTypeOK'
  BY <1>1, <1>2, <1>3, <1>4 DEF DriverTypeOK, SpawnTimeout
<1>6. Generations'
  BY <1>1, <1>4 DEF Generations, SpawnTimeout
<1>7. Verdict'
  <2>1. CASE UNCHANGED <<result, done, nudges>>
    BY <1>4, <2>1 DEF Verdict, Clean, SpawnTimeout
  <2>2. CASE /\ armed /\ launching = "resume"
             /\ ~capped /\ nudges' = 0 /\ (done' = "success" => done = "success")
    <3>1. ~resuming /\ done # "success" /\ finished'
      BY <2>2 DEF Generations, Verdict, SpawnTimeout
    <3> QED BY <2>2, <3>1 DEF Verdict, SpawnTimeout
  <2> QED BY <1>2, <2>1, <2>2
<1> QED BY <1>5, <1>6, <1>7

LEMMA CapTripsKeeps ==
    ASSUME DriverInv, CapTrips
    PROVE  DriverInv'
<1> USE DEF DriverInv, CapTrips, launch, procs, heard
<1>1. /\ child' = 0 /\ proc' \in [G -> {"none", "up", "term", "gone"}]
      /\ \A x \in G : proc[x] = "none" <=> proc'[x] = "none"
  BY SignalledType DEF KillChild, DriverTypeOK
<1>2. DriverTypeOK'
  BY <1>1, DriverAssumption DEF DriverTypeOK, SetState, Speaks, Terminal, G
<1>3. Generations'
  BY <1>1 DEF Generations, DriverTypeOK, Speaks, G
<1>4. Verdict'
  BY <1>1 DEF Verdict, Clean, Generations, DriverTypeOK, Hears
<1> QED BY <1>2, <1>3, <1>4

LEMMA CapReportsKeeps ==
    ASSUME DriverInv, CapReports
    PROVE  DriverInv'
<1> USE DEF DriverInv
<1>1. /\ capping /\ capping' = FALSE
      /\ UNCHANGED <<state, finished, capped, gen, child, armed, emitted, spawnTimer, launching,
                     watchdog, resuming, proc, pipe, turn, exit, spawned, aborted>>
  BY DEF CapReports, launch, procs
<1>2. result' \in Reports /\ done' \in Reports /\ nudges' \in 0..MaxLaunches
  BY FinishTypes DEF CapReports, Finish, Reports
<1>3. \/ UNCHANGED <<result, done, nudges>>
      \/ /\ Hears("cap") /\ result' = "cap" /\ nudges' = 0
         /\ done' = IF done # "none" THEN done ELSE "cap"
  BY FinishOne DEF CapReports
<1>4. DriverTypeOK'
  <2>1. capping' \in BOOLEAN
    BY <1>1
  <2>2. gen' \in G /\ child' \in {0, gen'}
    BY <1>1 DEF DriverTypeOK
  <2>3. /\ proc' \in [G -> {"none", "up", "term", "gone"}] /\ pipe' \in [G -> {"open", "eof"}]
        /\ turn' \in [G -> {"boot", "work", "over"}] /\ exit' \in [G -> {"no", "drain", "seen"}]
    BY <1>1 DEF DriverTypeOK
  <2>4. /\ finished' \in BOOLEAN /\ capped' \in BOOLEAN /\ armed' \in BOOLEAN
        /\ emitted' \in BOOLEAN /\ spawnTimer' \in BOOLEAN /\ watchdog' \in BOOLEAN
        /\ resuming' \in BOOLEAN /\ aborted' \in BOOLEAN
    BY <1>1 DEF DriverTypeOK
  <2>5. /\ state' \in {"spawning", "running", "review", "failed", "aborted"}
        /\ launching' \in {"spawn", "resume", "no"} /\ spawned' \in {"no", "ok", "failed"}
    BY <1>1 DEF DriverTypeOK
  <2> QED BY <1>2, <2>1, <2>2, <2>3, <2>4, <2>5 DEF DriverTypeOK
<1>5. Generations'
  BY <1>1 DEF Generations
<1>6. Verdict'
  BY <1>1, <1>3 DEF Verdict, Clean, Generations
<1> QED BY <1>4, <1>5, <1>6

LEMMA RelaunchKeeps ==
    ASSUME DriverInv, Relaunch
    PROVE  DriverInv'
<1> USE DEF DriverInv, Relaunch, launch, procs, heard
<1>1. gen \in Nat /\ gen + 1 \in G /\ \A x \in G : x < gen + 1 <=> x <= gen
  BY DriverAssumption DEF DriverTypeOK, G
<1>2. DriverTypeOK'
  <2>1. proc' \in [G -> {"none", "up", "term", "gone"}]
    BY <1>1 DEF DriverTypeOK
  <2> QED BY <1>1, <2>1 DEF DriverTypeOK, FinishedAgain
<1>3. Generations'
  <2>1. \A x \in G : x < gen' => turn'[x] = "over"
    BY <1>1 DEF Generations, DriverTypeOK, G
  <2>2. \A x \in G : x > gen' => x > gen /\ x # gen + 1
    BY <1>1 DEF G
  <2>3. \A x \in G : x > gen' => proc'[x] = "none" /\ turn'[x] = "boot"
    BY <1>1, <2>2 DEF Generations, DriverTypeOK
  <2>4. turn'[gen'] = "boot"
    BY <1>1 DEF Generations
  <2> QED BY <2>1, <2>3, <2>4 DEF Generations
<1>4. Verdict'
  BY DEF Verdict, Clean, Generations, DriverTypeOK, Hears
<1> QED BY <1>2, <1>3, <1>4

LEMMA RelaunchThrowsKeeps ==
    ASSUME DriverInv, RelaunchThrows
    PROVE  DriverInv'
<1> USE DEF DriverInv, RelaunchThrows, launch, procs, heard
<1>1. result' \in Reports /\ done' \in Reports /\ nudges' \in 0..MaxLaunches
  BY FinishTypes DEF Finish, Reports
<1>2. \/ UNCHANGED <<result, done, nudges>>
      \/ /\ Hears("resume") /\ result' = "resume" /\ nudges' = 0
         /\ done' = IF done # "none" THEN done ELSE "resume"
  BY FinishOne
<1>3. DriverTypeOK'
  BY <1>1, <1>2, DriverAssumption DEF DriverTypeOK, SetState, Speaks, Terminal, G
<1>4. Generations'
  BY <1>1, <1>2 DEF Generations, DriverTypeOK, Speaks, G
<1>5. Verdict'
  BY <1>1, <1>2 DEF Verdict, Clean, Generations, DriverTypeOK, Hears
<1> QED BY <1>3, <1>4, <1>5

LEMMA NudgeKeeps ==
    ASSUME DriverInv, Nudge
    PROVE  DriverInv'
<1> USE DEF DriverInv, Nudge, launch, procs, heard
<1>1. DriverTypeOK'
  BY DriverAssumption DEF DriverTypeOK, SetState, Speaks, Terminal, G
<1>2. Generations'
  BY DEF Generations, DriverTypeOK, Speaks, G
<1>3. Verdict'
  BY DEF Verdict, Clean, Generations, DriverTypeOK, Hears
<1> QED BY <1>1, <1>2, <1>3

LEMMA AbortKeeps ==
    ASSUME DriverInv, Abort
    PROVE  DriverInv'
<1> USE DEF DriverInv, Abort, launch, procs, heard
<1>1. /\ child' = 0 /\ proc' \in [G -> {"none", "up", "term", "gone"}]
      /\ \A x \in G : proc[x] = "none" <=> proc'[x] = "none"
  BY SignalledType DEF KillChild, DriverTypeOK
<1>2. DriverTypeOK'
  BY <1>1, DriverAssumption DEF DriverTypeOK, SetState, Speaks, Terminal, G
<1>3. Generations'
  BY <1>1 DEF Generations, DriverTypeOK, Speaks, G
<1>4. Verdict'
  BY <1>1 DEF Verdict, Clean, Generations, DriverTypeOK, Hears
<1> QED BY <1>2, <1>3, <1>4

-----------------------------------------------------------------------------
\* Every step keeps the invariant.
THEOREM DriverInvariance == DriverSpec => []DriverInv
<1>1. DriverInit => DriverInv
  BY DriverInitially
<1>2. DriverInv /\ [DriverNext]_tvars => DriverInv'
  <2> SUFFICES ASSUME DriverInv, [DriverNext]_tvars PROVE DriverInv'
    OBVIOUS
  <2>1. CASE Continues
    BY <2>1, SpawnTimeoutKeeps, CapTripsKeeps, CapReportsKeeps, RelaunchKeeps, RelaunchThrowsKeeps,
       ExitSeenKeeps, ExitEndsKeeps, ExitsKeeps DEF Continues
  <2>2. CASE Nudge \/ Abort
    BY <2>2, NudgeKeeps, AbortKeeps
  <2>3. CASE \E g \in G : Says(g) \/ Exits(g) \/ Drained(g)
    BY <2>3, HandshakeKeeps, TurnResumesKeeps, TurnSucceedsKeeps, TurnFailsKeeps, ExitsKeeps,
       DrainedKeeps DEF Says
  <2>4. CASE UNCHANGED tvars
    BY <2>4 DEF tvars, launch, procs, heard, DriverInv, DriverTypeOK, Generations, Verdict, Clean, Speaks
  <2> QED BY <2>1, <2>2, <2>3, <2>4 DEF DriverNext
<1> QED BY <1>1, <1>2, PTL DEF DriverSpec

\* The driver keeps its types: whatever process speaks, at most the youngest is its child.
THEOREM DriverTypesCorrect == DriverSpec => []DriverTypeOK
<1>1. DriverInv => DriverTypeOK
  BY DEF DriverInv
<1> QED BY <1>1, DriverInvariance, PTL

\* base.ts:554-572, for any number of relaunches: once the wall-clock cap has tripped, only its own
\* verdict is heard, and a success that was reported is never taken back.
THEOREM CapCorrect == DriverSpec => []CapWins
<1>1. DriverInv => CapWins
  BY DEF DriverInv, Verdict, Clean, CapWins
<1> QED BY <1>1, DriverInvariance, PTL

-----------------------------------------------------------------------------
(***************************************************************************)
(* The safety half of WorkerReports.  While a worker is open, with no       *)
(* report that counts and nobody's abort, something is on its way that will *)
(* report it: the clock of the cap, a cap that has tripped, or a relaunch.  *)
(***************************************************************************)

Open == spawned # "failed" /\ done = "none" /\ ~aborted

OnItsWay ==
    \/ watchdog /\ ~finished /\ ~Terminal
    \/ capping \/ resuming

\* A cap that tripped has yet to speak, and the timer of a launch that nothing else has overtaken
\* finds somebody who awaits the session promise, and reports or gives the worker up.  Who gave up
\* waits no more.
Attended ==
    /\ Open => /\ OnItsWay
               /\ capped => capping
               /\ spawnTimer /\ ~capped => armed /\ launching \in {"spawn", "resume"}
    /\ spawned = "failed" => launching # "spawn"

\* A finish that is heard closes the worker; it is not heard only where the cap is to speak.
LEMMA FinishCloses ==
    ASSUME NEW one, NEW two, Finishes(one, two), {one, two} # {"none"}
    PROVE  capped \/ spawned = "failed" \/ done' # "none"
  BY DEF Finishes, Hears

LEMMA FinishStays ==
    ASSUME NEW one, NEW two, Finishes(one, two), done # "none"
    PROVE  done' # "none"
  BY DEF Finishes

LEMMA AttendedInitially == DriverInit => Attended
  BY DEF DriverInit, Attended, OnItsWay, Open, Terminal

\* What the harness says
LEMMA SaysAttended ==
    ASSUME DriverTypeOK, Attended, NEW g \in G, Says(g)
    PROVE  Attended'
<1> USE DEF Attended, OnItsWay, Open, Terminal, SetState
<1>1. CASE Handshake(g)
  BY <1>1 DEF Handshake, heard, DriverTypeOK
<1>2. CASE TurnResumes(g)
  BY <1>2 DEF TurnResumes, heard
<1>3. CASE TurnSucceeds(g)
  <2>1. capped \/ spawned = "failed" \/ done' # "none"
    BY <1>3, FinishCloses DEF TurnSucceeds, Finish
  <2>2. done # "none" => done' # "none"
    BY <1>3, FinishStays DEF TurnSucceeds, Finish
  <2> QED BY <1>3, <2>1, <2>2 DEF TurnSucceeds, launch
<1>4. CASE TurnFails(g)
  <2>1. capped \/ spawned = "failed" \/ done' # "none"
    BY <1>4, FinishCloses DEF TurnFails, Finish
  <2>2. done # "none" => done' # "none"
    BY <1>4, FinishStays DEF TurnFails, Finish
  <2> QED BY <1>4, <2>1, <2>2 DEF TurnFails, launch
<1> QED BY <1>1, <1>2, <1>3, <1>4 DEF Says

\* An exit that is handled: a promise that is rejected closes the worker, as does a crash.
LEMMA ExitEndsAttended ==
    ASSUME DriverTypeOK, Attended, NEW g \in G, ExitEnds(g)
    PROVE  Attended'
<1> DEFINE open == armed /\ ~emitted
           own == IF Unreported THEN "process_exit" ELSE "none"
           two == IF open /\ launching = "resume" THEN "resume" ELSE "none"
<1>1. /\ Finishes(own, two) /\ armed' = (armed /\ ~open)
      /\ launching' = (IF open THEN "no" ELSE launching)
      /\ spawned' = IF open /\ launching = "spawn" THEN "failed" ELSE spawned
      /\ finished' = (finished \/ Unreported \/ (open /\ launching = "resume"))
      /\ SetState(IF Unreported THEN "failed" ELSE state)
      /\ UNCHANGED <<capped, spawnTimer, resuming, capping, aborted>>
  BY DEF ExitEnds, Rejects
<1>2. done # "none" => done' # "none"
  BY <1>1, FinishStays
<1>3. CASE Unreported \/ (open /\ launching = "resume")
  <2>1. {own, two} # {"none"}
    BY <1>3
  <2>2. capped \/ spawned = "failed" \/ done' # "none"
    BY <1>1, <2>1, FinishCloses
  <2> QED BY <1>1, <1>2, <2>2 DEF Attended, OnItsWay, Open
<1>4. CASE ~Unreported /\ ~(open /\ launching = "resume")
  <2>1. ~(watchdog /\ ~finished /\ ~Terminal)
    BY <1>4 DEF Unreported
  <2>2. open => launching # "resume"
    BY <1>4
  <2> QED BY <1>1, <1>2, <2>1, <2>2 DEF Attended, OnItsWay, Open
<1> QED BY <1>3, <1>4

\* The timer of a launch: what awaited the promise reports or gives the worker up.
LEMMA SpawnTimeoutAttended ==
    ASSUME DriverTypeOK, Attended, SpawnTimeout
    PROVE  Attended'
<1> DEFINE two == IF armed /\ launching = "resume" THEN "resume" ELSE "none"
<1>1. /\ spawnTimer /\ spawnTimer' = FALSE /\ Finishes("none", two)
      /\ spawned' = IF armed /\ launching = "spawn" THEN "failed" ELSE spawned
      /\ launching' = IF armed THEN "no" ELSE launching
      /\ UNCHANGED <<capped, resuming, capping, aborted>>
  BY DEF SpawnTimeout, Rejects
<1>2. done # "none" => done' # "none"
  BY <1>1, FinishStays
<1>3. CASE ~Open
  BY <1>1, <1>2, <1>3 DEF Attended, Open
<1>4. CASE Open /\ capped
  BY <1>1, <1>4 DEF Attended, Open, OnItsWay
<1>5. CASE Open /\ ~capped /\ launching = "resume"
  <2>1. two = "resume"
    BY <1>1, <1>5 DEF Attended
  <2>2. spawned = "failed" \/ done' # "none"
    BY <1>1, <1>5, <2>1, FinishCloses
  <2> QED BY <1>1, <1>5, <2>2 DEF Attended, Open
<1>6. CASE Open /\ ~capped /\ launching # "resume"
  BY <1>1, <1>6 DEF Attended, Open
<1> QED BY <1>3, <1>4, <1>5, <1>6

LEMMA RestAttended ==
    ASSUME DriverTypeOK, Attended
    PROVE  /\ CapTrips \/ CapReports => Attended'
           /\ Relaunch \/ RelaunchThrows => Attended'
           /\ Nudge \/ Abort => Attended'
           /\ \A g \in G : ExitSeen(g) \/ Exits(g) \/ Drained(g) => Attended'
<1> USE DEF Attended, OnItsWay, Open, Terminal, SetState
<1>1. ASSUME CapTrips PROVE Attended'
  BY <1>1 DEF CapTrips, heard
<1>2. ASSUME CapReports PROVE Attended'
  <2>1. /\ (spawned # "failed" => Hears("cap"))
        /\ Finishes("cap", "none") /\ UNCHANGED <<finished, capped, state, launch, watchdog, resuming, spawned, aborted>>
    BY <1>2 DEF CapReports, Finish, Hears
  <2>2. spawned = "failed" \/ done' # "none"
    BY <2>1 DEF Finishes
  <2> QED BY <2>1, <2>2 DEF launch
<1>3. ASSUME Relaunch PROVE Attended'
  BY <1>3 DEF Relaunch, FinishedAgain, heard
<1>4. ASSUME RelaunchThrows PROVE Attended'
  <2>1. capped \/ spawned = "failed" \/ done' # "none"
    BY <1>4, FinishCloses DEF RelaunchThrows, Finish
  <2>2. done # "none" => done' # "none"
    BY <1>4, FinishStays DEF RelaunchThrows, Finish
  <2> QED BY <1>4, <2>1, <2>2 DEF RelaunchThrows
<1>5. ASSUME Nudge PROVE Attended'
  BY <1>5 DEF Nudge, launch, heard
<1>6. ASSUME Abort PROVE Attended'
  BY <1>6 DEF Abort, heard
<1>7. ASSUME NEW g \in G, ExitSeen(g) PROVE Attended'
  BY <1>7 DEF ExitSeen, heard, DriverTypeOK
<1>8. ASSUME NEW g \in G, Exits(g) \/ Drained(g) PROVE Attended'
  BY <1>8 DEF Exits, Drained, launch, heard
<1> QED BY <1>1, <1>2, <1>3, <1>4, <1>5, <1>6, <1>7, <1>8

\* base.ts:441-445 and 744-776, for any number of relaunches and in any order of steering, exits,
\* timeouts and last words: while a worker is open, a report of it is on its way.
THEOREM ReportAttended == DriverSpec => [](Open => OnItsWay)
<1>1. DriverInit => Attended
  BY AttendedInitially
<1>2. DriverTypeOK /\ Attended /\ [DriverNext]_tvars => Attended'
  <2> SUFFICES ASSUME DriverTypeOK, Attended, [DriverNext]_tvars PROVE Attended'
    OBVIOUS
  <2>1. CASE Continues
    BY <2>1, SpawnTimeoutAttended, ExitEndsAttended, RestAttended DEF Continues
  <2>2. CASE Nudge \/ Abort
    BY <2>2, RestAttended
  <2>3. CASE \E g \in G : Says(g) \/ Exits(g) \/ Drained(g)
    BY <2>3, SaysAttended, RestAttended
  <2>4. CASE UNCHANGED tvars
    BY <2>4 DEF tvars, launch, heard, Attended, Open, OnItsWay, Terminal
  <2> QED BY <2>1, <2>2, <2>3, <2>4 DEF DriverNext
<1>3. DriverInv => DriverTypeOK
  BY DEF DriverInv
<1>4. Attended => (Open => OnItsWay)
  BY DEF Attended
<1> QED BY <1>1, <1>2, <1>3, <1>4, DriverInvariance, PTL DEF DriverSpec

-----------------------------------------------------------------------------
(***************************************************************************)
(* One delivery an occurrence, for any reminders and any number of passes   *)
(* that overlap.  A reminder that nothing excuses has one pass at most that *)
(* is busy with it, and is claimed while it has one; what was delivered and *)
(* is still on the list is in the hands of the pass that will settle it.    *)
(***************************************************************************)

Seen == [id : Listed, firing : BOOLEAN, fireAt : 1..MaxOccurrence + 1]
PassStates == [at : {"idle", "walk", "dispatch", "failed", "sent"}, todo : SUBSET Seen,
               id : Listed \cup {"none"}, seen : 0..MaxOccurrence + 1]

Types == RemindTypeOK /\ pass \in [Actors -> PassStates]

Busy(p, r) == pass[p].at \in {"dispatch", "failed", "sent"} /\ pass[p].id = r

\* A claim has one owner.
OneOwner(r) == \A p, q \in Actors : Busy(p, r) /\ Busy(q, r) => p = q

\* It is on file, unless the reminder has been removed.
Claimed(r) == \A p \in Actors : Busy(p, r) => status[r] # "pending"

\* What was sent is about to be settled, or off the list.
SentOnce(r) ==
    /\ sent[r] <= 1
    /\ \A p \in Actors : Busy(p, r) /\ pass[p].at # "sent" => sent[r] = 0
    /\ sent[r] > 0 => status[r] = "gone" \/ \E p \in Actors : Busy(p, r) /\ pass[p].at = "sent"

\* Who has the claim works on the occurrence that is on file, which is not past the last one.
Current(r) ==
    /\ status[r] = "firing" => fireAt[r] <= MaxOccurrence
    /\ \A p \in Actors : Busy(p, r) =>
         /\ pass[p].seen = fireAt[r] /\ fireAt[r] <= MaxOccurrence
         /\ pass[p].at = "sent" => sent[r] > 0

Orderly(r) == r \notin excused => OneOwner(r) /\ Claimed(r) /\ SentOnce(r) /\ Current(r)

RemindInv == Types /\ \A r \in Listed : Orderly(r)

-----------------------------------------------------------------------------
LEMMA RemindInitially == RemindInit => RemindInv
<1> SUFFICES ASSUME RemindInit PROVE RemindInv
  OBVIOUS
<1>1. Idle \in PassStates
  BY RemindAssumption DEF Idle, PassStates
<1>2. Types
  BY <1>1, RemindAssumption DEF RemindInit, Types, RemindTypeOK, Idle
<1>3. \A r \in Listed : Orderly(r)
  BY DEF RemindInit, Orderly, OneOwner, Claimed, SentOnce, Current, Busy, Idle
<1> QED BY <1>2, <1>3 DEF RemindInv

\* What a pass finds in its list, and what it is when it goes on
LEMMA SeenTypes ==
    ASSUME Types, NEW p \in Actors, pass[p].at = "walk", NEW s \in pass[p].todo
    PROVE  /\ s \in Seen /\ Dispatch(p, s) \in PassStates /\ Walk(p, s) \in PassStates
           /\ Dispatch(p, s).at = "dispatch" /\ Dispatch(p, s).id = s.id
           /\ Walk(p, s).at = "walk"
<1>1. pass[p] \in PassStates /\ pass[p].todo \in SUBSET Seen
  BY DEF Types, PassStates
<1>2. s \in Seen /\ s.id \in Listed /\ s.fireAt \in 0..MaxOccurrence + 1
  BY <1>1, RemindAssumption DEF Seen
<1>3. Dispatch(p, s) \in PassStates
  BY <1>1, <1>2 DEF PassStates, Dispatch
<1>4. Walk(p, s) \in PassStates /\ Walk(p, s).at = "walk"
  BY <1>1 DEF PassStates, Walk
<1> QED BY <1>2, <1>3, <1>4 DEF Dispatch

LEMMA OnwardTypes ==
    ASSUME Types, NEW p \in Actors
    PROVE  Onward(p) \in PassStates /\ Onward(p).at \in {"idle", "walk"}
<1>1. pass[p] \in PassStates /\ pass[p].todo \in SUBSET Seen
  BY DEF Types, PassStates
<1>2. Idle \in PassStates /\ Idle.at = "idle"
  BY RemindAssumption DEF Idle, PassStates
<1>3. [Idle EXCEPT !.at = "walk", !.todo = pass[p].todo] \in PassStates
  BY <1>1, <1>2 DEF PassStates
<1>4. [Idle EXCEPT !.at = "walk", !.todo = pass[p].todo].at = "walk"
  BY DEF Idle
<1> QED BY <1>2, <1>3, <1>4 DEF Onward

LEMMA SnapshotTypes ==
    ASSUME Types
    PROVE  Snapshot \in SUBSET Seen
<1> SUFFICES ASSUME NEW x \in Snapshot PROVE x \in Seen
  OBVIOUS
<1>1. PICK r \in Listed : x = [id |-> r, firing |-> status[r] = "firing", fireAt |-> fireAt[r]]
  BY DEF Snapshot
<1>2. (status[r] = "firing") \in BOOLEAN /\ fireAt[r] \in 1..MaxOccurrence + 1
  BY DEF Types, RemindTypeOK
<1> QED BY <1>1, <1>2 DEF Seen

-----------------------------------------------------------------------------
LEMMA TickKeeps ==
    ASSUME RemindInv, NEW p \in Actors, Tick(p)
    PROVE  RemindInv'
<1> USE RemindAssumption DEF RemindInv
<1>1. /\ \A q \in Actors : q # p => pass'[q] = pass[q]
      /\ pass' \in [Actors -> PassStates] /\ pass'[p].at = "walk"
  BY SnapshotTypes DEF Tick, Types, Idle, PassStates
<1>2. Types'
  BY <1>1 DEF Types, RemindTypeOK, Tick
<1>3. pass[p].at = "idle"
  BY DEF Tick, Idle
<1>4. ASSUME NEW r \in Listed PROVE Orderly(r)'
  BY <1>1, <1>3 DEF Types, RemindTypeOK, Orderly, OneOwner, Claimed, SentOnce, Current, Busy, Tick
<1> QED BY <1>2, <1>4

LEMMA EvaluateKeeps ==
    ASSUME RemindInv, NEW p \in Actors, NEW s \in pass[p].todo, Evaluate(p, s)
    PROVE  RemindInv'
<1> USE RemindAssumption DEF RemindInv
<1>1. /\ s \in Seen /\ Dispatch(p, s) \in PassStates /\ Walk(p, s) \in PassStates
      /\ Dispatch(p, s).at = "dispatch" /\ Dispatch(p, s).id = s.id /\ Walk(p, s).at = "walk"
  BY SeenTypes DEF Evaluate
<1>2. /\ \A q \in Actors : q # p => pass'[q] = pass[q]
      /\ pass' \in [Actors -> PassStates] /\ pass'[p] \in {Dispatch(p, s), Walk(p, s)}
  BY <1>1 DEF Evaluate, Types
<1>3. Types'
  BY <1>1, <1>2 DEF Types, RemindTypeOK, Evaluate, Seen
<1>4. ASSUME NEW r \in Listed PROVE Orderly(r)'
  <2> SUFFICES ASSUME r \notin excused' PROVE (OneOwner(r) /\ Claimed(r) /\ SentOnce(r) /\ Current(r))'
    BY DEF Orderly
  <2>1. /\ r \notin excused /\ Orderly(r) /\ UNCHANGED <<fireAt, now, sent>>
        /\ \A q \in Actors : q # p => (Busy(q, r)' <=> Busy(q, r))
        /\ pass[p].at = "walk" /\ ~Busy(p, r)
    BY <1>2 DEF Evaluate, Busy
  <2>2. CASE pass'[p] = Walk(p, s) /\ status' = status
    <3>1. ~Busy(p, r)'
      BY <1>1, <2>2 DEF Busy
    <3> QED BY <1>2, <2>1, <2>2, <3>1 DEF Orderly, OneOwner, Claimed, SentOnce, Current
  <2>3. CASE pass'[p] = Dispatch(p, s) /\ s.id # r
    <3>1. ~Busy(p, r)' /\ status'[r] = status[r]
      BY <1>1, <2>3 DEF Busy, Evaluate, Types, RemindTypeOK
    <3> QED BY <1>2, <2>1, <2>3, <3>1 DEF Orderly, OneOwner, Claimed, SentOnce, Current
  <2>4. CASE pass'[p] = Dispatch(p, s) /\ s.id = r
    <3>1. Wanted(s) /\ (s.firing \/ Claimable(r)) /\ ~Stale(s)
      <4>1. pass' # [pass EXCEPT ![p] = Walk(p, s)]
        BY <1>1, <2>4 DEF Types
      <4>2. excused' = IF Stale(s) THEN excused \cup {r} ELSE excused
        BY <2>4, <4>1 DEF Evaluate
      <4>3. Wanted(s) /\ (s.firing \/ Claimable(r))
        BY <2>4, <4>1 DEF Evaluate
      <4> QED BY <2>1, <4>2, <4>3
    <3>2. fireAt[r] = s.fireAt /\ fireAt[r] <= MaxOccurrence /\ status'[r] = "firing"
      BY <2>1, <2>4, <3>1 DEF Stale, Wanted, Claimable, Orderly, Current, Evaluate, Types, RemindTypeOK
    <3>3. \A q \in Actors : ~Busy(q, r)
      BY <2>1, <2>4, <3>1 DEF Stale, InFlight, Claimable, Orderly, Claimed, Busy
    <3>4. \A q \in Actors : Busy(q, r)' => q = p
      BY <2>1, <3>3
    <3>5. pass'[p].seen = fireAt[r] /\ pass'[p].at = "dispatch"
      BY <1>1, <2>4, <3>2 DEF Dispatch
    <3>6. sent[r] = 0 \/ status[r] = "gone"
      BY <2>1, <3>3 DEF Orderly, SentOnce, Types, RemindTypeOK
    <3>7. status[r] # "gone"
      BY <2>4, <3>1 DEF Stale
    <3> QED BY <2>1, <3>2, <3>4, <3>5, <3>6, <3>7 DEF OneOwner, Claimed, SentOnce, Current
  <2> QED BY <1>2, <2>2, <2>3, <2>4 DEF Evaluate
<1> QED BY <1>3, <1>4

LEMMA FireNowKeeps ==
    ASSUME RemindInv, NEW x \in Listed, FireNow(x)
    PROVE  RemindInv'
<1> USE RemindAssumption DEF RemindInv
<1>1. [Idle EXCEPT !.at = "dispatch", !.id = x, !.seen = fireAt[x]] \in PassStates
  <2>1. fireAt[x] \in 0..MaxOccurrence + 1
    BY DEF Types, RemindTypeOK
  <2>2. Idle \in PassStates
    BY DEF Idle, PassStates
  <2> QED BY <2>1, <2>2 DEF PassStates
<1>2. /\ [Idle EXCEPT !.at = "dispatch", !.id = x, !.seen = fireAt[x]].at = "dispatch"
      /\ [Idle EXCEPT !.at = "dispatch", !.id = x, !.seen = fireAt[x]].id = x
  BY DEF Idle
<1>3. /\ Fire \in Actors /\ pass' \in [Actors -> PassStates]
      /\ \A q \in Actors : q # Fire => pass'[q] = pass[q]
      /\ pass'[Fire].at = "dispatch" /\ pass'[Fire].id = x
  BY <1>1, <1>2 DEF FireNow, Types, Actors
<1>4. pass[Fire].at = "idle"
  BY DEF FireNow, Idle
<1>5. Types'
  BY <1>3 DEF Types, RemindTypeOK, FireNow
<1>6. ASSUME NEW r \in Listed PROVE Orderly(r)'
  BY <1>3, <1>4 DEF Types, RemindTypeOK, Orderly, OneOwner, Claimed, SentOnce, Current, Busy, FireNow
<1> QED BY <1>5, <1>6

LEMMA SentKeeps ==
    ASSUME RemindInv, NEW p \in Actors, Sent(p)
    PROVE  RemindInv'
<1> USE RemindAssumption DEF RemindInv
<1>1. /\ \A q \in Actors : q # p => pass'[q] = pass[q]
      /\ pass' \in [Actors -> PassStates] 
      /\ pass'[p].at = "sent" /\ pass'[p].id = pass[p].id /\ pass[p].id \in Listed
  BY DEF Sent, Types, RemindTypeOK, PassStates
<1>2. Types'
  BY <1>1 DEF Types, RemindTypeOK, Sent
<1>3. ASSUME NEW r \in Listed PROVE Orderly(r)'
  BY <1>1 DEF Types, RemindTypeOK, Orderly, OneOwner, Claimed, SentOnce, Current, Busy, Sent
<1> QED BY <1>2, <1>3

LEMMA NotSentKeeps ==
    ASSUME RemindInv, NEW p \in Actors, NotSent(p)
    PROVE  RemindInv'
<1> USE RemindAssumption DEF RemindInv
<1>1. /\ \A q \in Actors : q # p => pass'[q] = pass[q]
      /\ pass' \in [Actors -> PassStates] 
      /\ pass'[p].at = "failed" /\ pass'[p].id = pass[p].id /\ pass[p].id \in Listed
  BY DEF NotSent, Types, RemindTypeOK, PassStates
<1>2. Types'
  BY <1>1 DEF Types, RemindTypeOK, NotSent
<1>3. ASSUME NEW r \in Listed PROVE Orderly(r)'
  BY <1>1 DEF Types, RemindTypeOK, Orderly, OneOwner, Claimed, SentOnce, Current, Busy, NotSent
<1> QED BY <1>2, <1>3

LEMMA WalkEndsKeeps ==
    ASSUME RemindInv, NEW p \in Actors, WalkEnds(p)
    PROVE  RemindInv'
<1> USE RemindAssumption DEF RemindInv
<1>1. /\ \A q \in Actors : q # p => pass'[q] = pass[q]
      /\ pass' \in [Actors -> PassStates] /\ pass'[p].at = "idle"
  BY DEF WalkEnds, Types, Idle, PassStates
<1>2. Types'
  BY <1>1 DEF Types, RemindTypeOK, WalkEnds
<1>3. ASSUME NEW r \in Listed PROVE Orderly(r)'
  BY <1>1 DEF Types, RemindTypeOK, Orderly, OneOwner, Claimed, SentOnce, Current, Busy, WalkEnds
<1> QED BY <1>2, <1>3

LEMMA UnclaimKeeps ==
    ASSUME RemindInv, NEW p \in Actors, Unclaim(p)
    PROVE  RemindInv'
<1> USE RemindAssumption DEF RemindInv
<1>1. /\ \A q \in Actors : q # p => pass'[q] = pass[q]
      /\ pass' \in [Actors -> PassStates] 
      /\ pass'[p].at \in {"idle", "walk"} /\ pass[p].id \in Listed
  BY OnwardTypes DEF Unclaim, Types, RemindTypeOK
<1>2. Types'
  BY <1>1 DEF Types, RemindTypeOK, Unclaim
<1>3. ASSUME NEW r \in Listed PROVE Orderly(r)'
  BY <1>1 DEF Types, RemindTypeOK, Orderly, OneOwner, Claimed, SentOnce, Current, Busy, Unclaim
<1> QED BY <1>2, <1>3

LEMMA FinalizeKeeps ==
    ASSUME RemindInv, NEW p \in Actors, Finalize(p)
    PROVE  RemindInv'
<1> USE RemindAssumption DEF RemindInv
<1>1. /\ \A q \in Actors : q # p => pass'[q] = pass[q]
      /\ pass' \in [Actors -> PassStates] 
      /\ pass'[p].at \in {"idle", "walk"} /\ pass[p].id \in Listed
      /\ pass[p].seen \in 0..MaxOccurrence + 1
  BY OnwardTypes DEF Finalize, Types, RemindTypeOK, PassStates
<1>2. Types'
  BY <1>1 DEF Types, RemindTypeOK, Finalize, Settle, RollPastDue, Later
<1>3. ASSUME NEW r \in Listed PROVE Orderly(r)'
  BY <1>1 DEF Types, RemindTypeOK, Orderly, OneOwner, Claimed, SentOnce, Current, Busy, Finalize, Settle
<1> QED BY <1>2, <1>3

LEMMA RemoveKeeps ==
    ASSUME RemindInv, NEW x \in Listed, Remove(x)
    PROVE  RemindInv'
<1> USE RemindAssumption DEF RemindInv
<1>1. pass' = pass
  BY DEF Remove
<1>2. Types'
  BY <1>1 DEF Types, RemindTypeOK, Remove
<1>3. ASSUME NEW r \in Listed PROVE Orderly(r)'
  BY <1>1 DEF Types, RemindTypeOK, Orderly, OneOwner, Claimed, SentOnce, Current, Busy, Remove
<1> QED BY <1>2, <1>3

LEMMA TimeKeeps ==
    ASSUME RemindInv, NEW x \in Listed, Time(x)
    PROVE  RemindInv'
<1> USE RemindAssumption DEF RemindInv
<1>1. pass' = pass
  BY DEF Time
<1>2. Types'
  BY <1>1 DEF Types, RemindTypeOK, Time
<1>3. ASSUME NEW r \in Listed PROVE Orderly(r)'
  BY <1>1 DEF Types, RemindTypeOK, Orderly, OneOwner, Claimed, SentOnce, Current, Busy, Time
<1> QED BY <1>2, <1>3

LEMMA DaemonDiesKeeps ==
    ASSUME RemindInv, DaemonDies
    PROVE  RemindInv'
<1> USE RemindAssumption DEF RemindInv
<1>1. pass' \in [Actors -> PassStates] /\ \A q \in Actors : pass'[q].at = "idle"
  BY DEF DaemonDies, Idle, PassStates
<1>2. Types'
  BY <1>1 DEF Types, RemindTypeOK, DaemonDies
<1>3. ASSUME NEW r \in Listed PROVE Orderly(r)'
  BY <1>1 DEF Types, RemindTypeOK, Orderly, OneOwner, Claimed, SentOnce, Current, Busy, DaemonDies
<1> QED BY <1>2, <1>3

-----------------------------------------------------------------------------
\* Every step keeps the invariant.
THEOREM RemindInvariance == RemindSpec => []RemindInv
<1>1. RemindInit => RemindInv
  BY RemindInitially
<1>2. RemindInv /\ [RemindNext]_rvars => RemindInv'
  <2> SUFFICES ASSUME RemindInv, [RemindNext]_rvars PROVE RemindInv'
    OBVIOUS
  <2>1. CASE Ticks
    BY <2>1, TickKeeps DEF Ticks, Actors
  <2>2. CASE Proceeds
    BY <2>2, EvaluateKeeps, WalkEndsKeeps, SentKeeps, NotSentKeeps, UnclaimKeeps, FinalizeKeeps
       DEF Proceeds, Moves
  <2>3. CASE DaemonDies
    BY <2>3, DaemonDiesKeeps
  <2>4. CASE \E r \in Listed : FireNow(r) \/ Remove(r) \/ Time(r)
    BY <2>4, FireNowKeeps, RemoveKeeps, TimeKeeps
  <2>5. CASE UNCHANGED rvars
    BY <2>5 DEF rvars, RemindInv, Types, RemindTypeOK, Orderly, OneOwner, Claimed, SentOnce, Current, Busy
  <2> QED BY <2>1, <2>2, <2>3, <2>4, <2>5 DEF RemindNext
<1> QED BY <1>1, <1>2, PTL DEF RemindSpec

\* The reminders and the passes over them keep their types.
THEOREM RemindTypesCorrect == RemindSpec => []RemindTypeOK
<1>1. RemindInv => RemindTypeOK
  BY DEF RemindInv, Types
<1> QED BY <1>1, RemindInvariance, PTL

\* reminder/scheduler.ts:23-27, for any reminders and any number of overlapping passes: one delivery
\* an occurrence, unless the last write was lost or a pass worked on a list that was out of date.
THEOREM DeliveryCorrect == RemindSpec => []DeliveredOnce
<1>1. RemindInv => DeliveredOnce
  <2> SUFFICES ASSUME RemindInv, NEW r \in Listed, sent[r] = 2 PROVE r \in excused
    BY DEF DeliveredOnce
  <2> QED BY DEF RemindInv, Orderly, SentOnce
<1> QED BY <1>1, RemindInvariance, PTL

\* store.ts:85, the claim: of the passes over a reminder that nothing excuses, one at most is busy
\* with it, and no reminder is left unclaimed while one is.
THEOREM ClaimCorrect == RemindSpec => [](\A r \in Listed \ excused : OneOwner(r) /\ Claimed(r))
<1>1. RemindInv => \A r \in Listed \ excused : OneOwner(r) /\ Claimed(r)
  BY DEF RemindInv, Orderly
<1> QED BY <1>1, RemindInvariance, PTL

\* A reminder goes on to a later occurrence, having been delivered for the present one.
RollsOn(r) == fireAt'[r] # fireAt[r] => sent[r] = 1 /\ fireAt'[r] > fireAt[r]

LEMMA FinalizeRolls ==
    ASSUME RemindInv, NEW p \in Actors, Finalize(p), NEW r \in Listed \ excused'
    PROVE  RollsOn(r)
<1> USE RemindAssumption DEF RemindInv
<1> SUFFICES ASSUME fireAt'[r] # fireAt[r] PROVE sent[r] = 1 /\ fireAt'[r] > fireAt[r]
  BY DEF RollsOn
<1>1. /\ fireAt \in [Listed -> 1..MaxOccurrence + 1] /\ now[r] \in 0..MaxOccurrence
      /\ sent[r] \in 0..2 /\ pass[p].at = "sent" /\ r \notin excused
  BY DEF Finalize, Types, RemindTypeOK
<1>2. /\ pass[p].id = r /\ Settle(r, pass[p].seen)
      /\ fireAt' = [fireAt EXCEPT ![r] = RollPastDue(pass[p].seen, r)]
  BY <1>1 DEF Finalize, Settle
<1>3. Busy(p, r)
  BY <1>1, <1>2 DEF Busy
<1>4. pass[p].seen = fireAt[r] /\ fireAt[r] <= MaxOccurrence /\ sent[r] = 1
  BY <1>1, <1>3 DEF Orderly, SentOnce, Current
<1>5. fireAt'[r] = RollPastDue(fireAt[r], r)
  BY <1>1, <1>2, <1>4
<1> QED BY <1>1, <1>4, <1>5 DEF RollPastDue, Later

\* scheduler.ts:23-27 and store.ts's rollRecurring: nothing but its delivery takes a reminder past an
\* occurrence, and none comes back, however passes overlap and the daemon dies; but for the
\* reminders that DeliveredOnce excuses.
THEOREM RollsCorrect == RemindSpec => [][\A r \in Listed \ excused' : RollsOn(r)]_rvars
<1>1. RemindInv /\ [RemindNext]_rvars => [\A r \in Listed \ excused' : RollsOn(r)]_rvars
  <2> SUFFICES ASSUME RemindInv, RemindNext, NEW r \in Listed \ excused'
               PROVE  RollsOn(r)
    OBVIOUS
  <2>1. CASE \E p \in Actors : Finalize(p)
    BY <2>1, FinalizeRolls
  <2>2. CASE fireAt' = fireAt
    BY <2>2 DEF RollsOn
  <2>3. (\E p \in Actors : Finalize(p)) \/ fireAt' = fireAt
    BY Zenon DEF RemindNext, Ticks, Proceeds, Moves, Tick, Evaluate, WalkEnds, Sent, NotSent, Unclaim,
           DaemonDies, FireNow, Remove, Time
  <2> QED BY <2>1, <2>2, <2>3
<1> QED BY <1>1, RemindInvariance, PTL DEF RemindSpec

-----------------------------------------------------------------------------
(***************************************************************************)
(* The lock directory makes every registry an AtomicLedger, for any          *)
(* patience, as long as no process dies inside mutate(), or only two of them  *)
(* share it, the command line's and the daemon, whatever dies: the clock      *)
(* waits for a caller that works, so a lock that is seen stale was left by a   *)
(* dead one, and then nobody else is there to take the next.                  *)
(***************************************************************************)

(* A sleeper has an attempt left. *)
Patient == \A p \in Procs : pc[p] = "sleep" => waited[p] < Patience

Working(p) == pc[p] \in {"read", "write", "unlock"}

TwoCallers == \A p, q, r \in Procs : p = q \/ q = r \/ p = r

(* One caller works at a time, under a fresh lock; the lock of nobody who works was left by a dead  *)
(* one; and a caller that breaks a lock is the only one alive.                                      *)
Excluded ==
    /\ \A p \in Procs : Working(p) => age = 0
    /\ \A p, q \in Procs : Working(p) /\ Working(q) => p = q
    /\ Held => \E p \in Procs : Working(p) \/ pc[p] = "dead"
    /\ \A p \in Procs : pc[p] = "rm" => \A q \in Procs \ {p} : pc[q] = "dead"
    /\ (\E p \in Procs : pc[p] = "dead") => crashes > 0

(* What the working caller read is still the file; what is reported is in it. *)
Recorded ==
    /\ \A p \in Procs : pc[p] = "write" => copy[p] = file
    /\ \A p \in Procs : pc[p] = "unlock" => p \in file
    /\ reported \subseteq file

(* The variables keep their types through crashes and stale locks, and no caller *)
(* sleeps beyond LOCK_ATTEMPTS.                                                  *)
THEOREM LockTypesCorrect == LockSpec => []LockTypeOK
<1> USE FileLockAssumption DEF FileLockAssumption, NoLock, Held
<1>1. LockInit => LockTypeOK /\ Patient
    BY DEF LockInit, LockTypeOK, Patient, Pcs
<1>2. LockTypeOK /\ Patient /\ [LockNext]_lockVars => (LockTypeOK /\ Patient)'
    <2> SUFFICES ASSUME LockTypeOK, Patient, [LockNext]_lockVars
                 PROVE  LockTypeOK' /\ Patient'
        OBVIOUS
    <2>1. CASE UNCHANGED lockVars
        BY <2>1 DEF lockVars, LockTypeOK, Patient
    <2>2. CASE ClockTicks
        BY <2>2 DEF ClockTicks, Asleep, LockTypeOK, Patient, Pcs
    <2>3. ASSUME NEW p \in Procs, Call(p) \/ Syscall(p) \/ Die(p)
          PROVE  LockTypeOK' /\ Patient'
        <3>1. CASE Call(p)
            BY <3>1 DEF Call, Go, LockTypeOK, Patient, Pcs
        <3>2. CASE Mkdir(p)
            BY <3>2 DEF Mkdir, Go, LockTypeOK, Patient, Pcs
        <3>3. CASE Stat(p)
            BY <3>3 DEF Stat, Go, OutOfAttempts, LockTypeOK, Patient, Pcs
        <3>4. CASE Rm(p) \/ Unlock(p)
            BY <3>4 DEF Rm, Unlock, Go, LockTypeOK, Patient, Pcs
        <3>5. CASE Read(p) \/ Write(p)
            BY <3>5 DEF Read, Write, Go, LockTypeOK, Patient, Pcs
        <3>6. CASE Die(p)
            BY <3>6 DEF Die, Go, LockTypeOK, Patient, Pcs
        <3> QED BY <2>3, <3>1, <3>2, <3>3, <3>4, <3>5, <3>6 DEF Syscall
    <2> QED BY <2>1, <2>2, <2>3 DEF LockNext
<1> QED BY <1>1, <1>2, PTL DEF LockSpec

(* A lock that is seen stale was left by the only other caller. *)
LEMMA BreaksAlone ==
    ASSUME FileLockAssumption, MaxCrashes = 0 \/ TwoCallers, LockTypeOK, Excluded,
           NEW p \in Procs, pc[p] = "stat", IsStale
    PROVE  \A q \in Procs \ {p} : pc[q] = "dead"
<1>1. age > 0 /\ Held
    BY DEF IsStale, FileLockAssumption, LockTypeOK, Held, NoLock
<1>2. PICK d \in Procs : pc[d] = "dead"
    BY <1>1 DEF Excluded
<1>3. TwoCallers
    BY <1>2 DEF Excluded, LockTypeOK, FileLockAssumption
<1> QED BY <1>2, <1>3 DEF TwoCallers

(* The working caller is alone. *)
LEMMA Exclusion ==
    ASSUME FileLockAssumption, MaxCrashes = 0 \/ TwoCallers, LockTypeOK, LockTypeOK', Excluded,
           [LockNext]_lockVars
    PROVE  Excluded'
<1> USE DEF LockTypeOK, Excluded, Working, Held, NoLock
<1>1. CASE UNCHANGED lockVars
    BY <1>1 DEF lockVars
<1>2. CASE ClockTicks
    <2>1. \A p \in Procs : ~Working(p) /\ pc[p] # "rm" /\ ~Working(p)' /\ pc'[p] # "rm"
                           /\ (pc'[p] = "dead" <=> pc[p] = "dead")
        BY <1>2 DEF ClockTicks, Asleep, Away
    <2>2. (Held' => Held) /\ crashes' = crashes
        BY <1>2 DEF ClockTicks
    <2> QED BY <2>1, <2>2
<1>3. ASSUME NEW p \in Procs, Call(p) \/ Syscall(p) \/ Die(p)
      PROVE  Excluded'
    <2>1. CASE Call(p)
        BY <2>1 DEF Call, Go
    <2>2. CASE Mkdir(p)
        BY <2>2 DEF Mkdir, Go
    <2>3. CASE Stat(p)
        <3>1. CASE IsStale
            BY <2>3, <3>1, BreaksAlone DEF Stat, Go
        <3>2. CASE ~IsStale
            BY <2>3, <3>2 DEF Stat, Go
        <3> QED BY <3>1, <3>2
    <2>4. CASE Rm(p)
        BY <2>4 DEF Rm, Go
    <2>5. CASE Unlock(p)
        BY <2>5 DEF Unlock, Go
    <2>6. CASE Read(p) \/ Write(p)
        BY <2>6 DEF Read, Write, Go
    <2>7. CASE Die(p)
        BY <2>7 DEF Die, Go, FileLockAssumption, Away
    <2> QED BY <1>3, <2>1, <2>2, <2>3, <2>4, <2>5, <2>6, <2>7 DEF Syscall
<1> QED BY <1>1, <1>2, <1>3 DEF LockNext

(* A step of a caller that is alone records, or changes neither file nor reports. *)
LEMMA Recording ==
    ASSUME LockTypeOK, LockTypeOK', Excluded, Recorded, [LockNext]_lockVars
    PROVE  Recorded' /\ [Ledger!Next]_(Ledger!vars)
<1> USE DEF LockTypeOK, Recorded, Held, NoLock, Ledger!Next, Ledger!vars, Ledger!Apply, Ledger!Report
<1>1. CASE UNCHANGED lockVars
    BY <1>1 DEF lockVars
<1>2. CASE ClockTicks
    BY <1>2 DEF ClockTicks, Asleep
<1>3. ASSUME NEW p \in Procs, Call(p) \/ Syscall(p) \/ Die(p)
      PROVE  Recorded' /\ [Ledger!Next]_(Ledger!vars)
    <2>1. CASE Call(p) \/ Mkdir(p) \/ Stat(p) \/ Rm(p) \/ Die(p)
        BY <2>1 DEF Call, Mkdir, Stat, Rm, Die, Go
    <2>2. CASE Read(p)
        BY <2>2 DEF Read, Go
    <2>3. CASE Write(p)
        <3>1. file' = file \cup {p} /\ reported' = reported
            BY <2>3 DEF Write
        <3>2. \A q \in Procs \ {p} : pc'[q] # "write"
            BY <2>3 DEF Write, Go, Excluded, Working
        <3> QED BY <2>3, <3>1, <3>2 DEF Write, Go
    <2>4. CASE Unlock(p)
        BY <2>4 DEF Unlock, Go
    <2> QED BY <1>3, <2>1, <2>2, <2>3, <2>4 DEF Syscall
<1> QED BY <1>1, <1>2, <1>3 DEF LockNext

(* The stores' headers, "so the CLI and the daemon can both mutate it safely": two callers, any     *)
(* number of deaths inside mutate() and any patience, or any number of callers that do not die     *)
(* there, see one atomic ledger.  No change is lost and none is reported that is not in the file.  *)
THEOREM LedgerCorrect ==
    ASSUME MaxCrashes = 0 \/ TwoCallers
    PROVE  LockSpec => ImplementsLedger
<1> USE FileLockAssumption DEF FileLockAssumption, NoLock, Held
<1>1. LockInit => Excluded /\ Recorded /\ Ledger!Init
    BY DEF LockInit, Excluded, Working, Recorded, Ledger!Init
<1>2. LockTypeOK /\ LockTypeOK' /\ Excluded /\ [LockNext]_lockVars => Excluded'
    BY Exclusion
<1>3. LockTypeOK /\ LockTypeOK' /\ Excluded /\ Recorded /\ [LockNext]_lockVars
        => Recorded' /\ [Ledger!Next]_(Ledger!vars)
    BY Recording
<1> QED BY <1>1, <1>2, <1>3, LockTypesCorrect, PTL DEF LockSpec, ImplementsLedger, Ledger!Spec

-----------------------------------------------------------------------------
(***************************************************************************)
(* The directed turns answer a message once, and forget no debt, for any    *)
(* number of messages, deaths and replays.                                  *)
(*                                                                          *)
(* The invariant follows a message through the places it can be in.  Before *)
(* it is taken it is in one of the four lists (an event, missed, inherited,  *)
(* given back) and has no turn; then it is the anchor of a turn or rides on *)
(* one, and on one only; and once it was answered nothing can answer it     *)
(* again: no turn of it is on its way to a post, no list holds it, and what *)
(* the ledger keeps of it says that it was being delivered, to a boot that  *)
(* finds Beckett's post after it in the channel.                            *)
(***************************************************************************)

DirectedSources == events \cup missed \cup inherited \cup again

\* A message is in one place before it is taken, ...
OnePlace ==
    /\ events \cap (missed \cup inherited \cup again) = {}
    /\ missed \cap (inherited \cup again) = {}
    /\ inherited \cap again = {}
    /\ remembered \cap DirectedSources = {}
    /\ \A m \in DirectedSources \cup remembered : course[m] = "no" /\ cli[m] = "no"
    /\ \A m \in M : course[m] \in {"held", "queued", "posting"} => cli[m] = "no"
    /\ \A m \in M : course[m] = "no" => rides[m] = {}

\* ... and nothing knows of one that was not said.
KnownSaid ==
    /\ \A m \in M : (m \in DirectedSources \/ m \in remembered \/ course[m] # "no" \/ cli[m] # "no") => m <= said
    /\ \A x, m \in M : m \in rides[x] => m <= said
    /\ \A m \in M : owed[m] # "no" => m <= cursor
    /\ \A m \in M : answers[m] >= 1 => m <= posted

\* The ledger
LedgerTrue ==
    /\ \A m \in events \cup missed : owed[m] = "no"
    /\ \A m \in M : owed[m] = "no" => replays[m] = 0
    /\ \A m \in M : course[m] = "posting" \/ cli[m] = "sending" => owed[m] # "queued"
    /\ \A m \in inherited : owed[m] # "no" /\ \A x \in M : m \notin rides[x]
    /\ awaited \notin inherited

ReplaysSpent ==
    /\ \A m \in M : replays[m] <= deaths
    /\ \A m \in M : stage = "down" \/ m \in inherited => replays[m] < deaths
    /\ \A m \in M : stage = "down" \/ m \in inherited \/ course[m] = "giveup" \/ replays[m] <= MaxReplays

Cleared ==
    stage = "down" =>
        /\ DirectedSources = {} /\ remembered = {} /\ injected = {} /\ awaited = 0
        /\ \A m \in M : course[m] = "no" /\ cli[m] = "no"

RidesOnce ==
    \A m \in M \ doubled : \A x \in M : m \in rides[x] =>
        /\ \A y \in M : m \in rides[y] => y = x
        /\ course[m] = "no" /\ cli[m] = "no" /\ m \notin DirectedSources
        /\ course[x] \in {"posting", "posted"} => m \notin remembered
        /\ course[x] = "posting" => owed[m] # "queued"

Pending(m) ==
    \/ course[m] \in {"held", "queued", "posting"}
    \/ course[m] = "live" /\ cli[m] = "no"
    \/ cli[m] = "sending"
    \/ \E x \in M : m \in rides[x] /\ course[x] \in {"held", "queued", "live", "posting"}

AnsweredFinally ==
    \A m \in M \ doubled : answers[m] >= 1 =>
        /\ answers[m] = 1
        /\ owed[m] # "queued" /\ ~Pending(m)
        /\ m \notin events /\ m \notin missed /\ m \notin again /\ m \notin remembered
        /\ m \in inherited => owed[m] = "delivering"

DInv ==
    /\ DirectedTypeOK /\ OnePlace /\ KnownSaid /\ LedgerTrue /\ ReplaysSpent /\ Cleared /\ RidesOnce
    /\ AnsweredFinally /\ DebtsTended

-----------------------------------------------------------------------------
(* The ledger, in one step *)

\* A step of the ledger that claims nothing: rows stay, go, or are stamped, and no count of replays grows.
LedgerStep ==
    /\ owed' \in [M -> {"no", "queued", "delivering"}]
    /\ replays' \in [M -> 0..MaxReplays + MaxDeaths]
    /\ \A x \in M : \/ owed'[x] = owed[x] \/ owed'[x] = "no"
                    \/ owed[x] # "no" /\ owed'[x] = "delivering"
    /\ \A x \in M : /\ replays'[x] <= replays[x]
                    /\ owed'[x] = "no" => replays'[x] = 0

LEMMA SettledStep ==
    ASSUME DirectedTypeOK, NEW S, Books(SettledIn(S, owed))
    PROVE  LedgerStep /\ \A x \in M : owed'[x] = IF x \in S THEN "no" ELSE owed[x]
<1>1. \A x \in M : owed[x] \in {"no", "queued", "delivering"} /\ replays[x] \in 0..MaxReplays + MaxDeaths
  BY DEF DirectedTypeOK
<1>2. owed' = [x \in M |-> IF x \in S THEN "no" ELSE owed[x]]
      /\ replays' = [x \in M |-> IF owed'[x] = "no" THEN 0 ELSE replays[x]]
  BY DEF Books, BooksWith, SettledIn
<1>. QED BY <1>1, <1>2, DirectedAssumption DEF LedgerStep

LEMMA StampedStep ==
    ASSUME DirectedTypeOK, LedgerTrue, NEW S, Books(BeforePost(S, owed))
    PROVE  LedgerStep /\ \A x \in M : x \in S => owed'[x] # "queued"
<1>1. \A x \in M : owed[x] \in {"no", "queued", "delivering"} /\ replays[x] \in 0..MaxReplays + MaxDeaths
  BY DEF DirectedTypeOK
<1>2. owed' = [x \in M |-> IF x \in S /\ owed[x] # "no" THEN "delivering" ELSE owed[x]]
      /\ replays' = [x \in M |-> IF owed'[x] = "no" THEN 0 ELSE replays[x]]
  BY DEF Books, BooksWith, BeforePost, StampedIn
<1>. QED BY <1>1, <1>2, DirectedAssumption DEF LedgerStep

LEMMA SameStep ==
    ASSUME DirectedTypeOK, LedgerTrue, UNCHANGED books
    PROVE  LedgerStep
BY DirectedAssumption DEF LedgerStep, DirectedTypeOK, LedgerTrue, books

\* Such a step leaves the counts of replays within their bounds.
LEMMA SpentKept ==
    ASSUME DirectedTypeOK, ReplaysSpent, LedgerStep, deaths' = deaths,
           stage' = "down" => stage = "down", inherited' \subseteq inherited,
           \A x \in M : x \in inherited /\ x \notin inherited' => course'[x] = "giveup" \/ replays'[x] <= MaxReplays,
           stage = "down" => stage' = "down",
           \A x \in M : course[x] = "giveup" => course'[x] = "giveup" \/ replays'[x] = 0
    PROVE  ReplaysSpent'
<1>1. \A x \in M : /\ replays[x] \in Nat /\ replays'[x] \in Nat /\ replays'[x] <= replays[x]
  BY DirectedAssumption DEF DirectedTypeOK, LedgerStep
<1>2. deaths \in Nat /\ MaxReplays \in Nat
  BY DirectedAssumption DEF DirectedTypeOK
<1>. QED BY <1>1, <1>2 DEF ReplaysSpent

\* What a turn owes to what it carries: it ends with its own row closed, and no rider that it had to close
\* is left open, but for the ones it strands or hands back.
Tending(m) ==
    /\ stranded \subseteq stranded' /\ again \subseteq again' /\ remembered \ remembered' \subseteq rides[m]
    /\ course'[m] = "no" => owed'[m] = "no"
    /\ \A k \in rides[m] :
         \/ owed'[k] = "no" \/ k \in stranded' \/ k \in again'
         \/ k \in rides'[m] /\ (course'[m] \in {"posting", "posted"} \/ k \in remembered')
         \/ course[m] \notin {"posting", "posted"} /\ k \notin remembered

\* What any step of a turn may do after its message was taken: this anchor's turn moves on, its riders
\* stay, go, or are handed back, and only their rows change.
TurnStep(m) ==
    /\ course[m] # "no"
    /\ UNCHANGED <<said, answers, stage, missed, inherited, awaited, events, doubled, deaths>>
    /\ UNCHANGED <<posted, cursor>> \/ (posted' = said /\ cursor' = said)
    /\ LedgerStep /\ \A x \in M : owed'[x] # owed[x] => x \in {m} \cup rides[m]
    /\ seen' \subseteq seen /\ injected' \subseteq injected /\ remembered' \subseteq remembered
    /\ stranded' \subseteq M
    /\ again' \subseteq again \cup (rides[m] \cap remembered)
    /\ again' \cap remembered' = {} /\ (again' # again => rides'[m] = {})
    /\ course' \in [M -> Courses] /\ rides' \in [M -> SUBSET M] /\ cli' \in [M -> {"no", "sending", "sent"}]
    /\ \A x \in M \ {m} : course'[x] = course[x] /\ rides'[x] = rides[x] /\ cli'[x] = cli[x]
    /\ rides'[m] \in {rides[m], {}}
    /\ course'[m] = "no" => rides'[m] = {}
    /\ course'[m] # "no" => course'[m] # "giveup" /\ course[m] # "giveup"
    /\ course[m] = "giveup" => owed'[m] = "no"
    /\ course'[m] \in {"held", "queued", "posting"} =>
         cli'[m] = "no" /\ (course[m] \in {"held", "queued"} \/ (course[m] = "live" /\ cli[m] = "no"))
    /\ course'[m] = "live" => course[m] \in {"queued", "live"} /\ (cli'[m] = "no" => cli[m] = "no")
    /\ cli'[m] = cli[m] \/ (cli'[m] = "sending" /\ course[m] = "live" /\ cli[m] = "no" /\ owed'[m] # "queued")
    /\ course'[m] = "posted" => rides'[m] = {}
    /\ course'[m] = "posting" => /\ rides[m] \cap remembered' = {}
                                 /\ \A k \in M : k \in rides[m] \cup {m} => owed'[k] # "queued"
    /\ Tending(m)

\* All such steps keep the invariant, for one reason.
LEMMA TurnStepKeeps == ASSUME DInv, NEW m \in M, TurnStep(m) PROVE DInv'
<1>. USE DirectedAssumption
<1>1. DirectedTypeOK'
  <2>1. said' \in 0..N /\ posted' \in 0..said' /\ cursor' \in posted'..said'
    BY DEF DInv, DirectedTypeOK, TurnStep
  <2>2. \A x \in M : course'[x] # "no" /\ course'[x] # "giveup" => replays'[x] <= MaxReplays
    <3> SUFFICES ASSUME NEW x \in M, course'[x] # "no", course'[x] # "giveup" PROVE replays'[x] <= MaxReplays
      OBVIOUS
    <3>1. course[x] # "no" /\ course[x] # "giveup"
      BY DEF TurnStep
    <3>2. replays[x] \in Nat /\ replays'[x] \in Nat /\ replays[x] <= MaxReplays /\ replays'[x] <= replays[x]
      BY <3>1 DEF DInv, DirectedTypeOK, TurnStep, LedgerStep
    <3>. QED BY <3>2
  <2>3. again' \subseteq M /\ seen' \subseteq M /\ injected' \subseteq M /\ remembered' \subseteq M /\ stranded' \subseteq M
    BY DEF DInv, DirectedTypeOK, TurnStep
  <2>. QED BY <2>1, <2>2, <2>3 DEF DInv, DirectedTypeOK, TurnStep, LedgerStep, boot, Courses
<1>2. OnePlace'
  <2>1. (events \cap (missed \cup inherited \cup again) = {})' /\ (missed \cap (inherited \cup again) = {})'
        /\ (inherited \cap again = {})' /\ (remembered \cap DirectedSources = {})'
    BY DEF DInv, OnePlace, TurnStep, boot, DirectedSources
  <2>2. \A x \in (DirectedSources \cup remembered)' : course'[x] = "no" /\ cli'[x] = "no"
    BY DEF DInv, OnePlace, TurnStep, boot, DirectedSources, DirectedTypeOK
  <2>3. \A x \in M : course'[x] \in {"held", "queued", "posting"} => cli'[x] = "no"
    BY DEF DInv, OnePlace, TurnStep
  <2>4. \A x \in M : course'[x] = "no" => rides'[x] = {}
    BY DEF DInv, OnePlace, TurnStep
  <2>. QED BY <2>1, <2>2, <2>3, <2>4 DEF OnePlace
<1>3. KnownSaid'
  <2>1. said' = said /\ said \in Nat /\ posted \in Nat /\ cursor \in Nat /\ posted <= cursor /\ cursor <= said
        /\ cursor' >= cursor /\ posted' >= posted /\ posted' \in Nat /\ cursor' \in Nat
    BY DEF DInv, DirectedTypeOK, TurnStep
  <2>2. \A x \in M : (x \in DirectedSources' \/ x \in remembered' \/ course'[x] # "no" \/ cli'[x] # "no") => x <= said
    BY DEF DInv, KnownSaid, TurnStep, boot, DirectedSources
  <2>3. \A x, k \in M : k \in rides'[x] => k <= said
    BY DEF DInv, KnownSaid, TurnStep
  <2>4. \A x \in M : owed'[x] # "no" => x <= cursor'
    <3> SUFFICES ASSUME NEW x \in M, owed'[x] # "no" PROVE x <= cursor'
      OBVIOUS
    <3>1. x <= cursor BY DEF DInv, KnownSaid, TurnStep, LedgerStep
    <3>. QED BY <2>1, <3>1 DEF M
  <2>5. \A x \in M : answers'[x] >= 1 => x <= posted'
    <3> SUFFICES ASSUME NEW x \in M, answers'[x] >= 1 PROVE x <= posted'
      OBVIOUS
    <3>1. x <= posted BY DEF DInv, KnownSaid, TurnStep
    <3>. QED BY <2>1, <3>1 DEF M
  <2>. QED BY <2>1, <2>2, <2>3, <2>4, <2>5 DEF KnownSaid
<1>4. LedgerTrue'
  <2>1. \A x \in events' \cup missed' : owed'[x] = "no"
    BY DEF DInv, LedgerTrue, TurnStep, LedgerStep, boot, DirectedTypeOK
  <2>2. \A x \in M : course'[x] = "posting" \/ cli'[x] = "sending" => owed'[x] # "queued"
    BY DEF DInv, LedgerTrue, TurnStep, LedgerStep
  <2>3. \A x \in inherited' : owed'[x] # "no" /\ \A y \in M : x \notin rides'[y]
    BY DEF DInv, DirectedTypeOK, OnePlace, DirectedSources, LedgerTrue, TurnStep
  <2>4. (\A x \in M : owed'[x] = "no" => replays'[x] = 0) /\ awaited' \notin inherited'
    BY DEF DInv, LedgerTrue, TurnStep, LedgerStep
  <2>. QED BY <2>1, <2>2, <2>3, <2>4 DEF LedgerTrue
<1>5. ReplaysSpent'
  <2>1. \A x \in M : course[x] = "giveup" => course'[x] = "giveup" \/ replays'[x] = 0
    BY DEF TurnStep, LedgerStep
  <2>. QED BY <2>1, SpentKept DEF DInv, TurnStep, boot
<1>6. Cleared'
  BY DEF DInv, Cleared, TurnStep, boot
<1>7. RidesOnce'
  <2> SUFFICES ASSUME NEW k \in M \ doubled', NEW x \in M, k \in rides'[x]
               PROVE  /\ \A y \in M : k \in rides'[y] => y = x
                      /\ course'[k] = "no" /\ cli'[k] = "no" /\ k \notin DirectedSources'
                      /\ course'[x] \in {"posting", "posted"} => k \notin remembered'
                      /\ course'[x] = "posting" => owed'[k] # "queued"
    BY DEF RidesOnce, DirectedSources
  <2>1. k \in M \ doubled /\ k \in rides[x] /\ \A y \in M : k \in rides[y] => y = x
    BY DEF DInv, TurnStep, RidesOnce
  <2>2. \A y \in M : k \in rides'[y] => y = x
    BY <2>1 DEF TurnStep
  <2>3. k # m /\ course'[k] = "no" /\ cli'[k] = "no"
    BY <2>1 DEF DInv, TurnStep, RidesOnce
  <2>4. k \notin DirectedSources'
    BY <2>1 DEF DInv, TurnStep, RidesOnce, DirectedSources, boot
  <2>5. course'[x] \in {"posting", "posted"} => k \notin remembered'
    BY <2>1 DEF DInv, TurnStep, RidesOnce
  <2>6. course'[x] = "posting" => owed'[k] # "queued"
    BY <2>1 DEF DInv, TurnStep, RidesOnce, LedgerStep
  <2>. QED BY <2>2, <2>3, <2>4, <2>5, <2>6
<1>8. AnsweredFinally'
  <2> SUFFICES ASSUME NEW k \in M \ doubled', answers'[k] >= 1
               PROVE  /\ answers'[k] = 1
                      /\ owed'[k] # "queued" /\ ~Pending(k)'
                      /\ k \notin events' /\ k \notin missed' /\ k \notin again' /\ k \notin remembered'
                      /\ k \in inherited' => owed'[k] = "delivering"
    BY DEF AnsweredFinally
  <2>1. /\ k \in M \ doubled /\ answers[k] = 1
        /\ owed[k] # "queued" /\ ~Pending(k)
        /\ k \notin events /\ k \notin missed /\ k \notin again /\ k \notin remembered
        /\ k \in inherited => owed[k] = "delivering"
    BY DEF DInv, TurnStep, AnsweredFinally
  <2>2. ~Pending(k)'
    <3>1. ~(course'[k] \in {"held", "queued", "posting"})
      BY <2>1 DEF TurnStep, Pending
    <3>2. ~(course'[k] = "live" /\ cli'[k] = "no")
      BY <2>1 DEF TurnStep, Pending
    <3>3. cli'[k] # "sending"
      BY <2>1 DEF TurnStep, Pending
    <3>4. ~\E x \in M : k \in rides'[x] /\ course'[x] \in {"held", "queued", "live", "posting"}
      BY <2>1 DEF TurnStep, Pending
    <3>. QED BY <3>1, <3>2, <3>3, <3>4 DEF Pending
  <2>3. owed'[k] # "queued"
    BY <2>1 DEF TurnStep, LedgerStep
  <2>4. k \in inherited' => owed'[k] = "delivering"
    BY <2>1 DEF DInv, TurnStep, boot, OnePlace, DirectedSources, RidesOnce
  <2>. QED BY <2>1, <2>2, <2>3, <2>4 DEF TurnStep, boot
<1>9. DebtsTended'
  <2> SUFFICES ASSUME stage' # "down", NEW k \in M \ stranded', owed'[k] # "no"
               PROVE  k \in inherited' \cup again' \/ Tended(k)'
    BY DEF DebtsTended
  <2>1. owed[k] # "no" /\ k \notin stranded /\ stage # "down"
    BY DEF TurnStep, LedgerStep, Tending
  <2>2. CASE k \in inherited \cup again
    BY <2>2 DEF TurnStep, Tending
  <2>3. CASE course[k] # "no"
    BY <2>3 DEF TurnStep, Tending, Tended
  <2>4. CASE \E x \in M : k \in rides[x] /\ (course[x] \in {"posting", "posted"} \/ k \in remembered)
    <3>1. PICK x \in M : k \in rides[x] /\ (course[x] \in {"posting", "posted"} \/ k \in remembered)
      BY <2>4
    <3>2. CASE x = m \/ (k \in remembered /\ k \notin remembered')
      <4>1. k \in rides[m] /\ (course[m] \in {"posting", "posted"} \/ k \in remembered)
        BY <3>1, <3>2 DEF TurnStep, Tending
      <4>. QED BY <4>1 DEF TurnStep, Tending, Tended
    <3>3. CASE x # m /\ (k \in remembered => k \in remembered')
      BY <3>1, <3>3 DEF TurnStep, Tended
    <3>. QED BY <3>2, <3>3
  <2>. QED BY <2>1, <2>2, <2>3, <2>4 DEF DInv, DebtsTended, Tended
<1>. QED BY <1>1, <1>2, <1>3, <1>4, <1>5, <1>6, <1>7, <1>8, <1>9 DEF DInv

LEMMA SettledStepOf ==
    ASSUME DirectedTypeOK, NEW S, Books(SettledIn(S, owed))
    PROVE  /\ \A x \in M : x \in S => owed'[x] = "no"
           /\ \A x \in M : owed'[x] # owed[x] => x \in S
BY SettledStep
LEMMA StampedStepOf ==
    ASSUME DirectedTypeOK, LedgerTrue, NEW S, Books(BeforePost(S, owed))
    PROVE  \A x \in M : owed'[x] # owed[x] => x \in S
BY DEF Books, BooksWith, BeforePost, StampedIn, DirectedTypeOK

LEMMA WindowEndsKeeps == ASSUME DInv, NEW m \in M, WindowEnds(m) PROVE DInv'
<1>1. LedgerStep
  BY SameStep DEF DInv, WindowEnds, books
<1>2. UNCHANGED owed
  BY DEF WindowEnds, books
<1>3. /\ course[m] = "held"
      /\ course'[m] = "queued" /\ course' \in [M -> Courses]
      /\ \A x \in M \ {m} : course'[x] = course[x]
  BY DEF DInv, DirectedTypeOK, WindowEnds, Courses
<1>4. /\ rides' = rides /\ rides' \in [M -> SUBSET M]
      /\ cli' = cli /\ cli' \in [M -> {"no", "sending", "sent"}]
      /\ \A x \in M \ {m} : rides'[x] = rides[x] /\ cli'[x] = cli[x]
  BY DEF DInv, DirectedTypeOK, WindowEnds
<1>5. /\ UNCHANGED <<said, answers, stage, missed, inherited, awaited, events, doubled, deaths>>
      /\ UNCHANGED <<posted, cursor>> \/ (posted' = said /\ cursor' = said)
      /\ injected' \subseteq injected /\ stranded' \subseteq M
      /\ UNCHANGED <<seen, again, remembered>>
      /\ again \cap remembered = {} /\ rides[m] \subseteq M
      /\ cli[m] = "no"
  BY DEF DInv, DirectedTypeOK, OnePlace, DirectedSources, WindowEnds, discord, boot
<1>6. Tending(m)
  BY <1>2, <1>3, <1>4, <1>5 DEF WindowEnds, Tending
<1>7. TurnStep(m)
  BY <1>1, <1>2, <1>3, <1>4, <1>5, <1>6 DEF TurnStep
<1>. QED BY <1>7, TurnStepKeeps

LEMMA StartKeeps == ASSUME DInv, NEW m \in M, Start(m) PROVE DInv'
<1>1. LedgerStep
  BY SameStep DEF DInv, Start, books
<1>2. UNCHANGED owed
  BY DEF Start, books
<1>3. /\ course[m] = "queued"
      /\ course'[m] = "live" /\ course' \in [M -> Courses]
      /\ \A x \in M \ {m} : course'[x] = course[x]
  BY DEF DInv, DirectedTypeOK, Start, Courses
<1>4. /\ rides' = rides /\ rides' \in [M -> SUBSET M]
      /\ cli' = cli /\ cli' \in [M -> {"no", "sending", "sent"}]
      /\ \A x \in M \ {m} : rides'[x] = rides[x] /\ cli'[x] = cli[x]
  BY DEF DInv, DirectedTypeOK, Start
<1>5. /\ UNCHANGED <<said, answers, stage, missed, inherited, awaited, events, doubled, deaths>>
      /\ UNCHANGED <<posted, cursor>> \/ (posted' = said /\ cursor' = said)
      /\ injected' \subseteq injected /\ stranded' \subseteq M
      /\ UNCHANGED <<seen, again, remembered>>
      /\ again \cap remembered = {} /\ rides[m] \subseteq M
      /\ cli[m] = "no"
  BY DEF DInv, DirectedTypeOK, OnePlace, DirectedSources, Start, discord, boot
<1>6. Tending(m)
  BY <1>2, <1>3, <1>4, <1>5 DEF Start, Tending
<1>7. TurnStep(m)
  BY <1>1, <1>2, <1>3, <1>4, <1>5, <1>6 DEF TurnStep
<1>. QED BY <1>7, TurnStepKeeps

LEMMA CliReplyKeeps == ASSUME DInv, NEW m \in M, CliReply(m) PROVE DInv'
<1>1. LedgerStep /\ \A x \in M : owed'[x] # owed[x] => x \in {m}
  BY StampedStep, StampedStepOf DEF DInv, CliReply
<1>2. \A x \in M : x \in {m} => owed'[x] # "queued"
  BY StampedStep, StampedStepOf DEF DInv, CliReply
<1>3. /\ course[m] = "live"
      /\ course'[m] = "live" /\ course' \in [M -> Courses]
      /\ \A x \in M \ {m} : course'[x] = course[x]
  BY DEF DInv, DirectedTypeOK, CliReply, Courses
<1>4. /\ rides' = rides /\ rides' \in [M -> SUBSET M]
      /\ cli'[m] = "sending" /\ cli' \in [M -> {"no", "sending", "sent"}]
      /\ \A x \in M \ {m} : rides'[x] = rides[x] /\ cli'[x] = cli[x]
  BY DEF DInv, DirectedTypeOK, CliReply
<1>5. /\ UNCHANGED <<said, answers, stage, missed, inherited, awaited, events, doubled, deaths>>
      /\ UNCHANGED <<posted, cursor>> \/ (posted' = said /\ cursor' = said)
      /\ injected' \subseteq injected /\ stranded' \subseteq M
      /\ UNCHANGED <<seen, again, remembered>> /\ cli[m] = "no"
      /\ again \cap remembered = {} /\ rides[m] \subseteq M
  BY DEF DInv, DirectedTypeOK, OnePlace, DirectedSources, CliReply, discord, boot
<1>6. Tending(m)
  BY <1>2, <1>3, <1>4, <1>5 DEF CliReply, Tending
<1>7. TurnStep(m)
  BY <1>1, <1>2, <1>3, <1>4, <1>5, <1>6 DEF TurnStep
<1>. QED BY <1>7, TurnStepKeeps

LEMMA PassKeeps == ASSUME DInv, NEW m \in M, Pass(m) PROVE DInv'
<1>1. LedgerStep /\ \A x \in M : owed'[x] # owed[x] => x \in {m} \cup rides[m]
  BY SettledStep, SettledStepOf DEF DInv, Pass
<1>2. \A x \in M : x \in {m} \cup rides[m] => owed'[x] = "no"
  BY SettledStep, SettledStepOf DEF DInv, Pass
<1>3. /\ course[m] = "live"
      /\ course'[m] = "no" /\ course' \in [M -> Courses]
      /\ \A x \in M \ {m} : course'[x] = course[x]
  BY DEF DInv, DirectedTypeOK, Pass, Courses
<1>4. /\ rides'[m] = {} /\ rides' \in [M -> SUBSET M]
      /\ cli' = cli /\ cli' \in [M -> {"no", "sending", "sent"}]
      /\ \A x \in M \ {m} : rides'[x] = rides[x] /\ cli'[x] = cli[x]
  BY DEF DInv, DirectedTypeOK, Pass
<1>5. /\ UNCHANGED <<said, answers, stage, missed, inherited, awaited, events, doubled, deaths>>
      /\ UNCHANGED <<posted, cursor>> \/ (posted' = said /\ cursor' = said)
      /\ injected' \subseteq injected /\ stranded' \subseteq M
      /\ UNCHANGED <<seen, again>> /\ remembered' = remembered \ rides[m]
      /\ again \cap remembered = {} /\ rides[m] \subseteq M
  BY DEF DInv, DirectedTypeOK, OnePlace, DirectedSources, Pass, discord, boot
<1>6. Tending(m)
  BY <1>2, <1>3, <1>4, <1>5 DEF Pass, Tending
<1>7. TurnStep(m)
  BY <1>1, <1>2, <1>3, <1>4, <1>5, <1>6 DEF TurnStep
<1>. QED BY <1>7, TurnStepKeeps

LEMMA TurnRejectedKeeps == ASSUME DInv, NEW m \in M, TurnRejected(m) PROVE DInv'
<1>1. LedgerStep /\ \A x \in M : owed'[x] # owed[x] => x \in {m}
  BY StampedStep, StampedStepOf DEF DInv, TurnRejected
<1>2. \A x \in M : x \in {m} => owed'[x] # "queued"
  BY StampedStep, StampedStepOf DEF DInv, TurnRejected
<1>3. /\ course[m] = "live"
      /\ course'[m] = "sorry" /\ course' \in [M -> Courses]
      /\ \A x \in M \ {m} : course'[x] = course[x]
  BY DEF DInv, DirectedTypeOK, TurnRejected, Courses
<1>4. /\ rides' = rides /\ rides' \in [M -> SUBSET M]
      /\ cli' = cli /\ cli' \in [M -> {"no", "sending", "sent"}]
      /\ \A x \in M \ {m} : rides'[x] = rides[x] /\ cli'[x] = cli[x]
  BY DEF DInv, DirectedTypeOK, TurnRejected
<1>5. /\ UNCHANGED <<said, answers, stage, missed, inherited, awaited, events, doubled, deaths>>
      /\ UNCHANGED <<posted, cursor>> \/ (posted' = said /\ cursor' = said)
      /\ injected' \subseteq injected /\ stranded' \subseteq M
      /\ UNCHANGED <<seen, again, remembered>>
      /\ again \cap remembered = {} /\ rides[m] \subseteq M
  BY DEF DInv, DirectedTypeOK, OnePlace, DirectedSources, TurnRejected, discord, boot
<1>6. Tending(m)
  BY <1>2, <1>3, <1>4, <1>5 DEF TurnRejected, Tending
<1>7. TurnStep(m)
  BY <1>1, <1>2, <1>3, <1>4, <1>5, <1>6 DEF TurnStep
<1>. QED BY <1>7, TurnStepKeeps

LEMMA PostRejectedKeeps == ASSUME DInv, NEW m \in M, PostRejected(m) PROVE DInv'
<1>1. LedgerStep
  BY SameStep DEF DInv, PostRejected, books
<1>2. UNCHANGED owed
  BY DEF PostRejected, books
<1>3. /\ course[m] = "posting"
      /\ course'[m] = "sorry" /\ course' \in [M -> Courses]
      /\ \A x \in M \ {m} : course'[x] = course[x]
  BY DEF DInv, DirectedTypeOK, PostRejected, Courses
<1>4. /\ rides'[m] = {} /\ rides' \in [M -> SUBSET M]
      /\ cli' = cli /\ cli' \in [M -> {"no", "sending", "sent"}]
      /\ \A x \in M \ {m} : rides'[x] = rides[x] /\ cli'[x] = cli[x]
  BY DEF DInv, DirectedTypeOK, PostRejected
<1>5. /\ UNCHANGED <<said, answers, stage, missed, inherited, awaited, events, doubled, deaths>>
      /\ UNCHANGED <<posted, cursor>> \/ (posted' = said /\ cursor' = said)
      /\ injected' \subseteq injected /\ stranded' \subseteq M
      /\ UNCHANGED <<seen, again, remembered>>
      /\ again \cap remembered = {} /\ rides[m] \subseteq M
      /\ cli[m] = "no"
  BY DEF DInv, DirectedTypeOK, OnePlace, DirectedSources, PostRejected, discord, boot
<1>6. Tending(m)
  BY <1>2, <1>3, <1>4, <1>5 DEF PostRejected, Tending
<1>7. TurnStep(m)
  BY <1>1, <1>2, <1>3, <1>4, <1>5, <1>6 DEF TurnStep
<1>. QED BY <1>7, TurnStepKeeps

LEMMA DoneKeeps == ASSUME DInv, NEW m \in M, Done(m) PROVE DInv'
<1>1. LedgerStep /\ \A x \in M : owed'[x] # owed[x] => x \in {m} \cup rides[m]
  BY SettledStep, SettledStepOf DEF DInv, Done
<1>2. \A x \in M : x \in {m} \cup rides[m] => owed'[x] = "no"
  BY SettledStep, SettledStepOf DEF DInv, Done
<1>3. /\ course[m] = "posted"
      /\ course'[m] = "no" /\ course' \in [M -> Courses]
      /\ \A x \in M \ {m} : course'[x] = course[x]
  BY DEF DInv, DirectedTypeOK, Done, Courses
<1>4. /\ rides'[m] = {} /\ rides' \in [M -> SUBSET M]
      /\ cli' = cli /\ cli' \in [M -> {"no", "sending", "sent"}]
      /\ \A x \in M \ {m} : rides'[x] = rides[x] /\ cli'[x] = cli[x]
  BY DEF DInv, DirectedTypeOK, Done
<1>5. /\ UNCHANGED <<said, answers, stage, missed, inherited, awaited, events, doubled, deaths>>
      /\ UNCHANGED <<posted, cursor>> \/ (posted' = said /\ cursor' = said)
      /\ injected' \subseteq injected /\ stranded' \subseteq M
      /\ UNCHANGED <<seen, again, remembered>>
      /\ again \cap remembered = {} /\ rides[m] \subseteq M
  BY DEF DInv, DirectedTypeOK, OnePlace, DirectedSources, Done, discord, boot
<1>6. Tending(m)
  BY <1>2, <1>3, <1>4, <1>5 DEF Done, Tending
<1>7. TurnStep(m)
  BY <1>1, <1>2, <1>3, <1>4, <1>5, <1>6 DEF TurnStep
<1>. QED BY <1>7, TurnStepKeeps

LEMMA FixedLineKeeps == ASSUME DInv, NEW m \in M, FixedLine(m) PROVE DInv'
<1>1. LedgerStep /\ \A x \in M : owed'[x] # owed[x] => x \in {m}
  BY SettledStep, SettledStepOf DEF DInv, FixedLine
<1>2. \A x \in M : x \in {m} => owed'[x] = "no"
  BY SettledStep, SettledStepOf DEF DInv, FixedLine
<1>3. /\ course[m] \in {"notice", "sorry", "giveup"}
      /\ course'[m] = "no" /\ course' \in [M -> Courses]
      /\ \A x \in M \ {m} : course'[x] = course[x]
  BY DEF DInv, DirectedTypeOK, FixedLine, Courses
<1>4. /\ rides'[m] = {} /\ rides' \in [M -> SUBSET M]
      /\ cli' = cli /\ cli' \in [M -> {"no", "sending", "sent"}]
      /\ \A x \in M \ {m} : rides'[x] = rides[x] /\ cli'[x] = cli[x]
  BY DEF DInv, DirectedTypeOK, FixedLine
<1>5. /\ UNCHANGED <<said, answers, stage, missed, inherited, awaited, events, doubled, deaths>>
      /\ UNCHANGED <<posted, cursor>> \/ (posted' = said /\ cursor' = said)
      /\ injected' \subseteq injected /\ stranded' \subseteq M
      /\ again' = again \cup HandedBack(m) /\ seen' = seen \ HandedBack(m) /\ remembered' = remembered \ HandedBack(m)
      /\ HandedBack(m) = rides[m] \cap remembered
      /\ again \cap remembered = {} /\ rides[m] \subseteq M
  BY DEF DInv, DirectedTypeOK, OnePlace, DirectedSources, FixedLine, discord, boot, HandedBack
<1>6. Tending(m)
  BY <1>2, <1>3, <1>4, <1>5 DEF FixedLine, Tending, HandedBack
<1>7. TurnStep(m)
  BY <1>1, <1>2, <1>3, <1>4, <1>5, <1>6 DEF TurnStep
<1>. QED BY <1>7, TurnStepKeeps

LEMMA AnswerKeeps == ASSUME DInv, NEW m \in M, Answer(m) PROVE DInv'
<1>1. CASE cli[m] = "no"
  <2>1. LedgerStep /\ \A x \in M : owed'[x] # owed[x] => x \in {m} \cup rides[m]
    BY <1>1, StampedStep, StampedStepOf DEF DInv, Answer
  <2>2. \A x \in M : x \in {m} \cup rides[m] => owed'[x] # "queued"
    BY <1>1, StampedStep, StampedStepOf DEF DInv, Answer
  <2>3. /\ course[m] = "live"
        /\ course'[m] = "posting" /\ course' \in [M -> Courses]
        /\ \A x \in M \ {m} : course'[x] = course[x]
    BY <1>1 DEF DInv, DirectedTypeOK, Answer, Courses
  <2>4. /\ rides' = rides /\ rides' \in [M -> SUBSET M]
        /\ cli' = cli /\ cli' \in [M -> {"no", "sending", "sent"}]
        /\ \A x \in M \ {m} : rides'[x] = rides[x] /\ cli'[x] = cli[x]
    BY <1>1 DEF DInv, DirectedTypeOK, Answer
  <2>5. /\ UNCHANGED <<said, answers, stage, missed, inherited, awaited, events, doubled, deaths>>
        /\ UNCHANGED <<posted, cursor>> \/ (posted' = said /\ cursor' = said)
        /\ injected' \subseteq injected /\ stranded' \subseteq M
        /\ UNCHANGED <<seen, again>> /\ remembered' = remembered \ rides[m] /\ cli[m] = "no"
        /\ again \cap remembered = {} /\ rides[m] \subseteq M
    BY <1>1 DEF DInv, DirectedTypeOK, OnePlace, DirectedSources, Answer, discord, boot
  <2>6. Tending(m)
    BY <1>1, <2>2, <2>3, <2>4, <2>5 DEF Answer, Tending
  <2>7. TurnStep(m)
    BY <1>1, <2>1, <2>2, <2>3, <2>4, <2>5, <2>6 DEF TurnStep
  <2>. QED BY <2>7, TurnStepKeeps
<1>2. CASE cli[m] # "no"
  <2>1. LedgerStep /\ \A x \in M : owed'[x] # owed[x] => x \in {m} \cup rides[m]
    BY <1>2, SettledStep, SettledStepOf DEF DInv, Answer
  <2>2. \A x \in M : x \in {m} \cup rides[m] => owed'[x] = "no"
    BY <1>2, SettledStep, SettledStepOf DEF DInv, Answer
  <2>3. /\ course[m] = "live"
        /\ course'[m] = "no" /\ course' \in [M -> Courses]
        /\ \A x \in M \ {m} : course'[x] = course[x]
    BY <1>2 DEF DInv, DirectedTypeOK, Answer, Courses
  <2>4. /\ rides'[m] = {} /\ rides' \in [M -> SUBSET M]
        /\ cli' = cli /\ cli' \in [M -> {"no", "sending", "sent"}]
        /\ \A x \in M \ {m} : rides'[x] = rides[x] /\ cli'[x] = cli[x]
    BY <1>2 DEF DInv, DirectedTypeOK, Answer
  <2>5. /\ UNCHANGED <<said, answers, stage, missed, inherited, awaited, events, doubled, deaths>>
        /\ UNCHANGED <<posted, cursor>> \/ (posted' = said /\ cursor' = said)
        /\ injected' \subseteq injected /\ stranded' \subseteq M
        /\ UNCHANGED <<seen, again>> /\ remembered' = remembered \ rides[m]
        /\ again \cap remembered = {} /\ rides[m] \subseteq M
    BY <1>2 DEF DInv, DirectedTypeOK, OnePlace, DirectedSources, Answer, discord, boot
  <2>6. Tending(m)
    BY <1>2, <2>2, <2>3, <2>4, <2>5 DEF Answer, Tending
  <2>7. TurnStep(m)
    BY <1>2, <2>1, <2>2, <2>3, <2>4, <2>5, <2>6 DEF TurnStep
  <2>. QED BY <2>7, TurnStepKeeps
<1>. QED BY <1>1, <1>2

LEMMA LostTurnKeeps == ASSUME DInv, NEW m \in M, LostTurn(m) PROVE DInv'
<1>1. CASE cli[m] = "no"
  <2>1. LedgerStep /\ \A x \in M : owed'[x] # owed[x] => x \in {m}
    BY <1>1, StampedStep, StampedStepOf DEF DInv, LostTurn
  <2>2. \A x \in M : x \in {m} => owed'[x] # "queued"
    BY <1>1, StampedStep, StampedStepOf DEF DInv, LostTurn
  <2>3. /\ course[m] = "live"
        /\ course'[m] = "line" /\ course' \in [M -> Courses]
        /\ \A x \in M \ {m} : course'[x] = course[x]
    BY <1>1 DEF DInv, DirectedTypeOK, LostTurn, Courses
  <2>4. /\ rides' = rides /\ rides' \in [M -> SUBSET M]
        /\ cli' = cli /\ cli' \in [M -> {"no", "sending", "sent"}]
        /\ \A x \in M \ {m} : rides'[x] = rides[x] /\ cli'[x] = cli[x]
    BY <1>1 DEF DInv, DirectedTypeOK, LostTurn
  <2>5. /\ UNCHANGED <<said, answers, stage, missed, inherited, awaited, events, doubled, deaths>>
        /\ UNCHANGED <<posted, cursor>> \/ (posted' = said /\ cursor' = said)
        /\ injected' \subseteq injected /\ stranded' \subseteq M
        /\ UNCHANGED <<seen, again, remembered>>
        /\ again \cap remembered = {} /\ rides[m] \subseteq M
    BY <1>1 DEF DInv, DirectedTypeOK, OnePlace, DirectedSources, LostTurn, discord, boot
  <2>6. Tending(m)
    BY <1>1, <2>2, <2>3, <2>4, <2>5 DEF LostTurn, Tending
  <2>7. TurnStep(m)
    BY <1>1, <2>1, <2>2, <2>3, <2>4, <2>5, <2>6 DEF TurnStep
  <2>. QED BY <2>7, TurnStepKeeps
<1>2. CASE cli[m] # "no"
  <2>1. LedgerStep /\ \A x \in M : owed'[x] # owed[x] => x \in {m}
    BY <1>2, SettledStep, SettledStepOf DEF DInv, LostTurn
  <2>2. \A x \in M : x \in {m} => owed'[x] = "no"
    BY <1>2, SettledStep, SettledStepOf DEF DInv, LostTurn
  <2>3. /\ course[m] = "live"
        /\ course'[m] = "no" /\ course' \in [M -> Courses]
        /\ \A x \in M \ {m} : course'[x] = course[x]
    BY <1>2 DEF DInv, DirectedTypeOK, LostTurn, Courses
  <2>4. /\ rides'[m] = {} /\ rides' \in [M -> SUBSET M]
        /\ cli' = cli /\ cli' \in [M -> {"no", "sending", "sent"}]
        /\ \A x \in M \ {m} : rides'[x] = rides[x] /\ cli'[x] = cli[x]
    BY <1>2 DEF DInv, DirectedTypeOK, LostTurn
  <2>5. /\ UNCHANGED <<said, answers, stage, missed, inherited, awaited, events, doubled, deaths>>
        /\ UNCHANGED <<posted, cursor>> \/ (posted' = said /\ cursor' = said)
        /\ injected' \subseteq injected /\ stranded' \subseteq M
        /\ UNCHANGED <<seen, again, remembered>>
        /\ again \cap remembered = {} /\ rides[m] \subseteq M
    BY <1>2 DEF DInv, DirectedTypeOK, OnePlace, DirectedSources, LostTurn, discord, boot
  <2>6. Tending(m)
    BY <1>2, <2>2, <2>3, <2>4, <2>5 DEF LostTurn, Tending
  <2>7. TurnStep(m)
    BY <1>2, <2>1, <2>2, <2>3, <2>4, <2>5, <2>6 DEF TurnStep
  <2>. QED BY <2>7, TurnStepKeeps
<1>. QED BY <1>1, <1>2

LEMMA LineEndsKeeps == ASSUME DInv, NEW m \in M, LineEnds(m) PROVE DInv'
<1>1. CASE /\ course' = [course EXCEPT ![m] = "no"]
               /\ posted' = said /\ cursor' = said
               /\ Books(SettledIn({m}, owed))
               /\ stranded' = stranded \cup rides[m]
               /\ rides' = [rides EXCEPT ![m] = {}]
  <2>1. LedgerStep /\ \A x \in M : owed'[x] # owed[x] => x \in {m}
    BY <1>1, SettledStep, SettledStepOf DEF DInv, LineEnds
  <2>2. \A x \in M : x \in {m} => owed'[x] = "no"
    BY <1>1, SettledStep, SettledStepOf DEF DInv, LineEnds
  <2>3. /\ course[m] = "line"
        /\ course'[m] = "no" /\ course' \in [M -> Courses]
        /\ \A x \in M \ {m} : course'[x] = course[x]
    BY <1>1 DEF DInv, DirectedTypeOK, LineEnds, Courses
  <2>4. /\ rides'[m] = {} /\ rides' \in [M -> SUBSET M]
        /\ cli' = cli /\ cli' \in [M -> {"no", "sending", "sent"}]
        /\ \A x \in M \ {m} : rides'[x] = rides[x] /\ cli'[x] = cli[x]
    BY <1>1 DEF DInv, DirectedTypeOK, LineEnds
  <2>5. /\ UNCHANGED <<said, answers, stage, missed, inherited, awaited, events, doubled, deaths>>
        /\ UNCHANGED <<posted, cursor>> \/ (posted' = said /\ cursor' = said)
        /\ injected' \subseteq injected /\ stranded' \subseteq M
        /\ UNCHANGED <<seen, again, remembered>>
        /\ again \cap remembered = {} /\ rides[m] \subseteq M
    BY <1>1 DEF DInv, DirectedTypeOK, OnePlace, DirectedSources, LineEnds, discord, boot
  <2>6. Tending(m)
    BY <1>1, <2>2, <2>3, <2>4, <2>5 DEF LineEnds, Tending
  <2>7. TurnStep(m)
    BY <1>1, <2>1, <2>2, <2>3, <2>4, <2>5, <2>6 DEF TurnStep
  <2>. QED BY <2>7, TurnStepKeeps
<1>2. CASE /\ course' = [course EXCEPT ![m] = "sorry"]
               /\ UNCHANGED <<posted, cursor, books, stranded, rides>>
  <2>1. LedgerStep
    BY <1>2, SameStep DEF DInv, LineEnds, books
  <2>2. UNCHANGED owed
    BY <1>2 DEF LineEnds, books
  <2>3. /\ course[m] = "line"
        /\ course'[m] = "sorry" /\ course' \in [M -> Courses]
        /\ \A x \in M \ {m} : course'[x] = course[x]
    BY <1>2 DEF DInv, DirectedTypeOK, LineEnds, Courses
  <2>4. /\ rides' = rides /\ rides' \in [M -> SUBSET M]
        /\ cli' = cli /\ cli' \in [M -> {"no", "sending", "sent"}]
        /\ \A x \in M \ {m} : rides'[x] = rides[x] /\ cli'[x] = cli[x]
    BY <1>2 DEF DInv, DirectedTypeOK, LineEnds
  <2>5. /\ UNCHANGED <<said, answers, stage, missed, inherited, awaited, events, doubled, deaths>>
        /\ UNCHANGED <<posted, cursor>> \/ (posted' = said /\ cursor' = said)
        /\ injected' \subseteq injected /\ stranded' \subseteq M
        /\ UNCHANGED <<seen, again, remembered>>
        /\ again \cap remembered = {} /\ rides[m] \subseteq M
    BY <1>2 DEF DInv, DirectedTypeOK, OnePlace, DirectedSources, LineEnds, discord, boot
  <2>6. Tending(m)
    BY <1>2, <2>2, <2>3, <2>4, <2>5 DEF LineEnds, Tending
  <2>7. TurnStep(m)
    BY <1>2, <2>1, <2>2, <2>3, <2>4, <2>5, <2>6 DEF TurnStep
  <2>. QED BY <2>7, TurnStepKeeps
<1>. QED BY <1>1, <1>2 DEF LineEnds

-----------------------------------------------------------------------------
(* The steps that are not of a turn *)

LEMMA SayKeeps == ASSUME DInv, Say PROVE DInv'
<1>. USE DirectedAssumption DEF M, Say, books, boot, turns
<1>1. DirectedTypeOK'
  BY DEF DInv, DirectedTypeOK
<1>2. OnePlace'
  BY DEF DInv, DirectedTypeOK, OnePlace, Cleared, KnownSaid, DirectedSources
<1>3. KnownSaid'
  BY DEF DInv, DirectedTypeOK, KnownSaid, Cleared, DirectedSources
<1>4. LedgerTrue'
  BY DEF DInv, DirectedTypeOK, LedgerTrue, KnownSaid
<1>5. ReplaysSpent'
  BY DEF DInv, DirectedTypeOK, ReplaysSpent
<1>6. Cleared'
  BY DEF DInv, DirectedTypeOK, Cleared, DirectedSources
<1>7. RidesOnce'
  BY DEF DInv, DirectedTypeOK, RidesOnce, KnownSaid, DirectedSources
<1>8. AnsweredFinally'
  BY DEF DInv, DirectedTypeOK, AnsweredFinally, KnownSaid, Pending
<1>9. DebtsTended'
  BY DEF DInv, DebtsTended, Tended
<1>. QED BY <1>1, <1>2, <1>3, <1>4, <1>5, <1>6, <1>7, <1>8, <1>9 DEF DInv

LEMMA BootKeeps == ASSUME DInv, Boot PROVE DInv'
<1>. USE DirectedAssumption DEF M, Boot, discord, books, turns
<1>1. DirectedTypeOK'
  BY DEF DInv, DirectedTypeOK
<1>0. /\ events = {} /\ missed' = {x \in 1..said : x > cursor} /\ inherited' = {x \in M : owed[x] # "no"}
      /\ again = {} /\ remembered = {}
      /\ \A x \in M : course[x] = "no" /\ cli[x] = "no"
  BY DEF DInv, Cleared, DirectedSources
<1>a. missed' \cap inherited' = {}
  BY <1>0 DEF DInv, KnownSaid, DirectedTypeOK
<1>2. OnePlace'
  BY <1>0, <1>a, <1>1 DEF DInv, OnePlace, DirectedSources, DirectedTypeOK
<1>3. KnownSaid'
  BY DEF DInv, DirectedTypeOK, KnownSaid, Cleared, DirectedSources
<1>4. LedgerTrue'
  <2>1. \A x \in M : rides[x] = {}
    BY <1>0 DEF DInv, OnePlace
  <2>. QED BY <1>0, <2>1 DEF DInv, DirectedTypeOK, LedgerTrue, KnownSaid, Cleared
<1>5. ReplaysSpent'
  BY <1>0 DEF DInv, DirectedTypeOK, ReplaysSpent, LedgerTrue
<1>6. Cleared'
  BY DEF DInv, DirectedTypeOK, Cleared
<1>7. RidesOnce'
  BY DEF DInv, DirectedTypeOK, RidesOnce, OnePlace, Cleared, DirectedSources
<1>8. AnsweredFinally'
  BY DEF DInv, DirectedTypeOK, AnsweredFinally, KnownSaid, Cleared, DirectedSources, Pending
<1>9. DebtsTended'
  BY DEF DebtsTended
<1>. QED BY <1>1, <1>2, <1>3, <1>4, <1>5, <1>6, <1>7, <1>8, <1>9 DEF DInv

LEMMA ServeKeeps == ASSUME DInv, Serve PROVE DInv'
<1>. USE DirectedAssumption DEF M, Serve, discord, books, turns
<1>1. DirectedTypeOK'
  BY DEF DInv, DirectedTypeOK
<1>2. OnePlace'
  BY DEF DInv, OnePlace, DirectedSources
<1>3. KnownSaid'
  BY DEF DInv, KnownSaid, DirectedSources
<1>4. LedgerTrue'
  BY DEF DInv, DirectedTypeOK, LedgerTrue
<1>5. ReplaysSpent'
  BY DEF DInv, ReplaysSpent
<1>6. Cleared'
  BY DEF DInv, Cleared
<1>7. RidesOnce'
  BY DEF DInv, RidesOnce, DirectedSources
<1>8. AnsweredFinally'
  BY DEF DInv, AnsweredFinally, Pending
<1>9. DebtsTended'
  BY DEF DInv, DebtsTended, Tended
<1>. QED BY <1>1, <1>2, <1>3, <1>4, <1>5, <1>6, <1>7, <1>8, <1>9 DEF DInv

LEMMA DiesKeeps == ASSUME DInv, Dies PROVE DInv'
<1>. USE DirectedAssumption DEF M, Dies, discord, books
<1>1. DirectedTypeOK'
  BY DEF DInv, DirectedTypeOK, Courses
<1>2. OnePlace'
  BY DEF OnePlace, DirectedSources
<1>3. KnownSaid'
  BY DEF DInv, KnownSaid, DirectedSources
<1>4. LedgerTrue'
  BY DEF DInv, DirectedTypeOK, LedgerTrue
<1>5. ReplaysSpent'
  <2>1. deaths \in Nat /\ \A x \in M : replays[x] \in Nat /\ replays[x] <= deaths
    BY DEF DInv, DirectedTypeOK, ReplaysSpent
  <2>2. deaths' = deaths + 1 /\ replays' = replays /\ stage' = "down"
    OBVIOUS
  <2>. QED BY <2>1, <2>2 DEF ReplaysSpent
<1>6. Cleared'
  BY DEF Cleared, DirectedSources
<1>7. RidesOnce'
  BY DEF RidesOnce
<1>8. AnsweredFinally'
  BY DEF DInv, AnsweredFinally, Pending
<1>9. DebtsTended'
  BY DEF DebtsTended
<1>. QED BY <1>1, <1>2, <1>3, <1>4, <1>5, <1>6, <1>7, <1>8, <1>9 DEF DInv

LEMMA OrphanKeeps == ASSUME DInv, Orphan PROVE DInv'
<1>. USE DEF Orphan, discord, books, boot
<1>1. DirectedTypeOK'
  BY DEF DInv, DirectedTypeOK
<1>2. OnePlace'
  BY DEF DInv, OnePlace, DirectedSources
<1>3. KnownSaid'
  BY DEF DInv, KnownSaid, DirectedSources
<1>4. LedgerTrue'
  BY DEF DInv, DirectedTypeOK, LedgerTrue
<1>5. ReplaysSpent'
  BY DEF DInv, ReplaysSpent
<1>6. Cleared'
  BY DEF DInv, Cleared, DirectedSources
<1>7. RidesOnce'
  BY DEF DInv, DirectedTypeOK, RidesOnce, DirectedSources
<1>8. AnsweredFinally'
  BY DEF DInv, DirectedTypeOK, AnsweredFinally, Pending
<1>9. DebtsTended'
  <2> SUFFICES ASSUME stage' # "down", NEW k \in M \ stranded', owed'[k] # "no"
               PROVE  k \in inherited' \cup again' \/ Tended(k)'
    BY DEF DebtsTended
  <2>1. CASE k \in injected \cap remembered
    BY <2>1
  <2>2. CASE k \notin injected \cap remembered
    <3>1. k \in inherited \cup again \/ Tended(k)
      BY <2>2 DEF DInv, DebtsTended
    <3>2. Tended(k) => Tended(k)'
      BY <2>2 DEF Tended
    <3>. QED BY <3>1, <3>2
  <2>. QED BY <2>1, <2>2
<1>. QED BY <1>1, <1>2, <1>3, <1>4, <1>5, <1>6, <1>7, <1>8, <1>9 DEF DInv

LEMMA ReplayEndsKeeps == ASSUME DInv, ReplayEnds PROVE DInv'
<1>0. /\ LedgerStep /\ \A x \in M : owed'[x] # owed[x] => x = awaited /\ owed'[x] = "no"
      /\ UNCHANGED <<said, posted, answers, cursor, stage, missed, inherited, events, seen, again, course, rides, cli,
                     injected, remembered, stranded, doubled, deaths>>
      /\ awaited' = 0 /\ stage # "down"
  <2>1. Books(SettledIn({awaited}, owed)) BY DEF ReplayEnds
  <2>2. LedgerStep /\ \A x \in M : owed'[x] # owed[x] => x = awaited /\ owed'[x] = "no"
    BY <2>1, SettledStep DEF DInv
  <2>. QED BY <2>2 DEF ReplayEnds, discord, turns
<1>1. DirectedTypeOK'
  <2>1. \A x \in M : course'[x] # "no" /\ course'[x] # "giveup" => replays'[x] <= MaxReplays
    BY <1>0, DirectedAssumption DEF DInv, DirectedTypeOK, LedgerStep
  <2>2. 0 \in 0..N BY DirectedAssumption
  <2>. QED BY <1>0, <2>1, <2>2 DEF DInv, DirectedTypeOK, LedgerStep
<1>2. OnePlace'
  BY <1>0 DEF DInv, DirectedTypeOK, OnePlace, DirectedSources
<1>3. KnownSaid'
  BY <1>0 DEF DInv, KnownSaid, DirectedSources
<1>4. LedgerTrue'
  <2>1. 0 \notin inherited BY DirectedAssumption DEF DInv, DirectedTypeOK, M
  <2>. QED BY <1>0, <2>1 DEF DInv, DirectedTypeOK, LedgerTrue, LedgerStep
<1>5. ReplaysSpent'
  BY <1>0, SpentKept DEF DInv
<1>6. Cleared'
  BY <1>0 DEF Cleared
<1>7. RidesOnce'
  BY <1>0 DEF DInv, RidesOnce, DirectedSources
<1>8. AnsweredFinally'
  BY <1>0 DEF DInv, AnsweredFinally, Pending, LedgerTrue
<1>9. DebtsTended'
  BY <1>0 DEF DInv, DebtsTended, Tended
<1>. QED BY <1>1, <1>2, <1>3, <1>4, <1>5, <1>6, <1>7, <1>8, <1>9 DEF DInv

LEMMA CliSentKeeps == ASSUME DInv, NEW m \in M, CliSent(m) PROVE DInv'
<1>. USE DirectedAssumption
<1>0. /\ UNCHANGED <<said, owed, replays, stage, missed, inherited, awaited, events, seen, again, course, rides,
                     injected, remembered, stranded, doubled, deaths>>
      /\ cli[m] = "sending" /\ cli' \in [M -> {"no", "sending", "sent"}] /\ cli'[m] \in {"no", "sent"}
      /\ answers' \in [M -> 0..2]
      /\ \A x \in M \ {m} : answers'[x] = answers[x] /\ cli'[x] = cli[x]
      /\ \/ answers' = answers /\ UNCHANGED <<posted, cursor>>
         \/ cli'[m] = "sent" /\ posted' = said /\ cursor' = said /\ (answers[m] = 0 => answers'[m] = 1)
  <2>1. CASE /\ cli' = [cli EXCEPT ![m] = "sent"]
             /\ answers' = [answers EXCEPT ![m] = IF @ < 2 THEN @ + 1 ELSE @]
             /\ posted' = said /\ cursor' = said
    <3>1. \A x \in M : answers[x] \in 0..2 BY DEF DInv, DirectedTypeOK
    <3>2. answers' = [answers EXCEPT ![m] = IF answers[m] < 2 THEN answers[m] + 1 ELSE answers[m]]
      BY <2>1
    <3>3. answers' \in [M -> 0..2] /\ (\A x \in M \ {m} : answers'[x] = answers[x]) /\ (answers[m] = 0 => answers'[m] = 1)
      BY <3>1, <3>2 DEF DInv, DirectedTypeOK
    <3>4. cli' \in [M -> {"no", "sending", "sent"}] /\ cli'[m] = "sent" /\ \A x \in M \ {m} : cli'[x] = cli[x]
      BY <2>1 DEF DInv, DirectedTypeOK
    <3>. QED BY <2>1, <3>3, <3>4 DEF CliSent, books, boot
  <2>2. CASE cli' = [cli EXCEPT ![m] = "no"] /\ UNCHANGED <<answers, posted, cursor>>
    <3>1. cli' \in [M -> {"no", "sending", "sent"}] /\ cli'[m] = "no" /\ \A x \in M \ {m} : cli'[x] = cli[x]
      BY <2>2 DEF DInv, DirectedTypeOK
    <3>2. answers' \in [M -> 0..2] BY <2>2 DEF DInv, DirectedTypeOK
    <3>. QED BY <2>2, <3>1, <3>2 DEF CliSent, books, boot
  <2>. QED BY <2>1, <2>2 DEF CliSent
<1>1. DirectedTypeOK'
  <2>1. cursor' \in posted'..said' /\ posted' \in 0..said' BY <1>0 DEF DInv, DirectedTypeOK
  <2>. QED BY <1>0, <2>1 DEF DInv, DirectedTypeOK
<1>2. OnePlace'
  BY <1>0 DEF DInv, DirectedTypeOK, OnePlace, DirectedSources
<1>3. KnownSaid'
  <2>1. posted' \in Nat /\ cursor' \in Nat /\ posted' >= posted /\ cursor' >= cursor /\ posted \in Nat /\ cursor \in Nat
    BY <1>0 DEF DInv, DirectedTypeOK
  <2>2. \A x \in M : owed'[x] # "no" => x <= cursor'
    BY <1>0, <2>1 DEF DInv, KnownSaid, M
  <2>3. \A x \in M : answers'[x] >= 1 => x <= posted'
    <3>1. m <= said BY <1>0 DEF DInv, KnownSaid
    <3>. QED BY <1>0, <2>1, <3>1 DEF DInv, KnownSaid, M
  <2>. QED BY <1>0, <2>2, <2>3 DEF DInv, KnownSaid, DirectedSources
<1>4. LedgerTrue'
  BY <1>0 DEF DInv, LedgerTrue
<1>5. ReplaysSpent'
  BY <1>0 DEF DInv, ReplaysSpent
<1>6. Cleared'
  BY <1>0 DEF DInv, Cleared, DirectedSources
<1>7. RidesOnce'
  BY <1>0 DEF DInv, RidesOnce, DirectedSources
<1>8. AnsweredFinally'
  <2> SUFFICES ASSUME NEW k \in M \ doubled, answers'[k] >= 1
               PROVE  /\ answers'[k] = 1
                      /\ owed[k] # "queued" /\ ~Pending(k)'
                      /\ k \notin events /\ k \notin missed /\ k \notin again /\ k \notin remembered
                      /\ k \in inherited => owed[k] = "delivering"
    BY <1>0 DEF AnsweredFinally
  <2>1. CASE k = m
    <3>1. answers[m] = 0 /\ answers'[m] = 1 /\ cli'[m] = "sent"
      <4>1. Pending(m) BY <1>0 DEF Pending
      <4>2. answers[m] \in 0..2 /\ ~(answers[m] >= 1) BY <2>1, <4>1 DEF DInv, DirectedTypeOK, AnsweredFinally
      <4>. QED BY <1>0, <2>1, <4>2
    <3>2. owed[m] # "queued" /\ ~(course[m] \in {"held", "queued", "posting"})
      BY <1>0 DEF DInv, LedgerTrue, OnePlace
    <3>3. m \notin DirectedSources /\ m \notin remembered /\ \A x \in M : m \notin rides[x]
      BY <1>0, <2>1 DEF DInv, OnePlace, RidesOnce
    <3>4. ~Pending(m)' BY <1>0, <3>1, <3>2, <3>3 DEF Pending
    <3>. QED BY <2>1, <3>1, <3>2, <3>3, <3>4 DEF DirectedSources
  <2>2. CASE k # m
    <3>1. answers'[k] = answers[k] /\ (Pending(k)' <=> Pending(k))
      BY <1>0, <2>2 DEF Pending
    <3>. QED BY <3>1 DEF DInv, AnsweredFinally
  <2>. QED BY <2>1, <2>2
<1>9. DebtsTended'
  BY <1>0 DEF DInv, DebtsTended, Tended
<1>. QED BY <1>1, <1>2, <1>3, <1>4, <1>5, <1>6, <1>7, <1>8, <1>9 DEF DInv

LEMMA PostLandsKeeps == ASSUME DInv, NEW m \in M, PostLands(m) PROVE DInv'
<1>. USE DirectedAssumption
<1>0. /\ UNCHANGED <<said, owed, replays, stage, missed, inherited, awaited, events, seen, again, rides, cli,
                     injected, remembered, stranded, doubled, deaths>>
      /\ posted' = said /\ cursor' = said
      /\ course[m] = "posting" /\ course'[m] = "posted" /\ \A x \in M \ {m} : course'[x] = course[x]
      /\ answers' \in [M -> 0..2]
      /\ \A x \in M : x \notin {m} \cup rides[m] => answers'[x] = answers[x]
      /\ \A x \in M : answers[x] = 0 => answers'[x] <= 1
      /\ course' \in [M -> Courses]
  <2>1. \A x \in M : answers[x] \in 0..2 BY DEF DInv, DirectedTypeOK
  <2>2. answers' = [x \in M |-> IF x \in {m} \cup rides[m] /\ answers[x] < 2 THEN answers[x] + 1 ELSE answers[x]]
    BY DEF PostLands
  <2>3. /\ answers' \in [M -> 0..2]
        /\ \A x \in M : x \notin {m} \cup rides[m] => answers'[x] = answers[x]
        /\ \A x \in M : answers[x] = 0 => answers'[x] <= 1
    BY <2>1, <2>2
  <2>. QED BY <2>3 DEF PostLands, books, boot, DInv, DirectedTypeOK, Courses
<1>1. DirectedTypeOK'
  <2>1. said \in 0..N BY DEF DInv, DirectedTypeOK
  <2>2. \A x \in M : course'[x] # "no" /\ course'[x] # "giveup" => replays'[x] <= MaxReplays
    BY <1>0 DEF DInv, DirectedTypeOK
  <2>. QED BY <1>0, <2>1, <2>2 DEF DInv, DirectedTypeOK
<1>2. OnePlace'
  BY <1>0 DEF DInv, DirectedTypeOK, OnePlace, DirectedSources
<1>3. KnownSaid'
  <2>1. said \in Nat /\ posted \in Nat /\ cursor \in Nat /\ posted <= said /\ cursor <= said
    BY DEF DInv, DirectedTypeOK
  <2>2. \A x \in M : owed'[x] # "no" => x <= cursor'
    BY <1>0, <2>1 DEF DInv, KnownSaid, M
  <2>3. \A x \in M : answers'[x] >= 1 => x <= posted'
    <3>1. \A x \in M : x \in {m} \cup rides[m] => x <= said BY <1>0 DEF DInv, KnownSaid
    <3>. QED BY <1>0, <2>1, <3>1 DEF DInv, KnownSaid, M
  <2>4. \A x \in M : course'[x] # "no" => x <= said
    BY <1>0 DEF DInv, KnownSaid
  <2>. QED BY <1>0, <2>2, <2>3, <2>4 DEF DInv, KnownSaid, DirectedSources
<1>4. LedgerTrue'
  BY <1>0 DEF DInv, LedgerTrue
<1>5. ReplaysSpent'
  BY <1>0 DEF DInv, ReplaysSpent
<1>6. Cleared'
  BY <1>0 DEF DInv, Cleared, DirectedSources
<1>7. RidesOnce'
  BY <1>0 DEF DInv, RidesOnce, DirectedSources
<1>8. AnsweredFinally'
  <2> SUFFICES ASSUME NEW k \in M \ doubled, answers'[k] >= 1
               PROVE  /\ answers'[k] = 1
                      /\ owed[k] # "queued" /\ ~Pending(k)'
                      /\ k \notin events /\ k \notin missed /\ k \notin again /\ k \notin remembered
                      /\ k \in inherited => owed[k] = "delivering"
    BY <1>0 DEF AnsweredFinally
  <2>1. CASE k \in {m} \cup rides[m]
    <3>1. answers'[k] = 1
      <4>1. Pending(k) BY <1>0, <2>1 DEF Pending
      <4>2. answers[k] \in 0..2 /\ ~(answers[k] >= 1) /\ answers'[k] \in 0..2
        BY <1>0, <4>1 DEF DInv, DirectedTypeOK, AnsweredFinally
      <4>3. answers[k] = 0 BY <4>2
      <4>. QED BY <1>0, <4>2, <4>3
    <3>2. owed[k] # "queued" /\ cli[k] = "no"
      BY <1>0, <2>1 DEF DInv, LedgerTrue, OnePlace, RidesOnce
    <3>3. k \notin DirectedSources /\ k \notin remembered
      BY <1>0, <2>1 DEF DInv, OnePlace, RidesOnce
    <3>4. ~Pending(k)'
      <4>1. CASE k = m
        <5>1. \A x \in M : k \notin rides[x] BY <1>0, <4>1 DEF DInv, RidesOnce
        <5>. QED BY <1>0, <3>2, <4>1, <5>1 DEF Pending
      <4>2. CASE k # m
        <5>1. course'[k] = "no" /\ \A x \in M : k \in rides[x] => x = m
          BY <1>0, <2>1, <4>2 DEF DInv, RidesOnce
        <5>. QED BY <1>0, <3>2, <5>1 DEF Pending
      <4>. QED BY <4>1, <4>2
    <3>. QED BY <3>1, <3>2, <3>3, <3>4 DEF DirectedSources
  <2>2. CASE k \notin {m} \cup rides[m]
    <3>1. answers'[k] = answers[k] /\ (Pending(k)' => Pending(k))
      BY <1>0, <2>2 DEF Pending
    <3>. QED BY <3>1 DEF DInv, AnsweredFinally
  <2>. QED BY <2>1, <2>2
<1>9. DebtsTended'
  <2>1. \A k \in M : Tended(k) => Tended(k)'
    BY <1>0 DEF Tended
  <2>. QED BY <1>0, <2>1 DEF DInv, DebtsTended
<1>. QED BY <1>1, <1>2, <1>3, <1>4, <1>5, <1>6, <1>7, <1>8, <1>9 DEF DInv

-----------------------------------------------------------------------------
(* A message is taken *)

\* Whoever takes a message sees to it, and to what was seen to before.
LeavesTended(m) ==
    /\ stranded \subseteq stranded' /\ Tended(m)'
    /\ \A k \in M \ {m} : Tended(k) /\ owed'[k] # "no" => k \in stranded' \/ Tended(k)'

\* What onMessage may do when it takes a message, whichever way: only the message itself becomes owed or
\* gets a turn, and at most one turn gets a rider.
TakeStep(m, spent) ==
    /\ owed' \in [M -> {"no", "queued", "delivering"}]
    /\ \A x \in M \ {m} : \/ owed'[x] = owed[x]
                          \/ owed[x] # "no" /\ owed'[x] = "delivering"
                          \/ owed'[x] = "no" /\ (course[x] # "no" \/ \E y \in M : x \in rides[y])
    /\ replays' \in [M -> 0..MaxReplays + MaxDeaths]
    /\ \A x \in M : replays'[x] <= spent[x] /\ (owed'[x] = "no" => replays'[x] = 0)
    /\ course' \in [M -> Courses] /\ course'[m] \in {"no", "held", "queued"}
    /\ \A x \in M \ {m} : course'[x] # course[x] =>
         course[x] \in {"held", "queued", "live"} /\ course'[x] \in {"no", "notice"}
    /\ rides' \in [M -> SUBSET M]
    /\ \A x \in M : course'[x] = "no" => rides'[x] = {}
    /\ \A x \in M \ {m} : rides'[x] \in {rides[x], {}} \/ (rides'[x] = rides[x] \cup {m} /\ course'[x] = "live" /\ course[x] = "live" /\ course'[m] = "no")
    /\ \A x, y \in M \ {m} : m \in rides'[x] \ rides[x] /\ m \in rides'[y] \ rides[y] => x = y
    /\ \/ rides'[m] = {}
       \/ \E h \in M \ {m} : /\ course[h] = "held" /\ course'[h] = "no" /\ course'[m] = "held"
                             /\ rides'[m] = rides[h] \cup {h}
    /\ \A x \in remembered' : \/ x \in remembered
                              \/ x = m /\ course'[m] = "no"
                              \/ x \in M \ {m} /\ course[x] = "held" /\ course'[x] = "no"
    /\ seen' \subseteq M /\ injected' \subseteq M /\ stranded' \subseteq M /\ remembered' \subseteq M
    /\ cli' \in [M -> {"no", "sending", "sent"}] /\ cli'[m] = "no" /\ \A x \in M \ {m} : cli'[x] = cli[x]
    /\ cursor' = IF cursor > m THEN cursor ELSE m
    /\ doubled' = doubled
    /\ LeavesTended(m)

\* ... and where the message came from: one of the lists, which it leaves, unanswered.
TakenFrom(m, spent) ==
    /\ m \in DirectedSources /\ m \notin DirectedSources'
    /\ events' \subseteq events /\ missed' \subseteq missed /\ inherited' = inherited \ {m} /\ again' = again \ {m}
    /\ stage # "down" /\ stage' = stage /\ deaths' = deaths /\ UNCHANGED <<said, posted, answers>>
    /\ awaited' \in 0..N /\ awaited' \notin inherited'
    /\ spent \in [M -> 0..MaxReplays + MaxDeaths] /\ \A x \in M \ {m} : spent[x] = replays[x]
    /\ spent[m] <= MaxReplays /\ spent[m] <= deaths
    /\ m \notin doubled => answers[m] = 0

\* A message that is taken from a list keeps the invariant, whichever way it is taken.
LEMMA TakeStepKeeps ==
    ASSUME DInv, NEW m \in M, NEW spent, TakenFrom(m, spent), TakeStep(m, spent)
    PROVE  DInv'
<1>. USE DirectedAssumption
<1>0. course[m] = "no" /\ cli[m] = "no" /\ rides[m] = {} /\ m \notin remembered
  BY DEF DInv, OnePlace, TakenFrom
<1>a. m \notin doubled => \A x \in M : m \notin rides[x]
  BY DEF DInv, RidesOnce, TakenFrom
<1>b. \A x \in M : owed'[x] = "queued" => x = m \/ owed[x] = "queued"
  BY DEF TakeStep
<1>1. DirectedTypeOK'
  <2>1. m \in Nat /\ m <= said /\ said \in Nat /\ cursor \in posted..said /\ posted \in 0..said
    BY DEF DInv, DirectedTypeOK, KnownSaid, TakenFrom, M
  <2>2. cursor' \in posted'..said' /\ posted' \in 0..said' /\ said' \in 0..N
    BY <2>1 DEF TakenFrom, TakeStep, DInv, DirectedTypeOK
  <2>3. \A x \in M : course'[x] # "no" /\ course'[x] # "giveup" => replays'[x] <= MaxReplays
    <3> SUFFICES ASSUME NEW x \in M, course'[x] # "no", course'[x] # "giveup" PROVE replays'[x] <= MaxReplays
      OBVIOUS
    <3>1. replays'[x] \in Nat /\ spent[x] \in Nat /\ replays'[x] <= spent[x] /\ MaxReplays \in Nat
      BY DEF TakenFrom, TakeStep
    <3>2. x # m => course[x] # "no" /\ course[x] # "giveup"
      BY DEF TakeStep
    <3>3. spent[x] <= MaxReplays
      BY <3>2 DEF TakenFrom, DInv, DirectedTypeOK
    <3>. QED BY <3>1, <3>3
  <2>4. events' \subseteq M /\ missed' \subseteq M /\ inherited' \subseteq M /\ again' \subseteq M
    BY DEF TakenFrom, DInv, DirectedTypeOK
  <2>. QED BY <2>2, <2>3, <2>4 DEF TakenFrom, TakeStep, DInv, DirectedTypeOK, Courses
<1>2. OnePlace'
  <2>1. (events \cap (missed \cup inherited \cup again) = {})' /\ (missed \cap (inherited \cup again) = {})'
        /\ (inherited \cap again = {})'
    BY DEF DInv, OnePlace, TakenFrom
  <2>2. DirectedSources' \subseteq DirectedSources /\ DirectedSources \subseteq M
    BY DEF TakenFrom, DirectedSources, DInv, DirectedTypeOK
  <2>3. (remembered \cap DirectedSources = {})'
    BY <2>2 DEF DInv, OnePlace, TakeStep, TakenFrom
  <2>4. \A x \in (DirectedSources \cup remembered)' : course'[x] = "no" /\ cli'[x] = "no"
    <3> SUFFICES ASSUME NEW x \in (DirectedSources \cup remembered)' PROVE course'[x] = "no" /\ cli'[x] = "no"
      OBVIOUS
    <3>1. CASE x \in DirectedSources \cup remembered
      BY <1>0, <2>2, <3>1 DEF DInv, OnePlace, TakeStep, TakenFrom, DirectedTypeOK
    <3>2. CASE x \notin DirectedSources \cup remembered
      BY <1>0, <2>2, <3>2 DEF DInv, OnePlace, TakeStep
    <3>. QED BY <3>1, <3>2
  <2>5. \A x \in M : course'[x] \in {"held", "queued", "posting"} => cli'[x] = "no"
    BY DEF DInv, OnePlace, TakeStep
  <2>6. \A x \in M : course'[x] = "no" => rides'[x] = {}
    BY DEF TakeStep
  <2>. QED BY <2>1, <2>3, <2>4, <2>5, <2>6 DEF OnePlace
<1>3. KnownSaid'
  <2>1. m \in Nat /\ m <= said /\ said \in Nat /\ cursor \in Nat /\ cursor' \in Nat /\ cursor' >= cursor /\ cursor' >= m
    BY DEF DInv, DirectedTypeOK, KnownSaid, TakenFrom, TakeStep, M
  <2>2. \A x \in M : (x \in DirectedSources' \/ x \in remembered' \/ course'[x] # "no" \/ cli'[x] # "no") => x <= said
    <3> SUFFICES ASSUME NEW x \in M, x # m,
                        x \in DirectedSources' \/ x \in remembered' \/ course'[x] # "no" \/ cli'[x] # "no"
                 PROVE  x <= said
      BY <2>1
    <3>1. x \in DirectedSources \/ x \in remembered \/ course[x] # "no" \/ cli[x] # "no"
      BY DEF TakenFrom, TakeStep, DirectedSources
    <3>. QED BY <3>1 DEF DInv, KnownSaid
  <2>3. \A x, k \in M : k \in rides'[x] => k <= said
    <3> SUFFICES ASSUME NEW x \in M, NEW k \in M, k \in rides'[x], k # m PROVE k <= said
      BY <2>1
    <3>1. (\E y \in M : k \in rides[y]) \/ course[k] # "no"
      BY DEF TakeStep
    <3>. QED BY <3>1 DEF DInv, KnownSaid
  <2>4. \A x \in M : owed'[x] # "no" => x <= cursor'
    <3> SUFFICES ASSUME NEW x \in M, owed'[x] # "no", x # m PROVE x <= cursor'
      BY <2>1
    <3>1. x <= cursor BY DEF DInv, KnownSaid, TakeStep
    <3>. QED BY <2>1, <3>1 DEF M
  <2>5. \A x \in M : answers'[x] >= 1 => x <= posted'
    BY DEF DInv, KnownSaid, TakenFrom
  <2>. QED BY <2>2, <2>3, <2>4, <2>5 DEF KnownSaid, TakenFrom
<1>4. LedgerTrue'
  <2>1. \A x \in events' \cup missed' : owed'[x] = "no"
    <3> SUFFICES ASSUME NEW x \in events' \cup missed' PROVE owed'[x] = "no"
      OBVIOUS
    <3>1. x \in M \ {m} /\ owed[x] = "no" BY DEF DInv, DirectedTypeOK, LedgerTrue, TakenFrom, DirectedSources
    <3>. QED BY <3>1 DEF TakeStep
  <2>2. \A x \in M : course'[x] = "posting" \/ cli'[x] = "sending" => owed'[x] # "queued"
    BY <1>b DEF DInv, LedgerTrue, TakeStep
  <2>3. ASSUME NEW x \in inherited' PROVE owed'[x] # "no" /\ \A y \in M : x \notin rides'[y]
    <3>1. /\ x \in M \ {m} /\ x \in inherited /\ course[x] = "no" /\ owed[x] # "no" /\ \A y \in M : x \notin rides[y]
      BY <2>3 DEF DInv, DirectedTypeOK, OnePlace, LedgerTrue, TakenFrom, DirectedSources
    <3>. QED BY <3>1 DEF TakeStep
  <2>4. (\A x \in M : owed'[x] = "no" => replays'[x] = 0) /\ awaited' \notin inherited'
    BY DEF TakenFrom, TakeStep
  <2>. QED BY <2>1, <2>2, <2>3, <2>4 DEF LedgerTrue
<1>5. ReplaysSpent'
  <2>1. \A x \in M : replays'[x] \in Nat /\ replays[x] \in Nat /\ spent[x] \in Nat /\ replays'[x] <= spent[x]
    BY DEF TakenFrom, TakeStep, DInv, DirectedTypeOK
  <2>2. deaths \in Nat /\ MaxReplays \in Nat
    BY DEF DInv, DirectedTypeOK
  <2>3. \A x \in M : replays'[x] <= deaths
    BY <2>1, <2>2 DEF TakenFrom, DInv, ReplaysSpent
  <2>4. \A x \in M : x \in inherited' => replays'[x] < deaths
    BY <2>1, <2>2 DEF TakenFrom, DInv, ReplaysSpent, DirectedSources
  <2>5. \A x \in M : x \in inherited' \/ course'[x] = "giveup" \/ replays'[x] <= MaxReplays
    <3> SUFFICES ASSUME NEW x \in M, x \notin inherited', course'[x] # "giveup" PROVE replays'[x] <= MaxReplays
      OBVIOUS
    <3>1. CASE x = m
      BY <2>1, <2>2, <3>1 DEF TakenFrom
    <3>2. CASE x # m
      BY <2>1, <2>2, <3>2 DEF TakenFrom, TakeStep, DInv, ReplaysSpent
    <3>. QED BY <3>1, <3>2
  <2>. QED BY <2>3, <2>4, <2>5 DEF ReplaysSpent, TakenFrom
<1>6. Cleared'
  BY DEF Cleared, TakenFrom
<1>7. RidesOnce'
  <2> SUFFICES ASSUME NEW k \in M \ doubled, NEW x \in M, k \in rides'[x]
               PROVE  /\ \A y \in M : k \in rides'[y] => y = x
                      /\ course'[k] = "no" /\ cli'[k] = "no" /\ k \notin DirectedSources'
                      /\ course'[x] \in {"posting", "posted"} => k \notin remembered'
                      /\ course'[x] = "posting" => owed'[k] # "queued"
    BY DEF RidesOnce, DirectedSources, TakeStep
  <2>1. CASE k = m
    <3>1. x # m /\ m \in rides'[x] \ rides[x] /\ course'[x] = "live" /\ course'[m] = "no"
      BY <1>0, <1>a, <2>1 DEF TakeStep, DInv, RidesOnce
    <3>2. \A y \in M : m \in rides'[y] => y # m /\ m \in rides'[y] \ rides[y]
      BY <1>0, <1>a, <2>1 DEF TakeStep, DInv, RidesOnce
    <3>3. \A y \in M : m \in rides'[y] => y = x
      BY <3>1, <3>2 DEF TakeStep
    <3>. QED BY <2>1, <3>1, <3>3 DEF TakeStep, TakenFrom
  <2>2. CASE k # m /\ x = m
    <3>1. PICK h \in M \ {m} : /\ course[h] = "held" /\ course'[h] = "no" /\ course'[m] = "held"
                               /\ rides'[m] = rides[h] \cup {h}
      BY <2>2 DEF TakeStep
    <3>2. \A y \in M : k \in rides'[y] => y = m
      <4>1. CASE k = h
        BY <1>0, <2>2, <3>1, <4>1 DEF DInv, RidesOnce, TakeStep
      <4>2. CASE k \in rides[h]
        BY <1>0, <2>2, <3>1, <4>2 DEF DInv, RidesOnce, TakeStep
      <4>. QED BY <2>2, <3>1, <4>1, <4>2
    <3>3. course'[k] = "no" /\ cli'[k] = "no" /\ k \notin DirectedSources
      <4>1. CASE k = h
        BY <2>2, <3>1, <4>1 DEF DInv, OnePlace, TakeStep
      <4>2. CASE k \in rides[h]
        BY <2>2, <3>1, <4>2 DEF DInv, RidesOnce, TakeStep
      <4>. QED BY <2>2, <3>1, <4>1, <4>2
    <3>. QED BY <2>2, <3>1, <3>2, <3>3 DEF DirectedSources, TakenFrom
  <2>3. CASE k # m /\ x # m
    <3>1. k \in rides[x] /\ rides'[x] # {}
      BY <2>3 DEF TakeStep
    <3>2. /\ \A y \in M : k \in rides[y] => y = x
          /\ course[k] = "no" /\ cli[k] = "no" /\ k \notin DirectedSources
          /\ course[x] \in {"posting", "posted"} => k \notin remembered
          /\ course[x] = "posting" => owed[k] # "queued"
      BY <3>1 DEF DInv, RidesOnce
    <3>3. \A y \in M : k \in rides'[y] => y = x
      <4> SUFFICES ASSUME NEW y \in M, k \in rides'[y] PROVE y = x
        OBVIOUS
      <4>1. CASE y # m
        BY <2>3, <3>2, <4>1 DEF TakeStep
      <4>2. CASE y = m
        <5>1. PICK h \in M \ {m} : course[h] = "held" /\ course'[h] = "no" /\ rides'[m] = rides[h] \cup {h}
          BY <4>2 DEF TakeStep
        <5>2. k # h BY <3>2, <5>1
        <5>3. h = x BY <3>2, <4>2, <5>1, <5>2
        <5>4. rides'[h] = {} BY <5>1 DEF TakeStep
        <5>. QED BY <3>1, <5>3, <5>4
      <4>. QED BY <4>1, <4>2
    <3>4. course'[k] = "no" /\ cli'[k] = "no" /\ k \notin DirectedSources'
      BY <2>3, <3>2 DEF TakeStep, TakenFrom, DirectedSources
    <3>5. course'[x] \in {"posting", "posted"} => k \notin remembered'
      BY <2>3, <3>2 DEF TakeStep
    <3>6. course'[x] = "posting" => owed'[k] # "queued"
      BY <1>b, <2>3, <3>2 DEF TakeStep
    <3>. QED BY <3>3, <3>4, <3>5, <3>6
  <2>. QED BY <2>1, <2>2, <2>3
<1>8. AnsweredFinally'
  <2> SUFFICES ASSUME NEW k \in M \ doubled, answers[k] >= 1
               PROVE  /\ answers[k] = 1
                      /\ owed'[k] # "queued" /\ ~Pending(k)'
                      /\ k \notin events' /\ k \notin missed' /\ k \notin again' /\ k \notin remembered'
                      /\ k \in inherited' => owed'[k] = "delivering"
    BY DEF AnsweredFinally, TakenFrom, TakeStep
  <2>1. k # m
    BY DEF TakenFrom
  <2>2. /\ answers[k] = 1 /\ owed[k] # "queued" /\ ~Pending(k)
        /\ k \notin events /\ k \notin missed /\ k \notin again /\ k \notin remembered
        /\ k \in inherited => owed[k] = "delivering"
    BY DEF DInv, AnsweredFinally
  <2>3. ~Pending(k)'
    <3>1. ~(course'[k] \in {"held", "queued", "posting"}) /\ cli'[k] # "sending" /\ ~(course'[k] = "live" /\ cli'[k] = "no")
      BY <2>1, <2>2 DEF TakeStep, Pending
    <3>2. ASSUME NEW x \in M, k \in rides'[x], course'[x] \in {"held", "queued", "live", "posting"} PROVE FALSE
      <4>1. CASE x # m
        BY <2>1, <2>2, <3>2, <4>1 DEF TakeStep, Pending
      <4>2. CASE x = m
        BY <2>1, <2>2, <3>2, <4>2 DEF TakeStep, Pending
      <4>. QED BY <4>1, <4>2
    <3>. QED BY <3>1, <3>2 DEF Pending
  <2>4. k \notin remembered'
    BY <2>1, <2>2 DEF TakeStep, Pending
  <2>5. k \in inherited' => owed'[k] = "delivering"
    <3>1. k \in inherited' => k \in inherited /\ course[k] = "no" /\ \A y \in M : k \notin rides[y]
      BY DEF DInv, OnePlace, RidesOnce, TakenFrom, DirectedSources
    <3>. QED BY <2>1, <2>2, <3>1 DEF TakeStep
  <2>. QED BY <1>b, <2>1, <2>2, <2>3, <2>4, <2>5 DEF TakenFrom
<1>9. DebtsTended'
  <2> SUFFICES ASSUME NEW k \in M \ stranded', owed'[k] # "no"
               PROVE  k \in inherited' \cup again' \/ Tended(k)'
    BY DEF DebtsTended
  <2>1. CASE k = m
    BY <2>1 DEF TakeStep, LeavesTended
  <2>2. CASE k # m
    <3>1. owed[k] # "no" /\ k \notin stranded
      BY <2>2 DEF TakeStep, LeavesTended
    <3>2. k \in inherited \cup again \/ Tended(k)
      BY <3>1 DEF DInv, DebtsTended, TakenFrom
    <3>. QED BY <2>2, <3>2 DEF TakeStep, LeavesTended, TakenFrom
  <2>. QED BY <2>1, <2>2
<1>. QED BY <1>1, <1>2, <1>3, <1>4, <1>5, <1>6, <1>7, <1>8, <1>9 DEF DInv

LEMMA BooksWithStep ==
    ASSUME NEW o \in [M -> {"no", "queued", "delivering"}], NEW spent \in [M -> 0..MaxReplays + MaxDeaths],
           BooksWith(o, spent)
    PROVE  /\ owed' \in [M -> {"no", "queued", "delivering"}] /\ replays' \in [M -> 0..MaxReplays + MaxDeaths]
           /\ \A x \in M : replays'[x] <= spent[x] /\ (owed'[x] = "no" => replays'[x] = 0)
<1>1. replays' = [x \in M |-> IF o[x] = "no" THEN 0 ELSE spent[x]] /\ owed' = o
  BY DEF BooksWith
<1>2. \A x \in M : spent[x] \in 0..MaxReplays + MaxDeaths
  OBVIOUS
<1>. QED BY <1>1, <1>2, DirectedAssumption

LEMMA FoldStep ==
    ASSUME DInv, NEW m \in M, NEW spent, TakenFrom(m, spent), NEW h \in In("held"), Fold(h, m, spent),
           seen' = seen \cup {m}, cursor' = Newest(cursor, m), cli' = [cli EXCEPT ![m] = "no"]
    PROVE  TakeStep(m, spent)
<1>0. h \in M \ {m} /\ course[h] = "held" /\ course[m] = "no" /\ rides[m] = {}
  BY DEF DInv, OnePlace, TakenFrom, In
<1>1. /\ owed' \in [M -> {"no", "queued", "delivering"}] /\ replays' \in [M -> 0..MaxReplays + MaxDeaths]
      /\ \A x \in M : replays'[x] <= spent[x] /\ (owed'[x] = "no" => replays'[x] = 0)
  <2>1. ClaimedIn({m}, owed) \in [M -> {"no", "queued", "delivering"}]
    BY DEF DInv, DirectedTypeOK, ClaimedIn
  <2>. QED BY <2>1, BooksWithStep DEF Fold, TakenFrom
<1>2. \A x \in M \ {m} : owed'[x] = owed[x]
  BY DEF Fold, BooksWith, ClaimedIn, DInv, DirectedTypeOK
<1>3. /\ course' \in [M -> Courses] /\ course'[h] = "no" /\ course'[m] = "held"
      /\ \A x \in M \ {h, m} : course'[x] = course[x]
  BY <1>0 DEF Fold, DInv, DirectedTypeOK, Courses
<1>4. /\ rides' \in [M -> SUBSET M] /\ rides'[h] = {} /\ rides'[m] = rides[h] \cup {h}
      /\ \A x \in M \ {h, m} : rides'[x] = rides[x]
  BY <1>0 DEF Fold, DInv, DirectedTypeOK
<1>5. cli' \in [M -> {"no", "sending", "sent"}] /\ cli'[m] = "no" /\ \A x \in M \ {m} : cli'[x] = cli[x]
  BY DEF DInv, DirectedTypeOK
<1>6. /\ seen' \subseteq M /\ injected' \subseteq M /\ stranded' \subseteq M /\ doubled' = doubled
      /\ remembered' = remembered \cup {h} /\ remembered' \subseteq M
      /\ cursor' = IF cursor > m THEN cursor ELSE m
  BY <1>0 DEF Fold, DInv, DirectedTypeOK, Newest
<1>7. \A x \in M : course'[x] = "no" => rides'[x] = {}
  BY <1>0, <1>3, <1>4 DEF DInv, OnePlace
<1>9. LeavesTended(m)
  <2>1. stranded' = stranded /\ Tended(m)'
    BY <1>3 DEF Fold, Tended
  <2>2. \A k \in M \ {m} : Tended(k) => Tended(k)'
    <3> SUFFICES ASSUME NEW k \in M \ {m}, Tended(k) PROVE Tended(k)'
      OBVIOUS
    <3>1. CASE k = h
      BY <3>1, <1>4, <1>6 DEF Tended
    <3>2. CASE k # h /\ course[k] # "no"
      BY <3>2, <1>3 DEF Tended
    <3>3. CASE \E x \in M : k \in rides[x] /\ (course[x] \in {"posting", "posted"} \/ k \in remembered)
      <4>1. PICK x \in M : k \in rides[x] /\ (course[x] \in {"posting", "posted"} \/ k \in remembered)
        BY <3>3
      <4>2. CASE x = h
        BY <1>0, <1>4, <1>6, <4>1, <4>2 DEF Tended
      <4>3. CASE x # h
        BY <1>0, <1>3, <1>4, <1>6, <4>1, <4>3 DEF Tended
      <4>. QED BY <4>2, <4>3
    <3>. QED BY <3>1, <3>2, <3>3 DEF Tended
  <2>. QED BY <2>1, <2>2 DEF LeavesTended
<1>. QED BY <1>0, <1>1, <1>2, <1>3, <1>4, <1>5, <1>6, <1>7, <1>9 DEF TakeStep

LEMMA InjectStep ==
    ASSUME DInv, NEW m \in M, NEW spent, TakenFrom(m, spent), NEW l \in In("live"), InjectInto(l, m, spent),
           seen' = seen \cup {m}, cursor' = Newest(cursor, m), cli' = [cli EXCEPT ![m] = "no"]
    PROVE  TakeStep(m, spent)
<1>0. l \in M \ {m} /\ course[l] = "live" /\ course[m] = "no" /\ rides[m] = {}
  BY DEF DInv, OnePlace, TakenFrom, In
<1>1. /\ owed' \in [M -> {"no", "queued", "delivering"}] /\ replays' \in [M -> 0..MaxReplays + MaxDeaths]
      /\ \A x \in M : replays'[x] <= spent[x] /\ (owed'[x] = "no" => replays'[x] = 0)
  <2>1. ClaimedIn({m}, owed) \in [M -> {"no", "queued", "delivering"}]
    BY DEF DInv, DirectedTypeOK, ClaimedIn
  <2>. QED BY <2>1, BooksWithStep DEF InjectInto, TakenFrom
<1>2. \A x \in M \ {m} : owed'[x] = owed[x]
  BY DEF InjectInto, BooksWith, ClaimedIn, DInv, DirectedTypeOK
<1>3. course' = course /\ course' \in [M -> Courses]
  BY DEF InjectInto, DInv, DirectedTypeOK, Courses
<1>4. /\ rides' \in [M -> SUBSET M] /\ rides'[l] = rides[l] \cup {m}
      /\ \A x \in M \ {l} : rides'[x] = rides[x]
  BY <1>0 DEF InjectInto, DInv, DirectedTypeOK
<1>5. cli' \in [M -> {"no", "sending", "sent"}] /\ cli'[m] = "no" /\ \A x \in M \ {m} : cli'[x] = cli[x]
  BY DEF DInv, DirectedTypeOK
<1>6. /\ seen' \subseteq M /\ injected' \subseteq M /\ stranded' \subseteq M /\ doubled' = doubled
      /\ remembered' = remembered \cup {m} /\ remembered' \subseteq M
      /\ cursor' = IF cursor > m THEN cursor ELSE m
  BY DEF InjectInto, DInv, DirectedTypeOK, Newest
<1>7. \A x \in M : course'[x] = "no" => rides'[x] = {}
  BY <1>0, <1>3, <1>4 DEF DInv, OnePlace
<1>8. LeavesTended(m)
  <2>1. stranded' = stranded /\ Tended(m)'
    BY <1>0, <1>4, <1>6 DEF InjectInto, Tended
  <2>2. \A k \in M \ {m} : Tended(k) => Tended(k)'
    BY <1>0, <1>3, <1>4, <1>6 DEF Tended
  <2>. QED BY <2>1, <2>2 DEF LeavesTended
<1>. QED BY <1>0, <1>1, <1>2, <1>3, <1>4, <1>5, <1>6, <1>7, <1>8 DEF TakeStep

LEMMA AmendStep ==
    ASSUME DInv, NEW m \in M, NEW spent, TakenFrom(m, spent), NEW l \in In("live"), Amend(l, m, spent),
           seen' = seen \cup {m}, cursor' = Newest(cursor, m), cli' = [cli EXCEPT ![m] = "no"]
    PROVE  TakeStep(m, spent)
<1>0. l \in M \ {m} /\ course[l] = "live" /\ course[m] = "no" /\ rides[m] = {}
  BY DEF DInv, OnePlace, TakenFrom, In
<1>s. \A x \in Superseded : course[x] # "no" \/ \E y \in M : x \in rides[y]
  BY DEF Superseded, Waiting, In
<1>1. /\ owed' \in [M -> {"no", "queued", "delivering"}] /\ replays' \in [M -> 0..MaxReplays + MaxDeaths]
      /\ \A x \in M : replays'[x] <= spent[x] /\ (owed'[x] = "no" => replays'[x] = 0)
  <2>1. SettledIn(Superseded, ClaimedIn({m}, BeforePost({l}, owed))) \in [M -> {"no", "queued", "delivering"}]
    BY DEF DInv, DirectedTypeOK, ClaimedIn, BeforePost, StampedIn, SettledIn
  <2>. QED BY <2>1, BooksWithStep DEF Amend, TakenFrom
<1>2. \A x \in M \ {m} : \/ owed'[x] = owed[x]
                         \/ owed[x] # "no" /\ owed'[x] = "delivering"
                         \/ owed'[x] = "no" /\ (course[x] # "no" \/ \E y \in M : x \in rides[y])
  BY <1>s DEF Amend, BooksWith, ClaimedIn, BeforePost, StampedIn, SettledIn, DInv, DirectedTypeOK
<1>3. /\ course' \in [M -> Courses] /\ course'[m] = "queued" /\ course'[l] = "notice"
      /\ \A x \in M \ {m, l} : course'[x] = IF x \in Waiting THEN "no" ELSE course[x]
  BY <1>0 DEF Amend, DInv, DirectedTypeOK, Courses
<1>4. /\ rides' \in [M -> SUBSET M] /\ rides'[m] = {}
      /\ \A x \in M : rides'[x] = IF x \in Waiting \cup {l} THEN {} ELSE rides[x]
  BY <1>0 DEF Amend, DInv, DirectedTypeOK
<1>5. cli' \in [M -> {"no", "sending", "sent"}] /\ cli'[m] = "no" /\ \A x \in M \ {m} : cli'[x] = cli[x]
  BY DEF DInv, DirectedTypeOK
<1>6. /\ seen' \subseteq M /\ injected' \subseteq M /\ stranded' \subseteq M /\ doubled' = doubled
      /\ remembered' \subseteq remembered /\ remembered' \subseteq M
      /\ cursor' = IF cursor > m THEN cursor ELSE m
  BY <1>0 DEF Amend, DInv, DirectedTypeOK, Newest
<1>7. \A x \in M : course'[x] = "no" => rides'[x] = {}
  BY <1>0, <1>3, <1>4 DEF DInv, OnePlace
<1>8. \A x \in M \ {m} : course'[x] # course[x] =>
         course[x] \in {"held", "queued", "live"} /\ course'[x] \in {"no", "notice"}
  BY <1>0, <1>3 DEF Waiting, In
<1>9. LeavesTended(m)
  <2>1. /\ stranded' = stranded \cup rides[l] /\ remembered' = remembered \ Superseded
        /\ \A x \in Superseded \cap M : owed'[x] = "no"
    BY DEF Amend, BooksWith, SettledIn
  <2>2. Tended(m)'
    BY <1>3 DEF Tended
  <2>3. \A k \in M \ {m} : Tended(k) /\ owed'[k] # "no" => k \in stranded' \/ Tended(k)'
    BY <1>0, <1>3, <1>4, <2>1 DEF Tended, Superseded, Waiting, In
  <2>. QED BY <2>1, <2>2, <2>3 DEF LeavesTended
<1>. QED BY <1>0, <1>1, <1>2, <1>3, <1>4, <1>5, <1>6, <1>7, <1>8, <1>9 DEF TakeStep

LEMMA OwnTurnStep ==
    ASSUME DInv, NEW m \in M, NEW spent, TakenFrom(m, spent), OwnTurn(m, spent),
           seen' = seen \cup {m}, cursor' = Newest(cursor, m), cli' = [cli EXCEPT ![m] = "no"]
    PROVE  TakeStep(m, spent)
<1>0. course[m] = "no" /\ rides[m] = {}
  BY DEF DInv, OnePlace, TakenFrom
<1>s. \A x \in Superseded : course[x] # "no" \/ \E y \in M : x \in rides[y]
  BY DEF Superseded, Waiting, In
<1>1. /\ owed' \in [M -> {"no", "queued", "delivering"}] /\ replays' \in [M -> 0..MaxReplays + MaxDeaths]
      /\ \A x \in M : replays'[x] <= spent[x] /\ (owed'[x] = "no" => replays'[x] = 0)
  <2>1. SettledIn(Superseded, ClaimedIn({m}, owed)) \in [M -> {"no", "queued", "delivering"}]
    BY DEF DInv, DirectedTypeOK, ClaimedIn, SettledIn
  <2>. QED BY <2>1, BooksWithStep DEF OwnTurn, TakenFrom
<1>2. \A x \in M \ {m} : \/ owed'[x] = owed[x]
                         \/ owed'[x] = "no" /\ (course[x] # "no" \/ \E y \in M : x \in rides[y])
  BY <1>s DEF OwnTurn, BooksWith, ClaimedIn, SettledIn, DInv, DirectedTypeOK
<1>3. /\ course' \in [M -> Courses] /\ course'[m] = "held"
      /\ \A x \in M \ {m} : course'[x] = IF x \in Waiting THEN "no" ELSE course[x]
  BY <1>0 DEF OwnTurn, DInv, DirectedTypeOK, Courses
<1>4. /\ rides' \in [M -> SUBSET M] /\ rides'[m] = {}
      /\ \A x \in M : rides'[x] = IF x \in Waiting THEN {} ELSE rides[x]
  BY <1>0 DEF OwnTurn, DInv, DirectedTypeOK
<1>5. cli' \in [M -> {"no", "sending", "sent"}] /\ cli'[m] = "no" /\ \A x \in M \ {m} : cli'[x] = cli[x]
  BY DEF DInv, DirectedTypeOK
<1>6. /\ seen' \subseteq M /\ injected' \subseteq M /\ stranded' \subseteq M /\ doubled' = doubled
      /\ remembered' \subseteq remembered /\ remembered' \subseteq M
      /\ cursor' = IF cursor > m THEN cursor ELSE m
  BY <1>0 DEF OwnTurn, DInv, DirectedTypeOK, Newest
<1>7. \A x \in M : course'[x] = "no" => rides'[x] = {}
  BY <1>0, <1>3, <1>4 DEF DInv, OnePlace
<1>8. \A x \in M \ {m} : course'[x] # course[x] => course[x] = "queued" /\ course'[x] = "no"
  BY <1>0, <1>3 DEF Waiting, In
<1>9. LeavesTended(m)
  <2>1. /\ stranded' = stranded /\ remembered' = remembered \ Superseded
        /\ \A x \in Superseded \cap M : owed'[x] = "no"
    BY DEF OwnTurn, BooksWith, SettledIn
  <2>2. Tended(m)'
    BY <1>3 DEF Tended
  <2>3. \A k \in M \ {m} : Tended(k) /\ owed'[k] # "no" => k \in stranded' \/ Tended(k)'
    BY <1>0, <1>3, <1>4, <2>1 DEF Tended, Superseded, Waiting, In
  <2>. QED BY <2>1, <2>2, <2>3 DEF LeavesTended
<1>. QED BY <1>0, <1>1, <1>2, <1>3, <1>4, <1>5, <1>6, <1>7, <1>8, <1>9 DEF TakeStep

LEMMA TakeKeeps ==
    ASSUME DInv, NEW m \in M, NEW spent, TakenFrom(m, spent), Take(m, spent)
    PROVE  DInv'
<1>1. TakeStep(m, spent)
  BY FoldStep, InjectStep, AmendStep, OwnTurnStep DEF Take
<1>. QED BY <1>1, TakeStepKeeps

\* A message that is heard again is dropped.
DroppedFrom(m) ==
    /\ UNCHANGED <<said, posted, answers, cursor, owed, replays, stage, inherited, again, seen, course, rides, cli,
                   injected, remembered, stranded, doubled, deaths>>
    /\ events' \subseteq events /\ missed' \subseteq missed
    /\ awaited' \in 0..N /\ awaited' \notin inherited /\ stage # "down"

LEMMA DroppedKeeps == ASSUME DInv, NEW m \in M, DroppedFrom(m) PROVE DInv'
<1>1. DirectedTypeOK'
  BY DEF DInv, DirectedTypeOK, DroppedFrom
<1>2. OnePlace'
  BY DEF DInv, OnePlace, DirectedSources, DroppedFrom
<1>3. KnownSaid'
  BY DEF DInv, KnownSaid, DirectedSources, DroppedFrom
<1>4. LedgerTrue'
  BY DEF DInv, LedgerTrue, DroppedFrom
<1>5. ReplaysSpent'
  BY DEF DInv, ReplaysSpent, DroppedFrom
<1>6. Cleared'
  BY DEF Cleared, DroppedFrom
<1>7. RidesOnce'
  BY DEF DInv, RidesOnce, DirectedSources, DroppedFrom
<1>8. AnsweredFinally'
  BY DEF DInv, AnsweredFinally, Pending, DroppedFrom
<1>9. DebtsTended'
  BY DEF DInv, DebtsTended, Tended, DroppedFrom
<1>. QED BY <1>1, <1>2, <1>3, <1>4, <1>5, <1>6, <1>7, <1>8, <1>9 DEF DInv

\* A message that is taken as it comes
LEMMA FreshSpent ==
    ASSUME DInv, NEW m \in M, m \in events \cup missed \cup again
    PROVE  /\ replays \in [M -> 0..MaxReplays + MaxDeaths]
           /\ replays[m] <= deaths /\ replays[m] <= MaxReplays
           /\ m \notin doubled => answers[m] = 0
           /\ m \in DirectedSources /\ stage # "down" /\ m \notin inherited
<1>1. m \in DirectedSources /\ stage # "down" /\ m \notin inherited /\ course[m] = "no"
  BY DEF DInv, OnePlace, DirectedSources, Cleared
<1>2. m \notin doubled => answers[m] = 0
  BY DEF DInv, AnsweredFinally, DirectedTypeOK
<1>3. replays[m] <= deaths /\ replays[m] <= MaxReplays
  BY <1>1 DEF DInv, ReplaysSpent
<1>. QED BY <1>1, <1>2, <1>3 DEF DInv, DirectedTypeOK

LEMMA HearKeeps == ASSUME DInv, Hear PROVE DInv'
<1>1. PICK m \in M : /\ Oldest(m, events) /\ events' = events \ {m}
                     /\ IF m \in seen THEN UNCHANGED <<cursor, books, seen, turns>> ELSE Take(m, replays)
  BY DEF Hear
<1>2. /\ UNCHANGED <<said, posted, answers, stage, missed, inherited, awaited, again, deaths>> /\ stage # "down"
      /\ m \in events
  BY <1>1 DEF Hear, discord, boot, Oldest
<1>3. CASE m \in seen
  <2>1. DroppedFrom(m)
    BY <1>1, <1>2, <1>3 DEF DroppedFrom, books, turns, DInv, DirectedTypeOK, LedgerTrue
  <2>. QED BY <2>1, DroppedKeeps
<1>4. CASE m \notin seen
  <2>1. TakenFrom(m, replays)
    BY <1>1, <1>2, FreshSpent DEF TakenFrom, DirectedSources, DInv, OnePlace, DirectedTypeOK, LedgerTrue
  <2>. QED BY <1>1, <1>4, <2>1, TakeKeeps
<1>. QED BY <1>3, <1>4

LEMMA AgainKeeps == ASSUME DInv, NEW m \in M, Again(m) PROVE DInv'
<1>1. /\ UNCHANGED <<said, posted, answers, stage, missed, inherited, awaited, events, deaths>>
      /\ m \in again /\ again' = again \ {m} /\ Take(m, replays)
  BY DEF Again, discord, boot
<1>2. TakenFrom(m, replays)
  BY <1>1, FreshSpent DEF TakenFrom, DirectedSources, DInv, OnePlace, DirectedTypeOK, LedgerTrue
<1>. QED BY <1>1, <1>2, TakeKeeps

LEMMA ReconcileKeeps == ASSUME DInv, Reconcile PROVE DInv'
<1>1. PICK m \in M : /\ Oldest(m, missed) /\ missed' = missed \ {m} /\ awaited' = m
                     /\ IF m \in seen THEN UNCHANGED <<cursor, books, seen, turns>> ELSE Take(m, replays)
  BY DEF Reconcile
<1>2. /\ UNCHANGED <<said, posted, answers, stage, inherited, events, again, deaths>> /\ stage # "down"
      /\ m \in missed /\ m \in 0..N /\ m \notin inherited
  BY <1>1, DirectedAssumption DEF Reconcile, discord, Oldest, DInv, OnePlace, M
<1>3. CASE m \in seen
  <2>1. DroppedFrom(m)
    BY <1>1, <1>2, <1>3 DEF DroppedFrom, books, turns
  <2>. QED BY <2>1, DroppedKeeps
<1>4. CASE m \notin seen
  <2>1. TakenFrom(m, replays)
    BY <1>1, <1>2, FreshSpent DEF TakenFrom, DirectedSources, DInv, OnePlace, DirectedTypeOK
  <2>. QED BY <1>1, <1>4, <2>1, TakeKeeps
<1>. QED BY <1>3, <1>4

-----------------------------------------------------------------------------
(* The boot's replay *)

\* replayOwedMentions of a row that was delivered
LEMMA ReplaySettlesKeeps ==
    ASSUME DInv, stage = "serving", NEW m \in M, m \in inherited, inherited' = inherited \ {m},
           Books(SettledIn({m}, owed)),
           UNCHANGED <<discord, stage, missed, awaited, cursor, events, seen, again, turns, deaths>>
    PROVE  DInv'
<1>0. /\ LedgerStep /\ \A x \in M : owed'[x] # owed[x] => x = m /\ owed'[x] = "no"
      /\ UNCHANGED <<said, posted, answers, cursor, stage, missed, awaited, events, seen, again, course, rides, cli,
                     injected, remembered, stranded, doubled, deaths>>
      /\ course[m] = "no" /\ replays'[m] = 0
  BY SettledStep DEF DInv, OnePlace, DirectedSources, LedgerStep, discord, turns
<1>1. DirectedTypeOK'
  <2>1. \A x \in M : course'[x] # "no" /\ course'[x] # "giveup" => replays'[x] <= MaxReplays
    BY <1>0, DirectedAssumption DEF DInv, DirectedTypeOK, LedgerStep
  <2>. QED BY <1>0, <2>1 DEF DInv, DirectedTypeOK, LedgerStep
<1>2. OnePlace'
  BY <1>0 DEF DInv, OnePlace, DirectedSources
<1>3. KnownSaid'
  BY <1>0 DEF DInv, KnownSaid, DirectedSources
<1>4. LedgerTrue'
  BY <1>0 DEF DInv, DirectedTypeOK, LedgerTrue, LedgerStep
<1>5. ReplaysSpent'
  BY <1>0, SettledStep, SpentKept, DirectedAssumption DEF DInv, LedgerStep
<1>6. Cleared'
  BY <1>0 DEF Cleared
<1>7. RidesOnce'
  BY <1>0 DEF DInv, RidesOnce, DirectedSources
<1>8. AnsweredFinally'
  BY <1>0 DEF DInv, AnsweredFinally, Pending, LedgerTrue
<1>9. DebtsTended'
  <2>1. owed'[m] = "no"
    BY SettledStep DEF DInv
  <2>. QED BY <1>0, <2>1 DEF DInv, DebtsTended, Tended
<1>. QED BY <1>1, <1>2, <1>3, <1>4, <1>5, <1>6, <1>7, <1>8, <1>9 DEF DInv

\* ... and of one that is given up
LEMMA ReplayGivesUpKeeps ==
    ASSUME DInv, stage = "serving", NEW m \in M, m \in inherited, inherited' = inherited \ {m},
           owed' = owed, replays' = [replays EXCEPT ![m] = @ + 1],
           course' = [course EXCEPT ![m] = "giveup"], awaited' = m,
           UNCHANGED <<discord, stage, missed, cursor, events, seen, again, rides, cli, injected, remembered,
                       stranded, doubled, deaths>>
    PROVE  DInv'
<1>0. /\ UNCHANGED <<said, posted, answers, cursor, owed, stage, missed, events, seen, again, rides, cli,
                     injected, remembered, stranded, doubled, deaths>>
      /\ course[m] = "no" /\ cli[m] = "no" /\ rides[m] = {} /\ m \notin events \cup missed \cup again \cup remembered
      /\ course' \in [M -> Courses] /\ course'[m] = "giveup"
      /\ \A x \in M \ {m} : course'[x] = course[x] /\ replays'[x] = replays[x]
  BY DEF DInv, DirectedTypeOK, OnePlace, DirectedSources, discord, Courses
<1>a. /\ replays' \in [M -> 0..MaxReplays + MaxDeaths] /\ replays'[m] <= deaths
  <2>1. replays[m] \in Nat /\ replays[m] < deaths /\ deaths \in 0..MaxDeaths
    BY DirectedAssumption DEF DInv, DirectedTypeOK, ReplaysSpent
  <2>2. replays'[m] = replays[m] + 1 /\ replays'[m] \in 0..MaxReplays + MaxDeaths
    BY <2>1, DirectedAssumption DEF DInv, DirectedTypeOK
  <2>. QED BY <2>1, <2>2 DEF DInv, DirectedTypeOK
<1>b. m <= said /\ m \in 0..N /\ m \in M
  BY DirectedAssumption DEF DInv, KnownSaid, DirectedSources, M
<1>1. DirectedTypeOK'
  <2>1. inherited' \subseteq M BY DEF DInv, DirectedTypeOK
  <2>. QED BY <1>0, <1>a, <1>b, <2>1 DEF DInv, DirectedTypeOK, Courses
<1>2. OnePlace'
  <2>1. (events \cap (missed \cup inherited \cup again) = {})' /\ (missed \cap (inherited \cup again) = {})'
        /\ (inherited \cap again = {})' /\ (remembered \cap DirectedSources = {})'
    BY <1>0 DEF DInv, OnePlace, DirectedSources
  <2>2. \A x \in (DirectedSources \cup remembered)' : course'[x] = "no" /\ cli'[x] = "no"
    BY <1>0 DEF DInv, DirectedTypeOK, OnePlace, DirectedSources
  <2>. QED BY <1>0, <2>1, <2>2 DEF DInv, OnePlace
<1>3. KnownSaid'
  BY <1>0, <1>b DEF DInv, KnownSaid, DirectedSources
<1>4. LedgerTrue'
  <2>1. owed[m] # "no"
    BY DEF DInv, LedgerTrue
  <2>. QED BY <1>0, <2>1 DEF DInv, LedgerTrue
<1>5. ReplaysSpent'
  BY <1>0, <1>a DEF DInv, ReplaysSpent
<1>6. Cleared'
  BY <1>0 DEF Cleared
<1>7. RidesOnce'
  <2>1. m \notin doubled => \A x \in M : m \notin rides[x]
    BY DEF DInv, RidesOnce, DirectedSources
  <2>. QED BY <1>0, <2>1 DEF DInv, RidesOnce, DirectedSources
<1>8. AnsweredFinally'
  BY <1>0 DEF DInv, AnsweredFinally, Pending
<1>9. DebtsTended'
  BY <1>0 DEF DInv, DebtsTended, Tended
<1>. QED BY <1>1, <1>2, <1>3, <1>4, <1>5, <1>6, <1>7, <1>8, <1>9 DEF DInv

LEMMA ReplayKeeps == ASSUME DInv, Replay PROVE DInv'
<1>1. PICK m \in M :
         /\ Oldest(m, inherited) /\ inherited' = inherited \ {m}
         /\ \/ /\ LooksAnswered(m) /\ Books(SettledIn({m}, owed))
               /\ UNCHANGED <<awaited, cursor, seen, turns>>
            \/ /\ LooksOpen(m) /\ Spent(m)
               /\ owed' = owed /\ replays' = [replays EXCEPT ![m] = @ + 1]
               /\ course' = [course EXCEPT ![m] = "giveup"]
               /\ awaited' = m
               /\ UNCHANGED <<cursor, seen, rides, cli, injected, remembered, stranded, doubled>>
            \/ /\ LooksOpen(m) /\ ~Spent(m)
               /\ awaited' = m
               /\ Take(m, [replays EXCEPT ![m] = @ + 1])
  BY DEF Replay
<1>2. stage = "serving" /\ m \in inherited /\ UNCHANGED <<discord, stage, missed, events, again, deaths>>
  BY <1>1 DEF Replay, Oldest
<1>3. CASE LooksAnswered(m) /\ Books(SettledIn({m}, owed)) /\ UNCHANGED <<awaited, cursor, seen, turns>>
  BY <1>1, <1>2, <1>3, ReplaySettlesKeeps
<1>4. CASE /\ owed' = owed /\ replays' = [replays EXCEPT ![m] = @ + 1]
           /\ course' = [course EXCEPT ![m] = "giveup"]
           /\ awaited' = m
           /\ UNCHANGED <<cursor, seen, rides, cli, injected, remembered, stranded, doubled>>
  BY <1>1, <1>2, <1>4, ReplayGivesUpKeeps
<1>5. CASE LooksOpen(m) /\ ~Spent(m) /\ awaited' = m /\ Take(m, [replays EXCEPT ![m] = @ + 1])
  <2> DEFINE spent == [replays EXCEPT ![m] = @ + 1]
  <2>1. replays[m] \in Nat /\ replays[m] < deaths /\ deaths \in 0..MaxDeaths /\ replays[m] < MaxReplays
    BY <1>2, <1>5, DirectedAssumption DEF DInv, DirectedTypeOK, ReplaysSpent, Spent
  <2>2. /\ spent \in [M -> 0..MaxReplays + MaxDeaths] /\ \A x \in M \ {m} : spent[x] = replays[x]
        /\ spent[m] <= MaxReplays /\ spent[m] <= deaths
    BY <2>1, DirectedAssumption DEF DInv, DirectedTypeOK
  <2>3. m \notin doubled => answers[m] = 0
    <3> SUFFICES ASSUME m \notin doubled, answers[m] >= 1 PROVE FALSE
      BY DEF DInv, DirectedTypeOK
    <3>1. owed[m] = "delivering" /\ m <= posted /\ posted \in Nat
      BY <1>2, DirectedAssumption DEF DInv, AnsweredFinally, KnownSaid, DirectedTypeOK
    <3>. QED BY <1>5, <3>1 DEF LooksOpen, M
  <2>4. TakenFrom(m, spent)
    <3>1. m \in 0..N BY DirectedAssumption DEF M
    <3> HIDE DEF spent
    <3>. QED BY <1>1, <1>2, <1>5, <2>2, <2>3, <3>1 DEF TakenFrom, DirectedSources, DInv, OnePlace, discord
  <2>5. Take(m, spent)
    BY <1>5
  <2>. QED
    <3> HIDE DEF spent
    <3>. QED BY <2>4, <2>5, TakeKeeps
<1>. QED BY <1>1, <1>3, <1>4, <1>5

LEMMA DirectedInitially == DInit => DInv
<1> SUFFICES ASSUME DInit PROVE DInv
  OBVIOUS
<1>. USE DirectedAssumption DEF DInit
<1>1. DirectedTypeOK
  BY DEF DirectedTypeOK, Courses
<1>2. OnePlace /\ KnownSaid /\ LedgerTrue /\ ReplaysSpent /\ Cleared
  BY DEF OnePlace, KnownSaid, LedgerTrue, ReplaysSpent, Cleared, DirectedSources, M
<1>3. RidesOnce /\ AnsweredFinally /\ DebtsTended
  BY DEF RidesOnce, AnsweredFinally, DebtsTended
<1>. QED BY <1>1, <1>2, <1>3 DEF DInv

LEMMA DirectedStutters == ASSUME DInv, UNCHANGED dvars PROVE DInv'
<1>. USE DEF dvars, discord, books, boot, turns
<1>1. DirectedTypeOK' BY DEF DInv, DirectedTypeOK
<1>2. OnePlace' /\ KnownSaid' BY DEF DInv, OnePlace, KnownSaid, DirectedSources
<1>3. LedgerTrue' /\ ReplaysSpent' /\ Cleared' BY DEF DInv, LedgerTrue, ReplaysSpent, Cleared, DirectedSources
<1>4. RidesOnce' BY DEF DInv, RidesOnce, DirectedSources
<1>5. AnsweredFinally' BY DEF DInv, AnsweredFinally, Pending
<1>6. DebtsTended' BY DEF DInv, DebtsTended, Tended
<1>. QED BY <1>1, <1>2, <1>3, <1>4, <1>5, <1>6 DEF DInv

\* The invariant holds in every state: each step of a turn, of the lists, of the boot and of Discord keeps it.
THEOREM DirectedInvariant == DSpec => []DInv
<1>1. DInv /\ [DNext]_dvars => DInv'
  <2> SUFFICES ASSUME DInv, [DNext]_dvars PROVE DInv'
    OBVIOUS
  <2>1. CASE TurnEnds
    BY <2>1, AnswerKeeps, PassKeeps, LostTurnKeeps, TurnRejectedKeeps DEF TurnEnds
  <2>2. CASE Hear \/ Boot \/ Reconcile \/ Serve \/ Replay \/ ReplayEnds
    BY <2>2, HearKeeps, BootKeeps, ReconcileKeeps, ServeKeeps, ReplayKeeps, ReplayEndsKeeps
  <2>3. CASE \E m \in M : \/ Again(m) \/ WindowEnds(m) \/ Start(m) \/ CliSent(m)
                        \/ PostLands(m) \/ PostRejected(m) \/ Done(m) \/ LineEnds(m) \/ FixedLine(m)
    BY <2>3, AgainKeeps, WindowEndsKeeps, StartKeeps, CliSentKeeps, PostLandsKeeps, PostRejectedKeeps, DoneKeeps,
       LineEndsKeeps, FixedLineKeeps
  <2>4. CASE Say \/ Orphan \/ Dies \/ \E m \in M : CliReply(m)
    BY <2>4, SayKeeps, OrphanKeeps, DiesKeeps, CliReplyKeeps
  <2>5. CASE UNCHANGED dvars
    BY <2>5, DirectedStutters
  <2>. QED BY <2>1, <2>2, <2>3, <2>4, <2>5 DEF DNext, Progress
<1>. QED BY DirectedInitially, <1>1, PTL DEF DSpec

\* The variables keep their types, and no turn is begun for a debt that was replayed MaxReplays times
\* already (replayOwedMentions).
THEOREM DirectedTypesCorrect == DSpec => []DirectedTypeOK
<1>1. DInv => DirectedTypeOK BY DEF DInv
<1>. QED BY <1>1, DirectedInvariant, PTL

\* owed-mentions.ts, noteReplay: a debt is replayed once a boot and MaxReplays times in all, and then
\* closed with a line and no turn.
THEOREM ReplaysCorrect == DSpec => []ReplaysBounded
<1>1. DInv => ReplaysBounded
  <2> SUFFICES ASSUME DInv, NEW m \in M
               PROVE  /\ replays[m] <= deaths
                      /\ replays[m] > MaxReplays =>
                            /\ course[m] \in {"no", "giveup"}
                            /\ course[m] = "giveup" \/ stage = "down" \/ m \in inherited
    BY DEF ReplaysBounded
  <2>1. replays[m] \in Nat /\ MaxReplays \in Nat
    BY DirectedAssumption DEF DInv, DirectedTypeOK
  <2>2. course[m] # "no" /\ course[m] # "giveup" => replays[m] <= MaxReplays
    BY DEF DInv, DirectedTypeOK
  <2>3. replays[m] <= deaths /\ (stage = "down" \/ m \in inherited \/ course[m] = "giveup" \/ replays[m] <= MaxReplays)
    BY DEF DInv, ReplaysSpent
  <2> QED BY <2>1, <2>2, <2>3
<1>. QED BY <1>1, DirectedInvariant, PTL

\* owed-mentions.ts:19, "never answer twice": a message is answered once at most, across deaths of the
\* daemon, but for a rider that the session gives back while it rides.
THEOREM AnsweredCorrect == DSpec => []AnsweredOnce
<1>1. DInv => AnsweredOnce
  <2> SUFFICES ASSUME DInv, NEW m \in M \ doubled PROVE answers[m] <= 1
    BY DEF AnsweredOnce
  <2>1. answers[m] \in 0..2 /\ (answers[m] >= 1 => answers[m] = 1)
    BY DEF DInv, DirectedTypeOK, AnsweredFinally
  <2>. QED BY <2>1
<1>. QED BY <1>1, DirectedInvariant, PTL

\* No debt is forgotten while the daemon is up (owed-mentions.ts, requeueOrphanedInjection): a row of the
\* ledger has somebody who will close it, or its message is stranded for the next boot.
THEOREM DebtsCorrect == DSpec => []DebtsTended
<1>1. DInv => DebtsTended BY DEF DInv
<1>. QED BY <1>1, DirectedInvariant, PTL

=============================================================================
