---------------------------- MODULE RunDepsProofs ----------------------------
(***************************************************************************)
(* Runs that declared overlapping files queue for each other, for every set *)
(* of runs, every dependency graph and every choice of files: OverlapsQueue  *)
(* of RunDeps is an invariant.  The strengthening it needs says that a       *)
(* handler that will patch a run without looking at it acts for a run that   *)
(* is in flight, or final.                                                   *)
(***************************************************************************)
EXTENDS RunDeps, WellFoundedInduction, TLAPS

Handled ==
    \A r \in Runs : handler[r] # "none" => InFlight(r) \/ ledger[r] \in RUN_FINAL

IInv == TypeOK /\ OverlapsQueue /\ Handled

(* Overlapping is symmetric. *)
LEMMA CollideSym ==
    ASSUME NEW r \in Runs, NEW s \in Runs, Collide(r, s)
    PROVE  Collide(s, r)
BY DEF Collide, PathOverlaps

(* A step after which no run is in flight that was not before, save revived ones, *)
(* keeps overlapping runs apart.                                                  *)
LEMMA NoneTaken ==
    ASSUME OverlapsQueue, revived \subseteq revived',
           \A r \in Runs : InFlight(r)' => InFlight(r) \/ r \in revived'
    PROVE  OverlapsQueue'
<1> SUFFICES ASSUME NEW r \in Runs, NEW s \in Runs,
                    Collide(r, s), InFlight(r)', InFlight(s)',
                    r \notin revived', s \notin revived'
             PROVE  FALSE
    BY DEF OverlapsQueue, Collide, PathOverlaps
<1>1. InFlight(r) /\ InFlight(s)
    OBVIOUS
<1>2. {r, s} \cap revived # {}
    BY <1>1 DEF OverlapsQueue
<1> QED BY <1>2

(* What an admission pass takes neither overlaps what was in flight nor itself. *)
LEMMA PassTakes ==
    ASSUME RunDepsAssumption, OverlapsQueue, revived' = revived,
           NEW rest \in SUBSET inFlight, NEW cand \in SUBSET Runs,
           NEW A \in Admitted(ledger', rest, cand),
           inFlight' = rest \cup A,
           \A r \in Runs : ledger'[r] \in IN_FLIGHT_FOR_OVERLAP => InFlight(r)
    PROVE  OverlapsQueue'
<1> DEFINE Old(r) == ledger'[r] \in IN_FLIGHT_FOR_OVERLAP \/ r \in rest
<1> SUFFICES ASSUME NEW r \in Runs, NEW s \in Runs,
                    Collide(r, s), InFlight(r)', InFlight(s)'
             PROVE  {r, s} \cap revived # {}
    BY DEF OverlapsQueue, Collide, PathOverlaps
<1>1. \A x \in Runs : Old(x) => InFlight(x)
    BY DEF InFlight
<1>2. ASSUME NEW x \in Runs, InFlight(x)', ~Old(x)
      PROVE  x \in A /\ Contended(ledger', rest \cup {a \in A : a < x}, x) = {}
    BY <1>2 DEF InFlight, Admitted, Ready, IN_FLIGHT_FOR_OVERLAP
<1>3. ASSUME NEW x \in Runs, NEW y \in Runs, Collide(x, y), InFlight(x)', InFlight(y)', ~Old(x)
      PROVE  y \in A /\ ~Old(y) /\ ~(y < x)
    <2>1. x \in A /\ Contended(ledger', rest \cup {a \in A : a < x}, x) = {}
        BY <1>2, <1>3
    <2>2. ~Old(y) /\ ~(y \in A /\ y < x)
        BY <2>1, <1>3 DEF Contended
    <2> QED BY <2>2, <1>2, <1>3
<1>4. CASE Old(r) /\ Old(s)
    BY <1>1, <1>4 DEF OverlapsQueue
<1>5. CASE ~Old(r) \/ ~Old(s)
    <2>1. ~Old(r) /\ ~Old(s) /\ r \in A /\ s \in A
        BY <1>2, <1>3, <1>5, CollideSym
    <2>2. ~(r < s) /\ ~(s < r)
        BY <2>1, <1>3, CollideSym
    <2>3. r \in Nat /\ s \in Nat /\ r # s
        BY DEF RunDepsAssumption, Collide
    <2> QED BY <2>2, <2>3
<1> QED BY <1>4, <1>5

(* The pass that follows a final state also keeps the types and the handlers sound. *)
LEMMA FinaliseKeeps ==
    ASSUME RunDepsAssumption, IInv, NEW r \in Runs, NEW s \in {"done", "cancelled"},
           NEW rest \in SUBSET inFlight, inFlight \ rest \subseteq {r},
           NEW awaiting \in {handler, [handler EXCEPT ![r] = "none"]},
           Finalise(r, s, rest, awaiting)
    PROVE  IInv'
<1> USE DEF IInv, TypeOK
<1>1. ledger' = [ledger EXCEPT ![r] = s] /\ revived' = revived /\ s \in RUN_FINAL
    BY DEF Finalise, RUN_FINAL
<1>2. PICK A \in Admitted(ledger', rest, Queued(ledger')) : Staff(A, rest, awaiting)
    BY DEF Finalise
<1>3. A \subseteq Runs /\ Queued(ledger') \subseteq Runs /\ s \notin IN_FLIGHT_FOR_OVERLAP
    BY DEF Admitted, Queued, IN_FLIGHT_FOR_OVERLAP
<1>4. TypeOK'
    BY <1>1, <1>2, <1>3 DEF Staff, StageFor, States, RUN_FINAL, Handlers
<1>5. OverlapsQueue'
    <2>1. \A x \in Runs : ledger'[x] \in IN_FLIGHT_FOR_OVERLAP => InFlight(x)
        BY <1>1, <1>3 DEF InFlight
    <2>2. inFlight' = rest \cup A
        BY <1>2 DEF Staff
    <2> QED BY <2>1, <2>2, <1>1, <1>3, PassTakes
<1>6. Handled'
    <2> SUFFICES ASSUME NEW x \in Runs, handler'[x] # "none"
                 PROVE  InFlight(x)' \/ ledger'[x] \in RUN_FINAL
        BY DEF Handled
    <2>1. CASE x = r
        BY <2>1, <1>1
    <2>2. CASE x # r /\ x \in A \ rest
        BY <2>2, <1>2 DEF Staff, InFlight
    <2>3. CASE x # r /\ x \notin A \ rest
        <3>1. handler[x] # "none"
            BY <2>3, <1>2 DEF Staff
        <3>2. InFlight(x) \/ ledger[x] \in RUN_FINAL
            BY <3>1 DEF Handled
        <3> QED BY <3>2, <2>3, <1>1, <1>2 DEF Staff, InFlight
    <2> QED BY <2>1, <2>2, <2>3
<1> QED BY <1>4, <1>5, <1>6


(* A run held while it could have been admitted overlaps nothing in flight. *)
LEMMA ParkTakes ==
    ASSUME RunDepsAssumption, TypeOK, OverlapsQueue, NEW r \in Runs, Park(r)
    PROVE  OverlapsQueue'
<1>1. \A x \in Runs \ {r} : InFlight(x)' = InFlight(x)
    BY DEF Park, TypeOK, InFlight
<1>2. revived' = revived
    BY DEF Park
<1>3. \/ ledger[r] \in IN_FLIGHT_FOR_OVERLAP
      \/ ledger[r] = "queued" /\ Ready(ledger, inFlight \cup {a \in {r} : a < r}, r)
    BY DEF Park, Admitted, IN_FLIGHT_FOR_OVERLAP
<1>4. CASE ledger[r] \in IN_FLIGHT_FOR_OVERLAP
    BY <1>1, <1>2, <1>4, NoneTaken DEF InFlight
<1>5. CASE Contended(ledger, inFlight \cup {a \in {r} : a < r}, r) = {}
    <2>1. ASSUME NEW s \in Runs, Collide(r, s) \/ Collide(s, r)
          PROVE  ~InFlight(s)' /\ s # r
        <3>1. Collide(r, s) /\ s # r
            BY <2>1, CollideSym DEF Collide
        <3>2. ~InFlight(s)
            BY <3>1, <1>5 DEF Contended, InFlight
        <3> QED BY <3>1, <3>2, <1>1
    <2> SUFFICES ASSUME NEW x \in Runs, NEW y \in Runs,
                        Collide(x, y), InFlight(x)', InFlight(y)'
                 PROVE  {x, y} \cap revived # {}
        BY <1>2 DEF OverlapsQueue, Collide, PathOverlaps
    <2>2. x # r /\ y # r
        BY <2>1
    <2> QED BY <2>2, <1>1 DEF OverlapsQueue
<1> QED BY <1>3, <1>4, <1>5 DEF Ready

(* A handler's patch into a state in flight: the run was in flight, or is revived. *)
LEMMA PatchesKeeps ==
    ASSUME IInv, NEW r \in Runs, NEW s \in IN_FLIGHT_FOR_OVERLAP, handler[r] # "none",
           Patches(r, s), inFlight' \in {inFlight, inFlight \ {r}},
           NEW h \in {"none", "publish"}, handler' = [handler EXCEPT ![r] = h]
    PROVE  IInv'
<1> USE DEF IInv, TypeOK
<1>1. \A x \in Runs : InFlight(x)' => InFlight(x) \/ x \in revived'
    BY DEF Patches, Handled, InFlight
<1>2. TypeOK'
    BY DEF Patches, States, Handlers
<1>3. OverlapsQueue'
    BY <1>1, NoneTaken DEF Patches
<1>4. Handled'
    BY DEF Patches, Handled, InFlight
<1> QED BY <1>2, <1>3, <1>4

(* A run that moves from one state in flight to another. *)
LEMMA StaysInFlight ==
    ASSUME IInv, NEW r \in Runs, NEW s \in IN_FLIGHT_FOR_OVERLAP,
           ledger[r] \in IN_FLIGHT_FOR_OVERLAP, ledger' = [ledger EXCEPT ![r] = s],
           UNCHANGED <<inFlight, handler, revived>>
    PROVE  IInv'
<1> USE DEF IInv, TypeOK
<1>1. \A x \in Runs : InFlight(x)' => InFlight(x)
    BY DEF InFlight
<1>2. TypeOK'
    BY DEF States
<1>3. OverlapsQueue'
    BY <1>1, NoneTaken
<1>4. Handled'
    BY DEF Handled, InFlight
<1> QED BY <1>2, <1>3, <1>4

(* The inductive invariant. *)
THEOREM Invariance == Spec => []IInv
<1> USE RunDepsAssumption
<1>1. Init => IInv
    BY DEF Init, IInv, TypeOK, States, Handlers, OverlapsQueue, InFlight, Handled,
           IN_FLIGHT_FOR_OVERLAP
<1>2. ASSUME IInv, [Next]_vars
      PROVE  IInv'
    <2> USE <1>2 DEF IInv
    <2>1. CASE UNCHANGED vars
        BY <2>1 DEF vars, TypeOK, OverlapsQueue, InFlight, Handled
    <2>2. CASE Restart
        <3>1. PICK A \in Admitted(ledger, {}, {r \in Runs : ledger[r] \in {"queued", "implementing", "reviewing"}}) :
                Staff(A, {}, [r \in Runs |-> "none"])
            BY <2>2 DEF Restart
        <3>2. A \subseteq Runs /\ ledger' = ledger /\ revived' = revived /\ inFlight' = A
            BY <2>2, <3>1 DEF Restart, Admitted, Staff
        <3>3. TypeOK'
            BY <3>1, <3>2 DEF TypeOK, Staff, StageFor, Handlers
        <3>4. OverlapsQueue'
            <4>1. A \in Admitted(ledger', {}, {r \in Runs : ledger[r] \in {"queued", "implementing", "reviewing"}})
                BY <3>1, <3>2
            <4> QED BY <4>1, <3>2, PassTakes DEF InFlight
        <3>5. Handled'
            BY <3>1, <3>2 DEF Handled, Staff, InFlight
        <3> QED BY <3>3, <3>4, <3>5
    <2>3. ASSUME NEW r \in Runs, RunStep(r)
          PROVE  IInv'
        <3>1. CASE Create(r)
            <4>1. TypeOK'
                BY <3>1 DEF Create, TypeOK, States
            <4>2. OverlapsQueue'
                BY <3>1, NoneTaken DEF Create, TypeOK, InFlight, IN_FLIGHT_FOR_OVERLAP
            <4>3. Handled'
                BY <3>1 DEF Create, TypeOK, Handled, InFlight, IN_FLIGHT_FOR_OVERLAP, RUN_FINAL
            <4> QED BY <4>1, <4>2, <4>3
        <3>2. CASE Admit(r)
            <4>1. TypeOK'
                BY <3>2 DEF Admit, Staff, StageFor, TypeOK, Handlers
            <4>2. OverlapsQueue'
                BY <3>2, PassTakes DEF Admit, Staff, TypeOK, InFlight
            <4>3. Handled'
                BY <3>2 DEF Admit, Staff, TypeOK, Handled, InFlight
            <4> QED BY <4>1, <4>2, <4>3
        <3>3. CASE Park(r)
            <4>1. TypeOK'
                BY <3>3 DEF Park, TypeOK, States, IN_FLIGHT_FOR_OVERLAP
            <4>2. OverlapsQueue'
                BY <3>3, ParkTakes
            <4>3. Handled'
                BY <3>3 DEF Park, TypeOK, Handled, InFlight, IN_FLIGHT_FOR_OVERLAP
            <4> QED BY <4>1, <4>2, <4>3
        <3>4. CASE Provisioned(r) \/ SpawnHeld(r)
            BY <3>4, PatchesKeeps DEF Provisioned, SpawnHeld, Spawning, Frees, IN_FLIGHT_FOR_OVERLAP
        <3>5. CASE SpawnFails(r) \/ WorkerEnds(r) \/ Republish(r) \/ PublishFails(r)
            <4>1. TypeOK'
                BY <3>5 DEF SpawnFails, Spawning, WorkerEnds, Republish, PublishFails, Frees, TypeOK, Handlers
            <4>2. OverlapsQueue'
                BY <3>5, NoneTaken DEF SpawnFails, Spawning, WorkerEnds, Republish, PublishFails, Frees, TypeOK, InFlight
            <4>3. Handled'
                BY <3>5 DEF SpawnFails, Spawning, WorkerEnds, Republish, PublishFails, Frees, TypeOK, Handled,
                            InFlight, IN_FLIGHT_FOR_OVERLAP
            <4> QED BY <4>1, <4>2, <4>3
        <3>6. ASSUME NEW s \in Outcomes, Finished(r, s)
              PROVE  IInv'
            BY <3>6, PatchesKeeps DEF Finished, Outcomes, IN_FLIGHT_FOR_OVERLAP
        <3>7. CASE Published(r)
            <4>1. CASE Finalise(r, "done", inFlight, [handler EXCEPT ![r] = "none"])
                BY <4>1, FinaliseKeeps DEF TypeOK
            <4>2. CASE /\ \E s \in {"unverified", "parked"} : Patches(r, s)
                       /\ Frees(r) /\ UNCHANGED inFlight
                BY <3>7, <4>2, PatchesKeeps DEF Published, Frees, IN_FLIGHT_FOR_OVERLAP
            <4> QED BY <3>7, <4>1, <4>2 DEF Published
        <3>8. CASE Rechecked(r)
            <4>1. CASE Finalise(r, "done", inFlight, handler)
                BY <4>1, FinaliseKeeps DEF TypeOK
            <4>2. CASE /\ ledger[r] = "unverified"
                       /\ ledger' = [ledger EXCEPT ![r] = "parked"]
                       /\ UNCHANGED <<inFlight, handler, revived>>
                BY <4>2, StaysInFlight DEF IN_FLIGHT_FOR_OVERLAP
            <4> QED BY <3>8, <4>1, <4>2 DEF Rechecked
        <3>9. CASE Resume(r)
            <4>1. TypeOK'
                BY <3>9 DEF Resume, Staff, StageFor, TypeOK, States, IN_FLIGHT_FOR_OVERLAP, Handlers
            <4>2. OverlapsQueue'
                BY <3>9, NoneTaken DEF Resume, Staff, TypeOK, InFlight, IN_FLIGHT_FOR_OVERLAP
            <4>3. Handled'
                BY <3>9 DEF Resume, Staff, TypeOK, Handled, InFlight, IN_FLIGHT_FOR_OVERLAP
            <4> QED BY <4>1, <4>2, <4>3
        <3>10. CASE Cancel(r)
            BY <3>10, FinaliseKeeps DEF Cancel, TypeOK
        <3> QED BY <2>3, <3>1, <3>2, <3>3, <3>4, <3>5, <3>6, <3>7, <3>8, <3>9, <3>10 DEF RunStep
    <2> QED BY <1>2, <2>1, <2>2, <2>3 DEF Next
<1> QED BY <1>1, <1>2, PTL DEF Spec

(* Type correctness of readiness()'s inputs, for any runs, files and dependencies. *)
THEOREM TypeCorrect == Spec => []TypeOK
<1>1. IInv => TypeOK
    BY DEF IInv
<1> QED BY <1>1, Invariance, PTL

(* Two runs of one repository that declared overlapping files are never in flight *)
(* together, unless a handler's late patch revived one of them.                   *)
THEOREM OverlapCorrect == Spec => []OverlapsQueue
<1>1. IInv => OverlapsQueue
    BY DEF IInv
<1> QED BY <1>1, Invariance, PTL

-----------------------------------------------------------------------------
(***************************************************************************)
(* The safety half of WaitersMove: queued runs never wait for one another   *)
(* alone.  The dependencies that readiness() respects must not run in a     *)
(* circle; its cycle guard breaks circles of two, which may therefore be    *)
(* there in any number.  A circle of three is not broken and does wedge.    *)
(***************************************************************************)

Waits(r) == ledger[r] = "queued" /\ r \notin inFlight

\* Where a run waits, one is in flight, or is held for a person, or may be admitted by the next pass.
NoStandoff ==
    (\E r \in Runs : Waits(r)) =>
        \E s \in Runs : InFlight(s) \/ (Waits(s) /\ Ready(ledger, inFlight, s))

\* A FAILED dependency would hold its dependents for good; the supervisor writes that state nowhere.
NoneFailed == \A r \in Runs : ledger[r] # "failed"

\* A rank of the runs that goes down along every edge but those that the cycle guard drops.
Ranked(rank) ==
    /\ rank \in [Runs -> Nat]
    /\ \A r \in Runs : \A d \in Deps[r] \ {r} : (r \in Deps[d] /\ Newer(d, r)) \/ rank[d] < rank[r]

LEMMA LeastOf ==
    ASSUME NEW S \in SUBSET Nat, S # {}
    PROVE  \E x \in S : \A y \in S : ~(y < x)
<1> DEFINE R == {ss \in Nat \X Nat : ss[1] < ss[2]}
<1>1. IsWellFoundedOn(R, Nat)
    BY NatLessThanWellFounded DEF OpToRel
<1>2. \A x, y \in Nat : y < x => <<y, x>> \in R
    OBVIOUS
<1> HIDE DEF R
<1>3. PICK x \in S : \A y \in S : ~(<<y, x>> \in R)
    BY <1>1, WFMin
<1> QED BY <1>2, <1>3

\* Of the runs that wait, the one of the least rank waits for none of the others.
LEMMA LeastIsReady ==
    ASSUME NEW rank, Ranked(rank), TypeOK, NoneFailed
    PROVE  NoStandoff
<1> SUFFICES ASSUME NEW q \in Runs, Waits(q), \A s \in Runs : ~InFlight(s)
             PROVE  \E s \in Runs : Waits(s) /\ Ready(ledger, inFlight, s)
    BY DEF NoStandoff
<1> DEFINE S == {rank[r] : r \in {w \in Runs : Waits(w)}}
<1>1. S \in SUBSET Nat /\ rank[q] \in S
    BY DEF Ranked
<1> HIDE DEF S
<1>2. PICK x \in S : \A y \in S : ~(y < x)
    BY <1>1, LeastOf
<1>3. PICK r \in Runs : Waits(r) /\ x = rank[r]
    BY DEF S
<1>4. \A d \in Runs : Waits(d) => ~(rank[d] < rank[r])
    BY <1>2, <1>3 DEF S
<1>5. Owed(ledger, r) = {}
    <2> SUFFICES ASSUME NEW d \in Deps[r] \ {r}, ledger[d] \notin {"absent", "done", "cancelled"}
                 PROVE  r \in Deps[d] /\ Newer(d, r)
        BY DEF Owed
    <2>1. d \in Runs
        BY RunDepsAssumption DEF RunDepsAssumption
    <2>2. Waits(d)
        BY <2>1 DEF Waits, InFlight, TypeOK, NoneFailed, States, RUN_FINAL
    <2> QED BY <1>4, <2>1, <2>2 DEF Ranked
<1>6. Contended(ledger, inFlight, r) = {}
    BY DEF Contended, InFlight
<1> QED BY <1>3, <1>5, <1>6 DEF Ready

\* No step writes "failed".
LEMMA FailsNever ==
    ASSUME TypeOK, NoneFailed, [Next]_vars
    PROVE  NoneFailed'
<1> USE DEF TypeOK, NoneFailed
<1>1. CASE UNCHANGED vars
    BY <1>1 DEF vars
<1>2. CASE Restart
    BY <1>2 DEF Restart
<1>3. ASSUME NEW r \in Runs, RunStep(r) PROVE NoneFailed'
    <2>1. CASE Create(r) \/ Admit(r) \/ Park(r)
        BY <2>1 DEF Create, Admit, Park
    <2>2. CASE Provisioned(r) \/ SpawnHeld(r) \/ SpawnFails(r)
        BY <2>2 DEF Provisioned, SpawnHeld, SpawnFails, Patches
    <2>3. CASE WorkerEnds(r) \/ \E s \in Outcomes : Finished(r, s)
        BY <2>3 DEF WorkerEnds, Finished, Patches, Outcomes
    <2>4. CASE Republish(r) \/ Published(r) \/ PublishFails(r)
        BY <2>4 DEF Republish, Published, PublishFails, Patches, Finalise
    <2>5. CASE Rechecked(r) \/ Resume(r) \/ Cancel(r)
        BY <2>5 DEF Rechecked, Resume, Cancel, Finalise
    <2> QED BY <1>3, <2>1, <2>2, <2>3, <2>4, <2>5 DEF RunStep
<1> QED BY <1>1, <1>2, <1>3 DEF Next

(* deps.ts:79-83, the cycle guard: for any runs, files and dependencies without a circle of three or *)
(* more, runs that wait never wait for one another alone: one of them may start, or a run is in flight *)
(* or held.                                                                                           *)
THEOREM StandoffFree ==
    ASSUME NEW rank, Ranked(rank)
    PROVE  Spec => []NoStandoff
<1>1. Init => NoneFailed
    BY DEF Init, NoneFailed
<1>2. TypeOK /\ NoneFailed /\ [Next]_vars => NoneFailed'
    BY FailsNever
<1>3. TypeOK /\ NoneFailed => NoStandoff
    BY LeastIsReady
<1> QED BY <1>1, <1>2, <1>3, TypeCorrect, PTL DEF Spec
=============================================================================
