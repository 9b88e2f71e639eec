--------------------------- MODULE StaffingProofs ---------------------------
(***************************************************************************)
(* Proofs about Staffing, for every set of runs, cap, bound on lives and    *)
(* set of outside events.  A crew is Sound when it is well typed, within    *)
(* the cap, waits for each run once and has one owner per slot.  The        *)
(* operators that admission is built from map sound crews to sound crews;   *)
(* the actions are compositions of them.  The same operators keep a crew    *)
(* Tended: whatever waits has somebody left who will pump.  What an operator *)
(* may do to one run is a relation from the crew before to the crew after:   *)
(* Leaves for a final run, Keeps for a finish under way, Asks for a launch.  *)
(***************************************************************************)
EXTENDS Staffing, FiniteSetTheorems, SequenceTheorems, WellFoundedInduction, TLAPS

Crews == [workers : [Runs -> Lives \cup {NoLife}],
          staffing : [Runs -> Nat],
          pending : Seq(Job),
          life : [Runs -> [Lives -> [pc : Pcs, stage : Stages]]]]

HoldersOf(c) == {r \in Runs : Staffed(c, r)}

WithinCap(c) == Cardinality(HoldersOf(c)) <= MaxLive

WaitsOnce(c) ==
    \A i, j \in 1 .. Len(c.pending) : c.pending[i].run = c.pending[j].run => i = j

SpawnPcs == {"provision", "starting", "retiring", "registering"}
HandlePcs == {"registering", "live", "ended"}

\* A staffing value beyond the bound belongs to no life (Install refuses it).
OwnedAt(c, r) ==
    /\ c.workers[r] # NoLife /\ c.staffing[r] # NoLife => c.staffing[r] = c.workers[r]
    /\ c.staffing[r] \in Lives => c.life[r][c.staffing[r]].pc \in SpawnPcs
    /\ c.workers[r] # NoLife => c.life[r][c.workers[r]].pc \in HandlePcs

Owned(c) == \A r \in Runs : OwnedAt(c, r)

Sound(c) == c \in Crews /\ WithinCap(c) /\ WaitsOnce(c) /\ Owned(c)

Inv == TypeOK /\ Sound(crew)

-----------------------------------------------------------------------------
(* Counting *)

\* The members of a finite set of numbers that fewer than n others precede are
\* at most n: what pump() and patchRun's loop shift is bounded by the free slots.
LEMMA FirstOnes ==
    ASSUME NEW S \in SUBSET Nat, IsFiniteSet(S), NEW n \in Nat
    PROVE  LET T == {x \in S : Cardinality({y \in S : y < x}) < n}
           IN  IsFiniteSet(T) /\ Cardinality(T) <= n
<1> DEFINE Before(x) == {y \in S : y < x}
           T == {x \in S : Cardinality(Before(x)) < n}
           rank == [x \in T |-> Cardinality(Before(x))]
<1>1. \A x \in S : IsFiniteSet(Before(x)) /\ Cardinality(Before(x)) \in Nat
  BY FS_Subset, FS_CardinalityType
<1>2. ASSUME NEW x \in S, NEW y \in S, x < y
      PROVE  Cardinality(Before(x)) < Cardinality(Before(y))
  <2>1. Before(x) \cup {x} \subseteq Before(y)
    <3>1. x \in Int /\ y \in Int
      OBVIOUS
    <3>2. ASSUME NEW z \in Before(x) PROVE z \in Before(y)
      <4>1. z \in S /\ z \in Int /\ z < x
        OBVIOUS
      <4> QED BY <1>2, <3>1, <4>1
    <3>3. x \in Before(y)
      BY <1>2
    <3> HIDE DEF Before
    <3> QED BY <3>2, <3>3
  <2>2. x \notin Before(x)
    BY <1>2
  <2>3. IsFiniteSet(Before(x)) /\ IsFiniteSet(Before(y))
    BY <1>1
  <2>4. Cardinality(Before(x) \cup {x}) = Cardinality(Before(x)) + 1
    BY <2>2, <2>3, FS_AddElement
  <2>5. Cardinality(Before(x) \cup {x}) <= Cardinality(Before(y))
    BY <2>1, <2>3, FS_Subset
  <2> HIDE DEF Before
  <2> QED BY <1>1, <2>4, <2>5
<1>3. rank \in [T -> 0 .. (n - 1)]
  <2> SUFFICES ASSUME NEW x \in T PROVE Cardinality(Before(x)) \in 0 .. (n - 1)
    OBVIOUS
  <2> HIDE DEF Before
  <2> QED BY <1>1
<1>4. \A x, y \in T : rank[x] = rank[y] => x = y
  <2> SUFFICES ASSUME NEW x \in T, NEW y \in T, x # y PROVE rank[x] # rank[y]
    OBVIOUS
  <2>1. x \in Nat /\ y \in Nat /\ x \in S /\ y \in S
    OBVIOUS
  <2>2. rank[x] = Cardinality(Before(x)) /\ rank[y] = Cardinality(Before(y))
    OBVIOUS
  <2> HIDE DEF Before, rank, T
  <2>3. CASE x < y
    BY <1>1, <1>2, <2>1, <2>2, <2>3
  <2>4. CASE y < x
    BY <1>1, <1>2, <2>1, <2>2, <2>4
  <2> QED BY <2>1, <2>3, <2>4
<1>5. rank \in Injection(T, 0 .. (n - 1))
  BY <1>3, <1>4 DEF Injection, IsInjective
<1>6. IsFiniteSet(0 .. (n - 1)) /\ Cardinality(0 .. (n - 1)) = n
  BY FS_Interval
<1> HIDE DEF rank, T
<1>7. IsFiniteSet(T) /\ Cardinality(T) <= n
  BY <1>5, <1>6, FS_Injection
<1> QED BY <1>7 DEF T

\* workers.size + staffing.size counts every holder of a slot at least once.
LEMMA Slots ==
    ASSUME NEW c \in Crews
    PROVE  /\ UsedSlots(c) \in Nat
           /\ IsFiniteSet(HoldersOf(c))
           /\ Cardinality(HoldersOf(c)) \in Nat
           /\ Cardinality(HoldersOf(c)) <= UsedSlots(c)
<1> DEFINE W == {r \in Runs : c.workers[r] # NoLife}
           F == {r \in Runs : c.staffing[r] # NoLife}
<1>1. IsFiniteSet(W) /\ IsFiniteSet(F) /\ IsFiniteSet(HoldersOf(c)) /\ IsFiniteSet(W \cap F)
  BY FS_Subset, StaffingAssumption DEF HoldersOf
<1>2. HoldersOf(c) = W \cup F
  BY DEF HoldersOf, Staffed
<1>3. /\ Cardinality(W) \in Nat /\ Cardinality(F) \in Nat
      /\ Cardinality(HoldersOf(c)) \in Nat /\ Cardinality(W \cap F) \in Nat
  BY <1>1, FS_CardinalityType
<1>4. UsedSlots(c) = Cardinality(W) + Cardinality(F)
  BY DEF UsedSlots
<1>5. Cardinality(W \cup F) = Cardinality(W) + Cardinality(F) - Cardinality(W \cap F)
  BY <1>1, FS_Union
<1> HIDE DEF W, F
<1> QED BY <1>1, <1>2, <1>3, <1>4, <1>5

-----------------------------------------------------------------------------
(* The operators of admission keep a crew sound *)

LEMMA FreeLifeType ==
    ASSUME NEW c \in Crews, NEW r \in Runs
    PROVE  FreeLife(c, r) \in Nat
BY StaffingAssumption DEF FreeLife, Lives

\* launchSpawn for runs without a slot, at most as many as there are free slots.
LEMMA LaunchSound ==
    ASSUME NEW c, Sound(c), NEW jobs \in SUBSET Job,
           NEW L, L = {j.run : j \in jobs},
           \A r \in L : ~Staffed(c, r),
           L = {} \/ Cardinality(L) <= MaxLive - UsedSlots(c)
    PROVE  Sound(Launch(c, jobs))
<1> DEFINE d == Launch(c, jobs)
           stageOf(r) == (CHOOSE j \in jobs : j.run = r).stage
<1>1. c \in Crews
  BY DEF Sound
<1>2. L \subseteq Runs
  BY DEF Job
<1>3. d = [c EXCEPT !.staffing = [r \in Runs |-> IF r \in L THEN FreeLife(c, r) ELSE @[r]],
                    !.life = [r \in Runs |-> [k \in Lives |->
                       IF r \in L /\ k = FreeLife(c, r)
                       THEN [pc |-> "provision", stage |-> stageOf(r)]
                       ELSE c.life[r][k]]]]
  BY DEF Launch
<1>4. \A r \in L : stageOf(r) \in Stages
  BY DEF Job
<1> HIDE DEF stageOf
<1>5. d.workers = c.workers /\ d.pending = c.pending
  BY <1>1, <1>3 DEF Crews
<1>6. d.staffing = [r \in Runs |-> IF r \in L THEN FreeLife(c, r) ELSE c.staffing[r]]
  BY <1>1, <1>3 DEF Crews
<1>7. d.life = [r \in Runs |-> [k \in Lives |->
                       IF r \in L /\ k = FreeLife(c, r)
                       THEN [pc |-> "provision", stage |-> stageOf(r)]
                       ELSE c.life[r][k]]]
  BY <1>1, <1>3 DEF Crews
<1>8. d \in Crews
  <2>1. d.staffing \in [Runs -> Nat]
    BY <1>1, <1>6, FreeLifeType DEF Crews
  <2>2. d.life \in [Runs -> [Lives -> [pc : Pcs, stage : Stages]]]
    BY <1>1, <1>4, <1>7 DEF Crews, Pcs
  <2> HIDE DEF d
  <2> QED BY <1>1, <1>3, <2>1, <2>2 DEF Crews
<1> HIDE DEF d
<1>9. WithinCap(d)
  <2>1. HoldersOf(d) \subseteq HoldersOf(c) \cup L
    BY <1>5, <1>6 DEF HoldersOf, Staffed
  <2>2. IsFiniteSet(L) /\ IsFiniteSet(HoldersOf(c))
    BY <1>1, <1>2, FS_Subset, StaffingAssumption, Slots
  <2>3. IsFiniteSet(HoldersOf(c) \cup L)
    BY <2>2, FS_Union
  <2>4. Cardinality(HoldersOf(d)) <= Cardinality(HoldersOf(c) \cup L)
    BY <2>1, <2>3, FS_Subset
  <2>5. /\ Cardinality(HoldersOf(d)) \in Nat /\ Cardinality(HoldersOf(c)) \in Nat
        /\ UsedSlots(c) \in Nat /\ Cardinality(HoldersOf(c)) <= UsedSlots(c)
        /\ Cardinality(HoldersOf(c)) <= MaxLive /\ MaxLive \in Nat
    BY <1>1, <1>8, Slots, StaffingAssumption DEF Sound, WithinCap
  <2>6. CASE L = {}
    <3>1. HoldersOf(c) \cup L = HoldersOf(c)
      BY <2>6
    <3>2. Cardinality(HoldersOf(d)) <= Cardinality(HoldersOf(c))
      BY <2>4, <3>1, Zenon
    <3> QED BY <2>5, <3>2 DEF WithinCap
  <2>7. CASE Cardinality(L) <= MaxLive - UsedSlots(c)
    <3>1. /\ Cardinality(HoldersOf(c) \cup L)
              = Cardinality(HoldersOf(c)) + Cardinality(L) - Cardinality(HoldersOf(c) \cap L)
          /\ Cardinality(HoldersOf(c) \cap L) \in Nat
          /\ Cardinality(L) \in Nat
      BY <2>2, FS_Union, FS_CardinalityType, FS_Subset
    <3> QED BY <2>4, <2>5, <2>7, <3>1 DEF WithinCap
  <2> QED BY <2>6, <2>7
<1>10. WaitsOnce(d)
  BY <1>5 DEF WaitsOnce, Sound
<1>11. Owned(d)
  <2> SUFFICES ASSUME NEW r \in Runs PROVE OwnedAt(d, r)
    BY DEF Owned
  <2>1. CASE r \in L
    <3>1. c.workers[r] = NoLife /\ d.workers[r] = NoLife
      BY <1>5, <2>1 DEF Staffed
    <3>2. d.staffing[r] = FreeLife(c, r)
      BY <1>6, <2>1
    <3>3. d.staffing[r] \in Lives => d.life[r][d.staffing[r]].pc = "provision"
      BY <1>7, <2>1, <3>2
    <3> QED BY <3>1, <3>3 DEF OwnedAt, SpawnPcs
  <2>2. CASE r \notin L
    <3>1. d.workers[r] = c.workers[r] /\ d.staffing[r] = c.staffing[r]
      BY <1>5, <1>6, <2>2
    <3>2. \A k \in Lives : d.life[r][k] = c.life[r][k]
      BY <1>7, <2>2
    <3>3. c.workers[r] \in Lives \cup {NoLife}
      BY <1>1 DEF Crews
    <3> QED BY <3>1, <3>2, <3>3 DEF Owned, OwnedAt, Sound
  <2> QED BY <2>1, <2>2
<1> QED BY <1>8, <1>9, <1>10, <1>11 DEF Sound, d

\* A change of this.pending alone that leaves one entry a run.
LEMMA PendingSound ==
    ASSUME NEW c, Sound(c), NEW p \in Seq(Job),
           \A i, j \in 1 .. Len(p) : p[i].run = p[j].run => i = j
    PROVE  Sound([c EXCEPT !.pending = p])
<1> DEFINE d == [c EXCEPT !.pending = p]
<1>1. c \in Crews
  BY DEF Sound
<1>2. /\ d.workers = c.workers /\ d.staffing = c.staffing /\ d.life = c.life
      /\ d.pending = p /\ d \in Crews
  BY <1>1 DEF Crews
<1> HIDE DEF d
<1>3. HoldersOf(d) = HoldersOf(c)
  BY <1>2 DEF HoldersOf, Staffed
<1>4. WithinCap(d) /\ WaitsOnce(d) /\ Owned(d)
  BY <1>2, <1>3 DEF Sound, WithinCap, WaitsOnce, Owned, OwnedAt
<1> QED BY <1>2, <1>4 DEF Sound, d

LEMMA SpawnGuardedSound ==
    ASSUME NEW c, Sound(c), NEW st, NEW r \in Runs, NEW stage \in Stages
    PROVE  Sound(SpawnGuarded(c, st, r, stage))
<1> DEFINE job == [run |-> r, stage |-> stage]
<1>1. c \in Crews /\ c.pending \in Seq(Job) /\ job \in Job
  BY DEF Sound, Crews, Job
<1>2. CASE ~Staffed(c, r) /\ ~AtCap(c)
  <2>1. {r} = {j.run : j \in {job}}
    OBVIOUS
  <2>2. Cardinality({r}) <= MaxLive - UsedSlots(c)
    <3>1. Cardinality({r}) = 1
      BY FS_Singleton
    <3> QED BY <1>1, <1>2, <3>1, Slots, StaffingAssumption DEF AtCap
  <2>3. {job} \in SUBSET Job
    BY <1>1
  <2> HIDE DEF job
  <2>4. Sound(Launch(c, {job}))
    BY <1>2, <2>1, <2>2, <2>3, LaunchSound
  <2> QED BY <1>2, <2>4 DEF SpawnGuarded, job
<1>3. CASE ~IsPending(c, r)
  <2> DEFINE p == Append(c.pending, job)
  <2>1. /\ p \in Seq(Job) /\ Len(p) = Len(c.pending) + 1 /\ Len(c.pending) \in Nat
        /\ \A i \in 1 .. Len(c.pending) : p[i] = c.pending[i]
        /\ p[Len(c.pending) + 1] = job
    BY <1>1, AppendProperties, LenProperties
  <2>2. \A i \in 1 .. Len(c.pending) : p[i].run # job.run
    BY <1>3, <2>1 DEF IsPending
  <2> HIDE DEF p, job
  <2>3. \A i, j \in 1 .. Len(p) : p[i].run = p[j].run => i = j
    <3> SUFFICES ASSUME NEW i \in 1 .. Len(p), NEW j \in 1 .. Len(p), p[i].run = p[j].run
                 PROVE  i = j
      OBVIOUS
    <3>1. CASE i <= Len(c.pending) /\ j <= Len(c.pending)
      BY <2>1, <3>1 DEF Sound, WaitsOnce
    <3>2. CASE i > Len(c.pending) /\ j <= Len(c.pending)
      <4>1. i = Len(c.pending) + 1 /\ j \in 1 .. Len(c.pending)
        BY <2>1, <3>2
      <4> QED BY <2>1, <2>2, <4>1
    <3>3. CASE i <= Len(c.pending) /\ j > Len(c.pending)
      <4>1. j = Len(c.pending) + 1 /\ i \in 1 .. Len(c.pending)
        BY <2>1, <3>3
      <4> QED BY <2>1, <2>2, <4>1
    <3> QED BY <2>1, <3>1, <3>2, <3>3
  <2>4. Sound([c EXCEPT !.pending = p])
    BY <2>1, <2>3, PendingSound
  <2>5. SpawnGuarded(c, st, r, stage) \in {c, Launch(c, {job}), [c EXCEPT !.pending = p]}
    BY DEF SpawnGuarded, p, job
  <2> QED BY <1>2, <2>4 DEF SpawnGuarded, p, job
<1>4. CASE Staffed(c, r) \/ (AtCap(c) /\ IsPending(c, r))
  BY <1>4 DEF SpawnGuarded
<1> QED BY <1>2, <1>3, <1>4

LEMMA PumpSound ==
    ASSUME NEW c, Sound(c), NEW st
    PROVE  Sound(Pump(c, st))
<1> DEFINE able(i) == /\ st[c.pending[i].run] \notin RUN_TERMINAL
                      /\ ~Staffed(c, c.pending[i].run)
           ahead(i) == {j \in 1 .. (i - 1) : able(j)}
           n == MaxLive - UsedSlots(c)
           I == 1 .. Len(c.pending)
           shifted == {i \in I : Cardinality(ahead(i)) < n}
           S == {i \in I : able(i)}
           T == {i \in S : Cardinality({j \in S : j < i}) < n}
           jobs == {c.pending[i] : i \in {i \in shifted : able(i)}}
           L == {j.run : j \in jobs}
           rest == SubSeq(c.pending, Cardinality(shifted) + 1, Len(c.pending))
<1>1. c \in Crews /\ c.pending \in Seq(Job) /\ Len(c.pending) \in Nat
  BY LenProperties DEF Sound, Crews
<1>2. \A i \in I : c.pending[i] \in Job
  BY <1>1, ElementOfSeq
<1>3. n \in Int /\ IsFiniteSet(I) /\ IsFiniteSet(S) /\ S \in SUBSET Nat
  <2>1. n \in Int
    BY <1>1, Slots, StaffingAssumption
  <2>2. IsFiniteSet(I)
    BY <1>1, FS_Interval
  <2>3. IsFiniteSet(S)
    BY <2>2, FS_Subset
  <2> QED BY <2>1, <2>2, <2>3
<1>4. {i \in shifted : able(i)} = T
  <2>1. \A i \in I : ahead(i) = {j \in S : j < i}
    <3> SUFFICES ASSUME NEW i \in I, NEW j
                 PROVE  j \in ahead(i) <=> j \in S /\ j < i
      OBVIOUS
    <3> HIDE DEF able
    <3> QED BY <1>1
  <2> HIDE DEF able, ahead, n
  <2> QED BY <2>1
<1>5. L = {c.pending[i].run : i \in T}
  <2> HIDE DEF able, shifted, T
  <2> QED BY <1>4
<1>6. L = {} \/ Cardinality(L) <= n
  <2>1. CASE n <= 0
    <3>1. \A i \in S : Cardinality({j \in S : j < i}) \in Nat
      BY <1>3, FS_Subset, FS_CardinalityType
    <3>2. T = {}
      <4> SUFFICES ASSUME NEW i \in S PROVE ~(Cardinality({j \in S : j < i}) < n)
        OBVIOUS
      <4> DEFINE k == Cardinality({j \in S : j < i})
      <4>1. k \in Nat
        BY <3>1
      <4> HIDE DEF k, n
      <4> QED BY <1>3, <2>1, <4>1 DEF k
    <3> HIDE DEF T, L
    <3> QED BY <1>5, <3>2
  <2>2. CASE n > 0
    <3> DEFINE f == [i \in T |-> c.pending[i].run]
    <3>1. n \in Nat
      BY <1>3, <2>2
    <3> HIDE DEF S, n
    <3>2. IsFiniteSet(T) /\ Cardinality(T) <= n
      BY <1>3, <3>1, FirstOnes
    <3> HIDE DEF T, L
    <3>3. f \in Surjection(T, L)
      BY <1>5 DEF Surjection
    <3>4. IsFiniteSet(L) /\ Cardinality(L) <= Cardinality(T)
      BY <3>2, <3>3, FS_Surjection
    <3>5. Cardinality(L) \in Nat /\ Cardinality(T) \in Nat
      BY <3>2, <3>4, FS_CardinalityType
    <3> QED BY <3>1, <3>2, <3>4, <3>5
  <2> HIDE DEF n, L
  <2> QED BY <1>3, <2>1, <2>2
<1>7. \A r \in L : ~Staffed(c, r)
  <2>1. \A i \in T : ~Staffed(c, c.pending[i].run)
    OBVIOUS
  <2> HIDE DEF T, L
  <2> QED BY <1>5, <2>1
<1>8. jobs \in SUBSET Job
  BY <1>2
<1>9. Sound(Launch(c, jobs))
  <2>1. L = {j.run : j \in jobs}
    OBVIOUS
  <2> HIDE DEF jobs, L
  <2> QED BY <1>6, <1>7, <1>8, <2>1, LaunchSound
<1>10. Cardinality(shifted) \in Nat /\ Cardinality(shifted) <= Len(c.pending)
  <2>1. Cardinality(I) = Len(c.pending)
    BY <1>1, FS_Interval
  <2>2. shifted \in SUBSET I
    OBVIOUS
  <2> HIDE DEF shifted, I
  <2> QED BY <1>3, <2>1, <2>2, FS_Subset, FS_CardinalityType
<1>11. rest \in Seq(Job) /\ \A i, j \in 1 .. Len(rest) : rest[i].run = rest[j].run => i = j
  <2> HIDE DEF shifted
  <2> DEFINE m == Cardinality(shifted) + 1
  <2>1. m \in Nat /\ m >= 1
    BY <1>10
  <2>2. \A i \in m .. Len(c.pending) : c.pending[i] \in Job
    BY <1>1, <1>2, <2>1
  <2>3. /\ rest \in Seq(Job)
        /\ Len(rest) = IF m <= Len(c.pending) THEN Len(c.pending) - m + 1 ELSE 0
        /\ \A i \in 1 .. Len(c.pending) - m + 1 : rest[i] = c.pending[m + i - 1]
    <3> HIDE DEF m
    <3> QED BY <1>1, <2>1, <2>2, SubSeqProperties DEF m
  <2> HIDE DEF m, rest
  <2>4. ASSUME NEW i \in 1 .. Len(rest), NEW j \in 1 .. Len(rest), rest[i].run = rest[j].run
        PROVE  i = j
    <3>1. /\ m + i - 1 \in 1 .. Len(c.pending) /\ rest[i] = c.pending[m + i - 1]
          /\ m + j - 1 \in 1 .. Len(c.pending) /\ rest[j] = c.pending[m + j - 1]
      BY <1>1, <2>1, <2>3
    <3>2. m + i - 1 = m + j - 1
      BY <2>4, <3>1 DEF Sound, WaitsOnce
    <3> QED BY <2>1, <3>2
  <2> QED BY <2>3, <2>4
<1>12. Pump(c, st) = [Launch(c, jobs) EXCEPT !.pending = rest]
  BY DEF Pump
<1> HIDE DEF jobs, rest
<1> QED BY <1>9, <1>11, <1>12, PendingSound

\* patchRun's re-admission of the queued runs, oldest first.
LEMMA ReadmitSound ==
    ASSUME NEW c, Sound(c), NEW st, NEW d \in ReadmitQueued(c, st)
    PROVE  Sound(d)
<1> DEFINE n == MaxLive - UsedSlots(c)
           all == Admissible(c, st)
           first == {r \in all : Cardinality({s \in all : s < r}) < n}
           late == {r \in all \ first : ~IsPending(c, r)}
           jobs == {ImplementJob(r) : r \in first}
           N == Cardinality(late)
<1>1. c \in Crews /\ c.pending \in Seq(Job) /\ Len(c.pending) \in Nat /\ n \in Int
  <2>1. c \in Crews /\ c.pending \in Seq(Job)
    BY DEF Sound, Crews
  <2>2. UsedSlots(c) \in Nat /\ MaxLive \in Nat
    BY <2>1, Slots, StaffingAssumption
  <2> QED BY <2>1, <2>2, LenProperties
<1>2. all \in SUBSET Runs /\ all \in SUBSET Nat /\ IsFiniteSet(all)
  BY FS_Subset, StaffingAssumption DEF Admissible
<1>3. first = {} \/ Cardinality(first) <= n
  <2> HIDE DEF all, n
  <2>1. CASE n <= 0
    <3> SUFFICES ASSUME NEW r \in all PROVE ~(Cardinality({s \in all : s < r}) < n)
      OBVIOUS
    <3> DEFINE k == Cardinality({s \in all : s < r})
    <3>1. k \in Nat
      BY <1>2, FS_Subset, FS_CardinalityType
    <3> HIDE DEF k
    <3> QED BY <1>1, <2>1, <3>1 DEF k
  <2>2. CASE n > 0
    <3>1. n \in Nat
      BY <1>1, <2>2
    <3> QED BY <1>2, <3>1, FirstOnes
  <2> QED BY <1>1, <2>1, <2>2
<1>4. \A r \in first : ~Staffed(c, r)
  BY DEF Admissible
<1>5. first \in SUBSET Runs /\ late \in SUBSET Runs /\ \A r \in late : ~IsPending(c, r)
  BY <1>2
<1> HIDE DEF first, late, all, n
<1>6. Sound(Launch(c, jobs))
  <2>1. jobs \in SUBSET Job
    BY <1>5 DEF ImplementJob, Job, Stages
  <2>2. \A r \in first : ImplementJob(r) \in jobs /\ ImplementJob(r).run = r
    BY DEF ImplementJob
  <2>3. \A j \in jobs : j.run \in first
    BY DEF ImplementJob
  <2>4. first = {j.run : j \in jobs}
    <3> HIDE DEF jobs
    <3>1. \A r \in first : \E j \in jobs : r = j.run
      BY <2>2
    <3> QED BY <2>3, <3>1
  <2> HIDE DEF jobs
  <2> QED BY <1>3, <1>4, <2>1, <2>4, LaunchSound DEF n
<1>7. PICK tail \in Oldest(late) : d = [Launch(c, jobs) EXCEPT !.pending = @ \o tail]
  BY DEF ReadmitQueued, first, late, all, n
<1>8. PICK q \in [1 .. N -> late] :
         /\ \A i, j \in 1 .. N : i < j => q[i] < q[j]
         /\ tail = [i \in 1 .. N |-> ImplementJob(q[i])]
  BY <1>7 DEF Oldest
<1>9. IsFiniteSet(late) /\ N \in Nat
  BY <1>5, StaffingAssumption, FS_Subset, FS_CardinalityType
<1> HIDE DEF N
<1>10. /\ tail \in Seq(Job) /\ Len(tail) = N
       /\ \A i \in 1 .. N : tail[i].run = q[i] /\ tail[i].run \in late
  <2>1. tail \in [1 .. N -> Job]
    BY <1>5, <1>8 DEF ImplementJob, Job, Stages
  <2>2. tail \in Seq(Job)
    BY <1>9, <2>1, SeqDef
  <2>3. Len(tail) = N
    BY <1>9, <2>1, <2>2, LenProperties
  <2>4. \A i \in 1 .. N : tail[i].run = q[i] /\ q[i] \in late
    BY <1>8 DEF ImplementJob
  <2> QED BY <2>2, <2>3, <2>4
<1>11. \A i, j \in 1 .. N : q[i] = q[j] => i = j
  <2> SUFFICES ASSUME NEW i \in 1 .. N, NEW j \in 1 .. N, i # j PROVE q[i] # q[j]
    OBVIOUS
  <2>1. q[i] \in Nat /\ q[j] \in Nat
    BY <1>5, StaffingAssumption
  <2>2. i \in Nat /\ j \in Nat
    BY <1>9
  <2> QED BY <1>8, <2>1, <2>2
<1> DEFINE p == c.pending \o tail
<1>12. /\ p \in Seq(Job) /\ Len(p) = Len(c.pending) + N
       /\ \A i \in 1 .. Len(p) : p[i] = IF i <= Len(c.pending) THEN c.pending[i]
                                                            ELSE tail[i - Len(c.pending)]
  BY <1>1, <1>10, ConcatProperties
<1> HIDE DEF p
<1>13. \A i, j \in 1 .. Len(p) : p[i].run = p[j].run => i = j
  <2> SUFFICES ASSUME NEW i \in 1 .. Len(p), NEW j \in 1 .. Len(p), p[i].run = p[j].run
               PROVE  i = j
    OBVIOUS
  <2> DEFINE l == Len(c.pending)
  <2>1. \A a \in 1 .. Len(p) :
          \/ a \in 1 .. l /\ p[a] = c.pending[a]
          \/ a - l \in 1 .. N /\ p[a] = tail[a - l]
    BY <1>1, <1>9, <1>12
  <2>2. \A a \in 1 .. l : c.pending[a].run \notin late
    BY <1>5 DEF IsPending
  <2>3. \A a, b \in 1 .. l : c.pending[a].run = c.pending[b].run => a = b
    BY DEF Sound, WaitsOnce
  <2> HIDE DEF l
  <2>4. CASE i \in 1 .. l /\ p[i] = c.pending[i]
    BY <1>10, <2>1, <2>2, <2>3, <2>4
  <2>5. CASE i - l \in 1 .. N /\ p[i] = tail[i - l]
    <3>1. j - l \in 1 .. N /\ p[j] = tail[j - l]
      BY <1>10, <2>1, <2>2, <2>5
    <3>2. i - l = j - l
      BY <1>10, <1>11, <2>5, <3>1
    <3>3. i \in Int /\ j \in Int /\ l \in Int
      BY <1>1, <1>9, <1>12 DEF l
    <3> QED BY <3>2, <3>3
  <2> QED BY <2>1, <2>4, <2>5
<1>14. d = [Launch(c, jobs) EXCEPT !.pending = p]
  <2>1. Launch(c, jobs).pending = c.pending
    BY <1>1 DEF Launch, Crews
  <2> HIDE DEF jobs
  <2> QED BY <1>7, <2>1 DEF p
<1> HIDE DEF jobs
<1> QED BY <1>6, <1>12, <1>13, <1>14, PendingSound

LEMMA PatchedSound ==
    ASSUME NEW c, Sound(c), NEW r, NEW s, NEW d \in Patched(r, s, c)
    PROVE  Sound(d)
BY ReadmitSound DEF Patched

\* An edit of one run's reservation, handle and lives that takes no new slot.
LEMMA EditSound ==
    ASSUME NEW c, Sound(c), NEW d \in Crews, d.pending = c.pending, NEW r \in Runs,
           \A q \in Runs \ {r} : /\ d.workers[q] = c.workers[q]
                               /\ d.staffing[q] = c.staffing[q]
                               /\ d.life[q] = c.life[q],
           Staffed(d, r) => Staffed(c, r),
           OwnedAt(d, r)
    PROVE  Sound(d)
<1>1. c \in Crews
  BY DEF Sound
<1>2. Owned(d)
  <2> SUFFICES ASSUME NEW q \in Runs \ {r} PROVE OwnedAt(d, q)
    BY DEF Owned
  <2>1. OwnedAt(c, q)
    BY DEF Sound, Owned
  <2> QED BY <2>1 DEF OwnedAt
<1>3. WaitsOnce(d)
  BY DEF Sound, WaitsOnce
<1>4. WithinCap(d)
  <2>1. HoldersOf(d) \subseteq HoldersOf(c)
    BY DEF HoldersOf, Staffed
  <2>2. Cardinality(HoldersOf(d)) <= Cardinality(HoldersOf(c))
    BY <1>1, <2>1, Slots, FS_Subset
  <2>3. /\ Cardinality(HoldersOf(d)) \in Nat /\ Cardinality(HoldersOf(c)) \in Nat
        /\ Cardinality(HoldersOf(c)) <= MaxLive /\ MaxLive \in Nat
    BY <1>1, Slots, StaffingAssumption DEF Sound, WithinCap
  <2> QED BY <2>2, <2>3 DEF WithinCap
<1> QED BY <1>2, <1>3, <1>4 DEF Sound

LEMMA DropPendingSound ==
    ASSUME NEW c, Sound(c), NEW r
    PROVE  Sound(DropPending(c, r))
<1>1. CASE ~IsPending(c, r)
  BY <1>1 DEF DropPending
<1>2. CASE IsPending(c, r)
  <2> DEFINE l == Len(c.pending)
             i == CHOOSE i \in 1 .. Len(c.pending) : c.pending[i].run = r
             s1 == SubSeq(c.pending, 1, i - 1)
             s2 == SubSeq(c.pending, i + 1, Len(c.pending))
             p == s1 \o s2
  <2>1. c \in Crews /\ c.pending \in Seq(Job)
    BY DEF Sound, Crews
  <2>2. l \in Nat /\ \A k \in 1 .. l : c.pending[k] \in Job
    BY <2>1, LenProperties, ElementOfSeq
  <2>3. i \in 1 .. l
    BY <1>2 DEF IsPending
  <2> HIDE DEF i, l
  <2>4. /\ s1 \in Seq(Job) /\ Len(s1) = i - 1
        /\ \A k \in 1 .. i - 1 : s1[k] = c.pending[k]
    <3>1. \A k \in 1 .. i - 1 : c.pending[k] \in Job
      BY <2>2, <2>3
    <3>2. i - 1 \in Int /\ i \in Int /\ 1 <= i
      BY <2>2, <2>3
    <3>3. /\ s1 \in Seq(Job) /\ Len(s1) = IF 1 <= i - 1 THEN (i - 1) - 1 + 1 ELSE 0
          /\ \A k \in 1 .. (i - 1) - 1 + 1 : s1[k] = c.pending[1 + k - 1]
      BY <3>1, <3>2, SubSeqProperties
    <3> QED BY <3>2, <3>3
  <2>5. /\ s2 \in Seq(Job) /\ Len(s2) = l - i
        /\ \A k \in 1 .. l - i : s2[k] = c.pending[i + k]
    <3>1. \A k \in i + 1 .. l : c.pending[k] \in Job
      BY <2>2, <2>3
    <3>2. i + 1 \in Int /\ i \in Int /\ l \in Int /\ i <= l
      BY <2>2, <2>3
    <3>3. /\ s2 \in Seq(Job) /\ Len(s2) = IF i + 1 <= l THEN l - (i + 1) + 1 ELSE 0
          /\ \A k \in 1 .. l - (i + 1) + 1 : s2[k] = c.pending[(i + 1) + k - 1]
      BY <3>1, <3>2, SubSeqProperties DEF l
    <3> QED BY <3>2, <3>3
  <2> HIDE DEF s1, s2
  <2>6. /\ p \in Seq(Job) /\ Len(p) = l - 1
        /\ \A k \in 1 .. Len(p) : p[k] = IF k < i THEN c.pending[k] ELSE c.pending[k + 1]
    <3>1. /\ p \in Seq(Job) /\ Len(p) = Len(s1) + Len(s2)
          /\ \A k \in 1 .. Len(s1) + Len(s2) : p[k] =
                  IF k <= Len(s1) THEN s1[k] ELSE s2[k - Len(s1)]
      BY <2>4, <2>5, ConcatProperties
    <3> HIDE DEF p
    <3>2. Len(p) = l - 1
      BY <2>2, <2>3, <2>4, <2>5, <3>1
    <3>3. ASSUME NEW k \in 1 .. Len(p), k < i PROVE p[k] = c.pending[k]
      BY <2>2, <2>3, <2>4, <2>5, <3>1, <3>2, <3>3
    <3>4. ASSUME NEW k \in 1 .. Len(p), ~(k < i) PROVE p[k] = c.pending[k + 1]
      <4>1. k - (i - 1) \in 1 .. l - i /\ k \in 1 .. Len(s1) + Len(s2) /\ ~(k <= Len(s1))
        BY <2>2, <2>3, <2>4, <2>5, <3>2, <3>4
      <4>2. p[k] = c.pending[i + (k - (i - 1))]
        BY <2>4, <2>5, <3>1, <4>1
      <4>3. i + (k - (i - 1)) = k + 1
        BY <2>2, <2>3, <3>2
      <4> QED BY <4>2, <4>3
    <3> QED BY <3>1, <3>2, <3>3, <3>4
  <2> HIDE DEF p
  <2>7. ASSUME NEW a \in 1 .. Len(p), NEW b \in 1 .. Len(p), p[a].run = p[b].run
        PROVE  a = b
    <3> DEFINE at(k) == IF k < i THEN k ELSE k + 1
    <3>1. \A k \in 1 .. Len(p) : at(k) \in 1 .. l /\ p[k] = c.pending[at(k)]
      BY <2>2, <2>3, <2>6
    <3>2. at(a) = at(b)
      <4> HIDE DEF at
      <4> QED BY <2>7, <3>1 DEF Sound, WaitsOnce, l
    <3> QED BY <2>2, <2>3, <2>6, <3>2
  <2>8. Sound([c EXCEPT !.pending = p])
    BY <2>6, <2>7, PendingSound
  <2> QED BY <1>2, <2>1, <2>8 DEF DropPending, p, s1, s2, i, Crews
<1> QED BY <1>1, <1>2

-----------------------------------------------------------------------------
(* The edits a handler makes to its own run *)

LEMMA SetPcFacts ==
    ASSUME NEW c \in Crews, NEW r \in Runs, NEW k \in Lives, NEW pc \in Pcs
    PROVE  LET d == SetPc(c, r, k, pc)
           IN  /\ d \in Crews /\ d.pending = c.pending
               /\ d.workers = c.workers /\ d.staffing = c.staffing
               /\ \A q \in Runs \ {r} : d.life[q] = c.life[q]
               /\ d.life[r][k].pc = pc
               /\ \A j \in Lives \ {k} : d.life[r][j] = c.life[r][j]
<1> DEFINE l == [c.life[r][k] EXCEPT !.pc = pc]
           m == [c.life EXCEPT ![r] = [c.life[r] EXCEPT ![k] = l]]
<1>1. c.life \in [Runs -> [Lives -> [pc : Pcs, stage : Stages]]]
  BY DEF Crews
<1>2. l \in [pc : Pcs, stage : Stages] /\ l.pc = pc
  BY <1>1
<1> HIDE DEF l
<1>3. /\ m \in [Runs -> [Lives -> [pc : Pcs, stage : Stages]]]
      /\ \A q \in Runs \ {r} : m[q] = c.life[q]
      /\ m[r][k] = l
      /\ \A j \in Lives \ {k} : m[r][j] = c.life[r][j]
  BY <1>1, <1>2
<1>4. SetPc(c, r, k, pc) = [c EXCEPT !.life = m]
  BY DEF SetPc, l, m
<1> HIDE DEF m
<1> QED BY <1>2, <1>3, <1>4 DEF Crews

LEMMA EndedFacts ==
    ASSUME NEW c \in Crews, NEW r \in Runs, NEW k \in Lives
    PROVE  LET d == Ended(c, r, k)
           IN  /\ d \in Crews /\ d.pending = c.pending
               /\ d.workers = c.workers /\ d.staffing = c.staffing
               /\ \A q \in Runs \ {r} : d.life[q] = c.life[q]
               /\ \A j \in Lives \ {k} : d.life[r][j] = c.life[r][j]
<1>1. Unused \in [pc : Pcs, stage : Stages]
  BY DEF Unused, Pcs, Stages
<1> QED BY <1>1 DEF Ended, Crews

LEMMA ReleasedFacts ==
    ASSUME NEW c \in Crews, NEW r \in Runs, NEW k \in Lives
    PROVE  LET d == Released(c, r, k)
           IN  /\ d \in Crews /\ d.pending = c.pending
               /\ d.workers = c.workers /\ d.life = c.life
               /\ \A q \in Runs \ {r} : d.staffing[q] = c.staffing[q]
               /\ d.staffing[r] = IF c.staffing[r] = k THEN NoLife ELSE c.staffing[r]
BY DEF Released, Crews, NoLife

\* A spawn moves on without taking or giving up its slot.
LEMMA SetPcSound ==
    ASSUME NEW c, Sound(c), NEW r \in Runs, NEW k \in Lives, NEW pc \in Pcs,
           c.staffing[r] = k => pc \in SpawnPcs,
           c.workers[r] = k => pc \in HandlePcs
    PROVE  Sound(SetPc(c, r, k, pc))
<1> DEFINE d == SetPc(c, r, k, pc)
<1>1. c \in Crews /\ OwnedAt(c, r)
  BY DEF Sound, Owned
<1>2. /\ d \in Crews /\ d.pending = c.pending
      /\ d.workers = c.workers /\ d.staffing = c.staffing
      /\ \A q \in Runs \ {r} : d.life[q] = c.life[q]
      /\ d.life[r][k].pc = pc
      /\ \A j \in Lives \ {k} : d.life[r][j] = c.life[r][j]
  BY <1>1, SetPcFacts
<1> HIDE DEF d
<1>3. Staffed(d, r) => Staffed(c, r)
  BY <1>2 DEF Staffed
<1>4. OwnedAt(d, r)
  BY <1>1, <1>2 DEF OwnedAt, Crews
<1>5. Sound(d)
  BY <1>2, <1>3, <1>4, EditSound
<1> QED BY <1>5 DEF d

\* launchSpawn's finally after a spawn that came to nothing.
LEMMA RetiredSound ==
    ASSUME NEW c, Sound(c), NEW r \in Runs, NEW k \in Lives,
           c.life[r][k].pc \notin HandlePcs
    PROVE  Sound(Released(Ended(c, r, k), r, k))
<1> DEFINE b == Ended(c, r, k)
           d == Released(b, r, k)
<1>1. c \in Crews /\ OwnedAt(c, r)
  BY DEF Sound, Owned
<1>2. /\ b \in Crews /\ b.pending = c.pending
      /\ b.workers = c.workers /\ b.staffing = c.staffing
      /\ \A q \in Runs \ {r} : b.life[q] = c.life[q]
      /\ \A j \in Lives \ {k} : b.life[r][j] = c.life[r][j]
  BY <1>1, EndedFacts
<1> HIDE DEF b
<1>3. /\ d \in Crews /\ d.pending = b.pending
      /\ d.workers = b.workers /\ d.life = b.life
      /\ \A q \in Runs \ {r} : d.staffing[q] = b.staffing[q]
      /\ d.staffing[r] = IF b.staffing[r] = k THEN NoLife ELSE b.staffing[r]
  BY <1>2, ReleasedFacts
<1> HIDE DEF d
<1>4. Staffed(d, r) => Staffed(c, r)
  BY <1>2, <1>3 DEF Staffed
<1>5. OwnedAt(d, r)
  <2>1. c.workers[r] # k /\ c.workers[r] \in Lives \cup {NoLife}
    BY <1>1 DEF OwnedAt, Crews, Lives, NoLife
  <2>2. d.staffing[r] \in Lives => d.staffing[r] = c.staffing[r] /\ c.staffing[r] # k
    BY <1>2, <1>3 DEF Lives, NoLife
  <2>3. d.staffing[r] # NoLife => d.staffing[r] = c.staffing[r]
    BY <1>2, <1>3
  <2> QED BY <1>1, <1>2, <1>3, <2>1, <2>2, <2>3 DEF OwnedAt
<1>6. Sound(d)
  BY <1>2, <1>3, <1>4, <1>5, EditSound
<1> QED BY <1>6 DEF d, b

\* A life is over that neither reserves nor is registered.
LEMMA EndedSound ==
    ASSUME NEW c, Sound(c), NEW r \in Runs, NEW k \in Lives,
           c.life[r][k].pc \notin SpawnPcs, c.workers[r] # k
    PROVE  Sound(Ended(c, r, k))
<1> DEFINE d == Ended(c, r, k)
<1>1. c \in Crews /\ OwnedAt(c, r)
  BY DEF Sound, Owned
<1>2. /\ d \in Crews /\ d.pending = c.pending
      /\ d.workers = c.workers /\ d.staffing = c.staffing
      /\ \A q \in Runs \ {r} : d.life[q] = c.life[q]
      /\ \A j \in Lives \ {k} : d.life[r][j] = c.life[r][j]
  BY <1>1, EndedFacts
<1> HIDE DEF d
<1>3. Staffed(d, r) => Staffed(c, r)
  BY <1>2 DEF Staffed
<1>4. OwnedAt(d, r)
  <2>1. c.workers[r] # k /\ c.workers[r] \in Lives \cup {NoLife}
    BY <1>1 DEF Crews
  <2>2. c.staffing[r] \in Lives => c.staffing[r] # k
    BY <1>1 DEF OwnedAt
  <2> QED BY <1>1, <1>2, <2>1, <2>2 DEF OwnedAt
<1>5. Sound(d)
  BY <1>2, <1>3, <1>4, EditSound
<1> QED BY <1>5 DEF d

\* doSpawn is through: the reservation is exchanged for the handle.
LEMMA RegisteredSound ==
    ASSUME NEW c, Sound(c), NEW r \in Runs, NEW k \in Lives
    PROVE  Sound(Released(SetPc(c, r, k, "live"), r, k))
<1> DEFINE b == SetPc(c, r, k, "live")
           d == Released(b, r, k)
<1>1. c \in Crews /\ OwnedAt(c, r) /\ "live" \in Pcs
  BY DEF Sound, Owned, Pcs
<1>2. /\ b \in Crews /\ b.pending = c.pending
      /\ b.workers = c.workers /\ b.staffing = c.staffing
      /\ \A q \in Runs \ {r} : b.life[q] = c.life[q]
      /\ b.life[r][k].pc = "live"
      /\ \A j \in Lives \ {k} : b.life[r][j] = c.life[r][j]
  BY <1>1, SetPcFacts
<1> HIDE DEF b
<1>3. /\ d \in Crews /\ d.pending = b.pending
      /\ d.workers = b.workers /\ d.life = b.life
      /\ \A q \in Runs \ {r} : d.staffing[q] = b.staffing[q]
      /\ d.staffing[r] = IF b.staffing[r] = k THEN NoLife ELSE b.staffing[r]
  BY <1>2, ReleasedFacts
<1> HIDE DEF d
<1>4. Staffed(d, r) => Staffed(c, r)
  BY <1>2, <1>3 DEF Staffed
<1>5. OwnedAt(d, r)
  BY <1>1, <1>2, <1>3 DEF OwnedAt, Crews, Lives, NoLife, HandlePcs
<1>6. Sound(d)
  BY <1>2, <1>3, <1>4, <1>5, EditSound
<1> QED BY <1>6 DEF d, b

\* spawnWorker returned while the reservation still stands.
LEMMA StartedSound ==
    ASSUME NEW c, Sound(c), NEW r \in Runs, NEW k \in Lives, c.staffing[r] = k
    PROVE  Sound([SetPc(c, r, k, "registering") EXCEPT !.workers[r] = k])
<1> DEFINE b == SetPc(c, r, k, "registering")
           d == [b EXCEPT !.workers[r] = k]
<1>1. c \in Crews /\ OwnedAt(c, r) /\ "registering" \in Pcs
  BY DEF Sound, Owned, Pcs
<1>2. /\ b \in Crews /\ b.pending = c.pending
      /\ b.workers = c.workers /\ b.staffing = c.staffing
      /\ \A q \in Runs \ {r} : b.life[q] = c.life[q]
      /\ b.life[r][k].pc = "registering"
      /\ \A j \in Lives \ {k} : b.life[r][j] = c.life[r][j]
  BY <1>1, SetPcFacts
<1> HIDE DEF b
<1>3. /\ d \in Crews /\ d.pending = b.pending
      /\ d.staffing = b.staffing /\ d.life = b.life
      /\ \A q \in Runs \ {r} : d.workers[q] = b.workers[q]
      /\ d.workers[r] = k
  BY <1>2 DEF Crews
<1> HIDE DEF d
<1>4. Staffed(d, r) => Staffed(c, r)
  BY DEF Staffed, Lives, NoLife
<1>5. OwnedAt(d, r)
  BY <1>1, <1>2, <1>3 DEF OwnedAt, SpawnPcs, HandlePcs
<1>6. Sound(d)
  BY <1>2, <1>3, <1>4, <1>5, EditSound
<1> QED BY <1>6 DEF d, b

\* onWorkerDone takes its own handle out of this.workers.
LEMMA FinishedSound ==
    ASSUME NEW c, Sound(c), NEW r \in Runs, NEW k \in Lives,
           c.life[r][k].pc \notin SpawnPcs
    PROVE  Sound(Deregistered(SetPc(c, r, k, "finish"), r, k))
<1> DEFINE b == SetPc(c, r, k, "finish")
           d == Deregistered(b, r, k)
<1>1. c \in Crews /\ OwnedAt(c, r) /\ "finish" \in Pcs
  BY DEF Sound, Owned, Pcs
<1>2. /\ b \in Crews /\ b.pending = c.pending
      /\ b.workers = c.workers /\ b.staffing = c.staffing
      /\ \A q \in Runs \ {r} : b.life[q] = c.life[q]
      /\ \A j \in Lives \ {k} : b.life[r][j] = c.life[r][j]
  BY <1>1, SetPcFacts
<1> HIDE DEF b
<1>3. /\ d \in Crews /\ d.pending = b.pending
      /\ d.staffing = b.staffing /\ d.life = b.life
      /\ \A q \in Runs \ {r} : d.workers[q] = b.workers[q]
      /\ d.workers[r] = IF b.workers[r] = k THEN NoLife ELSE b.workers[r]
  BY <1>2 DEF Crews, Deregistered
<1> HIDE DEF d
<1>4. Staffed(d, r) => Staffed(c, r)
  BY <1>2, <1>3 DEF Staffed
<1>5. OwnedAt(d, r)
  <2>1. c.staffing[r] \in Lives => c.staffing[r] # k
    BY <1>1 DEF OwnedAt
  <2>2. d.workers[r] # NoLife => /\ d.workers[r] = c.workers[r] /\ c.workers[r] # k
                                 /\ c.workers[r] \in Lives
    BY <1>1, <1>2, <1>3 DEF Crews
  <2> QED BY <1>1, <1>2, <1>3, <2>1, <2>2 DEF OwnedAt
<1>6. Sound(d)
  BY <1>2, <1>3, <1>4, <1>5, EditSound
<1> QED BY <1>6 DEF d, b

\* cancel() and courier() take the reservation away from the spawn in flight.
LEMMA UnreservedSound ==
    ASSUME NEW c, Sound(c), NEW r \in Runs
    PROVE  LET d == [c EXCEPT !.staffing[r] = NoLife]
           IN  Sound(d) /\ d.staffing[r] = NoLife
<1> DEFINE d == [c EXCEPT !.staffing[r] = NoLife]
<1>1. c \in Crews /\ OwnedAt(c, r)
  BY DEF Sound, Owned
<1>2. /\ d \in Crews /\ d.pending = c.pending
      /\ d.workers = c.workers /\ d.life = c.life
      /\ \A q \in Runs \ {r} : d.staffing[q] = c.staffing[q]
      /\ d.staffing[r] = NoLife
  BY <1>1 DEF Crews, NoLife
<1> HIDE DEF d
<1>3. Staffed(d, r) => Staffed(c, r)
  BY <1>2 DEF Staffed
<1>4. OwnedAt(d, r)
  BY <1>1, <1>2 DEF OwnedAt, Lives, NoLife
<1>5. Sound(d)
  BY <1>2, <1>3, <1>4, EditSound
<1> QED BY <1>2, <1>5 DEF d

\* cancel() takes the handle as well.
LEMMA HandleDroppedSound ==
    ASSUME NEW c, Sound(c), NEW r \in Runs, c.staffing[r] = NoLife
    PROVE  Sound(HandleDropped(c, r))
<1> DEFINE m == [k \in Lives |-> IF k = c.workers[r] /\ c.life[r][k].pc = "ended"
                                THEN Unused ELSE c.life[r][k]]
           d == HandleDropped(c, r)
<1>1. c \in Crews
  BY DEF Sound
<1>2. m \in [Lives -> [pc : Pcs, stage : Stages]]
  <2>1. Unused \in [pc : Pcs, stage : Stages]
    BY DEF Unused, Pcs, Stages
  <2> QED BY <1>1, <2>1 DEF Crews
<1>3. d = [c EXCEPT !.workers[r] = NoLife, !.life[r] = m]
  BY <1>1 DEF HandleDropped, Crews
<1> HIDE DEF m, d
<1>4. /\ d \in Crews /\ d.pending = c.pending /\ d.staffing = c.staffing
      /\ \A q \in Runs \ {r} : d.workers[q] = c.workers[q] /\ d.life[q] = c.life[q]
      /\ d.workers[r] = NoLife
  BY <1>1, <1>2, <1>3 DEF Crews
<1>5. Staffed(d, r) => Staffed(c, r)
  BY <1>4 DEF Staffed
<1>6. OwnedAt(d, r)
  BY <1>4 DEF OwnedAt, Lives, NoLife
<1>7. Sound(d)
  BY <1>4, <1>5, <1>6, EditSound
<1> QED BY <1>7 DEF d

-----------------------------------------------------------------------------
(* The inductive invariant *)

RestOK ==
    /\ ledger \in [Runs -> RunStates]
    /\ finishing \in SUBSET Runs /\ cancelling \in SUBSET Runs
    /\ courier \in SUBSET Runs
    /\ sighted \in SUBSET Runs /\ restaffed \in SUBSET Runs
    /\ paused \in BOOLEAN
    /\ overBudget \in SUBSET Runs /\ refused \in SUBSET Runs

\* Installing a sound crew re-establishes the crew's half of the invariant.
LEMMA InstallSound ==
    ASSUME NEW c, Sound(c), Install(c), RestOK'
    PROVE  Inv'
<1>1. c \in Crews
  BY DEF Sound
<1>2. crew' = c
  BY <1>1 DEF Install, crew, Crews
<1>3. staffing' \in [Runs -> Lives \cup {NoLife}]
  BY <1>1 DEF Install, Crews
<1>4. TypeOK'
  BY <1>1, <1>3 DEF Install, Crews, TypeOK, RestOK
<1>5. Sound(crew)'
  BY <1>2 DEF Sound, WithinCap, HoldersOf, Staffed, WaitsOnce, Owned, OwnedAt, Crews, crew
<1> QED BY <1>4, <1>5 DEF Inv

LEMMA CrewKept ==
    ASSUME Inv, UNCHANGED crewVars, RestOK'
    PROVE  Inv'
<1>1. crew' = crew
  BY DEF crew, crewVars
<1>2. TypeOK'
  BY DEF Inv, TypeOK, RestOK, crewVars
<1>3. Sound(crew)'
  BY DEF Inv, Sound, WithinCap, HoldersOf, Staffed, WaitsOnce, Owned, OwnedAt, Crews, crew, crewVars
<1> QED BY <1>2, <1>3 DEF Inv

LEMMA StageForType == \A s : StageFor(s) # NoStage => StageFor(s) \in Stages
BY DEF StageFor, NoStage, Stages

\* One step of a life: provisioning, start, exit, finish, publish, reap.
LEMMA LifeStepInv ==
    ASSUME Inv, NEW r \in Runs, NEW k \in Lives, LifeStep(r, k)
    PROVE  Inv'
<1>1. /\ Sound(crew) /\ RestOK /\ OwnedAt(crew, r)
      /\ crew.life[r][k].pc = Pc(r, k) /\ life[r][k].stage \in Stages
      /\ crew.staffing = staffing /\ crew.workers = workers
      /\ workers[r] \in Lives \cup {NoLife} /\ staffing[r] \in Lives \cup {NoLife}
  BY DEF Inv, Sound, Owned, TypeOK, RestOK, crew, Pc
<1>2. ASSUME staffing[r] = k PROVE Pc(r, k) \in SpawnPcs
  BY <1>1, <1>2 DEF OwnedAt
<1>3. ASSUME workers[r] = k PROVE Pc(r, k) \in HandlePcs
  BY <1>1, <1>3 DEF OwnedAt, Lives, NoLife
<1>4. CASE ProvisionOk(r, k)
  <2>1. RestOK'
    BY <1>1, <1>4 DEF ProvisionOk, Patch, RestOK, StateOf, RunStates, RUN_TERMINAL, watchVars
  <2>2. Sound(SetPc(crew, r, k, "starting"))
    BY <1>1, <1>3, <1>4, SetPcSound DEF ProvisionOk, SpawnPcs, HandlePcs, Pcs
  <2> QED BY <1>4, <2>1, <2>2, InstallSound DEF ProvisionOk
<1>5. CASE SpawnFails(r, k)
  <2>1. RestOK'
    BY <1>1, <1>5 DEF SpawnFails, RestOK, watchVars
  <2>2. Sound(SetPc(crew, r, k, "retiring"))
    BY <1>1, <1>3, <1>5, SetPcSound DEF SpawnFails, SpawnPcs, HandlePcs, Pcs
  <2> QED BY <1>5, <2>1, <2>2, InstallSound DEF SpawnFails
<1>6. CASE ProvisionHolds(r, k)
  <2>1. RestOK'
    BY <1>1, <1>6 DEF ProvisionHolds, Patch, RestOK, RunStates, RUN_TERMINAL, watchVars
  <2>2. Sound(SetPc(crew, r, k, "retiring"))
    BY <1>1, <1>3, <1>6, SetPcSound DEF ProvisionHolds, SpawnPcs, HandlePcs, Pcs
  <2> QED BY <1>6, <2>1, <2>2, InstallSound DEF ProvisionHolds
<1>7. CASE Started(r, k)
  <2>1. RestOK'
    BY <1>1, <1>7 DEF Started, RestOK, watchVars
  <2>2. Sound([SetPc(crew, r, k, "registering") EXCEPT !.workers[r] = k])
    BY <1>1, <1>7, StartedSound DEF Started
  <2> QED BY <1>7, <2>1, <2>2, InstallSound DEF Started
<1>8. CASE Discarded(r, k)
  <2>1. RestOK'
    BY <1>1, <1>8 DEF Discarded, RestOK, watchVars
  <2>2. Sound(SetPc(crew, r, k, "retiring"))
    BY <1>1, <1>3, <1>8, SetPcSound DEF Discarded, SpawnPcs, HandlePcs, Pcs
  <2> QED BY <1>8, <2>1, <2>2, InstallSound DEF Discarded
<1>9. CASE Retire(r, k)
  <2>1. RestOK'
    BY <1>1, <1>9 DEF Retire, RestOK, watchVars
  <2>2. Sound(Released(Ended(crew, r, k), r, k))
    BY <1>1, <1>9, RetiredSound DEF Retire, HandlePcs
  <2>3. Sound(Pump(Released(Ended(crew, r, k), r, k), ledger))
    BY <2>2, PumpSound
  <2> QED BY <1>9, <2>1, <2>3, InstallSound DEF Retire
<1>10. CASE Register(r, k)
  <2>1. RestOK'
    BY <1>1, <1>10 DEF Register, RestOK, watchVars
  <2>2. Sound(Released(SetPc(crew, r, k, "live"), r, k))
    BY <1>1, RegisteredSound
  <2>3. Sound(Pump(Released(SetPc(crew, r, k, "live"), r, k), ledger))
    BY <2>2, PumpSound
  <2> QED BY <1>10, <2>1, <2>3, InstallSound DEF Register
<1>11. CASE DoneIgnored(r, k)
  <2>1. RestOK'
    BY <1>1, <1>11 DEF DoneIgnored, RestOK, watchVars
  <2>2. CASE workers[r] = k
    <3>1. Sound(SetPc(crew, r, k, "ended"))
      BY <1>1, <1>2, <1>11, <2>2, SetPcSound DEF DoneIgnored, SpawnPcs, HandlePcs, Pcs
    <3> QED BY <1>11, <2>1, <2>2, <3>1, InstallSound DEF DoneIgnored
  <2>3. CASE workers[r] # k
    <3>1. Sound(Ended(crew, r, k))
      BY <1>1, <1>11, <2>3, EndedSound DEF DoneIgnored, SpawnPcs
    <3> QED BY <1>11, <2>1, <2>3, <3>1, InstallSound DEF DoneIgnored
  <2> QED BY <2>2, <2>3
<1>12. CASE WorkerDone(r, k)
  <2>1. RestOK'
    BY <1>1, <1>12 DEF WorkerDone, RestOK, watchVars
  <2>2. Sound(Deregistered(SetPc(crew, r, k, "finish"), r, k))
    BY <1>1, <1>12, FinishedSound DEF WorkerDone, SpawnPcs
  <2> QED BY <1>12, <2>1, <2>2, InstallSound DEF WorkerDone
<1>13. CASE Finish(r, k)
  <2>1. PICK s \in FinishStates(StageOf(r, k)) :
           /\ Patch(r, s)
           /\ Install(IF StageFor(s) = NoStage THEN SetPc(crew, r, k, "reap")
                      ELSE SpawnGuarded(SetPc(crew, r, k, "reap"), [ledger EXCEPT ![r] = s],
                                        r, StageFor(s)))
    BY <1>13 DEF Finish
  <2>2. s \in RunStates
    BY DEF FinishStates, RunStates, RUN_TERMINAL
  <2>3. RestOK'
    BY <1>1, <1>13, <2>1, <2>2 DEF Finish, Patch, RestOK, watchVars
  <2>4. Sound(SetPc(crew, r, k, "reap"))
    BY <1>1, <1>2, <1>3, <1>13, SetPcSound DEF Finish, SpawnPcs, HandlePcs, Pcs
  <2>5. CASE StageFor(s) = NoStage
    BY <2>1, <2>3, <2>4, <2>5, InstallSound
  <2>6. CASE StageFor(s) # NoStage
    <3>1. Sound(SpawnGuarded(SetPc(crew, r, k, "reap"), [ledger EXCEPT ![r] = s], r, StageFor(s)))
      BY <2>4, <2>6, SpawnGuardedSound, StageForType
    <3> QED BY <2>1, <2>3, <2>6, <3>1, InstallSound
  <2> QED BY <2>5, <2>6
<1>14. CASE FinishYields(r, k)
  <2>1. RestOK'
    BY <1>1, <1>14 DEF FinishYields, RestOK, watchVars
  <2>2. Sound(SetPc(crew, r, k, "reap"))
    BY <1>1, <1>2, <1>3, <1>14, SetPcSound DEF FinishYields, SpawnPcs, HandlePcs, Pcs
  <2> QED BY <1>14, <2>1, <2>2, InstallSound DEF FinishYields
<1>15. CASE FinishPublishes(r, k)
  <2>1. RestOK'
    BY <1>1, <1>15 DEF FinishPublishes, Patch, RestOK, RunStates, RUN_TERMINAL, watchVars
  <2>2. Sound(SetPc(crew, r, k, "publish"))
    BY <1>1, <1>2, <1>3, <1>15, SetPcSound DEF FinishPublishes, SpawnPcs, HandlePcs, Pcs
  <2> QED BY <1>15, <2>1, <2>2, InstallSound DEF FinishPublishes
<1>16. CASE Published(r, k)
  <2>1. PICK s \in {"done", "unverified", "parked", ledger[r]} :
           /\ Patch(r, s)
           /\ \E c \in Patched(r, s, SetPc(crew, r, k, "reap")) : Install(c)
           /\ refused' = IF s = "parked" THEN refused \cup {r} ELSE refused
    BY <1>16 DEF Published
  <2>2. s \in RunStates
    BY <1>1 DEF RestOK, RunStates, RUN_TERMINAL, RUN_FINAL
  <2>3. RestOK'
    BY <1>1, <1>16, <2>1, <2>2 DEF Published, Patch, RestOK, watchVars
  <2>4. Sound(SetPc(crew, r, k, "reap"))
    BY <1>1, <1>2, <1>3, <1>16, SetPcSound DEF Published, SpawnPcs, HandlePcs, Pcs
  <2>5. PICK c \in Patched(r, s, SetPc(crew, r, k, "reap")) : Install(c)
    BY <2>1
  <2>6. Sound(c)
    BY <2>4, PatchedSound
  <2> QED BY <2>3, <2>5, <2>6, InstallSound
<1>17. CASE Reap(r, k)
  <2>1. RestOK'
    BY <1>1, <1>17 DEF Reap, RestOK, watchVars
  <2>2. Sound(Ended(crew, r, k))
    BY <1>1, <1>3, <1>17, EndedSound DEF Reap, SpawnPcs, HandlePcs
  <2>3. Sound(Pump(Ended(crew, r, k), ledger))
    BY <2>2, PumpSound
  <2> QED BY <1>17, <2>1, <2>3, InstallSound DEF Reap
<1> QED BY <1>4, <1>5, <1>6, <1>7, <1>8, <1>9, <1>10, <1>11, <1>12, <1>13, <1>14,
           <1>15, <1>16, <1>17 DEF LifeStep

\* cancel()'s final write, from whatever sound crew it has left in memory.
LEMMA CancelWritesInv ==
    ASSUME Inv, NEW r \in Runs, NEW c, Sound(c), CancelWrites(r, c),
           finishing' \in SUBSET Runs, cancelling' \in SUBSET Runs, courier' \in SUBSET Runs,
           sighted' \in SUBSET Runs, restaffed' \in SUBSET Runs,
           paused' \in BOOLEAN, overBudget' \in SUBSET Runs
    PROVE  Inv'
<1> DEFINE s == IF ledger[r] \in {"done", "failed"} THEN ledger[r] ELSE "cancelled"
<1>1. s \in RunStates
  BY DEF RunStates, RUN_TERMINAL, RUN_FINAL
<1>2. PICK d \in Patched(r, s, c) : Install(Pump(d, [ledger EXCEPT ![r] = s]))
  BY DEF CancelWrites
<1>3. Sound(Pump(d, [ledger EXCEPT ![r] = s]))
  BY PatchedSound, PumpSound
<1>4. ledger' = [ledger EXCEPT ![r] = s] /\ refused' = refused \ {r}
  BY DEF CancelWrites, Patch
<1>5. RestOK'
  BY <1>1, <1>4 DEF RestOK, Inv, TypeOK
<1> QED BY <1>2, <1>3, <1>5, InstallSound

\* One step of a human, a timer or the watchdog.
LEMMA OutsideStepInv ==
    ASSUME Inv, NEW r \in Runs,
           \/ WatchdogStep(r) \/ HumanStep(r) \/ Settle(r) \/ QuestionTimeout(r)
           \/ CancelEnd(r) \/ CourierEnd(r)
    PROVE  Inv'
<1>1. /\ Sound(crew) /\ RestOK
      /\ crew.staffing = staffing /\ crew.workers = workers
  BY DEF Inv, TypeOK, RestOK, crew
<1>2. CASE Deploy(r)
  <2>1. RestOK'
    BY <1>1, <1>2 DEF Deploy, RestOK, watchVars
  <2>2. Sound(AdmitRun(crew, ledger, r))
    BY <1>1, SpawnGuardedSound, StageForType DEF AdmitRun
  <2> QED BY <1>2, <2>1, <2>2, InstallSound DEF Deploy
<1>3. CASE CancelBegin(r)
  <2> DEFINE c == HandleDropped(DropPending([crew EXCEPT !.staffing[r] = NoLife], r), r)
  <2>1. Sound(c)
    <3> DEFINE b == [crew EXCEPT !.staffing[r] = NoLife]
    <3>1. Sound(b) /\ b.staffing[r] = NoLife
      BY <1>1, UnreservedSound
    <3> HIDE DEF b
    <3>2. DropPending(b, r).staffing = b.staffing
      BY <3>1 DEF DropPending, Sound, Crews
    <3>3. Sound(DropPending(b, r))
      BY <3>1, DropPendingSound
    <3>4. Sound(HandleDropped(DropPending(b, r), r))
      BY <3>1, <3>2, <3>3, HandleDroppedSound
    <3> QED BY <3>4 DEF b
  <2> HIDE DEF c
  <2>2. /\ finishing' \in SUBSET Runs /\ courier' \in SUBSET Runs
        /\ sighted' \in SUBSET Runs /\ restaffed' \in SUBSET Runs
        /\ paused' \in BOOLEAN /\ overBudget' \in SUBSET Runs
    BY <1>1, <1>3 DEF CancelBegin, RestOK
  <2>3. CASE workers[r] = NoLife
    <3>1. CancelWrites(r, c) /\ cancelling' \in SUBSET Runs
      BY <1>1, <1>3, <2>3 DEF CancelBegin, c, RestOK
    <3> QED BY <2>1, <2>2, <3>1, CancelWritesInv
  <2>4. CASE workers[r] # NoLife
    <3>1. Install(c) /\ RestOK'
      BY <1>1, <1>3, <2>2, <2>4 DEF CancelBegin, c, RestOK
    <3> QED BY <2>1, <3>1, InstallSound
  <2> QED BY <2>3, <2>4
<1>4. CASE Resume(r)
  <2>1. PICK stage \in Stages :
           LET st == [ledger EXCEPT ![r] = StateOf(stage)]
           IN  ledger' = st /\ Install(SpawnGuarded(crew, st, r, stage))
    BY <1>4 DEF Resume
  <2>2. RestOK'
    BY <1>1, <1>4, <2>1 DEF Resume, RestOK, StateOf, RunStates, RUN_TERMINAL, watchVars
  <2>3. Sound(SpawnGuarded(crew, [ledger EXCEPT ![r] = StateOf(stage)], r, stage))
    BY <1>1, SpawnGuardedSound
  <2> QED BY <2>1, <2>2, <2>3, InstallSound
<1>5. CASE Answer(r)
  <2>1. RestOK'
    BY <1>1, <1>5 DEF Answer, RestOK, RunStates, RUN_TERMINAL, watchVars
  <2>2. Sound(SpawnGuarded(crew, [ledger EXCEPT ![r] = "implementing"], r, "implement"))
    BY <1>1, SpawnGuardedSound DEF Stages
  <2> QED BY <1>5, <2>1, <2>2, InstallSound DEF Answer
<1>6. CASE CourierBegin(r)
  <2>1. RestOK'
    BY <1>1, <1>6 DEF CourierBegin, RestOK
  <2>2. Sound(DropPending([crew EXCEPT !.staffing[r] = NoLife], r))
    BY <1>1, UnreservedSound, DropPendingSound
  <2> QED BY <1>6, <2>1, <2>2, InstallSound DEF CourierBegin
<1>7. CASE Settle(r)
  <2>1. PICK s \in {"done", "unverified", "parked"} :
           /\ Patch(r, s)
           /\ \E c \in Patched(r, s, crew) : Install(c)
           /\ refused' = IF s = "parked" THEN refused \cup {r} ELSE refused
    BY <1>7 DEF Settle
  <2>2. s \in RunStates
    BY DEF RunStates, RUN_TERMINAL, RUN_FINAL
  <2>3. RestOK'
    BY <1>1, <1>7, <2>1, <2>2 DEF Settle, Patch, RestOK, watchVars
  <2>4. PICK c \in Patched(r, s, crew) : Install(c)
    BY <2>1
  <2>5. Sound(c)
    BY <1>1, PatchedSound
  <2> QED BY <2>3, <2>4, <2>5, InstallSound
<1>8. CASE QuestionTimeout(r)
  <2>1. RestOK'
    BY <1>1, <1>8 DEF QuestionTimeout, Patch, RestOK, RunStates, RUN_TERMINAL, watchVars
  <2> QED BY <1>8, <2>1, CrewKept DEF QuestionTimeout
<1>9. CASE CancelEnd(r)
  <2>1. CancelWrites(r, crew)
    BY <1>9 DEF CancelEnd
  <2>2. /\ finishing' \in SUBSET Runs /\ cancelling' \in SUBSET Runs /\ courier' \in SUBSET Runs
        /\ sighted' \in SUBSET Runs /\ restaffed' \in SUBSET Runs
        /\ paused' \in BOOLEAN /\ overBudget' \in SUBSET Runs
    BY <1>1, <1>9 DEF CancelEnd, RestOK, watchVars
  <2> QED BY <1>1, <2>1, <2>2, CancelWritesInv
<1>10. CASE CourierEnd(r)
  <2>1. PICK s \in {"done", "unverified"} :
           /\ Patch(r, s)
           /\ \E c \in Patched(r, s, crew) : Install(Pump(c, [ledger EXCEPT ![r] = s]))
    BY <1>10 DEF CourierEnd
  <2>2. RestOK'
    BY <1>1, <1>10, <2>1 DEF CourierEnd, Patch, RestOK, RunStates, RUN_TERMINAL, RUN_FINAL, watchVars
  <2>3. PICK c \in Patched(r, s, crew) : Install(Pump(c, [ledger EXCEPT ![r] = s]))
    BY <2>1
  <2>4. Sound(Pump(c, [ledger EXCEPT ![r] = s]))
    BY <1>1, PatchedSound, PumpSound
  <2> QED BY <2>2, <2>3, <2>4, InstallSound
<1>11. CASE WatchdogForgets(r)
  <2>1. RestOK'
    BY <1>1, <1>11 DEF WatchdogForgets, RestOK
  <2> QED BY <1>11, <2>1, CrewKept DEF WatchdogForgets
<1>12. CASE WatchdogSights(r)
  <2>1. RestOK'
    BY <1>1, <1>12 DEF WatchdogSights, RestOK
  <2> QED BY <1>12, <2>1, CrewKept DEF WatchdogSights
<1>13. CASE WatchdogRestaffs(r)
  <2>1. RestOK'
    BY <1>1, <1>13 DEF WatchdogRestaffs, RestOK
  <2>2. StageFor(ledger[r]) # NoStage
    BY <1>13 DEF WatchdogRestaffs, Handled
  <2>3. Sound(SpawnGuarded(crew, ledger, r, StageFor(ledger[r])))
    BY <1>1, <2>2, SpawnGuardedSound, StageForType
  <2> QED BY <1>13, <2>1, <2>3, InstallSound DEF WatchdogRestaffs
<1>14. CASE WatchdogParks(r)
  <2>1. RestOK'
    BY <1>1, <1>14 DEF WatchdogParks, Patch, RestOK, RunStates, RUN_TERMINAL
  <2> QED BY <1>14, <2>1, CrewKept DEF WatchdogParks
<1> QED BY <1>2, <1>3, <1>4, <1>5, <1>6, <1>7, <1>8, <1>9, <1>10, <1>11, <1>12, <1>13, <1>14
        DEF WatchdogStep, HumanStep

LEMMA InitInv == Init => Inv
<1> SUFFICES ASSUME Init PROVE Inv
  OBVIOUS
<1>1. RestOK /\ ledger \in [Runs -> RunStates]
  BY DEF Init, RestOK, RunStates, RUN_TERMINAL
<1>2. Unused \in [pc : Pcs, stage : Stages]
  BY DEF Unused, Pcs, Stages
<1>3. TypeOK
  <2>1. pending \in Seq(Job)
    BY EmptySeq DEF Init
  <2> QED BY <1>1, <1>2, <2>1 DEF Init, TypeOK, RestOK
<1>4. crew \in Crews
  BY <1>3 DEF TypeOK, crew, Crews, Lives, NoLife
<1>5. WithinCap(crew)
  <2>1. HoldersOf(crew) = {}
    BY DEF Init, HoldersOf, Staffed, crew
  <2> QED BY <2>1, FS_EmptySet, StaffingAssumption DEF WithinCap
<1>6. WaitsOnce(crew) /\ Owned(crew)
  <2>1. Len(crew.pending) = 0
    BY EmptySeq DEF Init, crew
  <2> QED BY <2>1 DEF Init, WaitsOnce, Owned, OwnedAt, crew, Lives, NoLife
<1> QED BY <1>3, <1>4, <1>5, <1>6 DEF Inv, Sound

LEMMA NextInv == Inv /\ [Next]_vars => Inv'
<1> SUFFICES ASSUME Inv, [Next]_vars PROVE Inv'
  OBVIOUS
<1>1. RestOK
  BY DEF Inv, TypeOK, RestOK
<1>2. CASE UNCHANGED vars
  <2>1. UNCHANGED crewVars /\ RestOK'
    BY <1>1, <1>2 DEF vars, crewVars, RestOK
  <2> QED BY <2>1, CrewKept
<1>3. CASE TogglePause
  <2>1. UNCHANGED crewVars /\ RestOK'
    BY <1>1, <1>3 DEF TogglePause, RestOK, watchVars
  <2> QED BY <2>1, CrewKept
<1>4. CASE \E r \in Runs : \E k \in Lives : LifeStep(r, k)
  BY <1>4, LifeStepInv
<1>5. CASE \E r \in Runs : \/ WatchdogStep(r) \/ HumanStep(r) \/ Settle(r)
                         \/ QuestionTimeout(r) \/ CancelEnd(r) \/ CourierEnd(r)
  BY <1>5, OutsideStepInv
<1> QED BY <1>2, <1>3, <1>4, <1>5 DEF Next

\* Every reachable state is well typed and its crew is sound: within the cap,
\* waiting for each run once, one owner to a slot.
THEOREM Invariance == Spec => []Inv
<1>1. Init => Inv
  BY InitInv
<1>2. Inv /\ [Next]_vars => Inv'
  BY NextInv
<1> QED BY <1>1, <1>2, PTL DEF Spec

\* The structures of the supervisor keep their types, pending stays a queue of
\* jobs and no spawn is given a life beyond the bound.
THEOREM TypeCorrect == Spec => []TypeOK
<1>1. Inv => TypeOK
  BY DEF Inv
<1> QED BY <1>1, Invariance, PTL

\* runs.max_live is never exceeded by runs that hold a worktree or a worker,
\* whatever spawns, exits, cancels, couriers and re-admissions do.
THEOREM CapCorrect == Spec => []CapRespected
<1>1. Inv => CapRespected
  BY DEF Inv, Sound, WithinCap, HoldersOf, CapRespected, Holders
<1> QED BY <1>1, Invariance, PTL

\* A run never waits twice in this.pending.
THEOREM PendingOnceCorrect == Spec => []PendingOnce
<1>1. Inv => PendingOnce
  BY DEF Inv, Sound, WaitsOnce, PendingOnce, crew
<1> QED BY <1>1, Invariance, PTL

\* Reservation and registered worker of a run are one spawn, and a reservation
\* stands only while its spawn is on its way.
THEOREM OwnerCorrect == Spec => []SingleOwner
<1>1. Inv => SingleOwner
  <2> SUFFICES ASSUME Inv, NEW r \in Runs
               PROVE  /\ staffing[r] # NoLife /\ workers[r] # NoLife => staffing[r] = workers[r]
                      /\ staffing[r] # NoLife => Pc(r, staffing[r]) \in SpawnPcs
    BY DEF SingleOwner, SpawnPcs
  <2>1. OwnedAt(crew, r) /\ staffing[r] \in Lives \cup {NoLife}
    BY DEF Inv, Sound, Owned, TypeOK
  <2> QED BY <2>1 DEF OwnedAt, crew, Pc
<1> QED BY <1>1, Invariance, PTL

-----------------------------------------------------------------------------
(* pump() has a caller left *)

PumpingPcs == {"provision", "starting", "retiring", "registering", "finish", "publish", "reap"}

Busy(c) == \E r \in Runs, k \in Lives : c.life[r][k].pc \in PumpingPcs

Tended(c) == c.pending = <<>> \/ AtCap(c) \/ Busy(c)

\* Install's condition: a spawn was given a life within the bound.
Fits(c) == \A r \in Runs : c.staffing[r] \in Lives \cup {NoLife}

\* A set of numbers that is not empty has a least one.
LEMMA Least ==
    ASSUME NEW S \in SUBSET Nat, S # {}
    PROVE  \E x \in S : {y \in S : y < x} = {}
<1> DEFINE R == {ss \in Nat \X Nat : ss[1] < ss[2]}
<1>1. IsWellFoundedOn(R, Nat)
  BY NatLessThanWellFounded DEF OpToRel
<1>2. \A x, y \in Nat : y < x => <<y, x>> \in R
  OBVIOUS
<1> HIDE DEF R
<1>3. PICK x \in S : \A y \in S : ~(<<y, x>> \in R)
  BY <1>1, WFMin
<1> QED BY <1>2, <1>3

\* A cap that is reached stays so when no slot is given up.
LEMMA CapKept ==
    ASSUME NEW c \in Crews, NEW d \in Crews, AtCap(c), d.workers = c.workers,
           \A r \in Runs : c.staffing[r] # NoLife => d.staffing[r] # NoLife
    PROVE  AtCap(d)
<1> DEFINE W == {r \in Runs : c.workers[r] # NoLife}
           F == {r \in Runs : c.staffing[r] # NoLife}
           G == {r \in Runs : d.staffing[r] # NoLife}
<1>1. IsFiniteSet(W) /\ IsFiniteSet(F) /\ IsFiniteSet(G)
  BY FS_Subset, StaffingAssumption
<1>2. F \in SUBSET G
  OBVIOUS
<1>3. UsedSlots(c) = Cardinality(W) + Cardinality(F) /\ UsedSlots(d) = Cardinality(W) + Cardinality(G)
  BY DEF UsedSlots
<1> HIDE DEF W, F, G
<1>4. Cardinality(F) <= Cardinality(G)
  BY <1>1, <1>2, FS_Subset
<1>5. Cardinality(W) \in Nat /\ Cardinality(F) \in Nat /\ Cardinality(G) \in Nat
  BY <1>1, FS_CardinalityType
<1> QED BY <1>3, <1>4, <1>5, StaffingAssumption DEF AtCap

\* Launching fills slots, touches no life in use, and leaves a life that will pump.
LEMMA LaunchTends ==
    ASSUME NEW c \in Crews, NEW jobs \in SUBSET Job
    PROVE  LET d == Launch(c, jobs)
           IN  /\ d.pending = c.pending
               /\ d \in Crews
               /\ AtCap(c) => AtCap(d)
               /\ Busy(c) => Busy(d)
               /\ jobs # {} /\ Fits(d) => Busy(d)
<1> DEFINE d == Launch(c, jobs)
           L == {j.run : j \in jobs}
           stageOf(r) == (CHOOSE j \in jobs : j.run = r).stage
<1>1. d = [c EXCEPT !.staffing = [r \in Runs |-> IF r \in L THEN FreeLife(c, r) ELSE @[r]],
                    !.life = [r \in Runs |-> [k \in Lives |->
                       IF r \in L /\ k = FreeLife(c, r)
                       THEN [pc |-> "provision", stage |-> stageOf(r)]
                       ELSE c.life[r][k]]]]
  BY DEF Launch
<1>2. \A r \in L : r \in Runs /\ stageOf(r) \in Stages
  BY DEF Job
<1> HIDE DEF stageOf, L, d
<1>3. /\ d.pending = c.pending /\ d.workers = c.workers
      /\ d.staffing = [r \in Runs |-> IF r \in L THEN FreeLife(c, r) ELSE c.staffing[r]]
      /\ d.life = [r \in Runs |-> [k \in Lives |->
                       IF r \in L /\ k = FreeLife(c, r)
                       THEN [pc |-> "provision", stage |-> stageOf(r)]
                       ELSE c.life[r][k]]]
  BY <1>1 DEF Crews
<1>4. d \in Crews
  <2>1. d.staffing \in [Runs -> Nat]
    <3>1. \A r \in Runs : FreeLife(c, r) \in Nat
      BY FreeLifeType
    <3> QED BY <1>3, <3>1 DEF Crews
  <2>2. d.life \in [Runs -> [Lives -> [pc : Pcs, stage : Stages]]]
    BY <1>2, <1>3 DEF Crews, Pcs
  <2> QED BY <1>1, <2>1, <2>2 DEF Crews
<1>5. \A r \in Runs : FreeLife(c, r) # NoLife
  BY StaffingAssumption DEF FreeLife, Lives, NoLife
<1>6. AtCap(c) => AtCap(d)
  BY <1>3, <1>4, <1>5, CapKept
<1>7. ASSUME Busy(c) PROVE Busy(d)
  <2>1. PICK r \in Runs, k \in Lives : c.life[r][k].pc \in PumpingPcs
    BY <1>7 DEF Busy
  <2>2. k # FreeLife(c, r)
    BY <2>1, StaffingAssumption DEF FreeLife, Lives, PumpingPcs
  <2>3. d.life[r][k] = c.life[r][k]
    BY <1>3, <2>2
  <2> QED BY <2>1, <2>3 DEF Busy
<1>8. ASSUME jobs # {}, Fits(d) PROVE Busy(d)
  <2>1. PICK r \in L : TRUE
    BY <1>8 DEF L
  <2>2. d.staffing[r] = FreeLife(c, r) /\ FreeLife(c, r) \in Lives /\ r \in Runs
    BY <1>2, <1>3, <1>5, <1>8, <2>1 DEF Fits
  <2>3. d.life[r][FreeLife(c, r)].pc = "provision"
    BY <1>3, <2>1, <2>2
  <2> QED BY <2>2, <2>3 DEF Busy, PumpingPcs
<1> QED BY <1>3, <1>4, <1>6, <1>7, <1>8 DEF d

\* A change of this.pending alone.
LEMMA PendingTends ==
    ASSUME NEW c \in Crews, NEW p \in Seq(Job)
    PROVE  LET d == [c EXCEPT !.pending = p]
           IN  /\ d \in Crews /\ d.pending = p
               /\ AtCap(c) => AtCap(d)
               /\ Busy(c) => Busy(d)
               /\ Fits(d) => Fits(c)
<1> DEFINE d == [c EXCEPT !.pending = p]
<1>1. /\ d.workers = c.workers /\ d.staffing = c.staffing /\ d.life = c.life
      /\ d.pending = p /\ d \in Crews
  BY DEF Crews
<1> HIDE DEF d
<1>2. AtCap(c) => AtCap(d)
  BY <1>1, CapKept
<1> QED BY <1>1, <1>2 DEF Busy, Fits, d

\* spawnGuarded queues a spawn only at the cap.
LEMMA SpawnGuardedTends ==
    ASSUME NEW c, Sound(c), NEW st, NEW r \in Runs, NEW stage \in Stages,
           Tended(c), Fits(SpawnGuarded(c, st, r, stage))
    PROVE  Tended(SpawnGuarded(c, st, r, stage))
<1> DEFINE job == [run |-> r, stage |-> stage]
           d == SpawnGuarded(c, st, r, stage)
<1>1. c \in Crews /\ c.pending \in Seq(Job) /\ job \in Job
  BY DEF Sound, Crews, Job
<1>2. \/ d = c
      \/ d = Launch(c, {job})
      \/ AtCap(c) /\ d = [c EXCEPT !.pending = Append(c.pending, job)]
  BY DEF SpawnGuarded
<1>3. Append(c.pending, job) \in Seq(Job) /\ {job} \in SUBSET Job /\ {job} # {}
  BY <1>1, AppendProperties
<1>4. Fits(d)
  OBVIOUS
<1> HIDE DEF d, job
<1>5. ASSUME d = Launch(c, {job}) PROVE Tended(d)
  BY <1>1, <1>3, <1>4, <1>5, LaunchTends DEF Tended
<1>6. ASSUME AtCap(c), d = [c EXCEPT !.pending = Append(c.pending, job)] PROVE Tended(d)
  BY <1>1, <1>3, <1>6, PendingTends DEF Tended
<1>7. Tended(d)
  BY <1>2, <1>5, <1>6
<1> QED BY <1>7 DEF d

\* pump() leaves nothing behind that it could have launched: either nothing waits,
\* or no slot is free, or a spawn is on its way whose end pumps again.
LEMMA PumpTends ==
    ASSUME NEW c, Sound(c), NEW st, Fits(Pump(c, st))
    PROVE  Tended(Pump(c, st))
<1> DEFINE able(i) == /\ st[c.pending[i].run] \notin RUN_TERMINAL
                      /\ ~Staffed(c, c.pending[i].run)
           ahead(i) == {j \in 1 .. (i - 1) : able(j)}
           n == MaxLive - UsedSlots(c)
           I == 1 .. Len(c.pending)
           shifted == {i \in I : Cardinality(ahead(i)) < n}
           taken == {i \in shifted : able(i)}
           jobs == {c.pending[i] : i \in taken}
           rest == SubSeq(c.pending, Cardinality(shifted) + 1, Len(c.pending))
           d == Pump(c, st)
<1>1. /\ c \in Crews /\ c.pending \in Seq(Job) /\ Len(c.pending) \in Nat
      /\ n \in Int /\ MaxLive \in Nat /\ UsedSlots(c) \in Nat
  <2>1. c \in Crews /\ c.pending \in Seq(Job)
    BY DEF Sound, Crews
  <2> QED BY <2>1, Slots, StaffingAssumption, LenProperties
<1>12. IsFiniteSet(I) /\ Cardinality(I) = Len(c.pending)
  <2>1. Len(c.pending) \in Int /\ Len(c.pending) >= 0
    BY <1>1
  <2> DEFINE l == Len(c.pending)
  <2> HIDE DEF l
  <2>2. IsFiniteSet(1 .. l) /\ Cardinality(1 .. l) = l
    BY <2>1, FS_Interval DEF l
  <2> QED BY <2>2 DEF l
<1>2. d = [Launch(c, jobs) EXCEPT !.pending = rest] /\ Fits(d)
  BY DEF Pump
<1>3. d \in Crews
  BY PumpSound DEF Sound
<1>4. jobs \in SUBSET Job
  <2>1. \A i \in I : c.pending[i] \in Job
    BY <1>1, ElementOfSeq
  <2> HIDE DEF able, ahead, n
  <2> QED BY <2>1
<1>5. (jobs = {}) = (taken = {})
  <2> HIDE DEF taken
  <2> QED OBVIOUS
<1>6. rest \in Seq(Job)
  <2>1. IsFiniteSet(I) /\ Cardinality(shifted) \in Nat
    <3>1. shifted \in SUBSET I
      OBVIOUS
    <3> HIDE DEF shifted, I
    <3> QED BY <1>12, <3>1, FS_Subset, FS_CardinalityType
  <2> DEFINE m == Cardinality(shifted) + 1
  <2>2. m \in Nat \ {0} /\ \A i \in m .. Len(c.pending) : c.pending[i] \in Job
    <3>1. m \in Nat \ {0}
      BY <2>1
    <3> HIDE DEF m
    <3> QED BY <1>1, <3>1, ElementOfSeq
  <2> HIDE DEF m
  <2>3. SubSeq(c.pending, m, Len(c.pending)) \in Seq(Job)
    BY <1>1, <2>2, SubSeqProperties
  <2> QED BY <2>3 DEF m
<1> HIDE DEF jobs, d
<1>7. ASSUME jobs # {} PROVE Tended(d)
  <2> DEFINE e == Launch(c, jobs)
  <2>1. e \in Crews /\ (Fits(e) => Busy(e))
    BY <1>1, <1>4, <1>7, LaunchTends
  <2> HIDE DEF e, rest
  <2>2. d = [e EXCEPT !.pending = rest]
    BY <1>2 DEF e
  <2>3. Fits(e) /\ (Busy(e) => Busy(d))
    BY <1>2, <1>6, <2>1, <2>2, PendingTends
  <2> QED BY <2>1, <2>3 DEF Tended
<1>8. ASSUME n <= 0 PROVE Tended(d)
  <2> DEFINE e == Launch(c, jobs)
  <2>1. AtCap(c)
    BY <1>1, <1>8 DEF AtCap
  <2>2. e \in Crews /\ AtCap(e)
    BY <1>1, <1>4, <2>1, LaunchTends
  <2> HIDE DEF e, rest
  <2>3. d = [e EXCEPT !.pending = rest]
    BY <1>2 DEF e
  <2>4. AtCap(d)
    BY <1>6, <2>2, <2>3, PendingTends
  <2> QED BY <2>4 DEF Tended
<1>9. ASSUME n > 0, jobs = {} PROVE d.pending = <<>>
  <2> DEFINE S == {i \in I : able(i)}
  <2>1. S = {}
    <3> SUFFICES ASSUME S # {} PROVE FALSE
      OBVIOUS
    <3>1. S \in SUBSET Nat
      OBVIOUS
    <3>2. PICK x \in S : {y \in S : y < x} = {}
      <4> HIDE DEF S
      <4> QED BY <3>1, Least
    <3>3. x \in I /\ able(x) /\ ahead(x) = {}
      <4>1. x \in I /\ able(x)
        BY <3>2
      <4>2. \A j \in 1 .. (x - 1) : ~able(j)
        <5> SUFFICES ASSUME NEW j \in 1 .. (x - 1), able(j) PROVE FALSE
          OBVIOUS
        <5>1. j \in I /\ j < x
          BY <1>1, <4>1
        <5> HIDE DEF able
        <5> QED BY <3>2, <5>1
      <4> HIDE DEF able
      <4> QED BY <4>1, <4>2
    <3>4. x \in taken
      <4> HIDE DEF able, ahead, n
      <4> QED BY <1>1, <1>9, <3>3, FS_EmptySet
    <3> QED BY <1>5, <1>9, <3>4
  <2>2. shifted = I
    <3>1. \A i \in I : ahead(i) = {}
      <4> HIDE DEF able
      <4> QED BY <1>1, <2>1
    <3> HIDE DEF ahead, n
    <3> QED BY <1>1, <1>9, <3>1, FS_EmptySet
  <2>3. Cardinality(shifted) = Len(c.pending)
    <3> HIDE DEF I, shifted
    <3> QED BY <1>12, <2>2
  <2> HIDE DEF shifted
  <2>4. rest = <<>>
    <3> DEFINE l == Len(c.pending)
    <3>1. rest = SubSeq(c.pending, l + 1, l)
      BY <2>3
    <3>2. l \in Nat
      BY <1>1
    <3>3. Len(SubSeq(c.pending, l + 1, l)) = 0
      <4> HIDE DEF l
      <4> QED BY <1>1, <3>2, SubSeqProperties
    <3> HIDE DEF l, rest
    <3> QED BY <1>6, <3>1, <3>3, EmptySeq
  <2> HIDE DEF rest
  <2>5. Launch(c, jobs) \in Crews
    BY <1>1, <1>4, LaunchTends
  <2> QED BY <1>2, <2>4, <2>5 DEF Crews
<1> HIDE DEF n
<1>10. Tended(d)
  BY <1>1, <1>7, <1>8, <1>9 DEF Tended
<1> QED BY <1>10 DEF d

\* patchRun's re-admission queues a run only behind one that it launched, or at the cap.
LEMMA ReadmitTends ==
    ASSUME NEW c, Sound(c), NEW st, NEW d \in ReadmitQueued(c, st), Tended(c), Fits(d)
    PROVE  Tended(d)
<1> DEFINE n == MaxLive - UsedSlots(c)
           all == Admissible(c, st)
           first == {r \in all : Cardinality({s \in all : s < r}) < n}
           late == {r \in all \ first : ~IsPending(c, r)}
           jobs == {ImplementJob(r) : r \in first}
           e == Launch(c, jobs)
<1>1. c \in Crews /\ MaxLive \in Nat /\ UsedSlots(c) \in Nat
  BY Slots, StaffingAssumption DEF Sound
<1>2. all \in SUBSET Runs /\ all \in SUBSET Nat
  BY StaffingAssumption DEF Admissible
<1>3. PICK tail \in Oldest(late) : d = [e EXCEPT !.pending = @ \o tail]
  BY DEF ReadmitQueued
<1>4. d.pending \in Seq(Job)
  BY ReadmitSound DEF Sound, Crews
<1>5. jobs \in SUBSET Job /\ (first # {} => jobs # {})
  <2>1. first \in SUBSET Runs
    BY <1>2
  <2> HIDE DEF first
  <2>2. \A r \in Runs : ImplementJob(r) \in Job
    BY DEF ImplementJob, Job, Stages
  <2>3. jobs \in SUBSET Job
    BY <2>1, <2>2
  <2>4. \A r \in first : ImplementJob(r) \in jobs
    OBVIOUS
  <2> HIDE DEF jobs
  <2> QED BY <2>3, <2>4
<1> HIDE DEF jobs
<1>6. /\ e.pending = c.pending /\ e \in Crews
      /\ AtCap(c) => AtCap(e)
      /\ Busy(c) => Busy(e)
      /\ first # {} /\ Fits(e) => Busy(e)
  <2> HIDE DEF first
  <2> QED BY <1>1, <1>5, LaunchTends
<1> HIDE DEF e, late
<1>7. d = [e EXCEPT !.pending = d.pending] /\ d.pending = c.pending \o tail
  BY <1>3, <1>6 DEF Crews
<1>8. /\ AtCap(e) => AtCap(d)
      /\ Busy(e) => Busy(d)
      /\ Fits(e)
  BY <1>4, <1>6, <1>7, PendingTends
<1>9. ASSUME first = {}, ~AtCap(c), c.pending = <<>> PROVE d.pending = <<>>
  <2>1. n \in Int /\ n > 0
    BY <1>1, <1>9 DEF AtCap
  <2> HIDE DEF n, all
  <2>2. all = {}
    <3> SUFFICES ASSUME all # {} PROVE FALSE
      OBVIOUS
    <3>1. PICK r \in all : {s \in all : s < r} = {}
      BY <1>2, Least
    <3>2. r \in first
      BY <2>1, <3>1, FS_EmptySet
    <3> QED BY <1>9, <3>2
  <2>3. late = {} /\ Cardinality(late) = 0
    <3>1. late = {}
      BY <2>2 DEF late
    <3> QED BY <3>1, FS_EmptySet
  <2>4. tail \in [1 .. 0 -> Job]
    BY <2>3 DEF Oldest
  <2>5. tail \in Seq(Job) /\ Len(tail) = 0
    <3>1. tail \in Seq(Job)
      BY <2>4, SeqDef
    <3> QED BY <2>4, <3>1, LenProperties
  <2>6. tail = <<>>
    BY <2>5, EmptySeq
  <2> QED BY <1>7, <1>9, <2>6
<1> HIDE DEF first
<1> QED BY <1>6, <1>8, <1>9 DEF Tended

LEMMA PatchedTends ==
    ASSUME NEW c, Sound(c), NEW r, NEW s, NEW d \in Patched(r, s, c), Tended(c), Fits(d)
    PROVE  Tended(d)
BY ReadmitTends DEF Patched

\* A life that is at one of the steps that end in pump().
LEMMA SetPcTends ==
    ASSUME NEW c \in Crews, NEW r \in Runs, NEW k \in Lives, NEW pc \in PumpingPcs
    PROVE  Busy(SetPc(c, r, k, pc))
<1>1. pc \in Pcs
  BY DEF PumpingPcs, Pcs
<1> QED BY <1>1, SetPcFacts DEF Busy

LEMMA InstallTends ==
    ASSUME NEW c \in Crews, Install(c), Fits(c) => Tended(c)
    PROVE  Tended(crew)'
<1>1. crew' = c
  BY DEF Install, crew, Crews
<1>2. Tended(c)
  BY DEF Install, Fits
<1> QED BY <1>1, <1>2 DEF Tended, AtCap, UsedSlots, Busy, crew

LEMMA CrewTended ==
    ASSUME Tended(crew), UNCHANGED crewVars
    PROVE  Tended(crew)'
BY DEF Tended, AtCap, UsedSlots, Busy, crew, crewVars

\* One step of a life.
LEMMA LifeStepTends ==
    ASSUME Inv, Tended(crew), NEW r \in Runs, NEW k \in Lives, LifeStep(r, k)
    PROVE  Tended(crew)'
<1>1. /\ Sound(crew) /\ crew \in Crews
      /\ crew.life[r][k].pc = Pc(r, k) /\ OwnedAt(crew, r)
      /\ crew.staffing = staffing /\ crew.workers = workers
  BY DEF Inv, Sound, Owned, crew, Pc
<1>2. ASSUME NEW pc \in PumpingPcs
      PROVE  SetPc(crew, r, k, pc) \in Crews /\ Tended(SetPc(crew, r, k, pc))
  <2>1. pc \in Pcs
    BY DEF PumpingPcs, Pcs
  <2>2. SetPc(crew, r, k, pc) \in Crews
    BY <1>1, <2>1, SetPcFacts
  <2> QED BY <1>1, <2>2, SetPcTends DEF Tended
<1>3. CASE ProvisionOk(r, k) \/ SpawnFails(r, k) \/ ProvisionHolds(r, k) \/ Discarded(r, k)
           \/ FinishYields(r, k) \/ FinishPublishes(r, k)
  <2>1. \E pc \in PumpingPcs : Install(SetPc(crew, r, k, pc))
    BY <1>3 DEF ProvisionOk, SpawnFails, ProvisionHolds, Discarded, FinishYields, FinishPublishes, PumpingPcs
  <2> QED BY <1>2, <2>1, InstallTends
<1>4. CASE Started(r, k)
  <2> DEFINE b == SetPc(crew, r, k, "registering")
             c == [b EXCEPT !.workers[r] = k]
  <2>1. b \in Crews /\ Busy(b)
    BY <1>1, SetPcTends, SetPcFacts DEF PumpingPcs, Pcs
  <2> HIDE DEF b
  <2>2. c \in Crews /\ c.life = b.life
    BY <2>1 DEF Crews
  <2>3. Install(c)
    BY <1>4 DEF Started, b
  <2> HIDE DEF c
  <2> QED BY <2>1, <2>2, <2>3, InstallTends DEF Tended, Busy
<1>5. CASE Retire(r, k)
  <2> DEFINE c == Pump(Released(Ended(crew, r, k), r, k), ledger)
  <2>1. Sound(Released(Ended(crew, r, k), r, k))
    BY <1>1, <1>5, RetiredSound DEF Retire, HandlePcs
  <2>2. c \in Crews /\ (Fits(c) => Tended(c)) /\ Install(c)
    BY <1>5, <2>1, PumpSound, PumpTends DEF Retire, Sound
  <2> HIDE DEF c
  <2> QED BY <2>2, InstallTends
<1>6. CASE Register(r, k)
  <2> DEFINE c == Pump(Released(SetPc(crew, r, k, "live"), r, k), ledger)
  <2>1. Sound(Released(SetPc(crew, r, k, "live"), r, k))
    BY <1>1, RegisteredSound
  <2>2. c \in Crews /\ (Fits(c) => Tended(c)) /\ Install(c)
    BY <1>6, <2>1, PumpSound, PumpTends DEF Register, Sound
  <2> HIDE DEF c
  <2> QED BY <2>2, InstallTends
<1>7. CASE DoneIgnored(r, k)
  <2>1. PICK c \in {SetPc(crew, r, k, "ended"), Ended(crew, r, k)} : Install(c)
    BY <1>7 DEF DoneIgnored
  <2>2. /\ c \in Crews /\ c.pending = crew.pending
        /\ c.workers = crew.workers /\ c.staffing = crew.staffing
        /\ \A q \in Runs \ {r} : c.life[q] = crew.life[q]
        /\ \A j \in Lives \ {k} : c.life[r][j] = crew.life[r][j]
    <3>1. CASE c = SetPc(crew, r, k, "ended")
      <4>1. "ended" \in Pcs
        BY DEF Pcs
      <4> QED BY <1>1, <3>1, <4>1, SetPcFacts
    <3>2. CASE c = Ended(crew, r, k)
      BY <1>1, <3>2, EndedFacts
    <3> QED BY <3>1, <3>2
  <2>3. AtCap(crew) => AtCap(c)
    BY <1>1, <2>2, CapKept
  <2>4. ASSUME Busy(crew) PROVE Busy(c)
    <3>1. PICK q \in Runs, j \in Lives : crew.life[q][j].pc \in PumpingPcs
      BY <2>4 DEF Busy
    <3>2. q # r \/ j # k
      BY <1>1, <1>7, <3>1 DEF DoneIgnored, PumpingPcs
    <3>3. c.life[q][j] = crew.life[q][j]
      BY <2>2, <3>2
    <3> QED BY <3>1, <3>3 DEF Busy
  <2> QED BY <2>1, <2>2, <2>3, <2>4, InstallTends DEF Tended
<1>8. CASE WorkerDone(r, k)
  <2> DEFINE b == SetPc(crew, r, k, "finish")
             c == Deregistered(b, r, k)
  <2>1. b \in Crews /\ Busy(b)
    BY <1>1, SetPcTends, SetPcFacts DEF PumpingPcs, Pcs
  <2> HIDE DEF b
  <2>2. c \in Crews /\ c.life = b.life
    BY <2>1 DEF Crews, Deregistered
  <2>3. Install(c)
    BY <1>8 DEF WorkerDone, b
  <2> HIDE DEF c
  <2> QED BY <2>1, <2>2, <2>3, InstallTends DEF Tended, Busy
<1>9. ASSUME Pc(r, k) \in {"finish", "publish"} PROVE Sound(SetPc(crew, r, k, "reap"))
  BY <1>1, <1>9, SetPcSound DEF OwnedAt, SpawnPcs, HandlePcs, Pcs, Lives, NoLife
<1>10. SetPc(crew, r, k, "reap") \in Crews /\ Tended(SetPc(crew, r, k, "reap"))
  BY <1>2 DEF PumpingPcs
<1>11. CASE Finish(r, k)
  <2> DEFINE b == SetPc(crew, r, k, "reap")
  <2>1. PICK s \in FinishStates(StageOf(r, k)) :
           Install(IF StageFor(s) = NoStage THEN b
                   ELSE SpawnGuarded(b, [ledger EXCEPT ![r] = s], r, StageFor(s)))
    BY <1>11 DEF Finish
  <2>2. Sound(b)
    BY <1>9, <1>11 DEF Finish
  <2> HIDE DEF b
  <2>3. CASE StageFor(s) = NoStage
    BY <1>10, <2>1, <2>3, InstallTends DEF b
  <2>4. CASE StageFor(s) # NoStage
    <3> DEFINE c == SpawnGuarded(b, [ledger EXCEPT ![r] = s], r, StageFor(s))
    <3>1. StageFor(s) \in Stages
      BY <2>4, StageForType
    <3>2. c \in Crews /\ (Fits(c) => Tended(c))
      BY <1>10, <2>2, <3>1, SpawnGuardedSound, SpawnGuardedTends DEF Sound, b
    <3>3. Install(c)
      BY <2>1, <2>4
    <3> HIDE DEF c
    <3> QED BY <3>2, <3>3, InstallTends
  <2> QED BY <2>3, <2>4
<1>12. CASE Published(r, k)
  <2> DEFINE b == SetPc(crew, r, k, "reap")
  <2>4. PICK s \in {"done", "unverified", "parked", ledger[r]} : \E c \in Patched(r, s, b) : Install(c)
    BY <1>12 DEF Published
  <2>1. PICK c \in Patched(r, s, b) : Install(c)
    BY <2>4
  <2>2. Sound(b)
    BY <1>9, <1>12 DEF Published
  <2> HIDE DEF b
  <2>3. c \in Crews /\ (Fits(c) => Tended(c))
    BY <1>10, <2>2, PatchedSound, PatchedTends DEF Sound, b
  <2> QED BY <2>1, <2>3, InstallTends
<1>13. CASE Reap(r, k)
  <2> DEFINE c == Pump(Ended(crew, r, k), ledger)
  <2>1. Sound(Ended(crew, r, k))
    BY <1>1, <1>13, EndedSound DEF Reap, SpawnPcs, HandlePcs, OwnedAt, Lives, NoLife
  <2>2. c \in Crews /\ (Fits(c) => Tended(c)) /\ Install(c)
    BY <1>13, <2>1, PumpSound, PumpTends DEF Reap, Sound
  <2> HIDE DEF c
  <2> QED BY <2>2, InstallTends
<1> QED BY <1>3, <1>4, <1>5, <1>6, <1>7, <1>8, <1>11, <1>12, <1>13 DEF LifeStep

\* A pump() with nothing queued behind it but what it could not launch.
LEMMA PumpedTends ==
    ASSUME NEW c, Sound(c), NEW st, Install(Pump(c, st))
    PROVE  Tended(crew)'
<1> DEFINE d == Pump(c, st)
<1>1. d \in Crews /\ (Fits(d) => Tended(d)) /\ Install(d)
  BY PumpSound, PumpTends DEF Sound
<1> HIDE DEF d
<1> QED BY <1>1, InstallTends

\* A spawn that is asked for.
LEMMA GuardedTends ==
    ASSUME NEW st, NEW r \in Runs, NEW stage \in Stages, Sound(crew), Tended(crew),
           Install(SpawnGuarded(crew, st, r, stage))
    PROVE  Tended(crew)'
<1> DEFINE d == SpawnGuarded(crew, st, r, stage)
<1>1. d \in Crews /\ (Fits(d) => Tended(d)) /\ Install(d)
  BY SpawnGuardedSound, SpawnGuardedTends DEF Sound
<1> HIDE DEF d
<1> QED BY <1>1, InstallTends

Watched == Tended(crew) \/ cancelling # {} \/ courier # {}

LEMMA CancelWritesTends ==
    ASSUME NEW r \in Runs, NEW c, Sound(c), CancelWrites(r, c)
    PROVE  Tended(crew)'
<1> DEFINE s == IF ledger[r] \in {"done", "failed"} THEN ledger[r] ELSE "cancelled"
<1>1. PICK d \in Patched(r, s, c) : Install(Pump(d, [ledger EXCEPT ![r] = s]))
  BY DEF CancelWrites
<1>2. Sound(d)
  BY PatchedSound
<1> QED BY <1>1, <1>2, PumpedTends

\* One step of a person, a timer or the watchdog.
LEMMA OutsideStepTends ==
    ASSUME Inv, Watched, NEW r \in Runs,
           \/ WatchdogStep(r) \/ HumanStep(r) \/ Settle(r) \/ QuestionTimeout(r)
           \/ CancelEnd(r) \/ CourierEnd(r)
    PROVE  Watched'
<1>1. Sound(crew) /\ crew \in Crews
  BY DEF Inv, Sound
<1>2. CASE Deploy(r)
  <2>1. UNCHANGED <<cancelling, courier>>
    BY <1>2 DEF Deploy
  <2>2. ASSUME Tended(crew) PROVE Tended(crew)'
    <3>1. CASE Install(crew)
      BY <1>1, <2>2, <3>1, InstallTends
    <3>2. CASE StageFor(ledger[r]) # NoStage /\ Install(SpawnGuarded(crew, ledger, r, StageFor(ledger[r])))
      BY <1>1, <2>2, <3>2, GuardedTends, StageForType
    <3> QED BY <1>2, <3>1, <3>2 DEF Deploy, AdmitRun
  <2> QED BY <2>1, <2>2 DEF Watched
<1>3. CASE Resume(r)
  <2>1. UNCHANGED <<cancelling, courier>>
    BY <1>3 DEF Resume
  <2>2. PICK stage \in Stages : Install(SpawnGuarded(crew, [ledger EXCEPT ![r] = StateOf(stage)], r, stage))
    BY <1>3 DEF Resume
  <2> QED BY <1>1, <2>1, <2>2, GuardedTends DEF Watched
<1>4. CASE Answer(r)
  <2>1. UNCHANGED <<cancelling, courier>>
    BY <1>4 DEF Answer
  <2>2. Install(SpawnGuarded(crew, [ledger EXCEPT ![r] = "implementing"], r, "implement"))
    BY <1>4 DEF Answer
  <2> QED BY <1>1, <2>1, <2>2, GuardedTends DEF Watched, Stages
<1>5. CASE WatchdogRestaffs(r)
  <2>1. UNCHANGED <<cancelling, courier>>
    BY <1>5 DEF WatchdogRestaffs
  <2>2. StageFor(ledger[r]) \in Stages /\ Install(SpawnGuarded(crew, ledger, r, StageFor(ledger[r])))
    BY <1>5, StageForType DEF WatchdogRestaffs, Handled
  <2> QED BY <1>1, <2>1, <2>2, GuardedTends DEF Watched
<1>6. CASE WatchdogForgets(r) \/ WatchdogSights(r) \/ WatchdogParks(r) \/ QuestionTimeout(r)
  <2>1. UNCHANGED <<cancelling, courier>> /\ UNCHANGED crewVars
    BY <1>6 DEF WatchdogForgets, WatchdogSights, WatchdogParks, QuestionTimeout
  <2> QED BY <2>1, CrewTended DEF Watched
<1>7. CASE CourierBegin(r)
  BY <1>7 DEF CourierBegin, Watched
<1>8. CASE Settle(r)
  <2>1. UNCHANGED <<cancelling, courier>>
    BY <1>8 DEF Settle
  <2>2. PICK s \in {"done", "unverified", "parked"} : \E c \in Patched(r, s, crew) : Install(c)
    BY <1>8 DEF Settle
  <2>3. PICK c \in Patched(r, s, crew) : Install(c)
    BY <2>2
  <2>4. ASSUME Tended(crew) PROVE Tended(crew)'
    <3>1. c \in Crews /\ (Fits(c) => Tended(c))
      BY <1>1, <2>4, PatchedSound, PatchedTends DEF Sound
    <3> QED BY <2>3, <3>1, InstallTends
  <2> QED BY <2>1, <2>4 DEF Watched
<1>9. CASE CancelBegin(r)
  <2> DEFINE c == HandleDropped(DropPending([crew EXCEPT !.staffing[r] = NoLife], r), r)
  <2>1. Sound(c)
    <3> DEFINE b == [crew EXCEPT !.staffing[r] = NoLife]
    <3>1. Sound(b) /\ b.staffing[r] = NoLife
      BY <1>1, UnreservedSound
    <3> HIDE DEF b
    <3>2. DropPending(b, r).staffing = b.staffing
      BY <3>1 DEF DropPending, Sound, Crews
    <3>3. Sound(DropPending(b, r))
      BY <3>1, DropPendingSound
    <3>4. Sound(HandleDropped(DropPending(b, r), r))
      BY <3>1, <3>2, <3>3, HandleDroppedSound
    <3> QED BY <3>4 DEF b
  <2> HIDE DEF c
  <2>2. CancelWrites(r, c) \/ cancelling' = cancelling \cup {r}
    BY <1>9 DEF CancelBegin, c
  <2> QED BY <2>1, <2>2, CancelWritesTends DEF Watched
<1>10. CASE CancelEnd(r)
  BY <1>1, <1>10, CancelWritesTends DEF CancelEnd, Watched
<1>11. CASE CourierEnd(r)
  <2>1. PICK s \in {"done", "unverified"} :
           \E c \in Patched(r, s, crew) : Install(Pump(c, [ledger EXCEPT ![r] = s]))
    BY <1>11 DEF CourierEnd
  <2>2. PICK c \in Patched(r, s, crew) : Install(Pump(c, [ledger EXCEPT ![r] = s]))
    BY <2>1
  <2>3. Sound(c)
    BY <1>1, PatchedSound
  <2> QED BY <2>2, <2>3, PumpedTends DEF Watched
<1> QED BY <1>2, <1>3, <1>4, <1>5, <1>6, <1>7, <1>8, <1>9, <1>10, <1>11 DEF WatchdogStep, HumanStep

LEMMA NextTends == Inv /\ Watched /\ [Next]_vars => Watched'
<1> SUFFICES ASSUME Inv, Watched, [Next]_vars PROVE Watched'
  OBVIOUS
<1>1. CASE UNCHANGED vars \/ TogglePause
  <2>1. UNCHANGED crewVars /\ UNCHANGED <<cancelling, courier>>
    BY <1>1 DEF vars, crewVars, TogglePause
  <2> QED BY <2>1, CrewTended DEF Watched
<1>2. CASE \E r \in Runs : \E k \in Lives : LifeStep(r, k)
  <2>1. PICK r \in Runs, k \in Lives : LifeStep(r, k)
    BY <1>2
  <2>2. UNCHANGED <<cancelling, courier>>
    BY <2>1 DEF LifeStep, ProvisionOk, SpawnFails, ProvisionHolds, Started, Discarded, Retire, Register,
                DoneIgnored, WorkerDone, Finish, FinishYields, FinishPublishes, Published, Reap
  <2> QED BY <2>1, <2>2, LifeStepTends DEF Watched
<1>3. CASE \E r \in Runs : \/ WatchdogStep(r) \/ HumanStep(r) \/ Settle(r)
                         \/ QuestionTimeout(r) \/ CancelEnd(r) \/ CourierEnd(r)
  BY <1>3, OutsideStepTends
<1> QED BY <1>1, <1>2, <1>3 DEF Next

\* No spawn is left waiting behind a free slot: a handler that will pump is in flight.
THEOREM StrandedCorrect == Spec => []NoStrandedPending
<1>1. Init => Watched
  BY DEF Init, Watched, Tended, crew
<1>2. Inv /\ Inv' /\ Watched /\ [Next]_vars => Watched'
  BY NextTends
<1>3. Inv /\ Watched => NoStrandedPending
  <2> SUFFICES ASSUME Inv, Watched, pending # <<>>, ~AtCap(crew)
               PROVE  \/ \E r \in Runs, k \in Lives : Pc(r, k) \in PumpingPcs
                      \/ \E r \in Runs : r \in cancelling \/ r \in courier
    BY DEF NoStrandedPending, PumpingPcs
  <2>1. CASE Busy(crew)
    BY <2>1 DEF Busy, crew, Pc
  <2>2. CASE cancelling # {} \/ courier # {}
    BY <2>2 DEF Inv, TypeOK
  <2> QED BY <2>1, <2>2 DEF Watched, Tended, crew
<1> QED BY <1>1, <1>2, <1>3, Invariance, PTL DEF Spec

\* A spawn held at the cap waits once, and never without somebody left to launch it.
THEOREM PendingCorrect == Spec => []PendingKept
BY PendingOnceCorrect, StrandedCorrect, PTL DEF PendingKept

-----------------------------------------------------------------------------
(* A final run nobody means to write stays final *)

WritingPcs == {"provision", "finish", "publish"}

\* From c to d, run r is given no slot and none of its lives comes to a step
\* that writes the run's state unasked.
Leaves(c, d, r) ==
    /\ d.workers[r] \in {c.workers[r], NoLife}
    /\ d.staffing[r] \in {c.staffing[r], NoLife}
    /\ \A k \in Lives : d.life[r][k].pc \in WritingPcs => c.life[r][k].pc \in WritingPcs

LEMMA LeavesOn ==
    ASSUME NEW b, NEW c, NEW d, NEW r, Leaves(b, c, r), Leaves(c, d, r)
    PROVE  Leaves(b, d, r)
BY DEF Leaves

LEMMA LaunchLeaves ==
    ASSUME NEW c \in Crews, NEW jobs, NEW r \in Runs, \A j \in jobs : j.run # r
    PROVE  Leaves(c, Launch(c, jobs), r) /\ Launch(c, jobs).pending = c.pending
<1> DEFINE L == {j.run : j \in jobs}
           stageOf(q) == (CHOOSE j \in jobs : j.run = q).stage
           S == [q \in Runs |-> IF q \in L THEN FreeLife(c, q) ELSE c.staffing[q]]
           F == [q \in Runs |-> [k \in Lives |->
                    IF q \in L /\ k = FreeLife(c, q)
                    THEN [pc |-> "provision", stage |-> stageOf(q)]
                    ELSE c.life[q][k]]]
<1>1. r \notin L
  OBVIOUS
<1> HIDE DEF L, stageOf
<1>2. S[r] = c.staffing[r] /\ \A k \in Lives : F[r][k] = c.life[r][k]
  BY <1>1
<1>3. Launch(c, jobs) = [c EXCEPT !.staffing = S, !.life = F]
  BY DEF Launch, L, stageOf, Crews
<1> HIDE DEF S, F
<1> QED BY <1>2, <1>3 DEF Leaves, Crews

LEMMA PendingLeaves ==
    ASSUME NEW c \in Crews, NEW p, NEW r
    PROVE  Leaves(c, [c EXCEPT !.pending = p], r)
BY DEF Leaves, Crews

\* A spawn of another run.
LEMMA GuardedLeaves ==
    ASSUME NEW c \in Crews, NEW st, NEW q \in Runs, NEW stage, NEW r \in Runs, q # r
    PROVE  Leaves(c, SpawnGuarded(c, st, q, stage), r)
<1> DEFINE job == [run |-> q, stage |-> stage]
<1>1. Leaves(c, c, r)
  BY DEF Leaves
<1>2. Leaves(c, Launch(c, {job}), r)
  <2>1. \A j \in {job} : j.run # r
    OBVIOUS
  <2> HIDE DEF job
  <2> QED BY <2>1, LaunchLeaves
<1>3. Leaves(c, [c EXCEPT !.pending = Append(c.pending, job)], r)
  BY PendingLeaves
<1>4. SpawnGuarded(c, st, q, stage)
        \in {c, Launch(c, {job}), [c EXCEPT !.pending = Append(c.pending, job)]}
  BY DEF SpawnGuarded
<1> HIDE DEF job
<1> QED BY <1>1, <1>2, <1>3, <1>4

\* pump() drops what it holds for a run that is over.
LEMMA PumpLeaves ==
    ASSUME NEW c, Sound(c), NEW st, NEW r \in Runs, st[r] \in RUN_TERMINAL
    PROVE  Leaves(c, Pump(c, st), r)
<1> DEFINE able(i) == /\ st[c.pending[i].run] \notin RUN_TERMINAL
                      /\ ~Staffed(c, c.pending[i].run)
           ahead(i) == {j \in 1 .. (i - 1) : able(j)}
           shifted == {i \in 1 .. Len(c.pending) : Cardinality(ahead(i)) < MaxLive - UsedSlots(c)}
           jobs == {c.pending[i] : i \in {i \in shifted : able(i)}}
           rest == SubSeq(c.pending, Cardinality(shifted) + 1, Len(c.pending))
           d == Launch(c, jobs)
<1>1. Sound(Pump(c, st)) /\ Pump(c, st) = [d EXCEPT !.pending = rest]
  BY PumpSound DEF Pump
<1>2. \A j \in jobs : j.run # r
  <2> HIDE DEF shifted
  <2> QED OBVIOUS
<1> HIDE DEF jobs, rest
<1>3. c \in Crews
  BY DEF Sound
<1>4. Leaves(c, d, r)
  BY <1>2, <1>3, LaunchLeaves
<1>5. /\ [d EXCEPT !.pending = rest].workers = d.workers
      /\ [d EXCEPT !.pending = rest].staffing = d.staffing
      /\ [d EXCEPT !.pending = rest].life = d.life
  BY <1>3 DEF d, Launch, Crews
<1> HIDE DEF d
<1> QED BY <1>1, <1>4, <1>5 DEF Leaves

\* patchRun's re-admission takes queued runs only.
LEMMA ReadmitLeaves ==
    ASSUME NEW c \in Crews, NEW st, NEW d \in ReadmitQueued(c, st), NEW r \in Runs, st[r] # "queued"
    PROVE  Leaves(c, d, r)
<1> DEFINE all == Admissible(c, st)
           first == {q \in all : Cardinality({s \in all : s < q}) < MaxLive - UsedSlots(c)}
           late == {q \in all \ first : ~IsPending(c, q)}
           jobs == {ImplementJob(q) : q \in first}
           b == Launch(c, jobs)
<1>1. PICK tail \in Oldest(late) : d = [b EXCEPT !.pending = @ \o tail]
  BY DEF ReadmitQueued
<1>2. r \notin all
  BY DEF Admissible
<1>3. \A j \in jobs : j.run # r
  <2>1. \A q \in first : ImplementJob(q).run # r
    BY <1>2 DEF ImplementJob
  <2> HIDE DEF first
  <2> QED BY <2>1
<1> HIDE DEF jobs, late
<1>4. Leaves(c, b, r)
  BY <1>3, LaunchLeaves
<1>5. d.workers = b.workers /\ d.staffing = b.staffing /\ d.life = b.life
  BY <1>1 DEF b, Launch, Crews
<1> HIDE DEF b
<1> QED BY <1>4, <1>5 DEF Leaves

LEMMA PatchedLeaves ==
    ASSUME NEW c \in Crews, NEW q, NEW s, NEW d \in Patched(q, s, c), NEW r \in Runs,
           [ledger EXCEPT ![q] = s][r] \in RUN_FINAL
    PROVE  Leaves(c, d, r)
<1>1. Leaves(c, c, r)
  BY DEF Leaves
<1>2. [ledger EXCEPT ![q] = s][r] # "queued"
  BY DEF RUN_FINAL
<1> QED BY <1>1, <1>2, ReadmitLeaves DEF Patched

\* patchRun, then pump: how a cancel or courier ends.
LEMMA PatchPumpLeaves ==
    ASSUME NEW c, Sound(c), NEW q, NEW s, NEW d \in Patched(q, s, c), NEW r \in Runs,
           [ledger EXCEPT ![q] = s][r] \in RUN_FINAL
    PROVE  LET e == Pump(d, [ledger EXCEPT ![q] = s])
           IN  Leaves(c, e, r) /\ e \in Crews
<1>1. c \in Crews /\ Sound(d) /\ [ledger EXCEPT ![q] = s][r] \in RUN_TERMINAL
  BY PatchedSound DEF Sound, RUN_TERMINAL
<1>2. Leaves(c, d, r)
  BY <1>1, PatchedLeaves
<1>3. Leaves(d, Pump(d, [ledger EXCEPT ![q] = s]), r) /\ Sound(Pump(d, [ledger EXCEPT ![q] = s]))
  BY <1>1, PumpLeaves, PumpSound
<1> QED BY <1>2, <1>3, LeavesOn DEF Sound

LEMMA DropPendingLeaves ==
    ASSUME NEW c \in Crews, NEW q, NEW r
    PROVE  Leaves(c, DropPending(c, q), r)
<1>1. Leaves(c, c, r)
  BY DEF Leaves
<1> QED BY <1>1, PendingLeaves DEF DropPending

\* What FinalStays says of one run.
Stays(r) ==
    /\ Over(r)' /\ ledger'[r] = ledger[r]
    /\ staffing'[r] \in {staffing[r], NoLife}
    /\ workers'[r] \in {workers[r], NoLife}

LEMMA InstallStays ==
    ASSUME NEW r \in Runs, Over(r), NEW c, Install(c), Leaves(crew, c, r),
           ledger'[r] = ledger[r], r \notin courier'
    PROVE  Stays(r)
BY DEF Over, Leaves, Install, crew, Stays, Pc, WritingPcs

LEMMA CrewStays ==
    ASSUME NEW r \in Runs, Over(r), UNCHANGED crewVars, ledger'[r] = ledger[r], r \notin courier'
    PROVE  Stays(r)
BY DEF Over, crewVars, Stays, Pc

\* One step of a life, the run's own or another's.
LEMMA LifeStepStays ==
    ASSUME Inv, NEW r \in Runs, Over(r), NEW q \in Runs, NEW k \in Lives, LifeStep(q, k)
    PROVE  Stays(r)
<1>1. /\ Sound(crew) /\ crew \in Crews /\ ledger \in [Runs -> RunStates]
      /\ ledger[r] \in RUN_FINAL /\ r \notin courier
      /\ crew.life[q][k].pc = Pc(q, k) /\ OwnedAt(crew, q)
      /\ crew.staffing = staffing /\ crew.workers = workers
  BY DEF Inv, Sound, Owned, TypeOK, Over, crew, Pc
<1>2. courier' = courier
  BY DEF LifeStep, ProvisionOk, SpawnFails, ProvisionHolds, Started, Discarded, Retire, Register,
         DoneIgnored, WorkerDone, Finish, FinishYields, FinishPublishes, Published, Reap
<1>3. q = r => Pc(q, k) \notin WritingPcs
  BY DEF Over, WritingPcs
<1>4. ASSUME NEW pc \in Pcs, q # r \/ pc \notin WritingPcs
      PROVE  LET c == SetPc(crew, q, k, pc)
             IN  c \in Crews /\ Leaves(crew, c, r)
  BY <1>1, <1>4, SetPcFacts DEF Leaves
<1>5. LET c == Ended(crew, q, k)
      IN  c \in Crews /\ Leaves(crew, c, r)
  <2> DEFINE c == Ended(crew, q, k)
  <2>1. c.life[q][k].pc = "idle"
    BY <1>1 DEF Ended, Unused, Crews
  <2>2. /\ c \in Crews /\ c.workers = crew.workers /\ c.staffing = crew.staffing
        /\ \A p \in Runs \ {q} : c.life[p] = crew.life[p]
        /\ \A j \in Lives \ {k} : c.life[q][j] = crew.life[q][j]
    BY <1>1, EndedFacts
  <2> HIDE DEF c
  <2> QED BY <2>1, <2>2 DEF Leaves, WritingPcs, c
<1>6. ASSUME NEW c \in Crews
      PROVE  Leaves(c, Released(c, q, k), r)
  BY <1>6, ReleasedFacts DEF Leaves
<1>7. CASE ProvisionOk(q, k) \/ ProvisionHolds(q, k)
  <2>1. q # r
    BY <1>3, <1>7 DEF ProvisionOk, ProvisionHolds, WritingPcs
  <2>2. ledger'[r] = ledger[r]
    BY <1>1, <1>7, <2>1 DEF ProvisionOk, ProvisionHolds, Patch
  <2>3. PICK pc \in {"starting", "retiring"} : Install(SetPc(crew, q, k, pc))
    BY <1>7 DEF ProvisionOk, ProvisionHolds
  <2>4. Leaves(crew, SetPc(crew, q, k, pc), r)
    BY <1>4, <2>1 DEF Pcs
  <2> QED BY <1>1, <1>2, <2>2, <2>3, <2>4, InstallStays
<1>8. CASE SpawnFails(q, k) \/ Discarded(q, k) \/ FinishYields(q, k)
  <2>1. PICK pc \in {"retiring", "reap"} : Install(SetPc(crew, q, k, pc)) /\ ledger' = ledger
    BY <1>8 DEF SpawnFails, Discarded, FinishYields
  <2>2. Leaves(crew, SetPc(crew, q, k, pc), r)
    BY <1>4 DEF Pcs, WritingPcs
  <2> QED BY <1>1, <1>2, <2>1, <2>2, InstallStays
<1>9. CASE Started(q, k)
  <2> DEFINE b == SetPc(crew, q, k, "registering")
             c == [b EXCEPT !.workers[q] = k]
  <2>1. q # r
    BY <1>1, <1>9 DEF Started, RUN_TERMINAL
  <2>2. b \in Crews /\ Leaves(crew, b, r)
    BY <1>4, <2>1 DEF Pcs
  <2>3. Install(c) /\ ledger' = ledger
    BY <1>9 DEF Started
  <2> HIDE DEF b
  <2>4. Leaves(b, c, r)
    BY <2>1, <2>2 DEF Leaves, Crews
  <2> HIDE DEF c
  <2> QED BY <1>1, <1>2, <2>2, <2>3, <2>4, LeavesOn, InstallStays
<1>10. CASE Retire(q, k)
  <2> DEFINE a == Ended(crew, q, k)
             b == Released(a, q, k)
             c == Pump(b, ledger)
  <2>1. Sound(b) /\ Leaves(a, b, r) /\ Leaves(crew, a, r)
    BY <1>1, <1>5, <1>6, <1>10, RetiredSound DEF Retire, HandlePcs
  <2>2. Install(c) /\ ledger' = ledger
    BY <1>10 DEF Retire
  <2> HIDE DEF a, b
  <2>3. Leaves(b, c, r)
    BY <1>1, <2>1, PumpLeaves DEF RUN_TERMINAL
  <2> HIDE DEF c
  <2>4. Leaves(crew, c, r)
    BY <2>1, <2>3, LeavesOn
  <2> QED BY <1>1, <1>2, <2>2, <2>4, InstallStays
<1>11. CASE Register(q, k)
  <2> DEFINE a == SetPc(crew, q, k, "live")
             b == Released(a, q, k)
             c == Pump(b, ledger)
  <2>1. Sound(b)
    BY <1>1, RegisteredSound
  <2>2. Leaves(crew, a, r) /\ a \in Crews
    BY <1>4 DEF Pcs, WritingPcs
  <2>3. Install(c) /\ ledger' = ledger
    BY <1>11 DEF Register
  <2> HIDE DEF a
  <2>4. Leaves(a, b, r)
    BY <1>6, <2>2
  <2> HIDE DEF b
  <2>5. Leaves(b, c, r)
    BY <1>1, <2>1, PumpLeaves DEF RUN_TERMINAL
  <2> HIDE DEF c
  <2>6. Leaves(crew, c, r)
    BY <2>2, <2>4, <2>5, LeavesOn
  <2> QED BY <1>1, <1>2, <2>3, <2>6, InstallStays
<1>12. CASE DoneIgnored(q, k)
  <2>1. PICK c \in {SetPc(crew, q, k, "ended"), Ended(crew, q, k)} : Install(c) /\ ledger' = ledger
    BY <1>12 DEF DoneIgnored
  <2>2. Leaves(crew, c, r)
    BY <1>4, <1>5, <2>1 DEF Pcs, WritingPcs
  <2> QED BY <1>1, <1>2, <2>1, <2>2, InstallStays
<1>13. CASE WorkerDone(q, k)
  <2> DEFINE b == SetPc(crew, q, k, "finish")
             c == Deregistered(b, q, k)
  <2>1. q # r
    BY <1>1, <1>13 DEF WorkerDone
  <2>2. b \in Crews /\ Leaves(crew, b, r)
    BY <1>4, <2>1 DEF Pcs
  <2>3. Install(c) /\ ledger' = ledger
    BY <1>13 DEF WorkerDone
  <2> HIDE DEF b
  <2>4. Leaves(b, c, r)
    BY <2>1, <2>2 DEF Leaves, Deregistered, Crews
  <2> HIDE DEF c
  <2> QED BY <1>1, <1>2, <2>2, <2>3, <2>4, LeavesOn, InstallStays
<1>14. ASSUME Pc(q, k) \in {"finish", "publish"}
       PROVE  LET b == SetPc(crew, q, k, "reap")
              IN  q # r /\ Sound(b) /\ b \in Crews /\ Leaves(crew, b, r)
  <2>1. q # r
    BY <1>3, <1>14 DEF WritingPcs
  <2>2. Sound(SetPc(crew, q, k, "reap"))
    BY <1>1, <1>14, SetPcSound DEF OwnedAt, SpawnPcs, HandlePcs, Pcs, Lives, NoLife
  <2>3. Leaves(crew, SetPc(crew, q, k, "reap"), r)
    BY <1>4 DEF Pcs, WritingPcs
  <2> QED BY <2>1, <2>2, <2>3 DEF Sound
<1>15. CASE Finish(q, k)
  <2> DEFINE b == SetPc(crew, q, k, "reap")
  <2>1. PICK s \in FinishStates(StageOf(q, k)) :
           /\ Patch(q, s)
           /\ Install(IF StageFor(s) = NoStage THEN b
                      ELSE SpawnGuarded(b, [ledger EXCEPT ![q] = s], q, StageFor(s)))
    BY <1>15 DEF Finish
  <2>2. q # r /\ b \in Crews /\ Leaves(crew, b, r)
    BY <1>14, <1>15 DEF Finish
  <2>3. ledger'[r] = ledger[r]
    BY <1>1, <2>1, <2>2 DEF Patch
  <2> HIDE DEF b
  <2> DEFINE c == SpawnGuarded(b, [ledger EXCEPT ![q] = s], q, StageFor(s))
  <2>4. Leaves(b, c, r)
    BY <2>2, GuardedLeaves
  <2>5. Install(b) \/ Install(c)
    BY <2>1
  <2> HIDE DEF c
  <2>6. Leaves(crew, c, r)
    BY <2>2, <2>4, LeavesOn
  <2> QED BY <1>1, <1>2, <2>2, <2>3, <2>5, <2>6, InstallStays
<1>16. CASE FinishPublishes(q, k)
  <2>1. q # r
    BY <1>3, <1>16 DEF FinishPublishes, WritingPcs
  <2>2. ledger'[r] = ledger[r] /\ Install(SetPc(crew, q, k, "publish"))
    BY <1>1, <1>16, <2>1 DEF FinishPublishes, Patch
  <2>3. Leaves(crew, SetPc(crew, q, k, "publish"), r)
    BY <1>4, <2>1 DEF Pcs
  <2> QED BY <1>1, <1>2, <2>2, <2>3, InstallStays
<1>17. CASE Published(q, k)
  <2> DEFINE b == SetPc(crew, q, k, "reap")
  <2>1. PICK s \in {"done", "unverified", "parked", ledger[q]} :
           Patch(q, s) /\ \E c \in Patched(q, s, b) : Install(c)
    BY <1>17 DEF Published
  <2>2. PICK c \in Patched(q, s, b) : Install(c)
    BY <2>1
  <2>3. q # r /\ b \in Crews /\ Leaves(crew, b, r)
    BY <1>14, <1>17 DEF Published
  <2>4. ledger'[r] = ledger[r] /\ [ledger EXCEPT ![q] = s][r] = ledger[r]
    BY <1>1, <2>1, <2>3 DEF Patch
  <2> HIDE DEF b
  <2>5. Leaves(b, c, r)
    BY <1>1, <2>3, <2>4, PatchedLeaves
  <2> QED BY <1>1, <1>2, <2>2, <2>3, <2>4, <2>5, LeavesOn, InstallStays
<1>18. CASE Reap(q, k)
  <2> DEFINE a == Ended(crew, q, k)
             c == Pump(a, ledger)
  <2>1. Sound(a)
    BY <1>1, <1>18, EndedSound DEF Reap, SpawnPcs, HandlePcs, OwnedAt, Lives, NoLife
  <2>2. Install(c) /\ ledger' = ledger /\ Leaves(crew, a, r)
    BY <1>5, <1>18 DEF Reap
  <2> HIDE DEF a
  <2>3. Leaves(a, c, r)
    BY <1>1, <2>1, PumpLeaves DEF RUN_TERMINAL
  <2> HIDE DEF c
  <2> QED BY <1>1, <1>2, <2>2, <2>3, LeavesOn, InstallStays
<1> QED BY <1>7, <1>8, <1>9, <1>10, <1>11, <1>12, <1>13, <1>15, <1>16, <1>17, <1>18 DEF LifeStep

\* cancel()'s final write: of another run, or of this one in the state it has.
LEMMA CancelWritesStays ==
    ASSUME Inv, NEW r \in Runs, Over(r), NEW q \in Runs, NEW c, Sound(c), Leaves(crew, c, r),
           CancelWrites(q, c), courier' = courier
    PROVE  Stays(r)
<1> DEFINE s == IF ledger[q] \in {"done", "failed"} THEN ledger[q] ELSE "cancelled"
           st == [ledger EXCEPT ![q] = s]
<1>1. ledger \in [Runs -> RunStates] /\ ledger[r] \in RUN_FINAL /\ r \notin courier
  BY DEF Inv, TypeOK, Over
<1>2. st[r] = ledger[r] /\ ledger'[r] = ledger[r]
  BY <1>1 DEF CancelWrites, Patch, RUN_FINAL
<1>3. PICK d \in Patched(q, s, c) : Install(Pump(d, st))
  BY DEF CancelWrites
<1> HIDE DEF s
<1>4. Leaves(c, Pump(d, st), r)
  BY <1>1, <1>2, PatchPumpLeaves
<1> HIDE DEF st
<1>5. Leaves(crew, Pump(d, st), r)
  BY <1>4, LeavesOn
<1> QED BY <1>1, <1>2, <1>3, <1>5, InstallStays

\* One step of a person, a timer or the watchdog.
LEMMA OutsideStepStays ==
    ASSUME Inv, NEW r \in Runs, Over(r), NEW q \in Runs,
           \/ WatchdogStep(q) \/ HumanStep(q) \/ Settle(q) \/ QuestionTimeout(q)
           \/ CancelEnd(q) \/ CourierEnd(q)
    PROVE  Stays(r)
<1>1. /\ Sound(crew) /\ crew \in Crews /\ ledger \in [Runs -> RunStates]
      /\ ledger[r] \in RUN_FINAL /\ r \notin courier
  BY DEF Inv, Sound, TypeOK, Over
<1>2. Leaves(crew, crew, r)
  BY DEF Leaves
<1>3. StageFor(ledger[r]) = NoStage
  BY <1>1 DEF StageFor, RUN_FINAL
<1>4. CASE Deploy(q)
  <2>1. UNCHANGED <<ledger, courier>> /\ Install(AdmitRun(crew, ledger, q))
    BY <1>4 DEF Deploy
  <2>2. Leaves(crew, AdmitRun(crew, ledger, q), r)
    <3>1. CASE q = r
      BY <1>2, <1>3, <3>1 DEF AdmitRun
    <3>2. CASE q # r
      <4>1. Leaves(crew, SpawnGuarded(crew, ledger, q, StageFor(ledger[q])), r)
        BY <1>1, <3>2, GuardedLeaves
      <4> QED BY <1>2, <4>1 DEF AdmitRun
    <3> QED BY <3>1, <3>2
  <2> QED BY <1>1, <2>1, <2>2, InstallStays
<1>5. CASE Resume(q)
  <2>1. PICK stage \in Stages :
           LET st == [ledger EXCEPT ![q] = StateOf(stage)]
           IN  ledger' = st /\ Install(SpawnGuarded(crew, st, q, stage))
    BY <1>5 DEF Resume
  <2>2. q # r /\ courier' = courier
    BY <1>1, <1>5 DEF Resume, RUN_FINAL
  <2>3. Leaves(crew, SpawnGuarded(crew, [ledger EXCEPT ![q] = StateOf(stage)], q, stage), r)
    BY <1>1, <2>2, GuardedLeaves
  <2> QED BY <1>1, <2>1, <2>2, <2>3, InstallStays
<1>6. CASE Answer(q)
  <2>1. q # r /\ courier' = courier /\ ledger' = [ledger EXCEPT ![q] = "implementing"]
    BY <1>1, <1>6 DEF Answer, RUN_FINAL
  <2>2. Install(SpawnGuarded(crew, [ledger EXCEPT ![q] = "implementing"], q, "implement"))
    BY <1>6 DEF Answer
  <2>3. Leaves(crew, SpawnGuarded(crew, [ledger EXCEPT ![q] = "implementing"], q, "implement"), r)
    BY <1>1, <2>1, GuardedLeaves
  <2> QED BY <1>1, <2>1, <2>2, <2>3, InstallStays
<1>7. CASE WatchdogRestaffs(q)
  <2>1. UNCHANGED <<ledger, courier>> /\ Install(SpawnGuarded(crew, ledger, q, StageFor(ledger[q])))
    BY <1>7 DEF WatchdogRestaffs
  <2>2. q # r
    BY <1>3, <1>7 DEF WatchdogRestaffs, Handled
  <2>3. Leaves(crew, SpawnGuarded(crew, ledger, q, StageFor(ledger[q])), r)
    BY <1>1, <2>2, GuardedLeaves
  <2> QED BY <1>1, <2>1, <2>3, InstallStays
<1>8. CASE WatchdogForgets(q) \/ WatchdogSights(q)
  BY <1>1, <1>8, CrewStays DEF WatchdogForgets, WatchdogSights
<1>9. CASE WatchdogParks(q) \/ QuestionTimeout(q)
  <2>1. q # r /\ UNCHANGED crewVars /\ courier' = courier /\ Patch(q, "parked")
    BY <1>1, <1>3, <1>9 DEF WatchdogParks, QuestionTimeout, Handled, RUN_FINAL
  <2> QED BY <1>1, <2>1, CrewStays DEF Patch
<1>10. CASE Settle(q)
  <2>1. PICK s \in {"done", "unverified", "parked"} :
           Patch(q, s) /\ \E c \in Patched(q, s, crew) : Install(c)
    BY <1>10 DEF Settle
  <2>2. PICK c \in Patched(q, s, crew) : Install(c)
    BY <2>1
  <2>3. q # r /\ courier' = courier
    BY <1>1, <1>10 DEF Settle, RUN_FINAL
  <2>4. ledger'[r] = ledger[r] /\ [ledger EXCEPT ![q] = s][r] = ledger[r]
    BY <1>1, <2>1, <2>3 DEF Patch
  <2>5. Leaves(crew, c, r)
    BY <1>1, <2>4, PatchedLeaves
  <2> QED BY <1>1, <2>2, <2>3, <2>4, <2>5, InstallStays
<1>11. CASE CancelBegin(q)
  <2> DEFINE a == [crew EXCEPT !.staffing[q] = NoLife]
             b == DropPending(a, q)
             c == HandleDropped(b, q)
  <2>1. q # r /\ courier' = courier
    BY <1>1, <1>11 DEF CancelBegin
  <2>2. a \in Crews /\ Sound(a) /\ a.staffing[q] = NoLife
    BY <1>1, UnreservedSound DEF Sound
  <2>3. Leaves(crew, a, r)
    BY <1>1 DEF Leaves, Crews
  <2>4. CancelWrites(q, c) \/ (Install(c) /\ ledger' = ledger)
    BY <1>11 DEF CancelBegin
  <2> HIDE DEF a
  <2>5. Sound(b) /\ b \in Crews /\ Leaves(a, b, r) /\ b.staffing = a.staffing
    <3>1. Sound(b) /\ Leaves(a, b, r)
      BY <2>2, DropPendingSound, DropPendingLeaves
    <3>2. b.staffing = a.staffing
      BY <2>2 DEF DropPending, Crews
    <3> QED BY <3>1, <3>2 DEF Sound
  <2> HIDE DEF b
  <2>6. Sound(c)
    BY <2>2, <2>5, HandleDroppedSound
  <2>7. Leaves(b, c, r)
    BY <2>1, <2>5 DEF Leaves, HandleDropped, Crews
  <2> HIDE DEF c
  <2>8. Leaves(crew, c, r)
    BY <2>3, <2>5, <2>7, LeavesOn
  <2> QED BY <1>1, <2>1, <2>4, <2>6, <2>8, CancelWritesStays, InstallStays
<1>12. CASE CancelEnd(q)
  <2>1. CancelWrites(q, crew) /\ courier' = courier
    BY <1>12 DEF CancelEnd
  <2> QED BY <1>1, <1>2, <2>1, CancelWritesStays
<1>13. CASE CourierBegin(q)
  <2> DEFINE a == [crew EXCEPT !.staffing[q] = NoLife]
             b == DropPending(a, q)
  <2>1. q # r /\ courier' = courier \cup {q}
    BY <1>1, <1>13 DEF CourierBegin, RUN_FINAL
  <2>2. a \in Crews /\ Leaves(crew, a, r)
    <3>1. a \in Crews
      BY <1>1, UnreservedSound DEF Sound
    <3>2. Leaves(crew, a, r)
      BY <1>1 DEF Leaves, Crews
    <3> QED BY <3>1, <3>2
  <2>3. Install(b) /\ ledger' = ledger
    BY <1>13 DEF CourierBegin
  <2> HIDE DEF a
  <2>4. Leaves(a, b, r)
    BY <2>2, DropPendingLeaves
  <2> HIDE DEF b
  <2> QED BY <1>1, <2>1, <2>2, <2>3, <2>4, LeavesOn, InstallStays
<1>14. CASE CourierEnd(q)
  <2>1. PICK s \in {"done", "unverified"} :
           Patch(q, s) /\ \E c \in Patched(q, s, crew) : Install(Pump(c, [ledger EXCEPT ![q] = s]))
    BY <1>14 DEF CourierEnd
  <2>2. PICK c \in Patched(q, s, crew) : Install(Pump(c, [ledger EXCEPT ![q] = s]))
    BY <2>1
  <2>3. q # r /\ r \notin courier'
    BY <1>1, <1>14 DEF CourierEnd
  <2>4. ledger'[r] = ledger[r] /\ [ledger EXCEPT ![q] = s][r] = ledger[r]
    BY <1>1, <2>1, <2>3 DEF Patch
  <2>5. Leaves(crew, Pump(c, [ledger EXCEPT ![q] = s]), r)
    BY <1>1, <2>4, PatchPumpLeaves
  <2> QED BY <2>2, <2>3, <2>4, <2>5, InstallStays
<1> QED BY <1>4, <1>5, <1>6, <1>7, <1>8, <1>9, <1>10, <1>11, <1>12, <1>13, <1>14
        DEF WatchdogStep, HumanStep

\* A finished, failed or cancelled run that no spawn, finish, publish or courier
\* already under way still writes keeps its state for good: no ping, resume, late
\* exit, cancel, re-admission, pump or watchdog pass moves it, gives it a slot or
\* starts a handler that could.
THEOREM FinalCorrect == Spec => FinalStays
<1>1. ASSUME Inv, [Next]_vars, NEW r \in Runs, Over(r) PROVE Stays(r)
  <2>1. CASE UNCHANGED vars \/ TogglePause
    <3>1. UNCHANGED <<crewVars, ledger, courier>>
      BY <2>1 DEF vars, crewVars, TogglePause
    <3>2. r \notin courier
      BY <1>1 DEF Over
    <3> QED BY <1>1, <3>1, <3>2, CrewStays
  <2>2. CASE \E q \in Runs : \E k \in Lives : LifeStep(q, k)
    BY <1>1, <2>2, LifeStepStays
  <2>3. CASE \E q \in Runs : \/ WatchdogStep(q) \/ HumanStep(q) \/ Settle(q)
                           \/ QuestionTimeout(q) \/ CancelEnd(q) \/ CourierEnd(q)
    BY <1>1, <2>3, OutsideStepStays
  <2> QED BY <1>1, <2>1, <2>2, <2>3 DEF Next
<1>2. Inv /\ [Next]_vars =>
        [\A r \in Runs : Over(r) =>
             /\ Over(r)' /\ ledger'[r] = ledger[r]
             /\ staffing'[r] \in {staffing[r], NoLife}
             /\ workers'[r] \in {workers[r], NoLife}]_vars
  BY <1>1 DEF Stays
<1> QED BY <1>2, Invariance, PTL DEF Spec, FinalStays

-----------------------------------------------------------------------------
(* A run marked as finishing has a finish under way *)

FinishPcs == {"finish", "publish"}

\* From c to d, no finish of run r is lost.
Keeps(c, d, r) ==
    \A k \in Lives : c.life[r][k].pc \in FinishPcs => d.life[r][k].pc \in FinishPcs

Held(r) == r \in finishing => \E k \in Lives : Pc(r, k) \in FinishPcs

LEMMA KeepsOn ==
    ASSUME NEW b, NEW c, NEW d, NEW r, Keeps(b, c, r), Keeps(c, d, r)
    PROVE  Keeps(b, d, r)
BY DEF Keeps

\* A spawn is given a life not in use, whatever the run's other lives do.
LEMMA LaunchKeeps ==
    ASSUME NEW c \in Crews, NEW jobs, NEW p, NEW r \in Runs
    PROVE  Keeps(c, Launch(c, jobs), r) /\ Keeps(c, [Launch(c, jobs) EXCEPT !.pending = p], r)
<1> DEFINE L == {j.run : j \in jobs}
           stageOf(q) == (CHOOSE j \in jobs : j.run = q).stage
           S == [q \in Runs |-> IF q \in L THEN FreeLife(c, q) ELSE c.staffing[q]]
           F == [q \in Runs |-> [k \in Lives |->
                    IF q \in L /\ k = FreeLife(c, q)
                    THEN [pc |-> "provision", stage |-> stageOf(q)]
                    ELSE c.life[q][k]]]
<1>1. ASSUME NEW k \in Lives, c.life[r][k].pc \in FinishPcs PROVE F[r][k] = c.life[r][k]
  <2>1. k # FreeLife(c, r)
    BY <1>1, StaffingAssumption DEF FreeLife, FinishPcs, Lives
  <2> HIDE DEF L, stageOf
  <2> QED BY <2>1
<1>2. Launch(c, jobs) = [c EXCEPT !.staffing = S, !.life = F]
  BY DEF Launch, L, stageOf, Crews
<1> HIDE DEF S, F
<1>3. /\ Launch(c, jobs).life = F
      /\ [Launch(c, jobs) EXCEPT !.pending = p].life = F
  BY <1>2 DEF Crews
<1> QED BY <1>1, <1>3 DEF Keeps

LEMMA PendingKeeps ==
    ASSUME NEW c \in Crews, NEW p, NEW r
    PROVE  Keeps(c, [c EXCEPT !.pending = p], r)
BY DEF Keeps, Crews

LEMMA GuardedKeeps ==
    ASSUME NEW c \in Crews, NEW st, NEW q, NEW stage, NEW r \in Runs
    PROVE  Keeps(c, SpawnGuarded(c, st, q, stage), r)
<1> DEFINE job == [run |-> q, stage |-> stage]
<1>1. Keeps(c, c, r)
  BY DEF Keeps
<1>2. /\ Keeps(c, Launch(c, {job}), r)
      /\ Keeps(c, [c EXCEPT !.pending = Append(c.pending, job)], r)
  BY LaunchKeeps, PendingKeeps
<1>3. SpawnGuarded(c, st, q, stage)
        \in {c, Launch(c, {job}), [c EXCEPT !.pending = Append(c.pending, job)]}
  BY DEF SpawnGuarded
<1> HIDE DEF job
<1> QED BY <1>1, <1>2, <1>3

LEMMA PumpKeeps ==
    ASSUME NEW c \in Crews, NEW st, NEW r \in Runs
    PROVE  Keeps(c, Pump(c, st), r)
<1>1. PICK jobs, p : Pump(c, st) = [Launch(c, jobs) EXCEPT !.pending = p]
  BY DEF Pump
<1> QED BY <1>1, LaunchKeeps

LEMMA PatchedKeeps ==
    ASSUME NEW c \in Crews, NEW q, NEW s, NEW d \in Patched(q, s, c), NEW r \in Runs
    PROVE  Keeps(c, d, r)
<1> DEFINE st == [ledger EXCEPT ![q] = s]
<1>1. Keeps(c, c, r)
  BY DEF Keeps
<1>2. CASE d \in ReadmitQueued(c, st)
  <2> HIDE DEF st
  <2>1. PICK jobs, tail : d = [Launch(c, jobs) EXCEPT !.pending = @ \o tail]
    BY <1>2 DEF ReadmitQueued
  <2>2. d = [Launch(c, jobs) EXCEPT !.pending = Launch(c, jobs).pending \o tail]
    BY <2>1
  <2> QED BY <2>2, LaunchKeeps
<1> QED BY <1>1, <1>2 DEF Patched

LEMMA PatchPumpKeeps ==
    ASSUME NEW c, Sound(c), NEW q, NEW s, NEW d \in Patched(q, s, c), NEW r \in Runs
    PROVE  Keeps(c, Pump(d, [ledger EXCEPT ![q] = s]), r)
<1> DEFINE st == [ledger EXCEPT ![q] = s]
<1>1. Keeps(c, d, r) /\ d \in Crews
  BY PatchedKeeps, PatchedSound DEF Sound
<1> HIDE DEF st
<1>2. Keeps(d, Pump(d, st), r)
  BY <1>1, PumpKeeps
<1> QED BY <1>1, <1>2, KeepsOn DEF st

LEMMA InstallHolds ==
    ASSUME NEW r \in Runs, Held(r), NEW c, Install(c), Keeps(crew, c, r),
           r \in finishing' => r \in finishing
    PROVE  Held(r)'
BY DEF Held, Keeps, Install, crew, Pc

\* One step of a life, the run's own or another's.
LEMMA LifeStepHolds ==
    ASSUME Inv, NEW r \in Runs, Held(r), NEW q \in Runs, NEW k \in Lives, LifeStep(q, k)
    PROVE  Held(r)'
<1>1. /\ Sound(crew) /\ crew \in Crews /\ OwnedAt(crew, q)
      /\ crew.life[q][k].pc = Pc(q, k)
  BY DEF Inv, Sound, Owned, crew, Pc
<1>2. ASSUME NEW pc \in Pcs, q # r \/ Pc(q, k) \notin FinishPcs \/ pc \in FinishPcs
      PROVE  LET c == SetPc(crew, q, k, pc)
             IN  c \in Crews /\ Keeps(crew, c, r)
  BY <1>1, <1>2, SetPcFacts DEF Keeps
<1>3. ASSUME Pc(q, k) \notin FinishPcs
      PROVE  LET c == Ended(crew, q, k)
             IN  c \in Crews /\ Keeps(crew, c, r)
  BY <1>1, <1>3, EndedFacts DEF Keeps
<1>4. ASSUME NEW c \in Crews
      PROVE  LET d == Released(c, q, k)
             IN  d \in Crews /\ Keeps(c, d, r)
  BY <1>4, ReleasedFacts DEF Keeps
<1>5. CASE ProvisionOk(q, k) \/ ProvisionHolds(q, k) \/ SpawnFails(q, k) \/ Discarded(q, k)
  <2>1. PICK pc \in {"starting", "retiring"} : Install(SetPc(crew, q, k, pc)) /\ finishing' = finishing
    BY <1>5 DEF ProvisionOk, ProvisionHolds, SpawnFails, Discarded
  <2>2. Pc(q, k) \notin FinishPcs
    BY <1>5 DEF ProvisionOk, ProvisionHolds, SpawnFails, Discarded, FinishPcs
  <2>3. Keeps(crew, SetPc(crew, q, k, pc), r)
    BY <1>2, <2>2 DEF Pcs
  <2> QED BY <2>1, <2>3, InstallHolds
<1>6. CASE Started(q, k)
  <2> DEFINE b == SetPc(crew, q, k, "registering")
             c == [b EXCEPT !.workers[q] = k]
  <2>1. b \in Crews /\ Keeps(crew, b, r)
    BY <1>2, <1>6 DEF Pcs, Started, FinishPcs
  <2>2. Install(c) /\ finishing' = finishing
    BY <1>6 DEF Started
  <2> HIDE DEF b
  <2>3. Keeps(crew, c, r)
    BY <2>1 DEF Keeps, Crews
  <2> HIDE DEF c
  <2> QED BY <2>2, <2>3, InstallHolds
<1>7. CASE Retire(q, k)
  <2> DEFINE a == Ended(crew, q, k)
             b == Released(a, q, k)
             c == Pump(b, ledger)
  <2>1. a \in Crews /\ Keeps(crew, a, r)
    BY <1>3, <1>7 DEF Retire, FinishPcs
  <2>2. Install(c) /\ finishing' = finishing
    BY <1>7 DEF Retire
  <2> HIDE DEF a
  <2>3. b \in Crews /\ Keeps(a, b, r)
    BY <1>4, <2>1
  <2> HIDE DEF b
  <2>4. Keeps(b, c, r)
    BY <2>3, PumpKeeps
  <2> HIDE DEF c
  <2>5. Keeps(crew, c, r)
    BY <2>1, <2>3, <2>4, KeepsOn
  <2> QED BY <2>2, <2>5, InstallHolds
<1>8. CASE Register(q, k)
  <2> DEFINE a == SetPc(crew, q, k, "live")
             b == Released(a, q, k)
             c == Pump(b, ledger)
  <2>1. a \in Crews /\ Keeps(crew, a, r)
    BY <1>2, <1>8 DEF Register, FinishPcs, Pcs
  <2>2. Install(c) /\ finishing' = finishing
    BY <1>8 DEF Register
  <2> HIDE DEF a
  <2>3. b \in Crews /\ Keeps(a, b, r)
    BY <1>4, <2>1
  <2> HIDE DEF b
  <2>4. Keeps(b, c, r)
    BY <2>3, PumpKeeps
  <2> HIDE DEF c
  <2>5. Keeps(crew, c, r)
    BY <2>1, <2>3, <2>4, KeepsOn
  <2> QED BY <2>2, <2>5, InstallHolds
<1>9. CASE DoneIgnored(q, k)
  <2>1. PICK c \in {SetPc(crew, q, k, "ended"), Ended(crew, q, k)} : Install(c) /\ finishing' = finishing
    BY <1>9 DEF DoneIgnored
  <2>2. Keeps(crew, c, r)
    BY <1>2, <1>3, <1>9, <2>1 DEF DoneIgnored, FinishPcs, Pcs
  <2> QED BY <2>1, <2>2, InstallHolds
<1>10. CASE WorkerDone(q, k)
  <2> DEFINE b == SetPc(crew, q, k, "finish")
             c == Deregistered(b, q, k)
  <2>1. b \in Crews /\ Keeps(crew, b, r) /\ b.life[q][k].pc = "finish"
    <3>1. "finish" \in Pcs /\ "finish" \in FinishPcs
      BY DEF Pcs, FinishPcs
    <3> QED BY <1>1, <1>2, <3>1, SetPcFacts
  <2>2. Install(c) /\ finishing' = finishing \cup {q}
    BY <1>10 DEF WorkerDone
  <2> HIDE DEF b
  <2>3. c.life = b.life
    BY <2>1 DEF Deregistered, Crews
  <2>4. Keeps(crew, c, r)
    BY <2>1, <2>3 DEF Keeps
  <2> HIDE DEF c
  <2>5. CASE r # q
    BY <2>2, <2>4, <2>5, InstallHolds
  <2>6. CASE r = q
    BY <2>1, <2>2, <2>3, <2>6 DEF Held, Install, Pc, FinishPcs
  <2> QED BY <2>5, <2>6
<1>11. CASE Finish(q, k) \/ FinishYields(q, k) \/ Published(q, k)
  <2>1. finishing' = finishing \ {q} /\ "reap" \in Pcs
    BY <1>11 DEF Finish, FinishYields, Published, Pcs
  <2>2. CASE r = q
    BY <2>1, <2>2 DEF Held
  <2>3. CASE r # q
    <3> DEFINE b == SetPc(crew, q, k, "reap")
    <3>1. b \in Crews /\ Keeps(crew, b, r)
      BY <1>2, <2>1, <2>3
    <3>2. \/ Install(b)
          \/ \E st, stage : Install(SpawnGuarded(b, st, q, stage))
          \/ \E s : \E c \in Patched(q, s, b) : Install(c)
      <4>1. CASE Finish(q, k)
        <5>1. PICK s \in FinishStates(StageOf(q, k)) :
                 Install(IF StageFor(s) = NoStage THEN b
                         ELSE SpawnGuarded(b, [ledger EXCEPT ![q] = s], q, StageFor(s)))
          BY <4>1 DEF Finish
        <5> HIDE DEF b
        <5> QED BY <5>1
      <4>2. CASE FinishYields(q, k)
        BY <4>2 DEF FinishYields
      <4>3. CASE Published(q, k)
        <5>1. PICK s \in {"done", "unverified", "parked", ledger[q]} :
                 \E c \in Patched(q, s, b) : Install(c)
          BY <4>3 DEF Published
        <5> HIDE DEF b
        <5> QED BY <5>1
      <4> QED BY <1>11, <4>1, <4>2, <4>3
    <3> HIDE DEF b
    <3>3. PICK c : Install(c) /\ Keeps(b, c, r)
      <4>1. Keeps(b, b, r)
        BY DEF Keeps
      <4> QED BY <3>1, <3>2, <4>1, GuardedKeeps, PatchedKeeps
    <3>4. Keeps(crew, c, r)
      BY <3>1, <3>3, KeepsOn
    <3> QED BY <2>1, <3>3, <3>4, InstallHolds
  <2> QED BY <2>2, <2>3
<1>12. CASE FinishPublishes(q, k)
  <2>1. Install(SetPc(crew, q, k, "publish")) /\ finishing' = finishing
    BY <1>12 DEF FinishPublishes
  <2>2. Keeps(crew, SetPc(crew, q, k, "publish"), r)
    BY <1>2 DEF Pcs, FinishPcs
  <2> QED BY <2>1, <2>2, InstallHolds
<1>13. CASE Reap(q, k)
  <2> DEFINE a == Ended(crew, q, k)
             c == Pump(a, ledger)
  <2>1. a \in Crews /\ Keeps(crew, a, r)
    BY <1>3, <1>13 DEF Reap, FinishPcs
  <2>2. Install(c) /\ finishing' = finishing
    BY <1>13 DEF Reap
  <2> HIDE DEF a
  <2>3. Keeps(a, c, r)
    BY <2>1, PumpKeeps
  <2> HIDE DEF c
  <2>4. Keeps(crew, c, r)
    BY <2>1, <2>3, KeepsOn
  <2> QED BY <2>2, <2>4, InstallHolds
<1> QED BY <1>5, <1>6, <1>7, <1>8, <1>9, <1>10, <1>11, <1>12, <1>13 DEF LifeStep

\* One step of a person, a timer or the watchdog.
LEMMA OutsideStepHolds ==
    ASSUME Inv, NEW r \in Runs, Held(r), NEW q \in Runs,
           \/ WatchdogStep(q) \/ HumanStep(q) \/ Settle(q) \/ QuestionTimeout(q)
           \/ CancelEnd(q) \/ CourierEnd(q)
    PROVE  Held(r)'
<1>1. Sound(crew) /\ crew \in Crews
  BY DEF Inv, Sound
<1>2. finishing' = finishing
  BY DEF WatchdogStep, WatchdogForgets, WatchdogSights, WatchdogRestaffs, WatchdogParks, HumanStep, Deploy,
         CancelBegin, Resume, Answer, CourierBegin, Settle, QuestionTimeout, CancelEnd, CourierEnd
<1> DEFINE a == [crew EXCEPT !.staffing[q] = NoLife]
           b == DropPending(a, q)
           d == HandleDropped(b, q)
<1>3. Sound(a) /\ a.staffing[q] = NoLife
  BY <1>1, UnreservedSound
<1>4. a \in Crews /\ Keeps(crew, a, r)
  <2>1. a.life = crew.life
    BY <1>1 DEF Crews
  <2> QED BY <1>3, <2>1 DEF Keeps, Sound
<1> HIDE DEF a
<1>5. Sound(b) /\ b \in Crews /\ Keeps(crew, b, r) /\ b.staffing[q] = NoLife
  <2>1. Sound(b)
    BY <1>3, DropPendingSound
  <2>2. b.life = a.life /\ b.staffing = a.staffing
    BY <1>4 DEF DropPending, Crews
  <2> QED BY <1>3, <1>4, <2>1, <2>2 DEF Keeps, Sound
<1> HIDE DEF b
<1>6. Sound(d) /\ Keeps(crew, d, r)
  <2>1. Sound(d)
    BY <1>5, HandleDroppedSound
  <2>2. Keeps(b, d, r)
    BY <1>5 DEF HandleDropped, Keeps, Crews, FinishPcs
  <2> HIDE DEF d
  <2> QED BY <1>5, <2>1, <2>2, KeepsOn
<1> HIDE DEF d
<1>7. ASSUME NEW c, Sound(c), Keeps(crew, c, r), CancelWrites(q, c)
      PROVE  Held(r)'
  <2> DEFINE s == IF ledger[q] \in {"done", "failed"} THEN ledger[q] ELSE "cancelled"
  <2>1. PICK e \in Patched(q, s, c) : Install(Pump(e, [ledger EXCEPT ![q] = s]))
    BY <1>7 DEF CancelWrites
  <2> HIDE DEF s
  <2>2. Keeps(c, Pump(e, [ledger EXCEPT ![q] = s]), r)
    BY <1>7, PatchPumpKeeps
  <2>3. Keeps(crew, Pump(e, [ledger EXCEPT ![q] = s]), r)
    BY <1>7, <2>2, KeepsOn
  <2> QED BY <1>2, <2>1, <2>3, InstallHolds
<1>8. Keeps(crew, crew, r)
  BY DEF Keeps
<1>9. CASE UNCHANGED crewVars
  BY <1>2, <1>9 DEF crewVars, Held, Pc
<1>10. CASE Deploy(q) \/ Resume(q) \/ Answer(q) \/ WatchdogRestaffs(q)
  <2>1. PICK c : Install(c) /\ (c = crew \/ \E st, stage : c = SpawnGuarded(crew, st, q, stage))
    <3>1. CASE Deploy(q)
      BY <3>1 DEF Deploy, AdmitRun
    <3>2. CASE Resume(q)
      BY <3>2 DEF Resume
    <3>3. CASE Answer(q) \/ WatchdogRestaffs(q)
      BY <3>3 DEF Answer, WatchdogRestaffs
    <3> QED BY <1>10, <3>1, <3>2, <3>3
  <2>2. Keeps(crew, c, r)
    BY <1>1, <1>8, <2>1, GuardedKeeps
  <2> QED BY <1>2, <2>1, <2>2, InstallHolds
<1>11. CASE Settle(q)
  <2>1. PICK s : \E c \in Patched(q, s, crew) : Install(c)
    BY <1>11 DEF Settle
  <2> QED BY <1>1, <1>2, <2>1, PatchedKeeps, InstallHolds
<1>12. CASE CancelBegin(q)
  <2>1. CancelWrites(q, d) \/ Install(d)
    BY <1>12 DEF CancelBegin, a, b, d
  <2> QED BY <1>2, <1>6, <1>7, <2>1, InstallHolds
<1>13. CASE CancelEnd(q)
  BY <1>1, <1>7, <1>8, <1>13 DEF CancelEnd
<1>14. CASE CourierBegin(q)
  <2>1. Install(b)
    BY <1>14 DEF CourierBegin, a, b
  <2> QED BY <1>2, <1>5, <2>1, InstallHolds
<1>15. CASE CourierEnd(q)
  <2>1. PICK s : \E c \in Patched(q, s, crew) : Install(Pump(c, [ledger EXCEPT ![q] = s]))
    BY <1>15 DEF CourierEnd
  <2> QED BY <1>1, <1>2, <2>1, PatchPumpKeeps, InstallHolds
<1> QED BY <1>9, <1>10, <1>11, <1>12, <1>13, <1>14, <1>15
        DEF WatchdogStep, HumanStep, WatchdogForgets, WatchdogSights, WatchdogParks, QuestionTimeout

\* The watchdog sees every workerless run: whatever exits, cancels, couriers and
\* re-admissions came before, a run that wants a worker and has none is past the
\* watchdog's exclusions at its next pass, or its finish is still under way, or it
\* waits for a slot.
THEOREM SeenCorrect == Spec => []WorkerlessSeen
<1> DEFINE AllHeld == \A r \in Runs : Held(r)
<1>1. Init => AllHeld
  BY DEF Init, Held
<1>2. ASSUME Inv, AllHeld, [Next]_vars PROVE AllHeld'
  <2> SUFFICES ASSUME NEW r \in Runs PROVE Held(r)'
    OBVIOUS
  <2>1. Held(r)
    BY <1>2
  <2>2. CASE UNCHANGED vars \/ TogglePause
    BY <2>1, <2>2 DEF vars, crewVars, TogglePause, Held, Pc
  <2>3. CASE \E q \in Runs : \E k \in Lives : LifeStep(q, k)
    BY <1>2, <2>1, <2>3, LifeStepHolds
  <2>4. CASE \E q \in Runs : \/ WatchdogStep(q) \/ HumanStep(q) \/ Settle(q)
                           \/ QuestionTimeout(q) \/ CancelEnd(q) \/ CourierEnd(q)
    BY <1>2, <2>1, <2>4, OutsideStepHolds
  <2> QED BY <1>2, <2>2, <2>3, <2>4 DEF Next
<1>3. AllHeld => WorkerlessSeen
  BY DEF WorkerlessSeen, Handled, Held, FinishPcs, PausedFor
<1> HIDE DEF AllHeld
<1> QED BY <1>1, <1>2, <1>3, Invariance, PTL DEF Spec

-----------------------------------------------------------------------------
(* A spawn that did not wait is launched at the stage its run's state wants *)

\* What admission owes a run it launches, st being the ledger it leaves.
Asked(d, st, r) ==
    /\ d.life[r][d.staffing[r]].stage = StageFor(st[r])
    /\ r \notin overBudget
    /\ st[r] = "queued" => ~paused /\ DependenciesReady(st, r)

\* From c to d, run r keeps or loses its reservation, waited for one, or was asked.
Asks(c, d, st, r) ==
    d.staffing[r] \in {c.staffing[r], NoLife} \/ IsPending(c, r) \/ Asked(d, st, r)

\* From c to d, run r is given no reservation and does not begin to wait.
Eases(c, d, r) ==
    d.staffing[r] \in {c.staffing[r], NoLife} /\ (IsPending(d, r) => IsPending(c, r))

Untouched(c, d, r) == d.staffing[r] = c.staffing[r] /\ d.life[r] = c.life[r]

LEMMA EasesOn ==
    ASSUME NEW b, NEW c, NEW r, Eases(b, c, r)
    PROVE  /\ \A d : Eases(c, d, r) => Eases(b, d, r)
           /\ \A d, st : Asks(c, d, st, r) => Asks(b, d, st, r)
BY DEF Eases, Asks

\* What launchSpawn does to one run: nothing, or a life not in use is its spawn's.
LEMMA LaunchStaffs ==
    ASSUME NEW c \in Crews, NEW jobs, NEW r \in Runs, NEW stage,
           \A j \in jobs : j.run = r => j.stage = stage
    PROVE  LET d == Launch(c, jobs)
           IN  /\ d.pending = c.pending /\ d.workers = c.workers
               /\ (\A j \in jobs : j.run # r) => Untouched(c, d, r)
               /\ (\E j \in jobs : j.run = r) =>
                     /\ d.staffing[r] = FreeLife(c, r)
                     /\ d.staffing[r] \in Lives => d.life[r][d.staffing[r]].stage = stage
<1> DEFINE L == {j.run : j \in jobs}
           stageOf(q) == (CHOOSE j \in jobs : j.run = q).stage
           S == [q \in Runs |-> IF q \in L THEN FreeLife(c, q) ELSE c.staffing[q]]
           F == [q \in Runs |-> [k \in Lives |->
                    IF q \in L /\ k = FreeLife(c, q)
                    THEN [pc |-> "provision", stage |-> stageOf(q)]
                    ELSE c.life[q][k]]]
           d == Launch(c, jobs)
<1>1. d = [c EXCEPT !.staffing = S, !.life = F]
  BY DEF Launch, L, stageOf, Crews
<1>2. (\E j \in jobs : j.run = r) => stageOf(r) = stage /\ r \in L
  OBVIOUS
<1>3. (\A j \in jobs : j.run # r) => r \notin L
  OBVIOUS
<1> HIDE DEF L, stageOf
<1>4. r \notin L => S[r] = c.staffing[r] /\ F[r] = c.life[r]
  BY DEF Crews
<1>5. ASSUME r \in L
      PROVE  /\ S[r] = FreeLife(c, r)
             /\ S[r] \in Lives => F[r][S[r]].stage = stageOf(r)
  BY <1>5
<1> HIDE DEF S, F
<1>6. d.staffing = S /\ d.life = F /\ d.pending = c.pending /\ d.workers = c.workers
  BY <1>1 DEF Crews
<1> HIDE DEF d
<1> QED BY <1>2, <1>3, <1>4, <1>5, <1>6 DEF Untouched, d

\* A spawn asked for by name, at the stage its state wants.
LEMMA GuardedAsks ==
    ASSUME NEW c \in Crews, NEW st, NEW q \in Runs, NEW r \in Runs,
           st[q] = "queued" => DependenciesReady(st, q),
           NEW d, d = SpawnGuarded(c, st, q, StageFor(st[q])), Fits(d)
    PROVE  Asks(c, d, st, r)
<1> DEFINE stage == StageFor(st[q])
           job == [run |-> q, stage |-> stage]
<1>1. CASE d.staffing = c.staffing
  BY <1>1 DEF Asks
<1>2. CASE d = Launch(c, {job}) /\ q \notin overBudget /\ ~PausedFor(st, q)
  <2>1. \A j \in {job} : j.run = q /\ j.stage = stage
    OBVIOUS
  <2>2. \E j \in {job} : j.run = q
    OBVIOUS
  <2> HIDE DEF job
  <2>3. CASE q # r
    BY <1>2, <2>1, <2>3, LaunchStaffs DEF Untouched, Asks
  <2>4. CASE q = r
    <3>1. d.staffing[r] \in Lives => d.life[r][d.staffing[r]].stage = stage
      BY <1>2, <2>1, <2>2, <2>4, LaunchStaffs
    <3>2. d.staffing[r] \in Lives \cup {NoLife}
      BY DEF Fits
    <3> QED BY <1>2, <2>4, <3>1, <3>2 DEF Asks, Asked, PausedFor
  <2> QED BY <2>3, <2>4
<1>3. CASE d = [c EXCEPT !.pending = Append(c.pending, job)]
  <2> HIDE DEF job
  <2>1. d.staffing = c.staffing
    BY <1>3 DEF Crews
  <2> QED BY <1>1, <2>1
<1> QED BY <1>1, <1>2, <1>3 DEF SpawnGuarded

\* pump() launches only runs that waited, and none past the cap.
LEMMA PumpStaffs ==
    ASSUME NEW c, Sound(c), NEW st, NEW r \in Runs
    PROVE  LET d == Pump(c, st)
           IN  \/ Untouched(c, d, r)
               \/ IsPending(c, r) /\ ~Staffed(c, r) /\ ~AtCap(c)
<1> DEFINE able(i) == /\ st[c.pending[i].run] \notin RUN_TERMINAL
                      /\ ~Staffed(c, c.pending[i].run)
           ahead(i) == {j \in 1 .. (i - 1) : able(j)}
           I == 1 .. Len(c.pending)
           shifted == {i \in I : Cardinality(ahead(i)) < MaxLive - UsedSlots(c)}
           jobs == {c.pending[i] : i \in {i \in shifted : able(i)}}
           rest == SubSeq(c.pending, Cardinality(shifted) + 1, Len(c.pending))
           b == Launch(c, jobs)
           d == Pump(c, st)
<1>1. d = [b EXCEPT !.pending = rest]
  BY DEF Pump
<1>2. c \in Crews /\ UsedSlots(c) \in Nat /\ Len(c.pending) \in Nat
  <2>1. c \in Crews /\ c.pending \in Seq(Job)
    BY DEF Sound, Crews
  <2> QED BY <2>1, Slots, LenProperties
<1>3. CASE \A j \in jobs : j.run # r
  <2> HIDE DEF jobs
  <2>1. Untouched(c, b, r)
    BY <1>2, <1>3, LaunchStaffs
  <2>2. d.staffing = b.staffing /\ d.life = b.life
    BY <1>1, <1>2 DEF b, Launch, Crews
  <2> HIDE DEF b, d
  <2> QED BY <2>1, <2>2 DEF Untouched, d
<1>4. CASE \E j \in jobs : j.run = r
  <2>1. PICK i \in I : i \in shifted /\ able(i) /\ c.pending[i].run = r
    <3>1. shifted \in SUBSET I
      OBVIOUS
    <3> HIDE DEF able, shifted, I
    <3>2. PICK j \in jobs : j.run = r
      BY <1>4
    <3> QED BY <3>1, <3>2
  <2>2. IsPending(c, r) /\ ~Staffed(c, r)
    BY <2>1 DEF IsPending
  <2>3. Cardinality(ahead(i)) \in Nat
    <3>1. ahead(i) \in SUBSET I
      BY <1>2, <2>1
    <3>2. IsFiniteSet(I)
      BY <1>2, FS_Interval
    <3> HIDE DEF ahead, I
    <3> QED BY <3>1, <3>2, FS_Subset, FS_CardinalityType
  <2>4. Cardinality(ahead(i)) < MaxLive - UsedSlots(c)
    BY <2>1
  <2> HIDE DEF ahead
  <2>5. ~AtCap(c)
    BY <1>2, <2>3, <2>4, StaffingAssumption DEF AtCap
  <2> QED BY <2>2, <2>5
<1> QED BY <1>3, <1>4

LEMMA PumpAsks ==
    ASSUME NEW c, Sound(c), NEW st, NEW r \in Runs
    PROVE  Asks(c, Pump(c, st), st, r)
BY PumpStaffs DEF Asks, Untouched

\* When some member of a set of numbers has n others before it, the members with
\* fewer than n before them are n or more.
LEMMA FirstFilled ==
    ASSUME NEW S \in SUBSET Nat, IsFiniteSet(S), NEW n \in Nat,
           NEW x \in S, ~(Cardinality({y \in S : y < x}) < n)
    PROVE  Cardinality({z \in S : Cardinality({y \in S : y < z}) < n}) >= n
<1> DEFINE Before(z) == {y \in S : y < z}
           T == {z \in S : Cardinality(Before(z)) < n}
<1>1. IsFiniteSet(T) /\ Cardinality(T) \in Nat
  BY FS_Subset, FS_CardinalityType
<1> SUFFICES ASSUME Cardinality(T) < n PROVE FALSE
  BY <1>1
<1>2. S \ T \in SUBSET Nat /\ S \ T # {}
  OBVIOUS
<1>3. PICK m \in S \ T : {y \in S \ T : y < m} = {}
  <2> HIDE DEF T
  <2> QED BY <1>2, Least
<1>4. Before(m) \in SUBSET T
  <2> HIDE DEF T
  <2> QED BY <1>3
<1>5. m \in S /\ ~(Cardinality(Before(m)) < n)
  BY <1>3
<1>6. IsFiniteSet(Before(m)) /\ Cardinality(Before(m)) \in Nat
  BY FS_Subset, FS_CardinalityType
<1> HIDE DEF Before, T
<1>7. Cardinality(Before(m)) <= Cardinality(T)
  BY <1>1, <1>4, FS_Subset
<1> QED BY <1>1, <1>5, <1>6, <1>7

\* patchRun's re-admission launches admissible runs only, for implementation; a run
\* that has to wait finds every slot taken.
LEMMA ReadmitStaffs ==
    ASSUME NEW c, Sound(c), NEW st, NEW d \in ReadmitQueued(c, st), NEW r \in Runs
    PROVE  /\ \/ Untouched(c, d, r)
              \/ /\ r \in Admissible(c, st) /\ d.staffing[r] # NoLife
                 /\ d.staffing[r] \in Lives => d.life[r][d.staffing[r]].stage = "implement"
           /\ IsPending(d, r) => IsPending(c, r) \/ AtCap(d)
<1> DEFINE n == MaxLive - UsedSlots(c)
           all == Admissible(c, st)
           first == {q \in all : Cardinality({s \in all : s < q}) < n}
           late == {q \in all \ first : ~IsPending(c, q)}
           jobs == {ImplementJob(q) : q \in first}
           b == Launch(c, jobs)
<1>1. c \in Crews /\ d \in Crews /\ UsedSlots(c) \in Nat /\ UsedSlots(d) \in Nat /\ MaxLive \in Nat
  <2>1. c \in Crews /\ d \in Crews
    BY ReadmitSound DEF Sound
  <2> QED BY <2>1, Slots, StaffingAssumption
<1>2. PICK tail \in Oldest(late) : d = [b EXCEPT !.pending = @ \o tail]
  BY DEF ReadmitQueued
<1>3. all \in SUBSET Runs /\ all \in SUBSET Nat /\ IsFiniteSet(all)
  BY FS_Subset, StaffingAssumption DEF Admissible
<1>4. first \in SUBSET all /\ late \in SUBSET all
  OBVIOUS
<1>5. /\ \A j \in jobs : j.run \in first /\ j.stage = "implement"
      /\ \A q \in first : \E j \in jobs : j.run = q
  <2>1. \A q \in first : ImplementJob(q).run = q /\ ImplementJob(q).stage = "implement"
    BY DEF ImplementJob
  <2> HIDE DEF first
  <2> QED BY <2>1
<1>6. late # {} => n <= 0 \/ Cardinality(first) >= n
  <2> SUFFICES ASSUME late # {}, ~(n <= 0) PROVE Cardinality(first) >= n
    OBVIOUS
  <2>1. n \in Nat
    BY <1>1
  <2>2. PICK x \in all : ~(Cardinality({s \in all : s < x}) < n)
    OBVIOUS
  <2> HIDE DEF n, all
  <2> QED BY <1>3, <2>1, <2>2, FirstFilled
<1> HIDE DEF first, jobs, n, all
<1>7. \A q \in Runs :
         /\ q \notin first => Untouched(c, b, q)
         /\ q \in first => b.staffing[q] = FreeLife(c, q)
         /\ q \in first => (b.staffing[q] \in Lives => b.life[q][b.staffing[q]].stage = "implement")
  <2> SUFFICES ASSUME NEW q \in Runs
               PROVE  /\ q \notin first => Untouched(c, b, q)
                      /\ q \in first => b.staffing[q] = FreeLife(c, q)
                      /\ q \in first => (b.staffing[q] \in Lives => b.life[q][b.staffing[q]].stage = "implement")
    OBVIOUS
  <2>1. \A j \in jobs : j.run = q => j.stage = "implement"
    BY <1>5
  <2>2. q \notin first => \A j \in jobs : j.run # q
    BY <1>5
  <2> QED BY <1>1, <1>5, <2>1, <2>2, LaunchStaffs
<1>8. /\ d.staffing = b.staffing /\ d.life = b.life
      /\ d.workers = c.workers /\ d.pending = c.pending \o tail
  <2>1. b.workers = c.workers /\ b.pending = c.pending
    BY <1>1 DEF Launch, Crews
  <2>2. /\ d.staffing = b.staffing /\ d.life = b.life
        /\ d.workers = b.workers /\ d.pending = b.pending \o tail
    BY <1>1, <1>2 DEF Launch, Crews
  <2> HIDE DEF b
  <2> QED BY <2>1, <2>2
<1> HIDE DEF b
<1>9. \A q \in Runs : FreeLife(c, q) # NoLife
  BY StaffingAssumption DEF FreeLife, Lives, NoLife
<1>10. \/ Untouched(c, d, r)
       \/ /\ r \in all /\ d.staffing[r] # NoLife
          /\ d.staffing[r] \in Lives => d.life[r][d.staffing[r]].stage = "implement"
  BY <1>4, <1>7, <1>8, <1>9 DEF Untouched
<1>11. AtCap(d) \/ late = {}
  <2> DEFINE W == {q \in Runs : c.workers[q] # NoLife}
             F == {q \in Runs : c.staffing[q] # NoLife}
             G == {q \in Runs : d.staffing[q] # NoLife}
  <2>1. G = F \cup first
    <3> SUFFICES ASSUME NEW q \in Runs
                 PROVE  d.staffing[q] # NoLife <=> c.staffing[q] # NoLife \/ q \in first
      BY <1>3, <1>4
    <3> QED BY <1>7, <1>8, <1>9 DEF Untouched
  <2>2. F \cap first = {}
    BY <1>4 DEF all, Admissible, Staffed
  <2>3. IsFiniteSet(F) /\ IsFiniteSet(first)
    BY <1>3, <1>4, FS_Subset, StaffingAssumption
  <2>4. UsedSlots(c) = Cardinality(W) + Cardinality(F) /\ UsedSlots(d) = Cardinality(W) + Cardinality(G)
    BY <1>8 DEF UsedSlots
  <2>5. /\ Cardinality(W) \in Nat /\ Cardinality(F) \in Nat /\ Cardinality(first) \in Nat
        /\ Cardinality(F \cap first) = 0
    BY <2>2, <2>3, FS_EmptySet, FS_Subset, FS_CardinalityType, StaffingAssumption
  <2> HIDE DEF W, F, G
  <2>6. Cardinality(G) = Cardinality(F) + Cardinality(first)
    <3>1. Cardinality(F \cup first)
            = Cardinality(F) + Cardinality(first) - Cardinality(F \cap first)
      BY <2>3, FS_Union
    <3> QED BY <2>1, <2>5, <3>1
  <2> QED BY <1>1, <1>6, <2>4, <2>5, <2>6 DEF AtCap, n
<1>12. IsPending(d, r) => IsPending(c, r) \/ late # {}
  <2> SUFFICES ASSUME late = {} PROVE IsPending(d, r) => IsPending(c, r)
    OBVIOUS
  <2>1. tail = <<>>
    <3>1. Cardinality({}) = 0
      BY FS_EmptySet
    <3>2. tail = [i \in 1 .. 0 |-> tail[i]]
      BY <1>2, <3>1 DEF Oldest
    <3> QED BY <3>2
  <2>2. c.pending \in Seq(Job)
    BY <1>1 DEF Crews
  <2>3. d.pending = c.pending
    BY <1>8, <2>1, <2>2
  <2> QED BY <2>3 DEF IsPending
<1> QED BY <1>10, <1>11, <1>12 DEF all

LEMMA PatchedAsks ==
    ASSUME NEW c, Sound(c), NEW q, NEW s, NEW d \in Patched(q, s, c), NEW r \in Runs, Fits(d)
    PROVE  Asks(c, d, [ledger EXCEPT ![q] = s], r)
<1> DEFINE st == [ledger EXCEPT ![q] = s]
<1>1. CASE d = c
  BY <1>1 DEF Asks
<1>2. CASE d \in ReadmitQueued(c, st)
  <2> HIDE DEF st
  <2>1. CASE Untouched(c, d, r)
    BY <2>1 DEF Asks, Untouched
  <2>2. CASE ~Untouched(c, d, r)
    <3>1. /\ r \in Admissible(c, st) /\ d.staffing[r] # NoLife
          /\ d.staffing[r] \in Lives => d.life[r][d.staffing[r]].stage = "implement"
      BY <1>2, <2>2, ReadmitStaffs
    <3>2. d.staffing[r] \in Lives
      BY <3>1 DEF Fits
    <3>3. /\ st[r] = "queued" /\ r \notin overBudget /\ ~PausedFor(st, r)
          /\ DependenciesReady(st, r)
      BY <3>1 DEF Admissible
    <3> QED BY <3>1, <3>2, <3>3 DEF Asks, Asked, PausedFor, StageFor, st
  <2> QED BY <2>1, <2>2
<1> QED BY <1>1, <1>2 DEF Patched

\* patchRun, then pump: the pump launches nothing the re-admission queued.
LEMMA PatchPumpAsks ==
    ASSUME NEW c, Sound(c), NEW q, NEW s, NEW d \in Patched(q, s, c), NEW r \in Runs,
           NEW st, st = [ledger EXCEPT ![q] = s], NEW e, e = Pump(d, st), Fits(e)
    PROVE  Asks(c, e, st, r)
<1>1. Sound(d) /\ (d = c \/ d \in ReadmitQueued(c, st))
  BY PatchedSound DEF Patched
<1>2. Untouched(d, e, r) \/ (IsPending(d, r) /\ ~Staffed(d, r) /\ ~AtCap(d))
  BY <1>1, PumpStaffs
<1>3. CASE d = c
  BY <1>1, <1>3, PumpAsks
<1>4. CASE d \in ReadmitQueued(c, st) /\ ~Untouched(d, e, r)
  <2>1. IsPending(c, r)
    BY <1>2, <1>4, ReadmitStaffs
  <2> QED BY <2>1 DEF Asks
<1>5. CASE d \in ReadmitQueued(c, st) /\ Untouched(d, e, r)
  <2>1. CASE Untouched(c, d, r)
    BY <1>5, <2>1 DEF Asks, Untouched
  <2>2. CASE ~Untouched(c, d, r)
    <3>1. /\ r \in Admissible(c, st) /\ d.staffing[r] # NoLife
          /\ d.staffing[r] \in Lives => d.life[r][d.staffing[r]].stage = "implement"
      BY <1>5, <2>2, ReadmitStaffs
    <3>2. e.staffing[r] = d.staffing[r] /\ e.life[r] = d.life[r]
      BY <1>5 DEF Untouched
    <3>3. d.staffing[r] \in Lives
      BY <3>1, <3>2 DEF Fits
    <3> QED BY <3>1, <3>2, <3>3 DEF Asks, Asked, Admissible, PausedFor, StageFor
  <2> QED BY <2>1, <2>2
<1> QED BY <1>1, <1>3, <1>4, <1>5

\* dropPending() takes an entry out and adds none.
LEMMA DropPendingKeeps ==
    ASSUME NEW c \in Crews, NEW q, NEW r, IsPending(DropPending(c, q), r)
    PROVE  IsPending(c, r)
<1>1. CASE ~IsPending(c, q)
  BY <1>1 DEF DropPending
<1>2. CASE IsPending(c, q)
  <2> DEFINE i == CHOOSE i \in 1 .. Len(c.pending) : c.pending[i].run = q
             p == SubSeq(c.pending, 1, i - 1) \o SubSeq(c.pending, i + 1, Len(c.pending))
  <2>1. c.pending \in Seq(Job) /\ i \in 1 .. Len(c.pending) /\ Len(c.pending) \in Nat
    BY <1>2, LenProperties DEF Crews, IsPending
  <2>2. DropPending(c, q) = [c EXCEPT !.pending = p]
    BY <1>2 DEF DropPending, Crews
  <2> HIDE DEF i
  <2>3. \A j \in 1 .. Len(p) : \E h \in 1 .. Len(c.pending) : p[j] = c.pending[h]
    <3> DEFINE n == Len(c.pending)
               s1 == SubSeq(c.pending, 1, i - 1)
               s2 == SubSeq(c.pending, i + 1, n)
    <3>1. /\ \A h \in 1 .. n : c.pending[h] \in Job
          /\ i \in Int /\ i - 1 \in Int /\ i + 1 \in Int /\ n \in Nat /\ 1 <= i /\ i <= n
      BY <2>1, ElementOfSeq
    <3>2. /\ s1 \in Seq(Job) /\ Len(s1) = i - 1
          /\ \A j \in 1 .. i - 1 : s1[j] = c.pending[j]
      <4>1. \A h \in 1 .. i - 1 : c.pending[h] \in Job
        BY <3>1
      <4>2. /\ s1 \in Seq(Job) /\ Len(s1) = IF 1 <= i - 1 THEN (i - 1) - 1 + 1 ELSE 0
            /\ \A j \in 1 .. (i - 1) - 1 + 1 : s1[j] = c.pending[1 + j - 1]
        BY <3>1, <4>1, SubSeqProperties
      <4> QED BY <3>1, <4>2
    <3>3. /\ s2 \in Seq(Job) /\ Len(s2) = n - i
          /\ \A j \in 1 .. n - i : s2[j] = c.pending[i + j]
      <4>1. \A h \in i + 1 .. n : c.pending[h] \in Job
        BY <3>1
      <4> HIDE DEF n
      <4>2. /\ s2 \in Seq(Job) /\ Len(s2) = IF i + 1 <= n THEN n - (i + 1) + 1 ELSE 0
            /\ \A j \in 1 .. n - (i + 1) + 1 : s2[j] = c.pending[(i + 1) + j - 1]
        BY <2>1, <3>1, <4>1, SubSeqProperties
      <4> QED BY <3>1, <4>2
    <3> HIDE DEF s1, s2
    <3>4. /\ Len(p) = Len(s1) + Len(s2)
          /\ \A j \in 1 .. Len(s1) + Len(s2) : p[j] =
                  IF j <= Len(s1) THEN s1[j] ELSE s2[j - Len(s1)]
      BY <3>2, <3>3, ConcatProperties DEF s1, s2
    <3> SUFFICES ASSUME NEW j \in 1 .. Len(p) PROVE \E h \in 1 .. n : p[j] = c.pending[h]
      OBVIOUS
    <3> HIDE DEF p, n
    <3>5. CASE j <= i - 1
      BY <3>1, <3>2, <3>3, <3>4, <3>5
    <3>6. CASE j > i - 1
      <4>1. /\ p[j] = s2[j - (i - 1)] /\ j - (i - 1) \in 1 .. n - i
            /\ i + (j - (i - 1)) = j + 1 /\ j + 1 \in 1 .. n
        BY <3>1, <3>2, <3>3, <3>4, <3>6
      <4> QED BY <3>3, <4>1
    <3>7. j \in Int
      BY <3>1, <3>2, <3>3, <3>4
    <3> QED BY <3>1, <3>5, <3>6, <3>7
  <2> HIDE DEF p
  <2>4. DropPending(c, q).pending = p
    BY <2>2 DEF Crews
  <2> QED BY <2>3, <2>4 DEF IsPending
<1> QED BY <1>1, <1>2

\* What LaunchAsked says of one run.
Launched(r) ==
    staffing'[r] \notin {NoLife, staffing[r]} /\ ~IsPending(crew, r) =>
      /\ life'[r][staffing'[r]].stage = StageFor(ledger'[r])
      /\ r \notin overBudget
      /\ ledger'[r] = "queued" => ~paused /\ DependenciesReady(ledger', r)

LEMMA InstallLaunched ==
    ASSUME NEW r, NEW c, Install(c), Asks(crew, c, ledger', r)
    PROVE  Launched(r)
BY DEF Launched, Asks, Asked, Install, crew

LEMMA InstallEases ==
    ASSUME NEW r, NEW c, Install(c), Eases(crew, c, r)
    PROVE  Launched(r)
BY DEF Launched, Eases, Install, crew

LEMMA CrewLaunched ==
    ASSUME NEW r, UNCHANGED crewVars
    PROVE  Launched(r)
BY DEF Launched, crewVars

\* pump() after an edit that gives nothing to the run.
LEMMA PumpLaunched ==
    ASSUME NEW r \in Runs, NEW c, Sound(c), Eases(crew, c, r), Install(Pump(c, ledger)), ledger' = ledger
    PROVE  Launched(r)
BY PumpAsks, EasesOn, InstallLaunched

\* One step of a life, the run's own or another's.
LEMMA LifeStepLaunched ==
    ASSUME Inv, NEW r \in Runs, NEW q \in Runs, NEW k \in Lives, LifeStep(q, k)
    PROVE  Launched(r)
<1>1. /\ Sound(crew) /\ crew \in Crews /\ OwnedAt(crew, q)
      /\ crew.life[q][k].pc = Pc(q, k) /\ ledger \in [Runs -> RunStates]
      /\ crew.staffing = staffing /\ crew.workers = workers
  BY DEF Inv, Sound, Owned, TypeOK, crew, Pc
<1>2. ASSUME NEW pc \in Pcs
      PROVE  LET c == SetPc(crew, q, k, pc)
             IN  c \in Crews /\ Eases(crew, c, r)
  BY <1>1, SetPcFacts DEF Eases, IsPending
<1>3. LET c == Ended(crew, q, k)
      IN  c \in Crews /\ Eases(crew, c, r)
  BY <1>1, EndedFacts DEF Eases, IsPending
<1>4. ASSUME NEW c \in Crews
      PROVE  Eases(c, Released(c, q, k), r)
  BY <1>4, ReleasedFacts DEF Eases, IsPending
<1>5. CASE \/ ProvisionOk(q, k) \/ ProvisionHolds(q, k) \/ SpawnFails(q, k) \/ Discarded(q, k)
           \/ FinishYields(q, k) \/ FinishPublishes(q, k)
  <2>1. PICK pc \in {"starting", "retiring", "reap", "publish"} : Install(SetPc(crew, q, k, pc))
    BY <1>5 DEF ProvisionOk, ProvisionHolds, SpawnFails, Discarded, FinishYields, FinishPublishes
  <2>2. Eases(crew, SetPc(crew, q, k, pc), r)
    BY <1>2 DEF Pcs
  <2> QED BY <2>1, <2>2, InstallEases
<1>6. CASE Started(q, k)
  <2> DEFINE b == SetPc(crew, q, k, "registering")
             c == [b EXCEPT !.workers[q] = k]
  <2>1. b \in Crews /\ Eases(crew, b, r)
    BY <1>2 DEF Pcs
  <2>2. Install(c)
    BY <1>6 DEF Started
  <2> HIDE DEF b
  <2>3. Eases(crew, c, r)
    BY <2>1 DEF Eases, IsPending, Crews
  <2> HIDE DEF c
  <2> QED BY <2>2, <2>3, InstallEases
<1>7. CASE Retire(q, k)
  <2> DEFINE a == Ended(crew, q, k)
             b == Released(a, q, k)
  <2>1. a \in Crews /\ Eases(crew, a, r)
    BY <1>3
  <2>2. Sound(b)
    BY <1>1, <1>7, RetiredSound DEF Retire, HandlePcs
  <2>3. Install(Pump(b, ledger)) /\ ledger' = ledger
    BY <1>7 DEF Retire
  <2> HIDE DEF a
  <2>4. Eases(a, b, r)
    BY <1>4, <2>1
  <2> HIDE DEF b
  <2> QED BY <2>1, <2>2, <2>3, <2>4, EasesOn, PumpLaunched
<1>8. CASE Register(q, k)
  <2> DEFINE a == SetPc(crew, q, k, "live")
             b == Released(a, q, k)
  <2>1. a \in Crews /\ Eases(crew, a, r)
    BY <1>2 DEF Pcs
  <2>2. Sound(b)
    BY <1>1, RegisteredSound
  <2>3. Install(Pump(b, ledger)) /\ ledger' = ledger
    BY <1>8 DEF Register
  <2> HIDE DEF a
  <2>4. Eases(a, b, r)
    BY <1>4, <2>1
  <2> HIDE DEF b
  <2> QED BY <2>1, <2>2, <2>3, <2>4, EasesOn, PumpLaunched
<1>9. CASE DoneIgnored(q, k)
  <2>1. PICK c \in {SetPc(crew, q, k, "ended"), Ended(crew, q, k)} : Install(c)
    BY <1>9 DEF DoneIgnored
  <2>2. Eases(crew, c, r)
    BY <1>2, <1>3, <2>1 DEF Pcs
  <2> QED BY <2>1, <2>2, InstallEases
<1>10. CASE WorkerDone(q, k)
  <2> DEFINE b == SetPc(crew, q, k, "finish")
             c == Deregistered(b, q, k)
  <2>1. b \in Crews /\ Eases(crew, b, r)
    BY <1>2 DEF Pcs
  <2>2. Install(c)
    BY <1>10 DEF WorkerDone
  <2> HIDE DEF b
  <2>3. Eases(crew, c, r)
    BY <2>1 DEF Eases, IsPending, Deregistered, Crews
  <2> HIDE DEF c
  <2> QED BY <2>2, <2>3, InstallEases
<1>11. ASSUME Pc(q, k) \in {"finish", "publish"}
       PROVE  LET b == SetPc(crew, q, k, "reap")
              IN  Sound(b) /\ b \in Crews /\ Eases(crew, b, r)
  <2>1. Sound(SetPc(crew, q, k, "reap"))
    BY <1>1, <1>11, SetPcSound DEF OwnedAt, SpawnPcs, HandlePcs, Pcs, Lives, NoLife
  <2>2. Eases(crew, SetPc(crew, q, k, "reap"), r)
    BY <1>2 DEF Pcs
  <2> QED BY <2>1, <2>2 DEF Sound
<1>12. CASE Finish(q, k)
  <2> DEFINE b == SetPc(crew, q, k, "reap")
  <2>1. PICK s \in FinishStates(StageOf(q, k)) :
           /\ Patch(q, s)
           /\ Install(IF StageFor(s) = NoStage THEN b
                      ELSE SpawnGuarded(b, [ledger EXCEPT ![q] = s], q, StageFor(s)))
    BY <1>12 DEF Finish
  <2>2. b \in Crews /\ Eases(crew, b, r)
    BY <1>11, <1>12 DEF Finish
  <2>3. ledger'[q] = s /\ s # "queued" /\ ledger' = [ledger EXCEPT ![q] = s]
    BY <1>1, <2>1 DEF Patch, FinishStates
  <2> HIDE DEF b
  <2>4. CASE Install(b)
    BY <2>2, <2>4, InstallEases
  <2>5. CASE Install(SpawnGuarded(b, ledger', q, StageFor(ledger'[q])))
    <3> DEFINE c == SpawnGuarded(b, ledger', q, StageFor(ledger'[q]))
    <3>1. Fits(c)
      BY <2>5 DEF Install, Fits
    <3>2. Asks(b, c, ledger', r)
      BY <2>2, <2>3, <3>1, GuardedAsks
    <3> HIDE DEF c
    <3>3. Asks(crew, c, ledger', r)
      BY <2>2, <3>2, EasesOn
    <3> QED BY <2>5, <3>3, InstallLaunched DEF c
  <2> QED BY <2>1, <2>3, <2>4, <2>5
<1>13. CASE Published(q, k)
  <2> DEFINE b == SetPc(crew, q, k, "reap")
  <2>1. PICK s \in {"done", "unverified", "parked", ledger[q]} :
           Patch(q, s) /\ \E c \in Patched(q, s, b) : Install(c)
    BY <1>13 DEF Published
  <2>2. PICK c \in Patched(q, s, b) : Install(c)
    BY <2>1
  <2>3. Sound(b) /\ Eases(crew, b, r)
    BY <1>11, <1>13 DEF Published
  <2>4. ledger' = [ledger EXCEPT ![q] = s]
    BY <2>1 DEF Patch
  <2> HIDE DEF b
  <2>5. Fits(c)
    BY <2>2 DEF Install, Fits
  <2>6. Asks(b, c, ledger', r)
    BY <2>2, <2>3, <2>4, <2>5, PatchedAsks
  <2> QED BY <2>2, <2>3, <2>6, EasesOn, InstallLaunched
<1>14. CASE Reap(q, k)
  <2> DEFINE a == Ended(crew, q, k)
  <2>1. Sound(a)
    BY <1>1, <1>14, EndedSound DEF Reap, SpawnPcs, HandlePcs, OwnedAt, Lives, NoLife
  <2>2. Install(Pump(a, ledger)) /\ ledger' = ledger /\ Eases(crew, a, r)
    BY <1>3, <1>14 DEF Reap
  <2> HIDE DEF a
  <2> QED BY <2>1, <2>2, PumpLaunched
<1> QED BY <1>5, <1>6, <1>7, <1>8, <1>9, <1>10, <1>12, <1>13, <1>14 DEF LifeStep

\* cancel()'s final write and the pump behind it.
LEMMA CancelWritesLaunched ==
    ASSUME NEW r \in Runs, NEW q, NEW c, Sound(c), Eases(crew, c, r), CancelWrites(q, c)
    PROVE  Launched(r)
<1> DEFINE s == IF ledger[q] \in {"done", "failed"} THEN ledger[q] ELSE "cancelled"
<1>1. ledger' = [ledger EXCEPT ![q] = s]
  BY DEF CancelWrites, Patch
<1>2. PICK d \in Patched(q, s, c) : Install(Pump(d, [ledger EXCEPT ![q] = s]))
  BY DEF CancelWrites
<1> HIDE DEF s
<1> DEFINE e == Pump(d, ledger')
<1>3. Install(e) /\ Fits(e)
  BY <1>1, <1>2 DEF Install, Fits
<1>4. Asks(c, e, ledger', r)
  BY <1>1, <1>2, <1>3, PatchPumpAsks
<1> HIDE DEF e
<1> QED BY <1>3, <1>4, EasesOn, InstallLaunched

\* One step of a person, a timer or the watchdog.
LEMMA OutsideStepLaunched ==
    ASSUME Inv, NEW r \in Runs, NEW q \in Runs,
           \/ WatchdogStep(q) \/ HumanStep(q) \/ Settle(q) \/ QuestionTimeout(q)
           \/ CancelEnd(q) \/ CourierEnd(q)
    PROVE  Launched(r)
<1>1. Sound(crew) /\ crew \in Crews /\ ledger \in [Runs -> RunStates]
  BY DEF Inv, Sound, TypeOK
<1>2. Eases(crew, crew, r)
  BY DEF Eases
<1>3. ASSUME NEW c, Install(c), c = SpawnGuarded(crew, ledger', q, StageFor(ledger'[q])),
             ledger'[q] = "queued" => DependenciesReady(ledger', q)
      PROVE  Launched(r)
  <2>1. Fits(c)
    BY <1>3 DEF Install, Fits
  <2>2. Asks(crew, c, ledger', r)
    BY <1>1, <1>3, <2>1, GuardedAsks
  <2> QED BY <1>3, <2>2, InstallLaunched
<1>4. CASE Deploy(q)
  <2>1. Install(AdmitRun(crew, ledger, q)) /\ ledger' = ledger
    BY <1>4 DEF Deploy
  <2>2. \/ Install(crew)
        \/ /\ Install(SpawnGuarded(crew, ledger', q, StageFor(ledger'[q])))
           /\ ledger'[q] = "queued" => DependenciesReady(ledger', q)
    BY <2>1 DEF AdmitRun
  <2> QED BY <1>2, <1>3, <2>2, InstallEases
<1>5. CASE Resume(q)
  <2>1. PICK stage \in Stages :
           /\ ledger' = [ledger EXCEPT ![q] = StateOf(stage)]
           /\ Install(SpawnGuarded(crew, [ledger EXCEPT ![q] = StateOf(stage)], q, stage))
    BY <1>5 DEF Resume
  <2>2. ledger'[q] = StateOf(stage)
    BY <1>1, <2>1
  <2>3. stage = StageFor(ledger'[q]) /\ ledger'[q] # "queued"
    BY <2>2 DEF StageFor, StateOf, Stages
  <2>4. Install(SpawnGuarded(crew, ledger', q, stage))
    BY <2>1
  <2> QED BY <1>3, <2>3, <2>4
<1>6. CASE Answer(q)
  <2>1. /\ ledger' = [ledger EXCEPT ![q] = "implementing"]
        /\ Install(SpawnGuarded(crew, [ledger EXCEPT ![q] = "implementing"], q, "implement"))
    BY <1>6 DEF Answer
  <2>2. ledger'[q] = "implementing"
    BY <1>1, <2>1
  <2>3. StageFor(ledger'[q]) = "implement" /\ ledger'[q] # "queued"
    BY <2>2 DEF StageFor
  <2>4. Install(SpawnGuarded(crew, ledger', q, "implement"))
    BY <2>1
  <2> QED BY <1>3, <2>3, <2>4
<1>7. CASE WatchdogRestaffs(q)
  <2>1. Install(SpawnGuarded(crew, ledger, q, StageFor(ledger[q]))) /\ ledger' = ledger
    BY <1>7 DEF WatchdogRestaffs
  <2>2. ledger[q] = "queued" => DependenciesReady(ledger, q)
    BY <1>7 DEF WatchdogRestaffs, Handled
  <2>3. /\ Install(SpawnGuarded(crew, ledger', q, StageFor(ledger'[q])))
        /\ ledger'[q] = "queued" => DependenciesReady(ledger', q)
    BY <2>1, <2>2
  <2> QED BY <1>3, <2>3
<1>8. CASE UNCHANGED crewVars
  BY <1>8, CrewLaunched
<1>9. CASE Settle(q)
  <2>1. PICK s : ledger' = [ledger EXCEPT ![q] = s] /\ \E c \in Patched(q, s, crew) : Install(c)
    BY <1>9 DEF Settle, Patch
  <2>2. PICK c \in Patched(q, s, crew) : Install(c)
    BY <2>1
  <2>3. Fits(c)
    BY <2>2 DEF Install, Fits
  <2> QED BY <1>1, <2>1, <2>2, <2>3, PatchedAsks, InstallLaunched
<1> DEFINE a == [crew EXCEPT !.staffing[q] = NoLife]
           b == DropPending(a, q)
           d == HandleDropped(b, q)
<1>10. Sound(a) /\ a \in Crews /\ a.staffing[q] = NoLife /\ Eases(crew, a, r)
  <2>1. Sound(a) /\ a.staffing[q] = NoLife
    BY <1>1, UnreservedSound
  <2>2. Eases(crew, a, r)
    BY <1>1 DEF Eases, IsPending, Crews
  <2> HIDE DEF a
  <2> QED BY <2>1, <2>2 DEF Sound
<1> HIDE DEF a
<1>11. Sound(b) /\ b \in Crews /\ b.staffing[q] = NoLife /\ Eases(crew, b, r)
  <2>1. Sound(b)
    BY <1>10, DropPendingSound
  <2>2. b.staffing = a.staffing
    BY <1>10 DEF DropPending, Crews
  <2>3. IsPending(b, r) => IsPending(a, r)
    BY <1>10, DropPendingKeeps
  <2>4. Eases(crew, b, r)
    BY <1>10, <2>2, <2>3 DEF Eases
  <2> HIDE DEF b
  <2> QED BY <1>10, <2>1, <2>2, <2>4 DEF Sound
<1> HIDE DEF b
<1>12. Sound(d) /\ Eases(crew, d, r)
  <2>1. Sound(d)
    BY <1>11, HandleDroppedSound
  <2>2. d.staffing = b.staffing /\ d.pending = b.pending
    BY <1>11 DEF HandleDropped, Crews
  <2> QED BY <1>11, <2>1, <2>2 DEF Eases, IsPending
<1> HIDE DEF d
<1>13. CASE CancelBegin(q)
  <2>1. CancelWrites(q, d) \/ Install(d)
    BY <1>13 DEF CancelBegin, a, b, d
  <2> QED BY <1>12, <2>1, CancelWritesLaunched, InstallEases
<1>14. CASE CancelEnd(q)
  BY <1>1, <1>2, <1>14, CancelWritesLaunched DEF CancelEnd
<1>15. CASE CourierBegin(q)
  <2>1. Install(b)
    BY <1>15 DEF CourierBegin, a, b
  <2> QED BY <1>11, <2>1, InstallEases
<1>16. CASE CourierEnd(q)
  <2>1. PICK s : /\ ledger' = [ledger EXCEPT ![q] = s]
                 /\ \E c \in Patched(q, s, crew) : Install(Pump(c, [ledger EXCEPT ![q] = s]))
    BY <1>16 DEF CourierEnd, Patch
  <2>2. PICK c \in Patched(q, s, crew) : Install(Pump(c, ledger'))
    BY <2>1
  <2> DEFINE e == Pump(c, ledger')
  <2>3. Install(e) /\ Fits(e)
    BY <2>2 DEF Install, Fits
  <2>4. Asks(crew, e, ledger', r)
    BY <1>1, <2>1, <2>2, <2>3, PatchPumpAsks
  <2> HIDE DEF e
  <2> QED BY <2>3, <2>4, InstallLaunched
<1> QED BY <1>4, <1>5, <1>6, <1>7, <1>8, <1>9, <1>13, <1>14, <1>15, <1>16
        DEF WatchdogStep, HumanStep, WatchdogForgets, WatchdogSights, WatchdogParks, QuestionTimeout

\* No admission acts on a stale reading: a reservation for a run that was not waiting
\* is at the stage its state wants once the step is over, within budget, and for a
\* queued run unpaused and with its dependencies settled.  Only an entry that waited
\* in this.pending may be launched at a stage of the past.
THEOREM LaunchCorrect == Spec => LaunchAsked
<1>1. ASSUME Inv, [Next]_vars, NEW r \in Runs PROVE Launched(r)
  <2>1. CASE UNCHANGED vars \/ TogglePause
    <3>1. UNCHANGED crewVars
      BY <2>1 DEF vars, crewVars, TogglePause
    <3> QED BY <3>1, CrewLaunched
  <2>2. CASE \E q \in Runs : \E k \in Lives : LifeStep(q, k)
    BY <1>1, <2>2, LifeStepLaunched
  <2>3. CASE \E q \in Runs : \/ WatchdogStep(q) \/ HumanStep(q) \/ Settle(q)
                           \/ QuestionTimeout(q) \/ CancelEnd(q) \/ CourierEnd(q)
    BY <1>1, <2>3, OutsideStepLaunched
  <2> QED BY <1>1, <2>1, <2>2, <2>3 DEF Next
<1>2. Inv /\ [Next]_vars =>
        [\A r \in Runs : staffing'[r] \notin {NoLife, staffing[r]} /\ ~IsPending(crew, r) =>
             /\ life'[r][staffing'[r]].stage = StageFor(ledger'[r])
             /\ r \notin overBudget
             /\ ledger'[r] = "queued" => ~paused /\ DependenciesReady(ledger', r)]_vars
  BY <1>1 DEF Launched
<1> QED BY <1>2, Invariance, PTL DEF Spec, LaunchAsked

=============================================================================
