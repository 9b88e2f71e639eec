------------------------------ MODULE Staffing ------------------------------
(***************************************************************************)
(* The staffing half of RunSupervisor (src/src/run/supervisor.ts): which    *)
(* runs hold one of the `runs.max_live` slots, which wait for one, and how  *)
(* spawns, worker exits, cancels, couriers and the staffing watchdog race   *)
(* for them.  A handler is split at the awaits that really wait (git,       *)
(* starting a process, killing one, publishing); the code between two such  *)
(* awaits is one action, ledger patches and the trailing pump included.     *)
(*                                                                         *)
(* A spawn, the worker it starts and that worker's finish handler share one *)
(* LIFE of the run, an index that plays the part of both the reservation    *)
(* Symbol and the worker handle.                                            *)
(***************************************************************************)
EXTENDS Integers, Sequences, FiniteSets

CONSTANTS
    Runs,       \* run ids, numbered in the order of creation
    MaxLive,    \* config runs.max_live
    MaxLives,   \* bound: overlapping lives of one run
    Deps,       \* run.deps: the runs a run waits on
    Env         \* the outside events that may happen, a subset of EnvEvents

EnvEvents == {"redeploy", "pause", "budget", "cancel", "courier"}

ASSUME StaffingAssumption ==
    /\ Runs \subseteq Nat /\ IsFiniteSet(Runs)
    /\ MaxLive \in Nat \ {0}
    /\ MaxLives \in Nat \ {0}
    /\ Deps \in [Runs -> SUBSET Runs]
    /\ Env \subseteq EnvEvents

Stages == {"implement", "review"}
NoStage == "none"
Lives == 1 .. MaxLives
NoLife == 0

RUN_FINAL == {"done", "failed", "cancelled"}
RUN_TERMINAL == RUN_FINAL \cup {"parked"}
RunStates == RUN_TERMINAL \cup
    {"queued", "implementing", "reviewing", "publishing", "awaiting_input", "unverified"}

VARIABLES
    ledger,      \* Run.state in the durable ledger
    workers,     \* this.workers: the life whose handle is registered
    staffing,    \* this.staffing: the life whose token holds the reservation
    pending,     \* this.pending: spawns held at the cap, first in first out
    life,        \* where each life of a run has got to, and its stage
    finishing,   \* this.finishing
    cancelling,  \* this.cancelling: runs whose cancel() is aborting a worker
    courier,     \* runs whose courier() is gathering its proof
    sighted,     \* this.unstaffedSince: runs the watchdog saw workerless
    restaffed,   \* this.watchdogRestaffed
    paused,      \* the pause file exists
    overBudget,  \* runs whose spend reached budget_usd_per_run
    refused      \* parked runs that resume() answers publish-blocked

crewVars == <<workers, staffing, pending, life>>
watchVars == <<sighted, restaffed>>
vars == <<ledger, workers, staffing, pending, life, finishing, cancelling, courier,
          sighted, restaffed, paused, overBudget, refused>>

Pcs == {"idle", "provision", "starting", "retiring", "registering", "live",
        "ended", "finish", "publish", "reap"}

Job == [run : Runs, stage : Stages]

TypeOK ==
    /\ ledger \in [Runs -> RunStates]
    /\ workers \in [Runs -> Lives \cup {NoLife}]
    /\ staffing \in [Runs -> Lives \cup {NoLife}]
    /\ pending \in Seq(Job)
    /\ life \in [Runs -> [Lives -> [pc : Pcs, stage : Stages]]]
    /\ finishing \in SUBSET Runs
    /\ cancelling \in SUBSET Runs
    /\ courier \in SUBSET Runs
    /\ sighted \in SUBSET Runs
    /\ restaffed \in SUBSET Runs
    /\ paused \in BOOLEAN
    /\ overBudget \in SUBSET Runs
    /\ refused \in SUBSET Runs

-----------------------------------------------------------------------------
(* The crew: the four in-memory structures that admission reads and writes. *)

crew == [workers |-> workers, staffing |-> staffing, pending |-> pending, life |-> life]

Staffed(c, r) == c.workers[r] # NoLife \/ c.staffing[r] # NoLife

IsPending(c, r) == \E i \in 1 .. Len(c.pending) : c.pending[i].run = r

\* Mutant: a spawn under way is not counted.
UsedSlotsLiveOnly(c) == Cardinality({r \in Runs : c.workers[r] # NoLife})

\* workers.size + staffing.size: a run in both maps counts twice.
UsedSlots(c) == Cardinality({r \in Runs : c.workers[r] # NoLife})
              + Cardinality({r \in Runs : c.staffing[r] # NoLife})

AtCap(c) == UsedSlots(c) >= MaxLive

\* A life not in use; beyond the bound when there is none (Install refuses it).
FreeLife(c, r) ==
    IF \E k \in Lives : c.life[r][k].pc = "idle"
    THEN CHOOSE k \in Lives : c.life[r][k].pc = "idle"
    ELSE MaxLives + 1

\* Reserve a slot for each job, before anything is awaited.
Launch(c, jobs) ==
    LET launched == {j.run : j \in jobs}
        stageOf(r) == (CHOOSE j \in jobs : j.run = r).stage
    IN  [c EXCEPT
          !.staffing = [r \in Runs |-> IF r \in launched THEN FreeLife(c, r) ELSE @[r]],
          !.life = [r \in Runs |-> [k \in Lives |->
                      IF r \in launched /\ k = FreeLife(c, r)
                      THEN [pc |-> "provision", stage |-> stageOf(r)]
                      ELSE c.life[r][k]]]]

PausedFor(st, r) == st[r] = "queued" /\ paused

\* Mutant: isPending is not asked.
SpawnUnguarded(c, st, r, stage) ==
    LET job == [run |-> r, stage |-> stage]
    IN  IF Staffed(c, r) \/ PausedFor(st, r) \/ r \in overBudget THEN c
        ELSE IF ~AtCap(c) THEN Launch(c, {job})
        ELSE [c EXCEPT !.pending = Append(@, job)]

SpawnGuarded(c, st, r, stage) ==
    LET job == [run |-> r, stage |-> stage]
    IN  IF Staffed(c, r) \/ PausedFor(st, r) \/ r \in overBudget THEN c
        ELSE IF ~AtCap(c) THEN Launch(c, {job})
        ELSE IF IsPending(c, r) THEN c
        ELSE [c EXCEPT !.pending = Append(@, job)]

\* pump(): shift entries while a slot is free, dropping those that no longer
\* need one.  Entry i is shifted iff fewer launchable entries precede it than
\* there are free slots.
Pump(c, st) ==
    LET able(i) == /\ st[c.pending[i].run] \notin RUN_TERMINAL
                   /\ ~Staffed(c, c.pending[i].run)
        ahead(i) == {j \in 1 .. (i - 1) : able(j)}
        shifted == {i \in 1 .. Len(c.pending) : Cardinality(ahead(i)) < MaxLive - UsedSlots(c)}
        jobs == {c.pending[i] : i \in {i \in shifted : able(i)}}
    IN  [Launch(c, jobs) EXCEPT
          !.pending = SubSeq(c.pending, Cardinality(shifted) + 1, Len(c.pending))]

StageFor(s) ==
    CASE s \in {"queued", "implementing"} -> "implement"
      [] s = "reviewing" -> "review"
      [] OTHER -> NoStage

\* Mutant: the stage's name is written where the state's belongs.
StateOfUnmapped(stage) == stage

StateOf(stage) == IF stage = "implement" THEN "implementing" ELSE "reviewing"

\* The explicit-dependency half of readiness(); file overlaps are in RunDeps.
DependenciesReady(st, r) ==
    \A d \in Deps[r] : st[d] \in {"done", "cancelled"}

AdmitRun(c, st, r) ==
    IF \/ StageFor(st[r]) = NoStage
       \/ st[r] = "queued" /\ ~DependenciesReady(st, r)
    THEN c
    ELSE SpawnGuarded(c, st, r, StageFor(st[r]))

\* Mutant: patchRun's re-admission does not ask for the pause file.
AdmissiblePaused(c, st) ==
    {r \in Runs : /\ st[r] = "queued" /\ DependenciesReady(st, r)
                  /\ ~Staffed(c, r) /\ r \notin overBudget}

\* The queued runs that a re-admission would get past spawnGuarded's holds.
Admissible(c, st) ==
    {r \in Runs : /\ st[r] = "queued" /\ DependenciesReady(st, r)
                  /\ ~Staffed(c, r) /\ ~PausedFor(st, r) /\ r \notin overBudget}

ImplementJob(r) == [run |-> r, stage |-> "implement"]

\* The jobs of the runs in S, oldest run first.
Oldest(S) ==
    {[i \in 1 .. Cardinality(S) |-> ImplementJob(q[i])] :
        q \in {p \in [1 .. Cardinality(S) -> S] :
                 \A i, j \in 1 .. Cardinality(S) : i < j => p[i] < p[j]}}

\* patchRun's loop after a run turned final: admitRun for every queued run,
\* oldest first.  The first ones take the free slots, the others join pending.
ReadmitQueued(c, st) ==
    LET all == Admissible(c, st)
        first == {r \in all : Cardinality({s \in all : s < r}) < MaxLive - UsedSlots(c)}
        late == {r \in all \ first : ~IsPending(c, r)}
    IN  {[Launch(c, {ImplementJob(r) : r \in first}) EXCEPT !.pending = @ \o tail] :
            tail \in Oldest(late)}

\* The crews patchRun(r, {state: s}) may leave: only a run turning final re-admits.
Patched(r, s, c) ==
    IF s \in RUN_FINAL /\ ledger[r] # s
    THEN ReadmitQueued(c, [ledger EXCEPT ![r] = s])
    ELSE {c}

\* Make c the next crew, within the bound on lives.
Install(c) ==
    /\ \A r \in Runs : c.staffing[r] \in Lives \cup {NoLife}
    /\ workers' = c.workers /\ staffing' = c.staffing
    /\ pending' = c.pending /\ life' = c.life

SetPc(c, r, k, pc) == [c EXCEPT !.life[r][k].pc = pc]

Unused == [pc |-> "idle", stage |-> "implement"]

Ended(c, r, k) == [c EXCEPT !.life[r][k] = Unused]

Patch(r, s) == ledger' = [ledger EXCEPT ![r] = s]

-----------------------------------------------------------------------------
(* Admission *)

\* The run.deploy ping.  The CLI sends one per created run; a ping for a run
\* that has been admitted already is the "redeploy" event.
Deploy(r) ==
    /\ \/ "redeploy" \in Env
       \/ ledger[r] = "queued" /\ ~Staffed(crew, r) /\ ~IsPending(crew, r)
    /\ Install(AdmitRun(crew, ledger, r))
    /\ UNCHANGED <<ledger, finishing, cancelling, courier, watchVars, paused, overBudget, refused>>

-----------------------------------------------------------------------------
(* The spawn path: doSpawn *)

Pc(r, k) == life[r][k].pc
StageOf(r, k) == life[r][k].stage

\* The worktree is ready; the run is moved to its stage's state, whatever
\* state it is in by now.
ProvisionOk(r, k) ==
    /\ Pc(r, k) = "provision"
    /\ Patch(r, StateOf(StageOf(r, k)))
    /\ Install(SetPc(crew, r, k, "starting"))
    /\ UNCHANGED <<finishing, cancelling, courier, watchVars, paused, overBudget, refused>>

\* The repository, the worktree or the worker could not be had: noteSpawnFailure
\* records the reason and leaves the run to the watchdog.
SpawnFails(r, k) ==
    /\ Pc(r, k) \in {"provision", "starting"}
    /\ Install(SetPc(crew, r, k, "retiring"))
    /\ UNCHANGED <<ledger, finishing, cancelling, courier, watchVars, paused, overBudget, refused>>

\* A missing capability or a conflict between dependency branches: hold().
ProvisionHolds(r, k) ==
    /\ Pc(r, k) = "provision"
    /\ Patch(r, "parked")
    /\ Install(SetPc(crew, r, k, "retiring"))
    /\ UNCHANGED <<finishing, cancelling, courier, watchVars, paused, overBudget, refused>>

\* Mutant: the reservation token is not compared.
StartedUnchecked(r, k) ==
    /\ Pc(r, k) = "starting"
    /\ ledger[r] \notin RUN_TERMINAL
    /\ Install([SetPc(crew, r, k, "registering") EXCEPT !.workers[r] = k])
    /\ UNCHANGED <<ledger, finishing, cancelling, courier, watchVars, paused, overBudget, refused>>

\* spawnWorker returned a handle, and the run still wants it.
Started(r, k) ==
    /\ Pc(r, k) = "starting"
    /\ staffing[r] = k
    /\ ledger[r] \notin RUN_TERMINAL
    /\ Install([SetPc(crew, r, k, "registering") EXCEPT !.workers[r] = k])
    /\ UNCHANGED <<ledger, finishing, cancelling, courier, watchVars, paused, overBudget, refused>>

\* It does not: the worker just started is aborted and reaped.
Discarded(r, k) ==
    /\ Pc(r, k) = "starting"
    /\ staffing[r] # k \/ ledger[r] \in RUN_TERMINAL
    /\ Install(SetPc(crew, r, k, "retiring"))
    /\ UNCHANGED <<ledger, finishing, cancelling, courier, watchVars, paused, overBudget, refused>>

\* launchSpawn's finally: release only one's own reservation, then pump.
Released(c, r, k) ==
    [c EXCEPT !.staffing[r] = IF @ = k THEN NoLife ELSE @]

\* Mutant: a failed spawn frees its slot and pumps nothing.
RetireQuietly(r, k) ==
    /\ Pc(r, k) = "retiring"
    /\ Install(Released(Ended(crew, r, k), r, k))
    /\ UNCHANGED <<ledger, finishing, cancelling, courier, watchVars, paused, overBudget, refused>>

Retire(r, k) ==
    /\ Pc(r, k) = "retiring"
    /\ Install(Pump(Released(Ended(crew, r, k), r, k), ledger))
    /\ UNCHANGED <<ledger, finishing, cancelling, courier, watchVars, paused, overBudget, refused>>

\* The session id is stored and onDone subscribed: doSpawn is through.
Register(r, k) ==
    /\ Pc(r, k) = "registering"
    /\ Install(Pump(Released(SetPc(crew, r, k, "live"), r, k), ledger))
    /\ UNCHANGED <<ledger, finishing, cancelling, courier, watchVars, paused, overBudget, refused>>

-----------------------------------------------------------------------------
(* The finish path: onWorkerDone, finishImplement, finishReview *)

Deregistered(c, r, k) == [c EXCEPT !.workers[r] = IF @ = k THEN NoLife ELSE @]

\* A finish that reaches a finished or cancelled run is ignored; the handle, if
\* still registered, stays in this.workers.
DoneIgnored(r, k) ==
    /\ Pc(r, k) = "live"
    /\ ledger[r] \in RUN_FINAL \/ r \in cancelling
    /\ Install(IF workers[r] = k THEN SetPc(crew, r, k, "ended") ELSE Ended(crew, r, k))
    /\ UNCHANGED <<ledger, finishing, cancelling, courier, watchVars, paused, overBudget, refused>>

WorkerDone(r, k) ==
    /\ Pc(r, k) = "live"
    /\ ledger[r] \notin RUN_FINAL
    /\ r \notin cancelling
    /\ finishing' = finishing \cup {r}
    /\ \/ overBudget' = overBudget
       \/ "budget" \in Env /\ overBudget' = overBudget \cup {r}
    /\ Install(Deregistered(SetPc(crew, r, k, "finish"), r, k))
    /\ UNCHANGED <<ledger, cancelling, courier, watchVars, paused, refused>>

\* Where a finish may take the run, by the stage that finished: a park, a
\* question, another pass or the next stage.
FinishStates(stage) ==
    IF stage = "implement" THEN {"parked", "awaiting_input", "implementing", "reviewing"}
    ELSE {"parked", "implementing", "reviewing"}

\* Mutant: this.finishing is not cleared.
FinishUncleared(r, k) ==
    /\ Pc(r, k) = "finish"
    /\ \E s \in FinishStates(StageOf(r, k)) :
         LET st == [ledger EXCEPT ![r] = s]
             c == SetPc(crew, r, k, "reap")
         IN  /\ Patch(r, s)
             /\ Install(IF StageFor(s) = NoStage THEN c ELSE SpawnGuarded(c, st, r, StageFor(s)))
    /\ UNCHANGED <<finishing, cancelling, courier, watchVars, paused, overBudget, refused>>

\* The commit is made and the verdict read; the run moves on, unconditionally.
Finish(r, k) ==
    /\ Pc(r, k) = "finish"
    /\ \E s \in FinishStates(StageOf(r, k)) :
         LET st == [ledger EXCEPT ![r] = s]
             c == SetPc(crew, r, k, "reap")
         IN  /\ Patch(r, s)
             /\ Install(IF StageFor(s) = NoStage THEN c ELSE SpawnGuarded(c, st, r, StageFor(s)))
    /\ finishing' = finishing \ {r}
    /\ UNCHANGED <<cancelling, courier, watchVars, paused, overBudget, refused>>

\* A death classified while cancel() is in flight is left to cancel().
FinishYields(r, k) ==
    /\ Pc(r, k) = "finish"
    /\ r \in cancelling
    /\ Install(SetPc(crew, r, k, "reap"))
    /\ finishing' = finishing \ {r}
    /\ UNCHANGED <<ledger, cancelling, courier, watchVars, paused, overBudget, refused>>

\* The work passed: publishRun marks the run and waits for the push.
FinishPublishes(r, k) ==
    /\ Pc(r, k) = "finish"
    /\ Patch(r, "publishing")
    /\ Install(SetPc(crew, r, k, "publish"))
    /\ UNCHANGED <<finishing, cancelling, courier, watchVars, paused, overBudget, refused>>

\* The push settled: proven, unproven, given up on, or left to the retry row.
Published(r, k) ==
    /\ Pc(r, k) = "publish"
    /\ \E s \in {"done", "unverified", "parked", ledger[r]} :
         /\ Patch(r, s)
         /\ \E c \in Patched(r, s, SetPc(crew, r, k, "reap")) : Install(c)
         /\ refused' = IF s = "parked" THEN refused \cup {r} ELSE refused
    /\ finishing' = finishing \ {r}
    /\ UNCHANGED <<cancelling, courier, watchVars, paused, overBudget>>

Reap(r, k) ==
    /\ Pc(r, k) = "reap"
    /\ Install(Pump(Ended(crew, r, k), ledger))
    /\ UNCHANGED <<ledger, finishing, cancelling, courier, watchVars, paused, overBudget, refused>>

\* A durable publish row, the stall guard or a proof re-check moves a run no
\* worker owns (their own races are in RunPublish).
Settle(r) ==
    /\ ledger[r] \in {"publishing", "unverified"}
    /\ \A k \in Lives : Pc(r, k) # "publish"
    /\ \E s \in {"done", "unverified", "parked"} :
         /\ Patch(r, s)
         /\ \E c \in Patched(r, s, crew) : Install(c)
         /\ refused' = IF s = "parked" THEN refused \cup {r} ELSE refused
    /\ UNCHANGED <<finishing, cancelling, courier, watchVars, paused, overBudget>>

-----------------------------------------------------------------------------
(* Cancel, resume, answer, courier *)

\* dropPending(): the run's entry, of which there is at most one (PendingOnce).
DropPending(c, r) ==
    IF ~IsPending(c, r) THEN c
    ELSE LET i == CHOOSE i \in 1 .. Len(c.pending) : c.pending[i].run = r
         IN  [c EXCEPT !.pending = SubSeq(@, 1, i - 1) \o SubSeq(@, i + 1, Len(@))]

\* A handle taken out of this.workers: a dead one leaves its life unused.
HandleDropped(c, r) ==
    [c EXCEPT !.workers[r] = NoLife,
              !.life[r] = [k \in Lives |->
                  IF k = c.workers[r] /\ @[k].pc = "ended" THEN Unused ELSE @[k]]]

\* Mutant: the run's own end is not looked for.
CancelOverwrites(r, c) ==
    LET s == "cancelled"
    IN  /\ Patch(r, s)
        /\ \E d \in Patched(r, s, c) : Install(Pump(d, [ledger EXCEPT ![r] = s]))
        /\ refused' = refused \ {r}

\* The final write, unless the run reached its own end meanwhile; then pump.
CancelWrites(r, c) ==
    LET s == IF ledger[r] \in {"done", "failed"} THEN ledger[r] ELSE "cancelled"
    IN  /\ Patch(r, s)
        /\ \E d \in Patched(r, s, c) : Install(Pump(d, [ledger EXCEPT ![r] = s]))
        /\ refused' = refused \ {r}

\* cancel(): everything in memory goes at once.  Without a worker the write
\* follows at once; with one, only after it has been aborted and reaped.
CancelBegin(r) ==
    LET c == HandleDropped(DropPending([crew EXCEPT !.staffing[r] = NoLife], r), r)
    IN  /\ "cancel" \in Env
        /\ r \notin cancelling
        /\ ledger[r] \notin RUN_FINAL
        /\ sighted' = sighted \ {r} /\ restaffed' = restaffed \ {r}
        /\ overBudget' = overBudget
        /\ IF workers[r] = NoLife
           THEN CancelWrites(r, c) /\ UNCHANGED cancelling
           ELSE /\ cancelling' = cancelling \cup {r}
                /\ Install(c)
                /\ UNCHANGED <<ledger, refused>>
        /\ UNCHANGED <<finishing, courier, paused>>

\* The worker has been aborted and reaped.
CancelEnd(r) ==
    /\ r \in cancelling
    /\ cancelling' = cancelling \ {r}
    /\ CancelWrites(r, crew)
    /\ UNCHANGED <<finishing, courier, watchVars, paused, overBudget>>

\* resume() of a parked run, at the stage its blocker or last session names.
Resume(r) ==
    /\ ledger[r] = "parked" /\ r \notin refused
    /\ \E stage \in Stages :
         LET st == [ledger EXCEPT ![r] = StateOf(stage)]
         IN  /\ ledger' = st
             /\ Install(SpawnGuarded(crew, st, r, stage))
    /\ UNCHANGED <<finishing, cancelling, courier, watchVars, paused, overBudget, refused>>

\* answerRun, by a human or by the timeout's default answer.
Answer(r) ==
    /\ ledger[r] = "awaiting_input"
    /\ LET st == [ledger EXCEPT ![r] = "implementing"]
       IN  /\ ledger' = st
           /\ Install(SpawnGuarded(crew, st, r, "implement"))
    /\ UNCHANGED <<finishing, cancelling, courier, watchVars, paused, overBudget, refused>>

\* onQuestionTimeout without a default answer.
QuestionTimeout(r) ==
    /\ ledger[r] = "awaiting_input"
    /\ Patch(r, "parked")
    /\ UNCHANGED <<crewVars, finishing, cancelling, courier, watchVars, paused, overBudget, refused>>

\* courier() up to the proof it awaits.
CourierBegin(r) ==
    /\ "courier" \in Env
    /\ r \notin courier
    /\ ledger[r] \in {"publishing", "parked"}
    /\ courier' = courier \cup {r}
    /\ Install(DropPending([crew EXCEPT !.staffing[r] = NoLife], r))
    /\ sighted' = sighted \ {r} /\ restaffed' = restaffed \ {r}
    /\ UNCHANGED <<ledger, finishing, cancelling, paused, overBudget, refused>>

CourierEnd(r) ==
    /\ r \in courier
    /\ courier' = courier \ {r}
    /\ \E s \in {"done", "unverified"} :
         /\ Patch(r, s)
         /\ \E c \in Patched(r, s, crew) : Install(Pump(c, [ledger EXCEPT ![r] = s]))
    /\ refused' = refused \ {r}
    /\ UNCHANGED <<finishing, cancelling, watchVars, paused, overBudget>>

-----------------------------------------------------------------------------
(* The staffing watchdog: reconcileStaffing, one run of a pass at a time *)

Handled(r) ==
    \/ StageFor(ledger[r]) = NoStage
    \/ Staffed(crew, r)
    \/ IsPending(crew, r)
    \/ r \in finishing
    \/ r \in overBudget
    \/ PausedFor(ledger, r)
    \/ ledger[r] = "queued" /\ ~DependenciesReady(ledger, r)

WatchdogForgets(r) ==
    /\ Handled(r)
    /\ sighted' = sighted \ {r} /\ restaffed' = restaffed \ {r}
    /\ UNCHANGED <<ledger, crewVars, finishing, cancelling, courier, paused, overBudget, refused>>

WatchdogSights(r) ==
    /\ ~Handled(r)
    /\ r \notin sighted
    /\ sighted' = sighted \cup {r}
    /\ UNCHANGED <<ledger, crewVars, finishing, cancelling, courier, restaffed, paused, overBudget, refused>>

\* The grace (supervise.staffing_watchdog_s) outlasts an abort, which ends in a
\* SIGKILL after 4 s: no grace runs out while the run is being cancelled.
WatchdogRestaffs(r) ==
    /\ ~Handled(r) /\ r \notin cancelling
    /\ r \in sighted \ restaffed
    /\ restaffed' = restaffed \cup {r}
    /\ Install(SpawnGuarded(crew, ledger, r, StageFor(ledger[r])))
    /\ UNCHANGED <<ledger, finishing, cancelling, courier, sighted, paused, overBudget, refused>>

WatchdogParks(r) ==
    /\ ~Handled(r) /\ r \notin cancelling
    /\ r \in sighted \cap restaffed
    /\ sighted' = sighted \ {r} /\ restaffed' = restaffed \ {r}
    /\ Patch(r, "parked")
    /\ UNCHANGED <<crewVars, finishing, cancelling, courier, paused, overBudget, refused>>

TogglePause ==
    /\ "pause" \in Env
    /\ paused' = ~paused
    /\ UNCHANGED <<ledger, crewVars, finishing, cancelling, courier, watchVars, overBudget, refused>>

-----------------------------------------------------------------------------
Init ==
    /\ ledger = [r \in Runs |-> "queued"]
    /\ workers = [r \in Runs |-> NoLife]
    /\ staffing = [r \in Runs |-> NoLife]
    /\ pending = <<>>
    /\ life = [r \in Runs |-> [k \in Lives |-> Unused]]
    /\ finishing = {}
    /\ cancelling = {}
    /\ courier = {}
    /\ sighted = {} /\ restaffed = {}
    /\ paused = FALSE
    /\ overBudget = {}
    /\ refused = {}

\* The steps the daemon takes by itself in one life of a run.
LifeStep(r, k) ==
    \/ ProvisionOk(r, k) \/ SpawnFails(r, k) \/ ProvisionHolds(r, k)
    \/ Started(r, k) \/ Discarded(r, k) \/ Retire(r, k) \/ Register(r, k)
    \/ DoneIgnored(r, k) \/ WorkerDone(r, k)
    \/ Finish(r, k) \/ FinishYields(r, k) \/ FinishPublishes(r, k)
    \/ Published(r, k) \/ Reap(r, k)

WatchdogStep(r) ==
    WatchdogForgets(r) \/ WatchdogSights(r) \/ WatchdogRestaffs(r) \/ WatchdogParks(r)

HumanStep(r) ==
    Deploy(r) \/ CancelBegin(r) \/ Resume(r) \/ Answer(r) \/ CourierBegin(r)

Next ==
    \/ \E r \in Runs :
         \/ \E k \in Lives : LifeStep(r, k)
         \/ WatchdogStep(r) \/ HumanStep(r)
         \/ Settle(r) \/ QuestionTimeout(r)
         \/ CancelEnd(r) \/ CourierEnd(r)
    \/ TogglePause

Spec == Init /\ [][Next]_vars

\* Every await returns, every worker ends (the hard cap kills it), every timer
\* fires again; nothing obliges a human to act.
Fairness ==
    \A r \in Runs :
      /\ \A k \in Lives : WF_vars(LifeStep(r, k))
      /\ WF_vars(WatchdogForgets(r)) /\ WF_vars(WatchdogSights(r))
      /\ WF_vars(WatchdogRestaffs(r)) /\ WF_vars(WatchdogParks(r))
      /\ WF_vars(CancelEnd(r)) /\ WF_vars(CourierEnd(r))
      /\ WF_vars(Settle(r)) /\ WF_vars(QuestionTimeout(r))

FairSpec == Spec /\ Fairness

-----------------------------------------------------------------------------
(* Properties *)

Holders == {r \in Runs : Staffed(crew, r)}

\* atCap(), lines 697-699: worktrees being cut and registered workers together
\* never exceed runs.max_live, through every pump, re-admission and cancel.
CapRespected == Cardinality(Holders) <= MaxLive

\* The Symbol token of launchSpawn: a run's reservation and its registered
\* worker are one and the same spawn, and a reservation outlives its spawn never.
SingleOwner ==
    \A r \in Runs :
      /\ staffing[r] # NoLife /\ workers[r] # NoLife => staffing[r] = workers[r]
      /\ staffing[r] # NoLife =>
           Pc(r, staffing[r]) \in {"provision", "starting", "retiring", "registering"}

\* spawnGuarded, line 758, and patchRun's re-admission: however pings, resumes,
\* answers and re-admissions interleave, a run waits in this.pending once.
PendingOnce ==
    \A i, j \in 1 .. Len(pending) : pending[i].run = pending[j].run => i = j

\* pump() has a caller left: while a spawn waits and a slot is free, a handler
\* is in flight whose last step pumps.
NoStrandedPending ==
    pending # <<>> /\ ~AtCap(crew) =>
      \/ \E r \in Runs, k \in Lives :
           Pc(r, k) \in {"provision", "starting", "retiring", "registering", "finish", "publish", "reap"}
      \/ \E r \in Runs : r \in cancelling \/ r \in courier

\* Both halves of what spawnGuarded and pump() owe a spawn held at the cap: it
\* waits once, and somebody is left to launch it.
PendingKept == PendingOnce /\ NoStrandedPending

\* A final run that no handler still means to write: no spawn cuts its worktree,
\* no finish or publish is between its decision and its write, no courier is out.
Over(r) ==
    /\ ledger[r] \in RUN_FINAL
    /\ r \notin courier
    /\ \A k \in Lives : Pc(r, k) \notin {"provision", "finish", "publish"}

\* types.ts:57 of RUN_FINAL, as far as it holds: those writes under way are the
\* only ones that can still move a final run.  Past them a ping, resume, late
\* worker exit, cancel, re-admission, pump or watchdog pass leaves the run's state
\* alone, gives it no slot and starts no handler that could.
FinalStays ==
    [][\A r \in Runs : Over(r) =>
          /\ Over(r)' /\ ledger'[r] = ledger[r]
          /\ staffing'[r] \in {staffing[r], NoLife}
          /\ workers'[r] \in {workers[r], NoLife}]_vars

\* reconcileStaffing: a run left without a worker is always tried again, whatever
\* deaths, holds and failed spawns came before.
WorkerlessRunRetried ==
    \A r \in Runs :
      StageFor(ledger[r]) # NoStage /\ ledger[r] # "queued" /\ r \notin overBudget
        ~> Staffed(crew, r) \/ StageFor(ledger[r]) = NoStage \/ r \in overBudget

\* The safety half of WorkerlessRunRetried, through this.finishing: a run that an
\* exit, a failed spawn or a refused launch left without a worker is in front of
\* the next watchdog pass, unless its finish is still deciding or it waits for a
\* slot.  No handler leaves its mark in this.finishing behind and hides the run.
WorkerlessSeen ==
    \A r \in Runs :
      /\ StageFor(ledger[r]) # NoStage /\ ledger[r] # "queued"
      /\ r \notin overBudget /\ ~Staffed(crew, r)
      => \/ ~Handled(r)
         \/ \E k \in Lives : Pc(r, k) \in {"finish", "publish"}
         \/ IsPending(crew, r)

\* pump(), spawnGuarded and admitRun together: a reservation made for a run that
\* was not waiting for a slot is made at the stage the run's state wants by the end
\* of the step, within its budget, and for a queued run only with no pause in force
\* and every dependency settled.  What a waiting entry may still carry is at 795.
LaunchAsked ==
    [][\A r \in Runs : staffing'[r] \notin {NoLife, staffing[r]} /\ ~IsPending(crew, r) =>
         /\ life'[r][staffing'[r]].stage = StageFor(ledger'[r])
         /\ r \notin overBudget
         /\ ledger'[r] = "queued" => ~paused /\ DependenciesReady(ledger', r)]_vars

-----------------------------------------------------------------------------
(* What the comments promise and TLC refutes: FinalIsFinal in a run of its own, *)
(* the others as the README describes.                                          *)

\* this.workers, line 360: "Live worker handles": no slot is kept by a worker
\* that has ended.
NoSlotLeak == \A r \in Runs : workers[r] # NoLife => Pc(r, workers[r]) \in {"registering", "live"}

\* stageFor: a spawn is begun only for the stage its run's state wants; a run
\* that is publishing or held wants none.
LaunchMatchesState ==
    [][\A r \in Runs : staffing'[r] \notin {NoLife, staffing[r]}
         => StageFor(ledger'[r]) = life'[r][staffing'[r]].stage]_<<staffing, ledger, life>>

\* types.ts:57 of RUN_FINAL: "nothing, human or machine, will ever move these".
FinalIsFinal == [][\A r \in Runs : ledger[r] \in RUN_FINAL => ledger'[r] = ledger[r]]_ledger

\* pausedFor, lines 725-733: while held, spawnGuarded admits no queued run.
PauseHolds ==
    [][\A r \in Runs : paused /\ ledger[r] = "queued" /\ staffing[r] = NoLife
         => staffing'[r] = NoLife]_<<staffing, ledger, paused>>

\* Dependency gate (B9): a queued run that is not ready stays queued rather than
\* staffing.
DepsFirst ==
    [][\A r \in Runs : ledger[r] = "queued" /\ staffing[r] = NoLife /\ staffing'[r] # NoLife
         => DependenciesReady(ledger', r)]_<<staffing, ledger>>

\* reconcileStaffing's promise that a wedged run never sits silent: a run that
\* wants a worker gets one or is moved on.
WedgedRunMoves ==
    \A r \in Runs :
      StageFor(ledger[r]) # NoStage /\ r \notin overBudget
        ~> workers[r] # NoLife \/ StageFor(ledger[r]) = NoStage \/ r \in overBudget

=============================================================================
