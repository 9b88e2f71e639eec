------------------------- MODULE RunRecoveryProofs -------------------------
(***************************************************************************)
(* A run across the deaths of its daemons, for any number of restarts, any  *)
(* caps and any set of people's requests.                                   *)
(*                                                                          *)
(* What a dead daemon leaves is followed from one boot phase to the next:   *)
(* while it is down the stage of its worker is on file; while the next one  *)
(* recovers it is in the row that the constructor read, and nothing can     *)
(* touch the run, for it is live and nobody is at work for it; from then on *)
(* it is in restartInterrupted, until a spawn of that stage consumes it or  *)
(* a person takes the run.                                                  *)
(***************************************************************************)
EXTENDS RunRecovery, TLAPS

\* TypeOK in four parts, their sets named; a question that a handler is about to ask is counted.
AskBound == finishing.outcome \in {"ask", "askDefault"} => asked < MaxQuestions

Blockers == [cause : Causes \cup {"none"}, stage : Stages \cup {NoStage}]
Counts == [auto : 0..AutoResumeMax, continued : 0..ContinuationMax, cycles : 0..ReviewCyclesMax]
Workers == [phase : Phases, stage : Stages, reserved : BOOLEAN, resumed : BOOLEAN,
            session : BOOLEAN, brief : SUBSET Notes]
Crew == Workers \cup {NoWorker}
Finishes == [stage : Stages, outcome : Outcomes] \cup {NoFinish}
MaybeStage == Stages \cup {NoStage}

LedgerTypes ==
    /\ state \in States /\ blocker \in Blockers /\ question \in {"none", "plain", "default"}
    /\ counts \in Counts /\ reviewed \in BOOLEAN
RuntimeTypes ==
    /\ steers \in SUBSET Notes /\ unheard \in SUBSET Notes /\ dropped \in SUBSET Notes
    /\ owedResume \in MaybeStage
    /\ liveRow \in Rows /\ liveFile \in Rows /\ recovered \in Rows
BootTypes ==
    /\ daemon \in {"down", "recover", "replay", "publishes", "up"} /\ shuttingDown \in BOOLEAN
    /\ replaying \in MaybeStage /\ resumable \in MaybeStage /\ interrupted \in MaybeStage
    /\ victim \in MaybeStage /\ cutShort \in BOOLEAN /\ overlapped \in BOOLEAN
    /\ restarts \in 0..MaxRestarts
CrewTypes ==
    /\ worker \in Crew /\ finishing \in Finishes /\ asked \in 0..MaxQuestions /\ AskBound
    /\ quotaFallbacks \in 0..MaxQuotaFallbacks /\ nudging \in BOOLEAN
    /\ orphan \in {"none", "recorded", "unrecorded"}
    /\ askTimer \in BOOLEAN /\ couriering \in BOOLEAN
Types == LedgerTypes /\ RuntimeTypes /\ BootTypes /\ CrewTypes

\* A daemon that is down does nothing, and the worker that is at work is the one on record, if any.
DownQuiet ==
    daemon = "down" => worker = NoWorker /\ finishing = NoFinish /\ ~askTimer /\ ~couriering

RowOfWorker ==
    worker.phase = "running" => /\ liveRow.stage \in {NoStage, worker.stage}
                                /\ liveFile.stage \in {NoStage, worker.stage}

\* Only a boot meets a recorded process of the last daemon, and the row is on file then.
OrphanOnFile == orphan = "recorded" => daemon = "down" /\ liveFile # NoRow

\* Where the stage of the dead worker is remembered.
VictimDown ==
    victim # NoStage /\ daemon = "down" => liveFile.stage = victim /\ state = StateOf(victim)

VictimRecovers ==
    victim # NoStage /\ daemon = "recover" =>
        /\ recovered.stage = victim /\ state = StateOf(victim)
        /\ worker = NoWorker /\ finishing = NoFinish /\ ~askTimer /\ ~couriering

VictimBooted ==
    victim # NoStage /\ daemon \in {"replay", "publishes", "up"} => interrupted = victim

\* But for a boot whose admission met a finish handler, a handler has its run to itself, and a run
\* that somebody works on neither is parked nor waits for an answer.
AtWork ==
    ~overlapped =>
        /\ worker = NoWorker \/ finishing = NoFinish
        /\ (worker = NoWorker /\ finishing = NoFinish) \/ state \notin {"parked", "awaiting_input"}

OverlapLate == overlapped => daemon = "up"

LEMMA TypesMeans == Types <=> TypeOK /\ AskBound
  BY DEF Types, LedgerTypes, RuntimeTypes, BootTypes, CrewTypes, TypeOK, Blockers, Counts, Crew,
      Workers, Finishes, MaybeStage

-----------------------------------------------------------------------------
(* What the handlers share *)

\* The fields of a worker, of a handler and of a row.
LEMMA WorkerParts ==
    ASSUME NEW w \in Crew, w.phase # "none"
    PROVE  /\ w \in Workers /\ w.phase \in Phases /\ w.stage \in Stages /\ w.stage # NoStage
           /\ w.session \in BOOLEAN /\ w.brief \in SUBSET Notes
  BY DEF Crew, Workers, NoWorker, Stages, NoStage

LEMMA WorkerMoves ==
    ASSUME NEW w \in Workers, NEW p \in Phases, NEW b \in BOOLEAN, NEW brief \in SUBSET Notes
    PROVE  /\ [w EXCEPT !.phase = p] \in Crew
           /\ [w EXCEPT !.reserved = b] \in Crew
           /\ [w EXCEPT !.phase = p, !.session = b] \in Crew
           /\ [w EXCEPT !.phase = p, !.resumed = b, !.brief = brief] \in Crew
  BY DEF Crew, Workers

LEMMA HandlerParts ==
    ASSUME NEW f \in Finishes, f.outcome \in Outcomes
    PROVE  f.stage \in Stages
  BY DEF Finishes, NoFinish, Outcomes

LEMMA NoneYet ==
    NoWorker \in Crew /\ NoFinish \in Finishes /\ NoFinish.outcome = "none" /\ NoRow \in Rows
  BY DEF Crew, Finishes, NoFinish, NoRow, Rows

LEMMA RowParts ==
    ASSUME NEW r \in Rows
    PROVE  r.stage \in MaybeStage
  BY DEF Rows, NoRow, MaybeStage

LEMMA RowMakes ==
    ASSUME NEW s \in Stages, NEW b \in BOOLEAN
    PROVE  [stage |-> s, session |-> b] \in Rows
  BY DEF Rows

LEMMA StateParts ==
    /\ \A s : StateOf(s) \in {"implementing", "reviewing"} /\ StateOf(s) \in States
    /\ \A s : StampOf(s) \in MaybeStage
    /\ StageFor \in MaybeStage /\ LastStage \in Stages
    /\ NoStage \in MaybeStage /\ Stages \subseteq MaybeStage
  BY DEF StateOf, States, StampOf, StageFor, LastStage, MaybeStage, Stages, NoStage

LEMMA StaffTypes ==
    ASSUME worker \in Crew, NEW s \in Stages, Staff(s)
    PROVE  worker' \in Crew
  BY DEF Staff, Spawn, NoWorker, Crew, Workers, Phases

LEMMA HoldTypes ==
    ASSUME NEW cause \in Causes, NEW read, Hold(cause, read)
    PROVE  state' = "parked" /\ state' \in States /\ blocker' \in Blockers
  BY StateParts DEF Hold, States, Blockers, MaybeStage

LEMMA BlockerParts ==
    /\ NoBlocker \in Blockers
    /\ \A b \in Blockers : b.stage \in MaybeStage
  BY DEF NoBlocker, Blockers, MaybeStage

LEMMA BufferTypes ==
    ASSUME steers \in SUBSET Notes, unheard \in SUBSET Notes, dropped \in SUBSET Notes,
           NEW note \in Notes, Buffer(note)
    PROVE  steers' \in SUBSET Notes /\ unheard' \in SUBSET Notes /\ dropped' \in SUBSET Notes
  BY DEF Buffer

LEMMA ReturnTypes ==
    ASSUME steers \in SUBSET Notes, liveRow \in Rows, liveFile \in Rows,
           NEW n \in SUBSET Notes, Return(n)
    PROVE  steers' \in SUBSET Notes /\ liveRow' \in Rows /\ liveFile' \in Rows
  BY DEF Return, Persist

LEMMA CountedTypes ==
    ASSUME counts \in Counts, blocker \in Blockers, NEW field, NEW cap,
           \/ field = "continued" /\ cap = ContinuationMax
           \/ field = "cycles" /\ cap = ReviewCyclesMax,
           CountedRound(field, cap)
    PROVE  counts' \in Counts /\ state' \in States /\ blocker' \in Blockers
  <1>1. counts' \in Counts
    BY RunRecoveryAssumption DEF Counts, CountedRound
  <1>2. state' \in States /\ blocker' \in Blockers
    <2>1. CASE Hold("decision", state)
      BY <2>1, HoldTypes DEF Causes
    <2>2. CASE AgainWith("implement") /\ blocker' = blocker
      BY <2>2, StateParts DEF AgainWith
    <2> QED BY <2>1, <2>2 DEF CountedRound
  <1> QED BY <1>1, <1>2

LEMMA AgainTypes ==
    ASSUME steers \in SUBSET Notes, unheard \in SUBSET Notes, dropped \in SUBSET Notes,
           liveRow' \in Rows, worker \in Crew, NEW s \in Stages, AgainWith(s)
    PROVE  /\ state' \in States /\ worker' \in Crew /\ liveFile' \in Rows
           /\ steers' \in SUBSET Notes /\ unheard' \in SUBSET Notes /\ dropped' \in SUBSET Notes
  BY StateParts, StaffTypes, BufferTypes DEF AgainWith, Persist, Notes

LEMMA NothingReserved ==
    [NoWorker EXCEPT !.reserved = FALSE] = NoWorker
  <1> DEFINE w == NoWorker
  <1>1. w.reserved = FALSE
    BY DEF NoWorker
  <1>2. w = [x \in DOMAIN w |-> w[x]]
    BY DEF NoWorker
  <1> QED BY <1>1, <1>2

\* The worker that Brief lets start, and the one that Started puts on the books.
LEMMA BriefedParts ==
    ASSUME worker \in Workers,
           worker' = [worker EXCEPT !.phase = "starting", !.resumed = (resumable = worker.stage),
                                    !.brief = steers]
    PROVE  /\ worker'.phase = "starting" /\ worker'.stage = worker.stage /\ worker'.brief = steers
           /\ resumable = worker.stage => worker'.resumed
  <1>1. worker'.phase = "starting" /\ worker'.stage = worker.stage /\ worker'.brief = steers
    BY DEF Workers
  <1>2. ASSUME resumable = worker.stage PROVE worker'.resumed
    BY <1>2 DEF Workers
  <1> QED BY <1>1, <1>2

LEMMA BriefCases ==
    ASSUME worker \in Crew, Brief
    PROVE  /\ worker \in Workers /\ worker.stage \in Stages /\ worker # NoWorker
           /\ \/ worker' = NoWorker /\ KeepNotes
              \/ /\ worker' = [worker EXCEPT !.phase = "starting",
                                             !.resumed = (resumable = worker.stage), !.brief = steers]
                 /\ worker' # NoWorker
                 /\ interrupted # worker.stage \/ resumable = worker.stage
                 /\ interrupted' = interrupted /\ unheard' = unheard /\ dropped' = dropped
  <1>1. worker.phase = "casting"
    BY DEF Brief
  <1>2. worker \in Workers /\ worker.stage \in Stages /\ worker # NoWorker
    BY <1>1, WorkerParts DEF NoWorker
  <1>3. CASE interrupted = worker.stage /\ resumable # worker.stage
    BY <1>2, <1>3 DEF Brief
  <1>4. CASE ~(interrupted = worker.stage /\ resumable # worker.stage)
    BY <1>2, <1>4, BriefedParts DEF Brief, NoWorker
  <1> QED BY <1>3, <1>4

LEMMA StartedPhase ==
    ASSUME worker \in Crew, Started
    PROVE  worker'.phase \in {"none", "registering"}
  <1>1. worker \in Workers
    BY WorkerParts DEF Started
  <1>2. CASE worker' = NoWorker
    BY <1>2 DEF NoWorker
  <1>3. ASSUME NEW session \in BOOLEAN, worker' = [worker EXCEPT !.phase = "registering", !.session = session]
        PROVE  worker'.phase = "registering"
    BY <1>1, <1>3 DEF Workers
  <1> QED BY <1>2, <1>3 DEF Started, NoWorker

-----------------------------------------------------------------------------
(* Types, step by step *)

\* The ledger: counters stop at their caps, blockers name a stage or none.
LEMMA LedgerTypesStep ==
    ASSUME Types, Next
    PROVE  LedgerTypes'
  <1> USE RunRecoveryAssumption DEF Types, LedgerTypes, ledger, crew
  <1>1. CASE Stop \/ Die \/ Boot \/ Recovered \/ TakeOwed
    BY <1>1 DEF Stop, States, Booted, Crew, Workers, NoWorker, Finishes, NoFinish, Die, Alive, Boot,
      Swept, Recovered, InterruptedStage, Persist, TakeOwed, Owed
  <1>2. CASE Replay \/ AdmitLive \/ Provisioned \/ ProvisionFails \/ Brief
    BY <1>2, StateParts, BlockerParts, HoldTypes DEF Replay, AdmitLive, Staff, Spawn, StageFor,
      States, Booted, Crew, Workers, NoWorker, Finishes, NoFinish, Provisioned, ProvisionFails,
      Spawning, KeepNotes, Brief, Causes
  <1>3. CASE StartFails \/ Started \/ Register
        \/ (\E outcome \in Outcomes : WorkerDone(outcome)) \/ FinishDone
    BY <1>3 DEF StartFails, Return, Persist, Spawning, States, Booted, Crew, Workers, NoWorker,
      Finishes, NoFinish, Started, Register, KeepNotes, WorkerDone, Success, FinishDone, Finish,
      Staff, Spawn
  <1>4. CASE FinishContinue \/ FinishRework \/ FinishAsk \/ FinishBlocked \/ FinishQuota
    BY <1>4, CountedTypes, HoldTypes, StateParts DEF FinishContinue, Finish, FinishRework,
      FinishAsk, KeepNotes, States, Booted, Crew, Workers, NoWorker, Finishes, NoFinish,
      FinishBlocked, Causes, FinishQuota, AgainWith
  <1>5. CASE Watchdog \/ QuestionTimeout \/ Answer \/ Steer \/ NudgeHeard
    BY <1>5, HoldTypes, StateParts DEF Watchdog, Causes, QuestionTimeout, States, Answer, Steer,
      Buffer, Persist, Booted, Crew, Workers, NoWorker, Finishes, NoFinish, NudgeHeard
  <1>6. CASE NudgeUnheard \/ (\E note \in {"no note", "answer"} : Resume(note)) \/ Cancel
        \/ Courier \/ CourierEnds
    BY <1>6, StateParts, BlockerParts DEF NudgeUnheard, States, Booted, Crew, Workers, NoWorker,
      Finishes, NoFinish, Resume, Cancel, Courier, Clear, Persist, CourierEnds
  <1>7. CASE FinishDeath
    <2>1. CASE ~SelfInflicted
      BY <1>7, <2>1, HoldTypes DEF FinishDeath, Finish, Causes
    <2>2. CASE SelfInflicted /\ (shuttingDown \/ ResumesSpent)
      BY <1>7, <2>2, HoldTypes DEF FinishDeath, Finish, Causes
    <2>3. CASE SelfInflicted /\ ~shuttingDown /\ ~ResumesSpent
      BY <1>7, <2>3, StateParts DEF FinishDeath, Finish, AgainWith, ResumesSpent, Counts
    <2> QED BY <2>1, <2>2, <2>3
  <1> QED BY <1>1, <1>2, <1>3, <1>4, <1>5, <1>6, <1>7 DEF Next, BootStep, SpawnStep, FinishStep

\* live-runs.json and the notes.
LEMMA RuntimeTypesStep ==
    ASSUME Types, Next
    PROVE  RuntimeTypes'
  <1> USE RunRecoveryAssumption DEF Types, RuntimeTypes, runtime, observed, boot
  <1>1. CASE Stop \/ Die \/ Boot \/ Recovered \/ TakeOwed
    BY <1>1, NoneYet DEF Stop, Die, Boot, Swept, Recovered, Persist, TakeOwed, MaybeStage
  <1>2. CASE Replay \/ AdmitLive \/ Provisioned \/ ProvisionFails \/ Brief
    BY <1>2 DEF Replay, ArmsTimer, AdmitLive, Staff, Spawn, StageFor, Provisioned, Spawning,
      KeepNotes, ProvisionFails, Brief, Hold, StampOf, Persist
  <1>3. CASE (\E outcome \in Outcomes : WorkerDone(outcome)) \/ FinishDone \/ FinishAsk
        \/ FinishBlocked \/ Watchdog
    BY <1>3, NoneYet, StateParts DEF WorkerDone, Persist, FinishDone, Finish, Staff, Spawn,
      KeepNotes, FinishAsk, FinishBlocked, Hold, StampOf, ReadState, Watchdog, StageFor
  <1>4. CASE QuestionTimeout \/ Answer \/ Steer \/ NudgeHeard \/ NudgeUnheard
    BY <1>4, BufferTypes DEF QuestionTimeout, Persist, KeepNotes, Notes, boot, Answer, Steer,
      NudgeHeard, NudgeUnheard
  <1>5. CASE (\E note \in {"no note", "answer"} : Resume(note)) \/ Cancel \/ Courier
        \/ CourierEnds
    BY <1>5, BufferTypes, NoneYet DEF Resume, Persist, KeepNotes, Notes, Cancel, Clear, Courier,
      CourierEnds
  <1>6. CASE StartFails
    <2>1. worker.brief \in SUBSET Notes
      BY <1>6, WorkerParts DEF StartFails, CrewTypes
    <2> QED BY <1>6, <2>1, ReturnTypes DEF StartFails, Spawning
  <1>7. CASE Started
    <2>1. worker.brief \in SUBSET Notes
      BY <1>7, WorkerParts DEF Started, CrewTypes
    <2>2. CASE worker.reserved /\ state \notin RUN_TERMINAL
      BY <1>7, <2>2 DEF Started, Spawning
    <2>3. CASE ~(worker.reserved /\ state \notin RUN_TERMINAL) /\ state \in RUN_TERMINAL
      BY <1>7, <2>1, <2>3 DEF Started, Spawning
    <2>4. CASE ~(worker.reserved /\ state \notin RUN_TERMINAL) /\ state \notin RUN_TERMINAL
      BY <1>7, <2>1, <2>4, ReturnTypes DEF Started, Spawning
    <2> QED BY <2>2, <2>3, <2>4
  <1>8. CASE Register
    <2>1. [stage |-> worker.stage, session |-> worker.session] \in Rows
      BY <1>8, WorkerParts, RowMakes DEF Register, CrewTypes
    <2> QED BY <1>8, <2>1 DEF Register, Persist, KeepNotes, Spawning
  <1>9. CASE FinishContinue
    <2>1. CASE AgainWith("implement")
      BY <1>9, <2>1, AgainTypes DEF FinishContinue, Finish, Stages, CrewTypes
    <2>2. CASE KeepNotes /\ liveFile' = liveFile
      BY <1>9, <2>2 DEF FinishContinue, Finish, KeepNotes
    <2> QED BY <1>9, <2>1, <2>2 DEF FinishContinue, CountedRound
  <1>10. CASE FinishRework
    <2>1. CASE AgainWith("implement")
      BY <1>10, <2>1, AgainTypes DEF FinishRework, Finish, Stages, CrewTypes
    <2>2. CASE KeepNotes /\ liveFile' = liveFile
      BY <1>10, <2>2 DEF FinishRework, Finish, KeepNotes
    <2> QED BY <1>10, <2>1, <2>2 DEF FinishRework, CountedRound
  <1>11. CASE FinishQuota
    <2>1. CASE AgainWith("implement")
      BY <1>11, <2>1, AgainTypes DEF FinishQuota, Finish, Stages, CrewTypes
    <2>2. CASE KeepNotes /\ liveFile' = liveFile
      BY <1>11, <2>2 DEF FinishQuota, Finish, KeepNotes
    <2> QED BY <1>11, <2>1, <2>2 DEF FinishQuota
  <1>12. CASE FinishDeath
    <2>0. finishing.stage \in Stages
      BY <1>12, HandlerParts DEF FinishDeath, Finish, Outcomes, CrewTypes
    <2>1. CASE AgainWith(finishing.stage) /\ owedResume' = NoStage
      BY <1>12, <2>0, <2>1, AgainTypes, StateParts DEF FinishDeath, Finish, CrewTypes
    <2>2. CASE KeepNotes /\ owedResume' = finishing.stage /\ Persist
      BY <1>12, <2>0, <2>2 DEF FinishDeath, Finish, KeepNotes, Persist, MaybeStage
    <2>3. CASE KeepNotes /\ UNCHANGED <<owedResume, liveFile>>
      BY <1>12, <2>3 DEF FinishDeath, Finish, KeepNotes
    <2> QED BY <1>12, <2>1, <2>2, <2>3 DEF FinishDeath
  <1> QED BY <1>1, <1>2, <1>3, <1>4, <1>5, <1>6, <1>7, <1>8, <1>9, <1>10, <1>11, <1>12 DEF Next,
      BootStep, SpawnStep, FinishStep

\* The boot and what it remembers.
LEMMA BootTypesStep ==
    ASSUME Types, Next
    PROVE  BootTypes'
  <1> USE RunRecoveryAssumption DEF Types, BootTypes, boot, observed
  <1>1. CASE Stop \/ Boot \/ Recovered \/ TakeOwed \/ Replay
    BY <1>1, RowParts, StateParts DEF Stop, Boot, Swept, Recovered, InterruptedStage, RuntimeTypes,
      TakeOwed, Owed, Replay
  <1>2. CASE AdmitLive \/ Provisioned \/ ProvisionFails \/ Brief \/ StartFails
    BY <1>2, StateParts DEF AdmitLive, Staff, Spawn, StageFor, Provisioned, Spawning, KeepNotes,
      ProvisionFails, Brief, StartFails
  <1>3. CASE Started \/ Register \/ (\E outcome \in Outcomes : WorkerDone(outcome))
        \/ FinishDone \/ FinishContinue
    BY <1>3, StateParts DEF Started, Spawning, Register, WorkerDone, Success, Persist, FinishDone,
      Finish, Staff, Spawn, KeepNotes, FinishContinue, CountedRound, AgainWith, Buffer, Hold,
      StampOf
  <1>4. CASE FinishRework \/ FinishAsk \/ FinishBlocked \/ FinishQuota \/ FinishDeath
    BY <1>4 DEF FinishRework, Finish, CountedRound, AgainWith, Buffer, Persist, Staff, Spawn, Hold,
      StampOf, KeepNotes, FinishAsk, FinishBlocked, ReadState, FinishQuota, FinishDeath,
      SelfInflicted, ResumesSpent
  <1>5. CASE Watchdog \/ QuestionTimeout \/ Answer \/ Steer \/ NudgeHeard
    BY <1>5 DEF Watchdog, Staff, Spawn, StageFor, Hold, StampOf, QuestionTimeout, Buffer, Persist,
      KeepNotes, Answer, LastStage, Steer, NudgeHeard
  <1>6. CASE NudgeUnheard \/ (\E note \in {"no note", "answer"} : Resume(note)) \/ Cancel
        \/ Courier \/ CourierEnds
    BY <1>6, StateParts DEF NudgeUnheard, Resume, LastStage, Staff, Spawn, Buffer, Persist,
      KeepNotes, Cancel, Clear, Courier, CourierEnds
  <1>7. CASE Die
    <2>1. victim' \in MaybeStage
      BY <1>7, StateParts DEF Die
    <2>2. replaying' \in MaybeStage /\ resumable' \in MaybeStage /\ interrupted' \in MaybeStage
      BY <1>7, StateParts DEF Die
    <2>3. cutShort' \in BOOLEAN
      BY <1>7, Zenon DEF Die
    <2>4. daemon' = "down" /\ shuttingDown' = FALSE /\ restarts' \in 0..MaxRestarts
      BY <1>7 DEF Die
    <2>5. overlapped' \in BOOLEAN
      BY <1>7 DEF Die
    <2> QED BY <2>1, <2>2, <2>3, <2>4, <2>5
  <1> QED BY <1>1, <1>2, <1>3, <1>4, <1>5, <1>6, <1>7 DEF Next, BootStep, SpawnStep, FinishStep

\* The worker, its handler and the timers.
LEMMA CrewTypesStep ==
    ASSUME Types, Next
    PROVE  CrewTypes'
  <1> USE RunRecoveryAssumption DEF Types, CrewTypes, AskBound, crew, human, observed
  <1>1. CASE Stop \/ Boot \/ Recovered \/ TakeOwed \/ Replay
    BY <1>1 DEF Stop, Boot, Swept, Recovered, InterruptedStage, Persist, TakeOwed, Owed, Replay,
      ArmsTimer
  <1>2. CASE AdmitLive \/ ProvisionFails \/ StartFails
    BY <1>2, StaffTypes, StateParts, NoneYet DEF AdmitLive, MaybeStage, ProvisionFails, Spawning,
      StartFails
  <1>3. CASE FinishAsk
    BY <1>3, NoneYet DEF FinishAsk, Finish
  <1>4. CASE FinishBlocked
    BY <1>4, NoneYet DEF FinishBlocked, Finish
  <1>5. CASE Watchdog \/ QuestionTimeout \/ Answer \/ Steer \/ NudgeHeard
    BY <1>5, StaffTypes, StateParts DEF Watchdog, MaybeStage, QuestionTimeout, Stages, Answer,
      Steer, Buffer, Persist, NudgeHeard
  <1>6. CASE NudgeUnheard \/ (\E note \in {"no note", "answer"} : Resume(note)) \/ Courier
        \/ CourierEnds
    BY <1>6, StaffTypes, StateParts, BlockerParts, WorkerParts, WorkerMoves DEF NudgeUnheard,
      Resume, LedgerTypes, MaybeStage, Courier, CourierEnds
  <1>7. CASE Die
    <2>1. orphan' \in {"none", "recorded", "unrecorded"}
      BY <1>7 DEF Die
    <2>2. worker' \in Crew /\ finishing' \in Finishes /\ asked' \in 0..MaxQuestions /\ AskBound'
      BY <1>7, NoneYet DEF Die
    <2>3. quotaFallbacks' \in 0..MaxQuotaFallbacks /\ nudging' = FALSE /\ askTimer' = FALSE /\ couriering' = FALSE
      BY <1>7 DEF Die
    <2> QED BY <2>1, <2>2, <2>3
  <1>8. CASE Provisioned
    <2>1. worker \in Workers /\ worker.brief \in SUBSET Notes
      BY <1>8, WorkerParts DEF Provisioned
    <2> QED BY <1>8, <2>1, WorkerMoves, NoneYet DEF Provisioned, Spawning, Phases
  <1>9. CASE Brief
    <2>1. worker \in Workers /\ (resumable = worker.stage) \in BOOLEAN
      BY <1>9, WorkerParts DEF Brief
    <2>2. CASE worker' = NoWorker
      BY <1>9, <2>2, NoneYet DEF Brief, Spawning
    <2>3. CASE worker' = [worker EXCEPT !.phase = "starting", !.resumed = (resumable = worker.stage), !.brief = steers]
      <3>1. worker' \in Crew
        BY <2>1, <2>3, WorkerMoves DEF Phases, RuntimeTypes
      <3> QED BY <1>9, <3>1 DEF Brief, Spawning
    <2> QED BY <1>9, <2>2, <2>3 DEF Brief
  <1>10. CASE Started
    <2>1. worker \in Workers /\ worker.brief \in SUBSET Notes
      BY <1>10, WorkerParts DEF Started
    <2> QED BY <1>10, <2>1, WorkerMoves, NoneYet DEF Started, Spawning, Phases
  <1>11. CASE Register
    <2>1. worker \in Workers /\ worker.brief \in SUBSET Notes
      BY <1>11, WorkerParts DEF Register
    <2> QED BY <1>11, <2>1, WorkerMoves, NoneYet DEF Register, Spawning, Phases
  <1>12. ASSUME NEW outcome \in Outcomes, WorkerDone(outcome) PROVE CrewTypes'
    <2>1. worker.stage \in Stages
      BY <1>12, WorkerParts DEF WorkerDone
    <2> QED BY <1>12, <2>1, NoneYet DEF WorkerDone, Finishes
  <1>13. CASE FinishDone
    <2>1. asked \in 0..MaxQuestions /\ AskBound' /\ finishing' \in Finishes
      BY <1>13, NoneYet DEF FinishDone, Finish
    <2>2. worker' \in Crew
      BY <1>13, StaffTypes DEF FinishDone, Stages
    <2> QED BY <1>13, <2>1, <2>2 DEF FinishDone, Finish
  <1>14. CASE FinishContinue
    <2>1. asked \in 0..MaxQuestions /\ AskBound' /\ finishing' \in Finishes
      BY <1>14, NoneYet DEF FinishContinue, Finish
    <2>2. worker' \in Crew
      BY <1>14, StaffTypes DEF FinishContinue, CountedRound, AgainWith, Stages
    <2> QED BY <1>14, <2>1, <2>2 DEF FinishContinue, Finish
  <1>15. CASE FinishRework
    <2>1. asked \in 0..MaxQuestions /\ AskBound' /\ finishing' \in Finishes
      BY <1>15, NoneYet DEF FinishRework, Finish
    <2>2. worker' \in Crew
      BY <1>15, StaffTypes DEF FinishRework, CountedRound, AgainWith, Stages
    <2> QED BY <1>15, <2>1, <2>2 DEF FinishRework, Finish
  <1>16. CASE FinishQuota
    <2>1. asked \in 0..MaxQuestions /\ AskBound' /\ finishing' \in Finishes
      BY <1>16, NoneYet DEF FinishQuota, Finish
    <2>2. worker' \in Crew
      BY <1>16, StaffTypes DEF FinishQuota, AgainWith, Stages
    <2> QED BY <1>16, <2>1, <2>2 DEF FinishQuota, Finish
  <1>17. CASE FinishDeath
    <2>1. asked \in 0..MaxQuestions /\ AskBound' /\ finishing' \in Finishes
      BY <1>17, NoneYet DEF FinishDeath, Finish
    <2>2. worker' \in Crew
      BY <1>17, StaffTypes, HandlerParts DEF FinishDeath, Finish, AgainWith, Outcomes
    <2> QED BY <1>17, <2>1, <2>2 DEF FinishDeath, Finish
  <1>18. CASE Cancel
    <2>1. CASE worker.phase = "none"
      <3>1. worker = NoWorker
        BY <2>1 DEF Crew, Workers, Phases
      <3> QED BY <1>18, <2>1, <3>1, NothingReserved DEF Cancel
    <2>2. CASE worker.phase # "none"
      BY <1>18, <2>2, WorkerParts, WorkerMoves, NoneYet DEF Cancel
    <2> QED BY <2>1, <2>2
  <1> QED BY <1>1, <1>2, <1>3, <1>4, <1>5, <1>6, <1>7, <1>8, <1>9, <1>10, <1>11, <1>12, <1>13,
      <1>14, <1>15, <1>16, <1>17, <1>18 DEF Next, BootStep, SpawnStep, FinishStep

-----------------------------------------------------------------------------
(* The parts of the invariant, step by step *)

LEMMA VictimStays ==
    ASSUME VictimRecovers, VictimBooted, Booted,
           UNCHANGED <<daemon, victim, recovered, interrupted>>,
           daemon = "recover" /\ victim # NoStage =>
               UNCHANGED <<state, worker, finishing, askTimer, couriering>>
    PROVE  (VictimDown /\ VictimRecovers /\ VictimBooted)'
  BY DEF VictimDown, VictimRecovers, VictimBooted, Booted

LEMMA StaffStarts ==
    ASSUME NEW s, Staff(s)
    PROVE  worker' = worker \/ worker'.phase = "cutting"
  BY DEF Staff, Spawn, NoWorker

LEMMA StillNot ==
    ASSUME worker \in Crew, worker.phase # "running"
    PROVE  [worker EXCEPT !.reserved = FALSE].phase # "running"
  BY NothingReserved DEF Crew, Workers, NoWorker

LEMMA RowStays ==
    ASSUME RowOfWorker, worker' = worker \/ worker'.phase # "running",
           liveRow' = liveRow \/ liveRow' = NoRow, liveFile' = liveFile \/ liveFile' = liveRow'
    PROVE  RowOfWorker'
  BY DEF RowOfWorker, NoRow

LEMMA SilentStays ==
    ASSUME NoSilentRestart, worker' \in Crew,
           \/ victim' = victim /\ (worker' = worker \/ worker'.phase # "starting")
           \/ victim' = NoStage
    PROVE  NoSilentRestart'
  BY WorkerParts DEF NoSilentRestart

\* Only a death brings the daemon down, and every other step is of a daemon that is up.
LEMMA GoneStep ==
    ASSUME Types, DownQuiet, OrphanOnFile, Next
    PROVE  (DownQuiet /\ OrphanOnFile)'
  <1> USE DEF Types, DownQuiet, OrphanOnFile, CrewTypes, Booted, ledger, runtime, boot, crew, human,
        observed
  <1>1. CASE Stop \/ Boot \/ Recovered \/ TakeOwed \/ Replay
    BY <1>1 DEF Stop, Boot, Swept, Recovered, InterruptedStage, Persist, TakeOwed, Owed, Replay,
      ArmsTimer
  <1>2. CASE AdmitLive \/ Provisioned \/ ProvisionFails \/ Brief \/ StartFails
    BY <1>2 DEF AdmitLive, Staff, Spawn, StageFor, Provisioned, Spawning, KeepNotes, ProvisionFails,
      Brief, Hold, StampOf, Persist, StartFails, Return
  <1>3. CASE Started \/ Register \/ (\E outcome \in Outcomes : WorkerDone(outcome))
        \/ FinishDone \/ FinishContinue
    BY <1>3 DEF Started, Return, Persist, Spawning, Register, KeepNotes, WorkerDone, Success,
      FinishDone, Finish, Staff, Spawn, FinishContinue, CountedRound, AgainWith, Buffer, Hold,
      StampOf
  <1>4. CASE FinishRework \/ FinishAsk \/ FinishBlocked \/ FinishQuota \/ FinishDeath
    BY <1>4 DEF FinishRework, Finish, CountedRound, AgainWith, Buffer, Persist, Staff, Spawn, Hold,
      StampOf, KeepNotes, FinishAsk, FinishBlocked, ReadState, FinishQuota, FinishDeath,
      SelfInflicted, ResumesSpent
  <1>5. CASE Watchdog \/ QuestionTimeout \/ Answer \/ Steer \/ NudgeHeard
    BY <1>5 DEF Watchdog, Staff, Spawn, StageFor, Hold, StampOf, QuestionTimeout, Buffer, Persist,
      KeepNotes, Answer, LastStage, Steer, NudgeHeard
  <1>6. CASE NudgeUnheard \/ (\E note \in {"no note", "answer"} : Resume(note)) \/ Cancel
        \/ Courier \/ CourierEnds
    BY <1>6 DEF NudgeUnheard, Resume, LastStage, Staff, Spawn, Buffer, Persist, KeepNotes, Cancel,
      Clear, Courier, CourierEnds
  <1>7. CASE Die
    <2>1. CASE orphan' = orphan
      BY <1>7, <2>1 DEF Die
    <2>2. CASE orphan' = IF OnFile THEN "recorded" ELSE "unrecorded"
      BY <1>7, <2>2 DEF Die, OnFile
    <2> QED BY <1>7, <2>1, <2>2 DEF Die
  <1> QED BY <1>1, <1>2, <1>3, <1>4, <1>5, <1>6, <1>7 DEF Next, BootStep, SpawnStep, FinishStep

\* A row is written for the worker at work, or taken away.
LEMMA RowStep ==
    ASSUME Types, RowOfWorker, Next
    PROVE  RowOfWorker'
  <1> USE DEF Types, RowOfWorker, ledger, runtime, boot, crew, human, observed
  <1>1. CASE Stop \/ Boot \/ Recovered \/ TakeOwed \/ Replay
    BY <1>1, RowStays, StaffStarts DEF Stop, Boot, Recovered, Persist, TakeOwed, Replay
  <1>2. CASE AdmitLive \/ Started \/ FinishDone \/ FinishContinue \/ FinishRework
    BY <1>2, RowStays, StaffStarts, StartedPhase DEF AdmitLive, runtime, CrewTypes, FinishDone,
      Finish, FinishContinue, CountedRound, AgainWith, Persist, FinishRework
  <1>3. CASE FinishAsk \/ FinishBlocked \/ FinishQuota \/ FinishDeath \/ Watchdog
    BY <1>3, RowStays, StaffStarts DEF FinishAsk, Finish, FinishBlocked, FinishQuota, AgainWith,
      Persist, FinishDeath, Watchdog, runtime
  <1>4. CASE QuestionTimeout \/ Answer \/ Steer \/ NudgeHeard \/ NudgeUnheard
    BY <1>4, RowStays, StaffStarts DEF QuestionTimeout, Persist, Answer, Steer, NudgeHeard,
      NudgeUnheard
  <1>5. CASE (\E note \in {"no note", "answer"} : Resume(note)) \/ CourierEnds
    BY <1>5, RowStays, StaffStarts DEF Resume, Persist, CourierEnds
  <1>6. CASE Die
    <2>1. worker'.phase # "running"
      BY <1>6 DEF Die, NoWorker
    <2> QED BY <2>1
  <1>7. CASE Provisioned
    <2>1. worker \in Workers
      BY <1>7, WorkerParts DEF Provisioned, CrewTypes
    <2>2. worker'.phase = "casting"
      BY <1>7, <2>1 DEF Provisioned, Workers
    <2> QED BY <2>2
  <1>8. CASE ProvisionFails
    <2>1. worker'.phase # "running"
      BY <1>8 DEF ProvisionFails, NoWorker
    <2> QED BY <2>1
  <1>9. CASE Brief
    <2>1. worker'.phase \in {"none", "starting"}
      BY <1>9, BriefCases, BriefedParts DEF CrewTypes, NoWorker
    <2> QED BY <2>1
  <1>10. CASE StartFails
    <2>1. worker'.phase # "running"
      BY <1>10 DEF StartFails, NoWorker
    <2> QED BY <2>1
  <1>11. CASE Register
    <2>1. liveRow'.stage = worker.stage /\ liveFile'.stage = worker.stage
      BY <1>11 DEF Register, Persist
    <2>2. worker \in Workers
      BY <1>11, WorkerParts DEF Register, CrewTypes
    <2>3. worker' = NoWorker \/ worker'.stage = worker.stage
      BY <1>11, <2>2 DEF Register, Workers
    <2> QED BY <2>1, <2>3 DEF NoWorker
  <1>12. ASSUME NEW outcome \in Outcomes, WorkerDone(outcome) PROVE RowOfWorker'
    <2>1. worker'.phase # "running"
      BY <1>12 DEF WorkerDone, NoWorker
    <2> QED BY <2>1
  <1>13. CASE Cancel
    <2>1. CASE worker.phase # "running"
      BY <1>13, <2>1, StillNot, RowStays DEF Cancel, Clear, Persist, CrewTypes
    <2>2. CASE worker.phase = "running"
      BY <1>13, <2>2 DEF Cancel, NoWorker
    <2> QED BY <2>1, <2>2
  <1>14. CASE Courier
    BY <1>14, StillNot, RowStays DEF Courier, Clear, Persist, CrewTypes
  <1> QED BY <1>1, <1>2, <1>3, <1>4, <1>5, <1>6, <1>7, <1>8, <1>9, <1>10, <1>11, <1>12, <1>13,
      <1>14 DEF Next, BootStep, SpawnStep, FinishStep

\* Notes are buffered, briefed, returned, read or dropped, and never just forgotten.
LEMMA NotesStep ==
    ASSUME Types, NotesKept, Next
    PROVE  NotesKept'
  <1> USE DEF Types, NotesKept, ledger, runtime, boot, crew, human, observed
  <1>1. CASE Stop \/ Die \/ Boot \/ Recovered \/ TakeOwed
    BY <1>1 DEF Stop, Die, Alive, Boot, Swept, Recovered, InterruptedStage, Persist, TakeOwed, Owed
  <1>2. CASE Replay \/ AdmitLive \/ Provisioned \/ ProvisionFails \/ StartFails
    BY <1>2 DEF Replay, ArmsTimer, AdmitLive, Staff, Spawn, StageFor, Provisioned, Spawning,
      KeepNotes, ProvisionFails, StartFails, Return, Persist
  <1>3. CASE Started \/ Register \/ (\E outcome \in Outcomes : WorkerDone(outcome))
        \/ FinishDone \/ FinishContinue
    BY <1>3 DEF Started, Return, Persist, Spawning, Register, KeepNotes, WorkerDone, Success,
      FinishDone, Finish, Staff, Spawn, FinishContinue, CountedRound, AgainWith, Buffer, Hold,
      StampOf
  <1>4. CASE FinishRework \/ FinishAsk \/ FinishBlocked \/ FinishQuota \/ FinishDeath
    BY <1>4 DEF FinishRework, Finish, CountedRound, AgainWith, Buffer, Persist, Staff, Spawn, Hold,
      StampOf, KeepNotes, FinishAsk, FinishBlocked, ReadState, FinishQuota, FinishDeath,
      SelfInflicted, ResumesSpent
  <1>5. CASE Watchdog \/ QuestionTimeout \/ Answer \/ Steer \/ NudgeHeard
    BY <1>5 DEF Watchdog, Staff, Spawn, StageFor, Hold, StampOf, QuestionTimeout, Buffer, Persist,
      KeepNotes, Answer, LastStage, Steer, NudgeHeard
  <1>6. CASE NudgeUnheard \/ (\E note \in {"no note", "answer"} : Resume(note)) \/ Cancel
        \/ Courier \/ CourierEnds
    BY <1>6 DEF NudgeUnheard, Resume, LastStage, Staff, Spawn, Buffer, Persist, KeepNotes, Cancel,
      Clear, Courier, CourierEnds
  <1>7. CASE Brief
    <2>1. CASE worker' = NoWorker /\ KeepNotes
      BY <1>7, <2>1 DEF Brief, Spawning, KeepNotes
    <2>2. CASE worker' # NoWorker
      BY <1>7, <2>2, BriefCases, BriefedParts DEF CrewTypes, Brief
    <2> QED BY <1>7, <2>1, <2>2, BriefCases DEF CrewTypes
  <1> QED BY <1>1, <1>2, <1>3, <1>4, <1>5, <1>6, <1>7 DEF Next, BootStep, SpawnStep, FinishStep

\* Whoever opens a question arms its timer, and whoever disarms it closes the question or stops.
LEMMA TimerStep ==
    ASSUME Types, QuestionTimed, Next
    PROVE  QuestionTimed'
  <1> USE DEF Types, QuestionTimed, ledger, runtime, boot, crew, human, observed, Booted
  <1>1. CASE Stop \/ Die \/ Boot \/ Recovered \/ TakeOwed
    BY <1>1 DEF Stop, Die, Alive, Boot, Swept, Recovered, InterruptedStage, Persist, TakeOwed, Owed
  <1>2. CASE Replay \/ AdmitLive \/ Provisioned \/ ProvisionFails \/ Brief
    BY <1>2, StateParts DEF Replay, ArmsTimer, AdmitLive, Staff, Spawn, StageFor, Provisioned,
      Spawning, ProvisionFails, KeepNotes, Brief, Hold, StampOf, Persist
  <1>3. CASE StartFails \/ Started \/ Register
        \/ (\E outcome \in Outcomes : WorkerDone(outcome)) \/ FinishDone
    BY <1>3 DEF StartFails, Return, Persist, Spawning, Started, Register, KeepNotes, WorkerDone,
      Success, FinishDone, Finish, Staff, Spawn
  <1>4. CASE FinishContinue \/ FinishRework \/ FinishAsk \/ FinishBlocked \/ FinishQuota
    BY <1>4, StateParts DEF FinishContinue, Finish, CountedRound, AgainWith, Hold, FinishRework,
      FinishAsk, KeepNotes, FinishBlocked, StampOf, ReadState, FinishQuota
  <1>5. CASE FinishDeath \/ Watchdog \/ QuestionTimeout \/ Answer \/ Steer
    BY <1>5, StateParts DEF FinishDeath, Finish, AgainWith, Hold, Watchdog, Staff, Spawn, StageFor,
      StampOf, QuestionTimeout, LedgerTypes, Answer, Buffer, Persist, LastStage, Steer
  <1>6. CASE NudgeHeard \/ NudgeUnheard \/ (\E note \in {"no note", "answer"} : Resume(note))
        \/ Cancel \/ Courier
    BY <1>6, StateParts DEF NudgeHeard, Persist, NudgeUnheard, Resume, Cancel, Clear, Courier
  <1>7. CASE CourierEnds
    BY <1>7 DEF CourierEnds
  <1> QED BY <1>1, <1>2, <1>3, <1>4, <1>5, <1>6, <1>7 DEF Next, BootStep, SpawnStep, FinishStep

\* The memory of the dead worker's stage moves with the boot.
LEMMA VictimStep ==
    ASSUME Types, DownQuiet, RowOfWorker, VictimDown, VictimRecovers, VictimBooted, Next
    PROVE  (VictimDown /\ VictimRecovers /\ VictimBooted)'
  <1> USE DEF Types, VictimDown, VictimRecovers, VictimBooted, ledger, runtime, boot, crew, human,
        observed, Booted
  <1>1. CASE Stop \/ Boot \/ Recovered \/ TakeOwed \/ Replay
    BY <1>1, VictimStays DEF Stop, Booted, Boot, DownQuiet, NoRow, Recovered, InterruptedStage,
      Persist, TakeOwed, Owed, Replay, ArmsTimer
  <1>2. CASE AdmitLive \/ (\E outcome \in Outcomes : WorkerDone(outcome)) \/ FinishDone
        \/ FinishContinue \/ FinishRework
    BY <1>2, VictimStays DEF AdmitLive, Booted, WorkerDone, NoWorker, FinishDone, Finish, NoFinish,
      FinishContinue, FinishRework
  <1>3. CASE FinishAsk \/ FinishBlocked \/ FinishQuota \/ FinishDeath \/ Watchdog
    BY <1>3, VictimStays DEF FinishAsk, Booted, Finish, NoFinish, FinishBlocked, FinishQuota,
      FinishDeath, Watchdog
  <1>4. CASE QuestionTimeout \/ Answer \/ Steer \/ NudgeHeard \/ NudgeUnheard
    BY <1>4, VictimStays, StateParts DEF QuestionTimeout, Booted, Answer, Steer, NudgeHeard,
      NudgeUnheard
  <1>5. CASE (\E note \in {"no note", "answer"} : Resume(note)) \/ Cancel \/ Courier
        \/ CourierEnds
    BY <1>5, VictimStays, StateParts DEF Resume, Booted, Cancel, Clear, Courier, CourierEnds
  <1>6. CASE Die
    <2>1. CASE OnFile /\ StageFor = worker.stage
      <3>1. worker.stage \in Stages /\ liveFile.stage = worker.stage
        BY <2>1, WorkerParts, RowParts DEF OnFile, CrewTypes, RuntimeTypes, RowOfWorker, Rows, NoRow, Stages, NoStage
      <3>2. state = StateOf(worker.stage)
        BY <2>1, <3>1 DEF StageFor, StateOf, Stages, NoStage
      <3> QED BY <1>6, <2>1, <3>1, <3>2 DEF Die
    <2>2. CASE ~(OnFile /\ StageFor = worker.stage)
      BY <1>6, <2>2 DEF Die
    <2> QED BY <2>1, <2>2
  <1>7. CASE Provisioned
    <2>1. UNCHANGED <<daemon, recovered, interrupted>> /\ Booted /\ (victim' = victim \/ victim' = NoStage)
      BY <1>7 DEF Provisioned, Spawning
    <2>2. worker # NoWorker
      BY <1>7 DEF Provisioned, NoWorker
    <2> QED BY <2>1, <2>2
  <1>8. CASE ProvisionFails
    <2>1. Booted /\ daemon' = daemon /\ recovered' = recovered /\ (victim' = victim \/ victim' = NoStage)
      BY <1>8 DEF ProvisionFails, Spawning
    <2>2. victim' # NoStage => interrupted' = interrupted
      BY <1>8 DEF ProvisionFails, Spawning
    <2>3. worker # NoWorker
      BY <1>8 DEF ProvisionFails, NoWorker
    <2> QED BY <2>1, <2>2, <2>3
  <1>9. CASE Brief
    <2>1. Booted /\ daemon' = daemon /\ recovered' = recovered /\ (victim' = victim \/ victim' = NoStage)
      BY <1>9 DEF Brief, Spawning
    <2>2. victim' # NoStage => interrupted' = interrupted
      BY <1>9 DEF Brief, Spawning
    <2>3. worker # NoWorker
      BY <1>9 DEF Brief, NoWorker
    <2> QED BY <2>1, <2>2, <2>3
  <1>10. CASE StartFails
    <2>1. Booted /\ daemon' = daemon /\ recovered' = recovered /\ (victim' = victim \/ victim' = NoStage)
      BY <1>10 DEF StartFails, Spawning
    <2>2. victim' # NoStage => interrupted' = interrupted
      BY <1>10 DEF StartFails, Spawning
    <2>3. worker # NoWorker
      BY <1>10 DEF StartFails, NoWorker
    <2> QED BY <2>1, <2>2, <2>3
  <1>11. CASE Started
    <2>1. Booted /\ daemon' = daemon /\ recovered' = recovered /\ (victim' = victim \/ victim' = NoStage)
      BY <1>11 DEF Started, Spawning
    <2>2. victim' # NoStage => interrupted' = interrupted
      BY <1>11 DEF Started, Spawning
    <2>3. worker.phase = "starting"
      BY <1>11 DEF Started
    <2>4. worker # NoWorker
      BY <2>3 DEF NoWorker
    <2> QED BY <2>1, <2>2, <2>4
  <1>12. CASE Register
    <2>1. Booted /\ daemon' = daemon /\ recovered' = recovered /\ (victim' = victim \/ victim' = NoStage)
      BY <1>12 DEF Register, Spawning
    <2>2. victim' # NoStage => interrupted' = interrupted
      BY <1>12 DEF Register, Spawning
    <2>3. worker # NoWorker
      BY <1>12 DEF Register, NoWorker
    <2> QED BY <2>1, <2>2, <2>3
  <1> QED BY <1>1, <1>2, <1>3, <1>4, <1>5, <1>6, <1>7, <1>8, <1>9, <1>10, <1>11, <1>12 DEF Next,
      BootStep, SpawnStep, FinishStep

\* A spawn of that stage finds it remembered: its brief resumes the session or parks the run.
LEMMA SilentStep ==
    ASSUME Types, worker' \in Crew, VictimRecovers, VictimBooted, NoSilentRestart, Next
    PROVE  NoSilentRestart'
  <1> USE DEF Types, NoSilentRestart, ledger, runtime, boot, crew, human, observed, Booted
  <1>1. CASE Stop \/ Boot \/ Recovered \/ TakeOwed \/ Replay
    BY <1>1, SilentStays DEF Stop, Boot, Recovered, TakeOwed, Replay
  <1>2. CASE AdmitLive \/ Started \/ FinishDone \/ FinishContinue \/ FinishRework
    BY <1>2, StaffStarts, SilentStays, StartedPhase DEF AdmitLive, CrewTypes, FinishDone, Finish,
      FinishContinue, CountedRound, AgainWith, FinishRework
  <1>3. CASE FinishAsk \/ FinishBlocked \/ FinishQuota \/ FinishDeath \/ Watchdog
    BY <1>3, SilentStays, StaffStarts DEF FinishAsk, Finish, FinishBlocked, FinishQuota, AgainWith,
      FinishDeath, Watchdog
  <1>4. CASE QuestionTimeout \/ Answer \/ Steer \/ NudgeHeard \/ NudgeUnheard
    BY <1>4, StaffStarts, SilentStays DEF QuestionTimeout, Answer, Steer, NudgeHeard, NudgeUnheard
  <1>5. CASE (\E note \in {"no note", "answer"} : Resume(note)) \/ Cancel \/ Courier
        \/ CourierEnds
    BY <1>5, StaffStarts, SilentStays DEF Resume, Cancel, Clear, Courier, CourierEnds
  <1>6. CASE Die
    BY <1>6 DEF Die, NoWorker
  <1>7. CASE Provisioned
    <2>1. worker \in Workers
      BY <1>7, WorkerParts DEF Provisioned, CrewTypes
    <2>2. worker'.phase # "starting"
      BY <1>7, <2>1 DEF Provisioned, Workers, NoWorker
    <2> QED BY <2>2
  <1>8. CASE ProvisionFails
    BY <1>8 DEF ProvisionFails, NoWorker
  <1>9. CASE Brief
    <2>0. SUFFICES ASSUME worker'.phase = "starting", worker'.stage = victim'
               PROVE  worker'.resumed
      OBVIOUS
    <2>1. worker.stage \in Stages /\ worker # NoWorker /\ worker' # NoWorker
      BY <1>9, <2>0, BriefCases DEF CrewTypes, NoWorker
    <2>2. /\ worker'.stage = worker.stage /\ interrupted' = interrupted
          /\ interrupted # worker.stage \/ resumable = worker.stage
          /\ resumable = worker.stage => worker'.resumed
      BY <1>9, <2>1, BriefCases, BriefedParts DEF CrewTypes
    <2>3. victim = worker.stage /\ Booted
      BY <1>9, <2>0, <2>1, <2>2 DEF Brief, Spawning, Stages, NoStage
    <2>4. interrupted = victim
      BY <2>1, <2>3 DEF VictimRecovers, VictimBooted, BootTypes, Stages, NoStage
    <2>5. resumable = worker.stage
      BY <2>2, <2>3, <2>4
    <2> QED BY <2>2, <2>5
  <1>10. CASE StartFails
    BY <1>10 DEF StartFails, NoWorker
  <1>11. CASE Register
    <2>1. worker \in Workers
      BY <1>11, WorkerParts DEF Register, CrewTypes
    <2>2. worker'.phase # "starting"
      BY <1>11, <2>1 DEF Register, Workers, NoWorker
    <2> QED BY <2>2
  <1>12. ASSUME NEW outcome \in Outcomes, WorkerDone(outcome) PROVE NoSilentRestart'
    BY <1>12 DEF WorkerDone, NoWorker
  <1> QED BY <1>1, <1>2, <1>3, <1>4, <1>5, <1>6, <1>7, <1>8, <1>9, <1>10, <1>11, <1>12 DEF Next,
      BootStep, SpawnStep, FinishStep

-----------------------------------------------------------------------------
(* One hand at a time *)

LEMMA IdleParts ==
    /\ \A w \in Crew : w.phase = "none" => w = NoWorker
    /\ NoWorker.phase = "none" /\ NoFinish.outcome = "none" /\ [NoWorker EXCEPT !.reserved = FALSE] = NoWorker
  <1>1. \A w \in Crew : w.phase = "none" => w = NoWorker
    BY DEF Crew, Workers, Phases, NoWorker
  <1>2. NoWorker.phase = "none" /\ NoFinish.outcome = "none"
    BY DEF NoWorker, NoFinish
  <1>3. [NoWorker EXCEPT !.reserved = FALSE] = NoWorker
    <2> DEFINE Idle == [phase : {"none"}, stage : {NoStage}, reserved : {FALSE}, resumed : BOOLEAN,
                        session : BOOLEAN, brief : SUBSET Notes]
    <2>1. \A w \in Idle : [w EXCEPT !.reserved = FALSE] = w
      OBVIOUS
    <2>2. NoWorker \in Idle
      BY DEF NoWorker
    <2> QED BY <2>1, <2>2
  <1> QED BY <1>1, <1>2, <1>3

LEMMA LiveState ==
    \A s : StateOf(s) \notin {"parked", "awaiting_input"}
  BY DEF StateOf

\* Nobody new is at work, and the run is not held while somebody is.
LEMMA AtWorkStays ==
    ASSUME AtWork, overlapped' = overlapped,
           worker' = worker \/ worker' = NoWorker, finishing' = finishing \/ finishing' = NoFinish,
           \/ state' = state \/ state' \notin {"parked", "awaiting_input"}
           \/ worker' = NoWorker /\ finishing' = NoFinish
    PROVE  AtWork'
  BY DEF AtWork

\* Whoever is put to work while no handler is under way is put to work for a live run.
LEMMA AtWorkStaffed ==
    ASSUME finishing' = NoFinish, state' \notin {"parked", "awaiting_input"}
    PROVE  AtWork'
  BY DEF AtWork

LEMMA AtWorkStep ==
    ASSUME Types, AtWork, OverlapLate, Next
    PROVE  AtWork' /\ OverlapLate'
  <1> USE DEF ledger, runtime, boot, crew, human, observed
  <1>1. worker \in Crew /\ finishing \in Finishes /\ overlapped \in BOOLEAN
    BY DEF Types, CrewTypes, BootTypes
  <1>2. CASE Stop \/ Boot \/ Recovered \/ TakeOwed \/ Replay
    <2>1. AtWork'
      BY <1>2, AtWorkStays, LiveState DEF Stop, Boot, Recovered, TakeOwed, Replay
    <2>2. OverlapLate'
      BY <1>2 DEF OverlapLate, Stop, Boot, Recovered, TakeOwed, Replay
    <2> QED BY <2>1, <2>2
  <1>3. CASE Die
    BY <1>3 DEF Die, AtWork, OverlapLate
  <1>4. CASE AdmitLive
    <2>1. ~overlapped /\ finishing' = finishing /\ state' = state /\ daemon' = "up"
      BY <1>4 DEF AdmitLive, OverlapLate
    <2>2. CASE StageFor = NoStage
      BY <1>4, <2>1, <2>2 DEF AdmitLive, AtWork, OverlapLate
    <2>3. CASE StageFor # NoStage /\ finishing # NoFinish
      BY <1>4, <2>1, <2>3 DEF AdmitLive, AtWork, OverlapLate
    <2>4. CASE StageFor # NoStage /\ finishing = NoFinish
      BY <1>4, <2>1, <2>4, AtWorkStaffed DEF StageFor, NoStage, OverlapLate
    <2> QED BY <2>2, <2>3, <2>4
  <1>5. CASE Provisioned \/ ProvisionFails \/ Brief \/ StartFails \/ Started \/ Register
    <2>1. /\ worker # NoWorker /\ finishing' = finishing /\ overlapped' = overlapped
          /\ daemon' = daemon
      BY <1>5, IdleParts DEF Provisioned, ProvisionFails, Brief, StartFails, Started, Register,
        Spawning
    <2>2. OverlapLate'
      BY <2>1 DEF OverlapLate
    <2>3. worker' = NoWorker \/ state' = state \/ state' \notin {"parked", "awaiting_input"}
      <3>1. CASE Provisioned
        BY <3>1, LiveState DEF Provisioned
      <3>2. CASE ProvisionFails \/ StartFails
        BY <3>2 DEF ProvisionFails, StartFails
      <3>3. CASE Brief
        BY <3>3 DEF Brief
      <3>4. CASE Started \/ Register
        BY <3>4 DEF Started, Register
      <3> QED BY <1>5, <3>1, <3>2, <3>3, <3>4
    <2>4. AtWork'
      BY <2>1, <2>3 DEF AtWork
    <2> QED BY <2>2, <2>4
  <1>6. ASSUME NEW outcome \in Outcomes, WorkerDone(outcome) PROVE AtWork' /\ OverlapLate'
    <2>1. worker # NoWorker /\ worker' = NoWorker /\ state' = state
      BY <1>6, IdleParts DEF WorkerDone
    <2>2. overlapped' = overlapped /\ daemon' = daemon
      BY <1>6 DEF WorkerDone
    <2> QED BY <2>1, <2>2 DEF AtWork, OverlapLate
  <1>7. CASE FinishStep
    <2>1. /\ finishing # NoFinish /\ finishing' = NoFinish /\ overlapped' = overlapped
          /\ daemon' = daemon
      <3>1. NoFinish.outcome \notin Outcomes
        BY IdleParts DEF Outcomes
      <3> QED BY <1>7, <3>1 DEF FinishStep, FinishDone, FinishContinue, FinishRework, FinishAsk, FinishBlocked,
            FinishQuota, FinishDeath, Finish, Outcomes
    <2>2. worker' = worker \/ state' \notin {"parked", "awaiting_input"}
      <3>1. CASE FinishDone \/ FinishContinue \/ FinishRework
        BY <3>1, LiveState DEF FinishDone, FinishContinue, FinishRework, CountedRound, AgainWith
      <3>2. CASE FinishAsk \/ FinishBlocked \/ FinishQuota \/ FinishDeath
        BY <3>2, LiveState DEF FinishAsk, FinishBlocked, FinishQuota, FinishDeath, AgainWith
      <3> QED BY <1>7, <3>1, <3>2 DEF FinishStep
    <2>3. AtWork'
      BY <2>1, <2>2 DEF AtWork
    <2> QED BY <2>1, <2>3 DEF OverlapLate
  <1>8. CASE Watchdog
    <2>1. worker = NoWorker /\ finishing = NoFinish
      BY <1>1, <1>8, IdleParts DEF Watchdog, Workerless
    <2>2. /\ finishing' = NoFinish /\ overlapped' = overlapped /\ daemon' = daemon
          /\ worker' = worker \/ (StageFor # NoStage /\ state' = state)
      BY <1>8, <2>1 DEF Watchdog
    <2>3. worker' = worker \/ state' \notin {"parked", "awaiting_input"}
      BY <2>2 DEF StageFor, NoStage
    <2> QED BY <2>1, <2>2, <2>3 DEF AtWork, OverlapLate
  <1>9. CASE QuestionTimeout
    <2>1. finishing' = finishing /\ overlapped' = overlapped /\ daemon' = daemon
      BY <1>9 DEF QuestionTimeout
    <2>2. CASE state = "awaiting_input" /\ question \in {"plain", "default"}
      <3>1. worker' = worker \/ state' = "implementing"
        BY <1>9, <2>2 DEF QuestionTimeout
      <3> QED BY <2>1, <2>2, <3>1 DEF AtWork, OverlapLate
    <2>3. CASE ~(state = "awaiting_input" /\ question \in {"plain", "default"})
      <3>1. worker' = worker /\ state' = state
        BY <1>9, <2>3 DEF QuestionTimeout
      <3> QED BY <2>1, <3>1 DEF AtWork, OverlapLate
    <2> QED BY <2>2, <2>3
  <1>10. CASE Answer \/ (\E note \in {"no note", "answer"} : Resume(note))
    <2>1. /\ finishing' = finishing /\ overlapped' = overlapped /\ daemon' = daemon
          /\ state \in {"parked", "awaiting_input"} /\ state' \notin {"parked", "awaiting_input"}
      BY <1>10, LiveState DEF Answer, Resume
    <2> QED BY <2>1 DEF AtWork, OverlapLate
  <1>11. CASE Steer \/ NudgeHeard \/ NudgeUnheard \/ CourierEnds
    <2>1. /\ finishing' = finishing /\ overlapped' = overlapped /\ daemon' = daemon
          /\ worker' = worker /\ (state' = state \/ state' = "delivered")
      BY <1>11 DEF Steer, NudgeHeard, NudgeUnheard, CourierEnds
    <2> QED BY <2>1 DEF AtWork, OverlapLate
  <1>12. CASE Cancel \/ Courier
    <2>1. finishing' = finishing /\ overlapped' = overlapped /\ daemon' = daemon
      BY <1>12 DEF Cancel, Courier, Clear
    <2>2. worker = NoWorker => worker' = NoWorker
      BY <1>12, IdleParts DEF Cancel, Courier
    <2>3. state' = state \/ state' = "cancelled"
      BY <1>12 DEF Cancel, Courier
    <2> QED BY <2>1, <2>2, <2>3 DEF AtWork, OverlapLate
  <1> QED BY <1>2, <1>3, <1>4, <1>5, <1>6, <1>7, <1>8, <1>9, <1>10, <1>11, <1>12 DEF Next, BootStep,
      SpawnStep

-----------------------------------------------------------------------------
(* The invariant and what follows from it *)

RecoveryInv ==
    /\ Types
    /\ DownQuiet /\ OrphanOnFile
    /\ RowOfWorker
    /\ VictimDown /\ VictimRecovers /\ VictimBooted /\ NoSilentRestart
    /\ NotesKept
    /\ QuestionTimed
    /\ AtWork /\ OverlapLate

LEMMA Initially == Init => RecoveryInv
  <1> SUFFICES ASSUME Init PROVE RecoveryInv
    OBVIOUS
  <1>1. LedgerTypes
    <2>1. counts \in Counts
      BY RunRecoveryAssumption DEF Init, Counts
    <2>2. state \in States /\ blocker \in Blockers
      BY BlockerParts DEF Init, States
    <2> QED BY <2>1, <2>2 DEF Init, LedgerTypes
  <1>2. RuntimeTypes
    BY NoneYet, StateParts DEF Init, RuntimeTypes
  <1>3. BootTypes
    <2>1. 0 \in 0..MaxRestarts
      BY RunRecoveryAssumption
    <2>2. NoStage \in MaybeStage
      BY StateParts
    <2> QED BY <2>1, <2>2 DEF Init, BootTypes
  <1>4. CrewTypes
    <2>1. 0 \in 0..MaxQuestions /\ 0 \in 0..MaxQuotaFallbacks
      BY RunRecoveryAssumption
    <2>2. worker \in Crew /\ finishing \in Finishes /\ AskBound
      BY NoneYet DEF Init, AskBound
    <2> QED BY <2>1, <2>2 DEF Init, CrewTypes
  <1>5. DownQuiet /\ OrphanOnFile /\ RowOfWorker
    BY DEF Init, DownQuiet, OrphanOnFile, RowOfWorker, NoWorker
  <1>6. VictimDown /\ VictimRecovers /\ VictimBooted /\ NoSilentRestart
    BY DEF Init, VictimDown, VictimRecovers, VictimBooted, NoSilentRestart, NoWorker
  <1>7. NotesKept /\ QuestionTimed
    BY DEF Init, NotesKept, QuestionTimed
  <1>8. AtWork /\ OverlapLate
    BY DEF Init, AtWork, OverlapLate
  <1> QED BY <1>1, <1>2, <1>3, <1>4, <1>5, <1>6, <1>7, <1>8 DEF RecoveryInv, Types

LEMMA Steps == RecoveryInv /\ [Next]_vars => RecoveryInv'
  <1>1. ASSUME RecoveryInv, Next PROVE RecoveryInv'
    <2>1. Types'
      BY <1>1, LedgerTypesStep, RuntimeTypesStep, BootTypesStep, CrewTypesStep DEF RecoveryInv, Types
    <2>2. (DownQuiet /\ OrphanOnFile)'
      BY <1>1, GoneStep DEF RecoveryInv
    <2>3. RowOfWorker'
      BY <1>1, RowStep DEF RecoveryInv
    <2>4. (VictimDown /\ VictimRecovers /\ VictimBooted)'
      BY <1>1, VictimStep DEF RecoveryInv
    <2>5. NoSilentRestart'
      BY <1>1, <2>1, SilentStep DEF RecoveryInv, Types, CrewTypes
    <2>6. NotesKept' /\ QuestionTimed'
      BY <1>1, NotesStep, TimerStep DEF RecoveryInv
    <2>7. (AtWork /\ OverlapLate)'
      BY <1>1, AtWorkStep DEF RecoveryInv
    <2> QED BY <2>1, <2>2, <2>3, <2>4, <2>5, <2>6, <2>7 DEF RecoveryInv
  <1>2. ASSUME RecoveryInv, UNCHANGED vars PROVE RecoveryInv'
    <2> USE <1>2 DEF RecoveryInv, Types, vars, ledger, runtime, boot, crew, human, observed
    <2>1. LedgerTypes' /\ RuntimeTypes'
      BY DEF LedgerTypes, RuntimeTypes
    <2>2. BootTypes' /\ CrewTypes'
      BY DEF BootTypes, CrewTypes, AskBound
    <2>3. (DownQuiet /\ OrphanOnFile /\ RowOfWorker)'
      BY DEF DownQuiet, OrphanOnFile, RowOfWorker
    <2>4. (VictimDown /\ VictimRecovers /\ VictimBooted /\ NoSilentRestart)'
      BY DEF VictimDown, VictimRecovers, VictimBooted, NoSilentRestart
    <2>5. (NotesKept /\ QuestionTimed)'
      BY DEF NotesKept, QuestionTimed
    <2>6. (AtWork /\ OverlapLate)'
      BY DEF AtWork, OverlapLate
    <2> QED BY <2>1, <2>2, <2>3, <2>4, <2>5, <2>6
  <1> QED BY <1>1, <1>2

LEMMA Invariance == Spec => []RecoveryInv
  <1> QED BY Initially, Steps, PTL DEF Spec

\* The fields of the run and of the daemon keep their ranges: in particular no counter passes its
\* cap and no worker asks more questions than the bound lets it.
THEOREM TypeCorrect == Spec => []TypeOK
  <1>1. RecoveryInv => TypeOK
    BY TypesMeans DEF RecoveryInv
  <1> QED BY <1>1, Invariance, PTL

\* A note that was accepted and not read is buffered, in the brief of the worker that starts, or
\* died with a daemon or a park during that start (takeSteers, returnSteers and the death of the
\* daemon between them).
THEOREM NotesCorrect == Spec => []NotesKept
  <1>1. RecoveryInv => NotesKept
    BY DEF RecoveryInv
  <1> QED BY <1>1, Invariance, PTL

\* An open question has its timer once the boot has re-armed it (start() after requeueOwedStages).
THEOREM QuestionCorrect == Spec => []QuestionTimed
  <1>1. RecoveryInv => QuestionTimed
    BY DEF RecoveryInv
  <1> QED BY <1>1, Invariance, PTL

\* For any number of daemons, the stage whose recorded worker died with one is resumed or parked,
\* never started from scratch (recoverFromCrash and doSpawn).
THEOREM RestartCorrect == Spec => []NoSilentRestart
  <1>1. RecoveryInv => NoSilentRestart
    BY DEF RecoveryInv
  <1> QED BY <1>1, Invariance, PTL

\* For any number of daemons, one hand at a time works on a run: a worker is put to work only when
\* the recorded process of the last daemon is gone (sweepOrphan before everything that awaits), and
\* never beside a finish handler but by the admission that ends a boot (start(), line 547).
THEOREM AloneCorrect == Spec => []WorkedAlone
  <1>1. RecoveryInv => OneProcess
    BY DEF RecoveryInv, DownQuiet, OrphanOnFile, OneProcess, NoWorker
  <1>2. RecoveryInv => (~overlapped => FinishAlone)
    BY DEF RecoveryInv, AtWork, FinishAlone
  <1> QED BY <1>1, <1>2, Invariance, PTL DEF WorkedAlone

-----------------------------------------------------------------------------
(* What a parked run is owed.  The debts change hands only where somebody is at *)
(* work for the run, which AtWork denies for a parked one, or in the boot.      *)

LEMMA DebtStep ==
    ASSUME Types, AtWork, Next, state = "parked", Debt # NoStage, ~overlapped
    PROVE  \/ Debt' = Debt
           \/ state' = StateOf(Debt)
           \/ daemon' = "down" /\ replaying # NoStage
  <1> USE DEF ledger, runtime, boot, crew, human, observed
  <1>1. worker = NoWorker /\ finishing = NoFinish
    BY DEF AtWork
  <1>2. worker.phase = "none" /\ finishing.outcome = "none"
    BY <1>1, IdleParts
  <1> DEFINE Owes == owedResume' = owedResume /\ replaying' = replaying
  <1>3. Owes => Debt' = Debt
    BY DEF Debt
  <1> HIDE DEF Owes
  <1>4. CASE Die
    <2>1. owedResume' = owedResume /\ replaying' = NoStage /\ daemon' = "down"
      BY <1>4 DEF Die
    <2> QED BY <2>1 DEF Debt
  <1>5. CASE TakeOwed
    <2>1. owedResume # NoStage /\ owedResume' = NoStage /\ replaying' = owedResume
      BY <1>5 DEF TakeOwed, Owed
    <2> QED BY <2>1 DEF Debt
  <1>6. CASE Replay
    BY <1>6 DEF Replay, Debt
  <1>7. CASE Stop \/ Boot \/ Recovered \/ AdmitLive
    <2>1. Owes
      BY <1>7 DEF Stop, Boot, Recovered, AdmitLive, Owes
    <2> QED BY <1>3, <2>1
  <1>8. ~SpawnStep
    BY <1>2 DEF SpawnStep, Provisioned, ProvisionFails, Brief, StartFails, Started, Register
  <1>9. \A outcome \in Outcomes : ~WorkerDone(outcome)
    BY <1>2 DEF WorkerDone
  <1>10. ~FinishStep
    BY <1>2 DEF FinishStep, FinishDone, FinishContinue, FinishRework, FinishAsk, FinishBlocked,
      FinishQuota, FinishDeath, Finish
  <1>11. CASE Watchdog \/ QuestionTimeout \/ Answer \/ Steer \/ NudgeHeard \/ NudgeUnheard
    <2>1. Owes
      BY <1>11 DEF Watchdog, QuestionTimeout, Answer, Steer, NudgeHeard, NudgeUnheard, Owes
    <2> QED BY <1>3, <2>1
  <1>12. CASE (\E note \in {"no note", "answer"} : Resume(note)) \/ Cancel \/ Courier \/ CourierEnds
    <2>1. Owes
      BY <1>12 DEF Resume, Cancel, Courier, Clear, CourierEnds, Owes
    <2> QED BY <1>3, <2>1
  <1> QED BY <1>4, <1>5, <1>6, <1>7, <1>8, <1>9, <1>10, <1>11, <1>12 DEF Next, BootStep

\* The safety half of OwedResumed, for any number of daemons and requests: what a parked run is owed
\* goes from owedResumes to the replay and from there to the run (requeueOwedStages), unless a
\* daemon dies between the two.
THEOREM DebtCorrect == Spec => DebtKept
  <1>1. RecoveryInv /\ [Next]_vars =>
          [state = "parked" /\ Debt # NoStage /\ ~overlapped =>
             \/ Debt' = Debt
             \/ state' = StateOf(Debt)
             \/ daemon' = "down" /\ replaying # NoStage]_vars
    BY DebtStep DEF RecoveryInv
  <1> QED BY <1>1, Invariance, PTL DEF Spec, DebtKept

=============================================================================
