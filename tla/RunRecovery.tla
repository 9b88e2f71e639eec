---------------------------- MODULE RunRecovery ----------------------------
(***************************************************************************)
(* One run and the daemon that may die under it (src/src/run/supervisor.ts): *)
(* the questions a worker asks and their timer, the notes that wait for the *)
(* next worker, what a worker's death owes the run, and what a restarted    *)
(* daemon remembers from live-runs.json.  One spawn, its worker and its     *)
(* finish handler at a time: overlapping ones, the cap and the pause are in *)
(* Staffing.                                                                *)
(***************************************************************************)
EXTENDS Naturals

CONSTANTS
    AutoResumeMax,     \* runs.auto_resume_max
    ContinuationMax,   \* runs.continuation_max
    ReviewCyclesMax,   \* runs.review_cycles_max
    MaxQuotaFallbacks, \* MAX_QUOTA_FALLBACKS
    MaxRestarts,       \* bound: daemons after the first
    MaxQuestions,      \* bound: questions the workers ask
    Requests           \* what people may ask for, a subset of AllRequests

AllRequests == {"steer", "answer", "resume", "cancel", "courier"}

ASSUME RunRecoveryAssumption ==
    /\ AutoResumeMax \in Nat /\ ContinuationMax \in Nat /\ ReviewCyclesMax \in Nat
    /\ MaxQuotaFallbacks \in Nat /\ MaxRestarts \in Nat /\ MaxQuestions \in Nat
    /\ Requests \subseteq AllRequests

VARIABLES
    state,        \* Run.state; "publishing" and "delivered" leave this module
    blocker,      \* Run.blocker: its cause and the stage hold() stamped on it
    question,     \* Run.question: "none", "plain" or "default" (has a default answer)
    counts,       \* Run.autoResumes, continuations, reviewCycles
    reviewed,     \* Run.sessionIds has a review session
    steers,       \* pendingSteers, in memory and in live-runs.json
    owedResume,   \* owedResumes, in memory and in live-runs.json
    liveRow,      \* liveLedger: the worker that is on record
    liveFile,     \* ... and as live-runs.json has it
    daemon,       \* where the daemon's boot is
    shuttingDown,
    replaying,    \* the stage that requeueOwedStages is about to write
    recovered,    \* the row that the constructor read
    resumable, interrupted,   \* the boot's memory of the worker that died with the last daemon
    askTimer,     \* the run's answer timer is armed
    worker,       \* the spawn under way or the worker
    finishing,    \* onWorkerDone's handler
    quotaFallbacks,
    couriering,   \* courier() awaits its proof
    nudging,      \* steer() has a nudge under way
    orphan,       \* a process of the last daemon is still running, and is on record or not
    asked, restarts,
    unheard,      \* observed: notes that were accepted and no worker has read
    dropped,      \* observed: notes that died in a spawn, with the daemon or as the run was parked
    cutShort,     \* observed: a daemon died while it replayed what it owed
    overlapped,   \* observed: this daemon's boot staffed the run beside its finish handler
    victim        \* observed: the stage of a live run whose recorded worker died with the last daemon

ledger == <<state, blocker, question, counts, reviewed>>
runtime == <<steers, owedResume, liveRow, liveFile>>
boot == <<daemon, shuttingDown, replaying, recovered, resumable, interrupted, overlapped>>
crew == <<worker, finishing, quotaFallbacks, nudging, orphan>>
human == <<askTimer, couriering>>
observed == <<asked, restarts, unheard, dropped, cutShort, victim>>
vars == <<ledger, runtime, boot, crew, human, observed>>

Stages == {"implement", "review"}
NoStage == "none"

\* A person's note, the answer to a question, and the supervisor's own notes.
Notes == {"steer", "answer", "findings"}

States == {"implementing", "reviewing", "awaiting_input", "parked", "publishing",
           "delivered", "cancelled"}
RUN_FINAL == {"cancelled"}
RUN_TERMINAL == RUN_FINAL \cup {"parked"}

NoBlocker == [cause |-> "none", stage |-> NoStage]
Causes == {"question", "decision", "external", "shutdown", "capped", "interrupted", "wedged"}

NoRow == [stage |-> NoStage, session |-> FALSE]
Rows == [stage : Stages, session : BOOLEAN] \cup {NoRow}

Phases == {"cutting", "casting", "starting", "registering", "running"}
NoWorker == [phase |-> "none", stage |-> NoStage, reserved |-> FALSE, resumed |-> FALSE,
             session |-> FALSE, brief |-> {}]

Outcomes == {"done", "continue", "ask", "askDefault", "blocked", "rework",
             "timeout", "external", "quota"}
Success == Outcomes \ {"timeout", "external", "quota"}
NoFinish == [stage |-> NoStage, outcome |-> "none"]

TypeOK ==
    /\ state \in States
    /\ blocker \in [cause : Causes \cup {"none"}, stage : Stages \cup {NoStage}]
    /\ question \in {"none", "plain", "default"}
    /\ counts \in [auto : 0..AutoResumeMax, continued : 0..ContinuationMax,
                   cycles : 0..ReviewCyclesMax]
    /\ reviewed \in BOOLEAN
    /\ steers \subseteq Notes
    /\ owedResume \in Stages \cup {NoStage}
    /\ liveRow \in Rows /\ liveFile \in Rows /\ recovered \in Rows
    /\ daemon \in {"down", "recover", "replay", "publishes", "up"}
    /\ shuttingDown \in BOOLEAN
    /\ replaying \in Stages \cup {NoStage}
    /\ resumable \in Stages \cup {NoStage} /\ interrupted \in Stages \cup {NoStage}
    /\ askTimer \in BOOLEAN
    /\ worker \in [phase : Phases, stage : Stages, reserved : BOOLEAN, resumed : BOOLEAN,
                   session : BOOLEAN, brief : SUBSET Notes] \cup {NoWorker}
    /\ finishing \in [stage : Stages, outcome : Outcomes] \cup {NoFinish}
    /\ quotaFallbacks \in 0..MaxQuotaFallbacks
    /\ couriering \in BOOLEAN /\ nudging \in BOOLEAN
    /\ orphan \in {"none", "recorded", "unrecorded"}
    /\ asked \in 0..MaxQuestions /\ restarts \in 0..MaxRestarts
    /\ unheard \subseteq Notes /\ dropped \subseteq Notes
    /\ cutShort \in BOOLEAN /\ overlapped \in BOOLEAN /\ victim \in Stages \cup {NoStage}

Init ==
    /\ state = "implementing" /\ blocker = NoBlocker /\ question = "none"
    /\ counts = [auto |-> 0, continued |-> 0, cycles |-> 0] /\ reviewed = FALSE
    /\ steers = {} /\ owedResume = NoStage /\ liveRow = NoRow /\ liveFile = NoRow
    /\ recovered = NoRow
    /\ daemon = "up" /\ shuttingDown = FALSE /\ replaying = NoStage
    /\ resumable = NoStage /\ interrupted = NoStage
    /\ askTimer = FALSE /\ worker = NoWorker /\ finishing = NoFinish
    /\ quotaFallbacks = 0 /\ couriering = FALSE /\ nudging = FALSE /\ orphan = "none"
    /\ asked = 0 /\ restarts = 0 /\ unheard = {} /\ dropped = {} /\ cutShort = FALSE
    /\ overlapped = FALSE
    /\ victim = NoStage

---------------------------------------------------------------------------
(* What the handlers share *)

Booted == daemon # "down"

StateOf(stage) == IF stage = "implement" THEN "implementing" ELSE "reviewing"

StageFor == IF state = "implementing" THEN "implement"
            ELSE IF state = "reviewing" THEN "review" ELSE NoStage

\* The stage hold() stamps: that of the state the caller read, none for a run that awaits input.
StampOf(read) == IF read = "implementing" THEN "implement"
                 ELSE IF read = "reviewing" THEN "review" ELSE NoStage

\* sessionIds keeps its keys in the order they were first set.
LastStage == IF reviewed THEN "review" ELSE "implement"

Spawn(stage) == [NoWorker EXCEPT !.phase = "cutting", !.stage = stage, !.reserved = TRUE]

\* spawnGuarded: a run that is staffed already keeps what it has.  A spawn that lost its
\* reservation is taken to retire first.
Staff(stage) == worker' = IF worker.phase = "none" THEN Spawn(stage) ELSE worker

Hold(cause, read) ==
    /\ state' = "parked"
    /\ blocker' = [cause |-> cause, stage |-> StampOf(read)]

\* persistRuntimeState: whoever changes the notes or the debts rewrites the whole file.
Persist == liveFile' = liveRow'

\* bufferSteer
Buffer(note) ==
    /\ steers' = steers \cup {note}
    /\ unheard' = unheard \cup {note}
    /\ dropped' = dropped \ {note}

KeepNotes == UNCHANGED <<steers, unheard, dropped>>

---------------------------------------------------------------------------
(* The daemon: shutdown, death, boot *)

\* stop(): from here on a worker's death is the restart's doing.
Stop ==
    /\ daemon = "up" /\ ~shuttingDown /\ restarts < MaxRestarts
    /\ shuttingDown' = TRUE /\ askTimer' = FALSE
    /\ UNCHANGED <<ledger, runtime, daemon, replaying, recovered, resumable, interrupted,
                   overlapped, crew, couriering, observed>>

\* The worker's process is there, and it is on record.
Alive == worker.phase \in {"starting", "registering", "running"}
OnFile == worker.phase = "running" /\ liveFile # NoRow

\* onQuestionTimeout parks a run in two writes of the ledger: the question first.
HalfParked == state = "awaiting_input" /\ question = "plain" /\ askTimer

\* The process ends, stopped or not, and the worker's own process may live on.  Between the two
\* writes of a question's timeout it leaves a run that waits for no answer.

Die ==
    /\ Booted /\ restarts < MaxRestarts
    /\ restarts' = restarts + 1
    /\ daemon' = "down" /\ shuttingDown' = FALSE /\ overlapped' = FALSE
    /\ replaying' = NoStage /\ cutShort' = (cutShort \/ replaying # NoStage)
    /\ recovered' = NoRow /\ resumable' = NoStage /\ interrupted' = NoStage
    /\ askTimer' = FALSE /\ couriering' = FALSE
    /\ worker' = NoWorker /\ finishing' = NoFinish /\ quotaFallbacks' = 0 /\ nudging' = FALSE
    /\ liveRow' = NoRow
    /\ \/ orphan' = orphan
       \/ Alive /\ orphan' = IF OnFile THEN "recorded" ELSE "unrecorded"
    /\ dropped' = dropped \cup (IF worker.phase = "starting"
                                THEN worker.brief \cap unheard ELSE {})
    /\ victim' = IF OnFile /\ StageFor = worker.stage THEN worker.stage ELSE NoStage
    /\ question' \in {question} \cup IF HalfParked THEN {"none"} ELSE {}
    /\ UNCHANGED <<state, blocker, counts, reviewed, steers, owedResume, liveFile, asked, unheard>>

\* sweepOrphan: the process of a row on file; the mutant sweeps only what can be resumed.
SweptResumable == liveFile.session /\ orphan = "recorded"
Swept == liveFile # NoRow /\ orphan = "recorded"

\* The constructor loads live-runs.json; start() sweeps the recorded process at once and then
\* awaits the commit of what it left.
Boot ==
    /\ daemon = "down"
    /\ daemon' = IF liveFile = NoRow THEN "replay" ELSE "recover"
    /\ orphan' = IF Swept THEN "none" ELSE orphan
    /\ recovered' = liveFile
    /\ UNCHANGED <<ledger, runtime, shuttingDown, replaying, resumable, interrupted, overlapped,
                   worker, finishing, quotaFallbacks, nudging, human, observed>>

\* Every row on file is remembered; the mutant remembers those with a session.
InterruptedResumable == IF recovered.session THEN recovered.stage ELSE NoStage
InterruptedStage == recovered.stage

\* recoverFromCrash ends: the row is forgotten on file too.
Recovered ==
    /\ daemon = "recover"
    /\ daemon' = "replay"
    /\ interrupted' = InterruptedStage
    /\ resumable' = IF recovered.session THEN recovered.stage ELSE resumable
    /\ recovered' = NoRow
    /\ liveRow' = NoRow /\ Persist
    /\ UNCHANGED <<ledger, steers, owedResume, shuttingDown, replaying, overlapped, crew, human,
                   observed>>

\* A run that is no longer parked moved on without its debt.
OwedLive == IF state \notin RUN_TERMINAL THEN owedResume ELSE NoStage
Owed == IF state = "parked" THEN owedResume ELSE NoStage

\* requeueOwedStages clears and persists what it owes, then writes the run ...
TakeOwed ==
    /\ daemon = "replay" /\ owedResume # NoStage
    /\ owedResume' = NoStage
    /\ replaying' = Owed
    /\ liveRow' = liveRow /\ Persist
    /\ UNCHANGED <<ledger, steers, daemon, shuttingDown, recovered, resumable, interrupted,
                   overlapped, crew, human, observed>>

\* The daemon's predecessor took the timer with it.
ArmsNothing == askTimer' = askTimer
ArmsTimer == askTimer' = (askTimer \/ (state' = "awaiting_input" /\ question # "none"))

\* ... and start() arms the timer of a question that is still open.
Replay ==
    /\ daemon = "replay" /\ owedResume = NoStage
    /\ daemon' = "publishes"
    /\ IF replaying = NoStage
       THEN UNCHANGED <<state, blocker>>
       ELSE state' = StateOf(replaying) /\ blocker' = NoBlocker
    /\ replaying' = NoStage
    /\ ArmsTimer
    /\ UNCHANGED <<question, counts, reviewed, runtime, shuttingDown, recovered, resumable,
                   interrupted, overlapped, crew, couriering, observed>>

\* After the outbox's drain every live run is admitted.
AdmitLive ==
    /\ daemon = "publishes"
    /\ daemon' = "up"
    /\ IF StageFor # NoStage THEN Staff(StageFor) ELSE worker' = worker
    /\ overlapped' = (StageFor # NoStage /\ finishing # NoFinish)
    /\ UNCHANGED <<ledger, runtime, shuttingDown, replaying, recovered, resumable, interrupted,
                   finishing, quotaFallbacks, nudging, orphan, human, observed>>

---------------------------------------------------------------------------
(* A spawn: doSpawn cut at its awaits *)

Spawning ==
    /\ Booted
    /\ victim' = IF interrupted' # interrupted \/ worker'.phase = "registering"
                 THEN NoStage ELSE victim
    /\ UNCHANGED <<daemon, shuttingDown, replaying, recovered, overlapped, human, asked, restarts,
                   cutShort, finishing, quotaFallbacks, orphan>>

\* The worktree is there; the state is written whatever it has become.
Provisioned ==
    /\ worker.phase = "cutting"
    /\ worker' = [worker EXCEPT !.phase = "casting"]
    /\ state' = StateOf(worker.stage)
    /\ KeepNotes
    /\ UNCHANGED <<blocker, question, counts, reviewed, owedResume, liveRow, liveFile,
                   resumable, interrupted, nudging>>
    /\ Spawning

\* noteSpawnFailure: the run stays live, without a worker.
ProvisionFails ==
    /\ worker.phase = "cutting"
    /\ worker' = NoWorker
    /\ KeepNotes
    /\ UNCHANGED <<ledger, owedResume, liveRow, liveFile, resumable, interrupted, nudging>>
    /\ Spawning

\* The dead worker's session is resumed, once; without one the run is parked.  Else the notes
\* that wait are taken off the file and go into the brief.
Brief ==
    /\ worker.phase = "casting"
    /\ LET resumes == resumable = worker.stage
       IN  /\ resumable' = IF resumes THEN NoStage ELSE resumable
           /\ IF interrupted = worker.stage /\ ~resumes
              THEN /\ interrupted' = NoStage
                   /\ Hold("interrupted", StateOf(worker.stage))
                   /\ worker' = NoWorker
                   /\ KeepNotes
                   /\ UNCHANGED <<liveRow, liveFile>>
              ELSE /\ worker' = [worker EXCEPT !.phase = "starting", !.resumed = resumes,
                                               !.brief = steers]
                   /\ steers' = {}
                   /\ liveRow' = liveRow
                   /\ IF steers = {} THEN liveFile' = liveFile ELSE Persist
                   /\ UNCHANGED <<state, blocker, interrupted, unheard, dropped>>
    /\ UNCHANGED <<question, counts, reviewed, owedResume, nudging>>
    /\ Spawning

ReturnNothing(notes) == UNCHANGED <<steers, liveRow, liveFile>>

\* returnSteers: what no worker read goes back in front.
Return(notes) ==
    /\ steers' = steers \cup notes
    /\ liveRow' = liveRow
    /\ IF notes = {} THEN liveFile' = liveFile ELSE Persist

StartFails ==
    /\ worker.phase = "starting"
    /\ Return(worker.brief)
    /\ worker' = NoWorker
    /\ UNCHANGED <<ledger, owedResume, resumable, interrupted, nudging, unheard, dropped>>
    /\ Spawning

\* The worker is up: it is registered, or discarded when nobody wants it any more.
Started ==
    /\ worker.phase = "starting"
    /\ interrupted' = NoStage
    /\ IF worker.reserved /\ state \notin RUN_TERMINAL
       THEN /\ \E session \in BOOLEAN :
                  /\ worker' = [worker EXCEPT !.phase = "registering", !.session = session]
                  /\ reviewed' = (reviewed \/ (session /\ worker.stage = "review"))
            /\ unheard' = unheard \ worker.brief
            /\ UNCHANGED <<steers, liveRow, liveFile, dropped>>
       ELSE /\ worker' = NoWorker
            /\ IF state \in RUN_TERMINAL
               THEN /\ dropped' = dropped \cup (worker.brief \cap unheard)
                    /\ UNCHANGED <<steers, liveRow, liveFile>>
               ELSE Return(worker.brief) /\ UNCHANGED dropped
            /\ UNCHANGED <<reviewed, unheard>>
    /\ UNCHANGED <<state, blocker, question, counts, owedResume, resumable, nudging>>
    /\ Spawning

\* After the ledger's session id: the live row, on file.  A worker that a cancel took meanwhile
\* is put on record all the same.
Register ==
    /\ worker.phase = "registering"
    /\ liveRow' = [stage |-> worker.stage, session |-> worker.session]
    /\ Persist
    /\ worker' = IF worker.reserved THEN [worker EXCEPT !.phase = "running"] ELSE NoWorker
    /\ KeepNotes
    /\ UNCHANGED <<ledger, owedResume, resumable, interrupted, nudging>>
    /\ Spawning

---------------------------------------------------------------------------
(* A worker ends, and its finish handler *)

\* onWorkerDone until its handler awaits.  A success pays what the run owed; a note that the
\* worker held unread goes back to the buffer, where steer() left its copy.
WorkerDone(outcome) ==
    /\ Booted /\ worker.phase = "running" /\ finishing = NoFinish /\ state \notin RUN_FINAL
    /\ outcome \in IF worker.stage = "implement" THEN Outcomes \ {"rework"}
                   ELSE {"done", "rework", "blocked", "timeout", "external"}
    /\ outcome \in {"ask", "askDefault"} => asked < MaxQuestions
    /\ worker' = NoWorker
    /\ finishing' = [stage |-> worker.stage, outcome |-> outcome]
    /\ owedResume' = IF outcome \in Success THEN NoStage ELSE owedResume
    /\ liveRow' = NoRow /\ Persist
    /\ UNCHANGED <<ledger, steers, boot, quotaFallbacks, nudging, orphan, human, observed>>

\* The handler's await is over: every branch writes the state, whatever it has become.
Finish(outcomes) ==
    /\ Booted /\ finishing.outcome \in outcomes
    /\ finishing' = NoFinish
    /\ UNCHANGED <<boot, liveRow, nudging, orphan, couriering, restarts, cutShort,
                   victim, reviewed>>

ReadState == StateOf(finishing.stage)

\* The worker was done: on to review, or to the publish (at once for a self-reviewed run).
FinishDone ==
    /\ Finish({"done"})
    /\ \/ /\ finishing.stage = "implement"
          /\ state' = "reviewing"
          /\ Staff("review")
       \/ /\ state' = "publishing"
          /\ worker' = worker
    /\ KeepNotes
    /\ UNCHANGED <<blocker, question, counts, owedResume, liveFile, quotaFallbacks, askTimer,
                   asked>>

\* Another pass in the implement stage, with a note that says why.
AgainWith(stage) ==
    /\ Buffer("findings") /\ Persist
    /\ state' = StateOf(stage)
    /\ Staff(stage)

\* continueImplement and finishReview's rework: counted, and parked for a person at the cap.  A
\* resumed run counts on from there; only whether the cap is reached is kept.
CountedRound(field, cap) ==
    LET n == counts[field] + 1
    IN  /\ counts' = [counts EXCEPT ![field] = IF n > cap THEN cap ELSE n]
        /\ IF n >= cap
           THEN /\ Hold("decision", state)
                /\ worker' = worker
                /\ KeepNotes
                /\ liveFile' = liveFile
           ELSE AgainWith("implement") /\ blocker' = blocker

FinishContinue ==
    /\ Finish({"continue"})
    /\ CountedRound("continued", ContinuationMax)
    /\ UNCHANGED <<question, owedResume, quotaFallbacks, askTimer, asked>>

FinishRework ==
    /\ Finish({"rework"})
    /\ CountedRound("cycles", ReviewCyclesMax)
    /\ UNCHANGED <<question, owedResume, quotaFallbacks, askTimer, asked>>

\* askRunQuestion
FinishAsk ==
    /\ Finish({"ask", "askDefault"})
    /\ state' = "awaiting_input"
    /\ question' = IF finishing.outcome = "ask" THEN "plain" ELSE "default"
    /\ asked' = asked + 1
    /\ askTimer' = TRUE
    /\ KeepNotes
    /\ UNCHANGED <<blocker, counts, owedResume, liveFile, quotaFallbacks, worker>>

\* A blocker of another class, or a review without a verdict.
FinishBlocked ==
    /\ Finish({"blocked"})
    /\ Hold("decision", ReadState)
    /\ KeepNotes
    /\ UNCHANGED <<question, counts, owedResume, liveFile, quotaFallbacks, worker, askTimer,
                   asked>>

\* handleQuotaFallback: the work moves to claude once; both seats spent, or twice, is a park.
\* A shutdown takes the ordinary road below.
FinishQuota ==
    /\ Finish({"quota"}) /\ ~shuttingDown
    /\ \/ /\ quotaFallbacks < MaxQuotaFallbacks
          /\ quotaFallbacks' = quotaFallbacks + 1
          /\ AgainWith("implement")
          /\ blocker' = blocker
       \/ /\ quotaFallbacks' \in {quotaFallbacks, quotaFallbacks + 1} \cap 0..MaxQuotaFallbacks
          /\ Hold("external", ReadState)
          /\ KeepNotes
          /\ UNCHANGED <<liveFile, worker>>
    /\ UNCHANGED <<question, counts, owedResume, askTimer, asked>>

\* The cap of the automatic resumes, and its mutant off by one.
ResumesSpentLate == counts.auto > AutoResumeMax
ResumesSpent == counts.auto >= AutoResumeMax

\* classifyDeath
SelfInflicted == finishing.outcome = "timeout" \/ shuttingDown

\* handleWorkerDeath: what beckett stopped itself is owed another try.
FinishDeath ==
    /\ Finish({"timeout", "external", "quota"})
    /\ finishing.outcome = "quota" => shuttingDown
    /\ IF ~SelfInflicted
       THEN /\ Hold("external", ReadState)
            /\ KeepNotes
            /\ UNCHANGED <<counts, owedResume, liveFile, worker>>
       ELSE IF shuttingDown \/ ResumesSpent
       THEN /\ owedResume' = finishing.stage /\ Persist
            /\ Hold(IF shuttingDown THEN "shutdown" ELSE "capped", ReadState)
            /\ KeepNotes
            /\ UNCHANGED <<counts, worker>>
       ELSE /\ counts' = [counts EXCEPT !.auto = @ + 1]
            /\ AgainWith(finishing.stage)
            /\ owedResume' = NoStage
            /\ blocker' = blocker
    /\ UNCHANGED <<question, quotaFallbacks, askTimer, asked>>

\* Mutant: the finish handlers are not asked.
WorkerGone == worker.phase = "none"
Workerless == worker.phase = "none" /\ finishing = NoFinish

\* The watchdog finds a live run with nobody at work: it staffs it again, or parks it the second
\* time (the ladder is in Staffing).
Watchdog ==
    /\ daemon = "up" /\ ~shuttingDown
    /\ StageFor # NoStage /\ Workerless
    /\ \/ Staff(StageFor) /\ UNCHANGED <<state, blocker>>
       \/ Hold("wedged", state) /\ worker' = worker
    /\ UNCHANGED <<question, counts, reviewed, runtime, boot, finishing, quotaFallbacks, nudging,
                   orphan, human, observed>>

---------------------------------------------------------------------------
(* Questions *)

\* onQuestionTimeout: the default answer is taken, or the run is parked with its question.
QuestionTimeout ==
    /\ Booted /\ askTimer
    /\ askTimer' = FALSE
    /\ liveRow' = liveRow
    /\ IF state = "awaiting_input" /\ question = "plain"
       THEN /\ question' = "none" /\ Hold("question", state)
            /\ KeepNotes
            /\ UNCHANGED <<worker, liveFile>>
       ELSE IF state = "awaiting_input" /\ question = "default"
       THEN /\ Buffer("answer") /\ Persist
            /\ state' = "implementing" /\ question' = "none"
            /\ Staff("implement")
            /\ blocker' = blocker
       ELSE UNCHANGED <<state, blocker, question, worker, liveFile>> /\ KeepNotes
    /\ UNCHANGED <<counts, reviewed, owedResume, boot, finishing, quotaFallbacks, nudging, orphan,
                   couriering, asked, restarts, cutShort, victim>>

\* answerRun, for resume() with an answer while the run waits for one.
Answer ==
    /\ Booted /\ "answer" \in Requests
    /\ state = "awaiting_input"
    /\ askTimer' = FALSE
    /\ Buffer("answer") /\ liveRow' = liveRow /\ Persist
    /\ LET stage == IF question = "none" THEN LastStage ELSE "implement"
       IN  state' = StateOf(stage) /\ Staff(stage)
    /\ question' = "none"
    /\ UNCHANGED <<blocker, counts, reviewed, owedResume, boot, finishing, quotaFallbacks,
                   nudging, orphan, couriering, asked, restarts, cutShort, victim>>

---------------------------------------------------------------------------
(* People *)

\* steer(): kept on file first, then offered to a worker that is up.
Steer ==
    /\ Booted /\ "steer" \in Requests /\ "steer" \notin unheard \cup steers /\ ~nudging
    /\ Buffer("steer") /\ liveRow' = liveRow /\ Persist
    /\ nudging' = (worker.phase \in {"registering", "running"} /\ worker.reserved)
    /\ UNCHANGED <<ledger, owedResume, boot, worker, finishing, quotaFallbacks, orphan, human,
                   asked, restarts, cutShort, victim>>

\* The worker acknowledges, in time or late: the kept copy is taken back if it is still there.
NudgeHeard ==
    /\ Booted /\ nudging
    /\ nudging' = FALSE
    /\ unheard' = unheard \ {"steer"}
    /\ dropped' = dropped \ {"steer"}
    /\ steers' = steers \ {"steer"}
    /\ liveRow' = liveRow
    /\ IF "steer" \in steers THEN Persist ELSE liveFile' = liveFile
    /\ UNCHANGED <<ledger, owedResume, boot, worker, finishing, quotaFallbacks, orphan, human,
                   asked, restarts, cutShort, victim>>

\* It does not (it ended, or it takes notes only between turns): the kept copy stays.
NudgeUnheard ==
    /\ Booted /\ nudging
    /\ nudging' = FALSE
    /\ UNCHANGED <<ledger, runtime, boot, worker, finishing, quotaFallbacks, orphan, human,
                   observed>>

\* resume() of a parked run; the answer to a question that was parked is a note.
Resume(note) ==
    /\ Booted /\ "resume" \in Requests
    /\ state = "parked"
    /\ note \in {"no note"} \cup IF blocker.cause = "question" THEN {"answer"} ELSE {}
    /\ LET stage == IF blocker.stage = NoStage THEN LastStage ELSE blocker.stage
       IN  state' = StateOf(stage) /\ Staff(stage)
    /\ blocker' = NoBlocker
    /\ liveRow' = liveRow
    /\ IF note = "answer" THEN Buffer("answer") /\ Persist
       ELSE KeepNotes /\ liveFile' = liveFile
    /\ UNCHANGED <<question, counts, reviewed, owedResume, boot, finishing, quotaFallbacks,
                   nudging, orphan, human, asked, restarts, cutShort, victim>>

\* cancel() and courier() take everything that waits for the run; what it owes stays on file.
Clear ==
    /\ resumable' = NoStage /\ interrupted' = NoStage
    /\ steers' = {} /\ unheard' = {} /\ dropped' = {} /\ victim' = NoStage
    /\ liveRow' = NoRow
    /\ IF steers # {} \/ liveRow # NoRow THEN Persist ELSE liveFile' = liveFile
    /\ UNCHANGED <<owedResume, daemon, shuttingDown, replaying, recovered, overlapped>>

\* Its awaits (the abort of the worker) are in Staffing.
Cancel ==
    /\ Booted /\ "cancel" \in Requests
    /\ state \notin RUN_FINAL
    /\ Clear
    /\ askTimer' = FALSE
    /\ worker' = IF worker.phase = "running" THEN NoWorker ELSE [worker EXCEPT !.reserved = FALSE]
    /\ state' = "cancelled" /\ blocker' = NoBlocker /\ question' = "none"
    /\ UNCHANGED <<counts, reviewed, finishing, quotaFallbacks, nudging, orphan, couriering,
                   asked, restarts, cutShort>>

\* courier() of a parked run, until its proof is there.
Courier ==
    /\ Booted /\ "courier" \in Requests
    /\ state = "parked" /\ ~couriering
    /\ Clear
    /\ couriering' = TRUE
    /\ worker' = IF worker.phase \in {"cutting", "casting", "starting"}
                 THEN [worker EXCEPT !.reserved = FALSE] ELSE worker
    /\ UNCHANGED <<ledger, finishing, quotaFallbacks, nudging, orphan, askTimer, asked,
                   restarts, cutShort>>

CourierEnds ==
    /\ Booted /\ couriering
    /\ couriering' = FALSE
    /\ state' = "delivered"
    /\ UNCHANGED <<blocker, question, counts, reviewed, runtime, boot, crew, askTimer, observed>>

---------------------------------------------------------------------------
(* The specification *)

SpawnStep == Provisioned \/ ProvisionFails \/ Brief \/ StartFails \/ Started \/ Register

FinishStep == FinishDone \/ FinishContinue \/ FinishRework \/ FinishAsk \/ FinishBlocked
              \/ FinishQuota \/ FinishDeath

BootStep == Boot \/ Recovered \/ TakeOwed \/ Replay \/ AdmitLive

Next == Stop \/ Die \/ BootStep \/ SpawnStep
        \/ (\E outcome \in Outcomes : WorkerDone(outcome)) \/ FinishStep
        \/ Watchdog \/ QuestionTimeout \/ Answer
        \/ Steer \/ NudgeHeard \/ NudgeUnheard
        \/ (\E note \in {"no note", "answer"} : Resume(note))
        \/ Cancel \/ Courier \/ CourierEnds

Spec == Init /\ [][Next]_vars

\* The handlers' awaits end, the supervisor's timers fire, a daemon that was stopped exits and
\* a daemon that is down is started.  Nothing is assumed of workers and people.
FairSpec ==
    /\ Spec
    /\ WF_vars(BootStep) /\ WF_vars(SpawnStep) /\ WF_vars(FinishStep)
    /\ WF_vars(QuestionTimeout) /\ WF_vars(shuttingDown /\ Die)

---------------------------------------------------------------------------
(* Properties *)

\* A note that was accepted and that no worker has read is in the buffer or in the brief of the
\* worker that is starting: no spawn that fails or is discarded, no handler and no timer loses
\* it.  Only the death of a daemon, or the park of the run, during the start of a worker does.
NotesKept ==
    unheard \subseteq steers \cup dropped \cup (IF worker.phase = "starting" THEN worker.brief ELSE {})

\* Outside a shutdown a question that is open has its timer: however the daemon died and booted,
\* somebody will be asked or the default taken.
QuestionTimed ==
    daemon \in {"publishes", "up"} /\ ~shuttingDown /\ state = "awaiting_input" /\ question # "none"
        => askTimer

\* The stage whose worker died with the last daemon is never started from scratch: its session
\* is resumed or the run parked, whatever else was owed, answered or steered meanwhile.
NoSilentRestart ==
    worker.phase = "starting" /\ worker.stage = victim => worker.resumed

\* A worker is put to work only when the process the last daemon had on record is gone.
OneProcess ==
    worker.phase \in {"starting", "registering", "running"} => orphan # "recorded"

\* While the finish handler of a worker is under way its run has no other worker.  The code does
\* not keep this: the admission that ends the boot looks at workers and spawns, not at handlers.
FinishAlone == finishing # NoFinish => worker = NoWorker

\* One hand at a time works on a run: no worker of this daemon beside the process of the last one
\* on record, and none beside a finish handler of its run but where the boot's admission met that
\* handler, whatever resumes, answers, timers and watchdog passes fall between.
WorkedAlone == OneProcess /\ (~overlapped => FinishAlone)

\* What the run is owed: on the list, or taken off it to be replayed.
Debt == IF owedResume # NoStage THEN owedResume ELSE replaying

\* The safety half of OwedResumed: the stage a parked run is owed stays owed, from the list to the
\* replay, until the run is at that stage.  Only a daemon's death in mid-replay loses it.
DebtKept ==
    [][state = "parked" /\ Debt # NoStage /\ ~overlapped =>
         \/ Debt' = Debt
         \/ state' = StateOf(Debt)
         \/ daemon' = "down" /\ replaying # NoStage]_vars

\* A question does not stay open: it is answered, answered by default or parked, and a crash or a
\* restart in between does not lose its timeout.
QuestionSettles ==
    (state = "awaiting_input" /\ question # "none") ~> ~(state = "awaiting_input" /\ question # "none")

\* A stage that a shutdown or the resume cap left owed is dispatched by a later boot, unless a
\* daemon died between clearing the debts and writing the run.
OwedResumed ==
    (daemon = "down" /\ owedResume # NoStage /\ state = "parked") ~> (state # "parked" \/ cutShort)

=============================================================================
