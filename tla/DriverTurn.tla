----------------------------- MODULE DriverTurn -----------------------------
(***************************************************************************)
(* One worker with a one-shot harness (codex exec, pi -p): BaseDriver and   *)
(* OneShotDriver (drivers/base.ts), the end of a turn (drivers/codex.ts,    *)
(* drivers/pi.ts), and the done latch of dispatch/spawn.ts.  Steering is    *)
(* buffered and applied by killing the process when its turn has ended and  *)
(* launching another on the same session, so that timers, the exits and     *)
(* last words of one process and the launch of the next interleave.         *)
(***************************************************************************)
EXTENDS Naturals

CONSTANT MaxLaunches    \* bound on the processes of a worker

ASSUME DriverAssumption == MaxLaunches \in Nat \ {0}

G == 1..MaxLaunches

VARIABLES
    state, finished, capped,   \* workerState, finished, capTripped
    gen, child,       \* childGen; this.child, by its generation, or 0
    armed, emitted,   \* resolveSession is set; sessionEmitted
    spawnTimer, watchdog,      \* timers that are set
    launching,        \* what awaits the session promise: spawn(), resume() or nobody
    resuming,         \* resume() awaits killChild
    capping,          \* timeOut() awaits killChild
    nudges,           \* bufferedNudges, as a number
    proc, pipe,       \* the processes, and their stdout
    turn,             \* how far each process has come with its turn
    exit,             \* onProcessExit of each
    spawned,          \* the worker's handle: it has one, or the spawn failed
    result, done,     \* the last finish spawn.ts heard of; the one it told the supervisor
    aborted           \* the supervisor has called abort()

launch == <<gen, child, armed, emitted, spawnTimer, launching>>
procs == <<proc, pipe, turn, exit>>
heard == <<result, done>>
tvars == <<state, finished, capped, launch, watchdog, resuming, capping, nudges, procs, spawned,
           heard, aborted>>

\* What can be reported, and "none"
Reports == {"none", "success", "turn_failed", "process_exit", "resume", "cap"}

Terminal == state \in {"failed", "aborted"}

DriverTypeOK ==
    /\ state \in {"spawning", "running", "review", "failed", "aborted"}
    /\ finished \in BOOLEAN /\ capped \in BOOLEAN /\ armed \in BOOLEAN /\ emitted \in BOOLEAN
    /\ spawnTimer \in BOOLEAN /\ watchdog \in BOOLEAN
    /\ resuming \in BOOLEAN /\ capping \in BOOLEAN /\ aborted \in BOOLEAN
    /\ gen \in G /\ child \in {0, gen}
    /\ launching \in {"spawn", "resume", "no"}
    /\ nudges \in 0..MaxLaunches
    /\ proc \in [G -> {"none", "up", "term", "gone"}]
    /\ pipe \in [G -> {"open", "eof"}]
    /\ turn \in [G -> {"boot", "work", "over"}]
    /\ exit \in [G -> {"no", "drain", "seen"}]
    /\ spawned \in {"no", "ok", "failed"}
    /\ result \in Reports /\ done \in Reports

DriverInit ==
    /\ state = "spawning" /\ finished = FALSE /\ capped = FALSE
    /\ gen = 1 /\ child = 1 /\ armed = TRUE /\ emitted = FALSE
    /\ spawnTimer = TRUE /\ watchdog = TRUE /\ launching = "spawn"
    /\ resuming = FALSE /\ capping = FALSE /\ nudges = 0
    /\ proc = [g \in G |-> IF g = 1 THEN "up" ELSE "none"]
    /\ pipe = [g \in G |-> "open"] /\ turn = [g \in G |-> "boot"] /\ exit = [g \in G |-> "no"]
    /\ spawned = "no" /\ result = "none" /\ done = "none" /\ aborted = FALSE

-----------------------------------------------------------------------------
(* Helpers *)

\* Mutant: the words of a harness that is being killed for the cap are heard.
HearsAll(sub) == spawned # "failed"

\* emit() of a finish: once the cap has ruled, its own alone.  A worker whose spawn has failed has
\* no subscriber left.
Hears(sub) == spawned # "failed" /\ (capped => sub = "cap")

\* The finishes of one step, at most two; the first that is heard is the one that counts.  With it
\* the steering that was not applied goes back to the supervisor.
Finishes(one, two) ==
    LET first == IF one # "none" /\ Hears(one) THEN one ELSE "none"
        last == IF two # "none" /\ Hears(two) THEN two ELSE first
    IN  /\ result' = IF last = "none" THEN result ELSE last
        /\ done' = IF done # "none" THEN done ELSE IF first # "none" THEN first ELSE last
        /\ nudges' = IF last = "none" THEN nudges ELSE 0

Finish(sub) == Finishes(sub, "none")

\* setState(s), which stops the watchdog in a terminal one
SetState(s) ==
    /\ state' = s
    /\ watchdog' = (watchdog /\ s \notin {"failed", "aborted"})

Signalled(g) == IF g # 0 /\ proc[g] = "up" THEN [proc EXCEPT ![g] = "term"] ELSE proc

\* killChild, up to its await
KillChild == proc' = Signalled(child) /\ child' = 0

\* What is said can be read until the pipe is at its end.
Speaks(g) == proc[g] # "none" /\ pipe[g] = "open"

-----------------------------------------------------------------------------
(* The harness *)

\* emitSessionStarted
Handshake(g) ==
    /\ Speaks(g) /\ turn[g] = "boot"
    /\ turn' = [turn EXCEPT ![g] = "work"]
    /\ emitted' = TRUE /\ armed' = FALSE /\ spawnTimer' = FALSE
    /\ SetState("running")
    /\ launching' = IF armed THEN "no" ELSE launching
    /\ spawned' = IF armed /\ launching = "spawn" THEN "ok" ELSE spawned
    /\ UNCHANGED <<finished, capped, gen, child, resuming, capping, nudges, proc, pipe, exit, heard, aborted>>

\* handleTurnCompleted, handleAgentEnd: steering that waits is applied by resume().
TurnResumes(g) ==
    /\ Speaks(g) /\ turn[g] = "work" /\ nudges > 0 /\ state # "aborted"
    /\ turn' = [turn EXCEPT ![g] = "over"]
    /\ finished' = TRUE /\ resuming' = TRUE /\ nudges' = 0
    /\ KillChild
    /\ UNCHANGED <<state, capped, gen, armed, emitted, spawnTimer, watchdog, launching,
                   capping, pipe, exit, spawned, heard, aborted>>

TurnSucceeds(g) ==
    /\ Speaks(g) /\ turn[g] = "work" /\ (nudges = 0 \/ state = "aborted")
    /\ turn' = [turn EXCEPT ![g] = "over"]
    /\ Finish("success")
    /\ finished' = TRUE /\ watchdog' = FALSE
    /\ state' = IF Terminal THEN state ELSE "review"
    /\ UNCHANGED <<capped, launch, resuming, capping, proc, pipe, exit, spawned, aborted>>

\* handleTurnFailed
TurnFails(g) ==
    /\ Speaks(g) /\ turn[g] = "work"
    /\ turn' = [turn EXCEPT ![g] = "over"]
    /\ Finish("turn_failed")
    /\ finished' = TRUE
    /\ SetState(IF Terminal THEN state ELSE "failed")
    /\ UNCHANGED <<capped, launch, resuming, capping, proc, pipe, exit, spawned, aborted>>

\* It exits, of itself or killed.
Exits(g) ==
    /\ proc[g] \in {"up", "term"}
    /\ proc' = [proc EXCEPT ![g] = "gone"]
    /\ UNCHANGED <<state, finished, capped, launch, watchdog, resuming, capping, nudges, pipe, turn, exit,
                   spawned, heard, aborted>>

\* Its stdout may stay open for longer, in the hands of a descendant.
Drained(g) ==
    /\ proc[g] = "gone" /\ pipe[g] = "open"
    /\ pipe' = [pipe EXCEPT ![g] = "eof"]
    /\ UNCHANGED <<state, finished, capped, launch, watchdog, resuming, capping, nudges, proc, turn, exit,
                   spawned, heard, aborted>>

-----------------------------------------------------------------------------
(* onProcessExit *)

\* Up to its await of the read loop
ExitSeen(g) ==
    /\ proc[g] = "gone" /\ exit[g] = "no"
    /\ IF g # gen
       THEN exit' = [exit EXCEPT ![g] = "seen"] /\ UNCHANGED <<child, spawnTimer>>
       ELSE exit' = [exit EXCEPT ![g] = "drain"] /\ child' = 0 /\ spawnTimer' = FALSE
    /\ UNCHANGED <<state, finished, capped, gen, armed, emitted, launching, watchdog, resuming,
                   capping, nudges, proc, pipe, turn, spawned, heard, aborted>>

Unreported == ~finished /\ ~Terminal

\* The session promise is rejected, if it is open.  What awaits it goes on at once: resume()'s
\* caller reports, after anything this step reports itself; a worker that was being spawned never was.
Rejects(open, own) ==
    /\ Finishes(own, IF open /\ launching = "resume" THEN "resume" ELSE "none")
    /\ launching' = IF open THEN "no" ELSE launching
    /\ spawned' = IF open /\ launching = "spawn" THEN "failed" ELSE spawned

\* After it: a launch whose handshake is out fails, a worker that has not finished has crashed, and
\* the process group of the present child is swept, where there is one.
ExitEnds(g) ==
    LET open == armed /\ ~emitted
    IN  /\ exit[g] = "drain" /\ pipe[g] = "eof"
        /\ exit' = [exit EXCEPT ![g] = "seen"]
        /\ Rejects(open, IF Unreported THEN "process_exit" ELSE "none")
        /\ armed' = (armed /\ ~open)
        /\ finished' = (finished \/ Unreported \/ (open /\ launching = "resume"))
        /\ SetState(IF Unreported THEN "failed" ELSE state)
        /\ proc' \in {proc, Signalled(gen)}
        /\ UNCHANGED <<capped, gen, child, emitted, spawnTimer, resuming, capping, pipe, turn, aborted>>

-----------------------------------------------------------------------------
(* Timers *)

SpawnTimeout ==
    /\ spawnTimer
    /\ spawnTimer' = FALSE
    /\ Rejects(armed, "none") /\ armed' = FALSE
    /\ finished' = (finished \/ (armed /\ launching = "resume"))
    /\ SetState("failed")
    /\ KillChild
    /\ UNCHANGED <<capped, gen, emitted, resuming, capping, pipe, turn, exit, aborted>>

\* tickWatchdog, once the worker has run for the hard cap; timeOut up to its await
CapTrips ==
    /\ watchdog /\ ~finished /\ ~Terminal
    /\ finished' = TRUE /\ capped' = TRUE /\ capping' = TRUE
    /\ SetState("aborted")
    /\ KillChild
    /\ UNCHANGED <<gen, armed, emitted, spawnTimer, launching, resuming, nudges, pipe, turn, exit,
                   spawned, heard, aborted>>

\* The tree is dead, or the wait for it is over.
CapReports ==
    /\ capping
    /\ capping' = FALSE
    /\ Finish("cap")
    /\ UNCHANGED <<state, finished, capped, launch, watchdog, resuming, procs, spawned, aborted>>

-----------------------------------------------------------------------------
(* resume(), after its await *)

\* Mutant: the mark of the last turn's end stays.
StillFinished == TRUE
FinishedAgain == FALSE

\* The next process
Relaunch ==
    /\ resuming /\ gen < MaxLaunches
    /\ \A g \in G : proc[g] \in {"none", "gone"}
    /\ resuming' = FALSE
    /\ finished' = FinishedAgain /\ emitted' = FALSE
    /\ state' = "spawning" /\ watchdog' = TRUE
    /\ gen' = gen + 1 /\ child' = gen + 1 /\ proc' = [proc EXCEPT ![gen + 1] = "up"]
    /\ armed' = TRUE /\ spawnTimer' = TRUE /\ launching' = "resume"
    /\ UNCHANGED <<capped, capping, nudges, pipe, turn, exit, spawned, heard, aborted>>

\* It cannot be spawned; the session promise stays armed.
RelaunchThrows ==
    /\ resuming
    /\ \A g \in G : proc[g] \in {"none", "gone"}
    /\ resuming' = FALSE
    /\ emitted' = FALSE /\ armed' = TRUE
    /\ Finish("resume") /\ finished' = TRUE /\ watchdog' = FALSE /\ state' = "failed"
    /\ UNCHANGED <<capped, gen, child, spawnTimer, launching, capping, procs, spawned, aborted>>

-----------------------------------------------------------------------------
(* The supervisor *)

\* sendNudge: a finished worker drops it.
Nudge ==
    /\ spawned = "ok" /\ ~finished /\ ~Terminal /\ gen + nudges < MaxLaunches
    /\ nudges' = nudges + 1
    /\ UNCHANGED <<state, finished, capped, launch, watchdog, resuming, capping, procs, spawned, heard, aborted>>

Abort ==
    /\ spawned = "ok" /\ ~aborted /\ done = "none"
    /\ aborted' = TRUE
    /\ SetState("aborted")
    /\ KillChild
    /\ UNCHANGED <<finished, capped, gen, armed, emitted, spawnTimer, launching, resuming, capping,
                   nudges, pipe, turn, exit, spawned, heard>>

-----------------------------------------------------------------------------
(* The specification *)

Says(g) == Handshake(g) \/ TurnResumes(g) \/ TurnSucceeds(g) \/ TurnFails(g)

Continues ==
    \/ SpawnTimeout \/ CapTrips \/ CapReports
    \/ Relaunch \/ RelaunchThrows
    \/ \E g \in G : ExitSeen(g) \/ ExitEnds(g) \/ (proc[g] = "term" /\ Exits(g))

DriverNext ==
    \/ Continues \/ Nudge \/ Abort
    \/ \E g \in G : Says(g) \/ Exits(g) \/ Drained(g)

\* Timers fire, awaits return, a process that is killed dies.  The harness need not say a thing,
\* nor exit, nor its stdout come to an end.
DriverSpec == DriverInit /\ [][DriverNext]_tvars /\ WF_tvars(Continues)

-----------------------------------------------------------------------------
(* Properties *)

\* base.ts:555-565: once the wall-clock cap has tripped, its verdict alone is reported, whatever the
\* dying harness says and whatever launch is under way; and a success that was reported stands.
CapWins ==
    /\ capped => {result, done} \subseteq {"none", "cap"}
    /\ done = "success" => result = "success"

\* base.ts:441-445: a worker the supervisor has a handle of reports, if nobody aborts it: there is no
\* order of steering, exits, timeouts and relaunches that leaves it open for good.
WorkerReports == spawned = "ok" ~> (done # "none" \/ aborted)

\* codex.ts:347-348: when a turn has been resumed, "The child-gen guard keeps this turn's imminent
\* process exit from firing a spurious error-finish"; TLC refutes it (base.ts:334 checks before an
\* await).
NoSpuriousExit == [][\A g \in G : g < gen /\ exit'[g] # exit[g] => UNCHANGED heard]_tvars

=============================================================================
