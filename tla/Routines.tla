------------------------------ MODULE Routines ------------------------------
(***************************************************************************)
(* The routine scheduler (routine/scheduler.ts) over its store              *)
(* (routine/store.ts).  A pass reads the list once and evaluates one routine *)
(* after another; a dispatch may take minutes (an agent writes the post)    *)
(* while passes start every 30 seconds, and a person may fire, disable or    *)
(* remove a routine meanwhile.  Every write replaces the whole state of a    *)
(* routine by a copy of what the writer read before.  The writes of one      *)
(* evaluation before its dispatch are one step.  A period is a day, the      *)
(* routines share one window of it: minutes 1 and 2 are the window, and 3 is  *)
(* after it.                                                                *)
(***************************************************************************)
EXTENDS Naturals

CONSTANTS
    Routine, Fixed, Yielding,   \* routines, numbered as their ids sort; those at a fixed minute; those that give way to live work
    RoutinePasses,    \* how many ticks can overlap
    MaxDay,           \* bound on the days
    MaxAsked,         \* bound on what people do: fires by hand and edits
    MaxTrouble        \* bound on deaths of the daemon and failed dispatches

ASSUME RoutinesAssumption == MaxDay \in Nat \ {0} /\ MaxAsked \in Nat /\ MaxTrouble \in Nat

VARIABLES
    record,           \* the store: Routine.state, period and fired as the number of a day
    listed,           \* the store: "on", "off", or "gone"
    today, minute,
    round,             \* what each pass does
    asked, trouble,
    fires,            \* observed: how often each was dispatched for a day, not by force
    overwritten       \* observed: fired though the store said so, or a claim was taken back

ovars == <<record, listed, today, minute, round, asked, trouble, fires, overwritten>>

Byhand == "fireNow"
Doers == RoutinePasses \cup {Byhand}
Never == [period |-> 0, chosen |-> 0, fired |-> 0]
NoRound == [at |-> "idle", todo |-> {}, budget |-> 0, id |-> 0, day |-> 0, base |-> Never, force |-> FALSE]

Records == [period : 0..MaxDay, chosen : 0..2, fired : 0..MaxDay]

RoutinesTypeOK ==
    /\ record \in [Routine -> Records] /\ listed \in [Routine -> {"on", "off", "gone"}]
    /\ today \in 1..MaxDay /\ minute \in 1..3
    /\ \A p \in Doers : /\ round[p].at \in {"idle", "walk", "dispatch"} /\ round[p].base \in Records
                        /\ round[p].at = "dispatch" => round[p].id \in Routine /\ round[p].day \in 1..today
    /\ asked \in 0..MaxAsked /\ trouble \in 0..MaxTrouble
    /\ fires \in [Routine -> [1..MaxDay -> 0..2]] /\ overwritten \in SUBSET Routine

RoutinesInit ==
    /\ record = [r \in Routine |-> Never] /\ listed = [r \in Routine |-> "on"]
    /\ today = 1 /\ minute = 1
    /\ round = [p \in Doers |-> NoRound] /\ asked = 0 /\ trouble = 0
    /\ fires = [r \in Routine |-> [d \in 1..MaxDay |-> 0]] /\ overwritten = {}

-----------------------------------------------------------------------------
\* The next routine of the pass; without one it is through.
RoundOn(todo, budget) == IF todo = {} THEN NoRound ELSE [NoRound EXCEPT !.at = "walk", !.todo = todo, !.budget = budget]

\* One event loop: a pass that is not at a dispatch is not interrupted by another.
Alone(p) == \A q \in Doers \ {p} : round[q].at # "walk"

\* setState(): the whole state, of whatever row has the id; TakesBack is the write nobody meant.
SetRoutineState(r, st) == record' = [record EXCEPT ![r] = IF listed[r] = "gone" THEN @ ELSE st]
TakesBack(r, st) == listed[r] # "gone" /\ st.fired < record[r].fired

\* tick(): the list, and the one late routine that it may still fire
RoutineTick(p) ==
    /\ round[p] = NoRound /\ Alone(p) /\ \E r \in Routine : listed[r] # "gone"
    /\ round' = [round EXCEPT ![p] =
         [NoRound EXCEPT !.at = "walk", !.budget = 1,
            !.todo = {[id |-> r, on |-> listed[r] = "on", st |-> record[r]] :
                        r \in {r \in Routine : listed[r] # "gone"}}]]
    /\ UNCHANGED <<record, listed, today, minute, asked, trouble, fires, overwritten>>

\* rollFireTime(): a minute of the window; a fixed one has no other.
Slots(r) == IF r \in Fixed THEN {1} ELSE 1..2
Rolled(s) == IF s.st.period = today /\ s.st.chosen # 0 THEN {s.st}
             ELSE {[s.st EXCEPT !.period = today, !.chosen = c] : c \in Slots(s.id)}

Due(st) == st.fired # today /\ minute >= st.chosen

\* Mutant: the period is spent when the dispatch is through, not before.
ClaimedLater(st) == st
Claimed(st) == [st EXCEPT !.fired = today]

Late(r) == minute = 3 /\ r \notin Fixed

\* What an evaluation writes and does next: nothing is due or it gives way, it is too late for
\* one more of this pass, or the period is claimed and the dispatch begins.
Passed(p, s, st) ==
    /\ s.on => ~Due(st) \/ s.id \in Yielding
    /\ IF s.on /\ st # s.st
       THEN /\ SetRoutineState(s.id, st)
            /\ overwritten' = IF TakesBack(s.id, st) THEN overwritten \cup {s.id} ELSE overwritten
       ELSE UNCHANGED <<record, overwritten>>
    /\ round' = [round EXCEPT ![p] = RoundOn(@.todo \ {s}, @.budget)]

Skipped(p, s, st) ==
    /\ s.on /\ Due(st) /\ Late(s.id) /\ round[p].budget = 0
    /\ SetRoutineState(s.id, [st EXCEPT !.fired = today])
    /\ round' = [round EXCEPT ![p] = RoundOn(@.todo \ {s}, @.budget)]
    /\ UNCHANGED overwritten

Fires(p, s, st) ==
    /\ s.on /\ Due(st) /\ (Late(s.id) => round[p].budget > 0)
    /\ SetRoutineState(s.id, Claimed(st))
    /\ round' = [round EXCEPT ![p] =
         [round[p] EXCEPT !.at = "dispatch", !.todo = @ \ {s}, !.budget = IF Late(s.id) THEN 0 ELSE @,
                   !.id = s.id, !.day = today, !.base = Claimed(st)]]
    /\ overwritten' = IF \/ listed[s.id] = "gone" \/ record[s.id].fired = today
                         \/ TakesBack(s.id, Claimed(st))
                      THEN overwritten \cup {s.id} ELSE overwritten

EvaluateRoutine(p) ==
    /\ round[p].at = "walk"
    /\ \E s \in round[p].todo : \E st \in Rolled(s) :
         /\ \A other \in round[p].todo : s.id <= other.id
         /\ Passed(p, s, st) \/ Skipped(p, s, st) \/ Fires(p, s, st)
    /\ UNCHANGED <<listed, today, minute, asked, trouble, fires>>

\* fireNow(): by force the state is left as it is.
FireRoutineNow(r, force) ==
    /\ round[Byhand] = NoRound /\ Alone(Byhand) /\ listed[r] # "gone"
    /\ ~force => record[r].fired # today
    /\ asked < MaxAsked /\ asked' = asked + 1
    /\ LET st == IF force THEN record[r] ELSE Claimed(record[r])
       IN  /\ SetRoutineState(r, st)
           /\ round' = [round EXCEPT ![Byhand] =
                [NoRound EXCEPT !.at = "dispatch", !.id = r, !.day = today, !.base = st, !.force = force]]
    /\ UNCHANGED <<listed, today, minute, trouble, fires, overwritten>>

\* recordOutcome(): what the dispatch began with is written again.
Outcome(p) ==
    /\ SetRoutineState(round[p].id, round[p].base)
    /\ overwritten' = IF TakesBack(round[p].id, round[p].base) THEN overwritten \cup {round[p].id}
                      ELSE overwritten
    /\ round' = [round EXCEPT ![p] = RoundOn(round[p].todo, round[p].budget)]

Dispatched(p) ==
    /\ round[p].at = "dispatch" /\ Alone(p) /\ Outcome(p)
    /\ fires' = IF round[p].force THEN fires
                ELSE [fires EXCEPT ![round[p].id][round[p].day] = IF @ < 2 THEN @ + 1 ELSE @]
    /\ UNCHANGED <<listed, today, minute, asked, trouble>>

NotDispatched(p) ==
    /\ round[p].at = "dispatch" /\ Alone(p) /\ trouble < MaxTrouble /\ Outcome(p)
    /\ trouble' = trouble + 1
    /\ UNCHANGED <<listed, today, minute, asked, fires>>

\* setEnabled() and remove(), by people
Toggle(r) ==
    /\ asked < MaxAsked /\ asked' = asked + 1
    /\ \/ listed[r] = "on" /\ listed' = [listed EXCEPT ![r] = "off"]
       \/ listed[r] = "off" /\ listed' = [listed EXCEPT ![r] = "on"]
       \/ listed[r] # "gone" /\ listed' = [listed EXCEPT ![r] = "gone"]
    /\ UNCHANGED <<record, today, minute, round, trouble, fires, overwritten>>

\* Time passes while dispatches are under way.
Clock ==
    /\ \A p \in Doers : round[p].at # "walk"
    /\ IF minute < 3 THEN minute' = minute + 1 /\ UNCHANGED today
       ELSE today < MaxDay /\ today' = today + 1 /\ minute' = 1
    /\ UNCHANGED <<record, listed, round, asked, trouble, fires, overwritten>>

\* The daemon dies; the lane may have taken the work of a dispatch that did not return.
SchedulerDies ==
    /\ trouble < MaxTrouble
    /\ trouble' = trouble + 1
    /\ \E took \in SUBSET {p \in Doers : round[p].at = "dispatch" /\ ~round[p].force} :
         fires' = [r \in Routine |-> [d \in 1..MaxDay |->
                     IF fires[r][d] < 2 /\ \E p \in took : round[p].id = r /\ round[p].day = d
                     THEN fires[r][d] + 1 ELSE fires[r][d]]]
    /\ round' = [p \in Doers |-> NoRound]
    /\ UNCHANGED <<record, listed, today, minute, asked, overwritten>>

RoutinesNext ==
    \/ \E p \in RoutinePasses : RoutineTick(p) \/ EvaluateRoutine(p)
    \/ \E p \in Doers : Dispatched(p) \/ NotDispatched(p)
    \/ \E r \in Routine : Toggle(r) \/ \E force \in BOOLEAN : FireRoutineNow(r, force)
    \/ Clock \/ SchedulerDies

RoutinesSpec == RoutinesInit /\ [][RoutinesNext]_ovars

-----------------------------------------------------------------------------
(* Properties *)

\* scheduler.ts:14-16: a routine fires once in a period, whatever deaths of the daemon, failed
\* dispatches and fires by hand come between, unless a pass worked on a list from before the
\* claim or a copy from before it was written back.
FiredOnce == \A r \in Routine : (\E d \in 1..MaxDay : fires[r][d] = 2) => r \in overwritten

\* schedule.ts:170: "A routine fires at most once per period key"; TLC refutes it.
OncePerPeriod == \A r \in Routine : \A d \in 1..MaxDay : fires[r][d] < 2

=============================================================================
