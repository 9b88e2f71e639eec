------------------------------ MODULE MCQueues ------------------------------
(***************************************************************************)
(* The daemon's small queues and services, for TLC: the publish outbox, the *)
(* gate of turns, the driver of one worker, the directed turns with their   *)
(* ledger of owed mentions, reminders of either kind, routines, a watched   *)
(* feed, and the lock of a registry.  They share no state; one of them,      *)
(* chosen at the start, moves, so that their state spaces add up.           *)
(***************************************************************************)
EXTENDS MCPublishOutbox, TurnGate, DriverTurn, Reminders, FileLock,
        DirectedTurns, Routines, WatchLoop

FiveTurns == 1..5
FourPeople == 1..4

\* What the feed announces: four items about three models
FourItems == 1..4
ThreeModels == <<1, 2, 2, 3>>

VARIABLE focus

Once == INSTANCE Reminders WITH Recurring <- {}

\* Routines itself has passes that overlap; here one pass with people, deaths and a routine that
\* gives way.
ByHand == INSTANCE Routines WITH Fixed <- Routine, Yielding <- {1}, RoutinePasses <- {"a"},
                                 MaxAsked <- 1, MaxTrouble <- 1

\* WatchLoop itself has the caps of a day with mishaps; here rounds that overlap, in both modes.
Modes == INSTANCE WatchLoop WITH FeedItems <- 1..3, MaxTime <- 4, MaxHand <- 1, MaxMishaps <- 0

Queues == {"outbox", "gate", "driver", "directed", "once", "daily", "lock", "overlap", "byhand", "watch", "modes"}

QueuesInit ==
    /\ focus \in Queues
    /\ Init /\ GateInit /\ DriverInit /\ DInit /\ RemindInit
    /\ LockInit /\ RoutinesInit /\ WatchInit

Moved(q) == focus = q /\ UNCHANGED focus

OutboxMoves == Moved("outbox") /\ Next
    /\ UNCHANGED <<gvars, tvars, dvars, rvars, lockVars, ovars, wvars>>
GateMoves == Moved("gate") /\ GateNext
    /\ UNCHANGED <<vars, tvars, dvars, rvars, lockVars, ovars, wvars>>
DriverMoves == Moved("driver") /\ DriverNext
    /\ UNCHANGED <<vars, gvars, dvars, rvars, lockVars, ovars, wvars>>
DirectedMoves == Moved("directed") /\ DNext
    /\ UNCHANGED <<vars, gvars, tvars, rvars, lockVars, ovars, wvars>>
OnceMoves == Moved("once") /\ Once!RemindNext
    /\ UNCHANGED <<vars, gvars, tvars, dvars, lockVars, ovars, wvars>>
DailyMoves == Moved("daily") /\ RemindNext
    /\ UNCHANGED <<vars, gvars, tvars, dvars, lockVars, ovars, wvars>>
LockMoves == Moved("lock") /\ LockNext
    /\ UNCHANGED <<vars, gvars, tvars, dvars, rvars, ovars, wvars>>
OverlapMoves == Moved("overlap") /\ RoutinesNext
    /\ UNCHANGED <<vars, gvars, tvars, dvars, rvars, lockVars, wvars>>
ByHandMoves == Moved("byhand") /\ ByHand!RoutinesNext
    /\ UNCHANGED <<vars, gvars, tvars, dvars, rvars, lockVars, wvars>>
WatchMoves == Moved("watch") /\ WatchNext
    /\ UNCHANGED <<vars, gvars, tvars, dvars, rvars, lockVars, ovars>>
ModesMoves == Moved("modes") /\ Modes!WatchNext
    /\ UNCHANGED <<vars, gvars, tvars, dvars, rvars, lockVars, ovars>>

QueuesNext ==
    \/ OutboxMoves \/ GateMoves \/ DriverMoves \/ DirectedMoves \/ OnceMoves \/ DailyMoves
    \/ LockMoves \/ OverlapMoves \/ ByHandMoves \/ WatchMoves \/ ModesMoves

\* The fairness of each module, for the one that moves
QueuesSpec ==
    /\ QueuesInit /\ [][QueuesNext]_<<focus, vars, gvars, tvars, dvars, rvars, lockVars, ovars, wvars>>
    /\ WF_gvars(focus = "gate" /\ Releases)
    /\ WF_tvars(focus = "driver" /\ Continues)
    /\ WF_dvars(focus = "directed" /\ Progress)
    /\ WF_dvars(focus = "directed" /\ TurnEnds)
    /\ WF_rvars(focus \in {"once", "daily"} /\ Ticks)
    /\ WF_rvars(focus = "once" /\ Once!Proceeds)
    /\ WF_rvars(focus = "daily" /\ Proceeds)
    /\ WF_lockVars(focus = "lock" /\ LockProceeds)

-----------------------------------------------------------------------------
(* Properties: those of the modules *)

\* turn-gate.ts:12: a person's turn gets a slot.  One person stands for all: nothing tells them apart.
PersonServed == Served(1)

=============================================================================
