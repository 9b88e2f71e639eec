-------------------------- MODULE ConciergeSession --------------------------
(***************************************************************************)
(* One concierge session (src/src/concierge/index.ts, ConciergeSession):    *)
(* its turn queue and pump, the claude child it drives over a pipe, the     *)
(* turns that nobody asked for, messages injected into the live turn, the   *)
(* deadlines, the rungs of a resume that fails, rotation and its handoff.   *)
(*                                                                          *)
(* The child is modelled from how the session uses it: it reads a line when *)
(* it is idle or at a boundary inside a turn, and a peer may start a turn   *)
(* in it.  Its pipes are sequences, so what the session knows lags behind   *)
(* what the child does.                                                     *)
(***************************************************************************)
EXTENDS Integers, Sequences

CONSTANTS
    Messages,     \* what people say in the channel
    Priority,     \* those that jump the queue of the updates
    Direct,       \* those that are owed an answer: a mention or a direct message
    MaxInjected,  \* MAX_LIVE_TURN_INJECTIONS
    MaxExits,     \* bound: exits of children that nobody asked for
    MaxPeers,     \* bound: turns that peers start
    MaxRotations, \* bound
    None, Peer    \* no message; the line of a peer

ASSUME SessionAssumption ==
    /\ Priority \subseteq Messages /\ Direct \subseteq Messages
    /\ MaxInjected \in Nat /\ MaxExits \in Nat /\ MaxPeers \in Nat /\ MaxRotations \in Nat
    /\ None \notin Messages /\ Peer \notin Messages

VARIABLES
    status,       \* of each message
    turnQueue,
    pump,         \* what pump() awaits: "no" when pumping is false
    attempt,      \* runTurn's attempt at the current message
    current,      \* the message that runTurn drives
    redrives,     \* lostOutputRedrives
    pending,      \* the turn awaits its result
    deferred,     \* deferredTurn: a line that is held back, with the handoff or without
    peerTurnLive,
    injected,     \* injectedRecords
    injections,   \* liveTurnInjections
    child,        \* the process and its two pipes
    initSeen, lastLaunchWasResume, resumeRetryUsed, freshNextLaunch,
    seedPending, lastHandoff,   \* there is a handoff to fold in; there was one
    stopped,
    exits, peers, rotations,
    phantom,      \* of the session id: it names no transcript yet
    grounded,     \* observed: its transcript holds the last handoff, if there was one
    blind,        \* observed: this child is at unseen work while it has a line of ours
    dropped,      \* observed: a line with the handoff in it died unread, in a session that lives on
    astray,       \* observed: a message was answered by a turn that had not read it
    bereft        \* observed: a message was answered without the handoff of the session before

queue == <<turnQueue, pump, attempt, current, redrives>>
turn == <<pending, deferred, peerTurnLive, injected, injections>>
session == <<initSeen, lastLaunchWasResume, resumeRetryUsed, freshNextLaunch, seedPending,
             lastHandoff>>
bounds == <<exits, peers, rotations>>
observed == <<phantom, grounded, blind, dropped, astray, bereft>>
vars == <<status, queue, turn, child, session, stopped, bounds, observed>>

Line(m, seed) == [message |-> m, seed |-> seed]
Lines == [message : Messages \cup {Peer}, seed : BOOLEAN]
Frames == [kind : {"init", "event"}]
          \cup [kind : {"result"}, read : SUBSET (Messages \cup {Peer}), output : BOOLEAN]

Children == [up : BOOLEAN, dud : BOOLEAN, init : BOOLEAN, stdin : Seq(Lines),
             working : SUBSET (Messages \cup {Peer}), stdout : Seq(Frames)]

Child(dud, stdin) ==
    [up |-> TRUE, dud |-> dud, init |-> FALSE, stdin |-> stdin, working |-> {}, stdout |-> <<>>]
Down == [Child(FALSE, <<>>) EXCEPT !.up = FALSE]

TypeOK ==
    /\ status \in [Messages -> {"new", "queued", "running", "injected", "settled", "lost"}]
    /\ turnQueue \in Seq(Messages)
    /\ pump \in {"no", "gate", "turn", "delay", "handoff"}
    /\ attempt \in {"first", "retry", "last"}
    /\ current \in Messages \cup {None}
    /\ redrives \in 0..1 /\ injections \in 0..MaxInjected
    /\ pending \in BOOLEAN /\ peerTurnLive \in BOOLEAN
    /\ deferred \in {"no", "plain", "seeded"}
    /\ injected \subseteq Messages
    /\ child \in Children
    /\ initSeen \in BOOLEAN /\ lastLaunchWasResume \in BOOLEAN /\ resumeRetryUsed \in BOOLEAN
    /\ freshNextLaunch \in BOOLEAN /\ seedPending \in BOOLEAN /\ lastHandoff \in BOOLEAN
    /\ stopped \in BOOLEAN /\ phantom \in BOOLEAN /\ grounded \in BOOLEAN
    /\ blind \in BOOLEAN /\ dropped \in BOOLEAN /\ astray \in BOOLEAN /\ bereft \in BOOLEAN
    /\ exits \in 0..MaxExits /\ peers \in 0..MaxPeers /\ rotations \in 0..MaxRotations

\* A session that the daemon resumed at its start.
Init ==
    /\ status = [m \in Messages |-> "new"]
    /\ turnQueue = <<>> /\ pump = "no" /\ attempt = "first" /\ current = None /\ redrives = 0
    /\ pending = FALSE /\ deferred = "no" /\ peerTurnLive = FALSE
    /\ injected = {} /\ injections = 0
    /\ \E dud \in BOOLEAN : child = Child(dud, <<>>)
    /\ initSeen = FALSE /\ lastLaunchWasResume = TRUE /\ resumeRetryUsed = FALSE
    /\ freshNextLaunch = FALSE /\ seedPending = FALSE /\ lastHandoff = FALSE
    /\ stopped = FALSE /\ exits = 0 /\ peers = 0 /\ rotations = 0
    /\ phantom = FALSE /\ grounded = TRUE /\ blind = FALSE /\ dropped = FALSE
    /\ astray = FALSE /\ bereft = FALSE

---------------------------------------------------------------------------
(* Launching, driving, settling *)

\* ask(): a priority turn goes before the first of the others, any other to the end.
Place(i, m, q) ==
    /\ m \in Priority => \A j \in 1..(i - 1) : q[j] \in Priority
    /\ i <= Len(q) => m \in Priority /\ q[i] \notin Priority

\* launch(): a resume may die before init, and does when its session has no transcript; a fresh
\* session may, when rotate() left freshNextLaunch set and the id is taken by now.
Launch(resume, stdin) ==
    /\ \E dud \in BOOLEAN :
          /\ dud => resume \/ freshNextLaunch
          /\ (resume /\ phantom) => dud
          /\ child' = Child(dud, stdin)
    /\ initSeen' = FALSE /\ lastLaunchWasResume' = resume
    /\ peerTurnLive' = FALSE /\ deferred' = "no"
    /\ blind' = FALSE

\* The handoff is in a line that nobody will read, and the next launch will not fail for want of
\* a transcript: a peer's turn began it, or the launch is a fresh one.
SeedDies ==
    /\ ~phantom \/ freshNextLaunch
    /\ deferred = "seeded" \/ \E i \in 1..Len(child.stdin) : child.stdin[i].seed

\* recycleChild: what the child was at goes with it, and a line that was held for it.
Recycle ==
    /\ child' = Down
    /\ peerTurnLive' = FALSE /\ deferred' = "no"
    /\ blind' = FALSE
    /\ dropped' = (dropped \/ SeedDies)

\* driveTurn holds its line back while a peer's turn is known to run.
HoldNever == FALSE
HoldLine == peerTurnLive

\* The child is at something else, has more to read first, or ended a turn not yet heard of.
Unseen(c) ==
    \/ c.working # {} \/ c.stdin # <<>>
    \/ \E i \in 1..Len(c.stdout) : c.stdout[i].kind = "result"

\* driveTurn, with a child as it is or a new one; the seed is taken in any case.
Drive(m, c) ==
    /\ pump' = "turn" /\ current' = m /\ pending' = TRUE /\ injections' = 0
    /\ seedPending' = FALSE
    /\ UNCHANGED <<resumeRetryUsed, lastHandoff>>
    /\ \/ /\ c.up /\ HoldLine
          /\ deferred' = IF seedPending THEN "seeded" ELSE "plain"
          /\ child' = c
          /\ UNCHANGED <<peerTurnLive, initSeen, lastLaunchWasResume, freshNextLaunch, blind>>
       \/ /\ c.up /\ ~HoldLine
          /\ child' = [c EXCEPT !.stdin = Append(@, Line(m, seedPending))]
          /\ blind' = (blind \/ (~peerTurnLive /\ Unseen(c)))
          /\ UNCHANGED <<peerTurnLive, deferred, initSeen, lastLaunchWasResume, freshNextLaunch>>
       \/ /\ ~c.up
          /\ Launch(~freshNextLaunch, <<Line(m, seedPending)>>)
          /\ freshNextLaunch' = FALSE

\* The pump after a turn goes on with the queue, rests, or rotates first: at the hard edge, or
\* idle at the watermark or for a reload, which are left open.
AfterTurnOnce(q) == pump' = "no" \/ (~stopped /\ rotations < MaxRotations /\ pump' = "handoff")
AfterTurn(q) ==
    \/ pump' = IF q = <<>> THEN "no" ELSE "gate"
    \/ ~stopped /\ rotations < MaxRotations /\ pump' = "handoff"

\* The current turn's promise settles.
Over(s, q) ==
    /\ status' = [s EXCEPT ![current] = "settled"]
    /\ current' = None /\ attempt' = "first" /\ pending' = FALSE
    /\ turnQueue' = q
    /\ AfterTurn(q)

---------------------------------------------------------------------------
(* People and the pool *)

\* ask()
Ask(m) ==
    /\ status[m] = "new" /\ ~stopped
    /\ status' = [status EXCEPT ![m] = "queued"]
    /\ \E i \in 1..(Len(turnQueue) + 1) :
          /\ Place(i, m, turnQueue)
          /\ turnQueue' = SubSeq(turnQueue, 1, i - 1) \o <<m>> \o SubSeq(turnQueue, i, Len(turnQueue))
    /\ pump' = IF pump = "no" THEN "gate" ELSE pump
    /\ UNCHANGED <<attempt, current, redrives, turn, child, session, stopped, bounds, observed>>

\* injectIntoLiveTurn
Inject(m) ==
    /\ status[m] = "new" /\ pending /\ child.up /\ ~peerTurnLive /\ injections < MaxInjected
    /\ status' = [status EXCEPT ![m] = "injected"]
    /\ child' = [child EXCEPT !.stdin = Append(@, Line(m, FALSE))]
    /\ injections' = injections + 1
    /\ injected' = injected \cup {m}
    /\ UNCHANGED <<queue, pending, deferred, peerTurnLive, session, stopped, bounds, observed>>

\* cancelLiveTurn passes in silence; reapTurn, at one of the deadlines, with a line.
EndLiveTurn ==
    /\ pending
    /\ Recycle
    /\ Over(status, turnQueue)
    /\ UNCHANGED <<redrives, injected, injections, session, stopped, bounds, phantom, grounded,
                   astray, bereft>>

CancelLiveTurn == current \in Priority /\ EndLiveTurn
ReapTurn == EndLiveTurn

\* supersedeQueuedTurns
SupersedeQueued(m) ==
    /\ \E i \in 1..Len(turnQueue) :
          /\ turnQueue[i] = m
          /\ turnQueue' = SubSeq(turnQueue, 1, i - 1) \o SubSeq(turnQueue, i + 1, Len(turnQueue))
    /\ status' = [status EXCEPT ![m] = "settled"]
    /\ UNCHANGED <<pump, attempt, current, redrives, turn, child, session, stopped, bounds,
                   observed>>

\* recycle(): the pool looks at the queue's depth first.
RecycleIdle ==
    /\ child.up /\ pump = "no" /\ turnQueue = <<>> /\ ~stopped
    /\ Recycle
    /\ UNCHANGED <<status, queue, pending, injected, injections, session, stopped, bounds,
                   phantom, grounded, astray, bereft>>

\* prewarm()
Prewarm ==
    /\ ~child.up /\ ~stopped
    /\ Launch(~freshNextLaunch, <<>>)
    /\ freshNextLaunch' = FALSE
    /\ UNCHANGED <<status, queue, pending, injected, injections, resumeRetryUsed, seedPending,
                   lastHandoff, stopped, bounds, phantom, grounded, dropped, astray, bereft>>

\* requestReload() of a session at rest, or the idle sweep
RotateWhileIdle ==
    /\ pump = "no" /\ turnQueue = <<>> /\ ~pending /\ ~peerTurnLive /\ deferred = "no"
    /\ ~stopped /\ rotations < MaxRotations
    /\ pump' = "handoff"
    /\ UNCHANGED <<status, turnQueue, attempt, current, redrives, turn, child, session, stopped,
                   bounds, observed>>

\* rotate(), after the handoff note is written: the old child is killed, a fresh one launched.
HandoffEnds ==
    /\ pump = "handoff"
    /\ rotations' = rotations + 1
    /\ Launch(FALSE, <<>>)
    /\ phantom' = TRUE /\ grounded' = FALSE /\ dropped' = FALSE
    /\ seedPending' = TRUE /\ lastHandoff' = TRUE
    /\ pump' = IF turnQueue = <<>> THEN "no" ELSE "gate"
    /\ UNCHANGED <<status, turnQueue, attempt, current, redrives, pending, injected, injections,
                   resumeRetryUsed, freshNextLaunch, stopped, exits, peers, astray, bereft>>

\* stop(): the turn in flight and the queue are rejected.
Stop ==
    /\ ~stopped
    /\ stopped' = TRUE
    /\ status' = [m \in Messages |-> IF status[m] = "queued" \/ (pending /\ m = current)
                                    THEN "settled" ELSE status[m]]
    /\ turnQueue' = <<>> /\ injected' = {}
    /\ pending' = FALSE /\ child' = Down /\ peerTurnLive' = FALSE /\ deferred' = "no"
    /\ current' = IF pending THEN None ELSE current
    /\ attempt' = IF pending THEN "first" ELSE attempt
    /\ pump' = IF pending THEN "no" ELSE pump
    /\ UNCHANGED <<redrives, injections, session, bounds, observed>>

---------------------------------------------------------------------------
(* The pump *)

\* The gate's slot is won; a stop may have emptied the queue meanwhile.
GateWon ==
    /\ pump = "gate"
    /\ \/ /\ turnQueue = <<>>
          /\ pump' = "no"
          /\ UNCHANGED <<status, turnQueue, attempt, current, redrives, turn, child, session, blind>>
       \/ /\ turnQueue # <<>>
          /\ status' = [status EXCEPT ![Head(turnQueue)] = "running"]
          /\ turnQueue' = Tail(turnQueue)
          /\ redrives' = 1 /\ attempt' = "first"
          /\ Drive(Head(turnQueue), child)
          /\ UNCHANGED injected
    /\ UNCHANGED <<stopped, bounds, phantom, grounded, dropped, astray, bereft>>

\* runTurn drives the same message again, after RESUME_RETRY_DELAY_MS or at once.
DriveAgain ==
    /\ pump = "delay"
    /\ Drive(current, child)
    /\ UNCHANGED <<status, turnQueue, attempt, redrives, injected, stopped, bounds, phantom, grounded,
                   dropped, astray, bereft>>

---------------------------------------------------------------------------
(* The child *)

\* It reads a line: idle, it starts a turn, and says "init" first; in a turn, it takes it in.
ChildReads ==
    /\ child.up /\ ~child.dud /\ child.stdin # <<>>
    /\ LET line == Head(child.stdin)
       IN  /\ child' = [child EXCEPT !.stdin = Tail(@), !.init = TRUE,
                                     !.working = @ \cup {line.message},
                                     !.stdout = IF child.init THEN @
                                                ELSE Append(@, [kind |-> "init"])]
           /\ grounded' = (grounded \/ line.seed)
    /\ phantom' = FALSE
    /\ UNCHANGED <<status, queue, turn, session, stopped, bounds, blind, dropped, astray, bereft>>

\* A peer's message wakes an idle child.
PeerTurn ==
    /\ child.up /\ ~child.dud /\ child.working = {} /\ peers < MaxPeers
    /\ peers' = peers + 1
    /\ child' = [child EXCEPT !.init = TRUE, !.working = {Peer},
                              !.stdout = IF child.init THEN @ ELSE Append(@, [kind |-> "init"])]
    /\ phantom' = FALSE
    /\ blind' = (blind \/ child.stdin # <<>>)
    /\ UNCHANGED <<status, queue, turn, session, stopped, exits, rotations, grounded, dropped,
                   astray, bereft>>

\* It tells what it is at: one frame at a time is enough.
ChildTells ==
    /\ child.up /\ child.working # {} /\ child.stdout = <<>>
    /\ child' = [child EXCEPT !.stdout = <<[kind |-> "event"]>>]
    /\ UNCHANGED <<status, queue, turn, session, stopped, bounds, observed>>

\* The turn's result, with or without a delivery object; a resume that fails may give an empty
\* one instead of a turn.
ChildResult ==
    /\ child.up
    /\ \E output \in BOOLEAN :
          \/ /\ child.working # {}
             /\ child' = [child EXCEPT
                            !.working = {},
                            !.stdout = Append(@, [kind |-> "result", read |-> child.working,
                                                  output |-> output])]
          \/ /\ child.dud /\ child.stdin # <<>> /\ child.stdout = <<>> /\ ~output
             /\ child' = [child EXCEPT
                            !.stdout = Append(@, [kind |-> "result", read |-> {},
                                                  output |-> FALSE])]
    /\ UNCHANGED <<status, queue, turn, session, stopped, bounds, observed>>

\* A fresh session is given the last handoff again.
SeedNothing == seedPending
SeedAgain == seedPending \/ lastHandoff

\* onExit of a stopped session
ExitAfterStop ==
    /\ child.up /\ stopped /\ exits < MaxExits
    /\ exits' = exits + 1
    /\ Recycle
    /\ UNCHANGED <<status, queue, pending, injected, injections, session, stopped, peers,
                   rotations, phantom, grounded, astray, bereft>>

\* onExit's ladder for a resume that died before init: the same resume once more, then a fresh
\* session.  A turn in flight is driven again if its attempt allows that rung, else rejected.
ChildExits ==
    /\ child.up /\ ~stopped /\ exits < MaxExits
    /\ exits' = exits + 1
    /\ child' = Down
    /\ peerTurnLive' = FALSE /\ deferred' = "no" /\ blind' = FALSE
    /\ pending' = FALSE
    /\ LET died == lastLaunchWasResume /\ ~initSeen
           retry == died /\ ~resumeRetryUsed
           fresh == died /\ resumeRetryUsed
       IN  /\ resumeRetryUsed' = ((resumeRetryUsed \/ retry) /\ ~fresh)
           /\ freshNextLaunch' = (freshNextLaunch \/ fresh)
           /\ phantom' = (phantom \/ fresh)
           /\ grounded' = (grounded /\ ~fresh)
           /\ dropped' = ((dropped \/ SeedDies) /\ ~fresh)
           /\ seedPending' = IF fresh THEN SeedAgain ELSE seedPending
           /\ \/ ~pending /\ UNCHANGED <<status, queue>>
              \/ /\ pending
                 /\ \/ retry /\ attempt = "first" /\ attempt' = "retry"
                    \/ fresh /\ attempt # "last" /\ attempt' = "last"
                 /\ pump' = "delay"
                 /\ UNCHANGED <<status, turnQueue, current, redrives>>
              \/ /\ pending
                 /\ ~(retry /\ attempt = "first") /\ ~(fresh /\ attempt # "last")
                 /\ Over(status, turnQueue)
                 /\ UNCHANGED redrives
    /\ UNCHANGED <<injected, injections, initSeen, lastLaunchWasResume, lastHandoff, stopped,
                   peers, rotations, astray, bereft>>

---------------------------------------------------------------------------
(* handleLine, for the current child; the lines of earlier ones are ignored *)

Frame == Head(child.stdout)
Popped == [child EXCEPT !.stdout = Tail(@)]

ReadInit ==
    /\ child.up /\ child.stdout # <<>> /\ Frame.kind = "init"
    /\ child' = Popped
    /\ initSeen' = TRUE /\ resumeRetryUsed' = FALSE
    /\ UNCHANGED <<status, queue, turn, lastLaunchWasResume, freshNextLaunch, seedPending,
                   lastHandoff, stopped, bounds, observed>>

\* notePeerTurnStart: work that no turn of ours waits for.
ReadEvent ==
    /\ child.up /\ child.stdout # <<>> /\ Frame.kind = "event"
    /\ child' = Popped
    /\ peerTurnLive' = (peerTurnLive \/ ~pending)
    /\ UNCHANGED <<status, queue, pending, deferred, injected, injections, session, stopped,
                   bounds, observed>>

Bare == ~Frame.output /\ ~initSeen
Unsolicited == ~pending \/ peerTurnLive

\* onResult, on a session that never came up: the exit that follows decides.
ReadDeadResult ==
    /\ child.up /\ child.stdout # <<>> /\ Frame.kind = "result"
    /\ ~Unsolicited /\ Bare
    /\ child' = Popped
    /\ UNCHANGED <<status, queue, turn, session, stopped, bounds, observed>>

\* onResult, of a turn that nobody asked for: its output goes nowhere.  What was injected goes back
\* to where messages come from (onOrphanedInjection), and a line that was held back is written.
ReadUnsolicited ==
    /\ child.up /\ child.stdout # <<>> /\ Frame.kind = "result" /\ Unsolicited
    /\ status' = [m \in Messages |->
                    IF m \in injected THEN "new"
                    ELSE IF status[m] = "injected" /\ m \in Frame.read THEN "lost"
                    ELSE status[m]]
    /\ injected' = {}
    /\ peerTurnLive' = FALSE /\ deferred' = "no"
    /\ IF deferred # "no" /\ pending
       THEN /\ child' = [Popped EXCEPT !.stdin = Append(@, Line(current, deferred = "seeded"))]
            /\ blind' = (blind \/ Unseen(Popped))
       ELSE child' = Popped /\ blind' = blind
    /\ UNCHANGED <<queue, pending, injections, session, stopped, bounds,
                   phantom, grounded, dropped, astray, bereft>>

\* Lost output is asked for once more, of the same child, if the attempt may be followed.
RedriveAlways == current \in Direct
MayRedrive == current \in Direct /\ redrives > 0 /\ attempt = "first"

\* onResult, of the turn in flight: what was injected counts as covered by its reply.
ReadReply ==
    /\ child.up /\ child.stdout # <<>> /\ Frame.kind = "result"
    /\ ~Unsolicited /\ ~Bare
    /\ injected' = {}
    /\ LET covered == [m \in Messages |-> IF status[m] = "injected" /\ m \in Frame.read
                                          THEN "settled" ELSE status[m]]
       IN  \/ /\ Frame.output
              /\ astray' = (astray \/ (current \notin Frame.read /\ ~blind))
              /\ bereft' = (bereft \/ (current \in Frame.read /\ lastHandoff /\ ~grounded /\ ~dropped))
              /\ child' = Popped
              /\ Over(covered, turnQueue)
              /\ UNCHANGED <<redrives, deferred, peerTurnLive, injections, session, blind>>
           \/ /\ ~Frame.output /\ MayRedrive
              /\ redrives' = redrives - 1 /\ attempt' = "last"
              /\ status' = covered
              /\ Drive(current, Popped)
              /\ UNCHANGED <<turnQueue, astray, bereft>>
           \/ /\ ~Frame.output /\ ~MayRedrive
              /\ redrives' = IF current \in Direct THEN 0 ELSE redrives
              /\ child' = Popped
              /\ Over(covered, turnQueue)
              /\ UNCHANGED <<deferred, peerTurnLive, injections, session, blind, astray, bereft>>
    /\ UNCHANGED <<stopped, bounds, phantom, grounded, dropped>>

---------------------------------------------------------------------------
(* The specification *)

Reads == ReadInit \/ ReadEvent \/ ReadDeadResult \/ ReadUnsolicited \/ ReadReply

Next ==
    \/ \E m \in Messages : Ask(m) \/ Inject(m) \/ SupersedeQueued(m)
    \/ CancelLiveTurn \/ ReapTurn \/ RecycleIdle \/ Prewarm \/ RotateWhileIdle \/ HandoffEnds
    \/ Stop \/ GateWon \/ DriveAgain
    \/ ChildReads \/ PeerTurn \/ ChildTells \/ ChildResult \/ ChildExits \/ ExitAfterStop
    \/ Reads

Spec == Init /\ [][Next]_vars

\* The gate hands its slot on, the handoff's worker has a deadline of its own, timers fire, and a
\* turn that is not over at TURN_ABSOLUTE_CEILING_MS is reaped.  Nothing is assumed of the child.
FairSpec ==
    /\ Spec
    /\ WF_vars(GateWon) /\ WF_vars(DriveAgain) /\ WF_vars(HandoffEnds) /\ WF_vars(ReapTurn)

---------------------------------------------------------------------------
(* Properties *)

\* A message is answered by a turn that has read it: not by a peer's, not by one that a killed
\* child was at, whatever was cancelled, recycled, reaped, rotated or driven again between.  The
\* exception is a child that was at other work, and had not said so, when the line was written.
RightAnswer == ~astray

\* The transcript of a session that answers holds the handoff of the session before it: the seed
\* survives every rung of the ladder and a child that dies with it unread.  The exception is a
\* session whose transcript a peer's turn began before the line with the seed was read, and one
\* that a rotation launched while the ladder's fresh launch was still owed.
HandoffReaches == ~bereft

\* Nobody waits in vain: a message that was asked for is in the queue of a pump that runs, and the
\* one whose turn began is the current one, whose turn awaits its result or its next attempt.
AsksTended ==
    /\ \A m \in Messages : status[m] = "queued" =>
         pump # "no" /\ \E i \in 1..Len(turnQueue) : turnQueue[i] = m
    /\ \A m \in Messages : status[m] = "running" =>
         m = current /\ (pump = "delay" \/ (pump = "turn" /\ pending))

\* A message that waits for a turn gets one, and an end of it.
AsksSettle ==
    \A m \in Messages : status[m] \in {"queued", "running"} ~> status[m] \notin {"queued", "running"}

\* index.ts:538-539: what a result of the turn in flight clears is covered by its reply; TLC refutes
\* it: the turn's result may come before the child has read the line.
InjectionAnswered == \A m \in Messages : status[m] # "lost"

\* index.ts:1584: a session that was stopped has no child; TLC refutes it for a stop while rotate()
\* awaits the handoff, or runTurn its retry.
StopIsFinal == stopped => ~child.up

=============================================================================
