-------------------------- MODULE ConciergeProofs --------------------------
(***************************************************************************)
(* A concierge session answers a message from a turn that has read it, for  *)
(* any number of messages, peers' turns, exits, injections and rotations.   *)
(***************************************************************************)
EXTENDS ConciergeSession, SequenceTheorems, TLAPS

\* A turn that awaits its result, or its next attempt, has a message.
Driven ==
    /\ pending => pump = "turn"
    /\ pending \/ pump = "delay" => current \in Messages
    /\ pump = "handoff" => rotations < MaxRotations

SessionTypes == TypeOK /\ Driven

-----------------------------------------------------------------------------
(* Types *)

LEMMA FramesAre ==
    /\ [kind |-> "init"] \in Frames /\ [kind |-> "event"] \in Frames
    /\ \A r \in SUBSET (Messages \cup {Peer}), o \in BOOLEAN :
          [kind |-> "result", read |-> r, output |-> o] \in Frames
BY DEF Frames

LEMMA ChildIs ==
    ASSUME NEW dud \in BOOLEAN, NEW stdin \in Seq(Lines)
    PROVE  Child(dud, stdin) \in Children /\ Down \in Children
<1>1. <<>> \in Seq(Frames) /\ <<>> \in Seq(Lines)
    OBVIOUS
<1>2. \A d \in BOOLEAN, s \in Seq(Lines) : Child(d, s) \in Children
    BY <1>1 DEF Child, Children
<1>3. Child(FALSE, <<>>) \in Children
    BY <1>1, <1>2
<1>4. Down \in Children
    BY <1>3 DEF Down, Children
<1> QED BY <1>2, <1>4

LEMMA LineIs ==
    ASSUME NEW m \in Messages, NEW seed \in BOOLEAN
    PROVE  Line(m, seed) \in Lines
BY DEF Line, Lines

\* What a child may be after a change of one pipe
LEMMA PipesKept ==
    ASSUME NEW c \in Children
    PROVE  /\ c.stdout # <<>> => [c EXCEPT !.stdout = Tail(c.stdout)] \in Children
           /\ c.stdin # <<>> => Head(c.stdin) \in Lines /\ Tail(c.stdin) \in Seq(Lines)
           /\ \A l \in Lines : [c EXCEPT !.stdin = Append(c.stdin, l)] \in Children
           /\ \A f \in Frames : Append(c.stdout, f) \in Seq(Frames)
<1>1. c.stdout \in Seq(Frames) /\ c.stdin \in Seq(Lines)
    BY DEF Children
<1>2. c.stdout # <<>> => Tail(c.stdout) \in Seq(Frames)
    BY <1>1
<1>3. c.stdin # <<>> => Head(c.stdin) \in Lines /\ Tail(c.stdin) \in Seq(Lines)
    BY <1>1
<1>4. \A l \in Lines : Append(c.stdin, l) \in Seq(Lines)
    BY <1>1
<1>5. \A f \in Frames : Append(c.stdout, f) \in Seq(Frames)
    BY <1>1
<1>6. \A s \in Seq(Frames) : [c EXCEPT !.stdout = s] \in Children
    BY DEF Children
<1>7. \A s \in Seq(Lines) : [c EXCEPT !.stdin = s] \in Children
    BY DEF Children
<1> QED BY <1>2, <1>3, <1>4, <1>5, <1>6, <1>7

LEMMA LaunchTypes ==
    ASSUME TypeOK, NEW resume \in BOOLEAN, NEW stdin \in Seq(Lines), Launch(resume, stdin)
    PROVE  /\ child' \in Children /\ child'.up /\ child'.stdin = stdin
           /\ initSeen' = FALSE /\ lastLaunchWasResume' \in BOOLEAN /\ peerTurnLive' = FALSE
           /\ deferred' = "no" /\ blind' = FALSE
<1>1. PICK dud \in BOOLEAN : child' = Child(dud, stdin)
    BY DEF Launch
<1> QED BY <1>1, ChildIs DEF Launch, Child

LEMMA DriveTypes ==
    ASSUME TypeOK, NEW m \in Messages, NEW c \in Children, Drive(m, c)
    PROVE  /\ pump' = "turn" /\ current' = m /\ pending' = TRUE /\ injections' = 0
           /\ child' \in Children /\ child'.up
           /\ deferred' \in {"no", "plain", "seeded"} /\ peerTurnLive' \in BOOLEAN
           /\ initSeen' \in BOOLEAN /\ lastLaunchWasResume' \in BOOLEAN
           /\ resumeRetryUsed' \in BOOLEAN /\ freshNextLaunch' \in BOOLEAN
           /\ seedPending' \in BOOLEAN /\ lastHandoff' \in BOOLEAN /\ blind' \in BOOLEAN
<1> USE DEF TypeOK
<1>1. Line(m, seedPending) \in Lines /\ <<Line(m, seedPending)>> \in Seq(Lines)
    BY LineIs
<1>2. CASE c.up /\ HoldLine /\ child' = c
    BY <1>2 DEF Drive
<1>3. CASE c.up /\ ~HoldLine
    <2>1. child' = [c EXCEPT !.stdin = Append(c.stdin, Line(m, seedPending))]
        BY <1>3 DEF Drive
    <2>2. child' \in Children /\ child'.up
        BY <1>1, <1>3, <2>1, PipesKept DEF Children
    <2> QED BY <1>3, <2>2 DEF Drive
<1>4. CASE ~c.up
    <2>1. Launch(~freshNextLaunch, <<Line(m, seedPending)>>)
        BY <1>4 DEF Drive
    <2> QED BY <1>1, <1>4, <2>1, LaunchTypes DEF Drive
<1> QED BY <1>2, <1>3, <1>4 DEF Drive

LEMMA TypesInitially == Init => SessionTypes
<1> SUFFICES ASSUME Init PROVE SessionTypes
    OBVIOUS
<1>1. child \in Children
    <2>1. PICK dud \in BOOLEAN : child = Child(dud, <<>>)
        BY DEF Init
    <2>2. <<>> \in Seq(Lines)
        OBVIOUS
    <2> QED BY <2>1, <2>2, ChildIs
<1>2. /\ injections \in 0..MaxInjected /\ exits \in 0..MaxExits /\ peers \in 0..MaxPeers
      /\ rotations \in 0..MaxRotations
    BY SessionAssumption DEF SessionAssumption, Init
<1>3. /\ status \in [Messages -> {"new", "queued", "running", "injected", "settled", "lost"}]
      /\ turnQueue \in Seq(Messages) /\ redrives \in 0..1
      /\ pump = "no" /\ attempt = "first" /\ current = None /\ deferred = "no"
      /\ pending = FALSE /\ peerTurnLive = FALSE /\ injected = {}
    BY DEF Init
<1>4. /\ initSeen \in BOOLEAN /\ lastLaunchWasResume \in BOOLEAN /\ resumeRetryUsed \in BOOLEAN
      /\ freshNextLaunch \in BOOLEAN /\ seedPending \in BOOLEAN /\ lastHandoff \in BOOLEAN
      /\ stopped \in BOOLEAN /\ phantom \in BOOLEAN /\ grounded \in BOOLEAN
      /\ blind \in BOOLEAN /\ dropped \in BOOLEAN /\ astray \in BOOLEAN /\ bereft \in BOOLEAN
    BY DEF Init
<1> QED BY <1>1, <1>2, <1>3, <1>4 DEF SessionTypes, TypeOK, Driven

LEMMA PeopleTypes ==
    ASSUME SessionTypes, NEW m \in Messages, Ask(m) \/ Inject(m) \/ SupersedeQueued(m)
    PROVE  SessionTypes'
<1> USE DEF SessionTypes, TypeOK, Driven, bounds, observed, session, turn, queue
<1>1. CASE Ask(m)
    <2>1. PICK i \in 1..(Len(turnQueue) + 1) :
             turnQueue' = SubSeq(turnQueue, 1, i - 1) \o <<m>> \o SubSeq(turnQueue, i, Len(turnQueue))
        BY <1>1 DEF Ask
    <2>2. turnQueue' \in Seq(Messages)
        BY <2>1
    <2> QED BY <1>1, <2>2 DEF Ask
<1>2. CASE Inject(m)
    <2>1. child' \in Children
        BY <1>2, PipesKept, LineIs DEF Inject
    <2>2. injections' \in 0..MaxInjected
        BY <1>2, SessionAssumption DEF Inject, SessionAssumption
    <2> QED BY <1>2, <2>1, <2>2 DEF Inject
<1>3. CASE SupersedeQueued(m)
    <2>1. turnQueue' \in Seq(Messages)
        BY <1>3 DEF SupersedeQueued
    <2> QED BY <1>3, <2>1 DEF SupersedeQueued
<1> QED BY <1>1, <1>2, <1>3

\* A turn that ends leaves the pump at no turn.
LEMMA OverTypes ==
    ASSUME SessionTypes, NEW s \in [Messages -> {"new", "queued", "running", "injected", "settled", "lost"}],
           NEW q \in Seq(Messages), Over(s, q)
    PROVE  /\ status' \in [Messages -> {"new", "queued", "running", "injected", "settled", "lost"}]
           /\ turnQueue' \in Seq(Messages) /\ pump' \in {"no", "gate", "handoff"}
           /\ attempt' = "first" /\ current' = None /\ ~pending' /\ pending' \in BOOLEAN
           /\ pump' = "handoff" => rotations < MaxRotations
BY DEF Over, AfterTurn

LEMMA PoolTypes ==
    ASSUME SessionTypes,
           CancelLiveTurn \/ ReapTurn \/ RecycleIdle \/ Prewarm \/ RotateWhileIdle \/ HandoffEnds \/ Stop
    PROVE  SessionTypes'
<1> USE DEF SessionTypes, TypeOK, Driven
<1>1. Down \in Children /\ <<>> \in Seq(Lines)
    <2>1. <<>> \in Seq(Lines)
        OBVIOUS
    <2> QED BY <2>1, ChildIs
<1>2. CASE CancelLiveTurn \/ ReapTurn
    <2>1. EndLiveTurn
        BY <1>2 DEF CancelLiveTurn, ReapTurn
    <2>2. /\ child' \in Children /\ peerTurnLive' \in BOOLEAN /\ deferred' = "no"
          /\ blind' \in BOOLEAN /\ dropped' \in BOOLEAN
        BY <1>1, <2>1 DEF EndLiveTurn, Recycle
    <2>3. Over(status, turnQueue)
        BY <2>1 DEF EndLiveTurn
    <2>4. UNCHANGED <<redrives, injected, injections, session, stopped, bounds, phantom, grounded,
                      astray, bereft>>
        BY <2>1 DEF EndLiveTurn
    <2>5. /\ status' \in [Messages -> {"new", "queued", "running", "injected", "settled", "lost"}]
          /\ turnQueue' \in Seq(Messages) /\ pump' \in {"no", "gate", "handoff"}
          /\ attempt' = "first" /\ current' = None /\ ~pending' /\ pending' \in BOOLEAN
          /\ pump' = "handoff" => rotations < MaxRotations
        BY <2>3, OverTypes
    <2> QED BY <2>2, <2>4, <2>5 DEF session, bounds
<1>3. CASE RecycleIdle
    <2>1. /\ child' \in Children /\ peerTurnLive' \in BOOLEAN /\ deferred' = "no"
          /\ blind' \in BOOLEAN /\ dropped' \in BOOLEAN
        BY <1>1, <1>3 DEF RecycleIdle, Recycle
    <2>2. UNCHANGED <<status, queue, pending, injected, injections, session, stopped, bounds,
                      phantom, grounded, astray, bereft>>
        BY <1>3 DEF RecycleIdle
    <2> QED BY <2>1, <2>2 DEF queue, session, bounds
<1>4. CASE Prewarm
    <2>1. Launch(~freshNextLaunch, <<>>)
        BY <1>4 DEF Prewarm
    <2>2. /\ child' \in Children /\ peerTurnLive' \in BOOLEAN /\ deferred' = "no" /\ blind' \in BOOLEAN
          /\ initSeen' \in BOOLEAN /\ lastLaunchWasResume' \in BOOLEAN
        BY <1>1, <2>1, LaunchTypes
    <2>3. /\ freshNextLaunch' \in BOOLEAN
          /\ UNCHANGED <<status, queue, pending, injected, injections, resumeRetryUsed, seedPending,
                         lastHandoff, stopped, bounds, phantom, grounded, dropped, astray, bereft>>
        BY <1>4 DEF Prewarm
    <2> QED BY <2>2, <2>3 DEF queue, bounds
<1>5. CASE RotateWhileIdle
    BY <1>5 DEF RotateWhileIdle, turn, session, bounds, observed
<1>6. CASE HandoffEnds
    <2>1. Launch(FALSE, <<>>)
        BY <1>6 DEF HandoffEnds
    <2>2. rotations' \in 0..MaxRotations /\ pump' \in {"no", "gate"}
        BY <1>6, SessionAssumption DEF HandoffEnds, SessionAssumption
    <2>3. /\ child' \in Children /\ peerTurnLive' \in BOOLEAN /\ deferred' = "no" /\ blind' \in BOOLEAN
          /\ initSeen' \in BOOLEAN /\ lastLaunchWasResume' \in BOOLEAN
        BY <1>1, <2>1, LaunchTypes
    <2>4. /\ phantom' \in BOOLEAN /\ grounded' \in BOOLEAN /\ dropped' \in BOOLEAN
          /\ seedPending' \in BOOLEAN /\ lastHandoff' \in BOOLEAN
          /\ UNCHANGED <<status, turnQueue, attempt, current, redrives, pending, injected, injections,
                         resumeRetryUsed, freshNextLaunch, stopped, exits, peers, astray, bereft>>
        BY <1>6 DEF HandoffEnds
    <2>5. ~pending
        BY <1>6 DEF HandoffEnds
    <2> QED BY <2>2, <2>3, <2>4, <2>5
<1>7. CASE Stop
    <2>1. status' \in [Messages -> {"new", "queued", "running", "injected", "settled", "lost"}]
        BY <1>7 DEF Stop
    <2>2. /\ turnQueue' \in Seq(Messages) /\ injected' \subseteq Messages
          /\ ~pending' /\ pending' \in BOOLEAN
          /\ child' \in Children /\ peerTurnLive' \in BOOLEAN /\ deferred' = "no"
          /\ stopped' \in BOOLEAN
        <3>1. <<>> \in Seq(Messages)
            OBVIOUS
        <3> QED BY <1>1, <1>7, <3>1 DEF Stop
    <2>3. /\ current' = IF pending THEN None ELSE current
          /\ attempt' = IF pending THEN "first" ELSE attempt
          /\ pump' = IF pending THEN "no" ELSE pump
          /\ UNCHANGED <<redrives, injections, session, bounds, observed>>
        BY <1>7 DEF Stop
    <2> QED BY <2>1, <2>2, <2>3 DEF session, bounds, observed
<1> QED BY <1>2, <1>3, <1>4, <1>5, <1>6, <1>7

LEMMA PumpTypes ==
    ASSUME SessionTypes, GateWon \/ DriveAgain
    PROVE  SessionTypes'
<1> USE DEF SessionTypes, TypeOK, Driven
<1>1. child \in Children /\ 0 \in 0..MaxInjected
    BY SessionAssumption DEF SessionAssumption
<1>2. CASE GateWon /\ turnQueue = <<>>
    BY <1>2 DEF GateWon, turn, session, bounds
<1>3. CASE GateWon /\ turnQueue # <<>>
    <2>1. Head(turnQueue) \in Messages /\ Tail(turnQueue) \in Seq(Messages)
        BY <1>3
    <2>2. Drive(Head(turnQueue), child)
        BY <1>3 DEF GateWon
    <2>3. /\ pump' = "turn" /\ current' \in Messages /\ pending' = TRUE /\ injections' = 0
          /\ child' \in Children
          /\ deferred' \in {"no", "plain", "seeded"} /\ peerTurnLive' \in BOOLEAN
          /\ initSeen' \in BOOLEAN /\ lastLaunchWasResume' \in BOOLEAN
          /\ resumeRetryUsed' \in BOOLEAN /\ freshNextLaunch' \in BOOLEAN
          /\ seedPending' \in BOOLEAN /\ lastHandoff' \in BOOLEAN /\ blind' \in BOOLEAN
        BY <1>1, <2>1, <2>2, DriveTypes
    <2>4. /\ status' \in [Messages -> {"new", "queued", "running", "injected", "settled", "lost"}]
          /\ turnQueue' \in Seq(Messages) /\ redrives' \in 0..1 /\ attempt' = "first"
          /\ UNCHANGED <<injected, stopped, bounds, phantom, grounded, dropped, astray, bereft>>
        BY <1>3, <2>1 DEF GateWon
    <2> QED BY <1>1, <2>3, <2>4 DEF bounds
<1>4. CASE DriveAgain
    <2>1. current \in Messages /\ Drive(current, child)
        BY <1>4 DEF DriveAgain
    <2>2. /\ pump' = "turn" /\ current' \in Messages /\ pending' = TRUE /\ injections' = 0
          /\ child' \in Children
          /\ deferred' \in {"no", "plain", "seeded"} /\ peerTurnLive' \in BOOLEAN
          /\ initSeen' \in BOOLEAN /\ lastLaunchWasResume' \in BOOLEAN
          /\ resumeRetryUsed' \in BOOLEAN /\ freshNextLaunch' \in BOOLEAN
          /\ seedPending' \in BOOLEAN /\ lastHandoff' \in BOOLEAN /\ blind' \in BOOLEAN
        BY <1>1, <2>1, DriveTypes
    <2>3. UNCHANGED <<status, turnQueue, attempt, redrives, injected, stopped, bounds, phantom,
                      grounded, dropped, astray, bereft>>
        BY <1>4 DEF DriveAgain
    <2> QED BY <1>1, <2>2, <2>3 DEF bounds
<1> QED BY <1>2, <1>3, <1>4

LEMMA ChildTypes ==
    ASSUME SessionTypes, ChildReads \/ PeerTurn \/ ChildTells \/ ChildResult
    PROVE  SessionTypes'
<1> USE DEF SessionTypes, TypeOK, Driven
<1>1. child \in Children /\ child.stdout \in Seq(Frames) /\ child.working \subseteq Messages \cup {Peer}
    BY DEF Children
<1>2. CASE ChildReads
    <2> DEFINE out == IF child.init THEN child.stdout ELSE Append(child.stdout, [kind |-> "init"])
    <2>1. out \in Seq(Frames)
        BY <1>1, FramesAre, PipesKept
    <2>2. Head(child.stdin) \in Lines /\ Tail(child.stdin) \in Seq(Lines)
        BY <1>1, <1>2, PipesKept DEF ChildReads
    <2>3. Head(child.stdin).message \in Messages \cup {Peer} /\ Head(child.stdin).seed \in BOOLEAN
        BY <2>2 DEF Lines
    <2>4. child' = [child EXCEPT !.stdin = Tail(child.stdin), !.init = TRUE,
                                 !.working = child.working \cup {Head(child.stdin).message},
                                 !.stdout = out]
        BY <1>2 DEF ChildReads
    <2>5. child' \in Children
        BY <1>1, <2>1, <2>2, <2>3, <2>4 DEF Children
    <2>6. grounded' \in BOOLEAN /\ phantom' \in BOOLEAN
        BY <1>2, <2>3 DEF ChildReads
    <2>7. UNCHANGED <<status, queue, turn, session, stopped, bounds, blind, dropped, astray, bereft>>
        BY <1>2 DEF ChildReads
    <2> QED BY <2>5, <2>6, <2>7 DEF queue, turn, session, bounds
<1>3. CASE PeerTurn
    <2> DEFINE out == IF child.init THEN child.stdout ELSE Append(child.stdout, [kind |-> "init"])
    <2>1. out \in Seq(Frames)
        BY <1>1, FramesAre, PipesKept
    <2>2. child' = [child EXCEPT !.init = TRUE, !.working = {Peer}, !.stdout = out]
        BY <1>3 DEF PeerTurn
    <2>3. child' \in Children
        BY <1>1, <2>1, <2>2 DEF Children
    <2>4. peers' \in 0..MaxPeers
        BY <1>3, SessionAssumption DEF PeerTurn, SessionAssumption
    <2>5. /\ phantom' \in BOOLEAN /\ blind' \in BOOLEAN
          /\ UNCHANGED <<status, queue, turn, session, stopped, exits, rotations, grounded, dropped,
                         astray, bereft>>
        BY <1>3 DEF PeerTurn
    <2> QED BY <2>3, <2>4, <2>5 DEF queue, turn, session
<1>4. CASE ChildTells
    <2>1. <<[kind |-> "event"]>> \in Seq(Frames)
        BY FramesAre
    <2>2. child' \in Children
        BY <1>1, <1>4, <2>1 DEF ChildTells, Children
    <2>9. UNCHANGED <<status, queue, turn, session, stopped, bounds, observed>>
        BY <1>4 DEF ChildTells
    <2> QED BY <2>2, <2>9 DEF queue, turn, session, bounds, observed
<1>5. CASE ChildResult
    <2>1. PICK output \in BOOLEAN :
             \/ child' = [child EXCEPT !.working = {},
                                !.stdout = Append(child.stdout, [kind |-> "result", read |-> child.working,
                                                          output |-> output])]
             \/ child' = [child EXCEPT !.stdout = Append(child.stdout, [kind |-> "result", read |-> {},
                                                          output |-> FALSE])]
        BY <1>5 DEF ChildResult
    <2>2. /\ Append(child.stdout, [kind |-> "result", read |-> child.working, output |-> output]) \in Seq(Frames)
          /\ Append(child.stdout, [kind |-> "result", read |-> {}, output |-> FALSE]) \in Seq(Frames)
        BY <1>1, FramesAre, PipesKept
    <2>3. child' \in Children
        BY <1>1, <2>1, <2>2 DEF Children
    <2>9. UNCHANGED <<status, queue, turn, session, stopped, bounds, observed>>
        BY <1>5 DEF ChildResult
    <2> QED BY <2>3, <2>9 DEF queue, turn, session, bounds, observed
<1> QED BY <1>2, <1>3, <1>4, <1>5

LEMMA ExitTypes ==
    ASSUME SessionTypes, ChildExits \/ ExitAfterStop
    PROVE  SessionTypes'
<1> USE DEF SessionTypes, TypeOK, Driven
<1>1. Down \in Children
    <2>1. <<>> \in Seq(Lines)
        OBVIOUS
    <2> QED BY <2>1, ChildIs
<1>2. CASE ExitAfterStop
    <2>1. /\ child' \in Children /\ peerTurnLive' \in BOOLEAN /\ deferred' = "no"
          /\ blind' \in BOOLEAN /\ dropped' \in BOOLEAN
        BY <1>1, <1>2 DEF ExitAfterStop, Recycle
    <2>2. exits' \in 0..MaxExits
        BY <1>2, SessionAssumption DEF ExitAfterStop, SessionAssumption
    <2>3. UNCHANGED <<status, queue, pending, injected, injections, session, stopped, peers,
                      rotations, phantom, grounded, astray, bereft>>
        BY <1>2 DEF ExitAfterStop
    <2> QED BY <2>1, <2>2, <2>3 DEF queue, session
<1>3. CASE ChildExits
    <2>1. /\ child' \in Children /\ peerTurnLive' \in BOOLEAN /\ deferred' = "no" /\ blind' \in BOOLEAN
          /\ ~pending' /\ pending' \in BOOLEAN /\ exits' \in 0..MaxExits
        <3>1. exits' \in 0..MaxExits
            BY <1>3, SessionAssumption DEF ChildExits, SessionAssumption
        <3> QED BY <1>1, <1>3, <3>1 DEF ChildExits
    <2>2. /\ resumeRetryUsed' \in BOOLEAN /\ freshNextLaunch' \in BOOLEAN /\ phantom' \in BOOLEAN
          /\ grounded' \in BOOLEAN /\ dropped' \in BOOLEAN
        BY <1>3 DEF ChildExits
    <2>3. seedPending' \in BOOLEAN
        BY <1>3 DEF ChildExits, SeedAgain
    <2>4. \/ ~pending /\ UNCHANGED <<status, turnQueue, pump, attempt, current, redrives>>
          \/ /\ pending /\ attempt' \in {"retry", "last"} /\ pump' = "delay"
             /\ UNCHANGED <<status, turnQueue, current, redrives>>
          \/ pending /\ Over(status, turnQueue) /\ UNCHANGED redrives
        BY <1>3 DEF ChildExits, queue
    <2>5. UNCHANGED <<injected, injections, initSeen, lastLaunchWasResume, lastHandoff, stopped,
                      peers, rotations, astray, bereft>>
        BY <1>3 DEF ChildExits
    <2>6. /\ status' \in [Messages -> {"new", "queued", "running", "injected", "settled", "lost"}]
          /\ turnQueue' \in Seq(Messages) /\ redrives' \in 0..1
          /\ pump' \in {"no", "gate", "turn", "delay", "handoff"} /\ attempt' \in {"first", "retry", "last"}
          /\ current' \in Messages \cup {None}
          /\ pump' = "delay" => current' \in Messages
          /\ pump' = "handoff" => rotations < MaxRotations
        BY <2>4, OverTypes
    <2> QED BY <2>1, <2>2, <2>3, <2>5, <2>6
<1> QED BY <1>2, <1>3

LEMMA ReadTypes ==
    ASSUME SessionTypes, Reads
    PROVE  SessionTypes'
<1> USE DEF SessionTypes, TypeOK, Driven
<1>1. child \in Children /\ child.stdout # <<>>
    BY DEF Reads, ReadInit, ReadEvent, ReadDeadResult, ReadUnsolicited, ReadReply
<1>2. Popped \in Children
    BY <1>1, PipesKept DEF Popped
<1>3. CASE ReadInit
    <2>1. child' \in Children /\ initSeen' \in BOOLEAN /\ resumeRetryUsed' \in BOOLEAN
        BY <1>2, <1>3 DEF ReadInit
    <2>2. UNCHANGED <<status, queue, turn, lastLaunchWasResume, freshNextLaunch, seedPending,
                      lastHandoff, stopped, bounds, observed>>
        BY <1>3 DEF ReadInit
    <2> QED BY <2>1, <2>2 DEF queue, turn, bounds, observed
<1>4. CASE ReadEvent
    <2>1. child' \in Children /\ peerTurnLive' \in BOOLEAN
        BY <1>2, <1>4 DEF ReadEvent
    <2>2. UNCHANGED <<status, queue, pending, deferred, injected, injections, session, stopped,
                      bounds, observed>>
        BY <1>4 DEF ReadEvent
    <2> QED BY <2>1, <2>2 DEF queue, session, bounds, observed
<1>5. CASE ReadDeadResult
    <2>1. child' \in Children /\ UNCHANGED <<status, queue, turn, session, stopped, bounds, observed>>
        BY <1>2, <1>5 DEF ReadDeadResult
    <2> QED BY <2>1 DEF queue, turn, session, bounds, observed
<1>6. CASE ReadUnsolicited
    <2>1. status' \in [Messages -> {"new", "queued", "running", "injected", "settled", "lost"}]
        BY <1>6 DEF ReadUnsolicited
    <2>2. child' \in Children
        <3>1. CASE deferred # "no" /\ pending
            <4>1. (deferred = "seeded") \in BOOLEAN /\ current \in Messages
                BY <3>1
            <4>2. Line(current, deferred = "seeded") \in Lines
                BY <4>1, LineIs
            <4>3. child' = [Popped EXCEPT !.stdin = Append(Popped.stdin, Line(current, deferred = "seeded"))]
                BY <1>6, <3>1 DEF ReadUnsolicited
            <4> QED BY <1>2, <4>2, <4>3, PipesKept
        <3>2. CASE ~(deferred # "no" /\ pending)
            BY <1>2, <1>6, <3>2 DEF ReadUnsolicited
        <3> QED BY <3>1, <3>2
    <2>3. blind' \in BOOLEAN
        BY <1>6 DEF ReadUnsolicited
    <2>4. /\ injected' \subseteq Messages /\ peerTurnLive' \in BOOLEAN /\ deferred' = "no"
          /\ UNCHANGED <<queue, pending, injections, session, stopped, bounds,
                         phantom, grounded, dropped, astray, bereft>>
        BY <1>6 DEF ReadUnsolicited
    <2> QED BY <2>1, <2>2, <2>3, <2>4 DEF queue, session, bounds
<1>7. CASE ReadReply
    <2> DEFINE covered == [m \in Messages |-> IF status[m] = "injected" /\ m \in Frame.read
                                              THEN "settled" ELSE status[m]]
    <2>1. covered \in [Messages -> {"new", "queued", "running", "injected", "settled", "lost"}]
        OBVIOUS
    <2>2. pending /\ injected' \subseteq Messages /\ UNCHANGED <<stopped, exits, peers, rotations, phantom, grounded, dropped>>
        BY <1>7 DEF ReadReply, Unsolicited, bounds
    <2>3. CASE /\ Over(covered, turnQueue) /\ child' = Popped
               /\ redrives' \in 0..1 /\ astray' \in BOOLEAN /\ bereft' \in BOOLEAN
               /\ UNCHANGED <<deferred, peerTurnLive, injections, session, blind>>
        <3>1. /\ status' \in [Messages -> {"new", "queued", "running", "injected", "settled", "lost"}]
              /\ turnQueue' \in Seq(Messages) /\ pump' \in {"no", "gate", "handoff"}
              /\ attempt' = "first" /\ current' = None /\ ~pending' /\ pending' \in BOOLEAN
              /\ pump' = "handoff" => rotations < MaxRotations
            BY <2>1, <2>3, OverTypes
        <3> QED BY <1>2, <2>2, <2>3, <3>1 DEF session
    <2>4. CASE /\ MayRedrive /\ redrives' = redrives - 1 /\ attempt' = "last" /\ status' = covered
               /\ Drive(current, Popped) /\ UNCHANGED <<turnQueue, astray, bereft>>
        <3>1. redrives' \in 0..1
            BY <2>4 DEF MayRedrive
        <3>2. current \in Messages
            BY <2>2
        <3>3. 0 \in 0..MaxInjected
            BY SessionAssumption DEF SessionAssumption
        <3>4. /\ pump' = "turn" /\ current' \in Messages /\ pending' = TRUE /\ injections' = 0
              /\ child' \in Children
              /\ deferred' \in {"no", "plain", "seeded"} /\ peerTurnLive' \in BOOLEAN
              /\ initSeen' \in BOOLEAN /\ lastLaunchWasResume' \in BOOLEAN
              /\ resumeRetryUsed' \in BOOLEAN /\ freshNextLaunch' \in BOOLEAN
              /\ seedPending' \in BOOLEAN /\ lastHandoff' \in BOOLEAN /\ blind' \in BOOLEAN
            BY <1>2, <2>4, <3>2, DriveTypes
        <3>5. /\ turnQueue' = turnQueue /\ attempt' = "last" /\ astray' = astray /\ bereft' = bereft
              /\ status' \in [Messages -> {"new", "queued", "running", "injected", "settled", "lost"}]
            BY <2>1, <2>4
        <3> QED BY <2>2, <3>1, <3>3, <3>4, <3>5
    <2>5. CASE Frame.output
        BY <1>7, <2>3, <2>5 DEF ReadReply
    <2>6. CASE ~Frame.output /\ MayRedrive
        BY <1>7, <2>4, <2>6 DEF ReadReply
    <2>7. CASE ~Frame.output /\ ~MayRedrive
        BY <1>7, <2>3, <2>7 DEF ReadReply
    <2> QED BY <2>5, <2>6, <2>7
<1> QED BY <1>3, <1>4, <1>5, <1>6, <1>7 DEF Reads

LEMMA TypesKept ==
    ASSUME SessionTypes, [Next]_vars
    PROVE  SessionTypes'
<1>1. CASE UNCHANGED vars
    BY <1>1 DEF vars, queue, turn, session, bounds, observed, SessionTypes, TypeOK, Driven
<1> QED BY <1>1, PeopleTypes, PoolTypes, PumpTypes, ChildTypes, ExitTypes, ReadTypes DEF Next

(* The variables keep their types, and a turn that is driven has a message to answer. *)
THEOREM SessionTypesCorrect == Spec => []TypeOK
<1>1. SessionTypes /\ [Next]_vars => SessionTypes'
    BY TypesKept
<1>2. SessionTypes => TypeOK
    BY DEF SessionTypes
<1> QED BY TypesInitially, <1>1, <1>2, PTL DEF Spec

-----------------------------------------------------------------------------
(***************************************************************************)
(* The right answer.  While a turn awaits its result, and its child is not  *)
(* at work unseen, the child carries the turn's message: it is the next     *)
(* line to be read, or it is being worked on and no earlier result is on    *)
(* its way, or the first result on its way is of a turn that read it.       *)
(***************************************************************************)

NoResult(s) == \A i \in 1..Len(s) : s[i].kind # "result"

Waits(c, m) ==
    /\ c.stdin # <<>> /\ Head(c.stdin).message = m
    /\ c.working = {} /\ NoResult(c.stdout)
Works(c, m) == m \in c.working /\ NoResult(c.stdout)
Ended(c, m) == \E i \in 1..Len(c.stdout) :
                  /\ c.stdout[i].kind = "result" /\ m \in c.stdout[i].read
                  /\ \A j \in 1..(i - 1) : c.stdout[j].kind # "result"
Carries(c, m) == Waits(c, m) \/ Works(c, m) \/ Ended(c, m)

\* A turn has a child, unless its session was stopped; its line is held back exactly while a
\* peer's turn is known to run.
Backed ==
    /\ pending /\ ~stopped => child.up
    /\ pending => (peerTurnLive <=> deferred # "no")
    /\ ~pending => deferred = "no"

\* A child says "init" before all else; one that fails to resume says nothing but an empty result.
Announced(c, seen) ==
    /\ ~c.dud /\ ~seen => \/ c.stdout = <<>> /\ ~c.init /\ c.working = {}
                          \/ c.init /\ c.stdout # <<>> /\ Head(c.stdout).kind = "init"
    /\ c.dud => /\ c.working = {}
                /\ \A i \in 1..Len(c.stdout) : c.stdout[i].kind = "result" => ~c.stdout[i].output

Carried == pending /\ ~blind /\ child.up /\ ~child.dud /\ ~peerTurnLive => Carries(child, current)

AnswerInv == Backed /\ (child.up => Announced(child, initSeen)) /\ Carried /\ RightAnswer

-----------------------------------------------------------------------------
(* The child's pipes *)

\* One more line in its pipe changes nothing that is carried.
LEMMA LineKeeps ==
    ASSUME NEW c \in Children, NEW m, NEW l \in Lines
    PROVE  Carries(c, m) => Carries([c EXCEPT !.stdin = Append(c.stdin, l)], m)
<1> DEFINE d == [c EXCEPT !.stdin = Append(c.stdin, l)]
<1>1. c.stdin \in Seq(Lines) /\ d.stdin = Append(c.stdin, l) /\ d.working = c.working /\ d.stdout = c.stdout
    BY DEF Children
<1>2. c.stdin # <<>> => d.stdin # <<>> /\ Head(d.stdin) = Head(c.stdin)
    BY <1>1
<1>3. Waits(c, m) => Waits(d, m)
    BY <1>1, <1>2 DEF Waits
<1>4. (Works(c, m) => Works(d, m)) /\ (Ended(c, m) => Ended(d, m))
    BY <1>1 DEF Works, Ended
<1> QED BY <1>3, <1>4 DEF Carries

\* A line written to a child that is at nothing else is carried.
LEMMA LineWaits ==
    ASSUME NEW c \in Children, NEW m \in Messages, NEW seed \in BOOLEAN, ~Unseen(c)
    PROVE  Carries([c EXCEPT !.stdin = Append(c.stdin, Line(m, seed))], m)
<1> DEFINE d == [c EXCEPT !.stdin = Append(c.stdin, Line(m, seed))]
<1>0. c.stdin = <<>> /\ c.working = {}
    BY DEF Unseen
<1>1. d.stdin = <<Line(m, seed)>> /\ d.working = {} /\ d.stdout = c.stdout
    <2>1. Append(c.stdin, Line(m, seed)) = <<Line(m, seed)>>
        BY <1>0
    <2> QED BY <1>0, <2>1 DEF Children
<1>2. NoResult(d.stdout)
    BY <1>1 DEF Unseen, NoResult
<1>3. Head(d.stdin).message = m
    BY <1>1 DEF Line
<1> QED BY <1>1, <1>2, <1>3 DEF Carries, Waits

\* A frame that is no result, at the head or at the end, changes nothing that is carried.
LEMMA PopKeeps ==
    ASSUME NEW c \in Children, NEW m, c.stdout # <<>>, Head(c.stdout).kind # "result"
    PROVE  Carries(c, m) => Carries([c EXCEPT !.stdout = Tail(c.stdout)], m)
<1> DEFINE d == [c EXCEPT !.stdout = Tail(c.stdout)]
<1>1. d.stdin = c.stdin /\ d.working = c.working /\ d.stdout = Tail(c.stdout)
    BY DEF Children
<1> HIDE DEF d
<1>2. /\ c.stdout \in Seq(Frames) /\ Len(c.stdout) \in Nat \ {0} /\ Len(d.stdout) = Len(c.stdout) - 1
      /\ c.stdout[1].kind # "result"
      /\ \A i \in 1..Len(d.stdout) : d.stdout[i] = c.stdout[i + 1]
    BY <1>1 DEF Children
<1>3. NoResult(c.stdout) => NoResult(d.stdout)
    BY <1>2 DEF NoResult
<1>4. ASSUME Ended(c, m) PROVE Ended(d, m)
    <2>1. PICK i \in 1..Len(c.stdout) : /\ c.stdout[i].kind = "result" /\ m \in c.stdout[i].read
                                        /\ \A j \in 1..(i - 1) : c.stdout[j].kind # "result"
        BY <1>4 DEF Ended
    <2>2. i - 1 \in 1..Len(d.stdout)
        BY <1>2, <2>1
    <2>3. d.stdout[i - 1] = c.stdout[i]
        BY <1>2, <2>2
    <2>4. \A j \in 1..(i - 2) : d.stdout[j].kind # "result"
        BY <1>2, <2>1, <2>2
    <2> QED BY <2>1, <2>2, <2>3, <2>4 DEF Ended
<1> QED BY <1>1, <1>3, <1>4 DEF Carries, Waits, Works, d

LEMMA FrameKeeps ==
    ASSUME NEW s \in Seq(Frames), NEW f \in Frames
    PROVE  /\ NoResult(s) /\ f.kind # "result" => NoResult(Append(s, f))
           /\ \A i \in 1..Len(s) : i \in 1..Len(Append(s, f)) /\ Append(s, f)[i] = s[i]
           /\ Len(s) + 1 \in 1..Len(Append(s, f)) /\ Append(s, f)[Len(s) + 1] = f
BY DEF NoResult

\* The first result of a turn is in place once the turn has ended.
LEMMA EndedKeeps ==
    ASSUME NEW c \in Children, NEW d \in Children, NEW m, NEW f \in Frames,
           d.stdout = Append(c.stdout, f), Ended(c, m)
    PROVE  Ended(d, m)
<1>1. PICK i \in 1..Len(c.stdout) : /\ c.stdout[i].kind = "result" /\ m \in c.stdout[i].read
                                    /\ \A j \in 1..(i - 1) : c.stdout[j].kind # "result"
    BY DEF Ended
<1>2. c.stdout \in Seq(Frames)
    BY DEF Children
<1>3. i \in 1..Len(d.stdout) /\ d.stdout[i] = c.stdout[i]
    BY <1>1, <1>2, FrameKeeps
<1>4. \A j \in 1..(i - 1) : d.stdout[j].kind # "result"
    BY <1>1, <1>2, FrameKeeps
<1> QED BY <1>1, <1>3, <1>4 DEF Ended

-----------------------------------------------------------------------------
(* The steps *)

LEMMA ChildFresh ==
    ASSUME NEW dud \in BOOLEAN, NEW stdin \in Seq(Lines)
    PROVE  Announced(Child(dud, stdin), FALSE)
<1> DEFINE c == Child(dud, stdin)
<1>1. c.dud = dud /\ ~c.init /\ c.working = {} /\ c.stdout = <<>>
    BY DEF Child
<1> HIDE DEF c
<1>2. \A i \in 1..Len(c.stdout) : FALSE
    BY <1>1
<1>3. Announced(c, FALSE)
    BY <1>1, <1>2 DEF Announced
<1> QED BY <1>3 DEF c

LEMMA LaunchRight ==
    ASSUME NEW resume, NEW stdin \in Seq(Lines), Launch(resume, stdin)
    PROVE  /\ child'.up /\ Announced(child', initSeen') /\ ~peerTurnLive' /\ deferred' = "no"
           /\ \A m \in Messages, seed \in BOOLEAN : stdin = <<Line(m, seed)>> => Carries(child', m)
<1>1. PICK dud \in BOOLEAN : child' = Child(dud, stdin)
    BY DEF Launch
<1>2. initSeen' = FALSE /\ child'.up /\ ~peerTurnLive' /\ deferred' = "no"
    BY <1>1 DEF Launch, Child
<1>3. Announced(child', initSeen')
    BY <1>1, <1>2, ChildFresh
<1>4. ASSUME NEW m \in Messages, NEW seed \in BOOLEAN, stdin = <<Line(m, seed)>>
      PROVE  Carries(child', m)
    <2>1. child'.stdin = <<Line(m, seed)>> /\ child'.working = {} /\ child'.stdout = <<>>
        BY <1>1, <1>4 DEF Child
    <2>2. NoResult(<<>>)
        BY DEF NoResult
    <2>3. Head(child'.stdin).message = m
        BY <2>1 DEF Line
    <2> QED BY <2>1, <2>2, <2>3 DEF Carries, Waits
<1> QED BY <1>2, <1>3, <1>4

\* A line that is driven is held back, or carried, or written to a child at unseen work.
LEMMA DriveRight ==
    ASSUME SessionTypes, NEW m \in Messages, NEW c \in Children, Drive(m, c),
           c.up => Announced(c, initSeen), ~peerTurnLive => deferred = "no"
    PROVE  /\ child'.up /\ Announced(child', initSeen')
           /\ peerTurnLive' <=> deferred' # "no"
           /\ ~blind' /\ ~peerTurnLive' => Carries(child', m)
<1>1. seedPending \in BOOLEAN /\ peerTurnLive \in BOOLEAN
    BY DEF SessionTypes, TypeOK
<1>2. CASE c.up /\ HoldLine
    <2>1. child' = c /\ deferred' # "no" /\ peerTurnLive' = peerTurnLive /\ initSeen' = initSeen
        BY <1>2 DEF Drive
    <2> QED BY <1>2, <2>1 DEF HoldLine
<1>3. CASE c.up /\ ~HoldLine
    <2>1. /\ child' = [c EXCEPT !.stdin = Append(c.stdin, Line(m, seedPending))]
          /\ blind' = (blind \/ (~peerTurnLive /\ Unseen(c)))
          /\ peerTurnLive' = peerTurnLive /\ deferred' = deferred /\ initSeen' = initSeen
        BY <1>3 DEF Drive
    <2>2. child'.up /\ Announced(child', initSeen')
        BY <1>3, <2>1 DEF Announced, Children
    <2>3. ~blind' => Carries(child', m)
        BY <1>1, <1>3, <2>1, LineWaits DEF HoldLine
    <2> QED BY <1>3, <2>1, <2>2, <2>3 DEF HoldLine
<1>4. CASE ~c.up
    <2>1. Launch(~freshNextLaunch, <<Line(m, seedPending)>>)
        BY <1>4 DEF Drive
    <2>2. <<Line(m, seedPending)>> \in Seq(Lines)
        BY <1>1, LineIs
    <2> QED BY <1>1, <2>1, <2>2, LaunchRight
<1> QED BY <1>2, <1>3, <1>4

LEMMA AnswerInitially == Init => AnswerInv
<1> SUFFICES ASSUME Init PROVE AnswerInv
    OBVIOUS
<1>1. PICK dud \in BOOLEAN : child = Child(dud, <<>>)
    BY DEF Init
<1>2. Announced(child, initSeen)
    <2>1. <<>> \in Seq(Lines) /\ initSeen = FALSE
        BY DEF Init
    <2> QED BY <1>1, <2>1, ChildFresh
<1>3. ~pending /\ deferred = "no" /\ ~astray
    BY DEF Init
<1> QED BY <1>2, <1>3 DEF AnswerInv, Backed, Carried, RightAnswer

\* A step in which no turn waits afterwards, and no frame is read
LEMMA NobodyWaits ==
    ASSUME RightAnswer, ~pending', deferred' = "no", astray' = astray,
           child'.up => Announced(child', initSeen')
    PROVE  AnswerInv'
BY DEF AnswerInv, Backed, Carried, RightAnswer

LEMMA PeopleRight ==
    ASSUME SessionTypes, AnswerInv, NEW m \in Messages, Ask(m) \/ Inject(m) \/ SupersedeQueued(m)
    PROVE  AnswerInv'
<1>1. CASE Ask(m) \/ SupersedeQueued(m)
    <2>1. UNCHANGED <<pending, stopped, child, peerTurnLive, deferred, initSeen, blind, astray, current>>
        BY <1>1 DEF Ask, SupersedeQueued, turn, session, observed
    <2> QED BY <2>1 DEF AnswerInv, Backed, Carried, RightAnswer
<1>2. CASE Inject(m)
    <2>1. /\ UNCHANGED <<pending, stopped, peerTurnLive, deferred, initSeen, blind, astray, current>>
          /\ child' = [child EXCEPT !.stdin = Append(child.stdin, Line(m, FALSE))]
        BY <1>2 DEF Inject, queue, session, observed
    <2>2. child \in Children /\ Line(m, FALSE) \in Lines
        BY LineIs DEF SessionTypes, TypeOK
    <2>3. Carries(child, current) => Carries(child', current)
        BY <2>1, <2>2, LineKeeps
    <2>4. child'.up = child.up /\ child'.dud = child.dud
        BY <2>1, <2>2 DEF Children
    <2>5. Announced(child, initSeen) => Announced(child', initSeen')
        BY <2>1, <2>2 DEF Announced, Children
    <2> QED BY <2>1, <2>3, <2>4, <2>5 DEF AnswerInv, Backed, Carried, RightAnswer
<1> QED BY <1>1, <1>2

LEMMA DownIs == ~Down.up
BY DEF Down, Child

LEMMA PoolRight ==
    ASSUME SessionTypes, AnswerInv,
           CancelLiveTurn \/ ReapTurn \/ RecycleIdle \/ Prewarm \/ RotateWhileIdle \/ HandoffEnds \/ Stop
    PROVE  AnswerInv'
<1>0. <<>> \in Seq(Lines) /\ (pending => pump = "turn") /\ RightAnswer
    BY DEF SessionTypes, Driven, AnswerInv
<1>1. CASE CancelLiveTurn \/ ReapTurn
    <2>1. EndLiveTurn
        BY <1>1 DEF CancelLiveTurn, ReapTurn
    <2>2. child' = Down /\ deferred' = "no" /\ astray' = astray
        BY <2>1 DEF EndLiveTurn, Recycle
    <2>3. ~pending'
        BY <2>1 DEF EndLiveTurn, Over
    <2> QED BY <1>0, <2>2, <2>3, NobodyWaits, DownIs
<1>2. CASE RecycleIdle
    <2>1. child' = Down /\ deferred' = "no" /\ astray' = astray /\ pending' = pending /\ ~pending
        BY <1>0, <1>2 DEF RecycleIdle, Recycle
    <2> QED BY <1>0, <2>1, NobodyWaits, DownIs
<1>3. CASE Prewarm
    <2>1. Launch(~freshNextLaunch, <<>>) /\ astray' = astray /\ pending' = pending
        BY <1>3 DEF Prewarm
    <2>2. ~pending
        BY <1>3 DEF Prewarm, AnswerInv, Backed
    <2> QED BY <1>0, <2>1, <2>2, LaunchRight, NobodyWaits
<1>4. CASE RotateWhileIdle
    <2>1. UNCHANGED <<pending, stopped, child, peerTurnLive, deferred, initSeen, blind, astray, current>>
        BY <1>4 DEF RotateWhileIdle, turn, session, observed
    <2> QED BY <2>1 DEF AnswerInv, Backed, Carried, RightAnswer
<1>5. CASE HandoffEnds
    <2>1. Launch(FALSE, <<>>) /\ astray' = astray /\ pending' = pending /\ ~pending
        BY <1>0, <1>5 DEF HandoffEnds
    <2> QED BY <1>0, <2>1, LaunchRight, NobodyWaits
<1>6. CASE Stop
    <2>1. child' = Down /\ deferred' = "no" /\ astray' = astray /\ ~pending'
        BY <1>6 DEF Stop, observed
    <2> QED BY <1>0, <2>1, NobodyWaits, DownIs
<1> QED BY <1>1, <1>2, <1>3, <1>4, <1>5, <1>6

LEMMA PumpRight ==
    ASSUME SessionTypes, AnswerInv, GateWon \/ DriveAgain
    PROVE  AnswerInv'
<1>0. /\ child \in Children /\ (child.up => Announced(child, initSeen))
      /\ pending => pump = "turn"
      /\ pending \/ pump = "delay" => current \in Messages
      /\ ~pending => deferred = "no"
    BY DEF SessionTypes, TypeOK, Driven, AnswerInv, Backed
<1>1. CASE GateWon /\ turnQueue = <<>>
    <2>1. UNCHANGED <<pending, stopped, child, peerTurnLive, deferred, initSeen, blind, astray, current>>
        BY <1>1 DEF GateWon, turn, session
    <2> QED BY <2>1 DEF AnswerInv, Backed, Carried, RightAnswer
<1>2. ASSUME NEW m \in Messages, Drive(m, child), ~pending, astray' = astray, stopped' = stopped
      PROVE  AnswerInv'
    <2>1. pending' = TRUE /\ current' = m
        BY <1>2 DEF Drive
    <2>2. /\ child'.up /\ Announced(child', initSeen')
          /\ peerTurnLive' <=> deferred' # "no"
          /\ ~blind' /\ ~peerTurnLive' => Carries(child', m)
        BY <1>0, <1>2, DriveRight
    <2> QED BY <1>2, <2>1, <2>2 DEF AnswerInv, Backed, Carried, RightAnswer
<1>3. CASE GateWon /\ turnQueue # <<>>
    <2>1. Head(turnQueue) \in Messages
        BY <1>3 DEF SessionTypes, TypeOK
    <2>2. Drive(Head(turnQueue), child) /\ ~pending /\ astray' = astray /\ stopped' = stopped
        BY <1>0, <1>3 DEF GateWon
    <2> QED BY <1>2, <2>1, <2>2
<1>4. CASE DriveAgain
    <2>1. Drive(current, child) /\ ~pending /\ astray' = astray /\ stopped' = stopped /\ current \in Messages
        BY <1>0, <1>4 DEF DriveAgain
    <2> QED BY <1>2, <2>1
<1> QED BY <1>1, <1>3, <1>4

LEMMA ChildRight ==
    ASSUME SessionTypes, AnswerInv, ChildReads \/ PeerTurn \/ ChildTells \/ ChildResult
    PROVE  AnswerInv'
<1> DEFINE m == current
<1>1. /\ child \in Children /\ child.up /\ Announced(child, initSeen)
      /\ child.stdin \in Seq(Lines) /\ child.stdout \in Seq(Frames)
    BY DEF SessionTypes, TypeOK, AnswerInv, Children, ChildReads, PeerTurn, ChildTells, ChildResult
<1>2. SessionTypes'
    BY ChildTypes
<1>3. child' \in Children
    BY <1>2 DEF SessionTypes, TypeOK
<1>4. /\ UNCHANGED <<pending, stopped, peerTurnLive, deferred, initSeen, astray, current>>
      /\ ~blind' => ~blind
    <2>1. CASE ChildReads
        BY <2>1 DEF ChildReads, queue, turn, session
    <2>2. CASE PeerTurn
        BY <2>2 DEF PeerTurn, queue, turn, session
    <2>3. CASE ChildTells \/ ChildResult
        <3>1. UNCHANGED <<status, queue, turn, session, stopped, bounds, observed>>
            BY <2>3 DEF ChildTells, ChildResult
        <3> QED BY <3>1 DEF queue, turn, session, observed
    <2> QED BY <2>1, <2>2, <2>3
<1>5. SUFFICES ASSUME TRUE
      PROVE  /\ child'.up /\ child'.dud = child.dud /\ Announced(child', initSeen)
             /\ ~blind' /\ ~child.dud /\ Carries(child, m) => Carries(child', m)
    BY <1>1, <1>4 DEF AnswerInv, Backed, Carried, RightAnswer
<1>6. CASE ChildReads
    <2>1. /\ child.stdin # <<>> /\ ~child.dud
          /\ child'.up = child.up /\ child'.dud = child.dud /\ child'.init = TRUE
          /\ child'.working = child.working \cup {Head(child.stdin).message}
          /\ child'.stdout = IF child.init THEN child.stdout
                             ELSE Append(child.stdout, [kind |-> "init"])
        BY <1>1, <1>6 DEF ChildReads, Children
    <2>2. ASSUME NoResult(child.stdout) PROVE NoResult(child'.stdout)
        BY <1>1, <2>1, <2>2, FramesAre, FrameKeeps
    <2>3. Waits(child, m) \/ Works(child, m) => Works(child', m)
        BY <2>1, <2>2 DEF Waits, Works
    <2>4. Ended(child, m) => Ended(child', m)
        <3>1. CASE child.init
            BY <2>1, <3>1 DEF Ended
        <3>2. CASE ~child.init
            BY <1>1, <1>3, <2>1, <3>2, FramesAre, EndedKeeps
        <3> QED BY <3>1, <3>2
    <2>5. Announced(child', initSeen)
        <3>1. CASE child.init
            BY <1>1, <2>1, <3>1 DEF Announced
        <3>2. CASE ~child.init /\ ~initSeen
            <4>1. child.stdout = <<>>
                BY <1>1, <2>1, <3>2 DEF Announced
            <4>2. child'.stdout = <<[kind |-> "init"]>>
                BY <2>1, <3>2, <4>1
            <4>3. child'.stdout # <<>> /\ Head(child'.stdout).kind = "init"
                BY <4>2
            <4> QED BY <2>1, <4>3 DEF Announced
        <3>3. CASE initSeen
            BY <2>1, <3>3 DEF Announced
        <3> QED BY <3>1, <3>2, <3>3
    <2> QED BY <1>1, <2>1, <2>3, <2>4, <2>5 DEF Carries
<1>7. CASE PeerTurn
    <2>1. /\ child.working = {} /\ ~child.dud /\ blind' = (blind \/ child.stdin # <<>>)
          /\ child'.up = child.up /\ child'.dud = child.dud /\ child'.init = TRUE
          /\ child'.stdout = IF child.init THEN child.stdout
                             ELSE Append(child.stdout, [kind |-> "init"])
        BY <1>1, <1>7 DEF PeerTurn, Children
    <2>2. ~blind' => ~Waits(child, m)
        BY <2>1 DEF Waits
    <2>3. ~Works(child, m)
        BY <2>1 DEF Works
    <2>4. Ended(child, m) => Ended(child', m)
        <3>1. CASE child.init
            BY <2>1, <3>1 DEF Ended
        <3>2. CASE ~child.init
            BY <1>1, <1>3, <2>1, <3>2, FramesAre, EndedKeeps
        <3> QED BY <3>1, <3>2
    <2>5. Announced(child', initSeen)
        <3>1. CASE child.init
            BY <1>1, <2>1, <3>1 DEF Announced
        <3>2. CASE ~child.init /\ ~initSeen
            <4>1. child.stdout = <<>>
                BY <1>1, <2>1, <3>2 DEF Announced
            <4>2. child'.stdout = <<[kind |-> "init"]>>
                BY <2>1, <3>2, <4>1
            <4>3. child'.stdout # <<>> /\ Head(child'.stdout).kind = "init"
                BY <4>2
            <4> QED BY <2>1, <4>3 DEF Announced
        <3>3. CASE initSeen
            BY <2>1, <3>3 DEF Announced
        <3> QED BY <3>1, <3>2, <3>3
    <2> QED BY <1>1, <2>1, <2>2, <2>3, <2>4, <2>5 DEF Carries
<1>8. CASE ChildTells
    <2>1. /\ child.stdout = <<>> /\ child.working # {}
          /\ child'.up = child.up /\ child'.dud = child.dud /\ child'.init = child.init
          /\ child'.working = child.working /\ child'.stdout = <<[kind |-> "event"]>>
        BY <1>1, <1>8 DEF ChildTells, Children
    <2>2. ~child.dud /\ initSeen
        BY <1>1, <2>1 DEF Announced
    <2>3. ~Ended(child, m) /\ ~Waits(child, m)
        BY <2>1 DEF Ended, Waits
    <2>4. NoResult(child'.stdout)
        BY <2>1 DEF NoResult
    <2> QED BY <1>1, <2>1, <2>2, <2>3, <2>4 DEF Carries, Works, Announced
<1>9. CASE ChildResult
    <2>1. CASE child.dud
        <3>1. child.working = {}
            BY <1>1, <2>1 DEF Announced
        <3>2. /\ child'.up = child.up /\ child'.dud = child.dud /\ child'.working = {}
              /\ child.stdout = <<>>
              /\ child'.stdout = Append(child.stdout, [kind |-> "result", read |-> {}, output |-> FALSE])
            BY <1>1, <1>9, <3>1 DEF ChildResult, Children
        <3>3. child'.stdout = <<[kind |-> "result", read |-> {}, output |-> FALSE]>>
            BY <3>2
        <3>4. \A i \in 1..Len(child'.stdout) : ~child'.stdout[i].output
            BY <3>3
        <3> QED BY <1>1, <2>1, <3>2, <3>4 DEF Announced
    <2>2. CASE ~child.dud
        <3>1. PICK output \in BOOLEAN :
                 child' = [child EXCEPT !.working = {},
                             !.stdout = Append(child.stdout, [kind |-> "result", read |-> child.working,
                                                              output |-> output])]
            BY <1>9, <2>2 DEF ChildResult
        <3> DEFINE f == [kind |-> "result", read |-> child.working, output |-> output]
        <3>2. child.working # {} /\ child.working \in SUBSET (Messages \cup {Peer})
            BY <1>1, <1>9, <2>2 DEF ChildResult, Children
        <3>3. f \in Frames /\ f.kind = "result" /\ f.read = child.working
            BY <3>2, FramesAre
        <3>4. /\ child'.up = child.up /\ child'.dud = child.dud /\ child'.init = child.init
              /\ child'.stdout = Append(child.stdout, f)
            BY <1>1, <3>1 DEF Children
        <3> HIDE DEF f
        <3>5. ~Waits(child, m)
            BY <3>2 DEF Waits
        <3>6. Ended(child, m) => Ended(child', m)
            BY <1>1, <1>3, <3>3, <3>4, EndedKeeps
        <3>7. ASSUME Works(child, m) PROVE Ended(child', m)
            <4>1. /\ Len(child.stdout) + 1 \in 1..Len(child'.stdout)
                  /\ child'.stdout[Len(child.stdout) + 1] = f
                  /\ \A i \in 1..Len(child.stdout) : child'.stdout[i] = child.stdout[i]
                BY <1>1, <3>3, <3>4, FrameKeeps
            <4>2. \A j \in 1..(Len(child.stdout) + 1 - 1) : child'.stdout[j].kind # "result"
                BY <1>1, <3>7, <4>1 DEF Works, NoResult
            <4> QED BY <3>3, <3>7, <4>1, <4>2 DEF Ended, Works
        <3>8. Announced(child', initSeen)
            <4>1. CASE initSeen
                BY <2>2, <3>4, <4>1 DEF Announced
            <4>2. CASE ~initSeen
                <5>1. child.init /\ child.stdout # <<>> /\ Head(child.stdout).kind = "init"
                    BY <1>1, <2>2, <3>2, <4>2 DEF Announced
                <5>2. child'.stdout # <<>> /\ Head(child'.stdout) = Head(child.stdout)
                    BY <1>1, <3>3, <3>4, <5>1
                <5> QED BY <2>2, <3>4, <5>1, <5>2 DEF Announced
            <4> QED BY <4>1, <4>2
        <3> QED BY <1>1, <3>4, <3>5, <3>6, <3>7, <3>8 DEF Carries
    <2> QED BY <2>1, <2>2
<1> QED BY <1>6, <1>7, <1>8, <1>9

LEMMA ExitRight ==
    ASSUME SessionTypes, AnswerInv, ChildExits \/ ExitAfterStop
    PROVE  AnswerInv'
<1>0. RightAnswer
    BY DEF AnswerInv
<1>1. CASE ExitAfterStop
    <2>1. /\ child' = Down /\ ~peerTurnLive' /\ deferred' = "no" /\ stopped' /\ pending' = pending
          /\ astray' = astray
        BY <1>1 DEF ExitAfterStop, Recycle
    <2> QED BY <1>0, <2>1, DownIs DEF AnswerInv, Backed, Carried, RightAnswer
<1>2. CASE ChildExits
    <2>1. child' = Down /\ deferred' = "no" /\ ~pending' /\ astray' = astray
        BY <1>2 DEF ChildExits
    <2> QED BY <1>0, <2>1, NobodyWaits, DownIs
<1> QED BY <1>1, <1>2

\* A child that does not come up is not read from before it dies; one that does says "init" first.
LEMMA ReadRight ==
    ASSUME SessionTypes, AnswerInv, Reads
    PROVE  AnswerInv'
<1> DEFINE m == current
<1>1. /\ child \in Children /\ child.up /\ child.stdout # <<>> /\ Announced(child, initSeen)
      /\ child.stdout \in Seq(Frames)
      /\ Backed /\ Carried /\ ~astray
    BY DEF SessionTypes, TypeOK, AnswerInv, RightAnswer, Children, Reads, ReadInit, ReadEvent,
           ReadDeadResult, ReadUnsolicited, ReadReply
<1>2. /\ Popped \in Children /\ Popped.up /\ Popped.dud = child.dud /\ Popped.init = child.init
      /\ Popped.working = child.working /\ Popped.stdin = child.stdin
      /\ Popped.stdout = Tail(child.stdout)
      /\ Popped = [child EXCEPT !.stdout = Tail(child.stdout)]
    BY <1>1, PipesKept DEF Popped, Children
<1>3. \A i \in 1..Len(Popped.stdout) : i + 1 \in 1..Len(child.stdout) /\ Popped.stdout[i] = child.stdout[i + 1]
    BY <1>1, <1>2
<1>4. Frame = child.stdout[1] /\ Len(child.stdout) \in Nat \ {0}
    BY <1>1 DEF Frame
<1>5. ASSUME initSeen \/ child.dud PROVE Announced(Popped, initSeen)
    <2>1. child.dud => \A i \in 1..Len(Popped.stdout) :
                          Popped.stdout[i].kind = "result" => ~Popped.stdout[i].output
        BY <1>1, <1>3 DEF Announced
    <2> QED BY <1>1, <1>2, <1>5, <2>1 DEF Announced
<1>6. Frame.kind # "init" => initSeen \/ child.dud
    BY <1>1 DEF Announced, Frame
<1>7. Frame.kind # "result" => (Carries(child, m) => Carries(Popped, m))
    BY <1>1, <1>2, PopKeeps DEF Frame
<1>8. CASE ReadInit
    <2>1. /\ child' = Popped /\ initSeen' = TRUE /\ Frame.kind # "result"
          /\ UNCHANGED <<pending, stopped, peerTurnLive, deferred, blind, astray, current>>
        BY <1>8 DEF ReadInit, queue, turn, observed
    <2>2. Announced(Popped, TRUE)
        <3>1. child.dud => \A i \in 1..Len(Popped.stdout) :
                              Popped.stdout[i].kind = "result" => ~Popped.stdout[i].output
            BY <1>1, <1>3 DEF Announced
        <3> QED BY <1>1, <1>2, <3>1 DEF Announced
    <2> QED BY <1>1, <1>2, <1>7, <2>1, <2>2 DEF AnswerInv, Backed, Carried, RightAnswer
<1>9. CASE ReadEvent
    <2>1. /\ child' = Popped /\ Frame.kind # "result" /\ Frame.kind # "init"
          /\ peerTurnLive' = (peerTurnLive \/ ~pending)
          /\ UNCHANGED <<pending, stopped, initSeen, deferred, blind, astray, current>>
        BY <1>9 DEF ReadEvent, queue, session, observed
    <2> QED BY <1>1, <1>2, <1>5, <1>6, <1>7, <2>1 DEF AnswerInv, Backed, Carried, RightAnswer
<1>10. CASE ReadDeadResult
    <2>1. /\ child' = Popped /\ Frame.kind = "result" /\ ~initSeen
          /\ UNCHANGED <<pending, stopped, peerTurnLive, initSeen, deferred, blind, astray, current>>
        BY <1>10 DEF ReadDeadResult, Bare, queue, turn, session, observed
    <2>2. child.dud
        BY <1>6, <2>1
    <2> QED BY <1>1, <1>2, <1>5, <2>1, <2>2 DEF AnswerInv, Backed, Carried, RightAnswer
<1>11. CASE ReadUnsolicited
    <2>1. /\ Frame.kind = "result"
          /\ ~pending \/ peerTurnLive
          /\ ~peerTurnLive' /\ deferred' = "no" /\ initSeen' = initSeen
          /\ UNCHANGED <<pending, stopped, astray, current>>
        BY <1>11 DEF ReadUnsolicited, Unsolicited, queue, session
    <2>2. Announced(Popped, initSeen)
        BY <1>5, <1>6, <2>1
    <2>3. CASE ~pending
        <3>1. child' = Popped
            BY <1>11, <2>3 DEF ReadUnsolicited
        <3> QED BY <1>1, <2>1, <2>2, <2>3, <3>1, NobodyWaits DEF AnswerInv
    <2>4. CASE pending
        <3>1. deferred # "no"
            BY <1>1, <2>1, <2>4 DEF Backed
        <3> DEFINE seed == deferred = "seeded"
        <3>2. /\ child' = [Popped EXCEPT !.stdin = Append(Popped.stdin, Line(m, seed))]
              /\ blind' = (blind \/ Unseen(Popped))
            BY <1>11, <2>4, <3>1 DEF ReadUnsolicited
        <3>3. m \in Messages /\ seed \in BOOLEAN
            BY <2>4 DEF SessionTypes, Driven
        <3>4. ~blind' => Carries(child', m)
            BY <1>2, <3>2, <3>3, LineWaits
        <3>5. child'.up /\ Announced(child', initSeen)
            BY <1>2, <2>2, <3>2 DEF Announced, Children
        <3> QED BY <1>1, <2>1, <2>4, <3>4, <3>5 DEF AnswerInv, Backed, Carried, RightAnswer
    <2> QED BY <2>3, <2>4
<1>12. CASE ReadReply
    <2>1. /\ Frame.kind = "result" /\ pending /\ ~peerTurnLive /\ stopped' = stopped
          /\ deferred = "no" /\ m \in Messages
        BY <1>1, <1>12 DEF ReadReply, Unsolicited, Backed, SessionTypes, Driven
    <2>2. Announced(Popped, initSeen)
        BY <1>5, <1>6, <2>1
    <2>3. ASSUME Frame.output, ~blind PROVE m \in Frame.read
        <3>1. ~child.dud
            BY <1>1, <1>4, <2>1, <2>3 DEF Announced
        <3>2. Carries(child, m)
            BY <1>1, <2>1, <2>3, <3>1 DEF Carried
        <3>3. ~NoResult(child.stdout)
            BY <1>4, <2>1 DEF NoResult
        <3>4. PICK i \in 1..Len(child.stdout) : /\ m \in child.stdout[i].read
                                                /\ \A j \in 1..(i - 1) : child.stdout[j].kind # "result"
            BY <3>2, <3>3 DEF Carries, Waits, Works, Ended
        <3>5. i = 1
            BY <1>4, <2>1, <3>4
        <3> QED BY <1>4, <3>4, <3>5
    <2>4. CASE Frame.output \/ ~MayRedrive
        <3>1. ~pending'
            BY <1>12, <2>4 DEF ReadReply, Over
        <3>2. child' = Popped /\ deferred' = deferred /\ initSeen' = initSeen
            BY <1>12, <2>4 DEF ReadReply, session
        <3>3. ~astray'
            BY <1>1, <1>12, <2>3, <2>4 DEF ReadReply
        <3> QED BY <2>1, <2>2, <3>1, <3>2, <3>3 DEF AnswerInv, Backed, Carried, RightAnswer
    <2>5. CASE ~Frame.output /\ MayRedrive
        <3>1. Drive(m, Popped) /\ astray' = astray
            BY <1>12, <2>5 DEF ReadReply
        <3>2. pending' = TRUE /\ current' = m
            BY <3>1 DEF Drive
        <3>3. /\ child'.up /\ Announced(child', initSeen')
              /\ peerTurnLive' <=> deferred' # "no"
              /\ ~blind' /\ ~peerTurnLive' => Carries(child', m)
            BY <1>2, <2>1, <2>2, <3>1, DriveRight
        <3> QED BY <1>1, <2>1, <3>1, <3>2, <3>3 DEF AnswerInv, Backed, Carried, RightAnswer
    <2> QED BY <2>4, <2>5
<1> QED BY <1>8, <1>9, <1>10, <1>11, <1>12 DEF Reads

LEMMA AnswerKept ==
    ASSUME SessionTypes, AnswerInv, [Next]_vars
    PROVE  AnswerInv'
<1>1. CASE UNCHANGED vars
    BY <1>1 DEF vars, queue, turn, session, observed, AnswerInv, Backed, Announced, Carried, RightAnswer
<1> QED BY <1>1, PeopleRight, PoolRight, PumpRight, ChildRight, ExitRight, ReadRight DEF Next

(* A message is answered by a turn that has read it, whatever was cancelled, recycled, reaped, *)
(* rotated, stopped or driven again between, and however many peers' turns and exits there     *)
(* were; save where a child was at work unseen as the line was written.                        *)
THEOREM SessionAnswersRight == Spec => []RightAnswer
<1>1. Init => SessionTypes /\ AnswerInv
    BY TypesInitially, AnswerInitially
<1>2. SessionTypes /\ AnswerInv /\ [Next]_vars => (SessionTypes /\ AnswerInv)'
    BY TypesKept, AnswerKept
<1>3. AnswerInv => RightAnswer
    BY DEF AnswerInv
<1> QED BY <1>1, <1>2, <1>3, PTL DEF Spec

-----------------------------------------------------------------------------
(***************************************************************************)
(* The handoff reaches the transcript.  While it has not, and was not        *)
(* dropped, a child that reads has heard peers only, and the next line it    *)
(* reads has the handoff in it; a child that cannot come up, or a session     *)
(* without one, has it still to write, or will fail its resume and be seeded *)
(* again.                                                                    *)
(***************************************************************************)

Ungrounded == lastHandoff /\ ~grounded /\ ~dropped
Seeds(c) == \E i \in 1..Len(c.stdin) : c.stdin[i].seed
PeersOnly(c) ==
    /\ c.working \subseteq {Peer}
    /\ \A i \in 1..Len(c.stdout) : c.stdout[i].kind = "result" => c.stdout[i].read \subseteq {Peer}

\* The next resume fails: the session's transcript is not there.
WillFail == phantom /\ ~freshNextLaunch

\* A child, when the next line to be written has the handoff (owed), or the resume will fail (fails)
Holds(c, owed, fails) ==
    /\ ~c.dud => /\ PeersOnly(c)
                 /\ c.stdin = <<>> => owed
                 /\ c.stdin # <<>> => Head(c.stdin).seed
    /\ c.dud => owed \/ Seeds(c) \/ fails

OwedNext == seedPending \/ deferred = "seeded"

Tidy ==
    /\ pending => ~seedPending
    /\ stopped => turnQueue = <<>>
    /\ pump = "delay" /\ child.up => child.stdin = <<>>

Kept ==
    /\ child.up => Holds(child, OwedNext, WillFail)
    /\ ~child.up /\ (~stopped \/ pump = "delay") => seedPending \/ WillFail

HandoffInv == Tidy /\ (Ungrounded => Kept) /\ HandoffReaches

-----------------------------------------------------------------------------
(* What a child holds *)

LEMMA HoldsSome ==
    ASSUME NEW c \in Children, NEW owed \in BOOLEAN, NEW fails \in BOOLEAN, Holds(c, owed, fails)
    PROVE  owed \/ Seeds(c) \/ fails
<1>1. CASE c.dud
    BY <1>1 DEF Holds
<1>2. CASE ~c.dud /\ c.stdin # <<>>
    <2>1. c.stdin \in Seq(Lines) /\ Head(c.stdin).seed
        BY <1>2 DEF Holds, Children
    <2>2. 1 \in 1..Len(c.stdin) /\ c.stdin[1].seed
        BY <1>2, <2>1
    <2> QED BY <2>2 DEF Seeds
<1>3. CASE ~c.dud /\ c.stdin = <<>>
    BY <1>3 DEF Holds
<1> QED BY <1>1, <1>2, <1>3

LEMMA HoldsLine ==
    ASSUME NEW c \in Children, NEW l \in Lines, NEW owed \in BOOLEAN, NEW fails \in BOOLEAN,
           NEW more \in BOOLEAN, Holds(c, owed, fails), owed => l.seed
    PROVE  Holds([c EXCEPT !.stdin = Append(c.stdin, l)], more, fails)
<1> DEFINE d == [c EXCEPT !.stdin = Append(c.stdin, l)]
<1>1. /\ c.stdin \in Seq(Lines) /\ d.stdin = Append(c.stdin, l) /\ d.dud = c.dud
      /\ d.working = c.working /\ d.stdout = c.stdout
    BY DEF Children
<1> HIDE DEF d
<1>2. /\ d.stdin # <<>>
      /\ c.stdin # <<>> => Head(d.stdin) = Head(c.stdin)
      /\ c.stdin = <<>> => Head(d.stdin) = l
    BY <1>1
<1>3. PeersOnly(c) => PeersOnly(d)
    BY <1>1 DEF PeersOnly
<1>4. Seeds(c) => Seeds(d)
    BY <1>1 DEF Seeds
<1>5. l.seed => Seeds(d)
    <2>1. Len(c.stdin) + 1 \in 1..Len(d.stdin) /\ d.stdin[Len(c.stdin) + 1] = l
        BY <1>1
    <2> QED BY <2>1 DEF Seeds
<1>6. Holds(d, more, fails)
    BY <1>1, <1>2, <1>3, <1>4, <1>5 DEF Holds
<1> QED BY <1>6 DEF d

LEMMA HoldsPop ==
    ASSUME NEW c \in Children, c.stdout # <<>>, NEW owed \in BOOLEAN, NEW fails \in BOOLEAN,
           Holds(c, owed, fails)
    PROVE  Holds([c EXCEPT !.stdout = Tail(c.stdout)], owed, fails)
<1> DEFINE d == [c EXCEPT !.stdout = Tail(c.stdout)]
<1>1. /\ c.stdout \in Seq(Frames) /\ d.stdout = Tail(c.stdout) /\ d.dud = c.dud
      /\ d.working = c.working /\ d.stdin = c.stdin
    BY DEF Children
<1> HIDE DEF d
<1>2. \A i \in 1..Len(d.stdout) : i + 1 \in 1..Len(c.stdout) /\ d.stdout[i] = c.stdout[i + 1]
    BY <1>1
<1>3. PeersOnly(c) => PeersOnly(d)
    BY <1>1, <1>2 DEF PeersOnly
<1>4. Seeds(c) => Seeds(d)
    BY <1>1 DEF Seeds
<1>5. Holds(d, owed, fails)
    BY <1>1, <1>3, <1>4 DEF Holds
<1> QED BY <1>5 DEF d

LEMMA HoldsFresh ==
    ASSUME NEW dud \in BOOLEAN, NEW owed \in BOOLEAN, NEW fails \in BOOLEAN
    PROVE  /\ owed \/ (dud /\ fails) => Holds(Child(dud, <<>>), owed, fails)
           /\ \A l \in Lines : l.seed \/ (dud /\ fails) => Holds(Child(dud, <<l>>), owed, fails)
<1>1. ASSUME NEW stdin \in Seq(Lines)
      PROVE  LET c == Child(dud, stdin)
             IN  PeersOnly(c) /\ c.dud = dud /\ c.stdin = stdin
    <2> DEFINE c == Child(dud, stdin)
    <2>1. c.dud = dud /\ c.stdin = stdin /\ c.working = {} /\ c.stdout = <<>>
        BY DEF Child
    <2> HIDE DEF c
    <2>2. \A i \in 1..Len(c.stdout) : FALSE
        BY <2>1
    <2>3. PeersOnly(c)
        BY <2>1, <2>2 DEF PeersOnly
    <2> QED BY <2>1, <2>3 DEF c
<1>2. ASSUME owed \/ (dud /\ fails) PROVE Holds(Child(dud, <<>>), owed, fails)
    <2>1. <<>> \in Seq(Lines)
        OBVIOUS
    <2> QED BY <1>1, <1>2, <2>1 DEF Holds
<1>3. ASSUME NEW l \in Lines, l.seed \/ (dud /\ fails) PROVE Holds(Child(dud, <<l>>), owed, fails)
    <2>1. <<l>> \in Seq(Lines) /\ <<l>> # <<>> /\ Head(<<l>>) = l /\ Len(<<l>>) = 1 /\ <<l>>[1] = l
        OBVIOUS
    <2>2. PeersOnly(Child(dud, <<l>>)) /\ Child(dud, <<l>>).dud = dud /\ Child(dud, <<l>>).stdin = <<l>>
        BY <1>1, <2>1
    <2>3. l.seed => Seeds(Child(dud, <<l>>))
        <3>1. Child(dud, <<l>>).stdin = <<l>>
            BY <2>2
        <3>2. 1 \in 1..Len(<<l>>)
            OBVIOUS
        <3> QED BY <2>1, <3>1, <3>2 DEF Seeds
    <2> QED BY <1>3, <2>1, <2>2, <2>3 DEF Holds
<1> QED BY <1>2, <1>3

LEMMA LaunchHolds ==
    ASSUME SessionTypes, NEW stdin \in Seq(Lines), Launch(~freshNextLaunch, stdin), phantom' = phantom,
           freshNextLaunch' = FALSE
    PROVE  /\ child'.up
           /\ stdin = <<>> /\ seedPending' = seedPending /\ (seedPending \/ WillFail)
                => Holds(child', OwedNext', WillFail')
           /\ \A l \in Lines : stdin = <<l>> /\ (l.seed \/ WillFail) => Holds(child', OwedNext', WillFail')
<1>1. PICK dud \in BOOLEAN : child' = Child(dud, stdin) /\ (~freshNextLaunch /\ phantom => dud)
    BY DEF Launch
<1>2. child'.up
    BY <1>1 DEF Child
<1>3. phantom \in BOOLEAN /\ freshNextLaunch \in BOOLEAN /\ seedPending \in BOOLEAN
    BY DEF SessionTypes, TypeOK
<1>4. WillFail => dud /\ WillFail'
    BY <1>1 DEF WillFail
<1>5. OwedNext' \in BOOLEAN /\ WillFail' \in BOOLEAN
    BY <1>3 DEF OwedNext, WillFail
<1>6. seedPending' = seedPending /\ seedPending => OwedNext'
    BY DEF OwedNext
<1>7. stdin = <<>> /\ seedPending' = seedPending /\ (seedPending \/ WillFail)
        => Holds(child', OwedNext', WillFail')
    BY <1>1, <1>4, <1>5, <1>6, HoldsFresh
<1>8. ASSUME NEW l \in Lines, stdin = <<l>>, l.seed \/ WillFail
      PROVE  Holds(child', OwedNext', WillFail')
    BY <1>1, <1>4, <1>5, <1>8, HoldsFresh
<1> QED BY <1>2, <1>7, <1>8

\* A line that is driven takes the handoff with it.
LEMMA DriveHolds ==
    ASSUME SessionTypes, NEW m \in Messages, NEW c \in Children, Drive(m, c),
           deferred = "no", phantom' = phantom,
           c.up => Holds(c, seedPending, WillFail), ~c.up => seedPending \/ WillFail
    PROVE  child'.up /\ Holds(child', OwedNext', WillFail')
<1>1. /\ seedPending \in BOOLEAN /\ WillFail \in BOOLEAN /\ freshNextLaunch \in BOOLEAN
      /\ Line(m, seedPending) \in Lines /\ Line(m, seedPending).seed = seedPending
    <2>1. seedPending \in BOOLEAN /\ phantom \in BOOLEAN /\ freshNextLaunch \in BOOLEAN
        BY DEF SessionTypes, TypeOK
    <2> QED BY <2>1, LineIs DEF WillFail, Line
<1>2. seedPending' = FALSE
    BY DEF Drive
<1>3. CASE c.up /\ HoldLine
    <2>1. child' = c /\ freshNextLaunch' = freshNextLaunch
          /\ deferred' = IF seedPending THEN "seeded" ELSE "plain"
        BY <1>3 DEF Drive
    <2>2. OwedNext' <=> seedPending
        BY <1>2, <2>1 DEF OwedNext
    <2>3. WillFail' = WillFail
        BY <2>1 DEF WillFail
    <2> QED BY <1>3, <2>1, <2>2, <2>3 DEF Holds
<1>4. CASE c.up /\ ~HoldLine
    <2>1. /\ child' = [c EXCEPT !.stdin = Append(c.stdin, Line(m, seedPending))]
          /\ freshNextLaunch' = freshNextLaunch /\ deferred' = deferred
        BY <1>4 DEF Drive
    <2>2. OwedNext' \in BOOLEAN /\ WillFail' = WillFail
        BY <2>1 DEF WillFail, OwedNext
    <2>3. Holds(child', OwedNext', WillFail)
        BY <1>1, <1>4, <2>1, <2>2, HoldsLine
    <2>4. child'.up
        BY <1>4, <2>1 DEF Children
    <2> QED BY <2>2, <2>3, <2>4
<1>5. CASE ~c.up
    <2>1. Launch(~freshNextLaunch, <<Line(m, seedPending)>>) /\ freshNextLaunch' = FALSE
        BY <1>5 DEF Drive
    <2>2. <<Line(m, seedPending)>> \in Seq(Lines)
        BY <1>1
    <2> QED BY <1>1, <1>5, <2>1, <2>2, LaunchHolds
<1> QED BY <1>3, <1>4, <1>5

LEMMA HandoffInitially == Init => HandoffInv
BY DEF Init, HandoffInv, Tidy, Ungrounded, HandoffReaches, Child

LEMMA PeopleHold ==
    ASSUME SessionTypes, AnswerInv, HandoffInv, NEW m \in Messages,
           Ask(m) \/ Inject(m) \/ SupersedeQueued(m)
    PROVE  HandoffInv'
<1> USE DEF HandoffInv, Tidy, Kept, HandoffReaches, Ungrounded, OwedNext, WillFail
<1>1. CASE Ask(m)
    <2>1. UNCHANGED <<pending, seedPending, stopped, child, deferred, phantom, freshNextLaunch,
                      lastHandoff, grounded, dropped, bereft>>
        BY <1>1 DEF Ask, turn, session, observed
    <2>2. ~stopped /\ (pump' = "delay" => pump = "delay")
        BY <1>1 DEF Ask
    <2> QED BY <2>1, <2>2
<1>2. CASE SupersedeQueued(m)
    <2>1. UNCHANGED <<pending, pump, seedPending, stopped, child, deferred, phantom, freshNextLaunch,
                      lastHandoff, grounded, dropped, bereft>>
        BY <1>2 DEF SupersedeQueued, turn, session, observed
    <2>2. turnQueue # <<>>
        BY <1>2 DEF SupersedeQueued
    <2> QED BY <2>1, <2>2
<1>3. CASE Inject(m)
    <2>1. /\ UNCHANGED <<pending, pump, turnQueue, seedPending, stopped, deferred, phantom,
                         freshNextLaunch, lastHandoff, grounded, dropped, bereft>>
          /\ child' = [child EXCEPT !.stdin = Append(child.stdin, Line(m, FALSE))]
          /\ pending /\ child.up /\ ~peerTurnLive
        BY <1>3 DEF Inject, queue, session, observed
    <2>2. ~OwedNext
        BY <2>1 DEF AnswerInv, Backed
    <2>3. /\ child \in Children /\ Line(m, FALSE) \in Lines /\ OwedNext \in BOOLEAN /\ WillFail \in BOOLEAN
          /\ pump # "delay"
        BY <2>1, LineIs DEF SessionTypes, TypeOK, Driven
    <2>4. child'.up = child.up
        BY <2>1, <2>3 DEF Children
    <2>5. Holds(child, OwedNext, WillFail) => Holds(child', OwedNext, WillFail)
        BY <2>1, <2>2, <2>3, HoldsLine
    <2>6. OwedNext' = OwedNext /\ WillFail' = WillFail
        BY <2>1
    <2>7. Tidy'
        BY <2>1, <2>3
    <2>8. Ungrounded' => Kept'
        <3> HIDE DEF OwedNext, WillFail
        <3> QED BY <2>1, <2>4, <2>5, <2>6
    <2> QED BY <2>1, <2>7, <2>8
<1> QED BY <1>1, <1>2, <1>3

\* A child that is recycled, or dies, with the handoff unread: the handoff is dropped, or owed still.
LEMMA DeathHolds ==
    ASSUME SessionTypes, Kept, child.up, ~SeedDies
    PROVE  seedPending \/ WillFail
<1>1. child \in Children /\ OwedNext \in BOOLEAN /\ WillFail \in BOOLEAN
    BY DEF SessionTypes, TypeOK, OwedNext, WillFail
<1>2. OwedNext \/ Seeds(child) \/ WillFail
    BY <1>1, HoldsSome DEF Kept
<1> QED BY <1>2 DEF SeedDies, OwedNext, Seeds, WillFail, SessionTypes, TypeOK

LEMMA PoolHolds ==
    ASSUME SessionTypes, AnswerInv, HandoffInv,
           CancelLiveTurn \/ ReapTurn \/ RecycleIdle \/ Prewarm \/ RotateWhileIdle \/ HandoffEnds \/ Stop
    PROVE  HandoffInv'
<1>0. <<>> \in Seq(Lines) /\ (pending => pump = "turn") /\ Tidy /\ HandoffReaches /\ (Ungrounded => Kept)
    BY DEF SessionTypes, Driven, HandoffInv
<1>1. ASSUME child' = Down, dropped' = (dropped \/ SeedDies), Tidy',
             child.up \/ (stopped /\ pump' # "delay"), pump' = "delay" => pump = "delay",
             UNCHANGED <<stopped, seedPending, phantom, freshNextLaunch, lastHandoff, grounded, bereft>>
      PROVE  HandoffInv'
    <2>1. Ungrounded' => Ungrounded /\ ~SeedDies
        BY <1>1 DEF Ungrounded
    <2>2. Ungrounded' /\ child.up => seedPending \/ WillFail
        BY <1>0, <2>1, DeathHolds
    <2>3. WillFail' = WillFail
        BY <1>1 DEF WillFail
    <2> QED BY <1>0, <1>1, <2>2, <2>3, DownIs DEF HandoffInv, Kept, HandoffReaches
<1>2. CASE CancelLiveTurn \/ ReapTurn
    <2>1. EndLiveTurn
        BY <1>2 DEF CancelLiveTurn, ReapTurn
    <2>2. /\ child' = Down /\ dropped' = (dropped \/ SeedDies) /\ turnQueue' = turnQueue /\ ~pending'
          /\ UNCHANGED <<stopped, seedPending, phantom, freshNextLaunch, lastHandoff, grounded, bereft>>
        BY <2>1 DEF EndLiveTurn, Recycle, Over, session
    <2>3. pump' # "delay"
        BY <2>1 DEF EndLiveTurn, Over, AfterTurn
    <2>4. child.up \/ stopped
        BY <2>1 DEF EndLiveTurn, AnswerInv, Backed
    <2>5. Tidy'
        BY <1>0, <2>2, <2>3 DEF Tidy
    <2> QED BY <1>1, <2>2, <2>3, <2>4, <2>5
<1>3. CASE RecycleIdle
    <2>1. /\ child' = Down /\ dropped' = (dropped \/ SeedDies) /\ child.up
          /\ UNCHANGED <<turnQueue, pump, pending, stopped, seedPending, phantom, freshNextLaunch,
                         lastHandoff, grounded, bereft>>
        BY <1>3 DEF RecycleIdle, Recycle, queue, session
    <2>2. Tidy'
        BY <1>0, <2>1, DownIs DEF Tidy
    <2> QED BY <1>1, <2>1, <2>2
<1>4. CASE Prewarm
    <2>1. /\ Launch(~freshNextLaunch, <<>>) /\ freshNextLaunch' = FALSE /\ ~child.up /\ ~stopped
          /\ UNCHANGED <<turnQueue, pump, pending, stopped, seedPending, phantom, lastHandoff, grounded,
                         dropped, bereft>>
        BY <1>4 DEF Prewarm, queue
    <2>2. Tidy'
        <3>1. child'.stdin = <<>>
            BY <1>0, <2>1, LaunchTypes DEF SessionTypes, TypeOK
        <3> QED BY <1>0, <2>1, <3>1 DEF Tidy
    <2>3. child'.up /\ (seedPending \/ WillFail => Holds(child', OwedNext', WillFail'))
        BY <1>0, <2>1, LaunchHolds
    <2>4. Ungrounded' => Ungrounded
        BY <2>1 DEF Ungrounded
    <2> QED BY <1>0, <2>1, <2>2, <2>3, <2>4 DEF HandoffInv, Kept, HandoffReaches
<1>5. CASE RotateWhileIdle
    <2>1. UNCHANGED <<turnQueue, pending, seedPending, stopped, child, deferred, phantom,
                      freshNextLaunch, lastHandoff, grounded, dropped, bereft>>
        BY <1>5 DEF RotateWhileIdle, turn, session, observed
    <2>2. pump' = "handoff" /\ ~stopped
        BY <1>5 DEF RotateWhileIdle
    <2> QED BY <1>0, <2>1, <2>2 DEF HandoffInv, Tidy, Kept, Ungrounded, OwedNext, WillFail, HandoffReaches
<1>6. CASE HandoffEnds
    <2>1. /\ Launch(FALSE, <<>>) /\ seedPending' = TRUE /\ ~pending' /\ pump' # "delay"
          /\ turnQueue' = turnQueue /\ stopped' = stopped /\ bereft' = bereft
        BY <1>0, <1>6 DEF HandoffEnds
    <2>2. PICK dud \in BOOLEAN : child' = Child(dud, <<>>)
        BY <2>1 DEF Launch
    <2>3. OwedNext' /\ OwedNext' \in BOOLEAN /\ WillFail' \in BOOLEAN
        BY <2>1 DEF OwedNext, WillFail
    <2>4. Holds(child', OwedNext', WillFail')
        BY <2>2, <2>3, HoldsFresh
    <2>5. child'.up
        BY <2>2 DEF Child
    <2> QED BY <1>0, <2>1, <2>4, <2>5 DEF HandoffInv, Tidy, Kept, HandoffReaches
<1>7. CASE Stop
    <2>1. /\ child' = Down /\ ~pending' /\ turnQueue' = <<>> /\ stopped'
          /\ UNCHANGED <<seedPending, phantom, freshNextLaunch, lastHandoff, grounded, dropped, bereft>>
        BY <1>7 DEF Stop, session, observed
    <2>2. pump' = "delay" => pump = "delay" /\ ~pending /\ ~stopped
        BY <1>7 DEF Stop
    <2>3. ASSUME Ungrounded', pump' = "delay" PROVE seedPending \/ WillFail
        <3>1. Kept
            BY <1>0, <2>1, <2>3 DEF Ungrounded
        <3>2. CASE child.up
            <4>1. child.stdin = <<>> /\ deferred = "no"
                BY <1>0, <2>2, <2>3, <3>2 DEF Tidy, AnswerInv, Backed
            <4>2. ~Seeds(child) /\ (OwedNext <=> seedPending)
                BY <4>1 DEF Seeds, OwedNext
            <4>3. child \in Children /\ OwedNext \in BOOLEAN /\ WillFail \in BOOLEAN
                BY DEF SessionTypes, TypeOK, OwedNext, WillFail
            <4> QED BY <3>1, <3>2, <4>2, <4>3, HoldsSome DEF Kept
        <3> QED BY <2>2, <2>3, <3>1, <3>2 DEF Kept
    <2>4. WillFail' = WillFail
        BY <2>1 DEF WillFail
    <2> QED BY <1>0, <2>1, <2>3, <2>4, DownIs DEF HandoffInv, Tidy, Kept, HandoffReaches
<1> QED BY <1>2, <1>3, <1>4, <1>5, <1>6, <1>7

LEMMA PumpHolds ==
    ASSUME SessionTypes, AnswerInv, HandoffInv, GateWon \/ DriveAgain
    PROVE  HandoffInv'
<1>0. /\ child \in Children /\ (pending => pump = "turn") /\ Tidy /\ HandoffReaches /\ (Ungrounded => Kept)
      /\ ~pending => deferred = "no"
    BY DEF SessionTypes, TypeOK, Driven, HandoffInv, AnswerInv, Backed
<1>1. CASE GateWon /\ turnQueue = <<>>
    <2>1. /\ pump' = "no"
          /\ UNCHANGED <<turnQueue, pending, seedPending, stopped, child, deferred, phantom,
                      freshNextLaunch, lastHandoff, grounded, dropped, bereft>>
        BY <1>1 DEF GateWon, turn, session
    <2> QED BY <1>0, <2>1 DEF HandoffInv, Tidy, Kept, Ungrounded, OwedNext, WillFail, HandoffReaches
<1>2. ASSUME NEW m \in Messages, Drive(m, child), ~pending, ~stopped \/ pump = "delay",
             stopped' => turnQueue' = <<>>,
             UNCHANGED <<stopped, phantom, grounded, dropped, bereft>>
      PROVE  HandoffInv'
    <2>1. pending' = TRUE /\ pump' = "turn" /\ ~seedPending' /\ lastHandoff' = lastHandoff
        BY <1>2 DEF Drive
    <2>2. OwedNext = seedPending
        BY <1>0, <1>2 DEF OwedNext, SessionTypes, TypeOK
    <2>3. Ungrounded' => child'.up /\ Holds(child', OwedNext', WillFail')
        <3>1. SUFFICES ASSUME Ungrounded PROVE child'.up /\ Holds(child', OwedNext', WillFail')
            BY <1>2, <2>1 DEF Ungrounded
        <3>2. /\ child.up => Holds(child, seedPending, WillFail)
              /\ ~child.up => seedPending \/ WillFail
            BY <1>0, <1>2, <2>2, <3>1 DEF Kept
        <3> QED BY <1>0, <1>2, <3>2, DriveHolds
    <2> QED BY <1>0, <1>2, <2>1, <2>3 DEF HandoffInv, Tidy, Kept, HandoffReaches
<1>3. CASE GateWon /\ turnQueue # <<>>
    <2>1. Head(turnQueue) \in Messages
        BY <1>3 DEF SessionTypes, TypeOK
    <2>2. /\ Drive(Head(turnQueue), child) /\ ~pending /\ ~stopped
          /\ UNCHANGED <<stopped, phantom, grounded, dropped, bereft>>
        BY <1>0, <1>3 DEF GateWon, Tidy
    <2> QED BY <1>2, <2>1, <2>2
<1>4. CASE DriveAgain
    <2>1. /\ Drive(current, child) /\ ~pending /\ pump = "delay" /\ current \in Messages
          /\ turnQueue' = turnQueue
          /\ UNCHANGED <<stopped, phantom, grounded, dropped, bereft>>
        BY <1>0, <1>4 DEF DriveAgain, SessionTypes, Driven
    <2> QED BY <1>0, <1>2, <2>1 DEF Tidy
<1> QED BY <1>1, <1>3, <1>4

LEMMA ChildHolds ==
    ASSUME SessionTypes, AnswerInv, HandoffInv, ChildReads \/ PeerTurn \/ ChildTells \/ ChildResult
    PROVE  HandoffInv'
<1>1. /\ child \in Children /\ child.up /\ Tidy /\ HandoffReaches /\ (Ungrounded => Kept)
      /\ child.stdin \in Seq(Lines) /\ child.stdout \in Seq(Frames)
      /\ Announced(child, initSeen)
    BY DEF SessionTypes, TypeOK, HandoffInv, AnswerInv, Children, ChildReads, PeerTurn, ChildTells, ChildResult
<1>2. UNCHANGED <<turnQueue, pump, pending, stopped, deferred, seedPending, freshNextLaunch,
                  lastHandoff, dropped, bereft>>
    <2>1. CASE ChildReads
        BY <2>1 DEF ChildReads, queue, turn, session
    <2>2. CASE PeerTurn
        BY <2>2 DEF PeerTurn, queue, turn, session
    <2>3. CASE ChildTells \/ ChildResult
        <3>1. UNCHANGED <<status, queue, turn, session, stopped, bounds, observed>>
            BY <2>3 DEF ChildTells, ChildResult
        <3> QED BY <3>1 DEF queue, turn, session, observed
    <2> QED BY <2>1, <2>2, <2>3
<1>3. OwedNext' = OwedNext
    BY <1>2 DEF OwedNext
<1>4. SUFFICES /\ child'.up
               /\ child.stdin = <<>> => child'.stdin = <<>>
               /\ Ungrounded' => /\ Ungrounded
                                 /\ Holds(child, OwedNext, WillFail) => Holds(child', OwedNext, WillFail')
    BY <1>1, <1>2, <1>3 DEF HandoffInv, Tidy, Kept, HandoffReaches
<1>5. CASE ChildReads
    <2>1. /\ child.stdin # <<>> /\ ~child.dud /\ child'.up
          /\ grounded' = (grounded \/ Head(child.stdin).seed)
        BY <1>1, <1>5 DEF ChildReads, Children
    <2>2. Ungrounded' => Ungrounded /\ ~Head(child.stdin).seed
        BY <1>2, <2>1 DEF Ungrounded
    <2>3. Holds(child, OwedNext, WillFail) => Head(child.stdin).seed
        BY <2>1 DEF Holds
    <2> QED BY <2>1, <2>2, <2>3
<1>6. CASE PeerTurn
    <2>1. /\ ~child.dud /\ child'.up /\ child'.dud = child.dud /\ child'.stdin = child.stdin
          /\ child'.working = {Peer} /\ grounded' = grounded
          /\ child'.stdout = IF child.init THEN child.stdout
                             ELSE Append(child.stdout, [kind |-> "init"])
        BY <1>1, <1>6 DEF PeerTurn, Children
    <2>2. PeersOnly(child) => PeersOnly(child')
        <3>1. CASE child.init
            BY <2>1, <3>1 DEF PeersOnly
        <3>2. CASE ~child.init
            <4> DEFINE f == [kind |-> "init"]
            <4>1. f \in Frames /\ f.kind # "result"
                BY FramesAre
            <4> HIDE DEF f
            <4>2. /\ child'.stdout = Append(child.stdout, f)
                  /\ \A i \in 1..Len(child'.stdout) :
                        \/ i \in 1..Len(child.stdout) /\ child'.stdout[i] = child.stdout[i]
                        \/ child'.stdout[i] = f
                BY <1>1, <2>1, <3>2, <4>1 DEF f
            <4> QED BY <2>1, <4>1, <4>2 DEF PeersOnly
        <3> QED BY <3>1, <3>2
    <2>3. Ungrounded' => Ungrounded
        BY <1>2, <2>1 DEF Ungrounded
    <2> QED BY <2>1, <2>2, <2>3 DEF Holds
<1>7. CASE ChildTells
    <2>1. /\ child'.up /\ child'.dud = child.dud /\ child'.stdin = child.stdin /\ ~child.dud
          /\ child'.working = child.working /\ child'.stdout = <<[kind |-> "event"]>>
        BY <1>1, <1>7 DEF ChildTells, Children, Announced
    <2>2. PeersOnly(child) => PeersOnly(child')
        <3>1. \A i \in 1..Len(child'.stdout) : child'.stdout[i].kind # "result"
            BY <2>1
        <3> QED BY <2>1, <3>1 DEF PeersOnly
    <2>3. Ungrounded' => Ungrounded
        BY <1>2, <1>7 DEF ChildTells, observed, Ungrounded
    <2> QED BY <2>1, <2>2, <2>3 DEF Holds
<1>8. CASE ChildResult
    <2>1. /\ child'.up /\ child'.dud = child.dud /\ child'.stdin = child.stdin
        BY <1>1, <1>8 DEF ChildResult, Children
    <2>2. Ungrounded' => Ungrounded
        <3>1. UNCHANGED observed
            BY <1>8 DEF ChildResult
        <3> QED BY <1>2, <3>1 DEF observed, Ungrounded
    <2>3. WillFail' = WillFail
        <3>1. UNCHANGED observed
            BY <1>8 DEF ChildResult
        <3> QED BY <1>2, <3>1 DEF observed, WillFail
    <2>4. CASE child.dud
        <3>1. Seeds(child) => Seeds(child')
            BY <2>1 DEF Seeds
        <3> QED BY <2>1, <2>2, <2>3, <2>4, <3>1 DEF Holds
    <2>5. CASE ~child.dud
        <3>1. PICK output \in BOOLEAN :
                 child' = [child EXCEPT !.working = {},
                             !.stdout = Append(child.stdout, [kind |-> "result", read |-> child.working,
                                                              output |-> output])]
            BY <1>8, <2>5 DEF ChildResult
        <3> DEFINE f == [kind |-> "result", read |-> child.working, output |-> output]
        <3>2. f \in Frames /\ f.read = child.working
            BY <1>1, FramesAre DEF Children
        <3>3. child'.working = {} /\ child'.stdout = Append(child.stdout, f)
            BY <1>1, <3>1 DEF Children
        <3> HIDE DEF f
        <3>4. \A i \in 1..Len(child'.stdout) :
                 \/ i \in 1..Len(child.stdout) /\ child'.stdout[i] = child.stdout[i]
                 \/ child'.stdout[i] = f
            BY <1>1, <3>2, <3>3
        <3>5. PeersOnly(child) => PeersOnly(child')
            BY <3>2, <3>3, <3>4 DEF PeersOnly
        <3> QED BY <2>1, <2>2, <2>5, <3>5 DEF Holds
    <2> QED BY <2>4, <2>5
<1> QED BY <1>5, <1>6, <1>7, <1>8

LEMMA ExitHolds ==
    ASSUME SessionTypes, AnswerInv, HandoffInv, ChildExits \/ ExitAfterStop
    PROVE  HandoffInv'
<1>0. (pending => pump = "turn") /\ Tidy /\ HandoffReaches /\ (Ungrounded => Kept)
    BY DEF SessionTypes, Driven, HandoffInv
<1>1. CASE ExitAfterStop
    <2>1. /\ child.up /\ stopped /\ child' = Down /\ dropped' = (dropped \/ SeedDies)
          /\ UNCHANGED <<turnQueue, pump, pending, stopped, seedPending, phantom, freshNextLaunch,
                         lastHandoff, grounded, bereft>>
        BY <1>1 DEF ExitAfterStop, Recycle, queue, session
    <2>2. Ungrounded' => Ungrounded /\ ~SeedDies
        BY <2>1 DEF Ungrounded
    <2>3. Ungrounded' => seedPending \/ WillFail
        BY <1>0, <2>1, <2>2, DeathHolds
    <2>4. WillFail' = WillFail
        BY <2>1 DEF WillFail
    <2> QED BY <1>0, <2>1, <2>3, <2>4, DownIs DEF HandoffInv, Tidy, Kept, HandoffReaches
<1>2. CASE ChildExits
    <2> DEFINE died == lastLaunchWasResume /\ ~initSeen
               fresh == died /\ resumeRetryUsed
    <2>1. /\ child.up /\ ~stopped /\ child' = Down /\ ~pending'
          /\ UNCHANGED <<stopped, lastHandoff, bereft>>
        BY <1>2 DEF ChildExits
    <2>2. Tidy'
        BY <1>0, <2>1, DownIs DEF Tidy
    <2>3. CASE fresh
        <3>1. seedPending' = (seedPending \/ lastHandoff)
            BY <1>2, <2>3 DEF ChildExits, SeedAgain
        <3> QED BY <1>0, <2>1, <2>2, <3>1, DownIs DEF HandoffInv, Kept, Ungrounded, HandoffReaches
    <2>4. CASE ~fresh
        <3>1. /\ dropped' = (dropped \/ SeedDies) /\ seedPending' = seedPending
              /\ grounded' = grounded /\ phantom' = phantom /\ freshNextLaunch' = freshNextLaunch
            BY <1>2, <2>4 DEF ChildExits, SessionTypes, TypeOK
        <3>2. Ungrounded' => Ungrounded /\ ~SeedDies
            BY <2>1, <3>1 DEF Ungrounded
        <3>3. Ungrounded' => seedPending \/ WillFail
            BY <1>0, <2>1, <3>2, DeathHolds
        <3>4. WillFail' = WillFail
            BY <3>1 DEF WillFail
        <3> QED BY <1>0, <2>1, <2>2, <3>1, <3>3, <3>4, DownIs DEF HandoffInv, Kept, HandoffReaches
    <2> QED BY <2>3, <2>4
<1> QED BY <1>1, <1>2

LEMMA ReadHolds ==
    ASSUME SessionTypes, AnswerInv, HandoffInv, Reads
    PROVE  HandoffInv'
<1> DEFINE m == current
<1>1. /\ child \in Children /\ child.up /\ child.stdout # <<>> /\ Announced(child, initSeen)
      /\ child.stdout \in Seq(Frames)
      /\ Backed /\ Tidy /\ HandoffReaches /\ (Ungrounded => Kept)
      /\ OwedNext \in BOOLEAN /\ WillFail \in BOOLEAN
    BY DEF SessionTypes, TypeOK, AnswerInv, HandoffInv, OwedNext, WillFail, Children, Reads, ReadInit,
           ReadEvent, ReadDeadResult, ReadUnsolicited, ReadReply
<1>2. /\ Popped \in Children /\ Popped.up /\ Popped.stdin = child.stdin
      /\ Popped = [child EXCEPT !.stdout = Tail(child.stdout)]
    BY <1>1, PipesKept DEF Popped, Children
<1>3. Ungrounded => Holds(Popped, OwedNext, WillFail)
    BY <1>1, <1>2, HoldsPop DEF Kept
<1>4. UNCHANGED <<stopped, phantom, lastHandoff, grounded, dropped>>
    BY DEF Reads, ReadInit, ReadEvent, ReadDeadResult, ReadUnsolicited, ReadReply, Drive, session, observed
<1>5. Ungrounded' = Ungrounded
    BY <1>4 DEF Ungrounded
<1>6. CASE ReadInit \/ ReadEvent \/ ReadDeadResult
    <2>1. /\ child' = Popped
          /\ UNCHANGED <<turnQueue, pump, pending, deferred, seedPending, freshNextLaunch, bereft>>
        <3>1. CASE ReadInit
            BY <3>1 DEF ReadInit, queue, turn, observed
        <3>2. CASE ReadEvent
            BY <3>2 DEF ReadEvent, queue, session, observed
        <3>3. CASE ReadDeadResult
            BY <3>3 DEF ReadDeadResult, queue, turn, session, observed
        <3> QED BY <1>6, <3>1, <3>2, <3>3
    <2>2. OwedNext' = OwedNext /\ WillFail' = WillFail
        BY <1>4, <2>1 DEF OwedNext, WillFail
    <2> QED BY <1>1, <1>2, <1>3, <1>4, <1>5, <2>1, <2>2 DEF HandoffInv, Tidy, Kept, HandoffReaches
<1>7. CASE ReadUnsolicited
    <2>1. /\ ~pending \/ peerTurnLive
          /\ deferred' = "no"
          /\ UNCHANGED <<turnQueue, pump, pending, seedPending, freshNextLaunch, bereft>>
        BY <1>7 DEF ReadUnsolicited, Unsolicited, queue, session
    <2>2. WillFail' = WillFail /\ OwedNext' \in BOOLEAN
        BY <1>1, <1>4, <2>1 DEF OwedNext, WillFail
    <2>3. CASE ~pending
        <3>1. child' = Popped /\ deferred = "no"
            BY <1>1, <1>7, <2>3 DEF ReadUnsolicited, Backed
        <3>2. OwedNext' = OwedNext
            BY <2>1, <3>1 DEF OwedNext
        <3> QED BY <1>1, <1>2, <1>3, <1>4, <1>5, <2>1, <2>2, <3>1, <3>2
                DEF HandoffInv, Tidy, Kept, HandoffReaches
    <2>4. CASE pending
        <3> DEFINE seed == deferred = "seeded"
        <3>1. deferred # "no" /\ ~seedPending /\ pump # "delay"
            BY <1>1, <2>1, <2>4 DEF Backed, Tidy, SessionTypes, Driven
        <3>2. child' = [Popped EXCEPT !.stdin = Append(Popped.stdin, Line(m, seed))]
            BY <1>7, <2>4, <3>1 DEF ReadUnsolicited
        <3>3. Line(m, seed) \in Lines /\ Line(m, seed).seed = seed
            <4>1. m \in Messages /\ seed \in BOOLEAN
                BY <2>4 DEF SessionTypes, Driven
            <4> QED BY <4>1, LineIs DEF Line
        <3>4. OwedNext => seed
            BY <3>1 DEF OwedNext
        <3>5. ASSUME Ungrounded PROVE Holds(child', OwedNext', WillFail)
            <4> DEFINE l == Line(m, seed)
            <4>1. l \in Lines /\ (OwedNext => l.seed)
                BY <3>3, <3>4
            <4>2. child' = [Popped EXCEPT !.stdin = Append(Popped.stdin, l)]
                BY <3>2
            <4>3. Holds(Popped, OwedNext, WillFail)
                BY <1>3, <3>5
            <4> HIDE DEF l
            <4> QED BY <1>1, <1>2, <2>2, <4>1, <4>2, <4>3, HoldsLine
        <3>6. child'.up
            BY <1>2, <3>2 DEF Children
        <3> QED BY <1>1, <1>4, <1>5, <2>1, <2>2, <3>1, <3>5, <3>6
                DEF HandoffInv, Tidy, Kept, HandoffReaches
    <2> QED BY <2>3, <2>4
<1>8. CASE ReadReply
    <2>1. /\ Frame.kind = "result" /\ pending /\ ~peerTurnLive
          /\ deferred = "no" /\ ~seedPending /\ m \in Messages /\ pump # "delay"
        BY <1>1, <1>8 DEF ReadReply, Unsolicited, Backed, Tidy, SessionTypes, Driven
    <2>2. ~OwedNext
        BY <2>1 DEF OwedNext
    <2>3. CASE Frame.output \/ ~MayRedrive
        <3>1. /\ ~pending' /\ pump' # "delay" /\ turnQueue' = turnQueue
              /\ child' = Popped /\ UNCHANGED <<deferred, seedPending, freshNextLaunch>>
            BY <1>8, <2>3 DEF ReadReply, Over, AfterTurn, session
        <3>2. OwedNext' = OwedNext /\ WillFail' = WillFail
            BY <1>4, <3>1 DEF OwedNext, WillFail
        <3>3. ~bereft'
            <4>1. ASSUME Frame.output, Ungrounded PROVE m \notin Frame.read
                <5>1. Frame = child.stdout[1] /\ 1 \in 1..Len(child.stdout)
                    BY <1>1 DEF Frame
                <5>2. ~child.dud
                    BY <1>1, <2>1, <4>1, <5>1 DEF Announced
                <5>3. Frame.read \subseteq {Peer}
                    BY <1>1, <2>1, <4>1, <5>1, <5>2 DEF Kept, Holds, PeersOnly
                <5> QED BY <2>1, <5>3, SessionAssumption DEF SessionAssumption
            <4> QED BY <1>1, <1>8, <2>3, <4>1 DEF ReadReply, HandoffReaches, Ungrounded
        <3> QED BY <1>1, <1>2, <1>3, <1>4, <1>5, <3>1, <3>2, <3>3 DEF HandoffInv, Tidy, Kept, HandoffReaches
    <2>4. CASE ~Frame.output /\ MayRedrive
        <3>1. Drive(m, Popped) /\ bereft' = bereft /\ turnQueue' = turnQueue
            BY <1>8, <2>4 DEF ReadReply
        <3>2. pending' = TRUE /\ pump' = "turn" /\ ~seedPending'
            BY <3>1 DEF Drive
        <3>3. OwedNext = seedPending
            BY <2>1 DEF OwedNext, SessionTypes, TypeOK
        <3>4. Ungrounded => child'.up /\ Holds(child', OwedNext', WillFail')
            BY <1>2, <1>3, <1>4, <2>1, <3>1, <3>3, DriveHolds
        <3> QED BY <1>1, <1>4, <1>5, <3>1, <3>2, <3>4 DEF HandoffInv, Tidy, Kept, HandoffReaches
    <2> QED BY <2>3, <2>4
<1> QED BY <1>6, <1>7, <1>8 DEF Reads

LEMMA HandoffKept ==
    ASSUME SessionTypes, AnswerInv, HandoffInv, [Next]_vars
    PROVE  HandoffInv'
<1>1. CASE UNCHANGED vars
    BY <1>1 DEF vars, queue, turn, session, observed, HandoffInv, Tidy, Kept, Ungrounded, OwedNext,
                WillFail, HandoffReaches
<1> QED BY <1>1, PeopleHold, PoolHolds, PumpHolds, ChildHolds, ExitHolds, ReadHolds DEF Next

(* The transcript of a session that answers holds the handoff of the session before it, over    *)
(* every rung of the ladder of failed resumes and any number of rotations; save where the line  *)
(* with it died in a session that a peer's turn had begun, or that was launched afresh.         *)
THEOREM SessionKeepsHandoff == Spec => []HandoffReaches
<1>1. Init => SessionTypes /\ AnswerInv /\ HandoffInv
    BY TypesInitially, AnswerInitially, HandoffInitially
<1>2. SessionTypes /\ AnswerInv /\ HandoffInv /\ [Next]_vars => (SessionTypes /\ AnswerInv /\ HandoffInv)'
    BY TypesKept, AnswerKept, HandoffKept
<1>3. HandoffInv => HandoffReaches
    BY DEF HandoffInv
<1> QED BY <1>1, <1>2, <1>3, PTL DEF Spec

-----------------------------------------------------------------------------
(***************************************************************************)
(* Nobody waits in vain.  The pump takes the head of a queue in which every *)
(* message was asked for and stands once, drives it to an end, and rests    *)
(* only when the queue is empty; what is injected is none of these, so that *)
(* giving it back takes nothing from the queue.                             *)
(***************************************************************************)

Asked ==
    /\ \A i \in 1..Len(turnQueue) : status[turnQueue[i]] = "queued"
    /\ \A i, j \in 1..Len(turnQueue) : turnQueue[i] = turnQueue[j] => i = j
    /\ turnQueue # <<>> => pump # "no"
    /\ \A m \in injected : status[m] = "injected"
    /\ current # None => status[current] = "running"
    /\ pump \in {"turn", "delay"} => current # None
    /\ pump = "turn" => pending

AskInv == AsksTended /\ Asked

LEMMA AsksInitially == Init => AskInv
<1> SUFFICES ASSUME Init PROVE AskInv
    OBVIOUS
<1>1. turnQueue = <<>> /\ Len(turnQueue) = 0 /\ pump = "no" /\ current = None /\ injected = {}
      /\ \A m \in Messages : status[m] = "new"
    BY DEF Init
<1> QED BY <1>1 DEF AskInv, AsksTended, Asked

\* A step that leaves alone what the queue is made of
LEMMA AsksLeft ==
    ASSUME AskInv, UNCHANGED <<status, turnQueue, pump, current, pending, injected>>
    PROVE  AskInv'
BY DEF AskInv, AsksTended, Asked

\* The end of a turn, after which some that were injected may be covered
LEMMA OverTended ==
    ASSUME SessionTypes, AskInv, pending, NEW s, Over(s, turnQueue), injected' \in {injected, {}},
           s \in [Messages -> {"new", "queued", "running", "injected", "settled", "lost"}],
           \A m \in Messages : s[m] = status[m] \/ (status[m] = "injected" /\ s[m] = "settled" /\ injected' = {})
    PROVE  AskInv'
<1>1. current \in Messages /\ status[current] = "running" /\ pump = "turn"
    BY SessionAssumption DEF SessionAssumption, SessionTypes, TypeOK, Driven, AskInv, Asked
<1>2. /\ turnQueue' = turnQueue /\ current' = None /\ ~pending'
      /\ status' = [s EXCEPT ![current] = "settled"]
      /\ pump' \in {"no", "gate", "handoff"} /\ (turnQueue # <<>> => pump' # "no")
    BY DEF Over, AfterTurn
<1>3. \A m \in Messages : status'[m] = IF m = current THEN "settled" ELSE s[m]
    BY <1>2
<1>4. \A i \in 1..Len(turnQueue) : turnQueue[i] \in Messages
    BY DEF SessionTypes, TypeOK
<1>5. \A m \in Messages : status'[m] = "queued" => status[m] = "queued"
    BY <1>3
<1>6. \A m \in Messages : status'[m] # "running"
    BY <1>1, <1>3 DEF AskInv, AsksTended
<1>7. AsksTended'
    <2>1. \A m \in Messages : status'[m] = "queued" => \E i \in 1..Len(turnQueue) : turnQueue[i] = m
        BY <1>5 DEF AskInv, AsksTended
    <2>2. (\E i \in 1..Len(turnQueue) : TRUE) => turnQueue # <<>>
        OBVIOUS
    <2> QED BY <1>2, <1>6, <2>1, <2>2 DEF AsksTended
<1>8. Asked'
    <2>1. \A i \in 1..Len(turnQueue) : status'[turnQueue[i]] = "queued"
        BY <1>1, <1>3, <1>4 DEF AskInv, Asked
    <2>2. \A m \in injected' : status'[m] = "injected"
        BY <1>1, <1>3 DEF AskInv, Asked, SessionTypes, TypeOK
    <2> QED BY <1>2, <2>1, <2>2 DEF AskInv, Asked
<1> QED BY <1>7, <1>8 DEF AskInv

\* A turn is driven again: the message stays the current one.
LEMMA AgainTended ==
    ASSUME SessionTypes, AskInv, pending \/ pump = "delay", pump' \in {"turn", "delay"},
           pump' = "turn" => pending',
           UNCHANGED <<turnQueue, current>>, injected' \in {injected, {}},
           \A m \in Messages : status'[m] = status[m]
                               \/ (status[m] = "injected" /\ status'[m] = "settled" /\ injected' = {})
    PROVE  AskInv'
<1>1. current \in Messages /\ status[current] = "running" /\ current # None
    BY SessionAssumption DEF SessionAssumption, SessionTypes, TypeOK, Driven, AskInv, Asked
<1>2. \A i \in 1..Len(turnQueue) : turnQueue[i] \in Messages
    BY DEF SessionTypes, TypeOK
<1>3. AsksTended'
    BY DEF AskInv, AsksTended
<1>4. Asked'
    <2>1. \A i \in 1..Len(turnQueue) : status'[turnQueue[i]] = "queued"
        BY <1>2 DEF AskInv, Asked
    <2>2. \A m \in injected' : status'[m] = "injected"
        BY DEF AskInv, Asked, SessionTypes, TypeOK
    <2>3. status'[current] = "running"
        BY <1>1
    <2> QED BY <1>1, <2>1, <2>2, <2>3 DEF AskInv, Asked
<1> QED BY <1>3, <1>4 DEF AskInv

\* A message goes into the queue, or out of it.
With(q, i, m) == SubSeq(q, 1, i - 1) \o <<m>> \o SubSeq(q, i, Len(q))
Without(q, i) == SubSeq(q, 1, i - 1) \o SubSeq(q, i + 1, Len(q))

LEMMA QueueWith ==
    ASSUME NEW q \in Seq(Messages), NEW m \in Messages, NEW i \in 1..(Len(q) + 1)
    PROVE  /\ Len(With(q, i, m)) = Len(q) + 1 /\ With(q, i, m)[i] = m
           /\ \A k \in 1..(i - 1) : With(q, i, m)[k] = q[k]
           /\ \A k \in i..Len(q) : With(q, i, m)[k + 1] = q[k]
<1> DEFINE n == Len(q)
           p == With(q, i, m)
           front == SubSeq(q, 1, i - 1)
           back == SubSeq(q, i, n)
<1>1. n \in Nat /\ i \in Int /\ 1 <= i /\ i <= n + 1 /\ \A k \in 1..n : q[k] \in Messages
    OBVIOUS
<1>2. /\ front \in Seq(Messages) /\ Len(front) = i - 1
      /\ \A k \in 1..(i - 1) : front[k] = q[k]
    <2>1. i - 1 \in Int /\ \A k \in 1..(i - 1) : q[k] \in Messages
        BY <1>1
    <2>2. /\ front \in Seq(Messages) /\ Len(front) = IF 1 <= i - 1 THEN (i - 1) - 1 + 1 ELSE 0
          /\ \A k \in 1..((i - 1) - 1 + 1) : front[k] = q[1 + k - 1]
        BY <2>1, SubSeqProperties
    <2> QED BY <1>1, <2>2
<1>3. /\ back \in Seq(Messages) /\ Len(back) = n - i + 1
      /\ \A k \in 1..(n - i + 1) : back[k] = q[i + k - 1]
    <2>1. n \in Int /\ \A k \in i..n : q[k] \in Messages
        BY <1>1
    <2>2. /\ back \in Seq(Messages) /\ Len(back) = IF i <= n THEN n - i + 1 ELSE 0
          /\ \A k \in 1..(n - i + 1) : back[k] = q[i + k - 1]
        BY <1>1, <2>1, SubSeqProperties
    <2> QED BY <1>1, <2>2
<1> HIDE DEF front, back, n
<1>4. p = (front \o <<m>>) \o back
    BY DEF With, front, back, n
<1> HIDE DEF p
<1>5. /\ front \o <<m>> \in Seq(Messages) /\ Len(front \o <<m>>) = i
      /\ \A k \in 1..i : (front \o <<m>>)[k] = IF k <= i - 1 THEN front[k] ELSE m
    <2>1. <<m>> \in Seq(Messages) /\ Len(<<m>>) = 1 /\ <<m>>[1] = m
        OBVIOUS
    <2>2. /\ front \o <<m>> \in Seq(Messages) /\ Len(front \o <<m>>) = (i - 1) + 1
          /\ \A k \in 1..((i - 1) + 1) : (front \o <<m>>)[k] = IF k <= i - 1 THEN front[k] ELSE <<m>>[k - (i - 1)]
        BY <1>2, <2>1, ConcatProperties
    <2> QED BY <1>1, <2>1, <2>2
<1>6. /\ Len(p) = i + (n - i + 1)
      /\ \A k \in 1..(i + (n - i + 1)) : p[k] = IF k <= i THEN (front \o <<m>>)[k] ELSE back[k - i]
    <2> DEFINE mid == front \o <<m>>
    <2>1. mid \in Seq(Messages) /\ Len(mid) = i
        BY <1>5
    <2> HIDE DEF mid
    <2>2. /\ Len(mid \o back) = Len(mid) + Len(back)
          /\ \A k \in 1..(Len(mid) + Len(back)) : (mid \o back)[k] = IF k <= Len(mid) THEN mid[k] ELSE back[k - Len(mid)]
        BY <1>3, <2>1, ConcatProperties
    <2>3. p = mid \o back
        BY <1>4 DEF mid
    <2>4. /\ Len(p) = i + (n - i + 1)
          /\ \A k \in 1..(i + (n - i + 1)) : p[k] = IF k <= i THEN mid[k] ELSE back[k - i]
        BY <1>3, <2>1, <2>2, <2>3
    <2> QED BY <2>4 DEF mid
<1>7. Len(p) = n + 1 /\ p[i] = m
    BY <1>1, <1>5, <1>6
<1>8. \A k \in 1..(i - 1) : p[k] = q[k]
    BY <1>1, <1>2, <1>5, <1>6
<1>9. \A k \in i..n : p[k + 1] = q[k]
    <2> SUFFICES ASSUME NEW k \in i..n PROVE p[k + 1] = q[k]
        OBVIOUS
    <2>1. k + 1 \in 1..(i + (n - i + 1)) /\ ~(k + 1 <= i) /\ (k + 1) - i \in 1..(n - i + 1)
          /\ i + ((k + 1) - i) - 1 = k
        BY <1>1
    <2>2. p[k + 1] = back[(k + 1) - i]
        BY <1>6, <2>1
    <2> QED BY <1>3, <2>1, <2>2
<1> QED BY <1>7, <1>8, <1>9 DEF n, p

LEMMA QueueWithout ==
    ASSUME NEW q \in Seq(Messages), NEW i \in 1..Len(q)
    PROVE  /\ Len(Without(q, i)) = Len(q) - 1
           /\ \A k \in 1..(i - 1) : Without(q, i)[k] = q[k]
           /\ \A k \in i..(Len(q) - 1) : Without(q, i)[k] = q[k + 1]
<1> DEFINE n == Len(q)
           p == Without(q, i)
           front == SubSeq(q, 1, i - 1)
           back == SubSeq(q, i + 1, n)
<1>1. n \in Nat /\ i \in Int /\ 1 <= i /\ i <= n /\ \A k \in 1..n : q[k] \in Messages
    OBVIOUS
<1>2. /\ front \in Seq(Messages) /\ Len(front) = i - 1
      /\ \A k \in 1..(i - 1) : front[k] = q[k]
    <2>1. i - 1 \in Int /\ \A k \in 1..(i - 1) : q[k] \in Messages
        BY <1>1
    <2>2. /\ front \in Seq(Messages) /\ Len(front) = IF 1 <= i - 1 THEN (i - 1) - 1 + 1 ELSE 0
          /\ \A k \in 1..((i - 1) - 1 + 1) : front[k] = q[1 + k - 1]
        BY <2>1, SubSeqProperties
    <2> QED BY <1>1, <2>2
<1>3. /\ back \in Seq(Messages) /\ Len(back) = n - i
      /\ \A k \in 1..(n - i) : back[k] = q[i + k]
    <2>1. n \in Int /\ i + 1 \in Int /\ \A k \in (i + 1)..n : q[k] \in Messages
        BY <1>1
    <2>2. /\ back \in Seq(Messages) /\ Len(back) = IF i + 1 <= n THEN n - (i + 1) + 1 ELSE 0
          /\ \A k \in 1..(n - (i + 1) + 1) : back[k] = q[(i + 1) + k - 1]
        BY <2>1, SubSeqProperties
    <2> QED BY <1>1, <2>2
<1> HIDE DEF front, back, n
<1>4. p = front \o back
    BY DEF Without, front, back, n
<1> HIDE DEF p
<1>5. /\ Len(p) = (i - 1) + (n - i)
      /\ \A k \in 1..((i - 1) + (n - i)) : p[k] = IF k <= i - 1 THEN front[k] ELSE back[k - (i - 1)]
    <2>1. /\ Len(front \o back) = Len(front) + Len(back)
          /\ \A k \in 1..(Len(front) + Len(back)) :
                (front \o back)[k] = IF k <= Len(front) THEN front[k] ELSE back[k - Len(front)]
        BY <1>2, <1>3, ConcatProperties
    <2> QED BY <1>2, <1>3, <1>4, <2>1
<1>6. Len(p) = n - 1
    BY <1>1, <1>5
<1>7. \A k \in 1..(i - 1) : p[k] = q[k]
    BY <1>1, <1>2, <1>5
<1>8. \A k \in i..(n - 1) : p[k] = q[k + 1]
    <2> SUFFICES ASSUME NEW k \in i..(n - 1) PROVE p[k] = q[k + 1]
        OBVIOUS
    <2>1. k \in 1..((i - 1) + (n - i)) /\ ~(k <= i - 1) /\ k - (i - 1) \in 1..(n - i)
          /\ i + (k - (i - 1)) = k + 1
        BY <1>1
    <2>2. p[k] = back[k - (i - 1)]
        BY <1>5, <2>1
    <2> QED BY <1>3, <2>1, <2>2
<1> QED BY <1>6, <1>7, <1>8 DEF n, p

LEMMA AskTended ==
    ASSUME SessionTypes, AskInv, NEW m \in Messages, Ask(m)
    PROVE  AskInv'
<1> DEFINE q == turnQueue
           n == Len(turnQueue)
<1>0. /\ status[m] = "new" /\ status' = [status EXCEPT ![m] = "queued"]
      /\ pump' # "no" /\ (pump # "no" => pump' = pump) /\ (pump = "no" => pump' = "gate")
      /\ UNCHANGED <<current, pending, injected>>
      /\ status \in [Messages -> {"new", "queued", "running", "injected", "settled", "lost"}]
      /\ injected \subseteq Messages /\ current \in Messages \cup {None}
      /\ q \in Seq(Messages) /\ n \in Nat
    BY DEF Ask, turn, SessionTypes, TypeOK
<1>1. PICK i \in 1..(n + 1) : turnQueue' = With(q, i, m)
    BY DEF Ask, With
<1>2. /\ Len(turnQueue') = n + 1 /\ turnQueue'[i] = m
      /\ \A k \in 1..(i - 1) : turnQueue'[k] = q[k]
      /\ \A k \in i..n : turnQueue'[k + 1] = q[k]
    <2>1. q \in Seq(Messages) /\ i \in 1..(Len(q) + 1) /\ n = Len(q)
        BY <1>0
    <2> HIDE DEF q, n
    <2> QED BY <1>1, <2>1, QueueWith
<1>3. \A k \in 1..n : q[k] \in Messages /\ q[k] # m /\ status[q[k]] = "queued"
    BY <1>0 DEF AskInv, Asked
<1>4. \A k \in 1..(n + 1) : \/ k = i
                            \/ k < i /\ k \in 1..n /\ turnQueue'[k] = q[k]
                            \/ k > i /\ k - 1 \in 1..n /\ turnQueue'[k] = q[k - 1]
    <2> HIDE DEF q, n
    <2>1. \A k \in 1..(n + 1) : k = i \/ k \in 1..(i - 1) \/ k - 1 \in i..n
        BY <1>0
    <2>2. \A k \in 1..(i - 1) : k < i /\ k \in 1..n
        BY <1>0
    <2>3. \A k \in 1..(n + 1) : k - 1 \in i..n => k > i /\ k - 1 \in 1..n /\ (k - 1) + 1 = k
        BY <1>0
    <2> QED BY <1>2, <2>1, <2>2, <2>3
<1> HIDE DEF q, n
<1>5. \A x \in Messages \ {m} : status'[x] = status[x]
    BY <1>0
<1>6. status'[m] = "queued"
    BY <1>0
<1>7. AsksTended'
    <2>1. ASSUME NEW x \in Messages, status'[x] = "queued" PROVE \E k \in 1..(n + 1) : turnQueue'[k] = x
        <3>1. CASE x = m
            BY <1>0, <1>2, <3>1
        <3>2. CASE x # m
            <4>1. PICK k \in 1..n : q[k] = x
                BY <1>5, <2>1, <3>2 DEF AskInv, AsksTended, q, n
            <4>2. k \in 1..(n + 1) /\ k + 1 \in 1..(n + 1) /\ (k \in 1..(i - 1) \/ k \in i..n)
                BY <1>0
            <4> QED BY <1>2, <4>1, <4>2
        <3> QED BY <3>1, <3>2
    <2>2. ASSUME NEW x \in Messages, status'[x] = "running"
          PROVE  x = current' /\ (pump' = "delay" \/ (pump' = "turn" /\ pending'))
        BY <1>0, <1>5, <1>6, <2>2 DEF AskInv, AsksTended
    <2> QED BY <1>0, <1>2, <2>1, <2>2 DEF AsksTended
<1>8. Asked'
    <2>1. \A k \in 1..(n + 1) : status'[turnQueue'[k]] = "queued"
        BY <1>2, <1>3, <1>4, <1>5, <1>6
    <2>2. \A j, k \in 1..n : q[j] = q[k] => j = k
        BY DEF AskInv, Asked, q, n
    <2>3. \A j, k \in 1..(n + 1) : turnQueue'[j] = turnQueue'[k] => j = k
        <3> SUFFICES ASSUME NEW j \in 1..(n + 1), NEW k \in 1..(n + 1), turnQueue'[j] = turnQueue'[k] PROVE j = k
            OBVIOUS
        <3>1. j = i <=> k = i
            BY <1>2, <1>3, <1>4
        <3>2. CASE j < i /\ k > i
            BY <1>0, <1>4, <2>2, <3>2
        <3>3. CASE j > i /\ k < i
            BY <1>0, <1>4, <2>2, <3>3
        <3>4. CASE (j < i /\ k < i) \/ (j > i /\ k > i)
            BY <1>0, <1>4, <2>2, <3>4
        <3> QED BY <1>0, <3>1, <3>2, <3>3, <3>4
    <2>4. \A x \in injected' : status'[x] = "injected"
        BY <1>0, <1>5 DEF AskInv, Asked
    <2>5. current' # None => status'[current'] = "running"
        BY <1>0, <1>5 DEF AskInv, Asked
    <2> QED BY <1>0, <1>2, <2>1, <2>3, <2>4, <2>5 DEF AskInv, Asked
<1> QED BY <1>7, <1>8 DEF AskInv

LEMMA SupersedeTended ==
    ASSUME SessionTypes, AskInv, NEW m \in Messages, SupersedeQueued(m)
    PROVE  AskInv'
<1> DEFINE q == turnQueue
           n == Len(turnQueue)
<1>0. /\ status' = [status EXCEPT ![m] = "settled"]
      /\ UNCHANGED <<pump, current, pending, injected>>
      /\ status \in [Messages -> {"new", "queued", "running", "injected", "settled", "lost"}]
      /\ injected \subseteq Messages /\ current \in Messages \cup {None}
      /\ q \in Seq(Messages) /\ n \in Nat
    BY DEF SupersedeQueued, turn, SessionTypes, TypeOK
<1>1. PICK i \in 1..n : q[i] = m /\ turnQueue' = Without(q, i)
    BY DEF SupersedeQueued, Without
<1>2. /\ Len(turnQueue') = n - 1
      /\ \A k \in 1..(i - 1) : turnQueue'[k] = q[k]
      /\ \A k \in i..(n - 1) : turnQueue'[k] = q[k + 1]
    BY <1>0, <1>1, QueueWithout
<1>3. /\ \A k \in 1..n : q[k] \in Messages /\ status[q[k]] = "queued"
      /\ \A j, k \in 1..n : q[j] = q[k] => j = k
    BY <1>0 DEF AskInv, Asked
<1>a. status[m] = "queued" /\ q # <<>> /\ pump # "no"
    BY <1>0, <1>1, <1>3 DEF AskInv, Asked
<1>4. \A k \in 1..(n - 1) : \/ k < i /\ k \in 1..n /\ turnQueue'[k] = q[k]
                            \/ k >= i /\ k + 1 \in 1..n /\ turnQueue'[k] = q[k + 1]
    BY <1>0, <1>2
<1> HIDE DEF q, n
<1>5. status'[m] = "settled" /\ \A x \in Messages \ {m} : status'[x] = status[x]
    BY <1>0
<1>6. AsksTended'
    <2>1. ASSUME NEW x \in Messages, status'[x] = "queued" PROVE \E k \in 1..(n - 1) : turnQueue'[k] = x
        <3>1. x # m /\ status[x] = "queued"
            BY <1>5, <2>1
        <3>2. PICK k \in 1..n : q[k] = x
            BY <3>1 DEF AskInv, AsksTended, q, n
        <3>3. CASE k < i
            BY <1>0, <1>2, <3>2, <3>3
        <3>4. CASE k > i
            <4>1. k - 1 \in i..(n - 1) /\ (k - 1) + 1 = k /\ k - 1 \in 1..(n - 1)
                BY <1>0, <3>4
            <4> QED BY <1>2, <3>2, <4>1
        <3>5. k # i
            BY <1>1, <3>1, <3>2
        <3> QED BY <1>0, <3>3, <3>4, <3>5
    <2>2. \A x \in Messages : status'[x] = "running" => status[x] = "running"
        BY <1>5
    <2> QED BY <1>0, <1>2, <1>a, <2>1, <2>2 DEF AskInv, AsksTended
<1>7. Asked'
    <2>1. \A k \in 1..(n - 1) : turnQueue'[k] # m /\ turnQueue'[k] \in Messages /\ status[turnQueue'[k]] = "queued"
        <3> SUFFICES ASSUME NEW k \in 1..(n - 1)
                     PROVE  turnQueue'[k] # m /\ turnQueue'[k] \in Messages /\ status[turnQueue'[k]] = "queued"
            OBVIOUS
        <3>1. CASE k < i
            BY <1>0, <1>1, <1>3, <1>4, <3>1
        <3>2. CASE k >= i
            <4>1. k + 1 \in 1..n /\ k + 1 # i /\ turnQueue'[k] = q[k + 1]
                BY <1>0, <1>4, <3>2
            <4> QED BY <1>1, <1>3, <4>1
        <3> QED BY <1>0, <3>1, <3>2
    <2>2. \A j, k \in 1..(n - 1) : turnQueue'[j] = turnQueue'[k] => j = k
        <3> SUFFICES ASSUME NEW j \in 1..(n - 1), NEW k \in 1..(n - 1), turnQueue'[j] = turnQueue'[k] PROVE j = k
            OBVIOUS
        <3>1. CASE (j < i /\ k < i) \/ (j >= i /\ k >= i)
            BY <1>0, <1>3, <1>4, <3>1
        <3>2. CASE j < i /\ k >= i
            BY <1>0, <1>3, <1>4, <3>2
        <3>3. CASE j >= i /\ k < i
            BY <1>0, <1>3, <1>4, <3>3
        <3> QED BY <1>0, <3>1, <3>2, <3>3
    <2>3. \A x \in injected' : status'[x] = "injected"
        BY <1>0, <1>5, <1>a DEF AskInv, Asked
    <2>4. current' # None => status'[current'] = "running"
        BY <1>0, <1>5, <1>a DEF AskInv, Asked
    <2> QED BY <1>0, <1>2, <1>5, <1>a, <2>1, <2>2, <2>3, <2>4 DEF AskInv, Asked
<1> QED BY <1>6, <1>7 DEF AskInv

LEMMA InjectTended ==
    ASSUME SessionTypes, AskInv, NEW m \in Messages, Inject(m)
    PROVE  AskInv'
<1>0. /\ status[m] = "new" /\ status' = [status EXCEPT ![m] = "injected"] /\ injected' = injected \cup {m}
      /\ UNCHANGED <<turnQueue, pump, current, pending>>
      /\ status \in [Messages -> {"new", "queued", "running", "injected", "settled", "lost"}]
      /\ injected \subseteq Messages /\ current \in Messages \cup {None}
      /\ \A i \in 1..Len(turnQueue) : turnQueue[i] \in Messages
    BY DEF Inject, queue, SessionTypes, TypeOK
<1>1. status'[m] = "injected" /\ \A x \in Messages \ {m} : status'[x] = status[x]
    BY <1>0
<1>2. AsksTended'
    BY <1>0, <1>1 DEF AskInv, AsksTended
<1>3. Asked'
    <2>1. \A i \in 1..Len(turnQueue) : status'[turnQueue[i]] = "queued"
        BY <1>0, <1>1 DEF AskInv, Asked
    <2>2. \A x \in injected' : status'[x] = "injected"
        BY <1>0, <1>1 DEF AskInv, Asked
    <2>3. current' # None => status'[current'] = "running"
        BY <1>0, <1>1 DEF AskInv, Asked
    <2> QED BY <1>0, <2>1, <2>2, <2>3 DEF AskInv, Asked
<1> QED BY <1>2, <1>3 DEF AskInv

LEMMA PoolTended ==
    ASSUME SessionTypes, AskInv,
           CancelLiveTurn \/ ReapTurn \/ RecycleIdle \/ Prewarm \/ RotateWhileIdle \/ HandoffEnds \/ Stop
    PROVE  AskInv'
<1>1. CASE CancelLiveTurn \/ ReapTurn
    <2>1. pending /\ Over(status, turnQueue) /\ injected' = injected
        BY <1>1 DEF CancelLiveTurn, ReapTurn, EndLiveTurn
    <2> QED BY <2>1, OverTended DEF SessionTypes, TypeOK
<1>2. CASE RecycleIdle \/ Prewarm
    BY <1>2, AsksLeft DEF RecycleIdle, Prewarm, queue
<1>3. CASE RotateWhileIdle
    <2>1. /\ pump = "no" /\ pump' = "handoff" /\ turnQueue = <<>> /\ ~pending
          /\ UNCHANGED <<status, turnQueue, current, pending, injected>>
        BY <1>3 DEF RotateWhileIdle, turn
    <2> QED BY <2>1 DEF AskInv, AsksTended, Asked
<1>4. CASE HandoffEnds
    <2>1. /\ pump = "handoff" /\ pump' = IF turnQueue = <<>> THEN "no" ELSE "gate"
          /\ UNCHANGED <<status, turnQueue, current, pending, injected>>
        BY <1>4 DEF HandoffEnds
    <2>2. (\E i \in 1..Len(turnQueue) : TRUE) => turnQueue # <<>>
        OBVIOUS
    <2> QED BY <2>1, <2>2 DEF AskInv, AsksTended, Asked
<1>5. CASE Stop
    <2>1. /\ status' = [m \in Messages |-> IF status[m] = "queued" \/ (pending /\ m = current)
                                          THEN "settled" ELSE status[m]]
          /\ turnQueue' = <<>> /\ Len(turnQueue') = 0 /\ injected' = {} /\ pending' = FALSE
          /\ current' = IF pending THEN None ELSE current
          /\ pump' = IF pending THEN "no" ELSE pump
        BY <1>5 DEF Stop
    <2>2. \A m \in Messages : /\ status'[m] # "queued"
                              /\ status'[m] = "running" => status[m] = "running" /\ ~(pending /\ m = current)
        BY <2>1
    <2>3. AsksTended'
        BY <2>1, <2>2 DEF AskInv, AsksTended
    <2>4. current' # None => status'[current'] = "running"
        BY <2>1 DEF AskInv, Asked, SessionTypes, TypeOK
    <2>5. Asked'
        BY <2>1, <2>4 DEF AskInv, Asked
    <2> QED BY <2>3, <2>5 DEF AskInv
<1> QED BY <1>1, <1>2, <1>3, <1>4, <1>5

LEMMA PumpTended ==
    ASSUME SessionTypes, AskInv, GateWon \/ DriveAgain
    PROVE  AskInv'
<1>1. CASE GateWon /\ turnQueue = <<>>
    <2>1. pump = "gate" /\ pump' = "no" /\ UNCHANGED <<status, turnQueue, current, pending, injected>>
        BY <1>1 DEF GateWon, turn
    <2>2. Len(turnQueue) = 0
        BY <1>1
    <2> QED BY <1>1, <2>1, <2>2 DEF AskInv, AsksTended, Asked
<1>2. CASE GateWon /\ turnQueue # <<>>
    <2> DEFINE h == Head(turnQueue)
               n == Len(turnQueue)
    <2>1. /\ pump = "gate" /\ status' = [status EXCEPT ![h] = "running"] /\ turnQueue' = Tail(turnQueue)
          /\ pump' = "turn" /\ current' = h /\ pending' = TRUE /\ injected' = injected
        BY <1>2 DEF GateWon, Drive
    <2>2. /\ h = turnQueue[1] /\ n \in Nat /\ n >= 1 /\ Len(turnQueue') = n - 1
          /\ \A k \in 1..(n - 1) : turnQueue'[k] = turnQueue[k + 1] /\ k + 1 \in 1..n
          /\ \A k \in 1..n : turnQueue[k] \in Messages
        BY <1>2, <2>1 DEF SessionTypes, TypeOK
    <2>3. /\ h \in Messages /\ status[h] = "queued" /\ h # None
        BY <2>2, SessionAssumption DEF SessionAssumption, AskInv, Asked
    <2>4. status'[h] = "running" /\ \A m \in Messages \ {h} : status'[m] = status[m]
        BY <2>1, <2>3 DEF SessionTypes, TypeOK
    <2>5. \A m \in Messages : status[m] # "running"
        BY <2>1 DEF AskInv, AsksTended
    <2> HIDE DEF h, n
    <2>6. AsksTended'
        <3>1. ASSUME NEW m \in Messages, status'[m] = "queued" PROVE \E k \in 1..(n - 1) : turnQueue'[k] = m
            <4>1. m # h /\ status[m] = "queued"
                BY <2>4, <3>1
            <4>2. PICK k \in 1..n : turnQueue[k] = m
                BY <4>1 DEF AskInv, AsksTended, n
            <4>3. k - 1 \in 1..(n - 1) /\ (k - 1) + 1 = k
                BY <2>2, <4>1, <4>2
            <4> QED BY <2>2, <4>2, <4>3
        <3>2. \A m \in Messages : status'[m] = "running" => m = h
            BY <2>4, <2>5
        <3> QED BY <2>1, <2>2, <3>1, <3>2 DEF AsksTended
    <2>7. Asked'
        <3>1. \A j, k \in 1..n : turnQueue[j] = turnQueue[k] => j = k
            BY DEF AskInv, Asked, n
        <3>2. \A k \in 1..n : status[turnQueue[k]] = "queued"
            BY DEF AskInv, Asked, n
        <3>3. \A k \in 1..(n - 1) : turnQueue'[k] # h /\ turnQueue'[k] \in Messages /\ status[turnQueue'[k]] = "queued"
            <4> SUFFICES ASSUME NEW k \in 1..(n - 1)
                         PROVE  turnQueue'[k] # h /\ turnQueue'[k] \in Messages /\ status[turnQueue'[k]] = "queued"
                OBVIOUS
            <4>1. k + 1 # 1 /\ k + 1 \in 1..n /\ 1 \in 1..n /\ turnQueue'[k] = turnQueue[k + 1]
                BY <2>2
            <4> QED BY <2>2, <3>1, <3>2, <4>1
        <3>4. \A j, k \in 1..(n - 1) : turnQueue'[j] = turnQueue'[k] => j = k
            BY <2>2, <3>1
        <3>5. \A m \in injected' : status'[m] = "injected"
            BY <2>1, <2>3, <2>4 DEF AskInv, Asked, SessionTypes, TypeOK
        <3> QED BY <2>1, <2>2, <2>3, <2>4, <3>3, <3>4, <3>5 DEF Asked
    <2> QED BY <2>6, <2>7 DEF AskInv
<1>3. CASE DriveAgain
    <2>1. /\ pump = "delay" /\ pump' = "turn" /\ pending' = TRUE
          /\ UNCHANGED <<status, turnQueue, current, injected>>
        BY <1>3 DEF DriveAgain, Drive
    <2> QED BY <2>1, AgainTended
<1> QED BY <1>1, <1>2, <1>3

LEMMA ChildTended ==
    ASSUME AskInv, ChildReads \/ PeerTurn \/ ChildTells \/ ChildResult
    PROVE  AskInv'
BY AsksLeft DEF ChildReads, PeerTurn, ChildTells, ChildResult, queue, turn

LEMMA ExitTended ==
    ASSUME SessionTypes, AskInv, ChildExits \/ ExitAfterStop
    PROVE  AskInv'
<1>1. CASE ExitAfterStop
    BY <1>1, AsksLeft DEF ExitAfterStop, queue
<1>2. CASE ChildExits
    <2>1. injected' = injected /\ pending' = FALSE
        BY <1>2 DEF ChildExits
    <2>2. \/ ~pending /\ UNCHANGED <<status, turnQueue, pump, current>>
          \/ pending /\ pump' = "delay" /\ UNCHANGED <<status, turnQueue, current>>
          \/ pending /\ Over(status, turnQueue)
        BY <1>2 DEF ChildExits, queue
    <2>3. CASE ~pending /\ UNCHANGED <<status, turnQueue, pump, current>>
        <3>1. pending' = pending
            BY <2>1, <2>3 DEF SessionTypes, TypeOK
        <3> QED BY <2>1, <2>3, <3>1, AsksLeft
    <2>4. CASE pending /\ pump' = "delay" /\ UNCHANGED <<status, turnQueue, current>>
        BY <2>1, <2>4, AgainTended
    <2>5. CASE pending /\ Over(status, turnQueue)
        BY <2>1, <2>5, OverTended DEF SessionTypes, TypeOK
    <2> QED BY <2>2, <2>3, <2>4, <2>5
<1> QED BY <1>1, <1>2

\* What was injected goes back to where messages come from.
LEMMA UnsolicitedTended ==
    ASSUME SessionTypes, AskInv, ReadUnsolicited
    PROVE  AskInv'
<1>0. /\ injected' = {} /\ UNCHANGED <<turnQueue, pump, current, pending>>
      /\ status' = [m \in Messages |-> IF m \in injected THEN "new"
                                      ELSE IF status[m] = "injected" /\ m \in Frame.read THEN "lost"
                                      ELSE status[m]]
    BY DEF ReadUnsolicited, queue
<1>1. \A m \in Messages : \/ status'[m] = status[m]
                          \/ status[m] = "injected" /\ status'[m] \in {"new", "lost"}
    BY <1>0 DEF AskInv, Asked
<1>2. AsksTended'
    BY <1>0, <1>1 DEF AskInv, AsksTended
<1>3. Asked'
    <2>1. \A i \in 1..Len(turnQueue) : status'[turnQueue[i]] = "queued"
        BY <1>1 DEF AskInv, Asked, SessionTypes, TypeOK
    <2>2. current # None => status'[current] = "running"
        BY <1>1 DEF AskInv, Asked, SessionTypes, TypeOK
    <2> QED BY <1>0, <2>1, <2>2 DEF AskInv, Asked
<1> QED BY <1>2, <1>3 DEF AskInv

LEMMA ReadTended ==
    ASSUME SessionTypes, AskInv, Reads
    PROVE  AskInv'
<1>1. CASE ReadInit \/ ReadEvent \/ ReadDeadResult
    BY <1>1, AsksLeft DEF ReadInit, ReadEvent, ReadDeadResult, queue, turn
<1>2. CASE ReadUnsolicited
    BY <1>2, UnsolicitedTended
<1>3. CASE ReadReply
    <2> DEFINE covered == [m \in Messages |-> IF status[m] = "injected" /\ m \in Frame.read
                                              THEN "settled" ELSE status[m]]
    <2>1. /\ injected' = {} /\ pending
          /\ \/ Over(covered, turnQueue)
             \/ status' = covered /\ Drive(current, Popped) /\ turnQueue' = turnQueue
        BY <1>3 DEF ReadReply, Unsolicited
    <2>2. /\ covered \in [Messages -> {"new", "queued", "running", "injected", "settled", "lost"}]
          /\ \A m \in Messages : covered[m] = status[m] \/ (status[m] = "injected" /\ covered[m] = "settled")
        BY DEF SessionTypes, TypeOK
    <2> HIDE DEF covered
    <2>3. CASE Over(covered, turnQueue)
        BY <2>1, <2>2, <2>3, OverTended
    <2>4. CASE status' = covered /\ Drive(current, Popped) /\ turnQueue' = turnQueue
        <3>1. pump' = "turn" /\ current' = current /\ pending' = TRUE
            BY <2>4 DEF Drive
        <3> QED BY <2>1, <2>2, <2>4, <3>1, AgainTended
    <2> QED BY <2>1, <2>3, <2>4
<1> QED BY <1>1, <1>2, <1>3 DEF Reads

LEMMA AsksKept ==
    ASSUME SessionTypes, AskInv, [Next]_vars
    PROVE  AskInv'
<1>1. CASE UNCHANGED vars
    BY <1>1, AsksLeft DEF vars, queue, turn
<1> QED BY <1>1, AskTended, InjectTended, SupersedeTended, PoolTended, PumpTended, ChildTended,
           ExitTended, ReadTended DEF Next

(* A message that was asked for is in the queue of a pump that runs, and one whose turn began is *)
(* the current one, whose turn awaits its result or its next attempt (ask, pump, runTurn).       *)
THEOREM SessionTendsAsks == Spec => []AsksTended
<1>1. SessionTypes /\ AskInv /\ [Next]_vars => (SessionTypes /\ AskInv)'
    BY TypesKept, AsksKept
<1>2. AskInv => AsksTended
    BY DEF AskInv
<1> QED BY TypesInitially, AsksInitially, <1>1, <1>2, PTL DEF Spec

=============================================================================
