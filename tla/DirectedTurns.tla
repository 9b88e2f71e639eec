--------------------------- MODULE DirectedTurns ---------------------------
(***************************************************************************)
(* What becomes of the messages one person sends Beckett in one channel:    *)
(* the directed half of Concierge.onMessage (concierge/index.ts), the       *)
(* ledger of owed mentions (concierge/owed-mentions.ts), and the boot that  *)
(* fetches the missed ones and replays the owed ones.  A message may start  *)
(* a turn, wait for the settle window, be folded into a held turn, be       *)
(* injected into the live one, cancel it, or supersede one that waits; the  *)
(* daemon may die at any step.  The session is abstracted to one live turn  *)
(* and at most one that waits (ConciergeSession has the rest); Discord is   *)
(* what was said and what Beckett posted.                                   *)
(***************************************************************************)
EXTENDS Naturals

CONSTANTS
    N,            \* messages, in the order they are sent
    MaxReplays,   \* OWED_MENTION_MAX_REPLAYS
    MaxDeaths, MaxEvents    \* bounds: deaths; messages and deaths together

ASSUME DirectedAssumption ==
    /\ N \in Nat /\ MaxReplays \in Nat
    /\ MaxDeaths \in Nat /\ MaxEvents \in Nat

M == 1..N

VARIABLES
    said, posted, \* Discord: messages sent; those sent before Beckett's last post
    answers,      \* how often Beckett answered each
    cursor,       \* file: the newest message of the channel's window
    owed, replays,  \* file: the ledger
    stage,        \* of the daemon
    missed, inherited, awaited,   \* the boot's two lists; the message it awaits, or 0
    events,       \* of the gateway, to be heard
    seen,         \* inboundMessageIds
    again,        \* messages handed back to onMessage
    course,       \* of each message's turn
    rides,        \* injectedMessageIds of its claim
    cli,          \* of its claim: a reply from inside the turn
    injected,     \* the session's injectedRecords
    remembered,   \* injectedMessages
    stranded,     \* observed: rode on a turn that ended and neither settled nor returned it
    doubled,      \* observed: given back by the session while it rides on a turn
    deaths

discord == <<said, posted, answers>>
books == <<owed, replays>>
boot == <<stage, missed, inherited, awaited>>
turns == <<course, rides, cli, injected, remembered, stranded, doubled>>
dvars == <<discord, cursor, books, boot, events, seen, again, turns, deaths>>

Courses == {"no", "held", "queued", "live", "posting", "posted", "line", "notice", "sorry", "giveup"}

DirectedTypeOK ==
    /\ said \in 0..N /\ posted \in 0..said /\ answers \in [M -> 0..2]
    /\ cursor \in posted..said
    /\ owed \in [M -> {"no", "queued", "delivering"}]
    /\ replays \in [M -> 0..MaxReplays + MaxDeaths]
    /\ \A m \in M : course[m] # "no" /\ course[m] # "giveup" => replays[m] <= MaxReplays
    /\ stage \in {"down", "reconcile", "serving"}
    /\ missed \subseteq M /\ inherited \subseteq M /\ awaited \in 0..N
    /\ events \subseteq M /\ seen \subseteq M /\ again \subseteq M
    /\ course \in [M -> Courses]
    /\ rides \in [M -> SUBSET M]
    /\ cli \in [M -> {"no", "sending", "sent"}]
    /\ injected \subseteq M /\ remembered \subseteq M /\ stranded \subseteq M /\ doubled \subseteq M
    /\ deaths \in 0..MaxDeaths

DInit ==
    /\ said = 0 /\ posted = 0 /\ answers = [m \in M |-> 0]
    /\ cursor = 0 /\ owed = [m \in M |-> "no"] /\ replays = [m \in M |-> 0]
    /\ stage = "serving" /\ missed = {} /\ inherited = {} /\ awaited = 0
    /\ events = {} /\ seen = {} /\ again = {}
    /\ course = [m \in M |-> "no"] /\ rides = [m \in M |-> {}] /\ cli = [m \in M |-> "no"]
    /\ injected = {} /\ remembered = {} /\ stranded = {} /\ doubled = {} /\ deaths = 0

---------------------------------------------------------------------------
(* The ledger *)

\* claim, markDelivering and settle, each of a set of messages
ClaimedIn(S, o) == [m \in M |-> IF m \in S /\ o[m] = "no" THEN "queued" ELSE o[m]]
StampedIn(S, o) == [m \in M |-> IF m \in S /\ o[m] # "no" THEN "delivering" ELSE o[m]]
SettledIn(S, o) == [m \in M |-> IF m \in S THEN "no" ELSE o[m]]

\* A row that is gone takes its count of replays with it.
BooksWith(o, spent) ==
    /\ owed' = o
    /\ replays' = [m \in M |-> IF o[m] = "no" THEN 0 ELSE spent[m]]

Books(o) == BooksWith(o, replays)

\* Mutant: the stamp comes with the post's acknowledgement.
StampedNone(S, o) == o
BeforePost(S, o) == StampedIn(S, o)

In(s) == {m \in M : course[m] = s}
Oldest(m, S) == m \in S /\ \A x \in S : m <= x
Newest(a, b) == IF a > b THEN a ELSE b

---------------------------------------------------------------------------
(* onMessage, from the claim on *)

\* foldIntoSettleHold: the new message is the anchor, the held one rides on it.
Fold(h, m, spent) ==
    /\ BooksWith(ClaimedIn({m}, owed), spent)
    /\ course' = [course EXCEPT ![h] = "no", ![m] = "held"]
    /\ rides' = [rides EXCEPT ![h] = {}, ![m] = rides[h] \cup {h}]
    /\ remembered' = remembered \cup {h}
    /\ UNCHANGED <<injected, stranded, doubled>>

\* injectLiveTurn
InjectInto(l, m, spent) ==
    /\ BooksWith(ClaimedIn({m}, owed), spent)
    /\ rides' = [rides EXCEPT ![l] = @ \cup {m}]
    /\ injected' = injected \cup {m}
    /\ remembered' = remembered \cup {m}
    /\ UNCHANGED <<course, stranded, doubled>>

\* The turns that a new one supersedes end in silence, and so do their riders.
Waiting == In("queued")
Superseded == Waiting \cup UNION {rides[q] : q \in Waiting}

\* cancelLiveTurn of a turn that has used no tool, for a message that amends it
Amend(l, m, spent) ==
    /\ cli[l] = "no"
    /\ BooksWith(SettledIn(Superseded, ClaimedIn({m}, BeforePost({l}, owed))), spent)
    /\ course' = [x \in M |-> IF x = m THEN "queued" ELSE IF x = l THEN "notice"
                            ELSE IF x \in Waiting THEN "no" ELSE course[x]]
    /\ rides' = [x \in M |-> IF x \in Waiting \cup {l} THEN {} ELSE rides[x]]
    /\ stranded' = stranded \cup rides[l]
    /\ remembered' = remembered \ Superseded
    /\ UNCHANGED <<injected, doubled>>

\* A turn of its own, held back for the settle window.  Without one (directed_settle_ms = 0) it is
\* queued at once, as here when its window ends before anything else happens.
OwnTurn(m, spent) ==
    /\ BooksWith(SettledIn(Superseded, ClaimedIn({m}, owed)), spent)
    /\ course' = [x \in M |-> IF x = m THEN "held"
                            ELSE IF x \in Waiting THEN "no" ELSE course[x]]
    /\ rides' = [x \in M |-> IF x \in Waiting THEN {} ELSE rides[x]]
    /\ remembered' = remembered \ Superseded
    /\ UNCHANGED <<injected, stranded, doubled>>

Take(m, spent) ==
    /\ seen' = seen \cup {m}
    /\ cursor' = Newest(cursor, m)
    /\ cli' = [cli EXCEPT ![m] = "no"]
    /\ \/ \E h \in In("held") : Fold(h, m, spent)
       \/ In("held") = {} /\ \E l \in In("live") : InjectInto(l, m, spent) \/ Amend(l, m, spent)
       \/ In("held") = {} /\ OwnTurn(m, spent)

---------------------------------------------------------------------------
(* Where messages come from *)

\* Only a daemon that is connected hears of it by an event.
Say ==
    /\ said < N /\ said + deaths < MaxEvents
    /\ said' = said + 1
    /\ events' = IF stage = "down" THEN events ELSE events \cup {said + 1}
    /\ UNCHANGED <<posted, answers, cursor, books, boot, seen, again, turns, deaths>>

Hear ==
    /\ stage # "down"
    /\ \E m \in M :
         /\ Oldest(m, events)
         /\ events' = events \ {m}
         /\ IF m \in seen THEN UNCHANGED <<cursor, books, seen, turns>> ELSE Take(m, replays)
    /\ UNCHANGED <<discord, boot, again, deaths>>

\* requeueOrphanedInjection, its second half
Again(m) ==
    /\ m \in again
    /\ again' = again \ {m}
    /\ Take(m, replays)
    /\ UNCHANGED <<discord, boot, events, deaths>>

\* A result that was not the live turn's gives back what was injected.
Orphan ==
    /\ injected # {}
    /\ \A l \in In("live") : rides[l] \cap injected = {}
    /\ again' = again \cup (injected \cap remembered)
    /\ seen' = seen \ (injected \cap remembered)
    /\ remembered' = remembered \ injected
    /\ stranded' = stranded \ (injected \cap remembered)
    /\ doubled' = doubled \cup (injected \cap UNION {rides[x] : x \in M})
    /\ injected' = {}
    /\ UNCHANGED <<discord, cursor, books, boot, events, course, rides, cli, deaths>>

---------------------------------------------------------------------------
(* runDirectedTurn *)

WindowEnds(m) ==
    /\ course[m] = "held"
    /\ course' = [course EXCEPT ![m] = "queued"]
    /\ UNCHANGED <<discord, cursor, books, boot, events, seen, again, rides, cli, injected,
                   remembered, stranded, doubled, deaths>>

Start(m) ==
    /\ course[m] = "queued" /\ In("live") = {}
    /\ course' = [course EXCEPT ![m] = "live"]
    /\ UNCHANGED <<discord, cursor, books, boot, events, seen, again, rides, cli, injected,
                   remembered, stranded, doubled, deaths>>

\* beckett discord reply, from inside the turn: the first one of a turn
CliReply(m) ==
    /\ course[m] = "live" /\ cli[m] = "no"
    /\ cli' = [cli EXCEPT ![m] = "sending"]
    /\ Books(BeforePost({m}, owed))
    /\ UNCHANGED <<discord, cursor, boot, events, seen, again, course, rides, injected,
                   remembered, stranded, doubled, deaths>>

CliSent(m) ==
    /\ cli[m] = "sending"
    /\ \/ /\ cli' = [cli EXCEPT ![m] = "sent"]
          /\ answers' = [answers EXCEPT ![m] = IF @ < 2 THEN @ + 1 ELSE @]
          /\ posted' = said /\ cursor' = said
       \/ /\ cli' = [cli EXCEPT ![m] = "no"]
          /\ UNCHANGED <<answers, posted, cursor>>
    /\ UNCHANGED <<said, books, boot, events, seen, again, course, rides, injected,
                   remembered, stranded, doubled, deaths>>

\* The model's answer is posted, unless it went out already; what rode along is absorbed.
Answer(m) ==
    /\ course[m] = "live"
    /\ remembered' = remembered \ rides[m]
    /\ injected' = {}
    /\ IF cli[m] = "no"
       THEN /\ course' = [course EXCEPT ![m] = "posting"]
            /\ Books(BeforePost({m} \cup rides[m], owed))
            /\ UNCHANGED rides
       ELSE /\ course' = [course EXCEPT ![m] = "no"]
            /\ Books(SettledIn({m} \cup rides[m], owed))
            /\ rides' = [rides EXCEPT ![m] = {}]
    /\ UNCHANGED <<discord, cursor, boot, events, seen, again, cli, stranded, doubled, deaths>>

Pass(m) ==
    /\ course[m] = "live"
    /\ remembered' = remembered \ rides[m]
    /\ injected' = {}
    /\ course' = [course EXCEPT ![m] = "no"]
    /\ Books(SettledIn({m} \cup rides[m], owed))
    /\ rides' = [rides EXCEPT ![m] = {}]
    /\ UNCHANGED <<discord, cursor, boot, events, seen, again, cli, stranded, doubled, deaths>>

\* The session ends the turn with a line of its own: lost output, or a deadline, which is no result.
\* Nothing is absorbed.
LostTurn(m) ==
    /\ course[m] = "live"
    /\ injected' \in {{}, injected}
    /\ IF cli[m] = "no"
       THEN /\ course' = [course EXCEPT ![m] = "line"]
            /\ Books(BeforePost({m}, owed))
            /\ UNCHANGED <<rides, stranded>>
       ELSE /\ course' = [course EXCEPT ![m] = "no"]
            /\ Books(SettledIn({m}, owed))
            /\ rides' = [rides EXCEPT ![m] = {}]
            /\ stranded' = stranded \cup rides[m]
    /\ UNCHANGED <<discord, cursor, boot, events, seen, again, cli, remembered, doubled, deaths>>

\* The turn is rejected, by a daemon that lives.
TurnRejected(m) ==
    /\ course[m] = "live"
    /\ course' = [course EXCEPT ![m] = "sorry"]
    /\ Books(BeforePost({m}, owed))
    /\ UNCHANGED <<discord, cursor, boot, events, seen, again, rides, cli, injected,
                   remembered, stranded, doubled, deaths>>

\* The post of an answer: its riders are forgotten by then.
PostLands(m) ==
    /\ course[m] = "posting"
    /\ course' = [course EXCEPT ![m] = "posted"]
    /\ answers' = [x \in M |-> IF x \in {m} \cup rides[m] /\ answers[x] < 2 THEN answers[x] + 1
                               ELSE answers[x]]
    /\ posted' = said /\ cursor' = said
    /\ UNCHANGED <<said, books, boot, events, seen, again, rides, cli, injected, remembered,
                   stranded, doubled, deaths>>

PostRejected(m) ==
    /\ course[m] = "posting"
    /\ course' = [course EXCEPT ![m] = "sorry"]
    /\ stranded' = stranded \cup rides[m]
    /\ rides' = [rides EXCEPT ![m] = {}]
    /\ UNCHANGED <<discord, cursor, books, boot, events, seen, again, cli, injected,
                   remembered, doubled, deaths>>

Done(m) ==
    /\ course[m] = "posted"
    /\ course' = [course EXCEPT ![m] = "no"]
    /\ Books(SettledIn({m} \cup rides[m], owed))
    /\ rides' = [rides EXCEPT ![m] = {}]
    /\ UNCHANGED <<discord, cursor, boot, events, seen, again, cli, injected, remembered,
                   stranded, doubled, deaths>>

\* The line of a lost turn is delivered as an answer is; if it cannot be, the turn has failed.
LineEnds(m) ==
    /\ course[m] = "line"
    /\ \/ /\ course' = [course EXCEPT ![m] = "no"]
          /\ posted' = said /\ cursor' = said
          /\ Books(SettledIn({m}, owed))
          /\ stranded' = stranded \cup rides[m]
          /\ rides' = [rides EXCEPT ![m] = {}]
       \/ /\ course' = [course EXCEPT ![m] = "sorry"]
          /\ UNCHANGED <<posted, cursor, books, stranded, rides>>
    /\ UNCHANGED <<said, answers, boot, events, seen, again, cli, injected, remembered,
                   doubled, deaths>>

\* Mutant: riders of a turn that failed are left to themselves.
HandedNone(m) == {}
HandedBack(m) == rides[m] \cap remembered

\* A fixed line, posted or not: of a superseded turn, or "Something broke", which hands the riders
\* back; a post and the settling after it are one step, as a crash between them has the boot settle.
FixedLine(m) ==
    /\ course[m] \in {"notice", "sorry", "giveup"}
    /\ course' = [course EXCEPT ![m] = "no"]
    /\ \/ posted' = said /\ cursor' = said
       \/ UNCHANGED <<posted, cursor>>
    /\ Books(SettledIn({m}, owed))
    /\ again' = again \cup HandedBack(m)
    /\ seen' = seen \ HandedBack(m)
    /\ remembered' = remembered \ HandedBack(m)
    /\ rides' = [rides EXCEPT ![m] = {}]
    /\ UNCHANGED <<said, answers, boot, events, cli, injected, stranded, doubled, deaths>>

---------------------------------------------------------------------------
(* Death and boot *)

\* A kill; a shutdown leaves the same behind, as its turns are rejected and stay owed.
Dies ==
    /\ stage # "down" /\ deaths < MaxDeaths /\ said + deaths < MaxEvents
    /\ deaths' = deaths + 1
    /\ stage' = "down" /\ missed' = {} /\ inherited' = {} /\ awaited' = 0
    /\ events' = {} /\ seen' = {} /\ again' = {}
    /\ course' = [m \in M |-> "no"] /\ rides' = [m \in M |-> {}] /\ cli' = [m \in M |-> "no"]
    /\ injected' = {} /\ remembered' = {} /\ stranded' = {}
    /\ UNCHANGED <<discord, cursor, books, doubled>>

\* start(), and the list of what was sent since the cursor
Boot ==
    /\ stage = "down"
    /\ stage' = "reconcile"
    /\ inherited' = {m \in M : owed[m] # "no"}
    /\ missed' = {m \in 1..said : m > cursor}
    /\ UNCHANGED <<discord, cursor, books, awaited, events, seen, again, turns, deaths>>

\* onMessage has returned: the message has no turn, or one that is held.
Returned == awaited \in {0} \cup In("no") \cup In("held")

Reconcile ==
    /\ stage = "reconcile" /\ Returned
    /\ \E m \in M :
         /\ Oldest(m, missed)
         /\ missed' = missed \ {m}
         /\ awaited' = m
         /\ IF m \in seen THEN UNCHANGED <<cursor, books, seen, turns>> ELSE Take(m, replays)
    /\ UNCHANGED <<discord, stage, inherited, events, again, deaths>>

Serve ==
    /\ stage = "reconcile" /\ missed = {} /\ Returned
    /\ stage' = "serving" /\ awaited' = 0
    /\ UNCHANGED <<discord, cursor, books, missed, inherited, events, seen, again, turns,
                   deaths>>

\* Mutant: one replay more.
SpentLate(m) == replays[m] >= MaxReplays + 1
Spent(m) == replays[m] >= MaxReplays

\* Beckett spoke after the message, as far as the channel tells; a fetch that fails says yes.
LooksAnswered(m) == owed[m] = "delivering"
LooksOpen(m) == owed[m] = "delivering" => m > posted

\* replayOwedMentions, one entry: settled, given up with a line, or through onMessage again
Replay ==
    /\ stage = "serving" /\ awaited = 0
    /\ \E m \in M :
         /\ Oldest(m, inherited)
         /\ inherited' = inherited \ {m}
         /\ \/ /\ LooksAnswered(m)
               /\ Books(SettledIn({m}, owed))
               /\ UNCHANGED <<awaited, cursor, seen, turns>>
            \/ /\ LooksOpen(m) /\ Spent(m)
               /\ owed' = owed /\ replays' = [replays EXCEPT ![m] = @ + 1]
               /\ course' = [course EXCEPT ![m] = "giveup"]
               /\ awaited' = m
               /\ UNCHANGED <<cursor, seen, rides, cli, injected, remembered, stranded, doubled>>
            \/ /\ LooksOpen(m) /\ ~Spent(m)
               /\ awaited' = m
               /\ Take(m, [replays EXCEPT ![m] = @ + 1])
    /\ UNCHANGED <<discord, stage, missed, events, again, deaths>>

\* One replay, then the debt closes, however onMessage ended it.
ReplayEnds ==
    /\ stage = "serving" /\ awaited # 0 /\ Returned
    /\ Books(SettledIn({awaited}, owed))
    /\ awaited' = 0
    /\ UNCHANGED <<discord, cursor, stage, missed, inherited, events, seen, again, turns,
                   deaths>>

---------------------------------------------------------------------------
(* The specification *)

\* What happens of itself: timers, the gate, the model and its deadlines, posts that come back or
\* time out, the boot.
TurnEnds == \E m \in M : Answer(m) \/ Pass(m) \/ LostTurn(m) \/ TurnRejected(m)

Progress ==
    \/ TurnEnds
    \/ Hear \/ Boot \/ Reconcile \/ Serve \/ Replay \/ ReplayEnds
    \/ \E m \in M :
         \/ Again(m) \/ WindowEnds(m) \/ Start(m) \/ CliSent(m)
         \/ PostLands(m) \/ PostRejected(m) \/ Done(m) \/ LineEnds(m) \/ FixedLine(m)

DNext == Progress \/ Say \/ Orphan \/ Dies \/ \E m \in M : CliReply(m)

DSpec == DInit /\ [][DNext]_dvars /\ WF_dvars(Progress) /\ WF_dvars(TurnEnds)

---------------------------------------------------------------------------
(* Properties *)

\* owed-mentions.ts:19, "never answer twice": a message is answered at most once, by its own turn
\* or by the one it rode on, whatever was folded, injected, superseded, cancelled, handed back,
\* fetched again and replayed after deaths of the daemon.  The exception is a rider that the session
\* gives back late, when it rides on a turn again or still: it then has two turns.
AnsweredOnce == \A m \in M \ doubled : answers[m] <= 1

\* noteReplay and replayOwedMentions, across deaths of the daemon and rows that close and open
\* again: a boot replays a debt once at most, and one that has had MaxReplays replays gets no
\* turn any more.  A boot that has taken it off its list posts TURN_DIED_LINE for it instead.
ReplaysBounded ==
    \A m \in M :
      /\ replays[m] <= deaths
      /\ replays[m] > MaxReplays => /\ course[m] \in {"no", "giveup"}
                                    /\ course[m] = "giveup" \/ stage = "down" \/ m \in inherited

\* No debt is forgotten while the daemon is up: the boot still has it on its list, it was given back
\* to onMessage, it has a turn, or it rides on one that settles its riders, strands them, or still
\* remembers this one and hands it back.
Tended(m) ==
    \/ course[m] # "no"
    \/ \E x \in M : m \in rides[x] /\ (course[x] \in {"posting", "posted"} \/ m \in remembered)

DebtsTended ==
    stage # "down" =>
        \A m \in M \ stranded : owed[m] # "no" => m \in inherited \cup again \/ Tended(m)

\* A debt is closed, across deaths of the daemon, unless the message rode on a turn that was
\* cancelled, reaped or not delivered: then it waits for the next boot.  As messages and deaths are
\* bounded, there comes a moment when no debt is open.
OpenDebts == {m \in M : owed[m] # "no" /\ m \notin stranded}

OwedSettles == OpenDebts # {} ~> OpenDebts = {}

\* owed-mentions.ts:19: "THE ONE INVARIANT: NEVER ANSWER TWICE", without the exception; TLC refutes it.
NeverTwice == \A m \in M : answers[m] <= 1

=============================================================================
