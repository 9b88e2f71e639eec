------------------------------ MODULE WatchLoop ------------------------------
(***************************************************************************)
(* A watch routine (routine/watch.ts) and its state on file                 *)
(* (routine/watch-store.ts): every poll interval it reads a feed and posts  *)
(* about one item at most that it has not seen, within caps of its own.  A   *)
(* post is written by an agent, which takes minutes, while the loop ticks   *)
(* every minute and a person may fire the routine; what was read before the *)
(* agent ran is what the caps are applied to.  One routine stands for all,   *)
(* since nothing is shared between two.  Of the feed's items those matter    *)
(* that would qualify; they are numbered as they were published.  The unit   *)
(* of time is the poll interval; the last 24 hours are all of the run.       *)
(***************************************************************************)
EXTENDS Integers, Sequences, FiniteSets

CONSTANTS
    FeedItems, ModelOf,   \* items of the feed, and the model each announces
    Pollers,          \* how many ticks can overlap
    HourLength, PerHour, PerDay,   \* an hour in poll intervals; WATCH_RATE_LIMIT
    MaxTime,          \* bound on time
    MaxHand,          \* bound on fires by hand and switches of the mode
    MaxMishaps        \* bound on failed fetches and dispatches, and deaths of the daemon

\* One post an hour, as WATCH_RATE_LIMIT has it
ASSUME WatchAssumption ==
    /\ HourLength \in Nat /\ PerHour = 1 /\ PerDay \in Nat
    /\ MaxTime \in Nat \ {0} /\ MaxHand \in Nat /\ MaxMishaps \in Nat

VARIABLES
    watched,          \* the file: seeded, seenIds, posts, lastPolledAt (0 when null)
    dryRun,           \* the routine's action
    feed, time,
    cycle,            \* what each cycle does
    byhand, mishaps,
    made,             \* observed: posts and previews, in order
    coldFeed,         \* observed: what the feed held at the cold start
    blurred           \* observed: a cycle read the file while another was posting, or one died

wvars == <<watched, dryRun, feed, time, cycle, byhand, mishaps, made, coldFeed, blurred>>

Hand == "fireNow"
Cyclers == Pollers \cup {Hand}
NoCycle == [at |-> "idle", since |-> 0, dry |-> FALSE, item |-> 0, newly |-> {}]
Posts == [model : {ModelOf[i] : i \in FeedItems}, at : 1..MaxTime, simulated : BOOLEAN]

WatchTypeOK ==
    /\ watched.seeded \in BOOLEAN /\ watched.seenIds \subseteq FeedItems
    /\ \A i \in 1..Len(watched.posts) : watched.posts[i] \in Posts
    /\ watched.lastPolledAt \in 0..time
    /\ dryRun \in BOOLEAN /\ feed \subseteq FeedItems /\ time \in 1..MaxTime
    /\ \A p \in Cyclers : /\ cycle[p].at \in {"idle", "fetching", "posting", "posted"}
                          /\ cycle[p].at \in {"posting", "posted"} => cycle[p].item \in cycle[p].newly
    /\ byhand \in 0..MaxHand /\ mishaps \in 0..MaxMishaps
    /\ coldFeed \subseteq FeedItems /\ blurred \in BOOLEAN

WatchInit ==
    /\ watched = [seeded |-> FALSE, seenIds |-> {}, posts |-> <<>>, lastPolledAt |-> 0]
    /\ dryRun = FALSE /\ feed = {} /\ time = 1
    /\ cycle = [p \in Cyclers |-> NoCycle] /\ byhand = 0 /\ mishaps = 0
    /\ made = <<>> /\ coldFeed = {} /\ blurred = FALSE

-----------------------------------------------------------------------------
Begins(p) ==
    /\ cycle[p] = NoCycle
    /\ cycle' = [cycle EXCEPT ![p] = [NoCycle EXCEPT !.at = "fetching", !.since = time, !.dry = dryRun]]

\* tick(): a poll is due an interval after the last one began.
PollDue(p) ==
    /\ watched.lastPolledAt = 0 \/ time > watched.lastPolledAt
    /\ Begins(p)
    /\ UNCHANGED <<watched, dryRun, feed, time, byhand, mishaps, made, coldFeed, blurred>>

\* fireNow() and dispatchPlan(): whether it is due or not
FireByHand ==
    /\ byhand < MaxHand /\ byhand' = byhand + 1
    /\ Begins(Hand)
    /\ UNCHANGED <<watched, dryRun, feed, time, mishaps, made, coldFeed, blurred>>

\* update(): a change to what is on file now
Polled(since) == watched' = [watched EXCEPT !.lastPolledAt = since]
PersistSeen(since, newly) ==
    watched' = [watched EXCEPT !.seenIds = @ \cup newly, !.lastPolledAt = since]

FeedFails(p) ==
    /\ cycle[p].at = "fetching" /\ mishaps < MaxMishaps
    /\ mishaps' = mishaps + 1
    /\ Polled(cycle[p].since)
    /\ cycle' = [cycle EXCEPT ![p] = NoCycle]
    /\ UNCHANGED <<dryRun, feed, time, byhand, made, coldFeed, blurred>>

\* The first round posts nothing.
\* Mutant: it remembers that it was, and not what it saw.
SeededBlank(p) == watched' = [watched EXCEPT !.seeded = TRUE, !.lastPolledAt = cycle[p].since]
Seeded(p) == watched' = [watched EXCEPT !.seeded = TRUE, !.seenIds = @ \cup feed, !.lastPolledAt = cycle[p].since]

Seeds(p) ==
    /\ cycle[p].at = "fetching" /\ ~watched.seeded
    /\ Seeded(p)
    /\ coldFeed' = IF coldFeed = {} THEN feed ELSE coldFeed
    /\ cycle' = [cycle EXCEPT ![p] = NoCycle]
    /\ UNCHANGED <<dryRun, feed, time, byhand, mishaps, made, blurred>>

Bucket(dry) == {i \in 1..Len(watched.posts) : watched.posts[i].simulated = dry}

\* Mutant: a limit of n lets n + 1 through.
OneMore(n, limit) == n <= limit
Below(n, limit) == n < limit

WithinRateLimit(bucket, at) ==
    LET before == {i \in bucket : watched.posts[i].at <= at}
    IN  /\ Below(Cardinality({i \in before : at - watched.posts[i].at < HourLength}), PerHour)
        /\ Below(Cardinality(before), PerDay)

\* chooseCandidate(): the earliest item about a model that was not posted about
Candidates(p) ==
    LET about == {watched.posts[i].model : i \in Bucket(cycle[p].dry)}
    IN  {i \in feed \ watched.seenIds : ModelOf[i] \notin about}

\* Nothing to post about, or no post to be had: what was new counts as seen.
Quiet(p) ==
    /\ cycle[p].at = "fetching" /\ watched.seeded
    /\ Candidates(p) = {} \/ ~WithinRateLimit(Bucket(cycle[p].dry), cycle[p].since)
    /\ PersistSeen(cycle[p].since, feed \ watched.seenIds)
    /\ cycle' = [cycle EXCEPT ![p] = NoCycle]
    /\ UNCHANGED <<dryRun, feed, time, byhand, mishaps, made, coldFeed, blurred>>

\* The agent, or the report of a dry run, begins.
PostBegins(p) ==
    /\ cycle[p].at = "fetching" /\ watched.seeded
    /\ WithinRateLimit(Bucket(cycle[p].dry), cycle[p].since)
    /\ \E i \in Candidates(p) :
         /\ \A j \in Candidates(p) : i <= j
         /\ cycle' = [cycle EXCEPT ![p].at = "posting", ![p].item = i, ![p].newly = feed \ watched.seenIds]
    /\ blurred' = (blurred \/ \E q \in Cyclers : cycle[q].at \in {"posting", "posted"})
    /\ UNCHANGED <<watched, dryRun, feed, time, byhand, mishaps, made, coldFeed>>

\* The browser lane has taken the post, or the preview is out.
Posted(p) ==
    /\ cycle[p].at = "posting"
    /\ made' = Append(made, [item |-> cycle[p].item, at |-> cycle[p].since, simulated |-> cycle[p].dry])
    /\ cycle' = [cycle EXCEPT ![p].at = "posted"]
    /\ UNCHANGED <<watched, dryRun, feed, time, byhand, mishaps, coldFeed, blurred>>

RecordPost(p) ==
    /\ cycle[p].at = "posted"
    /\ watched' = [watched EXCEPT
         !.seenIds = @ \cup cycle[p].newly, !.lastPolledAt = cycle[p].since,
         !.posts = Append(@, [model |-> ModelOf[cycle[p].item], at |-> cycle[p].since,
                              simulated |-> cycle[p].dry])]
    /\ cycle' = [cycle EXCEPT ![p] = NoCycle]
    /\ UNCHANGED <<dryRun, feed, time, byhand, mishaps, made, coldFeed, blurred>>

\* A live post fails, or has no channel to go to: the item is seen all the same.
PostFails(p) ==
    /\ cycle[p].at = "posting" /\ ~cycle[p].dry /\ mishaps < MaxMishaps
    /\ mishaps' = mishaps + 1
    /\ PersistSeen(cycle[p].since, cycle[p].newly)
    /\ cycle' = [cycle EXCEPT ![p] = NoCycle]
    /\ UNCHANGED <<dryRun, feed, time, byhand, made, coldFeed, blurred>>

-----------------------------------------------------------------------------
\* setWatchDryRun()
Switch ==
    /\ byhand < MaxHand /\ byhand' = byhand + 1
    /\ dryRun' = ~dryRun
    /\ UNCHANGED <<watched, feed, time, cycle, mishaps, made, coldFeed, blurred>>

FeedGrows ==
    /\ \E i \in FeedItems \ feed : /\ \A j \in FeedItems \ feed : i <= j
                               /\ feed' = feed \cup {i}
    /\ UNCHANGED <<watched, dryRun, time, cycle, byhand, mishaps, made, coldFeed, blurred>>

\* A fetch ends long before an interval does.
TimePasses ==
    /\ \A p \in Cyclers : cycle[p].at # "fetching"
    /\ time < MaxTime /\ time' = time + 1
    /\ UNCHANGED <<watched, dryRun, feed, cycle, byhand, mishaps, made, coldFeed, blurred>>

WatchDies ==
    /\ mishaps < MaxMishaps
    /\ mishaps' = mishaps + 1
    /\ blurred' = (blurred \/ \E q \in Cyclers : cycle[q].at = "posted")
    /\ cycle' = [p \in Cyclers |-> NoCycle]
    /\ UNCHANGED <<watched, dryRun, feed, time, byhand, made, coldFeed>>

WatchNext ==
    \/ \E p \in Pollers : PollDue(p)
    \/ \E p \in Cyclers : \/ FeedFails(p) \/ Seeds(p) \/ Quiet(p)
                          \/ PostBegins(p) \/ Posted(p) \/ RecordPost(p) \/ PostFails(p)
    \/ FireByHand \/ Switch \/ FeedGrows \/ TimePasses \/ WatchDies

WatchSpec == WatchInit /\ [][WatchNext]_wvars

-----------------------------------------------------------------------------
(* Properties *)

\* rate-limit.ts:10-11 and watch.ts:81-83, of live posts and of previews each: the caps of an hour
\* and a day are kept, by the time a round began, and no model is posted about twice.
Spaced ==
    \A i, j \in 1..Len(made) : i # j /\ made[i].simulated = made[j].simulated =>
        /\ ModelOf[made[i].item] # ModelOf[made[j].item]
        /\ made[i].at - made[j].at >= HourLength \/ made[j].at - made[i].at >= HourLength

Capped == \A dry \in BOOLEAN : Cardinality({i \in 1..Len(made) : made[i].simulated = dry}) <= PerDay

\* watch.ts:186-188: a fresh install does not treat what is in the feed as news.
ColdStartSilent == \A i \in 1..Len(made) : made[i].item \notin coldFeed

\* The rails of a watch routine hold while no round reads the file under another's post and no
\* daemon dies between a post and its record.
RailsHold == ColdStartSilent /\ (~blurred => Spaced /\ Capped)

\* rate-limit.ts:10: "Never more than one event post per rolling hour".
OnePerHour == Spaced

=============================================================================
