----------------------------- MODULE Reminders -----------------------------
(***************************************************************************)
(* The reminder scheduler (reminder/scheduler.ts) over its store            *)
(* (reminder/store.ts).  A pass reads the whole list and then evaluates one *)
(* reminder after another, each with an await or more; passes start every   *)
(* 30 seconds whether or not the last one is through, and a person may fire *)
(* or remove a reminder meanwhile.  Every write of the store is one step    *)
(* under its lock.  Time is what makes a reminder due: an occurrence is a   *)
(* number, and so is how many of them have passed.                          *)
(***************************************************************************)
EXTENDS Naturals

CONSTANTS
    Listed, Recurring,   \* reminders, and those that recur
    Passes,           \* how many ticks can overlap
    MaxOccurrence,    \* bound on the occurrences of a recurring one
    MaxFails          \* bound on deaths of the daemon, and on dispatches and writes that fail

ASSUME RemindAssumption == MaxOccurrence \in Nat \ {0} /\ MaxFails \in Nat

VARIABLES
    status, fireAt,   \* the store: "gone" when it has no such reminder
    now,              \* occurrences whose time has come
    pass,             \* what each pass does
    fails,
    sent,             \* observed: deliveries since it was added or rolled
    excused           \* observed: fired on a stale list or over a live claim, or its last write lost

rvars == <<status, fireAt, now, pass, fails, sent, excused>>

Fire == "fireNow"
Actors == Passes \cup {Fire}
Idle == [at |-> "idle", todo |-> {}, id |-> "none", seen |-> 0]

RemindTypeOK ==
    /\ status \in [Listed -> {"pending", "firing", "gone"}]
    /\ fireAt \in [Listed -> 1..MaxOccurrence + 1]
    /\ now \in [Listed -> 0..MaxOccurrence]
    /\ \A p \in Actors :
         /\ pass[p].at \in {"idle", "walk", "dispatch", "failed", "sent"}
         /\ pass[p].at \notin {"idle", "walk"} => pass[p].id \in Listed
    /\ fails \in 0..MaxFails
    /\ sent \in [Listed -> 0..2] /\ excused \in SUBSET Listed

RemindInit ==
    /\ status = [r \in Listed |-> "pending"] /\ fireAt = [r \in Listed |-> 1]
    /\ now = [r \in Listed |-> 0]
    /\ pass = [p \in Actors |-> Idle]
    /\ fails = 0 /\ sent = [r \in Listed |-> 0] /\ excused = {}

-----------------------------------------------------------------------------
Snapshot == {[id |-> r, firing |-> status[r] = "firing", fireAt |-> fireAt[r]] :
               r \in {r \in Listed : status[r] # "gone"}}

\* tick(): the list is read once.
Tick(p) ==
    /\ pass[p] = Idle /\ Snapshot # {}
    /\ pass' = [pass EXCEPT ![p] = [Idle EXCEPT !.at = "walk", !.todo = Snapshot]]
    /\ UNCHANGED <<status, fireAt, now, fails, sent, excused>>

Walk(p, s) == [pass[p] EXCEPT !.at = "walk", !.todo = @ \ {s}]
Dispatch(p, s) == [at |-> "dispatch", todo |-> pass[p].todo \ {s}, id |-> s.id, seen |-> s.fireAt]

\* Mutant: a claim that some other pass took, or a dead daemon, is left to it.
DueOnly(s) == ~s.firing /\ now[s.id] >= s.fireAt
Wanted(s) == s.firing \/ now[s.id] >= s.fireAt

\* Mutant: the claim is not asked for its result.
ClaimAnyway(r) == TRUE
Claimable(r) == status[r] = "pending"

InFlight(r) == \E p \in Actors : pass[p].at \in {"dispatch", "failed", "sent"} /\ pass[p].id = r
Stale(s) ==
    \/ status[s.id] = "gone" \/ fireAt[s.id] # s.fireAt
    \/ s.firing /\ (status[s.id] = "pending" \/ InFlight(s.id))

\* evaluate(): a claim that was there is taken over; a reminder that is due is claimed.
Evaluate(p, s) ==
    LET r == s.id
    IN  /\ pass[p].at = "walk" /\ s \in pass[p].todo
        /\ IF Wanted(s) /\ (s.firing \/ Claimable(r))
           THEN /\ pass' = [pass EXCEPT ![p] = Dispatch(p, s)]
                /\ status' = IF s.firing THEN status ELSE [status EXCEPT ![r] = "firing"]
                /\ excused' = IF Stale(s) THEN excused \cup {r} ELSE excused
           ELSE /\ pass' = [pass EXCEPT ![p] = Walk(p, s)]
                /\ UNCHANGED <<status, excused>>
        /\ UNCHANGED <<fireAt, now, fails, sent>>

\* fireNow(): get() and setFiring(), due or not
FireNow(r) ==
    /\ pass[Fire] = Idle /\ status[r] = "pending" /\ fireAt[r] <= MaxOccurrence
    /\ status' = [status EXCEPT ![r] = "firing"]
    /\ pass' = [pass EXCEPT ![Fire] = [Idle EXCEPT !.at = "dispatch", !.id = r, !.seen = fireAt[r]]]
    /\ UNCHANGED <<fireAt, now, fails, sent, excused>>

Sent(p) ==
    /\ pass[p].at = "dispatch"
    /\ sent' = [sent EXCEPT ![pass[p].id] = IF @ < 2 THEN @ + 1 ELSE @]
    /\ pass' = [pass EXCEPT ![p].at = "sent"]
    /\ UNCHANGED <<status, fireAt, now, fails, excused>>

NotSent(p) ==
    /\ pass[p].at = "dispatch" /\ fails < MaxFails
    /\ fails' = fails + 1
    /\ pass' = [pass EXCEPT ![p].at = "failed"]
    /\ UNCHANGED <<status, fireAt, now, sent, excused>>

Onward(p) == IF pass[p].todo = {} THEN Idle
             ELSE [Idle EXCEPT !.at = "walk", !.todo = pass[p].todo]

\* A pass with nothing left is through.
WalkEnds(p) ==
    /\ pass[p].at = "walk" /\ pass[p].todo = {}
    /\ pass' = [pass EXCEPT ![p] = Idle]
    /\ UNCHANGED <<status, fireAt, now, fails, sent, excused>>

\* setPending(): of whatever row has the id now
Unclaim(p) ==
    LET r == pass[p].id
    IN  /\ pass[p].at = "failed"
        /\ status' = [status EXCEPT ![r] = IF @ = "gone" THEN @ ELSE "pending"]
        /\ pass' = [pass EXCEPT ![p] = Onward(p)]
        /\ UNCHANGED <<fireAt, now, fails, sent, excused>>

Later(a, b) == IF a > b THEN a ELSE b

\* rollPastDue(); what lies beyond the bound is never due and all one.
RollPastDue(seen, r) ==
    LET next == Later(seen, now[r]) + 1
    IN  IF next > MaxOccurrence THEN MaxOccurrence + 1 ELSE next

\* removeOneShot(), or rollRecurring() past the occurrence that was seen and past all that have
\* come; neither does anything to a reminder that is gone.
Settle(r, seen) ==
    /\ status' = [status EXCEPT ![r] = IF @ = "gone" \/ r \notin Recurring THEN "gone" ELSE "pending"]
    /\ IF status[r] = "gone" \/ r \notin Recurring
       THEN UNCHANGED <<fireAt, sent>>
       ELSE /\ fireAt' = [fireAt EXCEPT ![r] = RollPastDue(seen, r)]
            /\ sent' = [sent EXCEPT ![r] = 0]

\* The write may fail for want of the lock: the claim stays.
Finalize(p) ==
    /\ pass[p].at = "sent"
    /\ pass' = [pass EXCEPT ![p] = Onward(p)]
    /\ \/ Settle(pass[p].id, pass[p].seen) /\ UNCHANGED <<fails, excused>>
       \/ /\ fails < MaxFails
          /\ fails' = fails + 1
          /\ excused' = excused \cup {pass[p].id}
          /\ UNCHANGED <<status, fireAt, sent>>
    /\ UNCHANGED now

\* beckett remind remove
Remove(r) ==
    /\ status[r] # "gone"
    /\ status' = [status EXCEPT ![r] = "gone"]
    /\ UNCHANGED <<fireAt, now, pass, fails, sent, excused>>

\* Between two occurrences lies a day: no pass that has to do with the first lasts until the second.
Apart(r) == \A p \in Actors : pass[p].id # r /\ \A s \in pass[p].todo : s.id # r

Time(r) ==
    /\ IF r \in Recurring THEN now[r] < MaxOccurrence ELSE now[r] = 0
    /\ now[r] > 0 => Apart(r)
    /\ now' = [now EXCEPT ![r] = @ + 1]
    /\ UNCHANGED <<status, fireAt, pass, fails, sent, excused>>

\* The daemon dies.  A reminder that was sent and is still on the list will be sent again.
DaemonDies ==
    /\ fails < MaxFails
    /\ fails' = fails + 1
    /\ excused' = excused \cup {r \in Listed : sent[r] > 0}
    /\ pass' = [p \in Actors |-> Idle]
    /\ UNCHANGED <<status, fireAt, now, sent>>

Moves(p) ==
    \/ \E s \in pass[p].todo : Evaluate(p, s)
    \/ WalkEnds(p) \/ Sent(p) \/ NotSent(p) \/ Unclaim(p) \/ Finalize(p)

Ticks == \E p \in Passes : Tick(p)
Proceeds == \E p \in Actors : Moves(p)

RemindNext == Ticks \/ Proceeds \/ DaemonDies \/ \E r \in Listed : FireNow(r) \/ Remove(r) \/ Time(r)

\* The timer ticks when a pass can begin, and of the awaits some return.
RemindSpec == RemindInit /\ [][RemindNext]_rvars /\ WF_rvars(Ticks) /\ WF_rvars(Proceeds)

-----------------------------------------------------------------------------
(* Properties *)

\* scheduler.ts:23-27: a reminder is delivered once for an occurrence, unless its last write is
\* lost, or a pass works on a list that is older than somebody else's firing of it.
DeliveredOnce == \A r \in Listed : sent[r] = 2 => r \in excused

\* scheduler.ts:29: a reminder that is due is delivered, whatever passes, failures and deaths of
\* the daemon come between, or someone removes it.
GoesOff ==
    \A r \in Listed : (status[r] # "gone" /\ now[r] >= fireAt[r]) ~> (sent[r] > 0 \/ status[r] = "gone")

\* scheduler.ts:25-27: but for a crash around the last write, there is "NO double-delivery risk at
\* all"; TLC refutes it with two passes and neither crash nor failure.
OnceWithoutCrash == fails = 0 => \A r \in Listed : sent[r] < 2

=============================================================================
