----------------------------- MODULE RunPublish -----------------------------
(***************************************************************************)
(* How a run is published (src/src/run/supervisor.ts): from the review that *)
(* passed to a proven landing, over the publish outbox's retries, the       *)
(* publishing-stall guard, the proof re-checks, cancel, courier, backfill   *)
(* and resume, and a crash of the daemon at any await.  A git/gh call is one *)
(* await that may take any time.  "reviewing" stands for every staffed      *)
(* stage: module Staffing models those.                                     *)
(***************************************************************************)
EXTENDS Naturals

CONSTANTS
    Runs,           \* the runs
    Ids,            \* ids of outbox operations
    MaxAttempts,    \* PUBLISH_MAX_ATTEMPTS
    RecheckMax,     \* runs.proof_recheck_max
    MaxCrashes,     \* bound: crashes of the daemon
    Requests        \* what people may ask for, a subset of AllRequests

AllRequests == {"cancel", "courier", "backfill", "resume"}

VARIABLES
    state, published, prUrl, blocker, proof, attempts,  \* the ledger's fields of each run
    rows, cancelled, draining, snapshot, kept, todo, applying,  \* the outbox
    pushing,    \* calls of publishRun that await publishOnce or the proof: <<run, caller>>
    advising,   \* calls of publishRun that await the hand-off advice
    retry,      \* the drain's apply: "idle", "dropping", "pushing" or "advising"
    couriering, \* runs whose courier() awaits its proof
    dog,        \* the watchdog's await, with the run as it was read
    boot,       \* start(): "drain", "drained", "resume" or "up"
    owed,       \* runs that resumeInterruptedPublishes is still to visit
    crashes

ledger == <<state, published, prUrl, blocker, proof, attempts>>
outbox == <<rows, cancelled, draining, snapshot, kept, todo, applying>>
vars == <<ledger, outbox, pushing, advising, retry, couriering, dog, boot, owed, crashes>>

Outbox == INSTANCE PublishOutbox WITH Items <- Runs

Nobody == Outbox!Nobody
NoRow == Outbox!NoRow

ASSUME RunPublishAssumption ==
    /\ RecheckMax \in Nat \ {0} /\ MaxAttempts \in Nat \ {0} /\ MaxCrashes \in Nat
    /\ Outbox!NoId \notin Ids /\ Nobody \notin Runs
    /\ Requests \subseteq AllRequests

\* publishRun is called by a worker's review and, at boot, by start().
Calls == Runs \X {"review", "boot"}

States == {"reviewing", "publishing", "unverified", "done", "parked", "cancelled"}
RUN_FINAL == {"done", "cancelled"}
RUN_TERMINAL == RUN_FINAL \cup {"parked"}

\* PublishRecord: who published, and whether the record has a pull-request URL.
Records == {"none", "outbox", "outboxPr", "courier", "courierPr"}

DogIdle == [pc |-> "idle", run |-> Nobody, published |-> "none", prUrl |-> FALSE, attempts |-> 0]

TypeOK ==
    /\ Outbox!TypeOK
    /\ state \in [Runs -> States]
    /\ published \in [Runs -> Records] /\ prUrl \in [Runs -> BOOLEAN]
    /\ blocker \in [Runs -> {"none", "admin-permission", "transient"}]
    /\ proof \in [Runs -> {"none", "unverified", "verified"}]
    /\ attempts \in [Runs -> 0 .. RecheckMax + MaxCrashes]
    /\ pushing \in SUBSET Calls /\ advising \in SUBSET Calls
    /\ retry \in {"idle", "dropping", "pushing", "advising"}
    /\ couriering \in SUBSET Runs
    /\ dog.pc \in {"idle", "advising", "checking", "holding"} /\ dog.run \in Runs \cup {Nobody}
    /\ boot \in {"drain", "drained", "resume", "up"} /\ owed \in SUBSET Runs
    /\ crashes \in 0 .. MaxCrashes

-----------------------------------------------------------------------------
(* Writing the ledger *)

\* hold(): the park and its blocker are one write.
Hold(i, class) ==
    /\ state' = [state EXCEPT ![i] = "parked"]
    /\ blocker' = [blocker EXCEPT ![i] = class]
    /\ UNCHANGED <<published, prUrl, proof, attempts>>

\* What assembleProof may say of a landing: CI and the PR are read from GitHub.
Verdicts(record, url) ==
    CASE record = "outboxPr" -> {"verified", "pending", "unverified"}
      [] record \in {"courier", "courierPr"} /\ ~url -> {"unverified"}
      [] OTHER -> {"verified"}

ProofOf(verdict) == IF verdict = "verified" THEN "verified" ELSE "unverified"

\* The write that records a landing: its proof decides between done and unverified.
Land(i, record, verdict) ==
    /\ state' = [state EXCEPT ![i] = IF verdict = "verified" THEN "done" ELSE "unverified"]
    /\ published' = [published EXCEPT ![i] = record]
    /\ proof' = [proof EXCEPT ![i] = ProofOf(verdict)]
    /\ attempts' = [attempts EXCEPT ![i] = 0]
    /\ UNCHANGED blocker

FinalizePublish(i) ==
    \E record \in {"outbox", "outboxPr"} :
      /\ prUrl' = [prUrl EXCEPT ![i] = record = "outboxPr"]
      /\ \E verdict \in Verdicts(record, TRUE) : Land(i, record, verdict)

-----------------------------------------------------------------------------
(* publishRun: the first attempt *)

Publish(i, caller) ==
    /\ state' = [state EXCEPT ![i] = "publishing"]
    /\ pushing' = pushing \cup {<<i, caller>>}
    /\ UNCHANGED <<published, prUrl, blocker, proof, attempts>>

\* The review passed.
ReviewPasses(i) ==
    /\ state[i] = "reviewing"
    /\ Publish(i, "review")
    /\ UNCHANGED <<outbox, advising, retry, couriering, dog, boot, owed, crashes>>

\* The stage is held for a human instead.
ReviewHolds(i) ==
    /\ state[i] = "reviewing"
    /\ Hold(i, "transient")
    /\ UNCHANGED <<outbox, pushing, advising, retry, couriering, dog, boot, owed, crashes>>

\* The attempt failed: a row is appended; a plan that parks then awaits the advice.
FirstFails(call, kind) ==
    LET at == Outbox!PlanAt(1, kind)
    IN  /\ call \in pushing
        /\ pushing' = pushing \ {call}
        /\ advising' = IF at = "never" THEN advising \cup {call} ELSE advising
        /\ Outbox!AppendRow(call[1], 1, at)
        /\ UNCHANGED <<ledger, retry, couriering, dog, boot, owed, crashes>>

FirstParks(call) ==
    /\ call \in advising
    /\ advising' = advising \ {call}
    /\ Hold(call[1], "admin-permission")
    /\ UNCHANGED <<outbox, pushing, retry, couriering, dog, boot, owed, crashes>>

FirstLands(call) ==
    /\ call \in pushing
    /\ pushing' = pushing \ {call}
    /\ FinalizePublish(call[1])
    /\ UNCHANGED <<outbox, advising, retry, couriering, dog, boot, owed, crashes>>

-----------------------------------------------------------------------------
(* replayPublishes: the outbox's drain, by timer, by the watchdog and at boot *)

\* The row of a terminal run is dropped, any other is published again.
ApplyPc(i) ==
    IF i = Nobody THEN "idle"
    ELSE IF state[i] \in RUN_TERMINAL THEN "dropping" ELSE "pushing"

DrainBegin(due, i) ==
    /\ boot \in {"drain", "up"}
    /\ boot' = IF boot = "drain" THEN "drained" ELSE boot
    /\ Outbox!DrainBegin(due, i)
    /\ retry' = ApplyPc(i)
    /\ UNCHANGED <<ledger, pushing, advising, couriering, dog, owed, crashes>>

ApplyBegin(i) ==
    /\ Outbox!ApplyBegin(i)
    /\ retry' = ApplyPc(i)
    /\ UNCHANGED <<ledger, pushing, advising, couriering, dog, boot, owed, crashes>>

RetryDrops(i) ==
    /\ retry = "dropping"
    /\ Outbox!ApplyRemoves(i)
    /\ retry' = "idle"
    /\ UNCHANGED <<ledger, pushing, advising, couriering, dog, boot, owed, crashes>>

\* It failed again: the row is kept for the next attempt, or the run is parked first.
RetryFails(i, kind) ==
    /\ retry = "pushing" /\ applying = i
    /\ IF Outbox!PlanAt(snapshot[i].attempt + 1, kind) = "never"
       THEN retry' = "advising" /\ UNCHANGED outbox
       ELSE retry' = "idle" /\ Outbox!ApplyKeeps(i, kind)
    /\ UNCHANGED <<ledger, pushing, advising, couriering, dog, boot, owed, crashes>>

RetryParks(i) ==
    /\ retry = "advising"
    /\ Outbox!ApplyKeeps(i, "permanent")
    /\ retry' = "idle"
    /\ Hold(i, "admin-permission")
    /\ UNCHANGED <<pushing, advising, couriering, dog, boot, owed, crashes>>

RetryLands(i) ==
    /\ retry = "pushing"
    /\ Outbox!ApplyRemoves(i)
    /\ retry' = "idle"
    /\ FinalizePublish(i)
    /\ UNCHANGED <<pushing, advising, couriering, dog, boot, owed, crashes>>

DrainEnd ==
    /\ Outbox!DrainEnd
    /\ UNCHANGED <<ledger, pushing, advising, retry, couriering, dog, boot, owed, crashes>>

-----------------------------------------------------------------------------
(* The watchdog: one run at a time *)

\* Mutant: any row exempts its run, one that gave up too.
StallBeginsRowless(i) ==
    /\ boot = "up" /\ dog.pc = "idle"
    /\ state[i] = "publishing" /\ rows[i] = NoRow
    /\ dog' = [DogIdle EXCEPT !.pc = "advising", !.run = i]
    /\ UNCHANGED <<ledger, outbox, pushing, advising, retry, couriering, boot, owed, crashes>>

\* reconcilePublishing: nothing is scheduled to move the run, and it has waited for
\* PUBLISH_STALL_MS.  The park is written after the advice, whatever happened meanwhile.
StallBegins(i) ==
    /\ boot = "up" /\ dog.pc = "idle"
    /\ state[i] = "publishing" /\ rows[i].at # "later"
    /\ dog' = [DogIdle EXCEPT !.pc = "advising", !.run = i]
    /\ UNCHANGED <<ledger, outbox, pushing, advising, retry, couriering, boot, owed, crashes>>

StallParks ==
    /\ dog.pc = "advising"
    /\ Hold(dog.run, "admin-permission")
    /\ dog' = DogIdle
    /\ UNCHANGED <<outbox, pushing, advising, retry, couriering, boot, owed, crashes>>

\* reconcileProofs: the run is read, then GitHub is asked.
RecheckBegins(i) ==
    /\ boot = "up" /\ dog.pc = "idle"
    /\ state[i] = "unverified"
    /\ dog' = [pc |-> "checking", run |-> i, published |-> published[i], prUrl |-> prUrl[i],
                attempts |-> attempts[i] + 1]
    /\ UNCHANGED <<ledger, outbox, pushing, advising, retry, couriering, boot, owed, crashes>>

ProofPatched(n, verdict) ==
    /\ proof' = [proof EXCEPT ![dog.run] = ProofOf(verdict)]
    /\ attempts' = [attempts EXCEPT ![dog.run] = n]
    /\ UNCHANGED <<published, prUrl, blocker>>

RecheckVerifies ==
    /\ dog.pc = "checking" /\ "verified" \in Verdicts(dog.published, dog.prUrl)
    /\ state' = [state EXCEPT ![dog.run] = "done"]
    /\ ProofPatched(dog.attempts, "verified")
    /\ dog' = DogIdle
    /\ UNCHANGED <<outbox, pushing, advising, retry, couriering, boot, owed, crashes>>

\* CI still runs: no attempt is spent.
RecheckPending ==
    /\ dog.pc = "checking" /\ "pending" \in Verdicts(dog.published, dog.prUrl)
    /\ ProofPatched(dog.attempts - 1, "pending")
    /\ dog' = DogIdle
    /\ UNCHANGED <<state, outbox, pushing, advising, retry, couriering, boot, owed, crashes>>

\* Mutant: the attempt is compared before it is counted.
RecheckFailsLate ==
    /\ dog.pc = "checking" /\ "unverified" \in Verdicts(dog.published, dog.prUrl)
    /\ ProofPatched(dog.attempts, "unverified")
    /\ dog' = IF dog.attempts - 1 >= RecheckMax THEN [dog EXCEPT !.pc = "holding"] ELSE DogIdle
    /\ UNCHANGED <<state, outbox, pushing, advising, retry, couriering, boot, owed, crashes>>

\* Mutant: a failed re-check spends no attempt.
RecheckFailsFree ==
    /\ dog.pc = "checking" /\ "unverified" \in Verdicts(dog.published, dog.prUrl)
    /\ ProofPatched(dog.attempts - 1, "unverified")
    /\ dog' = IF dog.attempts >= RecheckMax THEN [dog EXCEPT !.pc = "holding"] ELSE DogIdle
    /\ UNCHANGED <<state, outbox, pushing, advising, retry, couriering, boot, owed, crashes>>

\* An attempt is spent; the last one goes on to park the run.
RecheckFails ==
    /\ dog.pc = "checking" /\ "unverified" \in Verdicts(dog.published, dog.prUrl)
    /\ ProofPatched(dog.attempts, "unverified")
    /\ dog' = IF dog.attempts >= RecheckMax THEN [dog EXCEPT !.pc = "holding"] ELSE DogIdle
    /\ UNCHANGED <<state, outbox, pushing, advising, retry, couriering, boot, owed, crashes>>

RecheckParks ==
    /\ dog.pc = "holding"
    /\ Hold(dog.run, "transient")
    /\ dog' = DogIdle
    /\ UNCHANGED <<outbox, pushing, advising, retry, couriering, boot, owed, crashes>>

-----------------------------------------------------------------------------
(* What people do *)

Cancel(i) ==
    /\ state[i] \notin RUN_FINAL
    /\ Outbox!Cancel(i)
    /\ state' = [state EXCEPT ![i] = "cancelled"]
    /\ blocker' = [blocker EXCEPT ![i] = "none"]
    /\ UNCHANGED <<published, prUrl, proof, attempts>>
    /\ UNCHANGED <<pushing, advising, retry, couriering, dog, boot, owed, crashes>>

\* courier(): the row is given up at once, the landing is recorded after an await.
CourierBegins(i) ==
    /\ state[i] \in {"publishing", "parked"} /\ published[i] # "outboxPr"
    /\ Outbox!Cancel(i)
    /\ couriering' = couriering \cup {i}
    /\ UNCHANGED <<ledger, pushing, advising, retry, dog, boot, owed, crashes>>

CourierEnds(i) ==
    /\ i \in couriering
    /\ couriering' = couriering \ {i}
    /\ Land(i, "courier", "unverified")
    /\ UNCHANGED <<prUrl, outbox, pushing, advising, retry, dog, boot, owed, crashes>>

\* backfillCourierPrUrl: a human names the PR; an unverified run is then proven.
Backfill(i) ==
    /\ published[i] = "courier"
    /\ published' = [published EXCEPT ![i] = "courierPr"]
    /\ prUrl' = [prUrl EXCEPT ![i] = TRUE]
    /\ IF state[i] = "unverified"
       THEN /\ state' = [state EXCEPT ![i] = "done"]
            /\ proof' = [proof EXCEPT ![i] = "verified"]
       ELSE UNCHANGED <<state, proof>>
    /\ UNCHANGED <<blocker, attempts>>
    /\ UNCHANGED <<outbox, pushing, advising, retry, couriering, dog, boot, owed, crashes>>

\* Mutant: only the record of a landing blocks a resume.
PublishBlockedIfLanded(i) == published[i] # "none"

PublishBlocked(i) ==
    blocker[i] = "admin-permission" \/ published[i] # "none" \/ rows[i] # NoRow

Resume(i) ==
    /\ state[i] = "parked" /\ ~PublishBlocked(i)
    /\ state' = [state EXCEPT ![i] = "reviewing"]
    /\ blocker' = [blocker EXCEPT ![i] = "none"]
    /\ UNCHANGED <<published, prUrl, proof, attempts>>
    /\ UNCHANGED <<outbox, pushing, advising, retry, couriering, dog, boot, owed, crashes>>

-----------------------------------------------------------------------------
(* The daemon dies, and start() puts the publishes back together *)

Crash ==
    /\ crashes < MaxCrashes
    /\ crashes' = crashes + 1
    /\ Outbox!Crash
    /\ pushing' = {} /\ advising' = {} /\ retry' = "idle"
    /\ couriering' = {} /\ dog' = DogIdle
    /\ boot' = "drain" /\ owed' = {}
    /\ UNCHANGED ledger

\* Mutant: nothing is listed.
BootListsNone ==
    /\ boot = "drained" /\ ~draining
    /\ boot' = "resume"
    /\ owed' = {}
    /\ UNCHANGED <<ledger, outbox, pushing, advising, retry, couriering, dog, crashes>>

\* The boot drain is over: the runs mid-publish are listed.
BootLists ==
    /\ boot = "drained" /\ ~draining
    /\ boot' = "resume"
    /\ owed' = {i \in Runs : state[i] = "publishing"}
    /\ UNCHANGED <<ledger, outbox, pushing, advising, retry, couriering, dog, crashes>>

BootAwaits == \E i \in Runs : <<i, "boot">> \in pushing \cup advising

\* One after another, those without a row are published again.
BootResumes(i) ==
    /\ boot = "resume" /\ ~BootAwaits /\ i \in owed
    /\ owed' = owed \ {i}
    /\ IF rows[i] = NoRow THEN Publish(i, "boot") ELSE UNCHANGED <<ledger, pushing>>
    /\ UNCHANGED <<outbox, advising, retry, couriering, dog, boot, crashes>>

BootUp ==
    /\ boot = "resume" /\ ~BootAwaits /\ owed = {}
    /\ boot' = "up"
    /\ UNCHANGED <<ledger, outbox, pushing, advising, retry, couriering, dog, owed, crashes>>

-----------------------------------------------------------------------------
Init ==
    /\ state = [i \in Runs |-> "reviewing"]
    /\ published = [i \in Runs |-> "none"] /\ prUrl = [i \in Runs |-> FALSE]
    /\ blocker = [i \in Runs |-> "none"]
    /\ proof = [i \in Runs |-> "none"] /\ attempts = [i \in Runs |-> 0]
    /\ Outbox!Init
    /\ pushing = {} /\ advising = {} /\ retry = "idle"
    /\ couriering = {} /\ dog = DogIdle
    /\ boot = "up" /\ owed = {}
    /\ crashes = 0

Drains ==
    \/ \E due \in SUBSET Runs, i \in Runs \cup {Nobody} : DrainBegin(due, i)
    \/ \E i \in Runs :
         \/ ApplyBegin(i) \/ RetryDrops(i) \/ RetryParks(i) \/ RetryLands(i)
         \/ \E kind \in Outbox!ErrorKinds : RetryFails(i, kind)
    \/ DrainEnd

FirstAttempt(call) ==
    FirstLands(call) \/ \E kind \in Outbox!ErrorKinds : FirstFails(call, kind)

Watchdog ==
    \/ \E i \in Runs : StallBegins(i) \/ RecheckBegins(i)
    \/ StallParks \/ RecheckVerifies \/ RecheckPending \/ RecheckFails \/ RecheckParks

People(i) ==
    \/ "cancel" \in Requests /\ Cancel(i)
    \/ "courier" \in Requests /\ CourierBegins(i)
    \/ CourierEnds(i)
    \/ "backfill" \in Requests /\ Backfill(i)
    \/ "resume" \in Requests /\ Resume(i)

Next ==
    \/ \E i \in Runs : ReviewPasses(i) \/ ReviewHolds(i) \/ People(i) \/ BootResumes(i)
    \/ \E call \in Calls : FirstAttempt(call) \/ FirstParks(call)
    \/ Drains \/ Watchdog
    \/ Crash \/ BootLists \/ BootUp

Spec == Init /\ [][Next]_vars

\* Promises settle and timers fire; a row in the file falls due, and a later drain finds
\* it so.  Nothing says that a git or gh call returns.
SchedulerFairness ==
    /\ \A call \in Calls : WF_vars(FirstParks(call))
    /\ \A i \in Runs :
         /\ SF_vars(\E due \in SUBSET Runs, j \in Runs : i \in due /\ DrainBegin(due, j))
         /\ WF_vars(ApplyBegin(i)) /\ WF_vars(RetryDrops(i)) /\ WF_vars(RetryParks(i))
         /\ WF_vars(CourierEnds(i)) /\ WF_vars(BootResumes(i))
         /\ SF_vars(StallBegins(i)) /\ SF_vars(RecheckBegins(i))
    /\ WF_vars(\E due \in SUBSET Runs, i \in Runs \cup {Nobody} : boot = "drain" /\ DrainBegin(due, i))
    /\ WF_vars(DrainEnd) /\ WF_vars(BootLists) /\ WF_vars(BootUp)
    /\ WF_vars(StallParks) /\ WF_vars(RecheckParks)
    /\ WF_vars(RecheckVerifies \/ RecheckPending \/ RecheckFails)

\* Every attempt to publish ends, one way or the other.
CallsReturn ==
    /\ \A call \in Calls : WF_vars(FirstAttempt(call))
    /\ \A i \in Runs : WF_vars(RetryLands(i) \/ \E kind \in Outbox!ErrorKinds : RetryFails(i, kind))

HangSpec == Spec /\ SchedulerFairness
FairSpec == HangSpec /\ CallsReturn

-----------------------------------------------------------------------------
(* Properties *)

Publishers(i) == {call \in pushing : call[1] = i}
Retrying(i) == applying = i /\ retry = "pushing"

\* No two attempts to publish a run overlap, and none runs while the run has a
\* worker in the same worktree: the guards of resume(), of the boot repair and of the
\* drain, all of them on different state, exclude it together.
OnePublisher ==
    \A i \in Runs :
      /\ \A c, d \in Publishers(i) : c = d
      /\ Publishers(i) # {} => ~Retrying(i) /\ rows[i] = NoRow
      /\ state[i] = "reviewing" => Publishers(i) = {} /\ ~Retrying(i)

\* The stall guard's third shape never arises in a daemon that is up: a publishing run
\* has an attempt under way, a row, or a courier about to record it.
PublishingOwned ==
    \A i \in Runs :
      state[i] = "publishing" /\ boot = "up" =>
        \/ Publishers(i) # {} \/ <<i, "review">> \in advising \/ <<i, "boot">> \in advising
        \/ rows[i] # NoRow \/ i \in couriering

\* publishing is left: published, parked, couriered or cancelled.
PublishingMoves == \A i \in Runs : state[i] = "publishing" ~> state[i] # "publishing"

\* A run whose proof fails is re-checked a bounded number of times: only CI that runs
\* for ever keeps it unverified.
UnverifiedMoves ==
    []<><<RecheckPending>>_vars \/ \A i \in Runs : state[i] = "unverified" ~> state[i] # "unverified"

\* Neither state is the last one of a run: line 1920, no run may sit in publishing "with nothing
\* scheduled to move it", and the cap of the re-checks parks what stays unverified.
DeliveryMoves == PublishingMoves /\ UnverifiedMoves

-----------------------------------------------------------------------------
(* What the comments promise and TLC refutes; the README says in which instance. *)

\* "A human courier owns publishing from this point; never race them with a stale retry":
\* after a courier no retry of the run is started.
NoRetryAfterCourier ==
    [][\A i \in Runs : published[i] \in {"courier", "courierPr"} /\ ~Retrying(i) => ~Retrying(i)']_vars

\* done is a verdict the proof earns.
DoneIsProven == \A i \in Runs : state[i] = "done" => proof[i] = "verified"

\* "Non-null iff state === parked."
BlockerIffParked == \A i \in Runs : state[i] = "parked" <=> blocker[i] # "none"

\* The park's remedy names task resume once the permission is resolved.
RemedyAccepted ==
    \A i \in Runs :
      state[i] = "parked" /\ blocker[i] = "admin-permission" /\ rows[i] = NoRow /\ published[i] = "none"
        => ~PublishBlocked(i)

=============================================================================
