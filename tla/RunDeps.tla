------------------------------- MODULE RunDeps -------------------------------
(***************************************************************************)
(* Run dependency edges: readiness() of src/src/run/deps.ts, which keeps a   *)
(* queued run waiting for the runs it names and for the runs in flight that  *)
(* declared overlapping files, and the places where RunSupervisor asks it.   *)
(*                                                                         *)
(* The supervisor's maps are seen as readiness() sees them, as one set of    *)
(* run ids, and a slot is taken to be free for every run; the cap and the    *)
(* single awaits are in Staffing.  What is kept of the awaits is that a      *)
(* handler's patch, made after one, does not look at what happened during it.*)
(***************************************************************************)
EXTENDS Integers, FiniteSets

CONSTANTS
    Runs,       \* run ids, numbered in the order of creation
    Deps,       \* run.deps
    Paths,      \* normalised paths of --files
    Inside,     \* <<y, x>>: the directory prefix x contains y
    Files,      \* run.files
    Repo        \* run.repo

ASSUME RunDepsAssumption ==
    /\ Runs \subseteq Nat /\ IsFiniteSet(Runs)
    /\ Deps \in [Runs -> SUBSET Runs]
    /\ Inside \subseteq Paths \X Paths
    /\ Files \in [Runs -> SUBSET Paths]
    /\ DOMAIN Repo = Runs

RUN_FINAL == {"done", "failed", "cancelled"}

IN_FLIGHT_FOR_OVERLAP ==
    {"implementing", "reviewing", "publishing", "unverified", "awaiting_input", "parked"}

States == {"absent", "queued"} \cup IN_FLIGHT_FOR_OVERLAP \cup RUN_FINAL

VARIABLES
    ledger,     \* Run.state; "absent": not created yet
    inFlight,   \* staffing, workers and pending: what readiness() is told
    handler,    \* what awaits on the run's behalf and will patch it
    revived     \* history: runs that such a patch took out of a final state

vars == <<ledger, inFlight, handler, revived>>

Handlers == {"none", "implement", "review", "finish", "publish"}

TypeOK ==
    /\ ledger \in [Runs -> States]
    /\ inFlight \in SUBSET Runs
    /\ handler \in [Runs -> Handlers]
    /\ revived \in SUBSET Runs

-----------------------------------------------------------------------------
(* readiness() *)

\* pathOverlaps(a, b) is not empty.
PathOverlaps(a, b) ==
    \E x \in a, y \in b : x = y \/ <<y, x>> \in Inside \/ <<x, y>> \in Inside

Newer(r, s) == r > s

\* Mutant: no cycle guard.
OwedCyclic(st, r) == {d \in Deps[r] \ {r} : st[d] \notin {"absent", "done", "cancelled"}}

\* A dependency that is still to come.  Of two runs that name each other the
\* older one does not wait.
Owed(st, r) ==
    {d \in Deps[r] \ {r} : /\ st[d] \notin {"absent", "done", "cancelled"}
                           /\ ~(r \in Deps[d] /\ Newer(d, r))}

Collide(r, s) == r # s /\ Repo[r] = Repo[s] /\ PathOverlaps(Files[r], Files[s])

\* Mutant: only the ledger is asked, as before runs were counted mid-spawn.
ContendedLedgerOnly(st, busy, r) ==
    {s \in Runs : Collide(r, s) /\ st[s] \in IN_FLIGHT_FOR_OVERLAP}

\* Siblings that hold files r would write.
Contended(st, busy, r) ==
    {s \in Runs : Collide(r, s) /\ (st[s] \in IN_FLIGHT_FOR_OVERLAP \/ s \in busy)}

Ready(st, busy, r) == Owed(st, r) = {} /\ Contended(st, busy, r) = {}

\* The runs a loop of admitRun takes from cand: oldest first, each counted as
\* in flight for the ones after it.
Admitted(st, busy, cand) ==
    {A \in SUBSET cand :
        \A r \in cand : r \in A <=>
            \/ st[r] \in {"implementing", "reviewing"}
            \/ st[r] = "queued" /\ Ready(st, busy \cup {a \in A : a < r}, r)}

\* The stage a spawn is for; its handler is named after it.
StageFor(s) == IF s = "reviewing" THEN "review" ELSE "implement"

\* Staff the runs of A beside those of rest; awaiting is what else is awaited.
Staff(A, rest, awaiting) ==
    /\ inFlight' = rest \cup A
    /\ handler' = [r \in Runs |-> IF r \in A \ rest THEN StageFor(ledger'[r])
                                ELSE awaiting[r]]

Queued(st) == {r \in Runs : st[r] = "queued"}

\* patchRun: a run that turns final has every queued run admitted again.
Finalise(r, s, rest, awaiting) ==
    /\ ledger' = [ledger EXCEPT ![r] = s]
    /\ \E A \in Admitted(ledger', rest, Queued(ledger')) : Staff(A, rest, awaiting)
    /\ UNCHANGED revived

-----------------------------------------------------------------------------
(* Actions *)

Init ==
    /\ ledger = [r \in Runs |-> "absent"]
    /\ inFlight = {} /\ revived = {}
    /\ handler = [r \in Runs |-> "none"]

\* A run is created; it may name runs that do not exist yet.
Create(r) ==
    /\ ledger[r] = "absent" /\ \A s \in Runs : s < r => ledger[s] # "absent"
    /\ ledger' = [ledger EXCEPT ![r] = "queued"]
    /\ UNCHANGED <<inFlight, handler, revived>>

\* admitRun from the deploy ping, or the watchdog's re-staffing.
Admit(r) ==
    /\ r \notin inFlight /\ handler[r] = "none"
    /\ {r} \in Admitted(ledger, inFlight, {r})
    /\ UNCHANGED <<ledger, revived>>
    /\ Staff({r}, inFlight, handler)

\* The watchdog's second try did not take.
Park(r) ==
    /\ r \notin inFlight /\ handler[r] = "none"
    /\ {r} \in Admitted(ledger, inFlight, {r})
    /\ ledger' = [ledger EXCEPT ![r] = "parked"]
    /\ UNCHANGED <<inFlight, handler, revived>>

\* The patch a handler makes after its await, whatever the run's state is.
Patches(r, s) ==
    /\ ledger' = [ledger EXCEPT ![r] = s]
    /\ revived' = IF ledger[r] \in RUN_FINAL THEN revived \cup {r} ELSE revived

Frees(r) == handler' = [handler EXCEPT ![r] = "none"]

Spawning(r) == handler[r] \in {"implement", "review"}

Provisioned(r) ==
    /\ Spawning(r)
    /\ Patches(r, IF handler[r] = "implement" THEN "implementing" ELSE "reviewing")
    /\ Frees(r) /\ UNCHANGED inFlight

\* A capability gap or a merge conflict between dependencies' branches.
SpawnHeld(r) ==
    /\ Spawning(r)
    /\ Patches(r, "parked")
    /\ Frees(r) /\ inFlight' = inFlight \ {r}

\* A spawn that could not start leaves the run as it is to the watchdog.
SpawnFails(r) ==
    /\ Spawning(r)
    /\ Frees(r) /\ inFlight' = inFlight \ {r}
    /\ UNCHANGED <<ledger, revived>>

WorkerEnds(r) ==
    /\ r \in inFlight /\ handler[r] = "none" /\ ledger[r] \in {"implementing", "reviewing"}
    /\ handler' = [handler EXCEPT ![r] = "finish"]
    /\ inFlight' = inFlight \ {r}
    /\ UNCHANGED <<ledger, revived>>

Outcomes == {"implementing", "reviewing", "publishing", "awaiting_input", "parked"}

\* The finish handler moves the run on; to publish it awaits once more.
Finished(r, s) ==
    /\ handler[r] = "finish"
    /\ Patches(r, s)
    /\ handler' = [handler EXCEPT ![r] = IF s = "publishing" THEN "publish" ELSE "none"]
    /\ UNCHANGED inFlight

\* The outbox drain, or the boot repair, tries again.
Republish(r) ==
    /\ ledger[r] = "publishing" /\ handler[r] = "none"
    /\ handler' = [handler EXCEPT ![r] = "publish"]
    /\ UNCHANGED <<ledger, inFlight, revived>>

\* A publish ends in done, in an unverified proof, or held ...
Published(r) ==
    /\ handler[r] = "publish"
    /\ \/ Finalise(r, "done", inFlight, [handler EXCEPT ![r] = "none"])
       \/ /\ \E s \in {"unverified", "parked"} : Patches(r, s)
          /\ Frees(r) /\ UNCHANGED inFlight

\* ... or in a row of the outbox for a later try.
PublishFails(r) ==
    /\ handler[r] = "publish"
    /\ Frees(r) /\ UNCHANGED <<ledger, inFlight, revived>>

\* The re-check of an unverified run settles it.
Rechecked(r) ==
    /\ ledger[r] = "unverified"
    /\ \/ Finalise(r, "done", inFlight, handler)
       \/ /\ ledger' = [ledger EXCEPT ![r] = "parked"]
          /\ UNCHANGED <<inFlight, handler, revived>>

\* An answer or a resume staffs the run again.
Resume(r) ==
    /\ ledger[r] \in {"awaiting_input", "parked"} /\ handler[r] = "none"
    /\ \E s \in {"implementing", "reviewing"} : ledger' = [ledger EXCEPT ![r] = s]
    /\ Staff({r}, inFlight, handler)
    /\ UNCHANGED revived

\* cancel(): the reservation, the worker and the pending entry go; a handler
\* under way does not.
Cancel(r) ==
    /\ ledger[r] \notin RUN_FINAL \cup {"absent"}
    /\ Finalise(r, "cancelled", inFlight \ {r}, handler)

\* A restart: start() admits every live run, oldest first.
Restart ==
    /\ UNCHANGED <<ledger, revived>>
    /\ \E A \in Admitted(ledger, {}, {r \in Runs : ledger[r] \in {"queued", "implementing", "reviewing"}}) :
        Staff(A, {}, [r \in Runs |-> "none"])

RunStep(r) ==
    \/ Create(r) \/ Admit(r) \/ Park(r)
    \/ Provisioned(r) \/ SpawnHeld(r) \/ SpawnFails(r)
    \/ WorkerEnds(r) \/ (\E s \in Outcomes : Finished(r, s))
    \/ Republish(r) \/ Published(r) \/ PublishFails(r) \/ Rechecked(r)
    \/ Resume(r) \/ Cancel(r)

Next == Restart \/ \E r \in Runs : RunStep(r)

Spec == Init /\ [][Next]_vars

\* The watchdog and the drain come round; awaits return; and what is tried
\* again and again succeeds or is settled: the spawns, the rounds of a run (the
\* caps on reviews and continuations) and the publishes (the retry ladder).
Fairness ==
    \A r \in Runs :
        /\ WF_vars(Create(r)) /\ SF_vars(Admit(r)) /\ SF_vars(Provisioned(r))
        /\ SF_vars(WorkerEnds(r)) /\ SF_vars(Finished(r, "publishing"))
        /\ SF_vars(Republish(r)) /\ SF_vars(Published(r)) /\ WF_vars(Rechecked(r))

FairSpec == Spec /\ Fairness

-----------------------------------------------------------------------------
(* Properties *)

InFlight(r) == ledger[r] \in IN_FLIGHT_FOR_OVERLAP \/ r \in inFlight

\* Two runs of one repository that declared overlapping files are never in
\* flight together, mid-spawn and held ones included, unless a handler brought
\* one of them back from a final state (the overwritten cancel of Staffing's
\* FinalIsFinal, after which deps.ts is not asked again).
OverlapsQueue ==
    \A r, s \in Runs : Collide(r, s) /\ InFlight(r) /\ InFlight(s) => {r, s} \cap revived # {}

\* A worker whose run is waited for may wait for a person.
ForHuman == \E r \in Runs : ledger[r] \in {"parked", "awaiting_input"}

\* Waiting runs never wait on each other: each one is taken in time, or a run
\* is held for a person.
WaitersMove ==
    \A r \in Runs : ledger[r] = "queued" ~> (ledger[r] # "queued" \/ r \in inFlight \/ ForHuman)
=============================================================================
