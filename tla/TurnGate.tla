------------------------------ MODULE TurnGate ------------------------------
(***************************************************************************)
(* The counting semaphore that meters model turns over all sessions         *)
(* (concierge/turn-gate.ts), as pump() uses it: one acquire and one release *)
(* a turn.  A slot that is released goes straight to the first waiter.  The *)
(* array of waiters is split in two, as a person's turn is spliced in       *)
(* before the first waiter that is not one, and any other is pushed.        *)
(***************************************************************************)
EXTENDS Naturals, Sequences, FiniteSets

CONSTANTS
    Turns,      \* the sessions: one has at most one turn at the gate
    People,     \* those whose turns are a person's: priority
    Limit       \* max_concurrent_turns

ASSUME GateAssumption ==
    /\ IsFiniteSet(Turns) /\ People \subseteq Turns
    /\ Limit \in Nat \ {0}

VARIABLES
    active,     \* the gate's count
    first, rest,  \* the waiters: people's turns, then all others
    holding     \* turns that have their release function

gvars == <<active, first, rest, holding>>

Waiters == first \o rest

GateTypeOK ==
    /\ active \in 0..Limit
    /\ first \in Seq(People) /\ rest \in Seq(Turns \ People)
    /\ holding \in SUBSET Turns

GateInit == active = 0 /\ first = <<>> /\ rest = <<>> /\ holding = {}

\* Has neither a slot nor asked for one
Outside(t) ==
    /\ t \notin holding
    /\ \A i \in 1..Len(first) : first[i] # t
    /\ \A i \in 1..Len(rest) : rest[i] # t

\* Mutant: a person goes before everyone who waits.
JumpAll(t) == <<t>> \o first
Jump(t) == Append(first, t)

Acquire(t) ==
    /\ Outside(t)
    /\ IF active < Limit
       THEN /\ active' = active + 1 /\ holding' = holding \cup {t}
            /\ UNCHANGED <<first, rest>>
       ELSE /\ IF t \in People THEN first' = Jump(t) /\ UNCHANGED rest
                               ELSE rest' = Append(rest, t) /\ UNCHANGED first
            /\ UNCHANGED <<active, holding>>

\* Mutant: the slot is freed as well as handed on.
HandedAndFreed(t) == active - 1
Handed(t) == active

\* Once a turn: a second call returns at once.
Release(t) ==
    /\ t \in holding
    /\ IF Waiters = <<>>
       THEN /\ active' = active - 1 /\ holding' = holding \ {t}
            /\ UNCHANGED <<first, rest>>
       ELSE /\ active' = Handed(t)
            /\ holding' = (holding \ {t}) \cup {Head(Waiters)}
            /\ IF first # <<>> THEN first' = Tail(first) /\ UNCHANGED rest
                               ELSE rest' = Tail(rest) /\ UNCHANGED first

Releases == \E t \in Turns : Release(t)

GateNext == Releases \/ \E t \in Turns : Acquire(t)

\* Some turn ends, as long as one holds a slot: the session's deadlines see to it.
GateSpec == GateInit /\ [][GateNext]_gvars /\ WF_gvars(Releases)

-----------------------------------------------------------------------------
(* Properties *)

\* turn-gate.ts:9-11: the count is that of the turns which hold a slot, it never overshoots the
\* limit, and nobody waits while a slot is free.
SlotsAccounted ==
    /\ active = Cardinality(holding) /\ active <= Limit
    /\ Waiters # <<>> => active = Limit

\* turn-gate.ts:12: a person waits only for turns that hold a slot and for earlier people, so
\* not for ever, however many other turns come.
Served(t) == (\E i \in 1..Len(first) : first[i] = t) ~> t \in holding

\* turn-gate.ts:9-12: a burst of acquires can not "starve a waiter"; TLC refutes it for a turn that
\* is nobody's, while people keep coming.
EverybodyServed == \A t \in Turns : t \notin holding /\ ~Outside(t) ~> t \in holding

=============================================================================
