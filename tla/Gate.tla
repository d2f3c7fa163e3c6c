-------------------------------- MODULE Gate --------------------------------
(***************************************************************************)
(* The three one-way primitives of include/coro/comp: latch, wait_group    *)
(* and event, the last with and without a value. Their awaiters follow one *)
(* protocol: test without the lock, and if the gate is closed test again   *)
(* under the spinlock and join the waiters. They differ in how the gate    *)
(* opens: a counter is decremented outside the lock and whoever brings it  *)
(* to zero then takes the lock to wake the waiters; an event is set inside *)
(* the lock.                                                               *)
(*                                                                         *)
(* The client is the one of the tests: as many coroutines open the gate as *)
(* the counter says, and add() precedes everything else. A critical        *)
(* section is one step. submit_to_scheduler makes a handle runnable.       *)
(***************************************************************************)
EXTENDS Integers, Sequences, Functions, FiniteSets

CONSTANTS Waiters,   \* coroutines that co_await wait()
          Openers,   \* coroutines that call count_down(), done() or set()
          Unset      \* what an event's m_value holds before the first set()

ASSUME GateAssumption ==
    /\ IsFiniteSet(Openers) /\ Openers # {}
    /\ Waiters \cap Openers = {}
    /\ Unset \notin Openers

Kinds == {"latch", "wait_group", "event", "event_value"}

VARIABLES kind,      \* which primitive this is
          m_count,
          m_is_set,
          m_value,   \* the value set, named by the opener that sets it
          m_waiters,
          at,
          got        \* [Waiters]: what wait() returned

vars == <<kind, m_count, m_is_set, m_value, m_waiters, at, got>>

\* Every variable has its type; the counter does not go below zero.
TypeOK ==
    /\ kind \in Kinds
    /\ m_count \in 0 .. Cardinality(Openers)
    /\ m_is_set \in BOOLEAN
    /\ m_value \in Openers \cup {Unset}
    /\ m_waiters \in Seq(Waiters)
    /\ at \in [Waiters \cup Openers ->
                  {"new", "begin", "suspend", "waiting", "resume", "release", "ended"}]
    /\ got \in [Waiters -> Openers \cup {Unset}]

\* A latch is constructed with its count, a wait_group with zero.
Init ==
    /\ kind \in Kinds
    /\ m_count = IF kind = "latch" THEN Cardinality(Openers) ELSE 0
    /\ m_is_set = FALSE
    /\ m_value = Unset
    /\ m_waiters = <<>>
    /\ at = [p \in Waiters \cup Openers |->
                IF kind = "wait_group" /\ p \in Openers THEN "new" ELSE "begin"]
    /\ got = [p \in Waiters |-> Unset]

Move(p, from, to) ==
    /\ at[p] = from
    /\ at' = [at EXCEPT ![p] = to]

-----------------------------------------------------------------------------
\* The test both await_ready and await_suspend make.
LatchOpen     == kind = "latch" /\ m_count = 0
WaitGroupOpen == kind = "wait_group" /\ m_count = 0
EventOpen     == kind = "event" /\ m_is_set
ValueOpen     == kind = "event_value" /\ m_is_set

Open == LatchOpen \/ WaitGroupOpen \/ EventOpen \/ ValueOpen

\* Scheduled coroutines start when the client has made its add() calls.
Started == \A d \in Openers : at[d] # "new"

await_ready(p) ==
    /\ Started
    /\ Move(p, "begin", IF Open THEN "resume" ELSE "suspend")
    /\ UNCHANGED <<kind, m_count, m_is_set, m_value, m_waiters, got>>

\* Mutant: the second test is missing.
await_suspendUntested(p) ==
    /\ Move(p, "suspend", "waiting")
    /\ m_waiters' = Append(m_waiters, p)
    /\ UNCHANGED <<kind, m_count, m_is_set, m_value, got>>

await_suspend(p) ==
    /\ \/ Open /\ Move(p, "suspend", "resume") /\ UNCHANGED m_waiters
       \/ ~Open /\ Move(p, "suspend", "waiting") /\ m_waiters' = Append(m_waiters, p)
    /\ UNCHANGED <<kind, m_count, m_is_set, m_value, got>>

\* An event with a value reads it here, outside the lock.
await_resume(p) ==
    /\ Move(p, "resume", "ended")
    /\ got' = [got EXCEPT ![p] = m_value]
    /\ UNCHANGED <<kind, m_count, m_is_set, m_value, m_waiters>>

-----------------------------------------------------------------------------
\* Mutant: the waiters stay in the list.
WakeKept(d) ==
    /\ at' = [p \in DOMAIN at |->
                 IF p = d THEN "ended"
                 ELSE IF p \in Range(m_waiters) THEN "resume" ELSE at[p]]
    /\ UNCHANGED m_waiters

\* Mutant: only the first waiter is submitted.
WakeFirst(d) ==
    /\ at' = [p \in DOMAIN at |->
                 IF p = d THEN "ended"
                 ELSE IF m_waiters # <<>> /\ p = m_waiters[1] THEN "resume" ELSE at[p]]
    /\ m_waiters' = <<>>

\* Opener d submits every waiter, clears the list and ends.
Wake(d) ==
    /\ at' = [p \in DOMAIN at |->
                 IF p = d THEN "ended"
                 ELSE IF p \in Range(m_waiters) THEN "resume" ELSE at[p]]
    /\ m_waiters' = <<>>

\* Mutant: the comparison with the previous value is off by one.
DecrementEarly(d) ==
    /\ Started
    /\ Move(d, "begin", IF m_count = 2 THEN "release" ELSE "ended")
    /\ m_count' = m_count - 1
    /\ UNCHANGED <<kind, m_is_set, m_value, m_waiters, got>>

\* The atomic decrement; the one that reaches zero has to wake the waiters.
Decrement(d) ==
    /\ Started
    /\ Move(d, "begin", IF m_count = 1 THEN "release" ELSE "ended")
    /\ m_count' = m_count - 1
    /\ UNCHANGED <<kind, m_is_set, m_value, m_waiters, got>>

Release(d) ==
    /\ at[d] = "release"
    /\ Wake(d)
    /\ UNCHANGED <<kind, m_count, m_is_set, m_value, got>>

count_down(d) == kind = "latch" /\ (Decrement(d) \/ Release(d))

done(d) == kind = "wait_group" /\ (Decrement(d) \/ Release(d))

\* add(1), before opener d is submitted.
add(d) ==
    /\ kind = "wait_group"
    /\ Move(d, "new", "begin")
    /\ m_count' = m_count + 1
    /\ UNCHANGED <<kind, m_is_set, m_value, m_waiters, got>>

set(d) ==
    /\ kind = "event" /\ at[d] = "begin"
    /\ m_is_set' = TRUE
    /\ Wake(d)
    /\ UNCHANGED <<kind, m_count, m_value, got>>

set_value(d) ==
    /\ kind = "event_value" /\ at[d] = "begin"
    /\ m_value' = d
    /\ m_is_set' = TRUE
    /\ Wake(d)
    /\ UNCHANGED <<kind, m_count, got>>

Wait(p) == await_ready(p) \/ await_suspend(p) \/ await_resume(p)

Opener(d) == add(d) \/ count_down(d) \/ done(d) \/ set(d) \/ set_value(d)

Over == (\A p \in Waiters \cup Openers : at[p] = "ended") /\ UNCHANGED vars

Next ==
    \/ \E p \in Waiters : Wait(p)
    \/ \E d \in Openers : Opener(d)
    \/ Over

Spec == Init /\ [][Next]_vars

\* The runtime runs every coroutine that can run.
FairSpec ==
    /\ Spec
    /\ \A p \in Waiters : WF_vars(Wait(p))
    /\ \A d \in Openers : WF_vars(Opener(d))

-----------------------------------------------------------------------------
(* Properties.                                                             *)

\* A waiter in the list of an open gate is about to be woken: the decrement to
\* zero and the wake-up are two steps, and whoever joins the waiters in between
\* would be forgotten without the second test in await_suspend.
WaitersCovered ==
    Open /\ m_waiters # <<>> => \E d \in Openers : at[d] = "release"

\* Nobody passes a counter before every opener has counted down, or an event
\* before some opener has set it, nor with the value
\* the event was created with.
NobodyPassesEarly ==
    /\ (\E p \in Waiters : at[p] \in {"resume", "ended"}) =>
          IF kind \in {"latch", "wait_group"}
          THEN \A d \in Openers : at[d] \in {"release", "ended"}
          ELSE \E d \in Openers : at[d] = "ended"
    /\ kind = "event_value" => \A p \in Waiters : at[p] = "ended" => got[p] # Unset

\* A coroutine is woken at most once, however often the event is set.
WokenOnce == [][\A p \in Waiters : at[p] = "ended" => at'[p] = "ended"]_vars

\* Once the openers have run everybody passes.
EverybodyPasses == <>(\A p \in Waiters : at[p] = "ended")
=============================================================================
