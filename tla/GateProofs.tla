----------------------------- MODULE GateProofs -----------------------------
(***************************************************************************)
(* Proofs about Gate.tla, for any number of waiters and openers: nobody is *)
(* forgotten in the list of an open gate, nobody is woken twice, and       *)
(* nobody passes a gate that is not open.                                  *)
(***************************************************************************)
EXTENDS Gate, FiniteSetTheorems, TLAPS

Coros == Waiters \cup Openers

Places == {"new", "begin", "suspend", "waiting", "resume", "release", "ended"}

\* What the variables hold, as far as the proofs need it.
Shape ==
    /\ m_waiters \in Seq(Waiters)
    /\ m_count \in Int
    /\ at \in [Coros -> Places]

\* Only suspended coroutines are in the list.
ListedWait == \A p \in Range(m_waiters) : at[p] = "waiting"

\* Nobody has begun to wait while the client still calls add().
Setup == Started \/ (m_waiters = <<>> /\ \A p \in Waiters : at[p] = "begin")

\* The inductive invariant. ListedWait keeps Wake from touching a coroutine that
\* has passed; Setup keeps add() from opening the gate over somebody's head.
Inv == Shape /\ ListedWait /\ Setup /\ WaitersCovered

\* What Append does to the coroutines in a list.
LEMMA AppendRange ==
    ASSUME NEW S, NEW q \in Seq(S), NEW x \in S
    PROVE  /\ Append(q, x) \in Seq(S)
           /\ \A y \in Range(Append(q, x)) : y \in Range(q) \/ y = x
<1>1. /\ Append(q, x) \in Seq(S)
      /\ DOMAIN q = 1 .. Len(q) /\ DOMAIN Append(q, x) = 1 .. Len(q) + 1
      /\ \A i \in 1 .. Len(q) : Append(q, x)[i] = q[i]
      /\ Append(q, x)[Len(q) + 1] = x /\ Len(q) \in Nat
  OBVIOUS
<1> QED BY <1>1 DEF Range

\* The empty list has nobody in it, and a list with somebody is not empty.
LEMMA EmptyRange == Range(<<>>) = {}
BY DEF Range

\* The list holds waiters.
LEMMA ListRange == m_waiters \in Seq(Waiters) => Range(m_waiters) \subseteq Waiters
BY DEF Range

\* A coroutine outside the list moves on.
LEMMA MoveKeeps ==
    ASSUME Inv, NEW p \in Coros, NEW to \in Places \ {"new"},
           at[p] # "waiting", at' = [at EXCEPT ![p] = to],
           m_waiters' = m_waiters, m_count' \in Int,
           p \in Waiters => Started
    PROVE  Shape' /\ ListedWait' /\ Setup'
<1>1. Range(m_waiters) \subseteq Waiters
  BY ListRange, Zenon DEF Inv, Shape
<1>2. Shape'
  BY Zenon DEF Inv, Shape
<1>3. ListedWait'
  BY <1>1, Zenon DEF Inv, Shape, ListedWait, Coros
<1>4. Setup'
  <2>1. CASE Started
    BY <2>1, Zenon DEF Inv, Shape, Setup, Started, Coros
  <2>2. CASE ~Started
    BY <2>2, Zenon DEF Inv, Shape, Setup, Coros
  <2> QED BY <2>1, <2>2, Zenon
<1> QED BY <1>2, <1>3, <1>4, Zenon

\* Initially nobody waits.
LEMMA InvInit == Init => Inv
<1> SUFFICES ASSUME Init PROVE Inv
  BY Zenon
<1>1. m_waiters = <<>>
  BY Zenon DEF Init
<1>2. Cardinality(Openers) \in Nat
  BY GateAssumption, FS_CardinalityType, Zenon
<1>3. Shape
  BY <1>1, <1>2 DEF Init, Shape, Coros, Places
<1>4. Setup
  BY <1>1, GateAssumption, Zenon DEF Init, Setup, Started
<1> QED BY <1>1, <1>3, <1>4, EmptyRange, Zenon DEF Inv, ListedWait, WaitersCovered

\* Joining the list after the second test: the gate is closed.
LEMMA SuspendKeeps ==
    ASSUME Inv, NEW p \in Waiters, await_suspend(p)
    PROVE  Inv'
<1>1. CASE Open
  <2>1. /\ at[p] = "suspend" /\ at' = [at EXCEPT ![p] = "resume"]
        /\ UNCHANGED <<kind, m_count, m_is_set, m_waiters>>
    BY <1>1, Zenon DEF await_suspend, Move
  <2>0. Started /\ m_count' \in Int /\ p \in Coros
    BY <2>1, Zenon DEF Inv, Setup, Shape, Coros
  <2>2. Shape' /\ ListedWait' /\ Setup'
    BY <2>0, <2>1, MoveKeeps, Zenon DEF Places
  <2>3. WaitersCovered'
    BY <2>1, GateAssumption, Zenon
       DEF Inv, Shape, WaitersCovered, Coros, Open, LatchOpen, WaitGroupOpen, EventOpen,
           ValueOpen
  <2> QED BY <2>2, <2>3, Zenon DEF Inv
<1>2. CASE ~Open
  <2>1. /\ at[p] = "suspend" /\ at' = [at EXCEPT ![p] = "waiting"]
        /\ m_waiters' = Append(m_waiters, p)
        /\ UNCHANGED <<kind, m_count, m_is_set>>
    BY <1>2, Zenon DEF await_suspend, Move
  <2>2. m_waiters' \in Seq(Waiters) /\ \A y \in Range(m_waiters') : y \in Range(m_waiters) \/ y = p
    BY <2>1, AppendRange, Zenon DEF Inv, Shape
  <2>3. Started
    BY <2>1, Zenon DEF Inv, Setup
  <2>4. Shape' /\ Setup'
    BY <2>1, <2>2, <2>3, Zenon DEF Inv, Shape, Setup, Started, Coros, Places
  <2>5. ListedWait'
    BY <2>1, <2>2, ListRange, Zenon DEF Inv, Shape, ListedWait, Coros
  <2>6. ~Open'
    BY <1>2, <2>1, Zenon DEF Open, LatchOpen, WaitGroupOpen, EventOpen, ValueOpen
  <2> QED BY <2>4, <2>5, <2>6, Zenon DEF Inv, WaitersCovered
<1> QED BY <1>1, <1>2, Zenon

\* Waking empties the list.
LEMMA WakeKeeps ==
    ASSUME Inv, NEW d \in Openers, Wake(d), m_count' \in Int
    PROVE  Inv'
<1>1. m_waiters' = <<>>
  BY Zenon DEF Wake
<1>2. Shape'
  BY <1>1 DEF Inv, Shape, Wake, Coros, Places
<1>3. Setup'
  <2>1. CASE Started
    BY <2>1, Zenon DEF Inv, Shape, Setup, Started, Wake, Coros
  <2>2. CASE ~Started
    BY <2>2, <1>1, EmptyRange, GateAssumption, Zenon DEF Inv, Shape, Setup, Wake, Coros
  <2> QED BY <2>1, <2>2, Zenon
<1> QED BY <1>1, <1>2, <1>3, EmptyRange, Zenon DEF Inv, ListedWait, WaitersCovered

\* Whoever brings the counter to zero takes on the duty to wake the waiters.
LEMMA DecrementKeeps ==
    ASSUME Inv, NEW d \in Openers, Decrement(d), kind \in {"latch", "wait_group"}
    PROVE  Inv'
<1>1. /\ at[d] = "begin" /\ m_count' = m_count - 1
      /\ at' = [at EXCEPT ![d] = IF m_count = 1 THEN "release" ELSE "ended"]
      /\ UNCHANGED <<kind, m_is_set, m_waiters>>
  BY Zenon DEF Decrement, Move
<1>2. Shape' /\ ListedWait' /\ Setup'
  <2>1. /\ d \in Coros /\ Started /\ m_count' \in Int
        /\ (IF m_count = 1 THEN "release" ELSE "ended") \in Places \ {"new"}
    BY <1>1 DEF Inv, Shape, Decrement, Coros, Places
  <2> QED BY <1>1, <2>1, MoveKeeps, Zenon
<1>3. WaitersCovered'
  <2> SUFFICES ASSUME Open', m_waiters' # <<>> PROVE at'[d] = "release"
    BY Zenon DEF WaitersCovered
  <2>1. m_count' = 0
    BY <1>1, Zenon DEF Open, LatchOpen, WaitGroupOpen, EventOpen, ValueOpen
  <2> QED BY <1>1, <2>1 DEF Inv, Shape, Coros
<1> QED BY <1>2, <1>3, Zenon DEF Inv

\* add() comes before anybody waits.
LEMMA AddKeeps ==
    ASSUME Inv, NEW d \in Openers, add(d)
    PROVE  Inv'
<1>1. /\ at[d] = "new" /\ at' = [at EXCEPT ![d] = "begin"]
      /\ m_count' = m_count + 1
      /\ UNCHANGED m_waiters
  BY Zenon DEF add, Move
<1>2. m_waiters = <<>> /\ \A p \in Waiters : at[p] = "begin"
  BY <1>1, Zenon DEF Inv, Setup, Started
<1>3. Shape'
  BY <1>1 DEF Inv, Shape, Coros, Places
<1>4. Setup'
  BY <1>1, <1>2, GateAssumption, Zenon DEF Inv, Shape, Setup, Coros
<1> QED BY <1>1, <1>2, <1>3, <1>4, EmptyRange, Zenon DEF Inv, ListedWait, WaitersCovered

\* A step of a waiter that leaves the list and the gate alone.
LEMMA PassingKeeps ==
    ASSUME Inv, NEW p \in Waiters, await_ready(p) \/ await_resume(p)
    PROVE  Inv'
<1>1. /\ at[p] \in {"begin", "resume"}
      /\ \E to \in {"resume", "suspend", "ended"} : at' = [at EXCEPT ![p] = to]
      /\ UNCHANGED <<kind, m_count, m_is_set, m_waiters>>
  BY Zenon DEF await_ready, await_resume, Move
<1>2. Started
  BY Zenon DEF await_ready, await_resume, Move, Inv, Setup
<1>3. Shape' /\ ListedWait' /\ Setup'
  <2>1. p \in Coros /\ m_count' \in Int /\ {"resume", "suspend", "ended"} \subseteq Places \ {"new"}
    BY <1>1, Zenon DEF Inv, Shape, Coros, Places
  <2> QED BY <1>1, <1>2, <2>1, MoveKeeps, Zenon
<1>5. WaitersCovered'
  BY <1>1, GateAssumption, Zenon
     DEF Inv, Shape, WaitersCovered, Coros, Open, LatchOpen, WaitGroupOpen, EventOpen, ValueOpen
<1> QED BY <1>3, <1>5, Zenon DEF Inv

\* Every step keeps the invariant.
LEMMA InvStep == Inv /\ [Next]_vars => Inv'
<1> SUFFICES ASSUME Inv, [Next]_vars PROVE Inv'
  BY Zenon
<1>1. ASSUME NEW p \in Waiters, Wait(p) PROVE Inv'
  BY <1>1, PassingKeeps, SuspendKeeps, Zenon DEF Wait
<1>2. ASSUME NEW d \in Openers, Decrement(d), kind \in {"latch", "wait_group"} PROVE Inv'
  BY <1>2, DecrementKeeps, Zenon
<1>3. ASSUME NEW d \in Openers, Release(d) \/ set(d) \/ set_value(d) PROVE Inv'
  <2>1. Wake(d) /\ m_count' = m_count
    BY <1>3, Zenon DEF Release, set, set_value
  <2>2. m_count' \in Int
    BY <2>1, Zenon DEF Inv, Shape
  <2> QED BY <2>1, <2>2, WakeKeeps, Zenon
<1>4. ASSUME NEW d \in Openers, add(d) PROVE Inv'
  BY <1>4, AddKeeps, Zenon
<1>5. CASE UNCHANGED vars
  BY <1>5, Zenon
     DEF vars, Inv, Shape, ListedWait, Setup, Started, WaitersCovered, Open, LatchOpen,
         WaitGroupOpen, EventOpen, ValueOpen
<1> QED BY <1>1, <1>2, <1>3, <1>4, <1>5, Zenon DEF Next, Opener, count_down, done, Over

\* Nobody waits at an open gate without being about to be woken, whatever the
\* interleaving of wait(), count_down(), done() and set().
THEOREM WaitersCoveredCorrect == Spec => []WaitersCovered
<1>1. Inv => WaitersCovered
  BY Zenon DEF Inv
<1> QED BY <1>1, InvInit, InvStep, PTL DEF Spec

\* A coroutine that has passed the gate is never submitted again, even when an
\* event is set several times.
THEOREM WokenOnceCorrect == Spec => WokenOnce
<1>1. Inv /\ [Next]_vars => [\A p \in Waiters : at[p] = "ended" => at'[p] = "ended"]_vars
  <2> SUFFICES ASSUME Inv, Next, NEW p \in Waiters, at[p] = "ended" PROVE at'[p] = "ended"
    BY Zenon
  <2>1. p \in Coros /\ p \notin Openers /\ p \notin Range(m_waiters)
    BY GateAssumption, Zenon DEF Inv, ListedWait, Coros
  <2>2. ASSUME NEW q \in Waiters, Wait(q) PROVE at'[p] = "ended"
    BY <2>1, <2>2, Zenon DEF Wait, await_ready, await_suspend, await_resume, Move, Inv, Shape
  <2>3. ASSUME NEW d \in Openers, Decrement(d) \/ add(d) PROVE at'[p] = "ended"
    BY <2>1, <2>3, Zenon DEF Decrement, add, Move, Inv, Shape
  <2>4. ASSUME NEW d \in Openers, Wake(d) PROVE at'[p] = "ended"
    BY <2>1, <2>4, Zenon DEF Wake, Inv, Shape
  <2>5. CASE Over
    BY <2>5, Zenon DEF Over, vars
  <2> QED BY <2>2, <2>3, <2>4, <2>5, Zenon
          DEF Next, Opener, count_down, done, set, set_value, Release
<1> QED BY <1>1, InvInit, InvStep, PTL DEF Spec, WokenOnce
-----------------------------------------------------------------------------
(* Nobody passes early.                                                    *)

Counter == kind \in {"latch", "wait_group"}

\* The openers that still have to count down.
Pending == {d \in Openers : at[d] = "begin"}

\* The counter is exact: it is the number of openers that have yet to count down.
CountExact == Counter => m_count = Cardinality(Pending)

\* The event that lets waiters through has happened, for good.
Opened == IF Counter THEN \A d \in Openers : at[d] \in {"release", "ended"} ELSE m_is_set

\* An opener that is about to wake the waiters brought the counter to zero.
ReleaseOpened == \A d \in Openers : at[d] = "release" => Counter /\ Opened

\* Whoever has passed, or has been told to, did so at an open gate.
PassedOpened == \A p \in Waiters : at[p] \in {"resume", "ended"} => Opened

\* The flag of an event is set together with its value, by an opener that is done.
SetByOpener ==
    /\ m_value \in Openers \cup {Unset}
    /\ m_is_set => \E d \in Openers : at[d] = "ended"
    /\ m_is_set /\ kind = "event_value" => m_value \in Openers

\* Nobody has got the value an event was created with.
ValuesGot ==
    /\ got \in [Waiters -> Openers \cup {Unset}]
    /\ kind = "event_value" => \A p \in Waiters : at[p] = "ended" => got[p] \in Openers

OpenersPlaced == \A d \in Openers : at[d] \in {"new", "begin", "release", "ended"}

\* The strengthening: CountExact makes "the counter is zero" mean that every opener
\* has counted down, the rest carries that to the moment a waiter passes.
Early == CountExact /\ OpenersPlaced /\ ReleaseOpened /\ PassedOpened /\ SetByOpener /\ ValuesGot

\* An open gate has been opened: at zero nobody is left who has to count down.
LEMMA OpenOpened ==
    ASSUME Inv, Early, Started, Open
    PROVE  Opened
<1>1. CASE Counter
  <2>1. m_count = 0
    BY <1>1, Zenon DEF Open, LatchOpen, WaitGroupOpen, EventOpen, ValueOpen, Counter
  <2>2. IsFiniteSet(Pending) /\ Cardinality(Pending) = 0
    BY <1>1, <2>1, GateAssumption, FS_Subset, Zenon DEF Early, CountExact, Pending
  <2>3. Pending = {}
    BY <2>2, FS_EmptySet, Zenon
  <2> QED BY <1>1, <2>3, Zenon DEF Opened, Pending, Started, Early, OpenersPlaced
<1>2. CASE ~Counter
  BY <1>2, Zenon DEF Opened, Open, LatchOpen, WaitGroupOpen, EventOpen, ValueOpen, Counter
<1> QED BY <1>1, <1>2, Zenon

\* A waiter that moves leaves the openers, and so the whole gate, alone.
LEMMA WaiterKeeps ==
    ASSUME Inv, Early, NEW p \in Waiters, NEW to \in Places,
           at' = [at EXCEPT ![p] = to], to \in {"resume", "ended"} => Opened,
           UNCHANGED <<kind, m_count, m_is_set, m_value>>
    PROVE  /\ CountExact' /\ OpenersPlaced' /\ ReleaseOpened' /\ PassedOpened' /\ SetByOpener'
           /\ Opened' = Opened
<1>1. \A d \in Openers : at'[d] = at[d]
  BY GateAssumption, Zenon DEF Inv, Shape, Coros
<1>2. Counter' = Counter /\ Pending' = Pending /\ Opened' = Opened
  BY <1>1, Zenon DEF Counter, Pending, Opened
<1>3. PassedOpened'
  BY <1>2, Zenon DEF Early, PassedOpened, Inv, Shape, Coros
<1> QED
  BY <1>1, <1>2, <1>3, Zenon DEF Early, CountExact, OpenersPlaced, ReleaseOpened, SetByOpener

\* Steps of a waiter.
LEMMA WaitEarly ==
    ASSUME Inv, Early, NEW p \in Waiters, Wait(p)
    PROVE  Early'
<1>1. CASE await_ready(p)
  <2>1. Started /\ at' = [at EXCEPT ![p] = IF Open THEN "resume" ELSE "suspend"]
    BY <1>1, Zenon DEF await_ready, Move
  <2>2. Open => Opened
    BY <2>1, OpenOpened, Zenon
  <2>3. PICK to \in {"resume", "suspend"} :
            at' = [at EXCEPT ![p] = to] /\ (to = "resume" => Opened)
    BY <2>1, <2>2, Zenon
  <2>4. /\ CountExact' /\ OpenersPlaced' /\ ReleaseOpened' /\ PassedOpened' /\ SetByOpener'
    <3>1. UNCHANGED <<kind, m_count, m_is_set, m_value>> /\ to \in Places /\ to # "ended"
      BY <1>1, <2>3, Zenon DEF await_ready, Places
    <3> QED BY <2>3, <3>1, WaiterKeeps, Zenon
  <2>5. ValuesGot'
    BY <1>1, <2>3, Zenon DEF await_ready, Early, ValuesGot, Inv, Shape, Coros
  <2> QED BY <2>4, <2>5, Zenon DEF Early
<1>2. CASE await_suspend(p)
  <2>1. at[p] = "suspend" /\ UNCHANGED <<kind, m_count, m_is_set, m_value, got>>
    BY <1>2, Zenon DEF await_suspend, Move
  <2>2. Started
    BY <2>1, Zenon DEF Inv, Setup
  <2>3. PICK to \in {"resume", "waiting"} :
            at' = [at EXCEPT ![p] = to] /\ (to = "resume" => Opened)
    BY <1>2, <2>2, OpenOpened, Zenon DEF await_suspend, Move
  <2>4. /\ CountExact' /\ OpenersPlaced' /\ ReleaseOpened' /\ PassedOpened' /\ SetByOpener'
    <3>1. to \in Places /\ to # "ended"
      BY <2>3, Zenon DEF Places
    <3> QED BY <2>1, <2>3, <3>1, WaiterKeeps, Zenon
  <2>5. ValuesGot'
    BY <2>1, <2>3, Zenon DEF Early, ValuesGot, Inv, Shape, Coros
  <2> QED BY <2>4, <2>5, Zenon DEF Early
<1>3. CASE await_resume(p)
  <2>1. /\ at[p] = "resume" /\ at' = [at EXCEPT ![p] = "ended"]
        /\ UNCHANGED <<kind, m_count, m_is_set, m_value>> /\ got' = [got EXCEPT ![p] = m_value]
    BY <1>3, Zenon DEF await_resume, Move
  <2>2. Opened
    BY <2>1, Zenon DEF Early, PassedOpened
  <2>3. /\ CountExact' /\ OpenersPlaced' /\ ReleaseOpened' /\ PassedOpened' /\ SetByOpener'
    BY <2>1, <2>2, WaiterKeeps, Zenon DEF Places
  <2>4. ValuesGot'
    <3>1. got' \in [Waiters -> Openers \cup {Unset}]
      BY <2>1, Zenon DEF Early, ValuesGot, SetByOpener
    <3>2. kind = "event_value" => m_value \in Openers
      BY <2>2, Zenon DEF Opened, Counter, Early, SetByOpener
    <3> QED BY <2>1, <3>1, <3>2, Zenon DEF Early, ValuesGot, Inv, Shape, Coros
  <2> QED BY <2>3, <2>4, Zenon DEF Early
<1> QED BY <1>1, <1>2, <1>3, Zenon DEF Wait

\* The decrement removes the opener from the pending ones; at zero it was the last.
LEMMA DecrementEarlyKeeps ==
    ASSUME Inv, Early, NEW d \in Openers, Decrement(d), Counter
    PROVE  Early'
<1>1. /\ at[d] = "begin" /\ m_count' = m_count - 1 /\ Started
      /\ at' = [at EXCEPT ![d] = IF m_count = 1 THEN "release" ELSE "ended"]
      /\ UNCHANGED <<kind, m_is_set, m_value, got>>
  BY Zenon DEF Decrement, Move
<1>2. /\ Counter' /\ d \in Coros
      /\ \A p \in Waiters : at'[p] = at[p]
      /\ \A e \in Openers \ {d} : at'[e] = at[e]
      /\ at'[d] = IF m_count = 1 THEN "release" ELSE "ended"
  BY <1>1, GateAssumption, Zenon DEF Counter, Inv, Shape, Coros
<1>3. /\ IsFiniteSet(Pending) /\ d \in Pending /\ Pending' = Pending \ {d}
  BY <1>1, <1>2, GateAssumption, FS_Subset DEF Pending
<1>4. /\ Cardinality(Pending') = Cardinality(Pending) - 1 /\ IsFiniteSet(Pending')
  BY <1>3, FS_RemoveElement, Zenon
<1>5. CountExact'
  BY <1>1, <1>4, Zenon DEF Early, CountExact
<1>6. OpenersPlaced'
  BY <1>2, Zenon DEF Early, OpenersPlaced
<1>7. ~Opened
  BY <1>1, Zenon DEF Opened
<1>8. PassedOpened'
  BY <1>2, <1>7, Zenon DEF Early, PassedOpened
<1>9. ReleaseOpened'
  <2>1. \A e \in Openers : at[e] # "release"
    BY <1>7, Zenon DEF Early, ReleaseOpened
  <2>2. CASE m_count = 1
    <3>1. Cardinality(Pending') = 0
      BY <1>1, <1>5, <1>2, <2>2 DEF CountExact
    <3>2. Pending' = {}
      BY <1>4, <3>1, FS_EmptySet, Zenon
    <3>3. \A e \in Openers : at'[e] # "new"
      BY <1>1, <1>2 DEF Started
    <3> QED BY <1>2, <1>6, <3>2, <3>3, Zenon DEF ReleaseOpened, Opened, Pending, OpenersPlaced
  <2>3. CASE m_count # 1
    BY <1>2, <2>1, <2>3, Zenon DEF ReleaseOpened
  <2> QED BY <2>2, <2>3, Zenon
<1>10. SetByOpener'
  BY <1>1, <1>2, Zenon DEF Early, SetByOpener
<1>11. ValuesGot'
  BY <1>1, <1>2, Zenon DEF Early, ValuesGot
<1> QED BY <1>5, <1>6, <1>8, <1>9, <1>10, <1>11, Zenon DEF Early

\* Waking happens at a gate that has been opened.
LEMMA WakeEarly ==
    ASSUME Inv, Early, NEW d \in Openers, Release(d) \/ set(d) \/ set_value(d)
    PROVE  Early'
<1>1. /\ Wake(d) /\ UNCHANGED <<kind, m_count, got>>
      /\ \/ at[d] = "release" /\ UNCHANGED <<m_is_set, m_value>>
         \/ m_is_set' = TRUE /\ m_value' \in {m_value, d} /\ kind \in {"event", "event_value"}
            /\ (kind = "event_value" => m_value' = d)
  BY Zenon DEF Release, set, set_value
<1>2. /\ Counter' = Counter /\ Range(m_waiters) \subseteq Waiters
      /\ at'[d] = "ended"
      /\ \A e \in Openers \ {d} : at'[e] = at[e]
      /\ \A p \in Waiters : at'[p] # at[p] => at'[p] = "resume"
  <2>1. Range(m_waiters) \subseteq Waiters
    BY ListRange, Zenon DEF Inv, Shape
  <2> QED BY <1>1, <2>1, GateAssumption, Zenon DEF Counter, Wake, Inv, Shape, Coros
<1>3. Opened'
  BY <1>1, <1>2, Zenon DEF Opened, Counter, Early, ReleaseOpened
<1>4. CountExact'
  <2>1. CASE Counter
    <3>1. Pending' = Pending
      BY <1>1, <1>2, <2>1, Zenon DEF Pending, Counter
    <3> QED BY <1>1, <1>2, <3>1, Zenon DEF Early, CountExact
  <2>2. CASE ~Counter
    BY <1>2, <2>2, Zenon DEF CountExact
  <2> QED BY <2>1, <2>2, Zenon
<1>5. OpenersPlaced' /\ PassedOpened'
  BY <1>2, <1>3, Zenon DEF Early, OpenersPlaced, PassedOpened
<1>6. ReleaseOpened'
  BY <1>2, <1>3, Zenon DEF Early, ReleaseOpened
<1>7. SetByOpener'
  BY <1>1, <1>2 DEF Early, SetByOpener
<1>8. ValuesGot'
  BY <1>1, <1>2, Zenon DEF Early, ValuesGot
<1> QED BY <1>4, <1>5, <1>6, <1>7, <1>8, Zenon DEF Early

\* add() raises the counter for an opener that becomes pending.
LEMMA AddEarly ==
    ASSUME Inv, Early, NEW d \in Openers, add(d)
    PROVE  Early'
<1>1. /\ at[d] = "new" /\ at' = [at EXCEPT ![d] = "begin"]
      /\ m_count' = m_count + 1 /\ kind = "wait_group"
      /\ UNCHANGED <<kind, m_is_set, m_value, got>>
  BY Zenon DEF add, Move
<1>2. /\ Counter /\ Counter' /\ at'[d] = "begin"
      /\ \A p \in Waiters : at'[p] = at[p] /\ at[p] = "begin"
      /\ \A e \in Openers \ {d} : at'[e] = at[e]
  BY <1>1, GateAssumption, Zenon DEF Counter, Inv, Shape, Coros, Setup, Started
<1>3. /\ IsFiniteSet(Pending) /\ d \notin Pending /\ Pending' = Pending \cup {d}
  BY <1>1, <1>2, GateAssumption, FS_Subset, Zenon DEF Pending
<1>4. Cardinality(Pending') = Cardinality(Pending) + 1
  BY <1>3, FS_AddElement, Zenon
<1>5. CountExact'
  BY <1>1, <1>2, <1>4, Zenon DEF Early, CountExact
<1>6. \A e \in Openers : at[e] # "release"
  BY <1>1, <1>2, Zenon DEF Early, ReleaseOpened, Opened
<1>7. OpenersPlaced' /\ PassedOpened' /\ ReleaseOpened'
  BY <1>2, <1>6, Zenon DEF Early, OpenersPlaced, PassedOpened, ReleaseOpened
<1>8. SetByOpener'
  BY <1>1, <1>2, Zenon DEF Early, SetByOpener
<1>9. ValuesGot'
  BY <1>1, <1>2, Zenon DEF Early, ValuesGot
<1> QED BY <1>5, <1>7, <1>8, <1>9, Zenon DEF Early

\* Every step keeps the strengthening.
LEMMA EarlyStep == Inv /\ Early /\ [Next]_vars => Early'
<1> SUFFICES ASSUME Inv, Early, [Next]_vars PROVE Early'
  BY Zenon
<1>1. CASE UNCHANGED vars
  BY <1>1, Zenon
     DEF vars, Early, CountExact, OpenersPlaced, ReleaseOpened, PassedOpened, SetByOpener,
         ValuesGot, Counter, Pending, Opened
<1>2. ASSUME NEW d \in Openers, Decrement(d), kind \in {"latch", "wait_group"} PROVE Early'
  BY <1>2, DecrementEarlyKeeps, Zenon DEF Counter
<1> QED BY <1>1, <1>2, WaitEarly, WakeEarly, AddEarly, Zenon
           DEF Next, Opener, count_down, done, Over

\* Nobody passes a latch or a wait_group before the last count_down() or done(), nor
\* an event before a set(), nor with the value the event was created with.
THEOREM NobodyPassesEarlyCorrect == Spec => []NobodyPassesEarly
<1>1. Init => Early
  <2> SUFFICES ASSUME Init PROVE Early
    BY Zenon
  <2>1. CountExact
    <3>1. CASE kind = "latch"
      <4>1. Pending = Openers
        BY <3>1, Zenon DEF Init, Pending
      <4> QED BY <3>1, <4>1, Zenon DEF Init, CountExact
    <3>2. CASE kind = "wait_group"
      <4>1. Pending = {}
        BY <3>2, Zenon DEF Init, Pending
      <4> QED BY <3>2, <4>1, FS_EmptySet, Zenon DEF Init, CountExact
    <3> QED BY <3>1, <3>2, Zenon DEF CountExact, Counter
  <2>2. OpenersPlaced /\ ReleaseOpened /\ PassedOpened
    BY GateAssumption, Zenon DEF Init, OpenersPlaced, ReleaseOpened, PassedOpened
  <2>3. SetByOpener /\ ValuesGot
    BY Zenon DEF Init, SetByOpener, ValuesGot
  <2> QED BY <2>1, <2>2, <2>3, Zenon DEF Early
<1>2. Early => NobodyPassesEarly
  BY GateAssumption, Zenon
     DEF Early, NobodyPassesEarly, PassedOpened, Opened, Counter, SetByOpener, ValuesGot
<1> QED BY <1>1, <1>2, InvInit, InvStep, EarlyStep, PTL DEF Spec
=============================================================================
