---------------------- MODULE ConditionVariableProofs -----------------------
(***************************************************************************)
(* Proofs about ConditionVariable.tla: for any number of coroutines,       *)
(* workers, rounds and places in the queue, with notify_one as with        *)
(* notify_all, no wait, notify or hand-over of the mutex loses or doubles  *)
(* a coroutine handle, the mutex excludes, and the bounded queue of the    *)
(* producers and consumers stays within its bounds.                        *)
(***************************************************************************)
EXTENDS ConditionVariable, Items, FiniteSetTheorems

PCs == {"lock", "suspend", "wait", "wait_unlock", "wait_push", "work", "move_items", "notify",
        "notifying", "unlock", "ended"}

\* A notify never looks at more waiters than there are.
TypeOK ==
    /\ queue \in [Workers -> Seq(Coros)]
    /\ cur \in [Workers -> Coros \cup {None}]
    /\ at \in [Coros -> PCs]
    /\ m_locked \in BOOLEAN
    /\ m_waiters \in Seq(Coros)
    /\ waiters \in [Cvs -> Seq(Coros)]
    /\ cnt \in [Cvs -> Nat]
    /\ \A v \in Cvs : cnt[v] <= Len(waiters[v])

\* Where a handle can be: run by a worker, in a worker's queue, in the wait list of the
\* mutex or in that of a condition variable.
Kinds == {"held", "queue", "lock", "cond"}

Spots == Workers \cup {None} \cup Cvs

In(p, k, w) ==
    CASE k = "held"  -> w \in Workers /\ cur[w] = p
      [] k = "queue" -> w \in Workers /\ p \in Items(queue[w], 0)
      [] k = "lock"  -> w = None /\ p \in Items(m_waiters, 0)
      [] k = "cond"  -> w \in Cvs /\ p \in Items(waiters[w], 0)

Only(p, k, w) == \A l \in Kinds, v \in Spots : In(p, l, v) <=> l = k /\ v = w

\* It waits for a condition.
Waits(p) == \E v \in Cvs : p \in Items(waiters[v], 0)

Nowhere(p) == \A l \in Kinds, v \in Spots : ~In(p, l, v)

\* A coroutine that has not ended is in one place, ...
Located ==
    \A p \in Coros :
        IF at[p] = "ended" THEN Nowhere(p)
        ELSE \E k \in Kinds, w \in Spots : Only(p, k, w)

\* ... and there once.
NoCopies ==
    /\ \A w \in Workers : NoRepeat(queue[w], 0)
    /\ NoRepeat(m_waiters, 0)
    /\ \A v \in Cvs : NoRepeat(waiters[v], 0)

\* Whoever is in a wait list goes on with the lock held, after lock() or wait().
ListsOK ==
    /\ \A p \in Items(m_waiters, 0) : at[p] \in {"wait", "work"}
    /\ \A p \in Coros : Waits(p) => at[p] = "work"

\* The coroutine the lock belongs to.
Holding == {"wait", "wait_unlock", "work", "move_items", "notify", "notifying", "unlock"}

Owns(p) == at[p] \in Holding /\ p \notin Items(m_waiters, 0) /\ ~Waits(p)

LockInv ==
    /\ \A p, q \in Coros : Owns(p) /\ Owns(q) => p = q
    /\ m_locked <=> \E p \in Coros : Owns(p)
    /\ m_waiters # <<>> => m_locked

\* What a producer or a consumer has counted still fits when it moves the items.
QueueInv ==
    /\ que \in 0 .. Capacity
    /\ left \in [Coros -> Int] /\ loop_cnt \in [Coros -> Int]
    /\ client = "turns" => producers = {}
    /\ \A p \in Coros : p \in producers => 0 <= left[p]
    /\ \A p \in Coros : at[p] = "move_items" =>
          /\ 0 <= loop_cnt[p]
          /\ p \in producers => loop_cnt[p] <= left[p] /\ que + loop_cnt[p] <= Capacity
          /\ p \notin producers => loop_cnt[p] <= que

\* The inductive invariant.
Inv == TypeOK /\ Located /\ NoCopies /\ ListsOK /\ LockInv /\ QueueInv

-----------------------------------------------------------------------------
\* The elements of a list are its items.
LEMMA RangeItems ==
  ASSUME NEW S, NEW q \in Seq(S)
  PROVE  Range(q) = Items(q, 0) /\ Items(q, 0) \subseteq S /\ (q = <<>> => Items(q, 0) = {})
<1>1. DOMAIN q = 0 + 1 .. Len(q)
  OBVIOUS
<1>2. \A i \in 0 + 1 .. Len(q) : q[i] \in S
  OBVIOUS
<1>3. q = <<>> => 0 + 1 .. Len(q) = {}
  OBVIOUS
<1> QED BY <1>1, <1>2, <1>3, Zenon DEF Range, Items

\* Pushing a handle that is not in the list.
LEMMA Pushed ==
  ASSUME NEW q \in Seq(Coros), NEW p \in Coros
  PROVE  /\ Append(q, p) \in Seq(Coros) /\ Len(Append(q, p)) = Len(q) + 1
         /\ Items(Append(q, p), 0) = Items(q, 0) \cup {p}
         /\ NoRepeat(q, 0) /\ p \notin Items(q, 0) => NoRepeat(Append(q, p), 0)
<1>1. 0 \in Nat /\ 0 <= Len(q)
  OBVIOUS
<1>2. /\ Items(Append(q, p), 0) = Items(q, 0) \cup {p}
      /\ NoRepeat(q, 0) /\ p \notin Items(q, 0) => NoRepeat(Append(q, p), 0)
  BY <1>1, ItemsAppend, Zenon
<1> QED BY <1>2

\* Popping the first handle.
LEMMA Popped ==
  ASSUME NEW q \in Seq(Coros), q # <<>>, NoRepeat(q, 0)
  PROVE  /\ Tail(q) \in Seq(Coros) /\ Len(Tail(q)) = Len(q) - 1
         /\ Head(q) \in Coros /\ Head(q) \in Items(q, 0)
         /\ Items(Tail(q), 0) = Items(q, 0) \ {Head(q)} /\ NoRepeat(Tail(q), 0)
BY ItemsTail

\* A handle that is somewhere is nowhere else.
LEMMA InOnly ==
  ASSUME Located, NEW p \in Coros, NEW k \in Kinds, NEW w \in Spots, In(p, k, w)
  PROVE  Only(p, k, w) /\ at[p] # "ended"
BY DEF Located, Only, Nowhere

\* The cases of Only.
LEMMA OnlyIs ==
  ASSUME NEW p, NEW k \in Kinds, NEW w \in Spots, Only(p, k, w)
  PROVE  /\ \A v \in Workers : cur[v] = p <=> k = "held" /\ v = w
         /\ \A v \in Workers : p \in Items(queue[v], 0) <=> k = "queue" /\ v = w
         /\ p \in Items(m_waiters, 0) <=> k = "lock" /\ None = w
         /\ \A v \in Cvs : p \in Items(waiters[v], 0) <=> k = "cond" /\ v = w
<1>1. /\ Workers \subseteq Spots /\ None \in Spots /\ Cvs \subseteq Spots
      /\ {"held", "queue", "lock", "cond"} \subseteq Kinds
  BY Zenon DEF Spots, Kinds
<1>2. /\ \A v \in Workers : /\ In(p, "held", v) <=> cur[v] = p
                            /\ In(p, "queue", v) <=> p \in Items(queue[v], 0)
      /\ In(p, "lock", None) <=> p \in Items(m_waiters, 0)
      /\ \A v \in Cvs : In(p, "cond", v) <=> p \in Items(waiters[v], 0)
  BY Zenon DEF In
<1> QED BY <1>1, <1>2, Zenon DEF Only

LEMMA OnlyWaits ==
  ASSUME NEW p, NEW k \in Kinds \ {"cond"}, NEW w \in Spots, Only(p, k, w)
  PROVE  ~Waits(p)
BY OnlyIs, Zenon DEF Waits

\* The running coroutine is in no list and no queue.
LEMMA Running ==
  ASSUME TypeOK, Located, NEW w \in Workers, cur[w] # None
  PROVE  /\ cur[w] \in Coros /\ at[cur[w]] # "ended" /\ Only(cur[w], "held", w)
         /\ \A v \in Workers : (cur[v] = cur[w] <=> v = w) /\ cur[w] \notin Items(queue[v], 0)
         /\ cur[w] \notin Items(m_waiters, 0) /\ ~Waits(cur[w])
<1>1. cur[w] \in Coros /\ In(cur[w], "held", w) /\ "held" \in Kinds /\ w \in Spots
  BY Zenon DEF TypeOK, In, Kinds, Spots
<1>2. Only(cur[w], "held", w) /\ at[cur[w]] # "ended"
  BY <1>1, InOnly, Zenon
<1>3. /\ \A v \in Workers : (cur[v] = cur[w] <=> v = w) /\ cur[w] \notin Items(queue[v], 0)
      /\ cur[w] \notin Items(m_waiters, 0)
  <2>1. PICK p \in Coros, k \in Kinds : p = cur[w] /\ k = "held"
    BY <1>1, Zenon
  <2>2. Only(p, k, w)
    BY <1>2, <2>1, Zenon
  <2>3. /\ \A v \in Workers : cur[v] = p <=> k = "held" /\ v = w
        /\ \A v \in Workers : p \in Items(queue[v], 0) <=> k = "queue" /\ v = w
        /\ p \in Items(m_waiters, 0) <=> k = "lock" /\ None = w
    BY <1>1, <2>2, OnlyIs, Zenon
  <2> QED BY <2>1, <2>3, Zenon
<1>4. ~Waits(cur[w])
  BY <1>1, <1>2, OnlyWaits, Zenon
<1> QED BY <1>1, <1>2, <1>3, <1>4, Zenon

-----------------------------------------------------------------------------
(* Handles.                                                                *)

Handles == TypeOK /\ Located /\ NoCopies

Unmoved(p) == \A l \in Kinds, v \in Spots : In(p, l, v)' <=> In(p, l, v)

\* A step keeps Located if every coroutine stays, goes to one place, or ends.
LEMMA LocatedKeeps ==
  ASSUME Located,
         \A p \in Coros :
             \/ Unmoved(p) /\ (at'[p] = "ended" <=> at[p] = "ended")
             \/ at'[p] # "ended" /\ \E k \in Kinds, w \in Spots : Only(p, k, w)'
             \/ at'[p] = "ended" /\ Nowhere(p)'
  PROVE  Located'
<1> SUFFICES ASSUME NEW p \in Coros
             PROVE  (IF at[p] = "ended" THEN Nowhere(p)
                     ELSE \E k \in Kinds, w \in Spots : Only(p, k, w))'
  BY Zenon DEF Located
<1>1. CASE Unmoved(p) /\ (at'[p] = "ended" <=> at[p] = "ended")
  <2>1. CASE at[p] = "ended"
    BY <1>1, <2>1, Zenon DEF Located, Nowhere, Unmoved
  <2>2. CASE at[p] # "ended"
    <3>1. PICK k \in Kinds, w \in Spots : Only(p, k, w)
      BY <2>2, Zenon DEF Located
    <3>2. Only(p, k, w)'
      BY <1>1, <3>1, Zenon DEF Only, Unmoved
    <3> QED BY <1>1, <2>2, <3>2, Zenon
  <2> QED BY <2>1, <2>2, Zenon
<1>2. CASE ~(Unmoved(p) /\ (at'[p] = "ended" <=> at[p] = "ended"))
  BY <1>2, Zenon
<1> QED BY <1>1, <1>2, Zenon

\* When a coroutine stays where it is.
LEMMA UnmovedIf ==
  ASSUME NEW p, \A v \in Workers : cur'[v] = p <=> cur[v] = p,
         \A v \in Workers : p \in Items(queue'[v], 0) <=> p \in Items(queue[v], 0),
         p \in Items(m_waiters', 0) <=> p \in Items(m_waiters, 0),
         \A v \in Cvs : p \in Items(waiters'[v], 0) <=> p \in Items(waiters[v], 0)
  PROVE  Unmoved(p)
BY DEF Unmoved, In, Kinds

\* When it is in one place after a step.
LEMMA OnlyIf ==
  ASSUME NEW p, NEW w
  PROVE  /\ w \in Workers
            /\ (\A v \in Workers : cur'[v] = p <=> v = w)
            /\ (\A v \in Workers : p \notin Items(queue'[v], 0))
            /\ p \notin Items(m_waiters', 0) /\ ~Waits(p)'
            => Only(p, "held", w)'
         /\ w \in Workers
            /\ (\A v \in Workers : cur'[v] # p)
            /\ (\A v \in Workers : p \in Items(queue'[v], 0) <=> v = w)
            /\ p \notin Items(m_waiters', 0) /\ ~Waits(p)'
            => Only(p, "queue", w)'
         /\ (\A v \in Workers : cur'[v] # p)
            /\ (\A v \in Workers : p \notin Items(queue'[v], 0))
            /\ p \in Items(m_waiters', 0) /\ ~Waits(p)'
            => Only(p, "lock", None)'
         /\ w \in Cvs
            /\ (\A v \in Workers : cur'[v] # p)
            /\ (\A v \in Workers : p \notin Items(queue'[v], 0))
            /\ p \notin Items(m_waiters', 0)
            /\ (\A v \in Cvs : p \in Items(waiters'[v], 0) <=> v = w)
            => Only(p, "cond", w)'
BY Zenon DEF Only, In, Kinds, Waits

\* A step that moves no handle and ends no coroutine.
LEMMA StayHandles ==
  ASSUME Handles, UNCHANGED <<queue, cur, m_waiters, waiters>>, at' \in [Coros -> PCs],
         \A p \in Coros : at'[p] = "ended" <=> at[p] = "ended",
         m_locked' \in BOOLEAN, cnt' \in [Cvs -> Nat], \A v \in Cvs : cnt'[v] <= Len(waiters[v])
  PROVE  Handles'
<1>1. TypeOK'
  BY Zenon DEF Handles, TypeOK
<1>2. \A p \in Coros : Unmoved(p)
  BY DEF Unmoved, In, Kinds
<1>3. Located'
  BY <1>2, LocatedKeeps, Zenon DEF Handles
<1>4. NoCopies'
  BY Zenon DEF Handles, NoCopies
<1> QED BY <1>1, <1>3, <1>4, Zenon DEF Handles

\* exec_one_task: from the queue into the worker's hand.
LEMMA ResumeHandles ==
  ASSUME Handles, NEW w \in Workers, Resume(w), UNCHANGED cv_vars
  PROVE  Handles'
<1>1. /\ cur[w] = None /\ queue[w] \in Seq(Coros) /\ queue[w] # <<>> /\ NoRepeat(queue[w], 0)
      /\ UNCHANGED <<at, m_locked, m_waiters, waiters, cnt>>
  BY Zenon DEF Handles, TypeOK, NoCopies, Resume, mutex_vars, cv_vars
<1>h. PICK h \in Coros : h = Head(queue[w])
  BY <1>1, Popped, Zenon
<1>2. /\ Tail(queue[w]) \in Seq(Coros) /\ h \in Items(queue[w], 0)
      /\ Items(Tail(queue[w]), 0) = Items(queue[w], 0) \ {h} /\ NoRepeat(Tail(queue[w]), 0)
  BY <1>1, <1>h, Popped, Zenon
<1>3. /\ cur'[w] = h /\ queue'[w] = Tail(queue[w])
      /\ \A v \in Workers \ {w} : cur'[v] = cur[v] /\ queue'[v] = queue[v]
      /\ cur' = [cur EXCEPT ![w] = h] /\ queue' = [queue EXCEPT ![w] = Tail(queue[w])]
  BY <1>h, Zenon DEF Resume, Handles, TypeOK
<1>4. TypeOK'
  BY <1>1, <1>2, <1>3, Zenon DEF Handles, TypeOK
<1>5. NoCopies'
  BY <1>1, <1>2, <1>3, Zenon DEF Handles, NoCopies
<1>6. ASSUME NEW p \in Coros, p # h PROVE Unmoved(p)
  <2>1. cur[w] # p
    BY <1>1, MutexAssumption, Zenon
  <2>2. \A v \in Workers : /\ cur'[v] = p <=> cur[v] = p
                           /\ p \in Items(queue'[v], 0) <=> p \in Items(queue[v], 0)
    BY <1>2, <1>3, <1>6, <2>1, Zenon
  <2> QED BY <1>1, <2>2, UnmovedIf, Zenon
<1>7. at[h] # "ended" /\ Only(h, "held", w)'
  <2>1. In(h, "queue", w) /\ {"queue", "held"} \subseteq Kinds /\ w \in Spots
    BY <1>2, Zenon DEF In, Kinds, Spots
  <2>2. Only(h, "queue", w) /\ at[h] # "ended"
    BY <1>2, <2>1, InOnly, Zenon DEF Handles
  <2>3. /\ \A v \in Workers : cur[v] # h /\ (h \in Items(queue[v], 0) <=> v = w)
        /\ h \notin Items(m_waiters, 0) /\ ~Waits(h)
    <3>1. ~Waits(h)
      BY <2>1, <2>2, OnlyWaits, Zenon
    <3> QED BY <2>1, <2>2, <3>1, OnlyIs
  <2>4. \A v \in Workers : (cur'[v] = h <=> v = w) /\ h \notin Items(queue'[v], 0)
    BY <1>2, <1>3, <2>3, Zenon
  <2>5. Only(h, "held", w)'
    BY <1>1, <2>1, <2>3, <2>4, OnlyIf, Zenon DEF Waits
  <2> QED BY <2>2, <2>5, Zenon
<1>8. Located'
  <2>1. ASSUME NEW p \in Coros
        PROVE  \/ Unmoved(p) /\ (at'[p] = "ended" <=> at[p] = "ended")
               \/ at'[p] # "ended" /\ \E k \in Kinds, v \in Spots : Only(p, k, v)'
    <3>1. CASE p = h
      <4>1. "held" \in Kinds /\ w \in Spots
        BY Zenon DEF Kinds, Spots
      <4> QED BY <1>1, <1>7, <3>1, <4>1, Zenon
    <3>2. CASE p # h
      BY <1>1, <1>6, <3>2, Zenon
    <3> QED BY <3>1, <3>2, Zenon
  <2> QED BY <2>1, LocatedKeeps, Zenon DEF Handles
<1> QED BY <1>4, <1>5, <1>8, Zenon DEF Handles

\* A coroutine suspends: from the worker's hand into its queue, where await_suspend
\* puts it when it gets the lock after all, or into a wait list.
LEMMA SuspendHandles ==
  ASSUME Handles, NEW w \in Workers, cur[w] # None, cur' = [cur EXCEPT ![w] = None],
         NEW to \in PCs \ {"ended"}, at' = [at EXCEPT ![cur[w]] = to], m_locked' \in BOOLEAN,
         UNCHANGED cnt, NEW u \in Cvs,
         \/ /\ queue' = [queue EXCEPT ![w] = Append(queue[w], cur[w])]
            /\ UNCHANGED <<m_waiters, waiters>>
         \/ m_waiters' = Append(m_waiters, cur[w]) /\ UNCHANGED <<queue, waiters>>
         \/ /\ waiters' = [waiters EXCEPT ![u] = Append(waiters[u], cur[w])]
            /\ UNCHANGED <<queue, m_waiters>>
  PROVE  Handles'
<1>h. TypeOK /\ Located /\ NoCopies
  BY Zenon DEF Handles
<1>p. PICK p \in Coros : p = cur[w]
  BY <1>h, Running, Zenon
<1>1. /\ at[p] # "ended" /\ \A v \in Workers : (cur[v] = p <=> v = w) /\ p \notin Items(queue[v], 0)
      /\ p \notin Items(m_waiters, 0) /\ ~Waits(p)
  BY <1>h, <1>p, Running, Zenon
<1>2. /\ \A v \in Workers \ {w} : cur'[v] = cur[v]
      /\ cur'[w] = None /\ at'[p] = to /\ \A q \in Coros \ {p} : at'[q] = at[q]
      /\ at' \in [Coros -> PCs] /\ cur' \in [Workers -> Coros \cup {None}]
  BY <1>h, <1>p, Zenon DEF TypeOK
<1>3. \A v \in Workers : cur'[v] # p
  BY <1>1, <1>2, MutexAssumption, Zenon
<1>5. ASSUME NEW k \in Kinds, NEW v \in Spots, Only(p, k, v)',
             \A q \in Coros \ {p} : Unmoved(q)
      PROVE  Located'
  <2>1. \A q \in Coros \ {p} : at'[q] = "ended" <=> at[q] = "ended"
    BY <1>2, Zenon
  <2>2. at'[p] # "ended"
    BY <1>2, Zenon
  <2> QED BY <1>h, <1>5, <2>1, <2>2, LocatedKeeps, Zenon
<1>6. ASSUME NEW q \in Coros \ {p} PROVE \A v \in Workers : cur'[v] = q <=> cur[v] = q
  BY <1>1, <1>2, MutexAssumption
<1>7. CASE /\ queue' = [queue EXCEPT ![w] = Append(queue[w], cur[w])]
           /\ UNCHANGED <<m_waiters, waiters>>
  <2>1. /\ queue[w] \in Seq(Coros) /\ queue'[w] = Append(queue[w], p)
        /\ \A v \in Workers \ {w} : queue'[v] = queue[v]
        /\ NoRepeat(queue[w], 0)
    BY <1>h, <1>p, <1>7, Zenon DEF TypeOK, NoCopies
  <2>2. /\ Append(queue[w], p) \in Seq(Coros) /\ NoRepeat(queue'[w], 0)
        /\ Items(queue'[w], 0) = Items(queue[w], 0) \cup {p}
    BY <1>1, <2>1, Pushed
  <2>3. TypeOK'
    BY <1>h, <1>p, <1>2, <1>7, <2>2, Zenon DEF TypeOK
  <2>4. NoCopies'
    BY <1>h, <1>7, <2>1, <2>2, Zenon DEF NoCopies
  <2>5. Only(p, "queue", w)'
    <3>1. \A v \in Workers : p \in Items(queue'[v], 0) <=> v = w
      BY <1>1, <2>1, <2>2, Zenon
    <3> QED BY <1>1, <1>3, <1>7, <3>1, OnlyIf, Zenon DEF Waits
  <2>6. \A q \in Coros \ {p} : Unmoved(q)
    BY <1>6, <1>7, <2>1, <2>2, UnmovedIf, Zenon
  <2>7. "queue" \in Kinds /\ w \in Spots
    BY Zenon DEF Kinds, Spots
  <2> QED BY <1>5, <2>3, <2>4, <2>5, <2>6, <2>7, Zenon DEF Handles
<1>8. CASE m_waiters' = Append(m_waiters, cur[w]) /\ UNCHANGED <<queue, waiters>>
  <2>1. m_waiters \in Seq(Coros) /\ NoRepeat(m_waiters, 0)
    BY <1>h, Zenon DEF TypeOK, NoCopies
  <2>2. /\ m_waiters' \in Seq(Coros) /\ NoRepeat(m_waiters', 0)
        /\ Items(m_waiters', 0) = Items(m_waiters, 0) \cup {p}
    BY <1>1, <1>p, <1>8, <2>1, Pushed, Zenon
  <2>3. TypeOK'
    BY <1>h, <1>2, <1>8, <2>2, Zenon DEF TypeOK
  <2>4. NoCopies'
    BY <1>h, <1>8, <2>2, Zenon DEF NoCopies
  <2>5. Only(p, "lock", None)'
    BY <1>1, <1>3, <1>8, <2>2, OnlyIf, Zenon DEF Waits
  <2>6. \A q \in Coros \ {p} : Unmoved(q)
    BY <1>6, <1>8, <2>2, UnmovedIf, Zenon
  <2>7. "lock" \in Kinds /\ None \in Spots
    BY Zenon DEF Kinds, Spots
  <2> QED BY <1>5, <2>3, <2>4, <2>5, <2>6, <2>7, Zenon DEF Handles
<1>9. CASE /\ waiters' = [waiters EXCEPT ![u] = Append(waiters[u], cur[w])]
           /\ UNCHANGED <<queue, m_waiters>>
  <2>1. /\ waiters[u] \in Seq(Coros) /\ NoRepeat(waiters[u], 0) /\ cnt[u] \in Nat
        /\ cnt[u] <= Len(waiters[u]) /\ Len(waiters[u]) \in Nat
        /\ waiters'[u] = Append(waiters[u], p) /\ \A v \in Cvs \ {u} : waiters'[v] = waiters[v]
        /\ \A v \in Cvs : p \notin Items(waiters[v], 0)
    BY <1>h, <1>p, <1>1, <1>9, LenIs, Zenon DEF TypeOK, NoCopies, Waits
  <2>2. /\ Append(waiters[u], p) \in Seq(Coros) /\ NoRepeat(waiters'[u], 0)
        /\ Len(waiters'[u]) = Len(waiters[u]) + 1
        /\ Items(waiters'[u], 0) = Items(waiters[u], 0) \cup {p}
    BY <2>1, Pushed, ZenonT(30)
  <2>3. cnt[u] <= Len(waiters'[u])
    BY ONLY <2>1, <2>2
  <2>4. TypeOK'
    <3>1. waiters' \in [Cvs -> Seq(Coros)]
      BY <1>h, <1>p, <1>9, <2>2, Zenon DEF TypeOK
    <3>2. \A v \in Cvs : cnt[v] <= Len(waiters'[v])
      BY <1>h, <2>1, <2>3, Zenon DEF TypeOK
    <3> QED BY <1>h, <1>2, <1>9, <3>1, <3>2, Zenon DEF TypeOK
  <2>5. NoCopies'
    BY <1>h, <1>9, <2>1, <2>2, Zenon DEF NoCopies
  <2>6. Only(p, "cond", u)'
    <3>1. \A v \in Cvs : p \in Items(waiters'[v], 0) <=> v = u
      BY <2>1, <2>2, Zenon
    <3> QED BY <1>1, <1>3, <1>9, <3>1, OnlyIf, Zenon
  <2>7. \A q \in Coros \ {p} : Unmoved(q)
    BY <1>6, <1>9, <2>1, <2>2, UnmovedIf, Zenon
  <2>8. "cond" \in Kinds /\ u \in Spots
    BY Zenon DEF Kinds, Spots
  <2> QED BY <1>5, <2>4, <2>5, <2>6, <2>7, <2>8, Zenon DEF Handles
<1> QED BY <1>7, <1>8, <1>9, Zenon

\* unlock(): the first waiter goes from the list into the worker's queue. The caller
\* stays in the worker's hand, or ends.
LEMMA UnlockHandles ==
  ASSUME Handles, NEW w \in Workers, cur[w] # None, unlock(w), NEW to \in PCs,
         at' = [at EXCEPT ![cur[w]] = to], UNCHANGED cv_vars,
         IF to = "ended" THEN cur' = [cur EXCEPT ![w] = None] ELSE cur' = cur
  PROVE  Handles'
<1>h. TypeOK /\ Located /\ NoCopies
  BY Zenon DEF Handles
<1>p. PICK p \in Coros : p = cur[w]
  BY <1>h, Running, Zenon
<1>1. /\ at[p] # "ended" /\ \A v \in Workers : (cur[v] = p <=> v = w) /\ p \notin Items(queue[v], 0)
      /\ p \notin Items(m_waiters, 0) /\ ~Waits(p)
  BY <1>h, <1>p, Running, Zenon
<1>2. /\ \A v \in Workers \ {w} : cur'[v] = cur[v]
      /\ cur'[w] = (IF to = "ended" THEN None ELSE p)
      /\ at'[p] = to /\ \A q \in Coros \ {p} : at'[q] = at[q]
      /\ at' \in [Coros -> PCs] /\ cur' \in [Workers -> Coros \cup {None}]
  BY <1>h, <1>p, Zenon DEF TypeOK
<1>3. UNCHANGED <<waiters, cnt>> /\ m_locked' \in BOOLEAN
  BY <1>h, Zenon DEF cv_vars, unlock, TypeOK
<1>4. \A q \in Coros \ {p}, v \in Workers : cur'[v] = q <=> cur[v] = q
  BY <1>1, <1>2, MutexAssumption
<1>5. ASSUME \A v \in Workers : p \notin Items(queue'[v], 0), p \notin Items(m_waiters', 0)
      PROVE  IF to = "ended" THEN Nowhere(p)' ELSE Unmoved(p)
  <2>1. CASE to = "ended"
    <3>1. \A v \in Workers : cur'[v] # p
      BY <1>1, <1>2, <2>1, MutexAssumption
    <3> QED BY <1>1, <1>3, <1>5, <2>1, <3>1, Zenon DEF Nowhere, In, Kinds, Waits
  <2>2. CASE to # "ended"
    <3>1. \A v \in Workers : cur'[v] = p <=> cur[v] = p
      BY <1>1, <1>2, <2>2, Zenon
    <3> QED BY <1>1, <1>3, <1>5, <2>2, <3>1, UnmovedIf, Zenon
  <2> QED BY <2>1, <2>2, Zenon
<1>6. CASE m_waiters = <<>>
  <2>1. UNCHANGED <<queue, m_waiters>>
    BY <1>6, Zenon DEF unlock
  <2>2. \A q \in Coros \ {p} : Unmoved(q)
    BY <1>3, <1>4, <2>1, UnmovedIf, Zenon
  <2>3. IF to = "ended" THEN Nowhere(p)' ELSE Unmoved(p)
    BY <1>1, <1>5, <2>1, Zenon
  <2>4. Located'
    BY <1>h, <1>1, <1>2, <2>2, <2>3, LocatedKeeps, Zenon
  <2>5. TypeOK' /\ NoCopies'
    BY <1>h, <1>2, <1>3, <2>1, Zenon DEF TypeOK, NoCopies
  <2> QED BY <2>4, <2>5, Zenon DEF Handles
<1>7. CASE m_waiters # <<>>
  <2>0. /\ m_waiters' = Tail(m_waiters) /\ m_waiters \in Seq(Coros) /\ NoRepeat(m_waiters, 0)
        /\ queue' = [queue EXCEPT ![w] = Append(queue[w], Head(m_waiters))]
        /\ queue[w] \in Seq(Coros) /\ NoRepeat(queue[w], 0)
    BY <1>h, <1>7, Zenon DEF unlock, submit_task, TypeOK, NoCopies
  <2>h. PICK h \in Coros : h = Head(m_waiters)
    BY <1>7, <2>0, Popped, Zenon
  <2>1. /\ m_waiters' \in Seq(Coros) /\ NoRepeat(m_waiters', 0) /\ h \in Items(m_waiters, 0)
        /\ Items(m_waiters', 0) = Items(m_waiters, 0) \ {h}
    BY <1>7, <2>0, <2>h, Popped, Zenon
  <2>2. /\ \A v \in Workers : cur[v] # h /\ h \notin Items(queue[v], 0)
        /\ ~Waits(h) /\ at[h] # "ended" /\ h # p
    <3>1. In(h, "lock", None) /\ "lock" \in Kinds /\ None \in Spots
      BY <2>1, Zenon DEF In, Kinds, Spots
    <3>2. Only(h, "lock", None) /\ at[h] # "ended"
      BY <1>h, <3>1, InOnly, Zenon
    <3>3. ~Waits(h)
      BY <3>1, <3>2, OnlyWaits, Zenon
    <3> QED BY <1>1, <2>1, <3>1, <3>2, <3>3, OnlyIs, Zenon
  <2>3. /\ queue'[w] = Append(queue[w], h) /\ queue' = [queue EXCEPT ![w] = Append(queue[w], h)]
        /\ \A v \in Workers \ {w} : queue'[v] = queue[v]
        /\ Append(queue[w], h) \in Seq(Coros) /\ NoRepeat(queue'[w], 0)
        /\ Items(queue'[w], 0) = Items(queue[w], 0) \cup {h}
    <3>1. /\ queue'[w] = Append(queue[w], h) /\ \A v \in Workers \ {w} : queue'[v] = queue[v]
          /\ queue' = [queue EXCEPT ![w] = Append(queue[w], h)]
      BY <1>h, <2>0, <2>h, Zenon DEF TypeOK
    <3>2. /\ Append(queue[w], h) \in Seq(Coros) /\ NoRepeat(Append(queue[w], h), 0)
          /\ Items(Append(queue[w], h), 0) = Items(queue[w], 0) \cup {h}
      BY <2>0, <2>2, Pushed, Zenon
    <3> QED BY ONLY <3>1, <3>2, Zenon
  <2>4. TypeOK'
    BY <1>h, <1>2, <1>3, <2>1, <2>3, Zenon DEF TypeOK
  <2>5. NoCopies'
    BY <1>h, <1>3, <2>1, <2>3, Zenon DEF NoCopies
  <2>6. Only(h, "queue", w)'
    <3>1. \A v \in Workers : cur'[v] # h
      BY <1>4, <2>2, Zenon
    <3>2. \A v \in Workers : h \in Items(queue'[v], 0) <=> v = w
      BY <2>2, <2>3, Zenon
    <3> QED BY <1>3, <2>1, <2>2, <3>1, <3>2, OnlyIf, Zenon DEF Waits
  <2>7. ASSUME NEW q \in Coros \ {p, h} PROVE Unmoved(q)
    BY <1>3, <1>4, <2>1, <2>3, UnmovedIf, Zenon
  <2>8. IF to = "ended" THEN Nowhere(p)' ELSE Unmoved(p)
    BY <1>1, <1>5, <2>1, <2>2, <2>3, Zenon
  <2>9. Located'
    <3>1. "queue" \in Kinds /\ w \in Spots
      BY Zenon DEF Kinds, Spots
    <3>2. at'[h] # "ended"
      BY <1>2, <2>2, Zenon
    <3>3. ASSUME NEW q \in Coros
          PROVE  \/ Unmoved(q) /\ (at'[q] = "ended" <=> at[q] = "ended")
                 \/ at'[q] # "ended" /\ \E k \in Kinds, v \in Spots : Only(q, k, v)'
                 \/ at'[q] = "ended" /\ Nowhere(q)'
      <4>1. CASE q = h
        BY <2>6, <3>1, <3>2, <4>1, Zenon
      <4>2. CASE q = p
        BY <1>1, <1>2, <2>8, <4>2, Zenon
      <4>3. CASE q \notin {p, h}
        BY <1>2, <2>7, <4>3, Zenon
      <4> QED BY <4>1, <4>2, <4>3, Zenon
    <3> QED BY <1>h, <3>3, LocatedKeeps, Zenon
  <2> QED BY <2>4, <2>5, <2>9, Zenon DEF Handles
<1> QED BY <1>6, <1>7, Zenon

\* A notify looks at the first waiter: it goes to the end of the list, into the
\* worker's queue with the lock, or to the waiters of the mutex.
LEMMA NotifyHandles ==
  ASSUME Handles, NEW w \in Workers, NotifyWaiter(w)
  PROVE  Handles'
<1>h. TypeOK /\ Located /\ NoCopies
  BY Zenon DEF Handles
<1>v. PICK u \in Cvs : u = Notifies(cur[w])
  BY Zenon DEF Notifies, Cvs
<1>0. /\ at' = at /\ UNCHANGED cur /\ cnt[u] \in Nat /\ cnt[u] > 0 /\ cnt' = [cnt EXCEPT ![u] = cnt[u] - 1]
      /\ cnt[u] <= Len(waiters[u]) /\ waiters[u] \in Seq(Coros) /\ NoRepeat(waiters[u], 0)
  BY <1>h, <1>v, Zenon DEF NotifyWaiter, Move, TypeOK, NoCopies
<1>1. waiters[u] # <<>> /\ Len(waiters[u]) \in Nat
  BY ONLY <1>0
<1>h1. PICK h \in Coros : h = Head(waiters[u])
  BY <1>0, <1>1, Popped, Zenon
<1>2. /\ Tail(waiters[u]) \in Seq(Coros) /\ NoRepeat(Tail(waiters[u]), 0)
      /\ h \in Items(waiters[u], 0) /\ Len(Tail(waiters[u])) = Len(waiters[u]) - 1
      /\ Items(Tail(waiters[u]), 0) = Items(waiters[u], 0) \ {h}
  BY <1>0, <1>1, <1>h1, Popped, Zenon
<1>3. /\ \A v \in Workers : cur[v] # h /\ h \notin Items(queue[v], 0)
      /\ h \notin Items(m_waiters, 0) /\ at[h] # "ended"
      /\ \A v \in Cvs : h \in Items(waiters[v], 0) <=> v = u
  <2>1. In(h, "cond", u) /\ "cond" \in Kinds /\ u \in Spots
    BY <1>2, Zenon DEF In, Kinds, Spots
  <2>2. Only(h, "cond", u) /\ at[h] # "ended"
    BY <1>h, <2>1, InOnly, Zenon
  <2>3. PICK k \in Kinds : k = "cond"
    BY <2>1, Zenon
  <2>4. Only(h, k, u)
    BY <2>2, <2>3, Zenon
  <2>5. /\ \A v \in Workers : cur[v] = h <=> k = "held" /\ v = u
        /\ \A v \in Workers : h \in Items(queue[v], 0) <=> k = "queue" /\ v = u
        /\ h \in Items(m_waiters, 0) <=> k = "lock" /\ None = u
        /\ \A v \in Cvs : h \in Items(waiters[v], 0) <=> k = "cond" /\ v = u
    BY <2>1, <2>4, OnlyIs, Zenon
  <2> QED BY <2>2, <2>3, <2>5, Zenon
<1>4. ASSUME \A q \in Coros \ {h} : Unmoved(q), NEW k \in Kinds, NEW v \in Spots, Only(h, k, v)'
      PROVE  Located'
  BY <1>h, <1>0, <1>3, <1>4, LocatedKeeps, Zenon
<1>5. {"queue", "lock", "cond"} \subseteq Kinds /\ w \in Spots /\ None \in Spots
  BY Zenon DEF Kinds, Spots
<1>8. cnt[u] - 1 \in Nat
  BY ONLY <1>0
<1>9. ASSUME NEW l \in Seq(Coros), waiters' = [waiters EXCEPT ![u] = l], cnt[u] - 1 <= Len(l)
      PROVE  /\ waiters' \in [Cvs -> Seq(Coros)] /\ waiters'[u] = l
             /\ \A v \in Cvs \ {u} : waiters'[v] = waiters[v]
             /\ cnt' \in [Cvs -> Nat] /\ \A v \in Cvs : cnt'[v] <= Len(waiters'[v])
  <2>1. /\ waiters \in [Cvs -> Seq(Coros)] /\ cnt \in [Cvs -> Nat]
        /\ \A v \in Cvs : cnt[v] <= Len(waiters[v])
    BY <1>h, Zenon DEF TypeOK
  <2>2. /\ waiters' \in [Cvs -> Seq(Coros)] /\ waiters'[u] = l
        /\ \A v \in Cvs \ {u} : waiters'[v] = waiters[v]
    BY <1>9, <2>1, Zenon
  <2>3. /\ cnt' \in [Cvs -> Nat] /\ cnt'[u] = cnt[u] - 1
        /\ \A v \in Cvs \ {u} : cnt'[v] = cnt[v]
    BY <1>0, <1>8, <2>1, Zenon
  <2>4. \A v \in Cvs : cnt'[v] <= Len(waiters'[v])
    BY ONLY <1>9, <2>1, <2>2, <2>3, Zenon
  <2> QED BY <2>2, <2>3, <2>4, Zenon
<1>6. CASE /\ waiters' = [waiters EXCEPT ![u] = Append(Tail(waiters[u]), h)]
           /\ UNCHANGED <<queue, m_locked, m_waiters>>
  <2>l. PICK l : l = Append(Tail(waiters[u]), h)
    BY Zenon
  <2>1. /\ l \in Seq(Coros) /\ NoRepeat(l, 0) /\ cnt[u] - 1 <= Len(l)
        /\ Items(l, 0) = Items(waiters[u], 0)
    <3>1. h \notin Items(Tail(waiters[u]), 0)
      BY <1>2, Zenon
    <3>2. /\ l \in Seq(Coros) /\ NoRepeat(l, 0)
          /\ Len(l) = Len(Tail(waiters[u])) + 1
          /\ Items(l, 0) = Items(Tail(waiters[u]), 0) \cup {h}
      BY <1>2, <2>l, <3>1, Pushed, Zenon
    <3>3. cnt[u] - 1 <= Len(l)
      BY ONLY <1>0, <1>1, <1>2, <3>2
    <3>4. Items(l, 0) = Items(waiters[u], 0)
      BY ONLY <1>2, <3>2, Zenon
    <3> QED BY ONLY <3>2, <3>3, <3>4, Zenon
  <2>2. /\ waiters' \in [Cvs -> Seq(Coros)] /\ waiters'[u] = l
        /\ \A v \in Cvs \ {u} : waiters'[v] = waiters[v]
        /\ cnt' \in [Cvs -> Nat] /\ \A v \in Cvs : cnt'[v] <= Len(waiters'[v])
    BY <1>6, <1>9, <2>l, <2>1, Zenon
  <2>3. \A q \in Coros : Unmoved(q)
    BY <1>0, <1>6, <2>1, <2>2, UnmovedIf, Zenon
  <2>4. Located'
    BY <1>h, <1>0, <2>3, LocatedKeeps, Zenon
  <2>5. TypeOK' /\ NoCopies'
    BY <1>h, <1>0, <1>6, <2>1, <2>2, Zenon DEF TypeOK, NoCopies
  <2> QED BY <2>4, <2>5, Zenon DEF Handles
<1>7. CASE waiters' = [waiters EXCEPT ![u] = Tail(waiters[u])] /\ enqueue_waiter(w, h)
  <2>l. PICK l : l = Tail(waiters[u])
    BY Zenon
  <2>0. /\ l \in Seq(Coros) /\ NoRepeat(l, 0) /\ Items(l, 0) = Items(waiters[u], 0) \ {h}
        /\ cnt[u] - 1 <= Len(l)
    <3>1. cnt[u] - 1 <= Len(Tail(waiters[u]))
      BY ONLY <1>0, <1>1, <1>2
    <3> QED BY <1>2, <2>l, <3>1, Zenon
  <2>1. /\ waiters' \in [Cvs -> Seq(Coros)] /\ waiters'[u] = l /\ m_locked' \in BOOLEAN
        /\ \A v \in Cvs \ {u} : waiters'[v] = waiters[v]
        /\ cnt' \in [Cvs -> Nat] /\ \A v \in Cvs : cnt'[v] <= Len(waiters'[v])
    <3>1. m_locked' \in BOOLEAN
      BY <1>h, <1>7, Zenon DEF enqueue_waiter, try_lock, TypeOK
    <3> QED BY <1>7, <1>9, <2>l, <2>0, <3>1, Zenon
  <2>4. ~Waits(h)' /\ \A v \in Cvs : NoRepeat(waiters'[v], 0)
    <3>1. \A v \in Cvs : h \notin Items(waiters'[v], 0)
      BY <1>3, <2>0, <2>1, Zenon
    <3>2. \A v \in Cvs : NoRepeat(waiters'[v], 0)
      BY <1>h, <2>0, <2>1, Zenon DEF NoCopies
    <3> QED BY <3>1, <3>2, Zenon DEF Waits
  <2>5. ASSUME NEW q \in Coros \ {h}
        PROVE  \A v \in Cvs : q \in Items(waiters'[v], 0) <=> q \in Items(waiters[v], 0)
    BY <2>0, <2>1, Zenon
  <2>2. CASE queue' = [queue EXCEPT ![w] = Append(queue[w], h)] /\ UNCHANGED m_waiters
    <3>1. /\ queue[w] \in Seq(Coros) /\ queue'[w] = Append(queue[w], h) /\ NoRepeat(queue[w], 0)
          /\ \A v \in Workers \ {w} : queue'[v] = queue[v]
      BY <1>h, <2>2, Zenon DEF TypeOK, NoCopies
    <3>2. /\ Append(queue[w], h) \in Seq(Coros) /\ NoRepeat(queue'[w], 0)
          /\ Items(queue'[w], 0) = Items(queue[w], 0) \cup {h}
      BY <1>3, <3>1, Pushed
    <3>3. TypeOK' /\ NoCopies'
      BY <1>h, <1>0, <2>1, <2>2, <2>4, <3>1, <3>2, Zenon DEF TypeOK, NoCopies
    <3>4. Only(h, "queue", w)'
      <4>1. \A v \in Workers : h \in Items(queue'[v], 0) <=> v = w
        BY <1>3, <3>1, <3>2, Zenon
      <4> QED BY <1>0, <1>3, <2>2, <2>4, <4>1, OnlyIf, Zenon
    <3>5. \A q \in Coros \ {h} : Unmoved(q)
      BY <1>0, <2>2, <2>5, <3>1, <3>2, UnmovedIf, Zenon
    <3> QED BY <1>4, <1>5, <3>3, <3>4, <3>5, Zenon DEF Handles
  <2>3. CASE m_waiters' = Append(m_waiters, h) /\ UNCHANGED queue
    <3>1. m_waiters \in Seq(Coros) /\ NoRepeat(m_waiters, 0)
      BY <1>h, Zenon DEF TypeOK, NoCopies
    <3>2. /\ m_waiters' \in Seq(Coros) /\ NoRepeat(m_waiters', 0)
          /\ Items(m_waiters', 0) = Items(m_waiters, 0) \cup {h}
      BY <1>3, <2>3, <3>1, Pushed, Zenon
    <3>3. TypeOK' /\ NoCopies'
      BY <1>h, <1>0, <2>1, <2>3, <2>4, <3>2, Zenon DEF TypeOK, NoCopies
    <3>4. Only(h, "lock", None)'
      BY <1>0, <1>3, <2>3, <2>4, <3>2, OnlyIf, Zenon
    <3>5. \A q \in Coros \ {h} : Unmoved(q)
      BY <1>0, <2>3, <2>5, <3>2, UnmovedIf, Zenon
    <3> QED BY <1>4, <1>5, <3>3, <3>4, <3>5, Zenon DEF Handles
  <2> QED BY <1>7, <2>2, <2>3, Zenon DEF enqueue_waiter, submit_task
<1> QED BY <1>6, <1>7, <1>v, <1>h1, Zenon DEF NotifyWaiter, mutex_vars

\* No step loses or doubles a handle.
LEMMA HandlesStep ==
  ASSUME Handles, Next
  PROVE  Handles'
<1>h. TypeOK
  BY Zenon DEF Handles
<1>1. CASE Over
  BY <1>h, <1>1, StayHandles, Zenon
     DEF Over, vars, run_vars, mutex_vars, cv_vars, TypeOK
<1>2. ASSUME NEW w \in Workers, Worker(w) PROVE Handles'
  <2>1. CASE Resume(w) /\ UNCHANGED <<cv_vars, client_vars>>
    BY <2>1, ResumeHandles, Zenon
  <2>m. ASSUME NEW from \in PCs, NEW to \in PCs, Move(w, from, to)
        PROVE  /\ cur[w] # None /\ at' = [at EXCEPT ![cur[w]] = to] /\ at' \in [Coros -> PCs]
               /\ from # "ended" /\ to # "ended" =>
                     \A p \in Coros : at'[p] = "ended" <=> at[p] = "ended"
    BY <1>h, <2>m, Zenon DEF Move, TypeOK
  <2>s. ASSUME NEW from \in PCs \ {"ended"}, NEW to \in PCs \ {"ended"}, Move(w, from, to),
               UNCHANGED <<run_vars, m_waiters, waiters>>, m_locked' \in BOOLEAN,
               cnt' \in [Cvs -> Nat], \A v \in Cvs : cnt'[v] <= Len(waiters[v])
        PROVE  Handles'
    BY <2>m, <2>s, StayHandles, Zenon DEF run_vars
  <2>t. ASSUME NEW from \in PCs \ {"ended"}, NEW to \in PCs \ {"ended"}, Move(w, from, to),
               UNCHANGED <<run_vars, mutex_vars, cv_vars>>
        PROVE  Handles'
    BY <1>h, <2>s, <2>t, Zenon DEF mutex_vars, cv_vars, TypeOK
  <2>2. CASE await_ready(w) /\ UNCHANGED <<cv_vars, client_vars>>
    BY <1>h, <2>2, <2>s, Zenon
       DEF await_ready, try_lock, run_vars, cv_vars, TypeOK, PCs
  <2>3. CASE await_suspend(w) /\ UNCHANGED <<cv_vars, client_vars>>
    <3>1. {"suspend", "wait"} \subseteq PCs \ {"ended"}
      BY Zenon DEF PCs
    <3>2. cur[w] # None /\ at' = [at EXCEPT ![cur[w]] = "wait"]
      BY <2>3, <2>m, <3>1, Zenon DEF await_suspend
    <3>3. m_locked' \in BOOLEAN
      BY <1>h, <2>3, Zenon DEF await_suspend, enqueue_waiter, try_lock, TypeOK
    <3> QED BY <2>3, <3>1, <3>2, <3>3, SuspendHandles, Zenon
            DEF await_suspend, enqueue_waiter, submit_task, Leave, cv_vars, Cvs
  <2>4. CASE WaitReady(w)
    BY <2>4, <2>t, Zenon DEF WaitReady, PCs
  <2>5. CASE WaitUnlock(w)
    <3>1. {"wait_unlock", "wait_push"} \subseteq PCs
      BY Zenon DEF PCs
    <3>2. cur[w] # None /\ at' = [at EXCEPT ![cur[w]] = "wait_push"]
      BY <2>5, <2>m, <3>1, Zenon DEF WaitUnlock
    <3> QED BY <2>5, <3>1, <3>2, UnlockHandles, Zenon DEF WaitUnlock
  <2>6. CASE WaitPush(w)
    <3>1. {"wait_push", "work"} \subseteq PCs \ {"ended"}
      BY Zenon DEF PCs
    <3>2. cur[w] # None /\ at' = [at EXCEPT ![cur[w]] = "work"]
      BY <2>6, <2>m, <3>1, Zenon DEF WaitPush
    <3>3. m_locked' \in BOOLEAN
      BY <1>h, <2>6, Zenon DEF WaitPush, mutex_vars, TypeOK
    <3>4. PICK u \in Cvs : u = WaitsOn(cur[w])
      BY Zenon DEF WaitsOn, Cvs
    <3>5. /\ waiters' = [waiters EXCEPT ![u] = Append(waiters[u], cur[w])]
          /\ UNCHANGED <<queue, m_waiters, cnt>> /\ cur' = [cur EXCEPT ![w] = None]
      BY <2>6, <3>4, Zenon DEF WaitPush, Leave, mutex_vars
    <3> QED BY <3>1, <3>2, <3>3, <3>5, SuspendHandles, Zenon
  <2>7. CASE TakeTurn(w) \/ CountBatch(w) \/ MoveItems(w) \/ LeaveLoop(w)
    <3>1. CASE TakeTurn(w) \/ CountBatch(w)
      BY <2>t, <3>1, Zenon DEF TakeTurn, CountBatch, PCs
    <3>2. CASE MoveItems(w) \/ LeaveLoop(w)
      BY <2>t, <3>2, Zenon DEF MoveItems, LeaveLoop, PCs
    <3> QED BY <2>7, <3>1, <3>2, Zenon
  <2>8. CASE NotifyBegin(w)
    <3>1. {"notify", "notifying"} \subseteq PCs \ {"ended"}
      BY Zenon DEF PCs
    <3>2. PICK u \in Cvs : u = Notifies(cur[w])
      BY Zenon DEF Notifies, Cvs
    <3>3. /\ cnt' = [cnt EXCEPT ![u] = NotifySize(cur[w])] /\ UNCHANGED <<run_vars, mutex_vars, waiters>>
          /\ Move(w, "notify", "notifying")
      BY <2>8, <3>2, Zenon DEF NotifyBegin
    <3>4. NotifySize(cur[w]) \in Nat /\ NotifySize(cur[w]) <= Len(waiters[u])
      <4>1. waiters[u] \in Seq(Coros)
        BY <1>h, Zenon DEF TypeOK
      <4>2. NotifySize(cur[w]) =
              IF Everyone(cur[w]) \/ waiters[u] = <<>> THEN Len(waiters[u]) ELSE 1
        BY <3>2, Zenon DEF NotifySize
      <4> QED BY ONLY <4>1, <4>2
    <3>5. cnt' \in [Cvs -> Nat] /\ \A v \in Cvs : cnt'[v] <= Len(waiters[v])
      BY <1>h, <3>3, <3>4, Zenon DEF TypeOK
    <3> QED BY <1>h, <2>s, <3>1, <3>3, <3>5, Zenon DEF mutex_vars, TypeOK
  <2>9. CASE NotifyWaiter(w)
    BY <2>9, NotifyHandles, Zenon
  <2>10. CASE NotifyEnd(w)
    BY <2>10, <2>t, Zenon DEF NotifyEnd, PCs
  <2>11. CASE GuardUnlock(w)
    <3>1. {"unlock", "lock", "ended"} \subseteq PCs
      BY Zenon DEF PCs
    <3>2. CASE Move(w, "unlock", "lock") /\ UNCHANGED cur
      <4>1. cur[w] # None /\ at' = [at EXCEPT ![cur[w]] = "lock"]
        BY <2>m, <3>1, <3>2, Zenon
      <4> QED BY <2>11, <3>1, <3>2, <4>1, UnlockHandles, Zenon DEF GuardUnlock
    <3>3. CASE Move(w, "unlock", "ended") /\ Leave(w)
      <4>1. cur[w] # None /\ at' = [at EXCEPT ![cur[w]] = "ended"]
        BY <2>m, <3>1, <3>3, Zenon
      <4> QED BY <2>11, <3>1, <3>3, <4>1, UnlockHandles, Zenon DEF GuardUnlock, Leave
    <3> QED BY <2>11, <3>2, <3>3, Zenon DEF GuardUnlock
  <2> QED BY <1>2, <2>1, <2>2, <2>3, <2>4, <2>5, <2>6, <2>7, <2>8, <2>9, <2>10, <2>11, SMTT(15)
          DEF Worker, LockStep
<1> QED BY <1>1, <1>2, Zenon DEF Next

-----------------------------------------------------------------------------
(* The lock.                                                               *)

Rest == ListsOK /\ LockInv

\* A step that leaves the lock with its owner.
LEMMA LockKeeps ==
  ASSUME LockInv, UNCHANGED m_locked, \A q \in Coros : Owns(q)' <=> Owns(q),
         m_waiters' # <<>> => m_locked
  PROVE  LockInv'
BY Zenon DEF LockInv

\* A step of a coroutine that keeps, or still does not have, the lock.
LEMMA StayRest ==
  ASSUME Inv, NEW w \in Workers, NEW from \in PCs, NEW to \in PCs, Move(w, from, to),
         from \in Holding <=> to \in Holding, UNCHANGED <<m_locked, m_waiters, waiters>>
  PROVE  Rest'
<1>h. TypeOK /\ Located /\ ListsOK /\ LockInv
  BY Zenon DEF Inv
<1>p. PICK p \in Coros : p = cur[w]
  BY <1>h, Running, Zenon DEF Move
<1>1. p \notin Items(m_waiters, 0) /\ ~Waits(p)
  BY <1>h, <1>p, Running, Zenon DEF Move
<1>2. at[p] = from /\ at'[p] = to /\ \A q \in Coros \ {p} : at'[q] = at[q]
  BY <1>h, <1>p, Zenon DEF Move, TypeOK
<1>3. Items(m_waiters, 0) \subseteq Coros
  BY <1>h, RangeItems, Zenon DEF TypeOK
<1>w. \A q : Waits(q)' <=> Waits(q)
  BY Zenon DEF Waits
<1>4. ListsOK'
  BY <1>h, <1>w, <1>1, <1>2, <1>3, Zenon DEF ListsOK
<1>5. \A q \in Coros : Owns(q)' <=> Owns(q)
  BY <1>w, <1>2, Zenon DEF Owns
<1>6. LockInv'
  BY <1>h, <1>5, LockKeeps, Zenon DEF LockInv
<1> QED BY <1>4, <1>6, Zenon DEF Rest

\* The free lock is taken by the running coroutine, in await_ready or await_suspend.
LEMMA TakeRest ==
  ASSUME Inv, NEW w \in Workers, NEW from \in PCs \ Holding, Move(w, from, "wait"), try_lock,
         UNCHANGED <<m_waiters, waiters>>
  PROVE  Rest'
<1>h. TypeOK /\ Located /\ ListsOK /\ LockInv
  BY Zenon DEF Inv
<1>p. PICK p \in Coros : p = cur[w]
  BY <1>h, Running, Zenon DEF Move
<1>1. p \notin Items(m_waiters, 0) /\ ~Waits(p)
  BY <1>h, <1>p, Running, Zenon DEF Move
<1>2. at[p] = from /\ at'[p] = "wait" /\ \A q \in Coros \ {p} : at'[q] = at[q]
  BY <1>h, <1>p, Zenon DEF Move, TypeOK
<1>3. Items(m_waiters, 0) \subseteq Coros
  BY <1>h, RangeItems, Zenon DEF TypeOK
<1>w. \A q : Waits(q)' <=> Waits(q)
  BY Zenon DEF Waits
<1>4. ListsOK'
  BY <1>h, <1>w, <1>1, <1>2, <1>3, Zenon DEF ListsOK
<1>5. \A q \in Coros : ~Owns(q)
  BY <1>h, Zenon DEF LockInv, try_lock
<1>6. \A q \in Coros : Owns(q)' <=> q = p
  <2>1. \A q \in Coros \ {p} : Owns(q)' <=> Owns(q)
    BY <1>w, <1>2, Zenon DEF Owns
  <2>2. Owns(p)'
    BY <1>w, <1>1, <1>2, Zenon DEF Owns, Holding
  <2> QED BY <1>5, <2>1, <2>2, Zenon
<1>7. LockInv'
  BY <1>p, <1>6, Zenon DEF LockInv, try_lock
<1> QED BY <1>4, <1>7, Zenon DEF Rest

\* The running coroutine, without the lock, joins one of the wait lists.
LEMMA JoinRest ==
  ASSUME Inv, NEW w \in Workers, NEW from \in PCs \ Holding, NEW to \in PCs, Move(w, from, to),
         UNCHANGED m_locked, NEW u \in Cvs,
         \/ /\ to = "wait" /\ m_locked
            /\ m_waiters' = Append(m_waiters, cur[w]) /\ UNCHANGED waiters
         \/ /\ to = "work" /\ UNCHANGED m_waiters
            /\ waiters' = [waiters EXCEPT ![u] = Append(waiters[u], cur[w])]
  PROVE  Rest'
<1>h. TypeOK /\ Located /\ ListsOK /\ LockInv
  BY Zenon DEF Inv
<1>p. PICK p \in Coros : p = cur[w]
  BY <1>h, Running, Zenon DEF Move
<1>1. p \notin Items(m_waiters, 0) /\ ~Waits(p)
  BY <1>h, <1>p, Running, Zenon DEF Move
<1>2. at[p] = from /\ at'[p] = to /\ \A q \in Coros \ {p} : at'[q] = at[q]
  BY <1>h, <1>p, Zenon DEF Move, TypeOK
<1>3. /\ m_waiters \in Seq(Coros) /\ waiters[u] \in Seq(Coros)
      /\ Items(m_waiters, 0) \subseteq Coros
  BY <1>h, RangeItems, Zenon DEF TypeOK
<1>4. \/ /\ to = "wait" /\ m_locked
         /\ Items(m_waiters', 0) = Items(m_waiters, 0) \cup {p}
         /\ \A q : Waits(q)' <=> Waits(q)
      \/ /\ to = "work" /\ m_waiters' = m_waiters
         /\ Items(m_waiters', 0) = Items(m_waiters, 0)
         /\ \A q : Waits(q)' <=> Waits(q) \/ q = p
  <2>1. CASE to = "wait" /\ m_locked /\ m_waiters' = Append(m_waiters, cur[w]) /\ UNCHANGED waiters
    BY <1>p, <1>3, <2>1, Pushed, Zenon DEF Waits
  <2>2. CASE /\ to = "work" /\ UNCHANGED m_waiters
             /\ waiters' = [waiters EXCEPT ![u] = Append(waiters[u], cur[w])]
    <3>1. waiters'[u] = Append(waiters[u], p) /\ \A v \in Cvs \ {u} : waiters'[v] = waiters[v]
      BY <1>h, <1>p, <2>2, Zenon DEF TypeOK
    <3>2. Items(waiters'[u], 0) = Items(waiters[u], 0) \cup {p}
      BY <1>3, <3>1, Pushed, Zenon
    <3>3. \A q : Waits(q)' <=> Waits(q) \/ q = p
      BY <3>1, <3>2, Zenon DEF Waits
    <3> QED BY <2>2, <3>3, Zenon
  <2> QED BY <2>1, <2>2, Zenon
<1>5. ListsOK'
  BY <1>h, <1>1, <1>2, <1>3, <1>4, Zenon DEF ListsOK
<1>6. \A q \in Coros : Owns(q)' <=> Owns(q)
  <2>1. ~Owns(p) /\ ~Owns(p)'
    BY <1>2, <1>4, Zenon DEF Owns
  <2>2. \A q \in Coros \ {p} : Owns(q)' <=> Owns(q)
    BY <1>2, <1>4, Zenon DEF Owns
  <2> QED BY <2>1, <2>2, Zenon
<1>7. LockInv'
  BY <1>h, <1>4, <1>6, LockKeeps, Zenon DEF LockInv
<1> QED BY <1>5, <1>7, Zenon DEF Rest

\* unlock() by the owner: the first waiter, if there is one, owns the lock next.
LEMMA UnlockRest ==
  ASSUME Inv, NEW w \in Workers, NEW from \in Holding, NEW to \in PCs \ Holding,
         Move(w, from, to), unlock(w), UNCHANGED waiters
  PROVE  Rest'
<1>h. TypeOK /\ Located /\ NoCopies /\ ListsOK /\ LockInv
  BY Zenon DEF Inv
<1>p. PICK p \in Coros : p = cur[w]
  BY <1>h, Running, Zenon DEF Move
<1>1. p \notin Items(m_waiters, 0) /\ ~Waits(p)
  BY <1>h, <1>p, Running, Zenon DEF Move
<1>2. at[p] = from /\ at'[p] = to /\ \A q \in Coros \ {p} : at'[q] = at[q]
  BY <1>h, <1>p, Zenon DEF Move, TypeOK
<1>w. \A q : Waits(q)' <=> Waits(q)
  BY Zenon DEF Waits
<1>3. /\ m_waiters \in Seq(Coros) /\ NoRepeat(m_waiters, 0)
      /\ Items(m_waiters, 0) \subseteq Coros
  BY <1>h, RangeItems, Zenon DEF TypeOK, NoCopies
<1>4. Owns(p) /\ m_locked /\ \A q \in Coros : Owns(q) => q = p
  <2>1. Owns(p)
    BY <1>1, <1>2, Zenon DEF Owns
  <2> QED BY <1>h, <2>1, Zenon DEF LockInv
<1>6. ~Owns(p)'
  BY <1>2, Zenon DEF Owns
<1>7. CASE m_waiters = <<>>
  <2>1. m_waiters' = m_waiters /\ ~m_locked'
    BY <1>7, Zenon DEF unlock
  <2>2. \A q \in Coros \ {p} : Owns(q)' <=> Owns(q)
    BY <1>w, <1>2, <2>1, Zenon DEF Owns
  <2>3. LockInv'
    BY <1>4, <1>6, <1>7, <2>1, <2>2, Zenon DEF LockInv
  <2>4. ListsOK'
    BY <1>h, <1>w, <1>1, <1>2, <1>3, <2>1, Zenon DEF ListsOK
  <2> QED BY <2>3, <2>4, Zenon DEF Rest
<1>8. CASE m_waiters # <<>>
  <2>1. m_waiters' = Tail(m_waiters) /\ m_locked' = m_locked
    BY <1>8, Zenon DEF unlock
  <2>h. PICK h \in Coros : h = Head(m_waiters)
    BY <1>3, <1>8, Popped, Zenon
  <2>2. h \in Items(m_waiters, 0) /\ Items(m_waiters', 0) = Items(m_waiters, 0) \ {h}
    BY <1>3, <1>8, <2>1, <2>h, Popped, Zenon
  <2>3. h # p /\ at[h] \in {"wait", "work"} /\ ~Waits(h)
    <3>1. In(h, "lock", None) /\ "lock" \in Kinds /\ None \in Spots
      BY <2>2, Zenon DEF In, Kinds, Spots
    <3>2. Only(h, "lock", None)
      BY <1>h, <3>1, InOnly, Zenon
    <3>3. ~Waits(h)
      BY <3>1, <3>2, OnlyWaits, Zenon
    <3> QED BY <1>h, <1>1, <2>2, <3>3, Zenon DEF ListsOK
  <2>4. Owns(h)'
    BY <1>w, <1>2, <2>2, <2>3, Zenon DEF Owns, Holding
  <2>5. \A q \in Coros \ {p, h} : Owns(q)' <=> Owns(q)
    BY <1>w, <1>2, <2>2, Zenon DEF Owns
  <2>6. LockInv'
    BY <1>4, <1>6, <2>1, <2>4, <2>5, Zenon DEF LockInv
  <2>7. ListsOK'
    BY <1>h, <1>w, <1>1, <1>2, <1>3, <2>2, Zenon DEF ListsOK
  <2> QED BY <2>6, <2>7, Zenon DEF Rest
<1> QED BY <1>7, <1>8, Zenon

\* The notifier holds the lock, so the coroutine it notifies waits for the mutex.
LEMMA NotifyRest ==
  ASSUME Inv, NEW w \in Workers, NotifyWaiter(w)
  PROVE  Rest'
<1>h. TypeOK /\ Located /\ NoCopies /\ ListsOK /\ LockInv
  BY Zenon DEF Inv
<1>v. PICK u \in Cvs : u = Notifies(cur[w])
  BY Zenon DEF Notifies, Cvs
<1>0. Move(w, "notifying", "notifying") /\ cnt[u] > 0
  BY <1>v, Zenon DEF NotifyWaiter
<1>p. PICK p \in Coros : p = cur[w]
  BY <1>h, <1>0, Running, Zenon DEF Move
<1>1. p \notin Items(m_waiters, 0) /\ ~Waits(p)
  BY <1>h, <1>0, <1>p, Running, Zenon DEF Move
<1>2. at[p] = "notifying" /\ at' = at
  BY <1>h, <1>0, <1>p, Zenon DEF Move, TypeOK
<1>3. /\ m_waiters \in Seq(Coros) /\ waiters[u] \in Seq(Coros) /\ waiters[u] # <<>>
      /\ NoRepeat(waiters[u], 0) /\ Items(m_waiters, 0) \subseteq Coros
  <2>1. /\ m_waiters \in Seq(Coros) /\ waiters[u] \in Seq(Coros) /\ NoRepeat(waiters[u], 0)
        /\ cnt[u] \in Nat /\ cnt[u] <= Len(waiters[u])
    BY <1>h, Zenon DEF TypeOK, NoCopies
  <2>2. waiters[u] # <<>>
    BY ONLY <1>0, <2>1
  <2> QED BY <2>1, <2>2, RangeItems, Zenon
<1>4. m_locked
  <2>1. Owns(p)
    BY <1>1, <1>2, Zenon DEF Owns, Holding
  <2> QED BY <1>h, <2>1, Zenon DEF LockInv
<1>h1. PICK h \in Coros : h = Head(waiters[u])
  BY <1>3, Popped, Zenon
<1>5. /\ h \in Items(waiters[u], 0) /\ Tail(waiters[u]) \in Seq(Coros)
      /\ Items(Tail(waiters[u]), 0) = Items(waiters[u], 0) \ {h}
  BY <1>3, <1>h1, Popped, Zenon
<1>6. CASE ~cond(h)
  <2>1. /\ waiters' = [waiters EXCEPT ![u] = Append(Tail(waiters[u]), h)]
        /\ m_waiters' = m_waiters /\ m_locked' = m_locked
    BY <1>6, <1>v, <1>h1, Zenon DEF NotifyWaiter, mutex_vars
  <2>2. /\ waiters'[u] = Append(Tail(waiters[u]), h)
        /\ \A v \in Cvs \ {u} : waiters'[v] = waiters[v]
    BY <1>h, <2>1, Zenon DEF TypeOK
  <2>3. Items(waiters'[u], 0) = Items(Tail(waiters[u]), 0) \cup {h}
    BY <1>5, <2>2, Pushed, Zenon
  <2>4. Items(waiters'[u], 0) = Items(waiters[u], 0)
    BY ONLY <1>5, <2>3, Zenon
  <2>5. \A q : Waits(q)' <=> Waits(q)
    BY <2>2, <2>4, Zenon DEF Waits
  <2>6. \A q \in Coros : Owns(q)' <=> Owns(q)
    BY <1>2, <2>1, <2>5, Zenon DEF Owns
  <2>7. LockInv'
    BY <1>h, <1>4, <2>1, <2>6, LockKeeps, Zenon
  <2>8. ListsOK'
    BY <1>h, <1>2, <2>1, <2>5, Zenon DEF ListsOK
  <2> QED BY <2>7, <2>8, Zenon DEF Rest
<1>7. CASE cond(h)
  <2>1. /\ waiters' = [waiters EXCEPT ![u] = Tail(waiters[u])]
        /\ m_waiters' = Append(m_waiters, h) /\ m_locked' = m_locked
    BY <1>4, <1>7, <1>v, <1>h1, Zenon DEF NotifyWaiter, enqueue_waiter, try_lock
  <2>2. waiters'[u] = Tail(waiters[u]) /\ \A v \in Cvs \ {u} : waiters'[v] = waiters[v]
    BY <1>h, <2>1, Zenon DEF TypeOK
  <2>3. Items(m_waiters', 0) = Items(m_waiters, 0) \cup {h}
    BY <1>3, <2>1, Pushed, Zenon
  <2>4. \A q : (Waits(q)' => Waits(q)) /\ (Waits(q) => Waits(q)' \/ q = h) /\ Waits(h)
    BY <1>5, <2>2, Zenon DEF Waits
  <2>5. \A q \in Coros : Owns(q)' <=> Owns(q)
    BY <1>2, <2>3, <2>4, Zenon DEF Owns
  <2>6. LockInv'
    BY <1>h, <1>4, <2>1, <2>5, LockKeeps, Zenon
  <2>7. ListsOK'
    BY <1>h, <1>2, <1>3, <2>3, <2>4, Zenon DEF ListsOK
  <2> QED BY <2>6, <2>7, Zenon DEF Rest
<1> QED BY <1>6, <1>7, Zenon

-----------------------------------------------------------------------------
(* The bounded queue.                                                      *)

\* A step that counts, pushes and pops nothing, and puts nobody into the counted batch.
LEMMA StayQueue ==
  ASSUME QueueInv, UNCHANGED <<client, producers, left, que, loop_cnt>>,
         \A p \in Coros : at'[p] = "move_items" => at[p] = "move_items"
  PROVE  QueueInv'
BY Zenon DEF QueueInv

\* A step of the running coroutine moves only that coroutine.
LEMMA MoveIs ==
  ASSUME TypeOK, Located, NEW w \in Workers, NEW from, NEW to, Move(w, from, to)
  PROVE  /\ cur[w] \in Coros /\ at[cur[w]] = from /\ at'[cur[w]] = to
         /\ \A q \in Coros \ {cur[w]} : at'[q] = at[q]
BY Zenon DEF TypeOK, Move

\* A turn is taken, which no producer does.
LEMMA TurnQueue ==
  ASSUME Inv, NEW w \in Workers, TakeTurn(w)
  PROVE  QueueInv'
<1>h. TypeOK /\ Located /\ QueueInv
  BY Zenon DEF Inv
<1>0. /\ Move(w, "work", "notify") /\ client = "turns" /\ left' = [left EXCEPT ![cur[w]] = left[cur[w]] - 1]
      /\ UNCHANGED <<client, producers, que, loop_cnt>>
  BY Zenon DEF TakeTurn, queue_vars
<1>p. PICK p \in Coros : p = cur[w] /\ at'[p] = "notify" /\ \A q \in Coros \ {p} : at'[q] = at[q]
  BY <1>h, <1>0, MoveIs, Zenon
<1>1. left' \in [Coros -> Int] /\ producers = {}
  BY <1>h, <1>0, <1>p DEF QueueInv
<1>2. \A q \in Coros : at'[q] = "move_items" => at[q] = "move_items"
  BY <1>p, Zenon
<1> QED BY <1>h, <1>0, <1>1, <1>2, Zenon DEF QueueInv

\* The batch fits.
LEMMA CountQueue ==
  ASSUME Inv, NEW w \in Workers, CountBatch(w)
  PROVE  QueueInv'
<1>h. TypeOK /\ Located /\ QueueInv
  BY Zenon DEF Inv
<1>0. /\ Move(w, "work", "move_items") /\ loop_cnt' = [loop_cnt EXCEPT ![cur[w]] = Batch(cur[w])]
      /\ UNCHANGED <<client, producers, left, que>>
  BY Zenon DEF CountBatch
<1>p. PICK p \in Coros : p = cur[w] /\ \A q \in Coros \ {p} : at'[q] = at[q]
  BY <1>h, <1>0, MoveIs, Zenon
<1>1. /\ Batch(p) \in Int /\ 0 <= Batch(p)
      /\ p \in producers => Batch(p) <= left[p] /\ que + Batch(p) <= Capacity
      /\ p \notin producers => Batch(p) <= que
  <2>1. /\ que \in 0 .. Capacity /\ left[p] \in Int
        /\ p \in producers => 0 <= left[p]
    BY <1>h, Zenon DEF QueueInv
  <2>2. Capacity \in Nat
    BY ConditionAssumption
  <2> QED BY ONLY <2>1, <2>2 DEF Batch
<1>2. /\ loop_cnt' \in [Coros -> Int] /\ loop_cnt'[p] = Batch(p)
      /\ \A q \in Coros \ {p} : loop_cnt'[q] = loop_cnt[q]
  BY <1>h, <1>0, <1>p, <1>1, Zenon DEF QueueInv
<1> QED BY <1>h, <1>0, <1>p, <1>1, <1>2, Zenon DEF QueueInv

\* The items are moved. Nobody else is between the counting and the moving, since that
\* takes the lock.
LEMMA ItemsQueue ==
  ASSUME Inv, NEW w \in Workers, MoveItems(w)
  PROVE  QueueInv'
<1>h. TypeOK /\ Located /\ ListsOK /\ LockInv /\ QueueInv
  BY Zenon DEF Inv
<1>0. Move(w, "move_items", "notify") /\ UNCHANGED <<client, producers, loop_cnt>>
  BY Zenon DEF MoveItems
<1>p. PICK p \in Coros : /\ p = cur[w] /\ at[p] = "move_items" /\ at'[p] = "notify"
                         /\ \A q \in Coros \ {p} : at'[q] = at[q]
  BY <1>h, <1>0, MoveIs, Zenon
<1>1. ASSUME NEW q \in Coros, at'[q] = "move_items" PROVE FALSE
  <2>1. at[q] = "move_items" /\ q # p
    BY <1>p, <1>1, Zenon
  <2>2. \A x \in Coros : at[x] = "move_items" => Owns(x)
    BY <1>h, Zenon DEF Owns, ListsOK, Holding
  <2> QED BY <1>h, <1>p, <2>1, <2>2, Zenon DEF LockInv
<1>2. /\ que \in 0 .. Capacity /\ Capacity \in Nat /\ left[p] \in Int /\ loop_cnt[p] \in Int
      /\ 0 <= loop_cnt[p]
      /\ p \in producers => loop_cnt[p] <= left[p] /\ que + loop_cnt[p] <= Capacity
      /\ p \notin producers => loop_cnt[p] <= que
  BY <1>h, <1>p, ConditionAssumption, Zenon DEF QueueInv
<1>3. CASE p \in producers
  <2>1. que' = que + loop_cnt[p] /\ left' = [left EXCEPT ![p] = left[p] - loop_cnt[p]]
    BY <1>p, <1>3, Zenon DEF MoveItems
  <2>2. /\ que + loop_cnt[p] \in 0 .. Capacity
        /\ left[p] - loop_cnt[p] \in Int /\ 0 <= left[p] - loop_cnt[p]
    BY ONLY <1>2, <1>3
  <2>3. /\ left' \in [Coros -> Int] /\ left'[p] = left[p] - loop_cnt[p]
        /\ \A q \in Coros \ {p} : left'[q] = left[q]
    BY <1>h, <2>1, <2>2, Zenon DEF QueueInv
  <2>4. \A q \in Coros : q \in producers => 0 <= left'[q]
    BY <1>h, <2>2, <2>3, Zenon DEF QueueInv
  <2> QED BY <1>h, <1>0, <1>1, <2>1, <2>2, <2>3, <2>4, Zenon DEF QueueInv
<1>4. CASE p \notin producers
  <2>1. que' = que - loop_cnt[p] /\ left' = left
    BY <1>p, <1>4, Zenon DEF MoveItems
  <2>2. que - loop_cnt[p] \in 0 .. Capacity
    BY ONLY <1>2, <1>4
  <2> QED BY <1>h, <1>0, <1>1, <2>1, <2>2, Zenon DEF QueueInv
<1> QED BY <1>3, <1>4, Zenon

\* A consumer that leaves its loop.
LEMMA LeaveQueue ==
  ASSUME Inv, NEW w \in Workers, LeaveLoop(w)
  PROVE  QueueInv'
<1>h. TypeOK /\ Located /\ QueueInv
  BY Zenon DEF Inv
<1>0. UNCHANGED <<client, producers, que, loop_cnt>>
  BY Zenon DEF LeaveLoop
<1>1. CASE Move(w, "wait", "unlock") /\ UNCHANGED left
  <2>1. PICK p \in Coros : at'[p] = "unlock" /\ \A q \in Coros \ {p} : at'[q] = at[q]
    BY <1>h, <1>1, MoveIs, Zenon
  <2>2. \A q \in Coros : at'[q] = "move_items" => at[q] = "move_items"
    BY <2>1, Zenon
  <2> QED BY <1>h, <1>0, <1>1, <2>2, StayQueue, Zenon
<1>2. CASE /\ Move(w, "wait", "notify") /\ cur[w] \notin producers
           /\ left' = [left EXCEPT ![cur[w]] = 0]
  <2>2. PICK p \in Coros :
          p = cur[w] /\ at'[p] = "notify" /\ \A q \in Coros \ {p} : at'[q] = at[q]
    BY <1>h, <1>2, MoveIs, Zenon
  <2>1. \A q \in Coros : at'[q] = "move_items" => at[q] = "move_items"
    BY <2>2, Zenon
  <2>3. left' \in [Coros -> Int] /\ \A q \in Coros \ {p} : left'[q] = left[q]
    BY <1>h, <1>2, <2>2 DEF QueueInv
  <2>4. p \notin producers
    BY <1>2, <2>2, Zenon
  <2> QED BY <1>h, <1>0, <2>1, <2>3, <2>4, Zenon DEF QueueInv
<1> QED BY <1>1, <1>2, Zenon DEF LeaveLoop

\* Every other step leaves the queue alone.
LEMMA QueueStep ==
  ASSUME Inv, Next
  PROVE  QueueInv'
<1>h. TypeOK /\ Located /\ QueueInv
  BY Zenon DEF Inv
<1> USE DEF client_vars, queue_vars
<1>1. ASSUME NEW w \in Workers, NEW from, NEW to, Move(w, from, to), to # "move_items",
             UNCHANGED client_vars
      PROVE  QueueInv'
  <2>1. \A q \in Coros : at'[q] = "move_items" => at[q] = "move_items"
    BY <1>h, <1>1, MoveIs, Zenon
  <2> QED BY <1>h, <1>1, <2>1, StayQueue, Zenon
<1>2. CASE Over
  BY <1>h, <1>2, StayQueue, Zenon DEF Over, vars
<1>3. ASSUME NEW w \in Workers, Worker(w) PROVE QueueInv'
  <2>1. CASE LockStep(w)
    <3>1. CASE Resume(w) /\ UNCHANGED client_vars
      BY <1>h, <3>1, StayQueue, Zenon DEF Resume
    <3>2. CASE (await_ready(w) \/ await_suspend(w)) /\ UNCHANGED client_vars
      BY <1>1, <3>2, Zenon DEF await_ready, await_suspend
    <3> QED BY <2>1, <3>1, <3>2, Zenon DEF LockStep
  <2>2. CASE WaitReady(w) \/ WaitUnlock(w) \/ WaitPush(w)
    BY <1>1, <2>2, Zenon DEF WaitReady, WaitUnlock, WaitPush
  <2>3. CASE NotifyBegin(w) \/ NotifyWaiter(w)
    BY <1>1, <2>3, Zenon DEF NotifyBegin, NotifyWaiter
  <2>4. CASE NotifyEnd(w) \/ GuardUnlock(w)
    BY <1>1, <2>4, Zenon DEF NotifyEnd, GuardUnlock
  <2> QED BY <1>3, <2>1, <2>2, <2>3, <2>4, TurnQueue, CountQueue, ItemsQueue, LeaveQueue, Zenon
          DEF Worker
<1> QED BY <1>2, <1>3, Zenon DEF Next

-----------------------------------------------------------------------------
\* Every step keeps the inductive invariant.
LEMMA InvStep ==
  ASSUME Inv, [Next]_vars
  PROVE  Inv'
<1>1. ASSUME UNCHANGED <<at, m_locked, m_waiters, waiters>> PROVE Rest'
  BY <1>1, Zenon DEF Rest, Inv, ListsOK, LockInv, Owns, Waits
<1>2. CASE UNCHANGED vars
  <2>1. /\ UNCHANGED <<queue, cur, at, m_locked, m_waiters, waiters, cnt>>
        /\ UNCHANGED <<client, producers, left, que, loop_cnt>>
    BY <1>2, Zenon DEF vars, run_vars, mutex_vars, cv_vars, client_vars, queue_vars
  <2>2. Handles'
    BY <2>1, StayHandles, Zenon DEF Inv, Handles, TypeOK
  <2>3. QueueInv'
    BY <2>1, StayQueue, Zenon DEF Inv
  <2> QED BY <1>1, <2>1, <2>2, <2>3, Zenon DEF Inv, Rest, Handles
<1>3. CASE Next
  <2>1. Handles'
    BY <1>3, HandlesStep, Zenon DEF Inv, Handles
  <2>2. ASSUME Over PROVE Rest'
    <3>1. UNCHANGED <<at, m_locked, m_waiters, waiters>>
      BY <2>2, Zenon DEF Over, vars, mutex_vars, cv_vars
    <3> QED BY <1>1, <3>1, Zenon
  <2>3. ASSUME NEW w \in Workers, Worker(w) PROVE Rest'
    <3>1. CASE Resume(w) /\ UNCHANGED <<cv_vars, client_vars>>
      BY <1>1, <3>1, Zenon DEF Resume, mutex_vars, cv_vars
    <3>2. CASE await_ready(w) /\ UNCHANGED <<cv_vars, client_vars>>
      <4>1. CASE Move(w, "lock", "wait") /\ try_lock
        BY <3>2, <4>1, TakeRest, Zenon DEF await_ready, cv_vars, PCs, Holding
      <4>2. CASE Move(w, "lock", "suspend") /\ UNCHANGED m_locked
        BY <3>2, <4>2, StayRest, Zenon DEF await_ready, cv_vars, PCs, Holding
      <4> QED BY <3>2, <4>1, <4>2, Zenon DEF await_ready
    <3>3. CASE await_suspend(w) /\ UNCHANGED <<cv_vars, client_vars>>
      <4>1. CASE try_lock /\ UNCHANGED m_waiters
        BY <3>3, <4>1, TakeRest, Zenon DEF await_suspend, cv_vars, PCs, Holding
      <4>2. CASE m_locked /\ m_waiters' = Append(m_waiters, cur[w]) /\ UNCHANGED m_locked
        BY <3>3, <4>2, JoinRest, Zenon DEF await_suspend, cv_vars, PCs, Holding, Cvs
      <4> QED BY <3>3, <4>1, <4>2, Zenon DEF await_suspend, enqueue_waiter
    <3>4. CASE WaitReady(w)
      BY <3>4, StayRest, Zenon DEF WaitReady, mutex_vars, cv_vars, PCs, Holding
    <3>5. CASE WaitUnlock(w)
      BY <3>5, UnlockRest, Zenon DEF WaitUnlock, cv_vars, PCs, Holding
    <3>6. CASE WaitPush(w)
      <4>1. PICK u \in Cvs : u = WaitsOn(cur[w])
        BY Zenon DEF WaitsOn, Cvs
      <4>2. /\ waiters' = [waiters EXCEPT ![u] = Append(waiters[u], cur[w])]
            /\ UNCHANGED <<m_locked, m_waiters>> /\ Move(w, "wait_push", "work")
        BY <3>6, <4>1, Zenon DEF WaitPush, mutex_vars
      <4> QED BY <4>2, JoinRest, Zenon DEF PCs, Holding
    <3>7. CASE TakeTurn(w) \/ CountBatch(w) \/ MoveItems(w) \/ LeaveLoop(w)
      <4>1. UNCHANGED <<m_locked, m_waiters, waiters>>
        BY <3>7, Zenon DEF TakeTurn, CountBatch, MoveItems, LeaveLoop, mutex_vars, cv_vars
      <4>2. CASE TakeTurn(w) \/ CountBatch(w)
        BY <4>1, <4>2, StayRest, Zenon DEF TakeTurn, CountBatch, PCs, Holding
      <4>3. CASE MoveItems(w) \/ LeaveLoop(w)
        BY <4>1, <4>3, StayRest, Zenon DEF MoveItems, LeaveLoop, PCs, Holding
      <4> QED BY <3>7, <4>2, <4>3, Zenon
    <3>8. CASE NotifyBegin(w)
      BY <3>8, StayRest, Zenon DEF NotifyBegin, mutex_vars, PCs, Holding
    <3>9. CASE NotifyWaiter(w)
      BY <3>9, NotifyRest, Zenon
    <3>10. CASE NotifyEnd(w)
      BY <3>10, StayRest, Zenon DEF NotifyEnd, mutex_vars, cv_vars, PCs, Holding
    <3>11. CASE GuardUnlock(w)
      BY <3>11, UnlockRest, Zenon DEF GuardUnlock, cv_vars, PCs, Holding
    <3> QED BY <2>3, <3>1, <3>2, <3>3, <3>4, <3>5, <3>6, <3>7, <3>8, <3>9, <3>10, <3>11, Zenon
            DEF Worker, LockStep
  <2>4. Rest'
    BY ONLY <1>3, <2>2, <2>3, Zenon DEF Next
  <2>5. QueueInv'
    BY <1>3, QueueStep, Zenon
  <2> QED BY <2>1, <2>4, <2>5, Zenon DEF Inv, Rest, Handles
<1> QED BY <1>2, <1>3, Zenon

\* Initially every coroutine is in the queue of the worker it was submitted to.
LEMMA InvInit ==
  ASSUME Init
  PROVE  Inv
<1>1. PICK home \in [Coros -> Workers] :
          \A w \in Workers : Range(queue[w]) = {p \in Coros : home[p] = w}
  BY Zenon DEF Init
<1>2. ASSUME NEW w \in Workers PROVE queue[w] \in Seq(Coros) /\ NoRepeat(queue[w], 0)
  <2>0. queue[w] \in UNION {[1 .. n -> Coros] : n \in 0 .. K}
    BY Zenon DEF Init
  <2>1. PICK n \in 0 .. K : queue[w] \in [1 .. n -> Coros]
    BY ONLY <2>0, Zenon
  <2>2. K \in Nat
    BY ConditionAssumption, FS_CardinalityType, Zenon DEF K
  <2>3. n \in Nat
    BY <2>2
  <2>4. queue[w] \in Seq(Coros)
    BY <2>1, <2>3
  <2>5. /\ \A i, j \in 1 .. n : i < j => queue[w][i] < queue[w][j]
        /\ \A i \in 1 .. n : queue[w][i] \in Int
        /\ DOMAIN queue[w] = 1 .. n /\ Len(queue[w]) = n
    <3>1. DOMAIN queue[w] = 1 .. n /\ \A i \in 1 .. n : queue[w][i] \in Coros
      BY <2>1, Zenon
    <3>2. Coros \subseteq Int
      BY <2>2, ConditionAssumption
    <3>3. \A i, j \in DOMAIN queue[w] : i < j => queue[w][i] < queue[w][j]
      BY Zenon DEF Init
    <3>4. Len(queue[w]) = n
      BY <2>3, <2>4, <3>1
    <3> QED BY ONLY <3>1, <3>2, <3>3, <3>4, Zenon
  <2>6. ASSUME NEW i \in 1 .. n, NEW j \in 1 .. n, queue[w][i] = queue[w][j] PROVE i = j
    BY <2>3, <2>5, <2>6
  <2>7. 0 + 1 .. Len(queue[w]) = 1 .. n
    BY <2>5
  <2> QED BY <2>4, <2>6, <2>7, Zenon DEF NoRepeat
<1>3. \A w \in Workers : Items(queue[w], 0) = {p \in Coros : home[p] = w}
  BY <1>1, <1>2, RangeItems, Zenon
<1>4. <<>> \in Seq(Coros) /\ Items(<<>>, 0) = {} /\ NoRepeat(<<>>, 0) /\ Len(<<>>) = 0
  BY DEF Items, NoRepeat
<1>5. TypeOK
  <2>1. queue \in [Workers -> Seq(Coros)]
    BY <1>2, Zenon DEF Init
  <2>2. cur \in [Workers -> Coros \cup {None}] /\ at \in [Coros -> PCs]
    BY Zenon DEF Init, PCs
  <2>3. /\ m_locked \in BOOLEAN /\ m_waiters \in Seq(Coros) /\ waiters \in [Cvs -> Seq(Coros)]
        /\ cnt \in [Cvs -> Nat] /\ \A v \in Cvs : cnt[v] <= Len(waiters[v])
    <3>1. /\ m_locked = FALSE /\ m_waiters = <<>> /\ waiters = [v \in Cvs |-> <<>>]
          /\ cnt = [v \in Cvs |-> 0]
      BY Zenon DEF Init
    <3>2. m_locked \in BOOLEAN
      BY <3>1, Zenon
    <3>3. 0 \in Nat /\ 0 <= Len(<<>>)
      BY ONLY <1>4
    <3> QED BY ONLY <1>4, <3>1, <3>2, <3>3, Zenon
  <2> QED BY <2>1, <2>2, <2>3, Zenon DEF TypeOK
<1>6. NoCopies
  BY <1>2, <1>4, Zenon DEF Init, NoCopies
<1>7. Located
  <2> SUFFICES ASSUME NEW p \in Coros PROVE Only(p, "queue", home[p]) /\ at[p] # "ended"
    BY <1>1, Zenon DEF Located, Kinds, Spots
  <2>1. at[p] # "ended" /\ \A v \in Workers : cur[v] # p
    BY MutexAssumption, Zenon DEF Init
  <2>2. \A v \in Workers : p \in Items(queue[v], 0) <=> v = home[p]
    BY <1>3, Zenon
  <2>3. p \notin Items(m_waiters, 0) /\ ~Waits(p) /\ home[p] \in Workers
    BY <1>1, <1>4, Zenon DEF Init, Waits
  <2> QED BY <2>1, <2>2, <2>3, Zenon DEF Only, In, Kinds, Waits
<1>8. ListsOK
  BY <1>4, Zenon DEF Init, ListsOK, Waits
<1>9. LockInv
  BY Zenon DEF Init, LockInv, Owns, Holding
<1>10. QueueInv
  <2>1. /\ que = 0 /\ loop_cnt = [p \in Coros |-> 0] /\ at = [p \in Coros |-> "lock"]
        /\ left = [p \in Coros |-> IF client = "turns" \/ p \in producers THEN Rounds ELSE 1]
        /\ producers = {p \in Coros : p < stop_flag} /\ (client = "turns" => stop_flag = 0)
    BY Zenon DEF Init
  <2>2. Rounds \in Nat /\ Capacity \in Nat /\ Coros = 0 .. K - 1 /\ K \in Nat
    BY ConditionAssumption, FS_CardinalityType, Zenon DEF K
  <2>3. client = "turns" => producers = {}
    BY ONLY <2>1, <2>2
  <2>4. 0 \in 0 .. Capacity /\ left \in [Coros -> Int] /\ loop_cnt \in [Coros -> Int]
    BY ONLY <2>1, <2>2
  <2>5. \A p \in Coros : p \in producers => 0 <= left[p]
    BY ONLY <2>1, <2>2
  <2> QED BY <2>1, <2>3, <2>4, <2>5, Zenon DEF QueueInv
<1> QED BY <1>5, <1>6, <1>7, <1>8, <1>9, <1>10, Zenon DEF Inv

\* The inductive invariant holds.
LEMMA Inductive == Spec => []Inv
<1>1. Init => Inv
  BY InvInit, Zenon
<1>2. Inv /\ [Next]_vars => Inv'
  BY InvStep, Zenon
<1> QED BY <1>1, <1>2, PTL DEF Spec

\* The owners the property speaks of.
LEMMA OwnersOwn ==
  ASSUME TypeOK
  PROVE  Owners = {p \in Coros : Owns(p)}
<1>1. /\ Range(m_waiters) = Items(m_waiters, 0)
      /\ \A v \in Cvs : Range(waiters[v]) = Items(waiters[v], 0)
  BY RangeItems, Zenon DEF TypeOK
<1> QED BY <1>1, Zenon DEF Owners, Owns, Waiting, Holding, Waits

\* coro::mutex excludes and is locked exactly while it has an owner, with any number
\* of coroutines on any number of workers, across try_lock, the hand-over by
\* unlock() and the one by a notify.
THEOREM LockOwnedCorrect == Spec => []LockOwned
<1>1. Inv => LockOwned
  BY OwnersOwn, Zenon DEF Inv, LockInv, LockOwned
<1> QED BY <1>1, Inductive, PTL

\* The queue of the producers and consumers is never overfilled and never popped when it is
\* empty, for any number of them and any capacity: wait() may return with its condition
\* false, but nobody comes between the count after it and the last push or pop.
THEOREM QueueBoundedCorrect == Spec => []QueueBounded
<1>1. Inv => QueueBounded
  BY Zenon DEF Inv, QueueInv, QueueBounded
<1> QED BY <1>1, Inductive, PTL

\* How often a handle is in a list without copies.
LEMMA OccursIs ==
  ASSUME NEW q \in Seq(Coros), NEW p, NoRepeat(q, 0)
  PROVE  Cardinality({i \in DOMAIN q : q[i] = p}) = IF p \in Items(q, 0) THEN 1 ELSE 0
<1>d. DOMAIN q = 0 + 1 .. Len(q)
  OBVIOUS
<1>1. CASE p \in Items(q, 0)
  <2>1. PICK i \in DOMAIN q : q[i] = p
    BY <1>d, <1>1, Zenon DEF Items
  <2>2. {j \in DOMAIN q : q[j] = p} = {i}
    BY <1>d, <2>1, Zenon DEF NoRepeat
  <2> QED BY <1>1, <2>2, FS_Singleton, Zenon
<1>2. CASE p \notin Items(q, 0)
  <2>1. {j \in DOMAIN q : q[j] = p} = {}
    BY <1>d, <1>2, Zenon DEF Items
  <2> QED BY <1>2, <2>1, FS_EmptySet, Zenon
<1> QED BY <1>1, <1>2, Zenon

\* How often it is in the task queues, or in the lists of the condition variables.
LEMMA CopiesIs ==
  ASSUME NEW X, NEW ls, \A x \in X : ls[x] \in Seq(Coros) /\ NoRepeat(ls[x], 0), NEW p
  PROVE  /\ (\A v \in X : p \notin Items(ls[v], 0)) => Copies(p, ls, X) = 0
         /\ \A w \in X : (\A v \in X : p \in Items(ls[v], 0) <=> v = w) => Copies(p, ls, X) = 1
<1>d. \A v \in X : DOMAIN ls[v] = 0 + 1 .. Len(ls[v])
  OBVIOUS
<1>1. ASSUME \A v \in X : p \notin Items(ls[v], 0) PROVE Copies(p, ls, X) = 0
  <2>1. \A v \in X : {i \in DOMAIN ls[v] : ls[v][i] = p} = {}
    BY <1>d, <1>1, Zenon DEF Items
  <2>2. UNION {{x} \X {i \in DOMAIN ls[x] : ls[x][i] = p} : x \in X} = {}
    BY <2>1, Zenon
  <2> QED BY <2>2, FS_EmptySet, Zenon DEF Copies
<1>2. ASSUME NEW w \in X, \A v \in X : p \in Items(ls[v], 0) <=> v = w
      PROVE  Copies(p, ls, X) = 1
  <2>1. PICK i \in DOMAIN ls[w] : ls[w][i] = p
    BY <1>d, <1>2, Zenon DEF Items
  <2>2. {j \in DOMAIN ls[w] : ls[w][j] = p} = {i}
    BY <1>d, <2>1 DEF NoRepeat
  <2>3. \A v \in X \ {w} : {j \in DOMAIN ls[v] : ls[v][j] = p} = {}
    BY <1>d, <1>2, Zenon DEF Items
  <2>4. UNION {{x} \X {j \in DOMAIN ls[x] : ls[x][j] = p} : x \in X} = {<<w, i>>}
    BY <2>2, <2>3
  <2> QED BY <2>4, FS_Singleton, Zenon DEF Copies
<1> QED BY <1>1, <1>2, Zenon

\* The same for the worker that runs it.
LEMMA HeldIs ==
  ASSUME NEW p
  PROVE  /\ (\A v \in Workers : cur[v] # p) => Cardinality({w \in Workers : cur[w] = p}) = 0
         /\ \A w \in Workers : (\A v \in Workers : cur[v] = p <=> v = w)
                                  => Cardinality({u \in Workers : cur[u] = p}) = 1
<1>1. ASSUME \A v \in Workers : cur[v] # p PROVE Cardinality({w \in Workers : cur[w] = p}) = 0
  <2>1. {w \in Workers : cur[w] = p} = {}
    BY <1>1, Zenon
  <2> QED BY <2>1, FS_EmptySet, Zenon
<1>2. ASSUME NEW w \in Workers, \A v \in Workers : cur[v] = p <=> v = w
      PROVE  Cardinality({u \in Workers : cur[u] = p}) = 1
  <2>1. {u \in Workers : cur[u] = p} = {w}
    BY <1>2, Zenon
  <2> QED BY <2>1, FS_Singleton, Zenon
<1> QED BY <1>1, <1>2, Zenon

\* No wait, notify or hand-over loses a handle or puts it in two places, with any
\* number of coroutines on any number of workers.
THEOREM HandleInOnePlaceCorrect == Spec => []HandleInOnePlace
<1>1. ASSUME Inv PROVE HandleInOnePlace
  <2>h. TypeOK /\ Located /\ NoCopies
    BY <1>1, Zenon DEF Inv
  <2>l. /\ \A x \in Workers : queue[x] \in Seq(Coros) /\ NoRepeat(queue[x], 0)
        /\ \A x \in Cvs : waiters[x] \in Seq(Coros) /\ NoRepeat(waiters[x], 0)
    BY <2>h, Zenon DEF TypeOK, NoCopies
  <2> SUFFICES ASSUME NEW p \in Coros
               PROVE  Cardinality({w \in Workers : cur[w] = p}) + Copies(p, queue, Workers)
                          + Cardinality({i \in DOMAIN m_waiters : m_waiters[i] = p})
                          + Copies(p, waiters, Cvs)
                          = IF at[p] = "ended" THEN 0 ELSE 1
    BY Zenon DEF HandleInOnePlace
  <2>1. Cardinality({i \in DOMAIN m_waiters : m_waiters[i] = p})
          = IF p \in Items(m_waiters, 0) THEN 1 ELSE 0
    BY <2>h, OccursIs, Zenon DEF TypeOK, NoCopies
  <2>2. CASE at[p] = "ended"
    <3>1. Nowhere(p)
      BY <2>h, <2>2, Zenon DEF Located
    <3>2. /\ \A v \in Workers : cur[v] # p /\ p \notin Items(queue[v], 0)
          /\ p \notin Items(m_waiters, 0) /\ \A v \in Cvs : p \notin Items(waiters[v], 0)
      BY <3>1, Zenon DEF Nowhere, In, Kinds, Spots
    <3>3. /\ Cardinality({w \in Workers : cur[w] = p}) = 0
          /\ Copies(p, queue, Workers) = 0 /\ Copies(p, waiters, Cvs) = 0
      BY <2>l, <3>2, HeldIs, CopiesIs, Zenon
    <3> QED BY ONLY <2>1, <2>2, <3>2, <3>3
  <2>3. CASE at[p] # "ended"
    <3>1. PICK k \in Kinds, w \in Spots : Only(p, k, w)
      BY <2>h, <2>3, Zenon DEF Located
    <3>2. /\ \A v \in Workers : cur[v] = p <=> k = "held" /\ v = w
          /\ \A v \in Workers : p \in Items(queue[v], 0) <=> k = "queue" /\ v = w
          /\ p \in Items(m_waiters, 0) <=> k = "lock" /\ None = w
          /\ \A v \in Cvs : p \in Items(waiters[v], 0) <=> k = "cond" /\ v = w
      BY <3>1, OnlyIs, Zenon
    <3>3. /\ k \in {"held", "queue"} => w \in Workers
          /\ k = "lock" => w = None
          /\ k = "cond" => w \in Cvs
      BY <3>1, Zenon DEF Only, In, Kinds
    <3>4. Cardinality({u \in Workers : cur[u] = p}) = IF k = "held" THEN 1 ELSE 0
      BY <3>2, <3>3, HeldIs, Zenon
    <3>5. Copies(p, queue, Workers) = IF k = "queue" THEN 1 ELSE 0
      BY <2>l, <3>2, <3>3, CopiesIs, Zenon
    <3>6. Copies(p, waiters, Cvs) = IF k = "cond" THEN 1 ELSE 0
      BY <2>l, <3>2, <3>3, CopiesIs, Zenon
    <3>7. k \in {"held", "queue", "lock", "cond"}
      BY <3>1, Zenon DEF Kinds
    <3> QED BY ONLY <2>1, <2>3, <3>2, <3>3, <3>4, <3>5, <3>6, <3>7, SMTT(20)
  <2> QED BY <2>2, <2>3, Zenon
<1> QED BY <1>1, Inductive, PTL
=============================================================================
