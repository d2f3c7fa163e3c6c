------------------------- MODULE ConditionVariable --------------------------
(***************************************************************************)
(* coro::condition_variable (include/coro/comp/condition_variable.hpp)     *)
(* with the mutex it is used with, under the clients of                    *)
(* tests/lab5b_test.cpp:                                                   *)
(*   "turns"  the coroutines 0 .. K-1 take turns, each in every round      *)
(*            lock_guard; wait until it is its turn; pass the turn on;     *)
(*            notify. It joins the tests notify_one (two coroutines, many  *)
(*            rounds) and notify_all (many coroutines, one round).         *)
(*   "queue"  producers and consumers of a bounded queue, with a condition *)
(*            variable for each of the two kinds.                          *)
(* With turns only its own coroutine can make a condition false again; in  *)
(* the queue every coroutine of the same kind can.                         *)
(*                                                                         *)
(* await_suspend is two steps, since it unlocks the mutex before it enters *)
(* the critical section that makes the coroutine a waiter. A notify is one *)
(* step per waiter it looks at, inside the condition variable's spinlock.  *)
(***************************************************************************)
EXTENDS Mutex

CONSTANTS Clients,    \* which of the two clients run
          Rounds,     \* bound: turns of one coroutine, items of one producer
          Capacity,   \* of the queue
          NotifyAll   \* in turns: notify_all() or notify_one()

K == Cardinality(Coros)

Cvs == {"cv", "producer_cv", "consumer_cv"}

ASSUME ConditionAssumption ==
    /\ IsFiniteSet(Coros) /\ Coros = 0 .. K - 1
    /\ Clients \subseteq {"turns", "queue"}
    /\ Rounds \in Nat \ {0} /\ Capacity \in Nat \ {0}
    /\ NotifyAll \in BOOLEAN

VARIABLES waiters,    \* [Cvs -> Seq(Coros)]: condition_variable::m_waiters
          cnt,        \* [Cvs -> Nat]: waiters the notify under way still has to look at
          client,     \* the test that runs ...
          producers,  \* ... and, in the queue, its producers
          left,       \* loop_num, num_per_producer; of a consumer: 1 inside its loop
          turn,       \* the state the condition of turns is about
          que,        \* size of the queue
          stop_flag,
          loop_cnt    \* items a coroutine is about to push or to pop

cv_vars == <<waiters, cnt>>
queue_vars == <<que, stop_flag, loop_cnt>>
client_vars == <<client, producers, left, turn, queue_vars>>
vars == <<run_vars, at, mutex_vars, cv_vars, client_vars>>

\* The coroutines are submitted in order, producers first, each to a worker of the
\* client's choice.
Init ==
    /\ queue \in [Workers -> UNION {[1 .. n -> Coros] : n \in 0 .. K}]
    /\ \A w \in Workers : \A i, j \in DOMAIN queue[w] : i < j => queue[w][i] < queue[w][j]
    /\ \E home \in [Coros -> Workers] :
           \A w \in Workers : Range(queue[w]) = {p \in Coros : home[p] = w}
    /\ cur = [w \in Workers |-> None]
    /\ at = [p \in Coros |-> "lock"]
    /\ m_locked = FALSE
    /\ m_waiters = <<>>
    /\ waiters = [v \in Cvs |-> <<>>]
    /\ cnt = [v \in Cvs |-> 0]
    /\ client \in Clients
    /\ \/ client = "turns" /\ stop_flag = 0
       \/ client = "queue" /\ stop_flag \in 1 .. K - 1
    /\ producers = {p \in Coros : p < stop_flag}
    /\ left = [p \in Coros |-> IF client = "turns" \/ p \in producers THEN Rounds ELSE 1]
    /\ turn = 0
    /\ que = 0
    /\ loop_cnt = [p \in Coros |-> 0]

\* The condition the client passes to wait(), ...
cond(p) ==
    CASE client = "turns" -> turn = p
      [] client = "queue" /\ p \in producers -> que < Capacity
      [] client = "queue" /\ p \notin producers -> que > 0 \/ stop_flag <= 0

\* ... and the condition variable it waits on.
WaitsOn(p) ==
    IF client = "turns" THEN "cv" ELSE IF p \in producers THEN "producer_cv" ELSE "consumer_cv"

\* The one it notifies: producers and consumers each other, until a consumer has left its
\* loop and wakes the other consumers.
Notifies(p) ==
    IF client = "turns" THEN "cv"
    ELSE IF p \in producers \/ left[p] = 0 THEN "consumer_cv" ELSE "producer_cv"

\* notify_all() rather than notify_one().
Everyone(p) == IF client = "turns" THEN NotifyAll ELSE p \notin producers /\ left[p] = 0

\* Nobody is inside a notify of v, which holds its m_lock.
LockFree(v) == \A p \in Coros : at[p] = "notifying" => Notifies(p) # v

-----------------------------------------------------------------------------
\* The loop around wait(); turns tests its own before it locks.
Stays(p) ==
    \/ client = "turns"
    \/ client = "queue" /\ p \in producers /\ left[p] > 0
    \/ client = "queue" /\ p \notin producers /\ (stop_flag > 0 \/ que > 0)

\* Under the mutex: a condition that holds does not suspend.
WaitReady(w) ==
    /\ Stays(cur[w])
    /\ \/ Move(w, "wait", "work") /\ cond(cur[w])
       \/ Move(w, "wait", "wait_unlock") /\ ~cond(cur[w])
    /\ UNCHANGED <<run_vars, mutex_vars, cv_vars, client_vars>>

\* await_suspend first unlocks the mutex ...
WaitUnlock(w) ==
    /\ Move(w, "wait_unlock", "wait_push")
    /\ unlock(w)
    /\ UNCHANGED <<cur, cv_vars, client_vars>>

\* ... and then joins the waiters. It goes on after wait() with the mutex locked.
WaitPush(w) ==
    /\ LockFree(WaitsOn(cur[w]))
    /\ Move(w, "wait_push", "work")
    /\ waiters' = [waiters EXCEPT ![WaitsOn(cur[w])] = Append(@, cur[w])]
    /\ Leave(w)
    /\ UNCHANGED <<queue, mutex_vars, cnt, client_vars>>

\* The client takes its turn.
TakeTurn(w) ==
    /\ client = "turns"
    /\ Move(w, "work", "notify")
    /\ turn' = (turn + 1) % K
    /\ left' = [left EXCEPT ![cur[w]] = @ - 1]
    /\ UNCHANGED <<run_vars, mutex_vars, cv_vars, client, producers, queue_vars>>

\* Mutant: what wait() was asked for is taken for granted, one item or one place.
BatchTrusting(p) == 1

\* The items a producer has room for, or those a consumer finds: none when the coroutine
\* comes back from wait() too late.
Batch(p) ==
    IF p \notin producers THEN que
    ELSE IF left[p] < Capacity - que THEN left[p] ELSE Capacity - que

\* The batch is counted ...
CountBatch(w) ==
    /\ client = "queue"
    /\ Move(w, "work", "move_items")
    /\ loop_cnt' = [loop_cnt EXCEPT ![cur[w]] = Batch(cur[w])]
    /\ UNCHANGED <<run_vars, mutex_vars, cv_vars, client, producers, left, turn, que, stop_flag>>

\* ... and pushed or popped.
MoveItems(w) ==
    /\ Move(w, "move_items", "notify")
    /\ \/ /\ cur[w] \in producers
          /\ que' = que + loop_cnt[cur[w]]
          /\ left' = [left EXCEPT ![cur[w]] = @ - loop_cnt[cur[w]]]
       \/ /\ cur[w] \notin producers
          /\ que' = que - loop_cnt[cur[w]]
          /\ UNCHANGED left
    /\ UNCHANGED <<run_vars, mutex_vars, cv_vars, client, producers, turn, stop_flag, loop_cnt>>

\* A producer that has pushed everything ends; a consumer has a last notify to do.
LeaveLoop(w) ==
    /\ \/ /\ Move(w, "wait", "unlock") /\ cur[w] \in producers
          /\ stop_flag' = stop_flag - 1
          /\ UNCHANGED left
       \/ /\ Move(w, "wait", "notify") /\ cur[w] \notin producers
          /\ left' = [left EXCEPT ![cur[w]] = 0]
          /\ UNCHANGED stop_flag
    /\ ~Stays(cur[w])
    /\ UNCHANGED <<run_vars, mutex_vars, cv_vars, client, producers, turn, que, loop_cnt>>

\* Mutant: notify_all stops one short.
NotifySizeShort(p) ==
    IF Everyone(p) /\ waiters[Notifies(p)] # <<>> THEN Len(waiters[Notifies(p)]) - 1 ELSE 0

\* How many waiters a notify looks at: the size at its start, or the first.
NotifySize(p) ==
    IF Everyone(p) \/ waiters[Notifies(p)] = <<>> THEN Len(waiters[Notifies(p)]) ELSE 1

NotifyBegin(w) ==
    /\ Move(w, "notify", "notifying")
    /\ LockFree(Notifies(cur[w]))
    /\ cnt' = [cnt EXCEPT ![Notifies(cur[w])] = NotifySize(cur[w])]
    /\ UNCHANGED <<run_vars, mutex_vars, waiters, client_vars>>

\* The first waiter goes back to the end of the list if its condition is false;
\* otherwise it leaves the list and contends for the mutex.
NotifyWaiter(w) ==
    LET v == Notifies(cur[w])
        h == Head(waiters[v])
    IN /\ Move(w, "notifying", "notifying") /\ cnt[v] > 0
       /\ cnt' = [cnt EXCEPT ![v] = @ - 1]
       /\ \/ /\ ~cond(h)
             /\ waiters' = [waiters EXCEPT ![v] = Append(Tail(@), h)]
             /\ UNCHANGED <<queue, mutex_vars>>
          \/ /\ cond(h)
             /\ waiters' = [waiters EXCEPT ![v] = Tail(@)]
             /\ enqueue_waiter(w, h)
       /\ UNCHANGED <<cur, client_vars>>

\* The notify is the last statement of the loop in the queue, where the lock is held
\* across rounds.
NotifyEnd(w) ==
    /\ \/ Move(w, "notifying", "wait") /\ client = "queue" /\ ~Everyone(cur[w])
       \/ Move(w, "notifying", "unlock") /\ (client = "turns" \/ Everyone(cur[w]))
    /\ cnt[Notifies(cur[w])] = 0
    /\ UNCHANGED <<run_vars, mutex_vars, cv_vars, client_vars>>

\* ~lock_guard; the client starts its next round or ends.
GuardUnlock(w) ==
    /\ \/ /\ Move(w, "unlock", "lock") /\ left[cur[w]] > 0
          /\ UNCHANGED cur
       \/ /\ Move(w, "unlock", "ended") /\ left[cur[w]] = 0
          /\ Leave(w)
    /\ unlock(w)
    /\ UNCHANGED <<cv_vars, client_vars>>

\* The steps of the worker and of lock_guard() leave the condition variable alone.
LockStep(w) ==
    \/ Resume(w) /\ UNCHANGED <<cv_vars, client_vars>>
    \/ await_ready(w) /\ UNCHANGED <<cv_vars, client_vars>>
    \/ await_suspend(w) /\ UNCHANGED <<cv_vars, client_vars>>

Worker(w) ==
    \/ LockStep(w)
    \/ WaitReady(w) \/ WaitUnlock(w) \/ WaitPush(w)
    \/ TakeTurn(w) \/ CountBatch(w) \/ MoveItems(w) \/ LeaveLoop(w)
    \/ NotifyBegin(w) \/ NotifyWaiter(w) \/ NotifyEnd(w) \/ GuardUnlock(w)

\* Nothing is left to run: scheduler::loop() returns, whoever still waits.
Drained == \A w \in Workers : cur[w] = None /\ queue[w] = <<>>

Over == Drained /\ UNCHANGED vars

Next == (\E w \in Workers : Worker(w)) \/ Over

Spec == Init /\ [][Next]_vars

\* The operating system runs every worker that can run.
FairSpec == Spec /\ \A w \in Workers : WF_vars(Worker(w))

-----------------------------------------------------------------------------
(* Properties.                                                             *)

Waiting(p) == p \in Range(m_waiters) \/ \E v \in Cvs : p \in Range(waiters[v])

\* The coroutines the lock belongs to, a resumed waiter included from the moment
\* unlock() or a notify hands the lock to it.
Owners ==
    {p \in Coros : /\ at[p] \in {"wait", "wait_unlock", "work", "move_items", "notify", "notifying",
                                "unlock"}
                   /\ ~Waiting(p)}

\* The mutex excludes: it is locked exactly while one coroutine owns it, across
\* try_lock, hand-over by unlock() and hand-over by a notify, and whoever waits
\* for it waits for an owner.
LockOwned ==
    /\ \A p, q \in Owners : p = q
    /\ m_locked <=> Owners # {}
    /\ m_waiters # <<>> => m_locked

\* How often a handle is in one of the lists ls[x], x \in X.
Copies(p, ls, X) == Cardinality(UNION {{x} \X {i \in DOMAIN ls[x] : ls[x][i] = p} : x \in X})

\* A coroutine is in exactly one place, and there once: running on a worker, in a
\* task queue, waiting for the mutex or waiting for the condition. So no wait or
\* notify loses a handle or has it resumed twice.
HandleInOnePlace ==
    \A p \in Coros :
        Cardinality({w \in Workers : cur[w] = p}) + Copies(p, queue, Workers)
            + Cardinality({i \in DOMAIN m_waiters : m_waiters[i] = p}) + Copies(p, waiters, Cvs)
          = IF at[p] = "ended" THEN 0 ELSE 1

\* The queue is never overfilled and never popped when it is empty, although wait(mtx,
\* cond) may return with cond false: a notify tests it before the coroutine contends for
\* the mutex (condition_variable.hpp:80-83), and whoever gets the mutex first may take the
\* place or the item. The producers and consumers count again after wait()
\* (lab5b_test.cpp:115, 133) and no one comes between that and the last push or pop.
QueueBounded == que \in 0 .. Capacity

\* Whoever calls lock() gets the lock: try_lock cannot overtake a waiter for ever,
\* because unlock() hands the lock over.
LockAcquired == \A p \in Coros : at[p] = "lock" ~> (at[p] = "wait" /\ p \in Owners)

\* When all coroutines share a worker no notify is missed: all turns are taken, all items
\* are produced and consumed, and everyone ends (lab5b_test.cpp:159-163, 212-216).
EndsOnOneWorker ==
    (\E w \in Workers : Len(queue[w]) = K) =>
        <>(que = 0 /\ \A p \in Coros : at[p] = "ended")

\* When the runtime has nothing left to run, every coroutine has ended: nobody is
\* left waiting for a turn that has come.
DrainedMeansDone == Drained => \A p \in Coros : at[p] = "ended"
=============================================================================
