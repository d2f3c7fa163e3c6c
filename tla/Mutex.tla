------------------------------- MODULE Mutex --------------------------------
(***************************************************************************)
(* coro::mutex (include/coro/comp/mutex.hpp) over worker threads. A        *)
(* critical section of its spinlock is one step; try_lock is a bare        *)
(* compare-and-swap outside of it. lock() and lock_guard() differ only in  *)
(* what await_resume returns.                                              *)
(*                                                                         *)
(* Of the runtime only this is kept: a worker runs one coroutine until it  *)
(* suspends and then takes the next handle of its queue, and a handle      *)
(* given to local_context() goes to the queue of the worker that gives it. *)
(***************************************************************************)
EXTENDS Integers, Sequences, Functions, FiniteSets

CONSTANTS Coros, Workers, None

ASSUME MutexAssumption == None \notin Coros

VARIABLES queue,      \* [Workers -> Seq(Coros)]: task queues
          cur,        \* [Workers -> Coros \cup {None}]: the coroutine being run
          at,         \* where each coroutine is, or will go on when resumed
          m_locked,
          m_waiters

run_vars   == <<queue, cur>>
mutex_vars == <<m_locked, m_waiters>>

\* The coroutine run by worker w moves in its code.
Move(w, from, to) ==
    /\ cur[w] # None
    /\ at[cur[w]] = from
    /\ at' = [at EXCEPT ![cur[w]] = to]

\* exec_one_task: the next handle is resumed.
Resume(w) ==
    /\ cur[w] = None /\ queue[w] # <<>>
    /\ cur' = [cur EXCEPT ![w] = Head(queue[w])]
    /\ queue' = [queue EXCEPT ![w] = Tail(@)]
    /\ UNCHANGED <<at, mutex_vars>>

\* The coroutine is suspended, or has ended.
Leave(w) == cur' = [cur EXCEPT ![w] = None]

\* local_context().submit_task(p), called on worker w.
submit_task(w, p) == queue' = [queue EXCEPT ![w] = Append(@, p)]

try_lock ==
    /\ ~m_locked
    /\ m_locked' = TRUE

await_ready(w) ==
    /\ \/ Move(w, "lock", "wait") /\ try_lock
       \/ Move(w, "lock", "suspend") /\ m_locked /\ UNCHANGED m_locked
    /\ UNCHANGED <<run_vars, m_waiters>>

\* Mutant: the early return after the successful exchange is missing.
enqueue_waiterBoth(w, p) ==
    \/ /\ try_lock
       /\ submit_task(w, p)
       /\ m_waiters' = Append(m_waiters, p)
    \/ /\ m_locked
       /\ m_waiters' = Append(m_waiters, p)
       /\ UNCHANGED <<queue, m_locked>>

\* Take the lock for p if it is free, else let p wait for it.
enqueue_waiter(w, p) ==
    \/ /\ try_lock
       /\ submit_task(w, p)
       /\ UNCHANGED m_waiters
    \/ /\ m_locked
       /\ m_waiters' = Append(m_waiters, p)
       /\ UNCHANGED <<queue, m_locked>>

\* The same second attempt, under the spinlock, for the coroutine itself.
await_suspend(w) ==
    /\ Move(w, "suspend", "wait")
    /\ enqueue_waiter(w, cur[w])
    /\ Leave(w)

\* Mutant: the lock is released as well as handed over.
unlockReleasing(w) ==
    /\ m_locked' = FALSE
    /\ \/ /\ m_waiters # <<>>
          /\ m_waiters' = Tail(m_waiters)
          /\ submit_task(w, Head(m_waiters))
       \/ /\ m_waiters = <<>>
          /\ UNCHANGED <<queue, m_waiters>>

\* Mutant: the waiters are not looked at.
unlockForgetful(w) ==
    /\ m_locked' = FALSE
    /\ UNCHANGED <<queue, m_waiters>>

\* The lock is handed to the first waiter, or released.
unlock(w) ==
    \/ /\ m_waiters # <<>>
       /\ m_waiters' = Tail(m_waiters)
       /\ submit_task(w, Head(m_waiters))
       /\ UNCHANGED m_locked
    \/ /\ m_waiters = <<>>
       /\ m_locked' = FALSE
       /\ UNCHANGED <<queue, m_waiters>>
=============================================================================
