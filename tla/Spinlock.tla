------------------------------ MODULE Spinlock ------------------------------
(***************************************************************************)
(* coro::detail::spinlock (spinlock.hpp), the lock inside every primitive  *)
(* of comp/: an exchange, then a loop of plain loads until the lock looks  *)
(* free, then the exchange again. Each atomic operation is a step. A       *)
(* thread may call lock() or try_lock() and comes back for more.           *)
(***************************************************************************)
CONSTANT SpinThreads

VARIABLES lock_, spin_pc

spin_vars == <<lock_, spin_pc>>

SpinInit == lock_ = FALSE /\ spin_pc = [t \in SpinThreads |-> "outside"]

Goes(t, from, to) == spin_pc[t] = from /\ spin_pc' = [spin_pc EXCEPT ![t] = to]

CallLock(t)    == Goes(t, "outside", "exchange") /\ UNCHANGED lock_
CallTryLock(t) == Goes(t, "outside", "peek") /\ UNCHANGED lock_

\* Mutant: the exchange is a load and a store.
ExchangeLate(old) == TRUE

\* exchange(true) got the lock if it was free.
Exchanged(old) == ~old

\* lock(): take the lock, or spin.
Exchange(t) ==
    /\ Goes(t, "exchange", IF Exchanged(lock_) THEN "inside" ELSE "spin")
    /\ lock_' = TRUE

LooksFree == ~lock_

Spin(t) == LooksFree /\ Goes(t, "spin", "exchange") /\ UNCHANGED lock_

\* try_lock(): the load, and only if the lock looked free the exchange.
Peek(t) ==
    /\ Goes(t, "peek", IF LooksFree THEN "try" ELSE "outside")
    /\ UNCHANGED lock_

TryExchange(t) ==
    /\ Goes(t, "try", IF Exchanged(lock_) THEN "inside" ELSE "outside")
    /\ lock_' = TRUE

unlock(t) == Goes(t, "inside", "outside") /\ lock_' = FALSE

SpinStep(t) == Exchange(t) \/ Spin(t) \/ Peek(t) \/ TryExchange(t) \/ unlock(t)

SpinNext == \E t \in SpinThreads : CallLock(t) \/ CallTryLock(t) \/ SpinStep(t)

-----------------------------------------------------------------------------
(* Properties.                                                             *)

\* The lock is a flag and every thread is at one of its steps.
SpinTypeOK ==
    /\ lock_ \in BOOLEAN
    /\ spin_pc \in [SpinThreads -> {"outside", "exchange", "spin", "peek", "try", "inside"}]

\* lock() and try_lock() let one thread in at a time, whatever the mix of the two
\* (spinlock.hpp:20-51): what every critical section of comp/ relies on.
SpinExclusion ==
    \A s, t \in SpinThreads : spin_pc[s] = "inside" /\ spin_pc[t] = "inside" => s = t
=============================================================================
