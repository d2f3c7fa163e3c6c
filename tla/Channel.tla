------------------------------ MODULE Channel -------------------------------
(***************************************************************************)
(* coro::channel<T, capacity> (include/coro/comp/channel.hpp) used by      *)
(* concurrent senders and receivers. Every critical section of m_lock is   *)
(* one action. A sender sends Quota values one after the other, as the     *)
(* producers of tests/lab5c_test.cpp do, a receiver receives until it gets *)
(* nullopt, and anyone may close the channel at any time, more than once.  *)
(*                                                                         *)
(* at[p] is the place of coroutine p in its co_await: about to call        *)
(* await_ready or await_suspend, "waiting" in a list of the channel, or    *)
(* about to call await_resume ("resume"), either because the awaiter did   *)
(* not suspend or because local_context().submit_task(handle) was called.  *)
(***************************************************************************)
EXTENDS Integers, Sequences, Functions

CONSTANTS Senders, Receivers, NullOpt, Capacity,
          Quota    \* bound: values each sender sends

Coroutines == Senders \cup Receivers

\* The n-th value of sender s. Values are distinct, so a copy or a loss shows.
Values == Senders \X (1 .. Quota)

ASSUME ChannelAssumption ==
    /\ Senders \cap Receivers = {}
    /\ NullOpt \notin Values
    /\ Capacity \in Nat \ {0}
    /\ Quota \in Nat \ {0}

VARIABLES
    m_buffer,
    m_closed,
    m_senders,     \* pending_sender entries, by coroutine
    m_receivers,   \* pending_receiver entries, by coroutine
    at,
    n,             \* [Senders -> 1 .. Quota]: the value being sent is <<s, n[s]>>
    ok,            \* send_awaiter::m_result
    data,          \* recv_awaiter::m_result
    accepted,      \* history: values the channel has taken from senders
    delivered,     \* history: values the channel has given to receivers
    received       \* history: values await_resume has returned

list_vars    == <<m_senders, m_receivers>>
history_vars == <<accepted, delivered, received>>
vars == <<m_buffer, m_closed, list_vars, at, n, ok, data, history_vars>>

Places == {"ready", "suspend", "waiting", "resume", "ended"}

\* Every variable of the channel and of the awaiters holds a value of its type,
\* and the buffer never exceeds the channel's capacity.
TypeOK ==
    /\ m_buffer \in Seq(Values) /\ Len(m_buffer) <= Capacity
    /\ m_closed \in BOOLEAN
    /\ m_senders \in Seq(Senders)
    /\ m_receivers \in Seq(Receivers)
    /\ at \in [Coroutines -> Places]
    /\ n \in [Senders -> 1 .. Quota]
    /\ ok \in [Senders -> BOOLEAN]
    /\ data \in [Receivers -> Values \cup {NullOpt}]
    /\ accepted \in Seq(Values)
    /\ delivered \in Seq(Values)
    /\ received \subseteq Values

Init ==
    /\ m_buffer = <<>>
    /\ m_closed = FALSE
    /\ m_senders = <<>>
    /\ m_receivers = <<>>
    /\ at = [p \in Coroutines |-> "ready"]
    /\ n = [s \in Senders |-> 1]
    /\ ok = [s \in Senders |-> FALSE]
    /\ data = [r \in Receivers |-> NullOpt]
    /\ accepted = <<>>
    /\ delivered = <<>>
    /\ received = {}

m_value(s) == <<s, n[s]>>

-----------------------------------------------------------------------------
(* send                                                                    *)

SendOnClosed(s) ==
    /\ m_closed
    /\ at' = [at EXCEPT ![s] = "resume"]
    /\ UNCHANGED <<m_buffer, m_closed, list_vars, n, ok, data, history_vars>>

\* The value goes to the receiver that has waited longest.
HandOff(s) ==
    /\ ~m_closed
    /\ m_receivers # <<>>
    /\ m_receivers' = Tail(m_receivers)
    /\ data' = [data EXCEPT ![Head(m_receivers)] = m_value(s)]
    /\ ok' = [ok EXCEPT ![s] = TRUE]
    /\ at' = [at EXCEPT ![s] = "resume", ![Head(m_receivers)] = "resume"]
    /\ accepted' = Append(accepted, m_value(s))
    /\ delivered' = Append(delivered, m_value(s))
    /\ UNCHANGED <<m_buffer, m_closed, m_senders, n, received>>

\* Mutant: m_closed is not tested.
EnqueueClosed(s) ==
    /\ m_receivers = <<>>
    /\ Len(m_buffer) < Capacity
    /\ m_buffer' = Append(m_buffer, m_value(s))
    /\ ok' = [ok EXCEPT ![s] = TRUE]
    /\ at' = [at EXCEPT ![s] = "resume"]
    /\ accepted' = Append(accepted, m_value(s))
    /\ UNCHANGED <<m_closed, list_vars, n, data, delivered, received>>

Enqueue(s) ==
    /\ ~m_closed
    /\ m_receivers = <<>>
    /\ Len(m_buffer) < Capacity
    /\ m_buffer' = Append(m_buffer, m_value(s))
    /\ ok' = [ok EXCEPT ![s] = TRUE]
    /\ at' = [at EXCEPT ![s] = "resume"]
    /\ accepted' = Append(accepted, m_value(s))
    /\ UNCHANGED <<m_closed, list_vars, n, data, delivered, received>>

\* try_send_locked returns true ...
try_send_locked(s) == SendOnClosed(s) \/ HandOff(s) \/ Enqueue(s)

\* ... and false, with no effect.
CannotSend == ~m_closed /\ m_receivers = <<>> /\ Len(m_buffer) >= Capacity

send_await_ready(s) ==
    /\ at[s] = "ready"
    /\ \/ try_send_locked(s)
       \/ /\ CannotSend
          /\ at' = [at EXCEPT ![s] = "suspend"]
          /\ UNCHANGED <<m_buffer, m_closed, list_vars, n, ok, data, history_vars>>

send_await_suspend(s) ==
    /\ at[s] = "suspend"
    /\ \/ try_send_locked(s)
       \/ /\ CannotSend
          /\ m_senders' = Append(m_senders, s)
          /\ at' = [at EXCEPT ![s] = "waiting"]
          /\ UNCHANGED <<m_buffer, m_closed, m_receivers, n, ok, data, history_vars>>

\* co_await yields m_result; the producer goes on whatever it is.
send_await_resume(s) ==
    /\ at[s] = "resume"
    /\ IF n[s] < Quota
       THEN /\ at' = [at EXCEPT ![s] = "ready"]
            /\ n' = [n EXCEPT ![s] = @ + 1]
            /\ ok' = [ok EXCEPT ![s] = FALSE]
       ELSE /\ at' = [at EXCEPT ![s] = "ended"]
            /\ UNCHANGED <<n, ok>>
    /\ UNCHANGED <<m_buffer, m_closed, list_vars, data, history_vars>>

-----------------------------------------------------------------------------
(* recv                                                                    *)

\* Mutant: the newest value is taken instead of the oldest.
DequeueBack(r) ==
    /\ m_buffer # <<>>
    /\ m_senders = <<>>
    /\ m_buffer' = SubSeq(m_buffer, 1, Len(m_buffer) - 1)
    /\ data' = [data EXCEPT ![r] = m_buffer[Len(m_buffer)]]
    /\ at' = [at EXCEPT ![r] = "resume"]
    /\ delivered' = Append(delivered, m_buffer[Len(m_buffer)])
    /\ UNCHANGED <<m_closed, list_vars, n, ok, accepted, received>>

\* The oldest value comes out of the buffer and nobody waits for the room.
Dequeue(r) ==
    /\ m_buffer # <<>>
    /\ m_senders = <<>>
    /\ m_buffer' = Tail(m_buffer)
    /\ data' = [data EXCEPT ![r] = Head(m_buffer)]
    /\ at' = [at EXCEPT ![r] = "resume"]
    /\ delivered' = Append(delivered, Head(m_buffer))
    /\ UNCHANGED <<m_closed, list_vars, n, ok, accepted, received>>

\* Mutant: no waiting sender is woken.
RefillForgotten(r) ==
    /\ m_buffer # <<>>
    /\ m_senders # <<>>
    /\ m_buffer' = Tail(m_buffer)
    /\ data' = [data EXCEPT ![r] = Head(m_buffer)]
    /\ at' = [at EXCEPT ![r] = "resume"]
    /\ delivered' = Append(delivered, Head(m_buffer))
    /\ UNCHANGED <<m_closed, list_vars, n, ok, accepted, received>>

\* The sender that has waited longest gets the room.
Refill(r) ==
    /\ m_buffer # <<>>
    /\ m_senders # <<>>
    /\ m_senders' = Tail(m_senders)
    /\ m_buffer' = Append(Tail(m_buffer), m_value(Head(m_senders)))
    /\ data' = [data EXCEPT ![r] = Head(m_buffer)]
    /\ ok' = [ok EXCEPT ![Head(m_senders)] = TRUE]
    /\ at' = [at EXCEPT ![r] = "resume", ![Head(m_senders)] = "resume"]
    /\ delivered' = Append(delivered, Head(m_buffer))
    /\ accepted' = Append(accepted, m_value(Head(m_senders)))
    /\ UNCHANGED <<m_closed, m_receivers, n, received>>

\* Mutant: m_closed is tested before the buffer.
RecvOnClosedFirst(r) ==
    /\ m_closed
    /\ data' = [data EXCEPT ![r] = NullOpt]
    /\ at' = [at EXCEPT ![r] = "resume"]
    /\ UNCHANGED <<m_buffer, m_closed, list_vars, n, ok, history_vars>>

RecvOnClosed(r) ==
    /\ m_buffer = <<>>
    /\ m_closed
    /\ data' = [data EXCEPT ![r] = NullOpt]
    /\ at' = [at EXCEPT ![r] = "resume"]
    /\ UNCHANGED <<m_buffer, m_closed, list_vars, n, ok, history_vars>>

try_recv_locked(r) == Dequeue(r) \/ Refill(r) \/ RecvOnClosed(r)

CannotRecv == m_buffer = <<>> /\ ~m_closed

recv_await_ready(r) ==
    /\ at[r] = "ready"
    /\ \/ try_recv_locked(r)
       \/ /\ CannotRecv
          /\ at' = [at EXCEPT ![r] = "suspend"]
          /\ UNCHANGED <<m_buffer, m_closed, list_vars, n, ok, data, history_vars>>

\* Mutant: the receiver enqueues itself without trying again under the lock.
recv_await_suspendBlind(r) ==
    /\ at[r] = "suspend"
    /\ m_receivers' = Append(m_receivers, r)
    /\ at' = [at EXCEPT ![r] = "waiting"]
    /\ UNCHANGED <<m_buffer, m_closed, m_senders, n, ok, data, history_vars>>

recv_await_suspend(r) ==
    /\ at[r] = "suspend"
    /\ \/ try_recv_locked(r)
       \/ /\ CannotRecv
          /\ m_receivers' = Append(m_receivers, r)
          /\ at' = [at EXCEPT ![r] = "waiting"]
          /\ UNCHANGED <<m_buffer, m_closed, m_senders, n, ok, data, history_vars>>

\* co_await moves m_result out; the consumer stops at nullopt.
recv_await_resume(r) ==
    /\ at[r] = "resume"
    /\ IF data[r] # NullOpt
       THEN /\ at' = [at EXCEPT ![r] = "ready"]
            /\ received' = received \cup {data[r]}
            /\ data' = [data EXCEPT ![r] = NullOpt]
       ELSE /\ at' = [at EXCEPT ![r] = "ended"]
            /\ UNCHANGED <<received, data>>
    /\ UNCHANGED <<m_buffer, m_closed, list_vars, n, ok, accepted, delivered>>

-----------------------------------------------------------------------------
\* Mutant: the waiting senders are told true.
closeTrue ==
    /\ m_closed' = TRUE
    /\ m_senders' = <<>>
    /\ m_receivers' = <<>>
    /\ ok' = [s \in Senders |-> IF s \in Range(m_senders) THEN TRUE ELSE ok[s]]
    /\ data' = [r \in Receivers |-> IF r \in Range(m_receivers) THEN NullOpt ELSE data[r]]
    /\ at' = [p \in Coroutines |->
                 IF p \in Range(m_senders) \cup Range(m_receivers) THEN "resume" ELSE at[p]]
    /\ UNCHANGED <<m_buffer, n, history_vars>>

\* Mutant: only the waiting senders are woken.
closeSenders ==
    /\ m_closed' = TRUE
    /\ m_senders' = <<>>
    /\ ok' = [s \in Senders |-> IF s \in Range(m_senders) THEN FALSE ELSE ok[s]]
    /\ at' = [p \in Coroutines |-> IF p \in Range(m_senders) THEN "resume" ELSE at[p]]
    /\ UNCHANGED <<m_buffer, m_receivers, n, data, history_vars>>

\* close() wakes every waiting sender with false and every receiver with nullopt.
close ==
    /\ m_closed' = TRUE
    /\ m_senders' = <<>>
    /\ m_receivers' = <<>>
    /\ ok' = [s \in Senders |-> IF s \in Range(m_senders) THEN FALSE ELSE ok[s]]
    /\ data' = [r \in Receivers |-> IF r \in Range(m_receivers) THEN NullOpt ELSE data[r]]
    /\ at' = [p \in Coroutines |->
                 IF p \in Range(m_senders) \cup Range(m_receivers) THEN "resume" ELSE at[p]]
    /\ UNCHANGED <<m_buffer, n, history_vars>>

Send(s) == send_await_ready(s) \/ send_await_suspend(s) \/ send_await_resume(s)

Recv(r) == recv_await_ready(r) \/ recv_await_suspend(r) \/ recv_await_resume(r)

Next ==
    \/ \E s \in Senders : Send(s)
    \/ \E r \in Receivers : Recv(r)
    \/ close

Spec == Init /\ [][Next]_vars

\* A coroutine that can run eventually runs: the runtime resumes every handle that
\* is submitted to it. Nobody has to call close().
FairSpec ==
    /\ Spec
    /\ \A s \in Senders : WF_vars(Send(s))
    /\ \A r \in Receivers : WF_vars(Recv(r))

-----------------------------------------------------------------------------
(* Properties.                                                             *)

\* A coroutine waits only while it has to: senders wait only on a full, open
\* channel, receivers only on an empty, open one (so never both at a time), and
\* the lists hold exactly the suspended coroutines, each once. The re-test of
\* await_suspend under the lock is what makes this hold.
WaitersBlocked ==
    /\ m_senders # <<>> => ~m_closed /\ Len(m_buffer) = Capacity
    /\ m_receivers # <<>> => ~m_closed /\ m_buffer = <<>>
    /\ \A s \in Senders : at[s] = "waiting" <=> s \in Range(m_senders)
    /\ \A r \in Receivers : at[r] = "waiting" <=> r \in Range(m_receivers)
    /\ IsInjective(m_senders) /\ IsInjective(m_receivers)

\* No value is lost, duplicated or overtaken inside the channel, on any of the
\* paths hand-off, buffer and refill.
FifoOrder == accepted = delivered \o m_buffer

\* What senders and receivers are told is what happened: send() answers true exactly when
\* the channel took the value, so that a sender that close() wakes with false left
\* nothing behind; and what the channel delivers reaches a consumer, no awaiter's m_result
\* being overwritten before await_resume has returned it.
AnswersTrue ==
    /\ \A s \in Senders :
          (at[s] \in {"resume", "ended"} /\ ok[s]) <=> m_value(s) \in Range(accepted)
    /\ Range(delivered) = received \cup ({data[r] : r \in Receivers} \ {NullOpt})

\* recv() answers nullopt only after close() and after every accepted value was
\* delivered: closing drops nothing that was buffered.
NulloptMeansDrained ==
    \A r \in Receivers :
        at[r] = "ended" \/ (at[r] = "resume" /\ data[r] = NullOpt) =>
            m_closed /\ m_buffer = <<>>

\* As long as there is a receiver, every send completes, closed or not.
SendsComplete == <>(\A s \in Senders : at[s] = "ended")

\* After close() nobody waits forever.
CloseReleasesAll == m_closed ~> (\A p \in Coroutines : at[p] = "ended")

\* The channel with its waiters implements the plain bounded queue.
Fifo == INSTANCE FifoChannel WITH closed <- m_closed

ImplementsFifo == Fifo!Spec
=============================================================================
