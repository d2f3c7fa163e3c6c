--------------------------- MODULE ChannelProofs ----------------------------
(***************************************************************************)
(* Proofs about Channel.tla, for any number of senders and receivers, any  *)
(* capacity and any quota.                                                 *)
(***************************************************************************)
EXTENDS Channel, TLAPS

\* Popping the front of a wait list removes exactly that waiter.
LEMMA PopWaiter ==
    ASSUME NEW S, NEW q \in Seq(S), q # <<>>, IsInjective(q)
    PROVE  /\ Head(q) \in S /\ Head(q) \in Range(q)
           /\ Tail(q) \in Seq(S)
           /\ Range(Tail(q)) = Range(q) \ {Head(q)}
           /\ IsInjective(Tail(q))
<1>1. /\ Head(q) \in S /\ Tail(q) \in Seq(S)
      /\ Len(q) \in Nat /\ Len(q) > 0 /\ DOMAIN q = 1 .. Len(q)
      /\ Len(Tail(q)) = Len(q) - 1 /\ DOMAIN Tail(q) = 1 .. Len(q) - 1
      /\ Head(q) = q[1]
      /\ \A i \in 1 .. Len(q) - 1 : Tail(q)[i] = q[i + 1]
  OBVIOUS
<1>2. Head(q) \in Range(q)
  BY <1>1 DEF Range
<1>3. IsInjective(Tail(q))
  BY <1>1 DEF IsInjective
<1>4. Range(Tail(q)) \subseteq Range(q) \ {Head(q)}
  BY <1>1 DEF Range, IsInjective
<1>5. ASSUME NEW x \in Range(q), x # Head(q) PROVE x \in Range(Tail(q))
  <2>1. PICK i \in 1 .. Len(q) : x = q[i]
    BY <1>1, Zenon DEF Range
  <2>2. i - 1 \in 1 .. Len(q) - 1 /\ Tail(q)[i - 1] = x
    BY <1>1, <1>5, <2>1
  <2> QED BY <1>1, <2>2, Zenon DEF Range
<1> QED BY <1>1, <1>2, <1>3, <1>4, <1>5, Zenon

\* Pushing a coroutine that does not wait yet adds exactly that waiter.
LEMMA PushWaiter ==
    ASSUME NEW S, NEW q \in Seq(S), IsInjective(q), NEW x \in S, x \notin Range(q)
    PROVE  /\ Append(q, x) \in Seq(S)
           /\ Append(q, x) # <<>>
           /\ Range(Append(q, x)) = Range(q) \cup {x}
           /\ IsInjective(Append(q, x))
<1>1. /\ Append(q, x) \in Seq(S) /\ Append(q, x) # <<>>
      /\ Len(q) \in Nat /\ DOMAIN q = 1 .. Len(q)
      /\ DOMAIN Append(q, x) = 1 .. Len(q) + 1
      /\ Append(q, x)[Len(q) + 1] = x
      /\ \A i \in 1 .. Len(q) : Append(q, x)[i] = q[i]
  OBVIOUS
<1>2. IsInjective(Append(q, x))
  BY <1>1 DEF IsInjective, Range
<1>3. Range(Append(q, x)) \subseteq Range(q) \cup {x}
  BY <1>1 DEF Range
<1>4. Range(q) \cup {x} \subseteq Range(Append(q, x))
  BY <1>1 DEF Range
<1> QED BY <1>1, <1>2, <1>3, <1>4, Zenon

\* The two sequence facts behind FIFO order: a value pushed at the back of the
\* buffer is the last one accepted, and the one popped at the front is the first
\* one not yet delivered.
LEMMA PushBack ==
    \A d, b \in Seq(Values), v \in Values : Append(d \o b, v) = d \o Append(b, v)
OBVIOUS

\* See PushBack.
LEMMA PopFront ==
    ASSUME NEW S, NEW d \in Seq(S), NEW b \in Seq(S), b # <<>>
    PROVE  /\ Head(b) \in S /\ Tail(b) \in Seq(S)
           /\ Append(d, Head(b)) \o Tail(b) = d \o b
           /\ (d \o b)[Len(d) + 1] = Head(b)
           /\ Len(d \o b) = Len(d) + Len(b)
           /\ Len(Tail(b)) = Len(b) - 1
           /\ Len(b) > 0
OBVIOUS

\* The inductive invariant: the waiters of WaitersBlocked are what makes hand-off
\* and refill keep the order, and what makes close() drop nothing.
Inv == TypeOK /\ WaitersBlocked /\ FifoOrder /\ NulloptMeansDrained

\* Initially the channel is empty and open, and nobody waits.
LEMMA InvInit == Init => Inv
<1> SUFFICES ASSUME Init PROVE Inv
  BY Zenon
<1>1. TypeOK
  <2>1. /\ m_buffer \in Seq(Values) /\ Len(m_buffer) <= Capacity
        /\ accepted \in Seq(Values) /\ delivered \in Seq(Values)
        /\ m_senders \in Seq(Senders) /\ m_receivers \in Seq(Receivers)
    BY ChannelAssumption DEF Init
  <2>2. n \in [Senders -> 1 .. Quota]
    BY ChannelAssumption DEF Init
  <2>3. /\ at \in [Coroutines -> Places] /\ ok \in [Senders -> BOOLEAN]
        /\ data \in [Receivers -> Values \cup {NullOpt}]
        /\ received \subseteq Values /\ m_closed \in BOOLEAN
    BY Zenon DEF Init, Places
  <2> QED BY <2>1, <2>2, <2>3, Zenon DEF TypeOK
<1>2. WaitersBlocked
  BY ChannelAssumption DEF Init, WaitersBlocked, Coroutines, Range, IsInjective
<1>3. FifoOrder /\ NulloptMeansDrained
  BY DEF Init, FifoOrder, NulloptMeansDrained, Coroutines
<1> QED BY <1>1, <1>2, <1>3, Zenon DEF Inv

\* A step of one coroutine that moves only its place, and not to or from a list.
LEMMA MoveOnly ==
    ASSUME Inv, NEW p \in Coroutines, at[p] # "waiting",
           NEW place \in Places \ {"waiting"}, at' = [at EXCEPT ![p] = place],
           UNCHANGED <<m_buffer, m_closed, list_vars>>
    PROVE  WaitersBlocked'
BY Zenon DEF Inv, TypeOK, WaitersBlocked, list_vars, Coroutines

\* One lemma per path through the channel's critical sections: the path keeps
\* the invariant, and it is a step of the abstract channel or invisible to it.
Kept == Inv' /\ [Fifo!Next]_(Fifo!vars)

\* Each value a sender sends is a value of the model.
LEMMA ValueType ==
    ASSUME TypeOK, NEW s \in Senders
    PROVE  m_value(s) \in Values
BY Zenon DEF TypeOK, m_value, Values

\* A step that leaves the buffer and the histories alone keeps the FIFO order,
\* and is invisible to the abstract channel unless it closes it.
LEMMA Invisible ==
    ASSUME Inv, UNCHANGED <<m_buffer, m_closed, accepted, delivered>>
    PROVE  FifoOrder' /\ [Fifo!Next]_(Fifo!vars)
BY Zenon DEF Inv, FifoOrder, Fifo!vars

\* A send on a closed channel changes nothing but the sender's place.
LEMMA SendOnClosedKeeps ==
    ASSUME Inv, NEW s \in Senders, at[s] \in {"ready", "suspend"}, SendOnClosed(s)
    PROVE  Kept
<1> USE DEF SendOnClosed, list_vars, history_vars
<1>1. TypeOK'
  BY Zenon DEF Inv, TypeOK, Places, Coroutines
<1>2. WaitersBlocked'
  BY MoveOnly, Zenon DEF Coroutines, Places
<1>3. FifoOrder' /\ [Fifo!Next]_(Fifo!vars)
  BY Invisible, Zenon
<1>4. NulloptMeansDrained'
  BY ChannelAssumption, Zenon DEF Inv, TypeOK, NulloptMeansDrained, Coroutines
<1> QED BY <1>1, <1>2, <1>3, <1>4, Zenon DEF Kept, Inv

\* A hand-off finds the buffer empty, so the value passes straight through.
LEMMA HandOffKeeps ==
    ASSUME Inv, NEW s \in Senders, at[s] \in {"ready", "suspend"}, HandOff(s)
    PROVE  Kept
<1> DEFINE r == Head(m_receivers)
<1> DEFINE v == m_value(s)
<1>0. v \in Values
  BY ValueType, Zenon DEF Inv
<1>1. /\ r \in Receivers /\ r \in Range(m_receivers)
      /\ Tail(m_receivers) \in Seq(Receivers)
      /\ Range(Tail(m_receivers)) = Range(m_receivers) \ {r}
      /\ IsInjective(Tail(m_receivers))
  BY PopWaiter, Zenon DEF Inv, TypeOK, WaitersBlocked, HandOff
<1>2. m_buffer = <<>> /\ m_senders = <<>> /\ s # r
  BY <1>1, ChannelAssumption, Zenon DEF Inv, WaitersBlocked, HandOff
<1> HIDE DEF r, v
<1>3. /\ m_receivers' = Tail(m_receivers) /\ data' = [data EXCEPT ![r] = v]
      /\ ok' = [ok EXCEPT ![s] = TRUE]
      /\ at' = [at EXCEPT ![s] = "resume", ![r] = "resume"]
      /\ accepted' = Append(accepted, v) /\ delivered' = Append(delivered, v)
      /\ ~m_closed
      /\ UNCHANGED <<m_buffer, m_closed, m_senders, n, received>>
  BY Zenon DEF HandOff, r, v
<1>4. TypeOK'
  <2>1. accepted' \in Seq(Values) /\ delivered' \in Seq(Values)
    BY <1>0, <1>3 DEF Inv, TypeOK
  <2>2. /\ at' \in [Coroutines -> Places] /\ ok' \in [Senders -> BOOLEAN]
        /\ data' \in [Receivers -> Values \cup {NullOpt}]
    BY <1>0, <1>1, <1>3, Zenon DEF Inv, TypeOK, Places, Coroutines
  <2> QED BY <1>1, <1>3, <2>1, <2>2, Zenon DEF Inv, TypeOK
<1>5. WaitersBlocked'
  BY <1>1, <1>2, <1>3, ChannelAssumption, Zenon DEF Inv, TypeOK, WaitersBlocked, Coroutines
<1>6. accepted = delivered
  BY <1>2 DEF Inv, FifoOrder, TypeOK
<1>7. FifoOrder'
  BY <1>0, <1>2, <1>3, <1>6 DEF Inv, TypeOK, FifoOrder
<1>8. NulloptMeansDrained'
  BY <1>0, <1>1, <1>2, <1>3, ChannelAssumption, Zenon
     DEF Inv, TypeOK, NulloptMeansDrained, Coroutines
<1>9. Fifo!Pass(v)
  BY <1>0, <1>3, <1>6 DEF Fifo!Pass, Fifo!Undelivered, Inv, TypeOK
<1> QED BY <1>0, <1>4, <1>5, <1>7, <1>8, <1>9, Zenon DEF Kept, Inv, Fifo!Next

\* A send into the buffer finds nobody waiting, so it overtakes nobody.
LEMMA EnqueueKeeps ==
    ASSUME Inv, NEW s \in Senders, at[s] \in {"ready", "suspend"}, Enqueue(s)
    PROVE  Kept
<1>0. PICK v \in Values : v = m_value(s)
  BY ValueType, Zenon DEF Inv
<1>1. /\ m_buffer' = Append(m_buffer, v) /\ ok' = [ok EXCEPT ![s] = TRUE]
      /\ at' = [at EXCEPT ![s] = "resume"] /\ accepted' = Append(accepted, v)
      /\ ~m_closed /\ m_receivers = <<>> /\ Len(m_buffer) < Capacity
      /\ UNCHANGED <<m_closed, m_senders, m_receivers, n, data, delivered, received>>
  BY <1>0, Zenon DEF Enqueue, list_vars
<1>2. m_senders = <<>>
  BY <1>1, ChannelAssumption DEF Inv, TypeOK, WaitersBlocked
<1>3. m_buffer' \in Seq(Values) /\ Len(m_buffer') = Len(m_buffer) + 1
  BY <1>0, <1>1 DEF Inv, TypeOK
<1>4. TypeOK'
  BY <1>0, <1>1, <1>3, ChannelAssumption DEF Inv, TypeOK, Places, Coroutines
<1>5. WaitersBlocked'
  BY <1>1, <1>2, ChannelAssumption, Zenon DEF Inv, TypeOK, WaitersBlocked, Coroutines
<1>6. FifoOrder'
  <2>1. Append(delivered \o m_buffer, v) = delivered \o Append(m_buffer, v)
    <3>1. delivered \in Seq(Values) /\ m_buffer \in Seq(Values)
      BY Zenon DEF Inv, TypeOK
    <3> QED BY ONLY <1>0, <3>1, PushBack, Zenon
  <2> QED BY <1>1, <2>1, Zenon DEF Inv, FifoOrder
<1>7. NulloptMeansDrained'
  BY <1>1, ChannelAssumption, Zenon DEF Inv, TypeOK, NulloptMeansDrained, Coroutines
<1>8. Len(accepted) = Len(delivered) + Len(m_buffer)
  BY DEF Inv, TypeOK, FifoOrder
<1>9. Fifo!Accept(v)
  BY <1>0, <1>1, <1>8 DEF Fifo!Accept, Fifo!Undelivered, Inv, TypeOK
<1> QED BY <1>0, <1>4, <1>5, <1>6, <1>7, <1>9, Zenon DEF Kept, Inv, Fifo!Next

\* A receive with no sender waiting delivers the oldest undelivered value.
LEMMA DequeueKeeps ==
    ASSUME Inv, NEW r \in Receivers, at[r] \in {"ready", "suspend"}, Dequeue(r)
    PROVE  Kept
<1> DEFINE v == Head(m_buffer)
<1>1. /\ v \in Values /\ Tail(m_buffer) \in Seq(Values)
      /\ Append(delivered, v) \o Tail(m_buffer) = accepted
      /\ accepted[Len(delivered) + 1] = v
      /\ Len(accepted) = Len(delivered) + Len(m_buffer)
      /\ Len(Tail(m_buffer)) = Len(m_buffer) - 1
      /\ Len(m_buffer) > 0
  BY PopFront DEF Inv, TypeOK, FifoOrder, Dequeue
<1> HIDE DEF v
<1>2. /\ m_buffer' = Tail(m_buffer) /\ data' = [data EXCEPT ![r] = v]
      /\ at' = [at EXCEPT ![r] = "resume"] /\ delivered' = Append(delivered, v)
      /\ m_buffer # <<>> /\ m_senders = <<>>
      /\ UNCHANGED <<m_closed, m_senders, m_receivers, n, ok, accepted, received>>
  BY Zenon DEF Dequeue, v, list_vars
<1>3. m_receivers = <<>>
  BY <1>2, Zenon DEF Inv, WaitersBlocked
<1>4. TypeOK'
  BY <1>1, <1>2, ChannelAssumption DEF Inv, TypeOK, Places, Coroutines
<1>5. WaitersBlocked'
  BY <1>2, <1>3, ChannelAssumption, Zenon DEF Inv, TypeOK, WaitersBlocked, Coroutines
<1>6. FifoOrder'
  BY <1>1, <1>2, Zenon DEF FifoOrder
<1>7. NulloptMeansDrained'
  BY <1>1, <1>2, ChannelAssumption, Zenon DEF Inv, TypeOK, NulloptMeansDrained, Coroutines
<1>8. Fifo!Deliver
  BY <1>1, <1>2 DEF Fifo!Deliver, Fifo!Undelivered, Fifo!Oldest, Inv, TypeOK
<1> QED BY <1>4, <1>5, <1>6, <1>7, <1>8, Zenon DEF Kept, Inv, Fifo!Next

\* A receive with a sender waiting delivers the oldest value and accepts the value
\* of the sender that has waited longest.
LEMMA RefillKeeps ==
    ASSUME Inv, NEW r \in Receivers, at[r] \in {"ready", "suspend"}, Refill(r)
    PROVE  Kept
<1> DEFINE s == Head(m_senders)
<1>1. /\ s \in Senders /\ s \in Range(m_senders)
      /\ Tail(m_senders) \in Seq(Senders)
      /\ Range(Tail(m_senders)) = Range(m_senders) \ {s}
      /\ IsInjective(Tail(m_senders))
  BY PopWaiter, Zenon DEF Inv, TypeOK, WaitersBlocked, Refill
<1>2. PICK w \in Values : w = m_value(s)
  BY <1>1, ValueType, Zenon DEF Inv
<1>0. PICK v : v = Head(m_buffer)
  BY Zenon
<1>3. /\ v \in Values /\ Tail(m_buffer) \in Seq(Values)
      /\ Append(delivered, v) \o Tail(m_buffer) = accepted
      /\ accepted[Len(delivered) + 1] = v
      /\ Len(accepted) = Len(delivered) + Len(m_buffer)
      /\ Len(Tail(m_buffer)) = Len(m_buffer) - 1
      /\ Len(m_buffer) > 0
  <2>1. delivered \in Seq(Values) /\ m_buffer \in Seq(Values) /\ m_buffer # <<>>
    BY Zenon DEF Inv, TypeOK, Refill
  <2>2. accepted = delivered \o m_buffer
    BY Zenon DEF Inv, FifoOrder
  <2> QED BY ONLY <1>0, <2>1, <2>2, PopFront
<1>4. ~m_closed /\ m_receivers = <<>> /\ s # r /\ Len(m_buffer) = Capacity
  BY <1>1, ChannelAssumption, Zenon DEF Inv, WaitersBlocked, Refill
<1> HIDE DEF s
<1>5. /\ m_senders' = Tail(m_senders)
      /\ m_buffer' = Append(Tail(m_buffer), w)
      /\ data' = [data EXCEPT ![r] = v]
      /\ ok' = [ok EXCEPT ![s] = TRUE]
      /\ at' = [at EXCEPT ![r] = "resume", ![s] = "resume"]
      /\ delivered' = Append(delivered, v)
      /\ accepted' = Append(accepted, w)
      /\ m_buffer # <<>>
      /\ UNCHANGED <<m_closed, m_receivers, n, received>>
  BY <1>0, <1>2, Zenon DEF Refill, s
<1>6. /\ m_buffer' \in Seq(Values) /\ m_buffer' # <<>>
      /\ Len(m_buffer') = Len(m_buffer)
      /\ Append(delivered, v) \in Seq(Values)
      /\ Append(accepted, w) \in Seq(Values)
  <2>1. m_buffer \in Seq(Values) /\ delivered \in Seq(Values) /\ accepted \in Seq(Values)
    BY Zenon DEF Inv, TypeOK
  <2>2. Len(m_buffer) \in Nat /\ Len(Append(Tail(m_buffer), w)) = Len(Tail(m_buffer)) + 1
    BY <1>2, <1>3, <2>1
  <2>3. Append(Tail(m_buffer), w) \in Seq(Values) /\ Append(Tail(m_buffer), w) # <<>>
    <3>1. w \in Values /\ Tail(m_buffer) \in Seq(Values)
      BY <1>2, <1>3, Zenon
    <3>2. PICK q \in Seq(Values) : q = Tail(m_buffer)
      BY <3>1, Zenon
    <3>3. Append(q, w) \in Seq(Values) /\ Append(q, w) # <<>>
      BY ONLY <3>2, <3>1
    <3> QED BY ONLY <3>2, <3>3, Zenon
  <2>4. Append(delivered, v) \in Seq(Values) /\ Append(accepted, w) \in Seq(Values)
    BY <1>2, <1>3, <2>1
  <2> QED BY <1>3, <1>5, <2>2, <2>3, <2>4
<1>7. TypeOK'
  <2>1. /\ at' \in [Coroutines -> Places] /\ ok' \in [Senders -> BOOLEAN]
        /\ data' \in [Receivers -> Values \cup {NullOpt}]
    BY <1>1, <1>3, <1>5, Zenon DEF Inv, TypeOK, Places, Coroutines
  <2> QED BY <1>1, <1>4, <1>5, <1>6, <2>1, Zenon DEF Inv, TypeOK
<1>8. WaitersBlocked'
  BY <1>1, <1>4, <1>5, <1>6, ChannelAssumption, Zenon
     DEF Inv, TypeOK, WaitersBlocked, Coroutines
<1>9. FifoOrder'
  <2>1. Append(Append(delivered, v) \o Tail(m_buffer), w)
            = Append(delivered, v) \o Append(Tail(m_buffer), w)
    <3>1. /\ w \in Values /\ Tail(m_buffer) \in Seq(Values)
          /\ Append(delivered, v) \in Seq(Values)
      BY <1>2, <1>3, <1>6, Zenon
    <3> QED BY ONLY <3>1, PushBack, Zenon
  <2> QED BY <1>3, <1>5, <2>1, Zenon DEF FifoOrder
<1>10. NulloptMeansDrained'
  BY <1>1, <1>3, <1>4, <1>5, ChannelAssumption, Zenon
     DEF Inv, TypeOK, NulloptMeansDrained, Coroutines
<1>11. Fifo!Replace(w)
  BY <1>2, <1>3, <1>4, <1>5
     DEF Fifo!Replace, Fifo!Undelivered, Fifo!Oldest, Inv, TypeOK
<1> QED BY <1>2, <1>7, <1>8, <1>9, <1>10, <1>11, Zenon DEF Kept, Inv, Fifo!Next

\* A receive on a closed, empty channel answers nullopt and changes nothing else.
LEMMA RecvOnClosedKeeps ==
    ASSUME Inv, NEW r \in Receivers, at[r] \in {"ready", "suspend"}, RecvOnClosed(r)
    PROVE  Kept
<1> USE DEF RecvOnClosed, list_vars, history_vars
<1>1. TypeOK'
  BY Zenon DEF Inv, TypeOK, Places, Coroutines
<1>2. WaitersBlocked'
  BY MoveOnly, Zenon DEF Coroutines, Places
<1>3. FifoOrder' /\ [Fifo!Next]_(Fifo!vars)
  BY Invisible, Zenon
<1>4. NulloptMeansDrained'
  BY Zenon DEF Inv, TypeOK, NulloptMeansDrained, Coroutines
<1> QED BY <1>1, <1>2, <1>3, <1>4, Zenon DEF Kept, Inv

\* Every step of a sender, including the ones that only suspend or resume it.
LEMMA SendKeeps ==
    ASSUME Inv, NEW s \in Senders, Send(s)
    PROVE  Kept
<1> USE DEF list_vars, history_vars
<1>1. CASE at[s] \in {"ready", "suspend"} /\ try_send_locked(s)
  BY <1>1, SendOnClosedKeeps, HandOffKeeps, EnqueueKeeps, Zenon DEF try_send_locked
<1>2. CASE /\ at[s] = "ready"
           /\ at' = [at EXCEPT ![s] = "suspend"]
           /\ UNCHANGED <<m_buffer, m_closed, list_vars, n, ok, data, history_vars>>
  <2>1. TypeOK'
    BY <1>2, Zenon DEF Inv, TypeOK, Places, Coroutines
  <2>2. WaitersBlocked'
    BY <1>2, MoveOnly, Zenon DEF Coroutines, Places
  <2>3. NulloptMeansDrained'
    BY <1>2, ChannelAssumption, Zenon DEF Inv, TypeOK, NulloptMeansDrained, Coroutines
  <2> QED BY <1>2, <2>1, <2>2, <2>3, Invisible, Zenon DEF Kept, Inv
<1>3. CASE send_await_suspend(s) /\ CannotSend /\ m_senders' = Append(m_senders, s)
           /\ at' = [at EXCEPT ![s] = "waiting"]
           /\ UNCHANGED <<m_buffer, m_closed, m_receivers, n, ok, data, history_vars>>
  <2>1. /\ m_senders' \in Seq(Senders) /\ m_senders' # <<>>
        /\ Range(m_senders') = Range(m_senders) \cup {s}
        /\ IsInjective(m_senders')
    <3>1. /\ m_senders \in Seq(Senders) /\ IsInjective(m_senders)
          /\ s \notin Range(m_senders)
      BY <1>3, Zenon DEF Inv, TypeOK, WaitersBlocked, send_await_suspend
    <3> QED BY ONLY <1>3, <3>1, PushWaiter
  <2>2. Len(m_buffer) = Capacity /\ ~m_closed /\ m_receivers = <<>>
    BY <1>3, ChannelAssumption DEF Inv, TypeOK, CannotSend
  <2>3. TypeOK'
    BY <1>3, <2>1, Zenon DEF Inv, TypeOK, Places, Coroutines
  <2>4. WaitersBlocked'
    BY <1>3, <2>1, <2>2, ChannelAssumption, Zenon DEF Inv, TypeOK, WaitersBlocked, Coroutines
  <2>5. NulloptMeansDrained'
    BY <1>3, ChannelAssumption, Zenon DEF Inv, TypeOK, NulloptMeansDrained, Coroutines
  <2> QED BY <1>3, <2>3, <2>4, <2>5, Invisible, Zenon DEF Kept, Inv
<1>4. CASE send_await_resume(s)
  <2>1. PICK place \in Places \ {"waiting"} : at' = [at EXCEPT ![s] = place]
    BY <1>4, Zenon DEF send_await_resume, Places
  <2>2. TypeOK'
    <3>1. n' \in [Senders -> 1 .. Quota]
      <4>1. n \in [Senders -> 1 .. Quota] /\ Quota \in Nat /\ n[s] \in 1 .. Quota
        BY ChannelAssumption, Zenon DEF Inv, TypeOK
      <4>2. n' = n \/ (n[s] < Quota /\ n' = [n EXCEPT ![s] = n[s] + 1])
        BY <1>4, Zenon DEF send_await_resume
      <4>3. n[s] < Quota => n[s] + 1 \in 1 .. Quota
        BY <4>1
      <4> QED BY <4>1, <4>2, <4>3, Zenon
    <3>3. ok' \in [Senders -> BOOLEAN]
      BY <1>4, Zenon DEF send_await_resume, Inv, TypeOK
    <3>2. at' \in [Coroutines -> Places]
      BY <2>1, Zenon DEF Inv, TypeOK, Coroutines
    <3> QED BY <1>4, <3>1, <3>2, <3>3, Zenon DEF send_await_resume, Inv, TypeOK
  <2>3. WaitersBlocked'
    BY <1>4, <2>1, MoveOnly, Zenon DEF send_await_resume, Coroutines
  <2>4. NulloptMeansDrained'
    BY <1>4, <2>1, ChannelAssumption, Zenon
       DEF send_await_resume, Inv, TypeOK, NulloptMeansDrained, Coroutines
  <2>5. FifoOrder' /\ [Fifo!Next]_(Fifo!vars)
    BY <1>4, Invisible, Zenon DEF send_await_resume
  <2> QED BY <2>2, <2>3, <2>4, <2>5, Zenon DEF Kept, Inv
<1> QED
  BY <1>1, <1>2, <1>3, <1>4, Zenon DEF Send, send_await_ready, send_await_suspend

\* Every step of a receiver, including the ones that only suspend or resume it.
LEMMA RecvKeeps ==
    ASSUME Inv, NEW r \in Receivers, Recv(r)
    PROVE  Kept
<1> USE DEF list_vars, history_vars
<1>1. CASE at[r] \in {"ready", "suspend"} /\ try_recv_locked(r)
  BY <1>1, DequeueKeeps, RefillKeeps, RecvOnClosedKeeps, Zenon DEF try_recv_locked
<1>2. CASE /\ at[r] = "ready"
           /\ at' = [at EXCEPT ![r] = "suspend"]
           /\ UNCHANGED <<m_buffer, m_closed, list_vars, n, ok, data, history_vars>>
  <2>1. TypeOK'
    BY <1>2, Zenon DEF Inv, TypeOK, Places, Coroutines
  <2>2. WaitersBlocked'
    BY <1>2, MoveOnly, Zenon DEF Coroutines, Places
  <2>3. NulloptMeansDrained'
    BY <1>2, Zenon DEF Inv, TypeOK, NulloptMeansDrained, Coroutines
  <2> QED BY <1>2, <2>1, <2>2, <2>3, Invisible, Zenon DEF Kept, Inv
<1>3. CASE recv_await_suspend(r) /\ CannotRecv /\ m_receivers' = Append(m_receivers, r)
           /\ at' = [at EXCEPT ![r] = "waiting"]
           /\ UNCHANGED <<m_buffer, m_closed, m_senders, n, ok, data, history_vars>>
  <2>1. /\ m_receivers' \in Seq(Receivers) /\ m_receivers' # <<>>
        /\ Range(m_receivers') = Range(m_receivers) \cup {r}
        /\ IsInjective(m_receivers')
    <3>1. /\ m_receivers \in Seq(Receivers) /\ IsInjective(m_receivers)
          /\ r \notin Range(m_receivers)
      BY <1>3, Zenon DEF Inv, TypeOK, WaitersBlocked, recv_await_suspend
    <3> QED BY ONLY <1>3, <3>1, PushWaiter
  <2>2. m_buffer = <<>> /\ ~m_closed /\ m_senders = <<>>
    BY <1>3, ChannelAssumption, Zenon DEF Inv, TypeOK, CannotRecv, WaitersBlocked
  <2>3. TypeOK'
    BY <1>3, <2>1, Zenon DEF Inv, TypeOK, Places, Coroutines
  <2>4. WaitersBlocked'
    BY <1>3, <2>1, <2>2, ChannelAssumption, Zenon DEF Inv, TypeOK, WaitersBlocked, Coroutines
  <2>5. NulloptMeansDrained'
    BY <1>3, Zenon DEF Inv, TypeOK, NulloptMeansDrained, Coroutines
  <2> QED BY <1>3, <2>3, <2>4, <2>5, Invisible, Zenon DEF Kept, Inv
<1>4. CASE recv_await_resume(r)
  <2>1. PICK place \in Places \ {"waiting"} : at' = [at EXCEPT ![r] = place]
    BY <1>4, Zenon DEF recv_await_resume, Places
  <2>2. TypeOK'
    <3>1. received' \subseteq Values /\ data' \in [Receivers -> Values \cup {NullOpt}]
      BY <1>4, Zenon DEF recv_await_resume, Inv, TypeOK
    <3>2. at' \in [Coroutines -> Places]
      BY <2>1, Zenon DEF Inv, TypeOK, Coroutines
    <3> QED BY <1>4, <3>1, <3>2, Zenon DEF recv_await_resume, Inv, TypeOK
  <2>3. WaitersBlocked'
    BY <1>4, <2>1, MoveOnly, Zenon DEF recv_await_resume, Coroutines
  <2>4. NulloptMeansDrained'
    BY <1>4, Zenon DEF recv_await_resume, Inv, TypeOK, NulloptMeansDrained, Coroutines
  <2>5. FifoOrder' /\ [Fifo!Next]_(Fifo!vars)
    BY <1>4, Invisible, Zenon DEF recv_await_resume
  <2> QED BY <2>2, <2>3, <2>4, <2>5, Zenon DEF Kept, Inv
<1> QED
  BY <1>1, <1>2, <1>3, <1>4, Zenon DEF Recv, recv_await_ready, recv_await_suspend

\* close(): a waiting receiver means an empty buffer, so nullopt is right for it.
LEMMA CloseKeeps ==
    ASSUME Inv, close
    PROVE  Kept
<1> USE DEF history_vars
<1>1. TypeOK'
  <2>1. /\ at' \in [Coroutines -> Places] /\ ok' \in [Senders -> BOOLEAN]
        /\ data' \in [Receivers -> Values \cup {NullOpt}]
    BY Zenon DEF close, Inv, TypeOK, Places
  <2>2. m_senders' \in Seq(Senders) /\ m_receivers' \in Seq(Receivers)
    BY DEF close
  <2> QED BY <2>1, <2>2, Zenon DEF close, Inv, TypeOK
<1>2. WaitersBlocked'
  BY <1>1, ChannelAssumption
     DEF close, Inv, TypeOK, WaitersBlocked, Coroutines, Range, IsInjective
<1>3. FifoOrder'
  BY Zenon DEF close, Inv, FifoOrder
<1>4. NulloptMeansDrained'
  <2> SUFFICES ASSUME NEW r \in Receivers,
                      at'[r] = "ended" \/ (at'[r] = "resume" /\ data'[r] = NullOpt)
               PROVE  m_buffer = <<>>
    BY Zenon DEF close, NulloptMeansDrained
  <2>1. CASE r \in Range(m_receivers)
    BY <2>1 DEF Inv, WaitersBlocked, Range, TypeOK
  <2>2. CASE r \notin Range(m_receivers)
    <3>1. r \notin Range(m_senders)
      BY ChannelAssumption DEF Inv, TypeOK, Range
    <3> QED BY <2>2, <3>1, Zenon DEF close, Inv, NulloptMeansDrained, Coroutines
  <2> QED BY <2>1, <2>2, Zenon
<1>5. Fifo!Close
  BY Zenon DEF close, Fifo!Close
<1> QED BY <1>1, <1>2, <1>3, <1>4, <1>5, Zenon DEF Kept, Inv, Fifo!Next

\* Every step of the channel keeps the invariant and maps to the abstract channel.
LEMMA StepKeeps ==
    ASSUME Inv, [Next]_vars
    PROVE  Kept
<1>1. CASE UNCHANGED vars
  BY <1>1, Zenon
     DEF vars, list_vars, history_vars, Kept, Inv, TypeOK, WaitersBlocked, FifoOrder,
     NulloptMeansDrained, m_value, Fifo!vars
<1> QED BY <1>1, SendKeeps, RecvKeeps, CloseKeeps, Zenon DEF Next

\* The invariant holds in every reachable state.
LEMMA InvAlways == Spec => []Inv
<1>1. Inv /\ [Next]_vars => Inv'
  BY StepKeeps, Zenon DEF Kept
<1> QED BY <1>1, InvInit, PTL DEF Spec

\* Type correctness of the channel and its awaiters; the buffer never holds more
\* than capacity values.
THEOREM TypeCorrect == Spec => []TypeOK
BY InvAlways, PTL DEF Inv

\* Nobody waits on a channel that could serve it.
THEOREM WaitersBlockedCorrect == Spec => []WaitersBlocked
BY InvAlways, PTL DEF Inv

\* No value is lost, duplicated or reordered between send and recv.
THEOREM FifoOrderCorrect == Spec => []FifoOrder
BY InvAlways, PTL DEF Inv

\* recv() answers nullopt only on a closed and drained channel.
THEOREM NulloptCorrect == Spec => []NulloptMeansDrained
BY InvAlways, PTL DEF Inv

\* The channel implements the bounded FIFO queue of FifoChannel.tla.
THEOREM Refinement == Spec => ImplementsFifo
<1>1. Init => Fifo!Init
  BY Zenon DEF Init, Fifo!Init
<1>2. Inv /\ [Next]_vars => [Fifo!Next]_(Fifo!vars)
  BY StepKeeps, Zenon DEF Kept
<1> QED BY <1>1, <1>2, InvAlways, PTL DEF Spec, ImplementsFifo, Fifo!Spec
-----------------------------------------------------------------------------
(* What the awaiters are told.                                             *)

\* A sender's answer is true exactly when its current value was accepted; it is not
\* set before the answer is due, and no later value has been accepted.
SentTrue ==
    \A s \in Senders :
        /\ ok[s] <=> m_value(s) \in Range(accepted)
        /\ ok[s] => at[s] \in {"resume", "ended"}
        /\ \A k \in 1 .. Quota : <<s, k>> \in Range(accepted) => k <= n[s]

\* A receiver's result is empty until it is handed a value, so nothing is overwritten.
GotTrue ==
    /\ \A r \in Receivers : at[r] # "resume" => data[r] = NullOpt
    /\ Range(delivered) = received \cup ({data[r] : r \in Receivers} \ {NullOpt})

\* A history grows by the value appended to it.
LEMMA AppendRange ==
    ASSUME NEW S, NEW q \in Seq(S), NEW x \in S
    PROVE  Range(Append(q, x)) = Range(q) \cup {x}
<1>1. /\ Len(q) \in Nat /\ DOMAIN q = 1 .. Len(q)
      /\ DOMAIN Append(q, x) = 1 .. Len(q) + 1
      /\ Append(q, x)[Len(q) + 1] = x
      /\ \A i \in 1 .. Len(q) : Append(q, x)[i] = q[i]
  OBVIOUS
<1>2. Range(Append(q, x)) \subseteq Range(q) \cup {x}
  BY <1>1 DEF Range
<1>3. Range(q) \cup {x} \subseteq Range(Append(q, x))
  BY <1>1 DEF Range
<1> QED BY <1>2, <1>3, Zenon

\* The channel accepts the value of s, and answers true.
LEMMA AcceptTrue ==
    ASSUME Inv, SentTrue, NEW s \in Senders,
           accepted' = Append(accepted, m_value(s)), ok' = [ok EXCEPT ![s] = TRUE],
           at'[s] = "resume", \A t \in Senders \ {s} : at'[t] = at[t], n' = n
    PROVE  SentTrue'
<1>1. Range(accepted') = Range(accepted) \cup {<<s, n[s]>>}
  <2>1. m_value(s) \in Values /\ accepted \in Seq(Values)
    BY ValueType, Zenon DEF Inv, TypeOK
  <2>2. Range(Append(accepted, m_value(s))) = Range(accepted) \cup {m_value(s)}
    BY ONLY <2>1, AppendRange
  <2> QED BY <2>2, Zenon DEF m_value
<1>2. n[s] \in 1 .. Quota /\ Quota \in Nat
  BY ChannelAssumption, Zenon DEF Inv, TypeOK
<1>3. ok'[s] = TRUE /\ \A t \in Senders \ {s} : ok'[t] = ok[t]
  BY Zenon DEF Inv, TypeOK
<1>4. \A t \in Senders, k \in 1 .. Quota : t # s =>
          (<<t, k>> \in Range(accepted') <=> <<t, k>> \in Range(accepted))
  BY <1>1, Zenon
<1>5. \A t \in Senders : n[t] \in 1 .. Quota
  BY Zenon DEF Inv, TypeOK
<1>6. ASSUME NEW t \in Senders, t # s
      PROVE  /\ ok'[t] <=> <<t, n'[t]>> \in Range(accepted')
             /\ ok'[t] => at'[t] \in {"resume", "ended"}
             /\ \A k \in 1 .. Quota : <<t, k>> \in Range(accepted') => k <= n'[t]
  BY <1>3, <1>4, <1>5, <1>6, Zenon DEF SentTrue, m_value
<1>7. \A k \in 1 .. Quota : <<s, k>> \in Range(accepted') => k <= n'[s]
  BY <1>1, <1>2 DEF SentTrue
<1>8. <<s, n'[s]>> \in Range(accepted')
  BY <1>1, Zenon
<1> QED BY <1>3, <1>6, <1>7, <1>8, Zenon DEF SentTrue, m_value

\* Steps that accept nothing and answer nobody with true.
LEMMA SentStays ==
    ASSUME Inv, SentTrue, UNCHANGED <<accepted, ok, n>>,
           \A t \in Senders : at'[t] = at[t] \/ at[t] \notin {"resume", "ended"}
    PROVE  SentTrue'
BY Zenon DEF SentTrue, m_value

\* Receiver r, whose result is empty, is handed the value the channel delivers.
LEMMA DeliverTrue ==
    ASSUME Inv, GotTrue, NEW r \in Receivers, at[r] # "resume", NEW v \in Values,
           data' = [data EXCEPT ![r] = v], delivered' = Append(delivered, v),
           received' = received, at'[r] = "resume",
           \A q \in Receivers \ {r} : at'[q] = at[q]
    PROVE  GotTrue'
<1>1. Range(delivered') = Range(delivered) \cup {v}
  BY AppendRange DEF Inv, TypeOK
<1>2. data[r] = NullOpt /\ v # NullOpt
  BY ChannelAssumption, Zenon DEF GotTrue
<1>3. /\ data'[r] = v /\ \A q \in Receivers \ {r} : data'[q] = data[q]
  BY Zenon DEF Inv, TypeOK
<1>4. {data'[q] : q \in Receivers} \ {NullOpt} = ({data[q] : q \in Receivers} \ {NullOpt}) \cup {v}
  BY <1>2, <1>3
<1>5. Range(delivered') = received' \cup ({data'[q] : q \in Receivers} \ {NullOpt})
  BY <1>1, <1>4, Zenon DEF GotTrue
<1> QED BY <1>3, <1>5, Zenon DEF GotTrue

\* Steps that deliver nothing and take no result.
LEMMA GotStays ==
    ASSUME Inv, GotTrue, UNCHANGED <<delivered, data, received>>,
           \A q \in Receivers : at'[q] = at[q] \/ at[q] # "resume"
    PROVE  GotTrue'
BY Zenon DEF GotTrue

\* Steps of a sender.
LEMMA SendTold ==
    ASSUME Inv, SentTrue, GotTrue, NEW s \in Senders, Send(s)
    PROVE  SentTrue' /\ GotTrue'
<1> USE DEF list_vars, history_vars
<1>0. s \in Coroutines /\ s \notin Receivers
  BY ChannelAssumption, Zenon DEF Coroutines
<1>1. CASE /\ at[s] \in {"ready", "suspend"} /\ (\E place : at' = [at EXCEPT ![s] = place])
           /\ UNCHANGED <<n, ok, data, history_vars>>
  <2>1. \A p \in Coroutines \ {s} : at'[p] = at[p]
    BY <1>1, Zenon DEF Inv, TypeOK
  <2>2. /\ \A t \in Senders : at'[t] = at[t] \/ at[t] \notin {"resume", "ended"}
        /\ \A q \in Receivers : at'[q] = at[q]
    BY <1>0, <1>1, <2>1, Zenon DEF Coroutines
  <2> QED BY <1>1, <2>2, SentStays, GotStays, Zenon
<1>2. CASE at[s] \in {"ready", "suspend"} /\ HandOff(s)
  <2> DEFINE r == Head(m_receivers)
  <2>1. r \in Receivers /\ at[r] = "waiting" /\ s # r
    <3>1. r \in Receivers /\ r \in Range(m_receivers)
      BY <1>2, PopWaiter, Zenon DEF Inv, TypeOK, WaitersBlocked, HandOff
    <3> QED BY <1>0, <3>1, Zenon DEF Inv, WaitersBlocked
  <2>2. /\ data' = [data EXCEPT ![r] = m_value(s)] /\ ok' = [ok EXCEPT ![s] = TRUE]
        /\ at' = [at EXCEPT ![s] = "resume", ![r] = "resume"]
        /\ accepted' = Append(accepted, m_value(s)) /\ delivered' = Append(delivered, m_value(s))
        /\ UNCHANGED <<n, received>>
    BY <1>2, Zenon DEF HandOff
  <2> HIDE DEF r
  <2>3. /\ at'[s] = "resume" /\ at'[r] = "resume"
        /\ \A p \in Coroutines \ {s, r} : at'[p] = at[p]
    BY <1>0, <2>1, <2>2, Zenon DEF Inv, TypeOK, Coroutines
  <2>4. /\ \A t \in Senders \ {s} : at'[t] = at[t]
        /\ \A q \in Receivers \ {r} : at'[q] = at[q]
    BY <2>1, <2>3, ChannelAssumption, Zenon DEF Coroutines
  <2>5. SentTrue'
    BY <2>2, <2>3, <2>4, AcceptTrue, Zenon
  <2>6. m_value(s) \in Values
    BY ValueType, Zenon DEF Inv
  <2>7. GotTrue'
    <3>1. at[r] # "resume"
      BY <2>1, Zenon
    <3> QED BY <2>1, <2>2, <2>3, <2>4, <2>6, <3>1, DeliverTrue, Zenon
  <2> QED BY <2>5, <2>7, Zenon
<1>3. CASE at[s] \in {"ready", "suspend"} /\ Enqueue(s)
  <2>1. /\ ok' = [ok EXCEPT ![s] = TRUE] /\ at' = [at EXCEPT ![s] = "resume"]
        /\ accepted' = Append(accepted, m_value(s))
        /\ UNCHANGED <<n, data, delivered, received>>
    BY <1>3, Zenon DEF Enqueue
  <2>2. at'[s] = "resume" /\ \A p \in Coroutines \ {s} : at'[p] = at[p]
    BY <1>0, <2>1, Zenon DEF Inv, TypeOK
  <2>3. (\A t \in Senders \ {s} : at'[t] = at[t]) /\ \A q \in Receivers : at'[q] = at[q]
    BY <1>0, <2>2, Zenon DEF Coroutines
  <2> QED BY <2>1, <2>2, <2>3, AcceptTrue, GotStays, Zenon
<1>4. CASE send_await_resume(s)
  <2>1. /\ at[s] = "resume" /\ (\E place : at' = [at EXCEPT ![s] = place])
        /\ UNCHANGED <<data, history_vars>>
    BY <1>4, Zenon DEF send_await_resume
  <2>2. \A p \in Coroutines \ {s} : at'[p] = at[p]
    BY <2>1, Zenon DEF Inv, TypeOK
  <2>3. GotTrue'
    <3>1. \A q \in Receivers : at'[q] = at[q]
      BY <1>0, <2>2, Zenon DEF Coroutines
    <3> QED BY <2>1, <3>1, GotStays, Zenon
  <2>4. CASE n[s] < Quota
    <3>1. /\ n' = [n EXCEPT ![s] = n[s] + 1] /\ ok' = [ok EXCEPT ![s] = FALSE]
          /\ accepted' = accepted
      BY <1>4, <2>1, <2>4, Zenon DEF send_await_resume
    <3>2. n[s] \in 1 .. Quota /\ Quota \in Nat /\ n[s] + 1 \in 1 .. Quota
      BY <2>4, ChannelAssumption DEF Inv, TypeOK
    <3>3. <<s, n[s] + 1>> \notin Range(accepted)
      BY <3>2 DEF SentTrue
    <3>4. /\ ok'[s] = FALSE /\ n'[s] = n[s] + 1
          /\ \A t \in Senders \ {s} : ok'[t] = ok[t] /\ n'[t] = n[t] /\ at'[t] = at[t]
      BY <2>2, <3>1, Zenon DEF Inv, TypeOK, Coroutines
    <3>5. \A k \in 1 .. Quota : <<s, k>> \in Range(accepted) => k <= n[s] + 1
      BY <3>2 DEF SentTrue
    <3>6. SentTrue'
      BY <3>1, <3>3, <3>4, <3>5, Zenon DEF SentTrue, m_value
    <3> QED BY <2>3, <3>6, Zenon
  <2>5. CASE ~(n[s] < Quota)
    <3>1. at' = [at EXCEPT ![s] = "ended"] /\ UNCHANGED <<n, ok, accepted>>
      BY <1>4, <2>5, Zenon DEF send_await_resume
    <3>2. at'[s] = "ended"
      BY <1>0, <3>1, Zenon DEF Inv, TypeOK
    <3>3. SentTrue'
      BY <2>2, <3>1, <3>2, Zenon DEF SentTrue, m_value, Coroutines
    <3> QED BY <2>3, <3>3, Zenon
  <2> QED BY <2>4, <2>5, Zenon
<1> QED
  BY <1>1, <1>2, <1>3, <1>4, Zenon
     DEF Send, send_await_ready, send_await_suspend, try_send_locked, SendOnClosed

\* Steps of a receiver.
LEMMA RecvTold ==
    ASSUME Inv, SentTrue, GotTrue, NEW r \in Receivers, Recv(r)
    PROVE  SentTrue' /\ GotTrue'
<1> USE DEF list_vars, history_vars
<1>0. r \in Coroutines /\ r \notin Senders
  BY ChannelAssumption, Zenon DEF Coroutines
<1>1. CASE /\ at[r] \in {"ready", "suspend"} /\ (\E place : at' = [at EXCEPT ![r] = place])
           /\ UNCHANGED <<n, ok, history_vars>>
           /\ data' \in {data, [data EXCEPT ![r] = NullOpt]}
  <2>1. \A p \in Coroutines \ {r} : at'[p] = at[p]
    BY <1>1, Zenon DEF Inv, TypeOK
  <2>2. /\ \A t \in Senders : at'[t] = at[t]
        /\ \A q \in Receivers : at'[q] = at[q] \/ at[q] # "resume"
    BY <1>0, <1>1, <2>1, Zenon DEF Coroutines
  <2>3. data' = data
    <3>1. data[r] = NullOpt
      BY <1>1, Zenon DEF GotTrue
    <3> QED BY <1>1, <3>1, Zenon DEF Inv, TypeOK
  <2> QED BY <1>1, <2>2, <2>3, SentStays, GotStays, Zenon
<1>2. CASE at[r] \in {"ready", "suspend"} /\ (Dequeue(r) \/ Refill(r))
  <2>0. PICK v \in Values : v = Head(m_buffer)
    BY <1>2 DEF Dequeue, Refill, Inv, TypeOK
  <2>1. /\ data' = [data EXCEPT ![r] = v] /\ delivered' = Append(delivered, v)
        /\ UNCHANGED <<n, received>>
    BY <1>2, <2>0, Zenon DEF Dequeue, Refill
  <2>2. ASSUME at'[r] = "resume", \A q \in Receivers \ {r} : at'[q] = at[q] PROVE GotTrue'
    <3>1. at[r] # "resume"
      BY <1>2, Zenon
    <3> QED BY <2>1, <2>2, <3>1, DeliverTrue, Zenon
  <2>3. CASE Dequeue(r)
    <3>1. at' = [at EXCEPT ![r] = "resume"] /\ UNCHANGED <<accepted, ok>>
      BY <2>3, Zenon DEF Dequeue
    <3>2. at'[r] = "resume" /\ \A p \in Coroutines \ {r} : at'[p] = at[p]
      BY <1>0, <3>1, Zenon DEF Inv, TypeOK
    <3>3. (\A t \in Senders : at'[t] = at[t]) /\ \A q \in Receivers \ {r} : at'[q] = at[q]
      BY <1>0, <3>2, Zenon DEF Coroutines
    <3> QED BY <2>1, <2>2, <3>1, <3>2, <3>3, SentStays, Zenon
  <2>4. CASE Refill(r)
    <3> DEFINE s == Head(m_senders)
    <3>0. m_senders \in Seq(Senders) /\ m_senders # <<>> /\ IsInjective(m_senders)
      BY <2>4, Zenon DEF Inv, TypeOK, WaitersBlocked, Refill
    <3>1. s \in Senders /\ s # r
      BY <1>0, <3>0, PopWaiter
    <3>2. /\ ok' = [ok EXCEPT ![s] = TRUE] /\ accepted' = Append(accepted, m_value(s))
          /\ at' = [at EXCEPT ![r] = "resume", ![s] = "resume"]
      BY <2>4, Zenon DEF Refill
    <3> HIDE DEF s
    <3>3. /\ at'[r] = "resume" /\ at'[s] = "resume"
          /\ \A p \in Coroutines \ {r, s} : at'[p] = at[p]
      BY <1>0, <3>1, <3>2, Zenon DEF Inv, TypeOK, Coroutines
    <3>4. /\ \A t \in Senders \ {s} : at'[t] = at[t]
          /\ \A q \in Receivers \ {r} : at'[q] = at[q]
      BY <3>1, <3>3, ChannelAssumption, Zenon DEF Coroutines
    <3> QED BY <2>1, <2>2, <3>1, <3>2, <3>3, <3>4, AcceptTrue, Zenon
  <2> QED BY <1>2, <2>3, <2>4, Zenon
<1>3. CASE recv_await_resume(r)
  <2>1. /\ at[r] = "resume" /\ (\E place : at' = [at EXCEPT ![r] = place])
        /\ UNCHANGED <<n, ok, accepted, delivered>>
    BY <1>3, Zenon DEF recv_await_resume
  <2>2. \A p \in Coroutines \ {r} : at'[p] = at[p]
    BY <2>1, Zenon DEF Inv, TypeOK
  <2>3. SentTrue'
    <3>1. \A t \in Senders : at'[t] = at[t]
      BY <1>0, <2>2, Zenon DEF Coroutines
    <3> QED BY <2>1, <3>1, SentStays, Zenon
  <2>4. \A q \in Receivers \ {r} : at'[q] = at[q]
    BY <2>2, Zenon DEF Coroutines
  <2>5. CASE data[r] # NullOpt
    <3>1. received' = received \cup {data[r]} /\ data' = [data EXCEPT ![r] = NullOpt]
      BY <1>3, <2>5, Zenon DEF recv_await_resume
    <3>2. data'[r] = NullOpt /\ \A q \in Receivers \ {r} : data'[q] = data[q]
      BY <3>1, Zenon DEF Inv, TypeOK
    <3>3. {data[q] : q \in Receivers} \ {NullOpt}
              = ({data'[q] : q \in Receivers} \ {NullOpt}) \cup {data[r]}
      BY <2>5, <3>2
    <3>4. Range(delivered') = received' \cup ({data'[q] : q \in Receivers} \ {NullOpt})
      BY <2>1, <3>1, <3>3, Zenon DEF GotTrue
    <3>5. GotTrue'
      BY <2>4, <3>2, <3>4, Zenon DEF GotTrue
    <3> QED BY <2>3, <3>5, Zenon
  <2>6. CASE data[r] = NullOpt
    <3>1. UNCHANGED <<received, data>>
      BY <1>3, <2>6, Zenon DEF recv_await_resume
    <3>2. GotTrue'
      BY <2>1, <2>4, <2>6, <3>1 DEF GotTrue
    <3> QED BY <2>3, <3>2, Zenon
  <2> QED BY <2>5, <2>6, Zenon
<1> QED
  BY <1>1, <1>2, <1>3, Zenon
     DEF Recv, recv_await_ready, recv_await_suspend, try_recv_locked, RecvOnClosed

\* close() tells the waiters what their results already say.
LEMMA CloseTold ==
    ASSUME Inv, SentTrue, GotTrue, close
    PROVE  SentTrue' /\ GotTrue'
<1>1. ok' = ok
  <2>1. \A s \in Range(m_senders) : s \in Senders => ok[s] = FALSE
    BY Zenon DEF SentTrue, Inv, WaitersBlocked, TypeOK
  <2> QED BY <2>1, Zenon DEF close, Inv, TypeOK
<1>2. data' = data
  <2>1. \A r \in Range(m_receivers) : r \in Receivers => data[r] = NullOpt
    BY Zenon DEF GotTrue, Inv, WaitersBlocked
  <2> QED BY <2>1, Zenon DEF close, Inv, TypeOK
<1>3. \A p \in Coroutines : at'[p] = at[p] \/ at[p] = "waiting"
  <2>1. /\ \A p \in Range(m_senders) : p \in Senders
        /\ \A p \in Range(m_receivers) : p \in Receivers
    BY DEF Inv, TypeOK, Range
  <2> QED BY <2>1, Zenon DEF close, Inv, WaitersBlocked
<1>4. /\ \A t \in Senders : at'[t] = at[t] \/ at[t] \notin {"resume", "ended"}
      /\ \A q \in Receivers : at'[q] = at[q] \/ at[q] # "resume"
  BY <1>3, Zenon DEF Coroutines
<1>5. UNCHANGED <<n, accepted, delivered, received>>
  BY Zenon DEF close, history_vars
<1> QED BY <1>1, <1>2, <1>4, <1>5, SentStays, GotStays, Zenon

\* What senders and receivers are told is what happened.
THEOREM AnswersTrueCorrect == Spec => []AnswersTrue
<1>1. Init => SentTrue /\ GotTrue
  BY DEF Init, SentTrue, GotTrue, Coroutines, Range
<1>2. Inv /\ SentTrue /\ GotTrue /\ [Next]_vars => SentTrue' /\ GotTrue'
  <2>1. Inv /\ SentTrue /\ GotTrue /\ UNCHANGED vars => SentTrue' /\ GotTrue'
    BY Zenon DEF vars, list_vars, history_vars, SentTrue, GotTrue, m_value
  <2> QED BY <2>1, SendTold, RecvTold, CloseTold, Zenon DEF Next
<1>3. SentTrue /\ GotTrue => AnswersTrue
  BY Zenon DEF SentTrue, GotTrue, AnswersTrue
<1> QED BY <1>1, <1>2, <1>3, InvAlways, PTL DEF Spec
=============================================================================
