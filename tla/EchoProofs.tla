----------------------------- MODULE EchoProofs -----------------------------
(***************************************************************************)
(* Proofs about EchoServer.tla, for any number of connections, messages,   *)
(* slots and buffer places: operations and slots are kept apart, and what  *)
(* a peer gets back is a prefix of what it sent.                           *)
(***************************************************************************)
EXTENDS EchoServer, Items, TLAPS

-----------------------------------------------------------------------------
(* The echo servers. A socket is in at most one place: an operation on it  *)
(* is prepared, or in the kernel, or completed and not yet handled, or it  *)
(* was accepted and the completion that says so has not been handled, or   *)
(* its session has not started. It borrows a slot with its first operation *)
(* and gives it back with the one that closes it, so that a slot an        *)
(* operation was prepared with is still its own at the submission.         *)

EchoSpec == EchoInit /\ [][EchoNext]_echo_vars

Socks   == 0 .. MaxConns
IoKinds == {"accept", "connect", "read", "write", "close"}
Ops     == [ev : IoKinds, who : Socks \cup {-1}, idx : 0 .. FixFds, to : Socks \cup {-1}, n : Int]
Cqes    == [ev : IoKinds, who : Socks \cup {-1}, res : Int]

EchoTypeOK ==
    /\ server \in Servers \cup {"none"}
    /\ peer \in [Conns -> PeerStates] /\ fd \in [Conns -> {"none", "open", "closed"}]
    /\ sent \in [Conns -> Nat] /\ inbox \in [Conns -> Seq(Conns \X Nat)]
    /\ armed \subseteq Ops /\ inflight \subseteq Ops
    /\ cqes \in Seq(Cqes) /\ nready \in 0 .. Len(cqes)
    /\ spawned \subseteq Socks

SlotTypeOK ==
    /\ que \in Seq(1 .. FixFds)
    /\ slot \in [Socks -> 0 .. FixFds]
    /\ table \in [1 .. FixFds -> Socks \cup {NullFd}]

\* The first part of SlotsExact: a slot is free, or lent to the socket it names.
Free(s) == \E i \in 1 .. Len(que) : que[i] = s

SlotsLent ==
    /\ \A i, j \in 1 .. Len(que) : que[i] = que[j] => i = j
    /\ \A s \in 1 .. FixFds :
          /\ Free(s) => table[s] = NullFd /\ \A c \in Socks : slot[c] # s
          /\ ~Free(s) => table[s] \in Socks /\ \A c \in Socks : slot[c] = s <=> c = table[s]

\* The sockets the operations of S are on, those a completion x stands for, and that no
\* socket occurs twice. An accept stands for the listening socket and for the one accepted.
Names(S) == {c \in Socks : \E o \in S : o.who = c}
Once(S)  == \A o, p \in S : o.who = p.who /\ o.who \in Socks => o = p

Of(x)      == {c \in Socks : x.who = c \/ (x.ev = "accept" /\ x.res = c)}
CqNames(q) == {c \in Socks : \E i \in 1 .. Len(q) : c \in Of(q[i])}
CqOnce(q)  == \A c \in Socks : \A i, j \in 1 .. Len(q) : c \in Of(q[i]) /\ c \in Of(q[j]) => i = j

Sessions == spawned \ {Listener}

OnePlace ==
    /\ Once(armed) /\ Once(inflight) /\ CqOnce(cqes)
    /\ Names(armed) \cap (Names(inflight) \cup CqNames(cqes) \cup Sessions) = {}
    /\ Names(inflight) \cap (CqNames(cqes) \cup Sessions) = {}
    /\ CqNames(cqes) \cap Sessions = {}

Idle(c) == c \notin Names(armed) \cup Names(inflight) \cup CqNames(cqes) \cup Sessions

\* Which operations a socket may have, by its slot and its descriptor.
Unused(c) == slot[c] = NoSlot /\ fd[c] # "closed"

OpRule(o) ==
    /\ o.ev = "accept" <=> o.who = Listener
    /\ o.who = -1 => server = "uring"
    /\ o.ev = "connect" => o.who \in Conns /\ slot[o.who] = NoSlot
    /\ o.who \in Conns => fd[o.who] # "closed"

ArmedRule(o) == OpRule(o) /\ (o.idx # NoSlot => o.who \in Socks /\ slot[o.who] = o.idx)

CqeRule(x) ==
    /\ x.ev = "accept" <=> x.who = Listener
    /\ x.who = -1 => server = "uring"
    /\ x.ev = "accept" => x.res \in Conns \cup {Failed} /\ (x.res \in Conns => Unused(x.res))
    /\ x.ev = "connect" => x.who \in Conns /\ slot[x.who] = NoSlot
    /\ x.who \in Conns /\ x.ev # "close" => fd[x.who] # "closed"

Rules ==
    /\ \A o \in armed : ArmedRule(o)
    /\ \A o \in inflight : OpRule(o) /\ o.to = o.who
    /\ \A i \in 1 .. Len(cqes) : CqeRule(cqes[i])
    /\ \A c \in Sessions : Unused(c)

\* Who has nothing under way yet.
Begins ==
    /\ \A c \in Conns : peer[c] \in {"away", "connecting"} /\ server # "client" =>
           Idle(c) /\ slot[c] = NoSlot
    /\ \A c \in Conns : peer[c] = "connecting" => server \notin {"none", "client"}
    /\ server = "coro" /\ Listener \notin spawned => Idle(Listener) /\ slot[Listener] = NoSlot
    /\ server \in {"none", "epoll"} => \A c \in Socks : Idle(c)
    /\ server \in {"none", "epoll"} => armed = {} /\ inflight = {} /\ cqes = <<>>
    /\ events # {} => server = "epoll"
    /\ server = "none" =>
          (\A c \in Socks : slot[c] = NoSlot) /\ (\A c \in Conns : fd[c] # "closed")

EchoInv == EchoTypeOK /\ SlotTypeOK /\ SlotsLent /\ OnePlace /\ Rules /\ Begins

\* One operation more on a socket that had none.
LEMMA NamesAdd ==
  ASSUME NEW S, NEW T, Once(S), Once(T), Names(S) \cap Names(T) = {}
  PROVE  Names(S \cup T) = Names(S) \cup Names(T) /\ Once(S \cup T)
BY Zenon DEF Names, Once

\* An operation leaves.
LEMMA NamesDrop ==
  ASSUME NEW S, NEW o \in S, Once(S)
  PROVE  /\ Names(S \ {o}) = Names(S) \ {o.who} /\ Once(S \ {o})
         /\ o.who \in Socks => o.who \in Names(S)
BY Zenon DEF Names, Once

\* A completion is queued.
LEMMA CqAppend ==
  ASSUME NEW q \in Seq(Cqes), NEW x \in Cqes, CqOnce(q), Of(x) \cap CqNames(q) = {}
  PROVE  /\ Append(q, x) \in Seq(Cqes) /\ Len(Append(q, x)) = Len(q) + 1
         /\ CqNames(Append(q, x)) = CqNames(q) \cup Of(x) /\ CqOnce(Append(q, x))
         /\ \A i \in 1 .. Len(q) + 1 : Append(q, x)[i] = x \/ \E j \in 1 .. Len(q) : Append(q, x)[i] = q[j]
<1>1. /\ Append(q, x) \in Seq(Cqes) /\ Len(q) \in Nat /\ Len(Append(q, x)) = Len(q) + 1
      /\ Append(q, x)[Len(q) + 1] = x
      /\ \A i \in 1 .. Len(q) : Append(q, x)[i] = q[i]
  OBVIOUS
<1>2. PICK r : r = Append(q, x)
  BY Zenon
<1>3. /\ Len(r) = Len(q) + 1 /\ r[Len(q) + 1] = x /\ \A i \in 1 .. Len(q) : r[i] = q[i]
      /\ Len(q) + 1 \in 1 .. Len(q) + 1
      /\ \A i \in 1 .. Len(q) + 1 : i = Len(q) + 1 \/ i \in 1 .. Len(q)
      /\ \A i \in 1 .. Len(q) : i \in 1 .. Len(q) + 1
  BY <1>1, <1>2
<1>4. CqNames(r) = CqNames(q) \cup Of(x)
  <2>1. ASSUME NEW c \in CqNames(r) PROVE c \in CqNames(q) \cup Of(x)
    BY <1>3, Zenon DEF CqNames, Of
  <2>2. ASSUME NEW c \in CqNames(q) \cup Of(x) PROVE c \in CqNames(r)
    BY <1>3, Zenon DEF CqNames, Of
  <2> QED BY <2>1, <2>2, Zenon
<1>5. CqOnce(r)
  <2> SUFFICES ASSUME NEW c \in Socks, NEW i \in 1 .. Len(r), NEW j \in 1 .. Len(r),
                      c \in Of(r[i]), c \in Of(r[j])
               PROVE  i = j
    BY Zenon DEF CqOnce
  <2>1. \A k \in 1 .. Len(q) : c \in Of(q[k]) => c \in CqNames(q) /\ c \notin Of(x)
    BY Zenon DEF CqNames
  <2>2. CASE i = Len(q) + 1 \/ j = Len(q) + 1
    BY ONLY <1>3, <2>1, <2>2, i \in 1 .. Len(r), j \in 1 .. Len(r), c \in Of(r[i]),
       c \in Of(r[j]), Zenon
  <2>3. CASE i \in 1 .. Len(q) /\ j \in 1 .. Len(q)
    BY <1>3, <2>3, Zenon DEF CqOnce
  <2> QED BY <1>3, <2>2, <2>3, Zenon
<1> QED BY <1>1, <1>2, <1>3, <1>4, <1>5, Zenon

\* The first completion is handled.
LEMMA CqTail ==
  ASSUME NEW q \in Seq(Cqes), q # <<>>, CqOnce(q)
  PROVE  /\ Head(q) \in Cqes /\ Tail(q) \in Seq(Cqes) /\ Len(Tail(q)) = Len(q) - 1
         /\ Of(Head(q)) \subseteq CqNames(q)
         /\ CqNames(Tail(q)) = CqNames(q) \ Of(Head(q)) /\ CqOnce(Tail(q))
         /\ \A i \in 1 .. Len(q) - 1 : \E j \in 1 .. Len(q) : Tail(q)[i] = q[j]
         /\ \E j \in 1 .. Len(q) : Head(q) = q[j]
<1>1. /\ Tail(q) \in Seq(Cqes) /\ Len(q) \in Nat /\ Len(q) >= 1 /\ Len(Tail(q)) = Len(q) - 1
      /\ \A i \in 1 .. Len(Tail(q)) : Tail(q)[i] = q[i + 1]
      /\ Head(q) = q[1] /\ q[1] \in Cqes
  OBVIOUS
<1>2. PICK r : r = Tail(q)
  BY Zenon
<1>3. /\ Len(r) = Len(q) - 1 /\ \A i \in 1 .. Len(r) : r[i] = q[i + 1]
      /\ 1 \in 1 .. Len(q)
      /\ \A i \in 1 .. Len(r) : i + 1 \in 1 .. Len(q) /\ i + 1 # 1
      /\ \A i \in 1 .. Len(q) : i = 1 \/ (i - 1 \in 1 .. Len(r) /\ (i - 1) + 1 = i)
  BY <1>1, <1>2
<1>4. Of(q[1]) \subseteq CqNames(q)
  BY <1>3, Zenon DEF CqNames, Of
<1>5. CqNames(r) = CqNames(q) \ Of(q[1])
  <2>1. ASSUME NEW c \in CqNames(r) PROVE c \in CqNames(q) \ Of(q[1])
    <3>1. PICK i \in 1 .. Len(r) : c \in Of(r[i])
      BY Zenon DEF CqNames
    <3>2. c \in Of(q[i + 1]) /\ i + 1 \in 1 .. Len(q) /\ i + 1 # 1 /\ c \in Socks
      BY <1>3, <3>1, Zenon DEF Of
    <3> QED BY <1>3, <3>2, Zenon DEF CqNames, CqOnce
  <2>2. ASSUME NEW c \in CqNames(q), c \notin Of(q[1]) PROVE c \in CqNames(r)
    <3>1. PICK i \in 1 .. Len(q) : c \in Of(q[i])
      BY Zenon DEF CqNames
    <3>2. i - 1 \in 1 .. Len(r) /\ (i - 1) + 1 = i
      BY ONLY <1>3, <2>2, <3>1, i \in 1 .. Len(q), Zenon
    <3>3. c \in Of(r[i - 1]) /\ c \in Socks
      BY <1>3, <3>1, <3>2, Zenon DEF Of
    <3> QED BY <3>2, <3>3, Zenon DEF CqNames
  <2> QED BY <2>1, <2>2, Zenon
<1>6. CqOnce(r)
  <2> SUFFICES ASSUME NEW c \in Socks, NEW i \in 1 .. Len(r), NEW j \in 1 .. Len(r),
                      c \in Of(r[i]), c \in Of(r[j])
               PROVE  i = j
    BY Zenon DEF CqOnce
  <2>1. c \in Of(q[i + 1]) /\ c \in Of(q[j + 1]) /\ i + 1 \in 1 .. Len(q) /\ j + 1 \in 1 .. Len(q)
    BY <1>3, Zenon
  <2>2. i + 1 = j + 1
    BY <2>1, Zenon DEF CqOnce
  <2> QED BY <1>1, <1>3, <2>2
<1> QED BY <1>1, <1>2, <1>3, <1>4, <1>5, <1>6, Zenon

\* Borrowing for a socket that has no slot.
LEMMA AssignKeeps ==
  ASSUME SlotTypeOK, SlotsLent, NEW c \in Socks, slot[c] = NoSlot, assign(c)
  PROVE  /\ SlotTypeOK' /\ SlotsLent'
         /\ \A d \in Socks \ {c} : slot'[d] = slot[d]
<1> USE EchoAssumption DEF NoSlot, NullFd
<1>1. CASE que = <<>>
  BY <1>1 DEF assign, slot_vars, SlotTypeOK, SlotsLent, Free
<1>2. CASE que # <<>>
  <2>1. /\ Head(que) \in 1 .. FixFds /\ que' = Tail(que) /\ Tail(que) \in Seq(1 .. FixFds)
        /\ Len(que) \in Nat /\ Len(que) >= 1 /\ Head(que) = que[1]
        /\ Len(Tail(que)) = Len(que) - 1
        /\ \A i \in 1 .. Len(Tail(que)) : Tail(que)[i] = que[i + 1]
    BY <1>2 DEF assign, SlotTypeOK
  <2>2. PICK h \in 1 .. FixFds : h = Head(que)
    BY <2>1, Zenon
  <2>3. /\ Len(que') = Len(que) - 1 /\ \A i \in 1 .. Len(que') : que'[i] = que[i + 1]
        /\ que[1] = h /\ 1 \in 1 .. Len(que)
        /\ \A i \in 1 .. Len(que') : i + 1 \in 1 .. Len(que) /\ i + 1 # 1
        /\ \A i \in 1 .. Len(que) : i = 1 \/ (i - 1 \in 1 .. Len(que') /\ (i - 1) + 1 = i)
    BY <2>1, <2>2
  <2>4. slot' = [slot EXCEPT ![c] = h] /\ table' = [table EXCEPT ![h] = c]
    BY <1>2, <2>2, Zenon DEF assign
  <2>5. SlotTypeOK'
    BY <2>1, <2>4 DEF SlotTypeOK
  <2>6. \A i, j \in 1 .. Len(que') : que'[i] = que'[j] => i = j
    <3>1. ASSUME NEW i \in 1 .. Len(que'), NEW j \in 1 .. Len(que'), que'[i] = que'[j] PROVE i = j
      <4>1. que[i + 1] = que[j + 1] /\ i + 1 \in 1 .. Len(que) /\ j + 1 \in 1 .. Len(que)
        BY <2>3, <3>1, Zenon
      <4>2. i + 1 = j + 1
        BY <4>1, Zenon DEF SlotsLent
      <4> QED BY <4>2, <2>1, <2>3
    <3> QED BY <3>1, Zenon
  <2>7. Free(h) /\ ~Free(h)'
    BY <2>3 DEF Free, SlotsLent
  <2>8. ASSUME NEW s \in 1 .. FixFds, s # h PROVE Free(s)' <=> Free(s)
    <3>1. ASSUME Free(s) PROVE Free(s)'
      <4>1. PICK i \in 1 .. Len(que) : que[i] = s
        BY <3>1, Zenon DEF Free
      <4>2. i - 1 \in 1 .. Len(que') /\ que'[i - 1] = s
        BY <2>3, <2>8, <4>1
      <4> QED BY <4>2, Zenon DEF Free
    <3>2. ASSUME Free(s)' PROVE Free(s)
      BY <2>3, <3>2 DEF Free
    <3> QED BY <3>1, <3>2, Zenon
  <2>9. ASSUME NEW s \in 1 .. FixFds
        PROVE  /\ Free(s)' => table'[s] = NullFd /\ \A d \in Socks : slot'[d] # s
               /\ ~Free(s)' => table'[s] \in Socks /\ \A d \in Socks : slot'[d] = s <=> d = table'[s]
    <3>1. CASE s = h
      BY <2>4, <2>7, <3>1 DEF SlotsLent, SlotTypeOK
    <3>2. CASE s # h
      BY <2>4, <2>8, <3>2 DEF SlotsLent, SlotTypeOK
    <3> QED BY <3>1, <3>2, Zenon
  <2>10. SlotsLent'
    BY <2>6, <2>9, Zenon DEF SlotsLent
  <2> QED BY <2>4, <2>5, <2>10, Zenon DEF SlotTypeOK
<1> QED BY <1>1, <1>2, Zenon

\* Returning.
LEMMA ReturnKeeps ==
  ASSUME SlotTypeOK, SlotsLent, NEW c \in Socks, return_back(c)
  PROVE  /\ SlotTypeOK' /\ SlotsLent' /\ slot'[c] = NoSlot
         /\ \A d \in Socks \ {c} : slot'[d] = slot[d]
<1> USE EchoAssumption DEF NoSlot, NullFd
<1>1. CASE slot[c] = NoSlot
  BY <1>1 DEF return_back, slot_vars, SlotTypeOK, SlotsLent, Free
<1>2. CASE slot[c] # NoSlot
  <2>1. PICK h \in 1 .. FixFds : h = slot[c]
    BY <1>2 DEF SlotTypeOK
  <2>2. /\ que' = Append(que, h) /\ slot' = [slot EXCEPT ![c] = NoSlot]
        /\ table' = [table EXCEPT ![h] = NullFd]
    BY <1>2, <2>1, Zenon DEF return_back
  <2>3. /\ que' \in Seq(1 .. FixFds) /\ Len(que) \in Nat /\ Len(que') = Len(que) + 1
        /\ que'[Len(que) + 1] = h /\ \A i \in 1 .. Len(que) : que'[i] = que[i]
    BY <2>2 DEF SlotTypeOK
  <2>4. /\ Len(que) + 1 \in 1 .. Len(que')
        /\ \A i \in 1 .. Len(que') : i = Len(que) + 1 \/ i \in 1 .. Len(que)
        /\ \A i \in 1 .. Len(que) : i \in 1 .. Len(que')
    BY <2>3
  <2>5. SlotTypeOK'
    BY <2>2, <2>3 DEF SlotTypeOK
  <2>6. ~Free(h) /\ Free(h)'
    BY <2>1, <2>3, <2>4, Zenon DEF Free, SlotsLent
  <2>7. \A i, j \in 1 .. Len(que') : que'[i] = que'[j] => i = j
    <3>1. ASSUME NEW i \in 1 .. Len(que'), NEW j \in 1 .. Len(que'), que'[i] = que'[j] PROVE i = j
      <4>1. CASE i \in 1 .. Len(que) /\ j \in 1 .. Len(que)
        BY <2>3, <3>1, <4>1 DEF SlotsLent
      <4>2. \A k \in 1 .. Len(que) : que'[k] # h
        BY <2>3, <2>6, Zenon DEF Free
      <4> QED BY ONLY <2>3, <2>4, <3>1, <4>1, <4>2, Zenon
    <3> QED BY <3>1, Zenon
  <2>8. ASSUME NEW s \in 1 .. FixFds, s # h PROVE Free(s)' <=> Free(s)
    BY <2>3, <2>4, <2>8, Zenon DEF Free
  <2>9. ASSUME NEW s \in 1 .. FixFds
        PROVE  /\ Free(s)' => table'[s] = NullFd /\ \A d \in Socks : slot'[d] # s
               /\ ~Free(s)' => table'[s] \in Socks /\ \A d \in Socks : slot'[d] = s <=> d = table'[s]
    <3>1. CASE s = h
      BY <2>1, <2>2, <2>6, <3>1 DEF SlotsLent, SlotTypeOK
    <3>2. CASE s # h
      BY <2>1, <2>2, <2>8, <3>2 DEF SlotsLent, SlotTypeOK
    <3> QED BY <3>1, <3>2, Zenon
  <2>10. SlotsLent'
    BY <2>7, <2>9, Zenon DEF SlotsLent
  <2> QED BY <2>2, <2>5, <2>10, Zenon DEF SlotTypeOK
<1> QED BY <1>1, <1>2, Zenon

\* A completion is handled: its sockets get the operations New or a session, and nothing
\* else changes but their slots and descriptors.
LEMMA HandledKeeps ==
  ASSUME EchoInv, nready > 0, CqeDone, SlotTypeOK', SlotsLent',
         NEW New \in SUBSET Ops, armed' = armed \cup New, Once(New), Names(New) \subseteq Of(Cqe),
         NEW Add \in SUBSET Conns, spawned' = spawned \cup Add, Add \subseteq Of(Cqe),
         Add \cap Names(New) = {},
         fd' \in [Conns -> {"none", "open", "closed"}],
         \A d \in Socks \ Of(Cqe) : slot'[d] = slot[d],
         \A d \in Conns \ Of(Cqe) : fd'[d] = fd[d],
         \A o \in New : ArmedRule(o)',
         \A c \in Add : Unused(c)'
  PROVE  EchoInv'
<1> USE EchoAssumption
<1>s. Conns \subseteq Socks /\ Listener \in Socks /\ Listener \notin Conns /\ -1 \notin Socks
  BY DEF Conns, Socks, Listener
<1>t. EchoTypeOK /\ OnePlace /\ Rules /\ Begins
  BY Zenon DEF EchoInv
<1>0. cqes \in Seq(Cqes) /\ cqes # <<>> /\ CqOnce(cqes) /\ nready \in Nat /\ nready <= Len(cqes)
  <2>1. cqes \in Seq(Cqes) /\ CqOnce(cqes) /\ nready \in 0 .. Len(cqes)
    BY <1>t, Zenon DEF EchoTypeOK, OnePlace
  <2> QED BY <2>1
<1>1. /\ Cqe \in Cqes /\ cqes' \in Seq(Cqes) /\ Len(cqes') = Len(cqes) - 1
      /\ Of(Cqe) \subseteq CqNames(cqes)
      /\ CqNames(cqes') = CqNames(cqes) \ Of(Cqe) /\ CqOnce(cqes')
      /\ \A i \in 1 .. Len(cqes') : \E j \in 1 .. Len(cqes) : cqes'[i] = cqes[j]
  BY <1>0, CqTail DEF Cqe, CqeDone
<1>2. UNCHANGED <<server, peer, sent, inbox, inflight, events>> /\ nready' = nready - 1
  BY Zenon DEF CqeDone, peer_vars
<1>3. EchoTypeOK'
  <2>1. nready' \in 0 .. Len(cqes')
    <3>1. Len(cqes) \in Nat
      BY <1>0
    <3> QED BY <1>0, <1>1, <1>2, <3>1
  <2>2. spawned' \subseteq Socks /\ armed' \subseteq Ops
    BY <1>s, <1>t, Zenon DEF EchoTypeOK
  <2> QED BY <1>t, <1>1, <1>2, <2>1, <2>2, Zenon DEF EchoTypeOK
<1>4. Names(armed') = Names(armed) \cup Names(New) /\ Once(armed')
  <2>1. Names(armed) \cap Names(New) = {} /\ Once(armed)
    BY <1>t, <1>1, Zenon DEF OnePlace
  <2> QED BY <2>1, NamesAdd, Zenon
<1>5. Sessions' = Sessions \cup Add
  BY <1>s, Zenon DEF Sessions
<1>6. OnePlace'
  BY <1>t, <1>1, <1>2, <1>4, <1>5, Zenon DEF OnePlace
<1>7. Rules'
  <2>1. ASSUME NEW o \in armed PROVE ArmedRule(o)'
    <3>1. o \in Ops /\ ArmedRule(o) /\ (o.who \in Socks => o.who \notin Of(Cqe))
      BY <1>t, <1>1, Zenon DEF EchoTypeOK, Rules, OnePlace, Names
    <3> QED BY <1>s, <1>2, <3>1, Zenon DEF ArmedRule, OpRule, Ops
  <2>2. ASSUME NEW o \in inflight PROVE OpRule(o)' /\ o.to = o.who
    <3>1. o \in Ops /\ OpRule(o) /\ o.to = o.who /\ (o.who \in Socks => o.who \notin Of(Cqe))
      BY <1>t, <1>1, Zenon DEF EchoTypeOK, Rules, OnePlace, Names
    <3> QED BY <1>s, <1>2, <3>1, Zenon DEF OpRule, Ops
  <2>3. ASSUME NEW i \in 1 .. Len(cqes') PROVE CqeRule(cqes[i])'
    <3>1. PICK j \in 1 .. Len(cqes) : cqes'[i] = cqes[j]
      BY <1>1, Zenon
    <3>2. PICK x : x = cqes[j]
      BY Zenon
    <3>3. CqeRule(x) /\ x \in Cqes
      BY <1>t, <1>0, <3>2 DEF Rules
    <3>4. Of(x) \cap Of(Cqe) = {}
      BY <1>1, <3>1, <3>2, Zenon DEF CqNames
    <3>5. /\ x.who \in Socks => x.who \notin Of(Cqe)
          /\ x.ev = "accept" /\ x.res \in Socks => x.res \notin Of(Cqe)
      BY <3>4, Zenon DEF Of
    <3>6. CqeRule(x)'
      BY <1>s, <1>2, <3>3, <3>5, Zenon DEF CqeRule, Unused
    <3> QED BY <3>1, <3>2, <3>6, Zenon DEF CqeRule, Unused
  <2>4. ASSUME NEW c \in Sessions PROVE Unused(c)'
    <3>1. c \in Conns /\ c \notin Of(Cqe) /\ Unused(c)
      <4>1. c \in Socks /\ c # Listener /\ c \notin Of(Cqe) /\ Unused(c)
        BY <1>t, <1>1, Zenon DEF EchoTypeOK, OnePlace, Rules, Sessions
      <4> QED BY <4>1 DEF Socks, Conns, Listener
    <3> QED BY <1>s, <3>1, Zenon DEF Unused
  <2> QED BY <1>2, <1>5, <2>1, <2>2, <2>3, <2>4, Zenon DEF Rules
<1>8. ASSUME NEW c \in Socks, Idle(c) PROVE Idle(c)' /\ slot'[c] = slot[c]
  <2>1. c \notin Of(Cqe)
    BY <1>1, <1>8, Zenon DEF Idle
  <2> QED BY <1>1, <1>2, <1>4, <1>5, <1>8, <2>1, Zenon DEF Idle
<1>9. server \notin {"none", "epoll"}
  BY <1>t, <1>0, Zenon DEF Begins
<1>10. Listener \notin spawned' => Listener \notin spawned
  BY Zenon
<1>11. Begins'
  BY <1>s, <1>t, <1>2, <1>8, <1>9, <1>10, Zenon DEF Begins
<1> QED BY <1>3, <1>6, <1>7, <1>11, Zenon DEF EchoInv

\* The kernel completes operation o: it gives the socket of an accepted connection its first
\* place, and touches only the descriptors the completion stands for.
LEMMA CompletedKeeps ==
  ASSUME EchoInv, NEW o \in inflight, NEW res \in Int, Completes(o, res),
         peer' \in [Conns -> PeerStates], inbox' \in [Conns -> Seq(Conns \X Nat)],
         fd' \in [Conns -> {"none", "open", "closed"}],
         o.ev = "accept" => res \in Conns \cup {Failed},
         o.ev = "accept" /\ res \in Conns =>
             Idle(res) /\ slot[res] = NoSlot /\ fd'[res] = "open" /\ peer'[res] = "open",
         \A d \in Conns : d # o.who /\ ~(o.ev = "accept" /\ d = res) => fd'[d] = fd[d],
         o.ev # "close" /\ o.who \in Conns => fd'[o.who] # "closed",
         \A d \in Conns : peer'[d] \in {"away", "connecting"} => peer'[d] = peer[d]
  PROVE  EchoInv'
<1> USE EchoAssumption
<1>s. Conns \subseteq Socks /\ Listener \in Socks /\ Listener \notin Conns /\ -1 \notin Socks
  BY DEF Conns, Socks, Listener
<1>t. EchoTypeOK /\ SlotTypeOK /\ SlotsLent /\ OnePlace /\ Rules /\ Begins
  BY Zenon DEF EchoInv
<1>o. o \in Ops /\ OpRule(o) /\ o.to = o.who
  BY <1>t, Zenon DEF EchoTypeOK, Rules
<1> DEFINE y == [ev |-> o.ev, who |-> o.who, res |-> res]
<1>1. PICK x \in Cqes : x = y
  BY <1>o, Zenon DEF Ops, Cqes
<1>2. x.ev = o.ev /\ x.who = o.who /\ x.res = res
  BY <1>1, Zenon
<1>3. /\ UNCHANGED <<server, sent, armed, nready, spawned, events, que, slot, table>>
      /\ inflight' = inflight \ {o} /\ cqes' = Append(cqes, x)
  BY <1>1, Zenon DEF Completes, slot_vars
<1> HIDE DEF y
<1>4. /\ Names(inflight') = Names(inflight) \ {o.who} /\ Once(inflight')
      /\ o.who \in Socks => o.who \in Names(inflight)
  BY <1>t, <1>3, NamesDrop, Zenon DEF OnePlace
<1>5. \A c \in Of(x) : c \in Names(inflight) \/ (o.ev = "accept" /\ c = res /\ c \in Conns /\ Idle(c))
  BY <1>2, <1>4, <1>s DEF Of, Failed
<1>6. Of(x) \cap CqNames(cqes) = {}
  BY <1>t, <1>5, Zenon DEF OnePlace, Idle
<1>7. /\ cqes' \in Seq(Cqes) /\ Len(cqes') = Len(cqes) + 1
      /\ CqNames(cqes') = CqNames(cqes) \cup Of(x) /\ CqOnce(cqes')
      /\ \A i \in 1 .. Len(cqes') : cqes'[i] = x \/ \E j \in 1 .. Len(cqes) : cqes'[i] = cqes[j]
  <2>1. cqes \in Seq(Cqes) /\ CqOnce(cqes)
    BY <1>t, Zenon DEF EchoTypeOK, OnePlace
  <2> QED BY <1>3, <1>6, <2>1, CqAppend
<1>8. EchoTypeOK'
  <2>1. nready' \in 0 .. Len(cqes')
    <3>1. Len(cqes) \in Nat /\ nready \in 0 .. Len(cqes)
      BY <1>t DEF EchoTypeOK
    <3> QED BY <1>3, <1>7, <3>1
  <2> QED BY <1>t, <1>3, <1>7, <2>1, Zenon DEF EchoTypeOK
<1>9. SlotTypeOK' /\ SlotsLent'
  BY <1>t, <1>3 DEF SlotTypeOK, SlotsLent, Free
<1>10. Sessions' = Sessions
  BY <1>3, Zenon DEF Sessions
<1>11. OnePlace'
  <2>1. \A c \in Of(x) : c \notin Names(inflight') /\ c \notin Names(armed) /\ c \notin Sessions
    <3>1. ASSUME NEW c \in Names(inflight), c \in Of(x) PROVE c = o.who
      BY <1>s, <1>2, <3>1 DEF Of, Idle, Failed
    <3>2. ASSUME NEW c \in Names(inflight) PROVE c \notin Names(armed) /\ c \notin Sessions
      BY <1>t, Zenon DEF OnePlace
    <3>3. ASSUME NEW c, Idle(c)
          PROVE  c \notin Names(inflight') /\ c \notin Names(armed) /\ c \notin Sessions
      BY <1>4, <3>3, Zenon DEF Idle
    <3> QED BY <1>4, <1>5, <3>1, <3>2, <3>3, Zenon
  <2> QED BY <1>t, <1>3, <1>4, <1>7, <1>10, <2>1, ZenonT(30) DEF OnePlace
<1>12. ASSUME NEW d \in Conns, d \notin Of(x) PROVE fd'[d] = fd[d]
  BY <1>s, <1>2, <1>12, Zenon DEF Of
<1>13. Rules'
  <2>1. ASSUME NEW p \in armed PROVE ArmedRule(p)'
    <3>1. p \in Ops /\ ArmedRule(p) /\ (p.who \in Socks => p.who \in Names(armed))
      BY <1>t, Zenon DEF EchoTypeOK, Rules, Names
    <3>2. p.who \in Conns => p.who \notin Of(x)
      BY <1>s, <1>t, <1>5, <3>1, Zenon DEF OnePlace, Idle
    <3> QED BY <1>3, <1>12, <3>1, <3>2, Zenon DEF ArmedRule, OpRule
  <2>2. ASSUME NEW p \in inflight' PROVE OpRule(p)' /\ p.to = p.who
    <3>1. p \in inflight /\ p \in Ops /\ OpRule(p) /\ p.to = p.who
          /\ (p.who \in Socks => p.who \in Names(inflight'))
      BY <1>t, <1>3, Zenon DEF EchoTypeOK, Rules, Names
    <3>2. p.who \in Conns => p.who \notin Of(x)
      BY <1>s, <1>11, <1>7, <3>1, Zenon DEF OnePlace
    <3> QED BY <1>3, <1>12, <3>1, <3>2, Zenon DEF OpRule
  <2>3. ASSUME NEW i \in 1 .. Len(cqes') PROVE CqeRule(cqes[i])'
    <3>1. CASE cqes'[i] = x
      <4>1. CqeRule(x)'
        BY <1>s, <1>o, <1>2, <1>3, Zenon DEF CqeRule, OpRule, Unused, Failed
      <4> QED BY <3>1, <4>1, Zenon DEF CqeRule, Unused
    <3>2. ASSUME NEW j \in 1 .. Len(cqes), cqes'[i] = cqes[j] PROVE CqeRule(cqes[i])'
      <4>1. PICK z : z = cqes[j]
        BY Zenon
      <4>2. CqeRule(z) /\ Of(z) \subseteq CqNames(cqes)
        BY <1>t, <4>1, Zenon DEF Rules, CqNames, Of
      <4>3. Of(z) \cap Of(x) = {}
        BY <1>6, <4>2, Zenon
      <4>4. /\ z.who \in Conns => z.who \notin Of(x)
            /\ z.ev = "accept" /\ z.res \in Conns => z.res \notin Of(x)
        BY <1>s, <4>3, Zenon DEF Of
      <4>5. CqeRule(z)'
        BY <1>3, <1>12, <4>2, <4>4, Zenon DEF CqeRule, Unused
      <4> QED BY <3>2, <4>1, <4>5, Zenon DEF CqeRule, Unused
    <3> QED BY <1>7, <3>1, <3>2, Zenon
  <2>4. ASSUME NEW c \in Sessions PROVE Unused(c)'
    <3>1. c \in Conns /\ c \notin Of(x) /\ Unused(c)
      <4>1. c \in Socks /\ c # Listener /\ c \notin Of(x) /\ Unused(c)
        BY <1>t, <1>5, Zenon DEF EchoTypeOK, OnePlace, Rules, Sessions, Idle
      <4> QED BY <4>1 DEF Socks, Conns, Listener
    <3> QED BY <1>3, <1>12, <3>1, Zenon DEF Unused
  <2> QED BY <1>3, <1>10, <2>1, <2>2, <2>3, <2>4, Zenon DEF Rules
<1>14. ASSUME NEW c \in Socks, Idle(c), ~(o.ev = "accept" /\ c = res) PROVE Idle(c)'
  <2>1. c \notin Of(x) /\ c \notin Names(inflight')
    BY <1>4, <1>5, <1>14, Zenon DEF Idle
  <2> QED BY <1>3, <1>7, <1>10, <1>14, <2>1, Zenon DEF Idle
<1>15. server \notin {"none", "epoll"}
  BY <1>t, Zenon DEF Begins
<1>16. ASSUME NEW c \in Conns, peer'[c] \in {"away", "connecting"}, server # "client"
       PROVE  Idle(c)' /\ slot[c] = NoSlot
  <2>1. Idle(c) /\ slot[c] = NoSlot
    BY <1>t, <1>16, Zenon DEF Begins
  <2> QED BY <1>s, <1>14, <1>16, <2>1, Zenon
<1>17. Listener # res \/ o.ev # "accept"
  BY <1>s DEF Failed, Listener
<1>18. Begins'
  BY <1>s, <1>t, <1>3, <1>14, <1>15, <1>16, <1>17, Zenon DEF Begins
<1> QED BY <1>8, <1>9, <1>11, <1>13, <1>18, Zenon DEF EchoInv

\* Each way of handling a completion.
LEMMA HandlersKeep ==
  ASSUME EchoInv,
         uring_accept \/ uring_read \/ uring_write \/ server_accepts \/ client_connects
             \/ session_read \/ session_write \/ session_close
  PROVE  EchoInv'
<1> USE EchoAssumption
<1>s. /\ Conns \subseteq Socks /\ Listener \in Socks /\ Listener \notin Conns /\ -1 \notin Socks
      /\ Socks = Conns \cup {Listener}
  BY DEF Conns, Socks, Listener
<1>t. EchoTypeOK /\ SlotTypeOK /\ SlotsLent /\ OnePlace /\ Rules /\ Begins
  BY Zenon DEF EchoInv
<1>n. NoSlot \in 0 .. FixFds /\ slot \in [Socks -> 0 .. FixFds]
  BY <1>t DEF NoSlot, SlotTypeOK
<1>1. nready > 0 /\ CqeDone /\ UNCHANGED server
  BY Zenon DEF uring_accept, uring_read, uring_write, server_accepts, client_connects,
         session_read, session_write, session_close, Handles, CqeDone
<1>2. Cqe \in Cqes /\ CqeRule(Cqe)
  <2>1. cqes \in Seq(Cqes) /\ cqes # <<>> /\ CqOnce(cqes)
    <3>1. cqes \in Seq(Cqes) /\ CqOnce(cqes) /\ nready \in 0 .. Len(cqes)
      BY <1>t, Zenon DEF EchoTypeOK, OnePlace
    <3> QED BY <1>1, <3>1
  <2>2. Cqe \in Cqes /\ \E j \in 1 .. Len(cqes) : Cqe = cqes[j]
    BY <2>1, CqTail, Zenon DEF Cqe
  <2> QED BY <1>t, <2>2, Zenon DEF Rules
<1>3. PICK x \in Cqes : x = Cqe
  BY <1>2, Zenon
<1>4. /\ CqeRule(x) /\ x.ev \in IoKinds /\ x.who \in Socks \cup {-1} /\ x.res \in Int
      /\ x.who \in Socks => x.who \in Of(x)
      /\ x.ev = "accept" /\ x.res \in Socks => x.res \in Of(x)
  BY <1>2, <1>3, Zenon DEF Cqes, Of
<1>5. fd \in [Conns -> {"none", "open", "closed"}]
  BY <1>t, Zenon DEF EchoTypeOK
\* What HandledKeeps asks for.
<1> DEFINE Handled(New, Add) ==
              /\ New \in SUBSET Ops /\ armed' = armed \cup New /\ Once(New) /\ Names(New) \subseteq Of(x)
              /\ Add \in SUBSET Conns /\ spawned' = spawned \cup Add /\ Add \subseteq Of(x)
              /\ Add \cap Names(New) = {}
              /\ fd' \in [Conns -> {"none", "open", "closed"}]
              /\ \A d \in Socks \ Of(x) : slot'[d] = slot[d]
              /\ \A d \in Conns \ Of(x) : fd'[d] = fd[d]
              /\ \A o \in New : ArmedRule(o)'
              /\ \A c \in Add : Unused(c)'
              /\ SlotTypeOK' /\ SlotsLent'
<1>6. ASSUME NEW New, NEW Add, Handled(New, Add) PROVE EchoInv'
  BY <1>1, <1>3, <1>6, HandledKeeps, Zenon
<1> HIDE DEF Handled
<1>7. UNCHANGED slot_vars => SlotTypeOK' /\ SlotsLent' /\ slot' = slot
  BY <1>t DEF slot_vars, SlotTypeOK, SlotsLent, Free
\* One operation on the socket of the completion.
<1>8. ASSUME NEW o \in Ops, o.who \in Of(x) \/ o.who = -1
      PROVE  Once({o}) /\ Names({o}) \subseteq Of(x)
  BY <1>s, <1>8, Zenon DEF Once, Names
<1>9. Once({}) /\ Names({}) = {}
  BY Zenon DEF Once, Names
<1>10. ASSUME NEW ev \in IoKinds, NEW c \in Socks \cup {-1}, NEW s \in 0 .. FixFds, NEW n \in Int
       PROVE  /\ Op(ev, c, s, n) \in Ops
              /\ Op(ev, c, s, n).ev = ev /\ Op(ev, c, s, n).who = c /\ Op(ev, c, s, n).idx = s
  BY Zenon DEF Op, Ops
<1>11. CASE uring_accept
  <2>1. x.ev = "accept" /\ x.who = Listener /\ x.res \in Conns \cup {-1}
    BY <1>3, <1>4, <1>11, Zenon DEF uring_accept, Handles, Cqe, CqeRule, Failed
  <2>2. PICK a \in Ops : a = set_event_accept
    BY <1>s, <1>n, <1>10 DEF set_event_accept, IoKinds
  <2>3. PICK b \in Ops : b = set_event_recv(x.res)
    BY <1>s, <1>n, <1>10, <2>1 DEF set_event_recv, IoKinds
  <2>4. /\ a.ev = "accept" /\ a.who = Listener /\ a.idx = NoSlot
        /\ b.ev = "read" /\ b.who = x.res /\ b.idx = NoSlot
    BY <2>2, <2>3, Zenon DEF set_event_accept, set_event_recv, Op
  <2>5. Once({a, b}) /\ Names({a, b}) \subseteq Of(x)
    BY <1>s, <1>4, <2>1, <2>4, Zenon DEF Once, Names
  <2>6. UNCHANGED <<server, fd, spawned, slot_vars>> /\ armed' = armed \cup {a, b} /\ server = "uring"
    BY <1>1, <1>3, <1>11, <2>2, <2>3, Zenon DEF uring_accept
  <2>7. ArmedRule(a)' /\ ArmedRule(b)'
    BY <1>s, <1>4, <1>7, <2>1, <2>4, <2>6, Zenon DEF ArmedRule, OpRule, CqeRule, Unused
  <2>8. Handled({a, b}, {})
    BY <1>5, <1>7, <2>5, <2>6, <2>7, Zenon DEF Handled
  <2> QED BY <1>6, <2>8, Zenon
<1>12. CASE uring_read
  <2>1. x.ev = "read" /\ x.who # Listener /\ server = "uring" /\ UNCHANGED <<server, spawned, slot_vars>>
    BY <1>1, <1>3, <1>4, <1>12, Zenon DEF uring_read, Handles, Cqe, CqeRule
  <2>2. CASE UNCHANGED armed
    <3>1. /\ fd' \in [Conns -> {"none", "open", "closed"}]
          /\ \A d \in Conns \ Of(x) : fd'[d] = fd[d]
      BY <1>s, <1>3, <1>4, <1>5, <1>12, <2>2 DEF uring_read
    <3>2. Handled({}, {})
      BY <1>7, <1>9, <2>1, <2>2, <3>1, Zenon DEF Handled
    <3> QED BY <1>6, <3>2, Zenon
  <2>3. CASE armed' = armed \cup {set_event_send(Cqe.who, Cqe.res)} /\ UNCHANGED fd
    <3>1. PICK a \in Ops : a = set_event_send(x.who, x.res)
      BY <1>n, <1>4, <1>10, Zenon DEF set_event_send, IoKinds
    <3>2. a.ev = "write" /\ a.who = x.who /\ a.idx = NoSlot
      BY <3>1, Zenon DEF set_event_send, Op
    <3>3. ArmedRule(a)'
      BY <1>4, <2>1, <2>3, <3>2, Zenon DEF ArmedRule, OpRule, CqeRule
    <3>4. Handled({a}, {})
      BY <1>3, <1>4, <1>5, <1>7, <1>8, <2>1, <2>3, <3>1, <3>2, <3>3, ZenonT(30) DEF Handled
    <3> QED BY <1>6, <3>4, Zenon
  <2> QED BY <1>12, <2>2, <2>3, Zenon DEF uring_read
<1>13. CASE uring_write
  <2>1. /\ x.ev = "write" /\ x.who # Listener /\ server = "uring"
        /\ UNCHANGED <<server, fd, spawned, slot_vars>> /\ armed' = armed \cup {set_event_recv(x.who)}
    BY <1>1, <1>3, <1>4, <1>13, Zenon DEF uring_write, Handles, Cqe, CqeRule
  <2>2. PICK a \in Ops : a = set_event_recv(x.who)
    BY <1>n, <1>4, <1>10 DEF set_event_recv, IoKinds
  <2>3. a.ev = "read" /\ a.who = x.who /\ a.idx = NoSlot
    BY <2>2, Zenon DEF set_event_recv, Op
  <2>4. ArmedRule(a)'
    BY <1>4, <2>1, <2>3, Zenon DEF ArmedRule, OpRule, CqeRule
  <2>5. Handled({a}, {})
    BY <1>4, <1>5, <1>7, <1>8, <2>1, <2>2, <2>3, <2>4, Zenon DEF Handled
  <2> QED BY <1>6, <2>5, Zenon
<1>14. CASE server_accepts
  <2>1. /\ x.ev = "accept" /\ x.who = Listener /\ x.res \in Conns \cup {-1}
        /\ server = "coro" /\ UNCHANGED <<server, fd>>
    BY <1>1, <1>3, <1>4, <1>14, Zenon DEF server_accepts, Handles, Cqe, CqeRule, Failed
  <2>2. CASE x.res > 0
    <3>1. x.res \in Conns /\ Unused(x.res)
      BY <1>4, <2>1, <2>2 DEF CqeRule
    <3>2. PICK a \in Ops : a = tcp_accept_awaiter(slot[Listener])
      BY <1>s, <1>n, <1>10 DEF tcp_accept_awaiter, IoKinds
    <3>3. a.ev = "accept" /\ a.who = Listener /\ a.idx = slot[Listener]
      BY <3>2, Zenon DEF tcp_accept_awaiter, Op
    <3>4. spawned' = spawned \cup {x.res} /\ armed' = armed \cup {a} /\ UNCHANGED slot_vars
      BY <1>3, <1>14, <2>2, <3>2, Zenon DEF server_accepts
    <3>5. ArmedRule(a)'
      BY <1>s, <1>7, <2>1, <3>3, <3>4, Zenon DEF ArmedRule, OpRule
    <3>6. Unused(x.res)' /\ x.res \notin Names({a}) /\ x.res \in Of(x)
      BY <1>s, <1>4, <1>7, <2>1, <3>1, <3>3, <3>4, Zenon DEF Unused, Names
    <3>7. Handled({a}, {x.res})
      BY <1>s, <1>4, <1>5, <1>7, <1>8, <2>1, <3>1, <3>2, <3>3, <3>4, <3>5, <3>6, Zenon
         DEF Handled
    <3> QED BY <1>6, <3>7, Zenon
  <2>3. CASE ~(x.res > 0)
    <3>1. return_back(Listener) /\ UNCHANGED <<spawned, armed>>
      BY <1>3, <1>14, <2>3, Zenon DEF server_accepts
    <3>2. SlotTypeOK' /\ SlotsLent' /\ \A d \in Socks \ {Listener} : slot'[d] = slot[d]
      BY <1>s, <1>t, <3>1, ReturnKeeps, Zenon
    <3>3. Handled({}, {})
      BY <1>s, <1>4, <1>5, <1>9, <2>1, <3>1, <3>2, Zenon DEF Handled
    <3> QED BY <1>6, <3>3, Zenon
  <2> QED BY <2>2, <2>3, Zenon
<1>15. CASE client_connects
  <2>1. /\ x.ev = "connect" /\ x.who \in Conns /\ slot[x.who] = NoSlot /\ fd[x.who] # "closed"
        /\ UNCHANGED <<server, fd, spawned>> /\ assign(x.who) /\ x.who \in Of(x)
        /\ armed' = armed \cup {tcp_read_awaiter(x.who, slot'[x.who])} /\ x.who # Listener
    BY <1>s, <1>1, <1>3, <1>4, <1>15, Zenon DEF client_connects, Handles, Cqe, CqeRule
  <2>2. SlotTypeOK' /\ SlotsLent' /\ \A d \in Socks \ {x.who} : slot'[d] = slot[d]
    BY <1>s, <1>t, <2>1, AssignKeeps, Zenon
  <2>3. slot'[x.who] \in 0 .. FixFds
    BY <1>s, <2>1, <2>2, Zenon DEF SlotTypeOK
  <2>4. PICK a \in Ops : a = tcp_read_awaiter(x.who, slot'[x.who])
    BY <1>s, <1>10, <2>1, <2>3 DEF tcp_read_awaiter, IoKinds
  <2>5. a.ev = "read" /\ a.who = x.who /\ a.idx = slot'[x.who]
    BY <2>4, Zenon DEF tcp_read_awaiter, Op
  <2>6. ArmedRule(a)'
    BY <1>s, <2>1, <2>5, Zenon DEF ArmedRule, OpRule
  <2>7. Handled({a}, {})
    BY <1>5, <1>8, <2>1, <2>2, <2>4, <2>5, <2>6, Zenon DEF Handled
  <2> QED BY <1>6, <2>7, Zenon
\* The sessions of the coroutines are on connections. They go on, or close.
<1>16. ASSUME Coroutines, x.ev \in {"read", "write", "close"}
       PROVE  x.who \in Conns /\ x.who \in Of(x) /\ x.who # Listener /\ (x.ev # "close" => fd[x.who] # "closed")
  BY <1>s, <1>4, <1>16, Zenon DEF CqeRule, Coroutines
<1>17. ASSUME Coroutines, x.ev \in {"read", "write"}, UNCHANGED <<fd, spawned>>, UNCHANGED slot_vars,
              NEW ev \in {"read", "write"}, NEW n \in Int,
              armed' = armed \cup {Op(ev, x.who, slot[x.who], n)}
       PROVE  EchoInv'
  <2>1. /\ x.who \in Conns /\ x.who \in Of(x) /\ x.who # Listener /\ x.who \in Socks /\ x.who # -1
        /\ fd[x.who] # "closed"
    BY <1>s, <1>16, <1>17, Zenon
  <2>2. slot[x.who] \in 0 .. FixFds /\ ev \in IoKinds
    BY <1>n, <2>1, Zenon DEF IoKinds
  <2>3. PICK a \in Ops : a = Op(ev, x.who, slot[x.who], n)
    BY <1>10, <2>1, <2>2, Zenon
  <2>4. a.ev = ev /\ a.who = x.who /\ a.idx = slot[x.who]
    BY <2>3, Zenon DEF Op
  <2>5. ArmedRule(a)'
    BY <1>7, <1>17, <2>1, <2>4, Zenon DEF ArmedRule, OpRule
  <2>6. Handled({a}, {})
    BY <1>5, <1>7, <1>8, <1>17, <2>1, <2>3, <2>4, <2>5, Zenon DEF Handled
  <2> QED BY <1>6, <2>6, Zenon
<1>18. ASSUME Coroutines, x.ev \in {"read", "write"}, UNCHANGED <<fd, spawned>>, close(x.who)
       PROVE  EchoInv'
  <2>1. /\ x.who \in Conns /\ x.who \in Of(x) /\ x.who # Listener /\ x.who \in Socks /\ x.who # -1
        /\ fd[x.who] # "closed"
    BY <1>s, <1>16, <1>18, Zenon
  <2>2. return_back(x.who) /\ armed' = armed \cup {tcp_close_awaiter(x.who)}
    BY <1>18, Zenon DEF close
  <2>3. SlotTypeOK' /\ SlotsLent' /\ \A d \in Socks \ {x.who} : slot'[d] = slot[d]
    BY <1>t, <2>1, <2>2, ReturnKeeps, Zenon
  <2>4. PICK a \in Ops : a = tcp_close_awaiter(x.who)
    BY <1>n, <1>10, <2>1 DEF tcp_close_awaiter, IoKinds
  <2>5. a.ev = "close" /\ a.who = x.who /\ a.idx = NoSlot
    BY <2>4, Zenon DEF tcp_close_awaiter, Op
  <2>6. ArmedRule(a)'
    BY <1>18, <2>1, <2>5, Zenon DEF ArmedRule, OpRule
  <2>7. Handled({a}, {})
    BY <1>5, <1>8, <1>18, <2>1, <2>2, <2>3, <2>4, <2>5, <2>6, Zenon DEF Handled
  <2> QED BY <1>6, <2>7, Zenon
<1>19. CASE session_read
  <2>1. Coroutines /\ x.ev = "read" /\ UNCHANGED <<fd, spawned>>
    BY <1>3, <1>19, Zenon DEF session_read, Handles, Cqe
  <2>2. \/ close(x.who)
        \/ UNCHANGED slot_vars /\ armed' = armed \cup {Op("write", x.who, slot[x.who], x.res)}
    BY <1>3, <1>19, Zenon DEF session_read, tcp_write_awaiter
  <2> QED BY <1>4, <1>17, <1>18, <2>1, <2>2, Zenon
<1>20. CASE session_write
  <2>1. Coroutines /\ x.ev = "write" /\ UNCHANGED <<fd, spawned>>
    BY <1>3, <1>20, Zenon DEF session_write, Handles, Cqe
  <2>2. \/ close(x.who)
        \/ UNCHANGED slot_vars /\ armed' = armed \cup {Op("read", x.who, slot[x.who], 0)}
    BY <1>3, <1>20, Zenon DEF session_write, tcp_read_awaiter
  <2> QED BY <1>17, <1>18, <2>1, <2>2
<1>21. CASE session_close
  <2>1. Coroutines /\ x.ev = "close" /\ UNCHANGED <<armed, fd, spawned>> /\ return_back(x.who)
    BY <1>3, <1>21, Zenon DEF session_close, Handles, Cqe
  <2>2. x.who \in Socks /\ x.who \in Of(x)
    BY <1>s, <1>16, <2>1, Zenon
  <2>3. SlotTypeOK' /\ SlotsLent' /\ \A d \in Socks \ {x.who} : slot'[d] = slot[d]
    BY <1>t, <2>1, <2>2, ReturnKeeps, Zenon
  <2>4. Handled({}, {})
    BY <1>5, <1>9, <2>1, <2>2, <2>3, Zenon DEF Handled
  <2> QED BY <1>6, <2>4, Zenon
<1> QED BY <1>11, <1>12, <1>13, <1>14, <1>15, <1>19, <1>20, <1>21, Zenon

\* Each way the kernel completes an operation.
LEMMA KernelKeeps ==
  ASSUME EchoInv, KernelSteps
  PROVE  EchoInv'
<1> USE EchoAssumption
<1>s. /\ Conns \subseteq Socks /\ Listener \in Socks /\ Listener \notin Conns /\ -1 \notin Socks
      /\ Failed \in Int /\ Conns \subseteq Int /\ Failed \notin Conns
  BY DEF Conns, Socks, Listener, Failed
<1>t. EchoTypeOK /\ Rules /\ Begins
  BY Zenon DEF EchoInv
<1>1. /\ peer \in [Conns -> PeerStates] /\ inbox \in [Conns -> Seq(Conns \X Nat)]
      /\ fd \in [Conns -> {"none", "open", "closed"}]
  BY <1>t, Zenon DEF EchoTypeOK
<1>2. PICK o \in inflight :
        \/ \E c \in Conns : KernelConnects(o, c)
        \/ KernelFails(o) \/ KernelReads(o) \/ KernelCloses(o)
        \/ \E k \in 1 .. o.n : KernelWrites(o, k)
  BY Zenon DEF KernelSteps
<1>3. o \in Ops /\ OpRule(o) /\ o.to = o.who /\ o.n \in Int /\ o.who \in Socks \cup {-1}
  <2>1. o \in Ops /\ OpRule(o) /\ o.to = o.who
    BY <1>t, Zenon DEF EchoTypeOK, Rules
  <2> QED BY <2>1, Zenon DEF Ops
<1>4. ASSUME NEW c \in Conns, KernelConnects(o, c) PROVE EchoInv'
  <2>1. /\ peer' = [peer EXCEPT ![c] = "open"] /\ fd' = [fd EXCEPT ![c] = "open"]
        /\ Completes(o, c) /\ UNCHANGED inbox /\ c \in Int
    BY <1>s, <1>4, Zenon DEF KernelConnects
  <2>2. /\ peer' \in [Conns -> PeerStates] /\ fd' \in [Conns -> {"none", "open", "closed"}]
        /\ peer'[c] = "open" /\ fd'[c] = "open"
        /\ \A d \in Conns \ {c} : peer'[d] = peer[d] /\ fd'[d] = fd[d]
    BY <1>1, <2>1, Zenon DEF PeerStates
  <2>3. CASE o.ev = "accept" /\ peer[c] = "connecting"
    <3>1. Idle(c) /\ slot[c] = NoSlot
      BY <1>t, <2>3, Zenon DEF Begins
    <3>2. o.who = Listener
      BY <1>3, <2>3, Zenon DEF OpRule
    <3>3. /\ o.who \notin Conns /\ c \in Int /\ Completes(o, c)
          /\ inbox' \in [Conns -> Seq(Conns \X Nat)]
          /\ \A d \in Conns : d # c => fd'[d] = fd[d]
          /\ \A d \in Conns : peer'[d] \in {"away", "connecting"} => peer'[d] = peer[d]
      BY <1>s, <1>1, <2>1, <2>2, <3>2, ZenonT(30)
    <3> QED BY <2>2, <2>3, <3>1, <3>3, CompletedKeeps, Zenon
  <2>4. CASE o.ev = "connect" /\ o.who = c
    BY <1>s, <1>1, <2>1, <2>2, <2>4, CompletedKeeps, ZenonT(30)
  <2> QED BY <1>3, <1>4, <2>3, <2>4, Zenon DEF KernelConnects
\* The others do not change a peer, and only a close changes a descriptor, its own.
<1>5. ASSUME NEW res \in Int, Completes(o, res), UNCHANGED peer,
             inbox' \in [Conns -> Seq(Conns \X Nat)],
             UNCHANGED fd \/ (o.ev = "close" /\ fd' = [fd EXCEPT ![o.who] = "closed"]),
             o.ev = "accept" => res = Failed
      PROVE  EchoInv'
  <2>1. fd' \in [Conns -> {"none", "open", "closed"}] /\ \A d \in Conns : d # o.who => fd'[d] = fd[d]
    BY <1>1, <1>5, Zenon
  <2>2. o.ev # "close" /\ o.who \in Conns => fd'[o.who] # "closed"
    BY <1>3, <1>5, Zenon DEF OpRule
  <2> QED BY <1>s, <1>1, <1>5, <2>1, <2>2, CompletedKeeps, Zenon
<1>6. CASE KernelFails(o)
  BY <1>s, <1>1, <1>5, <1>6, Zenon DEF KernelFails
<1>7. CASE KernelReads(o)
  <2>1. PICK c \in Conns : c = o.to
    BY <1>7, Zenon DEF KernelReads
  <2>2. PICK b : b = inbox[c]
    BY Zenon
  <2>3. b \in Seq(Conns \X Nat) /\ Len(b) \in Nat
    BY <1>1, <2>2
  <2>4. PICK k \in 0 .. Len(b) : k = Least(BufCap, Len(b))
    BY <2>3 DEF Least
  <2>5. SubSeq(b, 1, k) \in Seq(Conns \X Nat) /\ Len(SubSeq(b, 1, k)) = k
    BY <2>3
  <2>6. SubSeq(b, k + 1, Len(b)) \in Seq(Conns \X Nat)
    BY <2>3
  <2>7. Arrived(c) = SubSeq(b, 1, k)
    BY <2>2, <2>4, Zenon DEF Arrived
  <2>8. Len(Arrived(c)) \in Int /\ inbox' = [inbox EXCEPT ![c] = SubSeq(b, k + 1, Len(b))]
    <3>1. Len(Arrived(c)) = k
      BY <2>5, <2>7, Zenon
    <3>2. inbox' = [inbox EXCEPT ![c] = SubSeq(@, Len(Arrived(c)) + 1, Len(@))]
      BY <1>7, <2>1, Zenon DEF KernelReads
    <3> QED BY <2>2, <2>3, <3>1, <3>2
  <2>9. inbox' \in [Conns -> Seq(Conns \X Nat)]
    BY <1>1, <2>6, <2>8, Zenon
  <2> QED BY <1>5, <1>7, <2>1, <2>8, <2>9, Zenon DEF KernelReads
<1>8. CASE KernelCloses(o)
  BY <1>1, <1>3, <1>5, <1>8 DEF KernelCloses
<1>9. ASSUME NEW k \in 1 .. o.n, KernelWrites(o, k) PROVE EchoInv'
  BY <1>1, <1>3, <1>5, <1>9 DEF KernelWrites
<1> QED BY <1>2, <1>4, <1>6, <1>7, <1>8, <1>9, Zenon

\* io_uring_submit takes every prepared operation, and an operation through a slot reaches
\* the socket the slot was lent for.
LEMMA SubmitKeeps ==
  ASSUME EchoInv, SubmitOps
  PROVE  EchoInv'
<1> USE EchoAssumption
<1>t. EchoTypeOK /\ SlotTypeOK /\ SlotsLent /\ OnePlace /\ Rules /\ Begins
  BY Zenon DEF EchoInv
<1> DEFINE G(o) == [o EXCEPT !.to = IF o.idx = NoSlot THEN o.who ELSE table[o.idx]]
           New  == {G(o) : o \in armed}
<1>1. /\ UNCHANGED <<server, peer, sent, inbox, fd, cqes, nready, spawned, events, que, slot, table>>
      /\ inflight' = inflight \cup New /\ armed' = {}
  BY Zenon DEF SubmitOps, peer_vars, slot_vars
<1>2. ASSUME NEW o \in armed
      PROVE  /\ G(o) \in Ops /\ OpRule(G(o)) /\ G(o).to = G(o).who /\ G(o).who = o.who
  <2>1. o \in Ops /\ ArmedRule(o)
    BY <1>t, Zenon DEF EchoTypeOK, Rules
  <2>2. /\ o.idx \in 0 .. FixFds /\ o.who \in Socks \cup {-1}
        /\ G(o).ev = o.ev /\ G(o).who = o.who
        /\ G(o).to = (IF o.idx = NoSlot THEN o.who ELSE table[o.idx])
    BY <2>1, Zenon DEF Ops
  <2>3. o.idx # NoSlot => table[o.idx] = o.who
    <3> SUFFICES ASSUME o.idx # NoSlot PROVE table[o.idx] = o.who
      BY Zenon
    <3>1. PICK s \in 1 .. FixFds : s = o.idx
      BY <2>2 DEF NoSlot
    <3>2. o.who \in Socks /\ slot[o.who] = s
      BY <2>1, <3>1, Zenon DEF ArmedRule
    <3> QED BY <1>t, <3>1, <3>2 DEF SlotsLent
  <2>4. G(o).to = o.who
    BY <2>2, <2>3, Zenon
  <2>5. G(o) \in Ops
    BY <2>1, <2>2, <2>3, Zenon DEF Ops
  <2>6. OpRule(G(o))
    BY <2>1, <2>2, Zenon DEF ArmedRule, OpRule
  <2> QED BY <2>2, <2>4, <2>5, <2>6, Zenon
<1>3. Names(New) = Names(armed) /\ Once(New)
  <2>1. Once(armed)
    BY <1>t, Zenon DEF OnePlace
  <2>2. \A p \in New : \E o \in armed : p = G(o) /\ p.who = o.who
    BY <1>2, ZenonT(30)
  <2>3. \A o \in armed : G(o) \in New /\ G(o).who = o.who
    BY <1>2, Zenon
  <2> HIDE DEF New, G
  <2>4. Names(New) = Names(armed)
    BY <2>2, <2>3, Zenon DEF Names
  <2>5. ASSUME NEW p \in New, NEW q \in New, p.who = q.who, p.who \in Socks PROVE p = q
    <3>1. PICK o \in armed : p = G(o) /\ p.who = o.who
      BY <2>2, Zenon
    <3>2. PICK r \in armed : q = G(r) /\ q.who = r.who
      BY <2>2, Zenon
    <3>3. o = r
      BY <2>1, <2>5, <3>1, <3>2, Zenon DEF Once
    <3> QED BY <3>1, <3>2, <3>3, Zenon
  <2> QED BY <2>4, <2>5, Zenon DEF Once
<1>4. \A p \in New : p \in Ops /\ OpRule(p) /\ p.to = p.who
  BY <1>2, Zenon
<1> HIDE DEF New, G
<1>5. Names(inflight') = Names(inflight) \cup Names(armed) /\ Once(inflight')
  BY <1>t, <1>1, <1>3, NamesAdd DEF OnePlace
<1>6. Names(armed') = {} /\ Once(armed')
  BY <1>1, Zenon DEF Names, Once
<1>7. EchoTypeOK' /\ SlotTypeOK' /\ SlotsLent'
  <2>1. armed' \in SUBSET Ops /\ inflight' \in SUBSET Ops
    BY <1>t, <1>1, <1>4, Zenon DEF EchoTypeOK
  <2>2. EchoTypeOK'
    BY <1>t, <1>1, <2>1, Zenon DEF EchoTypeOK
  <2>3. SlotTypeOK' /\ SlotsLent'
    BY <1>t, <1>1 DEF SlotTypeOK, SlotsLent, Free
  <2> QED BY <2>2, <2>3
<1>8. Sessions' = Sessions
  BY <1>1, Zenon DEF Sessions
<1>9. OnePlace'
  BY <1>t, <1>1, <1>5, <1>6, <1>8, Zenon DEF OnePlace
<1>10. Rules'
  <2>1. \A p \in inflight' : OpRule(p)' /\ p.to = p.who
    BY <1>t, <1>1, <1>4, Zenon DEF Rules, OpRule
  <2> QED BY <1>t, <1>1, <1>8, <2>1, Zenon DEF Rules, CqeRule, Unused
<1>11. \A c \in Socks : Idle(c) => Idle(c)'
  BY <1>1, <1>5, <1>6, <1>8, Zenon DEF Idle
<1>12. server \notin {"none", "epoll"}
  BY <1>t, Zenon DEF SubmitOps, Begins
<1>13. Conns \subseteq Socks /\ Listener \in Socks
  BY DEF Conns, Socks, Listener
<1>14. Begins'
  BY <1>t, <1>1, <1>11, <1>12, <1>13, Zenon DEF Begins
<1> QED BY <1>7, <1>9, <1>10, <1>14, Zenon DEF EchoInv

\* A socket begins its first operation: the listening socket of tcp_server, or a session.
LEMMA SessionKeeps ==
  ASSUME EchoInv, tcp_server \/ \E c \in Conns : session(c)
  PROVE  EchoInv'
<1> USE EchoAssumption
<1>s. /\ Conns \subseteq Socks /\ Listener \in Socks /\ Listener \notin Conns /\ -1 \notin Socks
      /\ Socks = Conns \cup {Listener}
  BY DEF Conns, Socks, Listener
<1>t. EchoTypeOK /\ SlotTypeOK /\ SlotsLent /\ OnePlace /\ Rules /\ Begins
  BY Zenon DEF EchoInv
\* Both take a socket c that has nothing prepared, in the kernel or completed.
<1>1. PICK c \in Socks, ev \in {"accept", "read"} :
        /\ assign(c) /\ armed' = armed \cup {Op(ev, c, slot'[c], 0)}
        /\ ev = "accept" <=> c = Listener
        /\ c \notin Names(armed) \cup Names(inflight) \cup CqNames(cqes)
        /\ slot[c] = NoSlot /\ (c \in Conns => fd[c] # "closed" /\ c \in Sessions)
        /\ Sessions' = Sessions \ {c} /\ spawned' \subseteq Socks
        /\ Listener \in spawned \/ c = Listener => Listener \in spawned'
        /\ UNCHANGED <<server, peer, sent, inbox, fd, inflight, cqes, nready, events>>
  <2>1. CASE tcp_server
    <3>1. Idle(Listener) /\ slot[Listener] = NoSlot
      BY <1>t, <2>1, Zenon DEF Begins, tcp_server
    <3>2. Sessions' = Sessions \ {Listener} /\ spawned' \subseteq Socks /\ Listener \in spawned'
      BY <1>s, <1>t, <2>1, Zenon DEF Sessions, tcp_server, EchoTypeOK
    <3>3. /\ assign(Listener) /\ armed' = armed \cup {Op("accept", Listener, slot'[Listener], 0)}
          /\ UNCHANGED <<server, peer, sent, inbox, fd, inflight, cqes, nready, events>>
      BY <2>1, Zenon DEF tcp_server, tcp_accept_awaiter, peer_vars
    <3>4. Listener \notin Names(armed) \cup Names(inflight) \cup CqNames(cqes)
      BY <3>1, Zenon DEF Idle
    <3> QED BY <1>s, <3>1, <3>2, <3>3, <3>4, Zenon
  <2>2. ASSUME NEW c \in Conns, session(c)
        PROVE  /\ assign(c) /\ armed' = armed \cup {Op("read", c, slot'[c], 0)} /\ c # Listener
               /\ c \notin Names(armed) \cup Names(inflight) \cup CqNames(cqes)
               /\ slot[c] = NoSlot /\ fd[c] # "closed" /\ c \in Sessions
               /\ Sessions' = Sessions \ {c} /\ spawned' \subseteq Socks
               /\ Listener \in spawned => Listener \in spawned'
               /\ UNCHANGED <<server, peer, sent, inbox, fd, inflight, cqes, nready, events>>
    <3>1. c \in Sessions /\ c # Listener
      BY <1>s, <2>2, Zenon DEF session, Sessions
    <3>2. Unused(c) /\ c \notin Names(armed) \cup Names(inflight) \cup CqNames(cqes)
      BY <1>t, <3>1, Zenon DEF Rules, OnePlace
    <3>3. /\ Sessions' = Sessions \ {c} /\ spawned' \subseteq Socks
          /\ Listener \in spawned => Listener \in spawned'
      BY <1>t, <2>2, <3>1, Zenon DEF Sessions, session, EchoTypeOK
    <3>4. /\ assign(c) /\ armed' = armed \cup {Op("read", c, slot'[c], 0)}
          /\ UNCHANGED <<server, peer, sent, inbox, fd, inflight, cqes, nready, events>>
      BY <2>2, Zenon DEF session, tcp_read_awaiter, peer_vars
    <3> QED BY <3>1, <3>2, <3>3, <3>4, Zenon DEF Unused
  <2>3. ASSUME NEW c \in Conns, session(c) PROVE "read" # "accept" /\ c \in Socks /\ c # Listener
    BY <1>s, Zenon
  <2> QED BY <2>1, <2>2, <2>3, Zenon
<1>2. SlotTypeOK' /\ SlotsLent' /\ \A d \in Socks \ {c} : slot'[d] = slot[d]
  BY <1>t, <1>1, AssignKeeps, Zenon
<1>3. slot'[c] \in 0 .. FixFds
  BY <1>2, Zenon DEF SlotTypeOK
<1>4. PICK a \in Ops : a = Op(ev, c, slot'[c], 0)
  <2>1. ev \in IoKinds /\ c \in Socks \cup {-1} /\ 0 \in Int
    BY DEF IoKinds
  <2> QED BY <1>3, <2>1, Zenon DEF Op, Ops
<1>5. a.ev = ev /\ a.who = c /\ a.idx = slot'[c]
  BY <1>4, Zenon DEF Op
<1>6. Names({a}) = {c} /\ Once({a})
  BY <1>5, Zenon DEF Names, Once
<1>7. Names(armed') = Names(armed) \cup {c} /\ Once(armed')
  <2>1. Once(armed) /\ Names(armed) \cap Names({a}) = {} /\ armed' = armed \cup {a}
    BY <1>t, <1>1, <1>4, <1>6, Zenon DEF OnePlace
  <2> QED BY <1>6, <2>1, NamesAdd, Zenon
<1>8. EchoTypeOK'
  BY <1>t, <1>1, <1>4, Zenon DEF EchoTypeOK
<1>9. OnePlace'
  BY <1>t, <1>1, <1>7 DEF OnePlace
<1>10. Rules'
  <2>1. ASSUME NEW o \in armed PROVE ArmedRule(o)'
    <3>1. ArmedRule(o) /\ o.who # c
      BY <1>t, <1>1, Zenon DEF Rules, Names
    <3> QED BY <1>s, <1>1, <1>2, <3>1, Zenon DEF ArmedRule, OpRule
  <2>2. ArmedRule(a)'
    BY <1>s, <1>1, <1>5, Zenon DEF ArmedRule, OpRule
  <2>3. ASSUME NEW o \in inflight PROVE OpRule(o)' /\ o.to = o.who
    <3>1. OpRule(o) /\ o.to = o.who /\ o.who # c
      BY <1>t, <1>1, Zenon DEF Rules, Names
    <3> QED BY <1>s, <1>1, <1>2, <3>1, Zenon DEF OpRule
  <2>4. ASSUME NEW i \in 1 .. Len(cqes) PROVE CqeRule(cqes[i])'
    <3>1. PICK x : x = cqes[i]
      BY Zenon
    <3>2. CqeRule(x) /\ c \notin Of(x)
      BY <1>t, <1>1, <3>1, Zenon DEF Rules, CqNames
    <3>3. x.who # c /\ (x.ev = "accept" => x.res # c)
      BY <3>2, Zenon DEF Of
    <3>4. CqeRule(x)'
      BY <1>s, <1>1, <1>2, <3>2, <3>3, Zenon DEF CqeRule, Unused
    <3> QED BY <1>1, <3>1, <3>4, Zenon DEF CqeRule, Unused
  <2>5. ASSUME NEW d \in Sessions, d # c PROVE Unused(d)'
    <3>1. d \in Socks /\ Unused(d)
      BY <1>t, Zenon DEF Rules, Sessions, EchoTypeOK
    <3> QED BY <1>1, <1>2, <2>5, <3>1, Zenon DEF Unused
  <2> QED BY <1>1, <1>4, <2>1, <2>2, <2>3, <2>4, <2>5, Zenon DEF Rules
<1>11. ASSUME NEW d \in Socks, Idle(d), d # c PROVE Idle(d)' /\ slot'[d] = slot[d]
  BY <1>1, <1>2, <1>7, <1>11, Zenon DEF Idle
<1>12. ASSUME NEW d \in Conns, Idle(d) PROVE d # c
  BY <1>1, <1>12, Zenon DEF Idle
<1>13. server \notin {"none", "epoll"}
  <2>1. CASE tcp_server
    BY <2>1, Zenon DEF tcp_server
  <2>2. ASSUME NEW d \in Conns, session(d) PROVE server \notin {"none", "epoll"}
    BY <1>s, <1>t, <2>2, Zenon DEF session, Begins, Idle, Sessions
  <2> QED BY <2>1, <2>2, Zenon
<1>14. Begins'
  BY <1>s, <1>t, <1>1, <1>11, <1>12, <1>13, Zenon DEF Begins
<1> QED BY <1>2, <1>8, <1>9, <1>10, <1>14, Zenon DEF EchoInv

\* A step that leaves the operations and the slots alone.
LEMMA QuietKeeps ==
  ASSUME EchoInv, UNCHANGED <<server, armed, inflight, cqes, spawned, slot_vars>>, EchoTypeOK',
         \A c \in Conns : fd'[c] = "closed" => fd[c] = "closed" \/ server = "epoll",
         \A c \in Conns : peer'[c] \in {"away", "connecting"} => peer[c] \in {"away", "connecting"},
         \A c \in Conns : peer'[c] = "connecting" => server \notin {"none", "client"},
         events' # {} => server = "epoll"
  PROVE  EchoInv'
<1>t. EchoTypeOK /\ SlotTypeOK /\ SlotsLent /\ OnePlace /\ Rules /\ Begins
  BY Zenon DEF EchoInv
<1>1. SlotTypeOK' /\ SlotsLent' /\ Sessions' = Sessions /\ OnePlace' /\ slot' = slot
  BY <1>t DEF slot_vars, SlotTypeOK, SlotsLent, Free, Sessions, OnePlace
<1>2. \A c : Idle(c)' <=> Idle(c)
  BY <1>1, Zenon DEF Idle
<1>3. Rules'
  <2>1. CASE server = "epoll"
    <3>1. armed = {} /\ inflight = {} /\ cqes = <<>> /\ \A c \in Socks : Idle(c)
      BY <1>t, <2>1, Zenon DEF Begins
    <3>2. Sessions = {} /\ 1 .. Len(cqes) = {}
      BY <1>t, <3>1 DEF Idle, Sessions, EchoTypeOK
    <3> QED BY <1>1, <3>1, <3>2, Zenon DEF Rules
  <2>2. CASE server # "epoll"
    <3>1. \A c \in Conns : fd'[c] = "closed" => fd[c] = "closed"
      BY <2>2, Zenon
    <3>2. Sessions \subseteq Conns
      BY <1>t DEF Sessions, EchoTypeOK, Socks, Conns, Listener
    <3>3. \A o \in armed : ArmedRule(o)'
      BY <1>t, <1>1, <3>1, Zenon DEF Rules, ArmedRule, OpRule
    <3>4. \A o \in inflight : OpRule(o)' /\ o.to = o.who
      BY <1>t, <1>1, <3>1, Zenon DEF Rules, OpRule
    <3>5. ASSUME NEW i \in 1 .. Len(cqes) PROVE CqeRule(cqes[i])'
      <4>1. PICK x : x = cqes[i]
        BY Zenon
      <4>2. CqeRule(x)
        BY <1>t, <4>1, Zenon DEF Rules
      <4>3. CqeRule(x)'
        BY <1>1, <3>1, <4>2, Zenon DEF CqeRule, Unused
      <4> QED BY <4>1, <4>3, Zenon DEF CqeRule, Unused
    <3>6. \A c \in Sessions : Unused(c)'
      BY <1>t, <1>1, <3>1, <3>2, Zenon DEF Rules, Unused
    <3> QED BY <1>1, <3>3, <3>4, <3>5, <3>6, Zenon DEF Rules
  <2> QED BY <2>1, <2>2, Zenon
<1>4. \A c \in Conns : server = "none" => fd'[c] # "closed"
  BY <1>t, Zenon DEF Begins
<1>5. Begins'
  BY <1>t, <1>1, <1>2, <1>4, Zenon DEF Begins
<1> QED BY <1>1, <1>3, <1>5, Zenon DEF EchoInv

\* The peers, the epoll server and the peek of the completion queue.
LEMMA OthersKeep ==
  ASSUME EchoInv,
         PeekCqes \/ PeerSteps \/ epoll_wait
             \/ \E e \in events : epoll_event(e) \/ \E c \in Conns : epoll_accept(e, c)
  PROVE  EchoInv'
<1> USE EchoAssumption
<1>t. EchoTypeOK /\ Begins
  BY Zenon DEF EchoInv
<1>1. CASE PeekCqes
  <2>1. /\ UNCHANGED <<server, peer, sent, inbox, fd, armed, inflight, cqes, spawned, slot_vars, events>>
        /\ nready' = Len(cqes)
    BY <1>1, Zenon DEF PeekCqes, peer_vars, BatchSize
  <2>2. Len(cqes) \in Nat
    BY <1>t DEF EchoTypeOK
  <2>3. nready' \in 0 .. Len(cqes')
    BY <2>1, <2>2
  <2>4. EchoTypeOK'
    BY <1>t, <2>1, <2>3, Zenon DEF EchoTypeOK
  <2> QED BY <1>t, <2>1, <2>4, QuietKeeps, Zenon DEF Begins
<1>2. CASE PeerSteps
  <2>1. PICK c \in Conns : PeerConnects(c) \/ PeerSends(c) \/ PeerCloses(c) \/ PeerResets(c)
    BY <1>2, Zenon DEF PeerSteps
  <2>2. /\ UNCHANGED <<server, fd, armed, inflight, cqes, nready, spawned, slot_vars, events>>
    BY <2>1, Zenon DEF PeerConnects, PeerSends, PeerCloses, PeerResets, net_unchanged, loop_vars
  <2>3. ASSUME EchoTypeOK',
               \A d \in Conns : peer'[d] \in {"away", "connecting"} => peer[d] \in {"away", "connecting"},
               \A d \in Conns : peer'[d] = "connecting" => server \notin {"none", "client"}
        PROVE  EchoInv'
    BY <1>t, <2>2, <2>3, QuietKeeps, Zenon DEF Begins
  <2>4. CASE PeerConnects(c)
    BY <1>t, <2>2, <2>3, <2>4, Zenon DEF PeerConnects, EchoTypeOK, PeerStates, Begins
  <2>5. CASE PeerSends(c)
    <3>1. /\ sent \in [Conns -> Nat] /\ inbox \in [Conns -> Seq(Conns \X Nat)]
          /\ sent' = [sent EXCEPT ![c] = sent[c] + 1]
          /\ inbox' = [inbox EXCEPT ![c] = Append(inbox[c], <<c, sent[c] + 1>>)] /\ UNCHANGED peer
      BY <1>t, <2>5, Zenon DEF PeerSends, EchoTypeOK
    <3>2. <<c, sent[c] + 1>> \in Conns \X Nat /\ sent[c] + 1 \in Nat
      BY <3>1
    <3>3. Append(inbox[c], <<c, sent[c] + 1>>) \in Seq(Conns \X Nat)
      BY <3>1, <3>2
    <3>4. sent' \in [Conns -> Nat] /\ inbox' \in [Conns -> Seq(Conns \X Nat)]
      BY <3>1, <3>2, <3>3, Zenon
    <3>5. EchoTypeOK'
      BY <1>t, <2>2, <3>1, <3>4, Zenon DEF EchoTypeOK
    <3> QED BY <1>t, <2>3, <3>1, <3>5, Zenon DEF Begins
  <2>6. CASE PeerCloses(c)
    BY <1>t, <2>2, <2>3, <2>6, Zenon DEF PeerCloses, EchoTypeOK, PeerStates, Begins
  <2>7. CASE PeerResets(c)
    <3>1. <<>> \in Seq(Conns \X Nat)
      OBVIOUS
    <3>2. EchoTypeOK'
      BY <1>t, <2>2, <2>7, <3>1, Zenon DEF PeerResets, EchoTypeOK, PeerStates
    <3> QED BY <1>t, <2>2, <2>3, <2>7, <3>2, Zenon DEF PeerResets, Begins, EchoTypeOK
  <2> QED BY <2>1, <2>4, <2>5, <2>6, <2>7, Zenon
<1>3. CASE epoll_wait
  <2>1. /\ UNCHANGED <<server, peer, sent, inbox, fd, armed, inflight, cqes, nready, spawned, slot_vars>>
        /\ server = "epoll"
    BY <1>3, Zenon DEF epoll_wait, peer_vars, loop_vars
  <2>2. EchoTypeOK'
    BY <1>t, <2>1, Zenon DEF EchoTypeOK
  <2> QED BY <1>t, <2>1, <2>2, QuietKeeps, Zenon DEF Begins
<1>4. ASSUME NEW e \in events, NEW c \in Conns, epoll_accept(e, c) PROVE EchoInv'
  <2>1. /\ UNCHANGED <<server, sent, inbox, armed, inflight, cqes, nready, spawned, slot_vars>>
        /\ server = "epoll"
        /\ \/ peer' = [peer EXCEPT ![c] = "open"] /\ fd' = [fd EXCEPT ![c] = "open"]
           \/ UNCHANGED <<peer, fd>>
    BY <1>t, <1>4, Zenon DEF epoll_accept, loop_vars, Begins
  <2>2. EchoTypeOK'
    BY <1>t, <2>1, Zenon DEF EchoTypeOK, PeerStates
  <2>3. \A d \in Conns : peer'[d] = "open" \/ peer'[d] = peer[d]
    BY <1>t, <2>1, Zenon DEF EchoTypeOK
  <2> QED BY <1>t, <2>1, <2>2, <2>3, QuietKeeps, Zenon DEF Begins
<1>5. ASSUME NEW e \in events, epoll_event(e) PROVE EchoInv'
  <2>1. /\ UNCHANGED <<server, peer, sent, armed, inflight, cqes, nready, spawned, slot_vars>>
        /\ server = "epoll" /\ e.who \in Conns
    BY <1>t, <1>5, Zenon DEF epoll_event, loop_vars, Begins
  <2>2. fd' \in [Conns -> {"none", "open", "closed"}]
    BY <1>t, <1>5, Zenon DEF epoll_event, EchoTypeOK
  <2>3. inbox' \in [Conns -> Seq(Conns \X Nat)]
    <3>1. inbox \in [Conns -> Seq(Conns \X Nat)]
      BY <1>t, Zenon DEF EchoTypeOK
    <3>2. PICK b \in Seq(Conns \X Nat) : b = inbox[e.who]
      BY <2>1, <3>1, Zenon
    <3>3. PICK k \in 0 .. Len(b) : k = Least(BufCap, Len(b))
      BY DEF Least
    <3>4. Len(SubSeq(b, 1, k)) = k /\ SubSeq(b, k + 1, Len(b)) \in Seq(Conns \X Nat)
      OBVIOUS
    <3>5. Len(Arrived(e.who)) = k
      BY <3>2, <3>3, <3>4, Zenon DEF Arrived
    <3>6. \/ UNCHANGED inbox
          \/ inbox' = [inbox EXCEPT ![e.who] = SubSeq(@, Len(Arrived(e.who)) + 1, Len(@))]
      BY <1>5, Zenon DEF epoll_event
    <3> QED BY <3>1, <3>2, <3>4, <3>5, <3>6, Zenon
  <2>4. EchoTypeOK'
    BY <1>t, <2>1, <2>2, <2>3, Zenon DEF EchoTypeOK
  <2> QED BY <1>t, <2>1, <2>4, QuietKeeps, Zenon DEF Begins
<1> QED BY <1>1, <1>2, <1>3, <1>4, <1>5, Zenon

\* A program starts, with its first operation.
LEMMA StartKeeps ==
  ASSUME EchoInv, NEW s \in Servers, StartServer(s)
  PROVE  EchoInv'
<1> USE EchoAssumption
<1>s. /\ Conns \subseteq Socks /\ Listener \in Socks /\ Listener \notin Conns /\ -1 \notin Socks
      /\ 1 \in Conns
  BY DEF Conns, Socks, Listener
<1>t. EchoTypeOK /\ SlotTypeOK /\ SlotsLent /\ OnePlace /\ Rules /\ Begins
  BY Zenon DEF EchoInv
<1>1. /\ server = "none" /\ server' = s /\ s # "none"
      /\ UNCHANGED <<peer, sent, inbox, fd, inflight, cqes, nready, spawned, events, que, slot, table>>
  BY Zenon DEF StartServer, Servers, peer_vars, slot_vars
<1>2. /\ armed = {} /\ inflight = {} /\ cqes = <<>> /\ events = {}
      /\ \A c \in Socks : Idle(c) /\ slot[c] = NoSlot
      /\ \A c \in Conns : fd[c] # "closed" /\ peer[c] # "connecting"
  BY <1>t, <1>1, Zenon DEF Begins
<1>3. /\ Names(inflight') = {} /\ CqNames(cqes') = {} /\ Sessions' = {} /\ Sessions = {}
      /\ 1 .. Len(cqes') = {}
  <2>1. 1 .. Len(cqes') = {}
    BY <1>1, <1>2
  <2>2. Sessions = {}
    BY <1>t, <1>2, Zenon DEF Idle, Sessions, EchoTypeOK
  <2> QED BY <1>1, <1>2, <2>1, <2>2, Zenon DEF Names, CqNames, Sessions
<1>4. PICK a \in Ops, b \in Ops :
        /\ a.ev = "accept" /\ a.who = Listener /\ a.idx = NoSlot
        /\ b.ev = "connect" /\ b.who = 1 /\ b.idx = NoSlot
        /\ armed' = IF s = "uring" THEN {a} ELSE IF s = "client" THEN {b} ELSE {}
  <2>1. set_event_accept \in Ops /\ tcp_connect_awaiter(1) \in Ops
    BY <1>s DEF set_event_accept, tcp_connect_awaiter, Op, Ops, IoKinds, NoSlot
  <2>2. armed' = IF s = "uring" THEN {set_event_accept}
                 ELSE IF s = "client" THEN {tcp_connect_awaiter(1)} ELSE {}
    BY Zenon DEF StartServer
  <2>3. /\ set_event_accept.ev = "accept" /\ set_event_accept.who = Listener
        /\ set_event_accept.idx = NoSlot
        /\ tcp_connect_awaiter(1).ev = "connect" /\ tcp_connect_awaiter(1).who = 1
        /\ tcp_connect_awaiter(1).idx = NoSlot
    BY Zenon DEF set_event_accept, tcp_connect_awaiter, Op
  <2> QED BY <2>1, <2>2, <2>3, Zenon
<1>5. /\ armed' \subseteq Ops /\ Once(armed')
      /\ s = "uring" => Names(armed') = {Listener}
      /\ s \notin {"uring", "client"} => armed' = {} /\ Names(armed') = {}
  BY <1>s, <1>4, Zenon DEF Once, Names
<1>6. EchoTypeOK' /\ SlotTypeOK' /\ SlotsLent'
  <2>1. server' \in Servers \cup {"none"}
    BY <1>1, Zenon
  <2> QED BY <1>t, <1>1, <1>5, <2>1 DEF EchoTypeOK, SlotTypeOK, SlotsLent, Free
<1>7. OnePlace'
  <2>1. Once(inflight') /\ CqOnce(cqes')
    BY <1>t, <1>1, Zenon DEF OnePlace
  <2> QED BY <1>3, <1>5, <2>1, Zenon DEF OnePlace
<1>8. Rules'
  <2>1. ArmedRule(a)'
    BY <1>s, <1>4, Zenon DEF ArmedRule, OpRule
  <2>2. ArmedRule(b)'
    BY <1>s, <1>1, <1>2, <1>4, Zenon DEF ArmedRule, OpRule
  <2>3. \A o \in armed' : ArmedRule(o)'
    BY <1>4, <2>1, <2>2, Zenon
  <2> QED BY <1>1, <1>2, <1>3, <2>3, Zenon DEF Rules
<1>9. \A c \in Socks : Idle(c)' <=> c \notin Names(armed')
  BY <1>3, Zenon DEF Idle
<1>10. Begins'
  <2>1. \A c \in Conns : s # "client" => Idle(c)'
    BY <1>s, <1>5, <1>9, <1>1, Zenon DEF Servers
  <2>2. s \in {"coro", "epoll"} => \A c \in Socks : Idle(c)'
    BY <1>5, <1>9, Zenon
  <2> QED BY <1>s, <1>1, <1>2, <1>5, <2>1, <2>2, Zenon DEF Begins
<1> QED BY <1>6, <1>7, <1>8, <1>10, Zenon DEF EchoInv

\* Initially nothing is under way and every slot is free.
LEMMA EchoStarts ==
  ASSUME EchoInit
  PROVE  EchoInv
<1> USE EchoAssumption
<1>s. Conns \subseteq Socks
  BY DEF Conns, Socks
<1>1. EchoTypeOK
  <2>1. <<>> \in Seq(Conns \X Nat) /\ <<>> \in Seq(Cqes) /\ 0 \in 0 .. Len(<<>>)
    OBVIOUS
  <2> QED BY <2>1, Zenon DEF EchoInit, EchoTypeOK, PeerStates
<1>2. que \in Seq(1 .. FixFds) /\ Len(que) = FixFds /\ \A i \in 1 .. FixFds : que[i] = i
  <2>1. que = [i \in 1 .. FixFds |-> i] /\ FixFds \in Nat
    BY Zenon DEF EchoInit
  <2> QED BY <2>1
<1>3. SlotTypeOK
  BY <1>2 DEF EchoInit, SlotTypeOK, NoSlot, Socks
<1>4. \A s \in 1 .. FixFds : Free(s)
  BY <1>2, Zenon DEF Free
<1>5. \A c \in Socks : slot[c] = NoSlot
  BY Zenon DEF EchoInit, Socks
<1>6. SlotsLent
  <2>1. \A i, j \in 1 .. Len(que) : que[i] = que[j] => i = j
    BY <1>2, Zenon
  <2>2. \A s \in 1 .. FixFds : table[s] = NullFd /\ s # NoSlot
    BY DEF EchoInit, NoSlot
  <2> QED BY <1>4, <1>5, <2>1, <2>2, Zenon DEF SlotsLent
<1>7. /\ armed = {} /\ inflight = {} /\ cqes = <<>> /\ spawned = {} /\ events = {} /\ server = "none"
      /\ \A c \in Conns : fd[c] = "none" /\ peer[c] = "away"
  BY Zenon DEF EchoInit
<1>8. 1 .. Len(cqes) = {}
  BY <1>7
<1>9. Names(armed) = {} /\ Names(inflight) = {} /\ CqNames(cqes) = {} /\ Sessions = {}
  BY <1>7, <1>8, Zenon DEF Names, CqNames, Sessions
<1>10. OnePlace
  BY <1>7, <1>8, <1>9, Zenon DEF OnePlace, Once, CqOnce
<1>11. Rules
  BY <1>7, <1>8, <1>9, Zenon DEF Rules
<1>12. Begins
  BY <1>s, <1>5, <1>7, <1>9, Zenon DEF Begins, Idle
<1> QED BY <1>1, <1>3, <1>6, <1>10, <1>11, <1>12, Zenon DEF EchoInv

\* Every step keeps the invariant.
LEMMA EchoStep ==
  ASSUME EchoInv, [EchoNext]_echo_vars
  PROVE  EchoInv'
<1>1. ASSUME NEW s \in Servers, StartServer(s) PROVE EchoInv'
  BY <1>1, StartKeeps, Zenon
<1>2. CASE LoopSteps
  BY <1>2, SubmitKeeps, OthersKeep, HandlersKeep, SessionKeeps, Zenon DEF LoopSteps
<1>3. CASE PeerSteps
  BY <1>3, OthersKeep, Zenon
<1>4. CASE KernelSteps
  BY <1>4, KernelKeeps, Zenon
<1>5. CASE UNCHANGED echo_vars
  <2>1. UNCHANGED <<server, peer, sent, inbox, fd, armed, inflight, cqes, nready, spawned, slot_vars, events>>
    BY <1>5, Zenon DEF echo_vars, peer_vars, loop_vars
  <2>2. EchoTypeOK' /\ Begins
    BY <2>1, Zenon DEF EchoInv, EchoTypeOK
  <2> QED BY <2>1, <2>2, QuietKeeps, Zenon DEF Begins
<1> QED BY <1>1, <1>2, <1>3, <1>4, <1>5, Zenon DEF EchoNext

\* A socket that is in one place has one operation.
LEMMA EchoInvOne == EchoInv => OneOperationEach
<1> SUFFICES ASSUME EchoInv, NEW c \in Conns
             PROVE  /\ AtMostOne(Outstanding(c)) /\ AtMostOne(Completed(c))
                    /\ Outstanding(c) = {} \/ Completed(c) = {}
                    /\ fd[c] = "closed" => Outstanding(c) = {}
  BY Zenon DEF OneOperationEach
<1> USE EchoAssumption
<1>s. c \in Socks
  BY DEF Conns, Socks
<1>t. EchoTypeOK /\ OnePlace /\ Rules
  BY Zenon DEF EchoInv
<1>1. DOMAIN cqes = 1 .. Len(cqes)
  BY <1>t DEF EchoTypeOK
<1>2. AtMostOne(Outstanding(c))
  BY <1>s, <1>t, Zenon DEF AtMostOne, Outstanding, OnePlace, Once, Names
<1>3. AtMostOne(Completed(c))
  BY <1>s, <1>t, <1>1, Zenon DEF AtMostOne, Completed, OnePlace, CqOnce, Of
<1>4. Outstanding(c) = {} \/ Completed(c) = {}
  <2>1. Outstanding(c) # {} => c \in Names(armed) \cup Names(inflight)
    BY <1>s, Zenon DEF Outstanding, Names
  <2>2. Completed(c) # {} => c \in CqNames(cqes)
    BY <1>s, <1>1, Zenon DEF Completed, CqNames, Of
  <2> QED BY <1>t, <2>1, <2>2, Zenon DEF OnePlace
<1>5. fd[c] = "closed" => Outstanding(c) = {}
  BY <1>t, Zenon DEF Outstanding, Rules, ArmedRule, OpRule
<1> QED BY <1>2, <1>3, <1>4, <1>5, Zenon

\* Slots lent in SlotsLent's words are exact.
LEMMA EchoInvSlots == EchoInv => SlotsExact
<1> SUFFICES ASSUME EchoInv PROVE SlotsExact
  BY Zenon
<1>t. SlotTypeOK /\ SlotsLent /\ Rules
  BY Zenon DEF EchoInv
<1>1. DOMAIN que = 1 .. Len(que)
  BY <1>t DEF SlotTypeOK
<1>2. ASSUME NEW s \in 1 .. FixFds
      PROVE  IF \E i \in DOMAIN que : que[i] = s
             THEN {c \in 0 .. MaxConns : slot[c] = s} = {} /\ table[s] = NullFd
             ELSE {c \in 0 .. MaxConns : slot[c] = s} = {table[s]}
  <2>1. (\E i \in DOMAIN que : que[i] = s) <=> Free(s)
    BY <1>1, Zenon DEF Free
  <2>2. Free(s) => {c \in 0 .. MaxConns : slot[c] = s} = {} /\ table[s] = NullFd
    BY <1>t, Zenon DEF SlotsLent, Socks
  <2>3. ~Free(s) => {c \in 0 .. MaxConns : slot[c] = s} = {table[s]}
    BY <1>t DEF SlotsLent, Socks
  <2> QED BY <2>1, <2>2, <2>3, Zenon
<1> QED BY <1>t, <1>1, <1>2, Zenon DEF SlotsExact, SlotsLent, Rules

\* In every one of the four programs, with any number of connections and of slots, and
\* whatever resets, short sends and failures happen, a connection has at most one operation
\* under way and none once its descriptor is closed (io_awaiter.cpp:50-140,
\* tcp.hpp:38-42).
THEOREM OneOperationEachCorrect == EchoSpec => []OneOperationEach
<1>1. EchoInit => EchoInv
  BY EchoStarts, Zenon
<1>2. EchoInv /\ [EchoNext]_echo_vars => EchoInv'
  BY EchoStep, Zenon
<1>3. EchoInv => OneOperationEach
  BY EchoInvOne, Zenon
<1> QED BY <1>1, <1>2, <1>3, PTL DEF EchoSpec

\* A slot of the registered table is never lent twice, names its socket, and an operation
\* prepared through it reaches that socket although slots come and go between
\* preparation and submission (base_io_type.hpp:9-37,
\* marked_buffer.hpp:49-71).
THEOREM SlotsExactCorrect == EchoSpec => []SlotsExact
<1>1. EchoInit => EchoInv
  BY EchoStarts, Zenon
<1>2. EchoInv /\ [EchoNext]_echo_vars => EchoInv'
  BY EchoStep, Zenon
<1>3. EchoInv => SlotsExact
  BY EchoInvSlots, Zenon
<1> QED BY <1>1, <1>2, <1>3, PTL DEF EchoSpec

-----------------------------------------------------------------------------
(* What is echoed. The messages of a connection are in order and without a *)
(* gap in three places: echoed, the part of its buffer that has to go out  *)
(* (Due), and its inbox. Together they are all that the peer sent.         *)

\* The messages of s are those c sent after the first a, in order.
Numbered(s, c, a) == \A k \in 1 .. Len(s) : s[k] = <<c, a + k>>

\* How many messages of c are in its buffer and have to go out: those of a recv whose
\* completion is to be handled, or of a send that is prepared or in the kernel.
Sends(S, c)    == {o.n : o \in {p \in S : p.who = c /\ p.ev = "write"}}
Receives(x, c) == {x.res : y \in {z \in {x} : z.who = c /\ z.ev = "read" /\ z.res > 0}}
Received(q, c) == UNION {Receives(q[i], c) : i \in 1 .. Len(q)}

Due(c) == Sends(armed, c) \cup Sends(inflight, c) \cup Received(cqes, c)

\* n messages are due: the buffer begins with them, they are the ones after those that got
\* back, and the rest has not been received.
Owes(c, n) ==
    /\ \A k \in 1 .. n : buffers[Buffer(c)][k] = <<c, Len(echoed[c]) + k>>
    /\ Len(echoed[c]) + n + Len(inbox[c]) = sent[c]

Echoing(c) ==
    /\ Numbered(echoed[c], c, 0) /\ Len(echoed[c]) <= sent[c]
    /\ peer[c] # "reset" =>
          (\A n \in Due(c) : Owes(c, n)) /\ (Due(c) = {} => Owes(c, 0))

\* The buffer of the uring servers serves one connection.
Alone == server = "uring" => \A c, d \in Conns : fd[c] # "none" /\ fd[d] # "none" => c = d

Messages == Conns \X Nat

DataTypeOK == echoed \in [Conns -> Seq(Messages)] /\ buffers \in [Socks -> Seq(Messages)]

Arriving(c) == Len(inbox[c]) <= sent[c] /\ Numbered(inbox[c], c, sent[c] - Len(inbox[c]))

\* What is due is in the buffer, and the descriptor is one.
Kept(c) == \A n \in Due(c) : fd[c] # "none" /\ n <= Len(buffers[Buffer(c)])

DataInv ==
    /\ DataTypeOK
    /\ \A c \in Conns : Arriving(c) /\ Kept(c)
    /\ Alone => \A c \in Conns \ shorted : Echoing(c)

\* The first k messages of s, the rest of it, and two runs of messages one after the other.
LEMMA FrontIs ==
  ASSUME NEW s \in Seq(Messages), NEW k \in 0 .. Len(s)
  PROVE  /\ SubSeq(s, 1, k) \in Seq(Messages) /\ Len(SubSeq(s, 1, k)) = k
         /\ \A i \in 1 .. k : SubSeq(s, 1, k)[i] = s[i]
<1> QED OBVIOUS

LEMMA RestIs ==
  ASSUME NEW s \in Seq(Messages), NEW k \in Nat
  PROVE  SubSeq(s, k + 1, Len(s)) \in Seq(Messages)
<1>1. CASE k <= Len(s)
  BY <1>1, SuffixIs, Zenon
<1>2. CASE k > Len(s)
  <2>1. Len(s) \in Nat /\ Len(s) < k + 1
    BY <1>2
  <2>2. SubSeq(s, k + 1, Len(s)) = <<>>
    BY <2>1, EmptyPart, k + 1 \in Int, Len(s) \in Int
  <2> QED BY <2>2
<1> QED BY <1>1, <1>2

LEMMA ConcatIs ==
  ASSUME NEW s \in Seq(Messages), NEW t \in Seq(Messages)
  PROVE  /\ s \o t \in Seq(Messages) /\ Len(s \o t) = Len(s) + Len(t)
         /\ Len(s) \in Nat /\ Len(t) \in Nat
         /\ \A i \in 1 .. Len(s) : (s \o t)[i] = s[i]
         /\ \A i \in 1 .. Len(t) : (s \o t)[Len(s) + i] = t[i]
<1> QED OBVIOUS

LEMMA NumberedConcat ==
  ASSUME NEW s \in Seq(Messages), NEW t \in Seq(Messages), NEW c, NEW a \in Int,
         Numbered(s, c, a), Numbered(t, c, a + Len(s))
  PROVE  Numbered(s \o t, c, a)
<1>1. PICK r : r = s \o t
  BY Zenon
<1>2. /\ r \in Seq(Messages) /\ Len(r) = Len(s) + Len(t) /\ Len(s) \in Nat /\ Len(t) \in Nat
      /\ \A i \in 1 .. Len(s) : r[i] = s[i]
      /\ \A i \in 1 .. Len(t) : r[Len(s) + i] = t[i]
  BY <1>1, ConcatIs, Zenon
<1>3. ASSUME NEW k \in 1 .. Len(r) PROVE r[k] = <<c, a + k>>
  <2>1. CASE k \in 1 .. Len(s)
    BY <1>2, <2>1, Zenon DEF Numbered
  <2>2. CASE k \notin 1 .. Len(s)
    <3>1. PICK i \in 1 .. Len(t) : k = Len(s) + i
      <4>1. k - Len(s) \in 1 .. Len(t) /\ k = Len(s) + (k - Len(s))
        BY <1>2, <2>2
      <4> QED BY <4>1, Zenon
    <3>2. r[k] = <<c, (a + Len(s)) + i>>
      BY <1>2, <3>1, Zenon DEF Numbered
    <3>3. (a + Len(s)) + i = a + k
      BY <1>2, <3>1
    <3> QED BY <3>2, <3>3, Zenon
  <2> QED BY <2>1, <2>2, Zenon
<1> QED BY <1>1, <1>3, Zenon DEF Numbered

\* A recv takes the first of what has arrived.
LEMMA ArrivedIs ==
  ASSUME EchoTypeOK, NEW c \in Conns, Arriving(c)
  PROVE  /\ Arrived(c) \in Seq(Messages) /\ Len(Arrived(c)) \in 0 .. Len(inbox[c])
         /\ Numbered(Arrived(c), c, sent[c] - Len(inbox[c]))
         /\ LET rest == SubSeq(inbox[c], Len(Arrived(c)) + 1, Len(inbox[c])) IN
            /\ rest \in Seq(Messages) /\ Len(rest) = Len(inbox[c]) - Len(Arrived(c))
            /\ Numbered(rest, c, sent[c] - Len(rest))
<1>1. inbox[c] \in Seq(Messages) /\ sent[c] \in Nat
  BY DEF EchoTypeOK, Messages
<1>2. PICK q : q = inbox[c]
  BY Zenon
<1>3. /\ q \in Seq(Messages) /\ Len(q) \in Nat /\ Numbered(q, c, sent[c] - Len(q)) /\ Len(q) <= sent[c]
  BY <1>1, <1>2 DEF Arriving
<1>4. PICK m : m = Least(BufCap, Len(q))
  BY Zenon
<1>5. m \in 0 .. Len(q) /\ m \in Nat /\ m <= Len(q)
  BY <1>3, <1>4, EchoAssumption DEF Least
<1>6. PICK f : f = SubSeq(q, 1, m)
  BY Zenon
<1>7. f \in Seq(Messages) /\ Len(f) = m /\ \A i \in 1 .. m : f[i] = q[i] /\ i \in 1 .. Len(q)
  <2>1. \A i \in 1 .. m : i \in 1 .. Len(q)
    BY <1>3, <1>5
  <2> QED BY <1>3, <1>5, <1>6, <2>1, FrontIs, Zenon
<1>8. f = Arrived(c)
  BY <1>2, <1>4, <1>6, Zenon DEF Arrived
<1>9. Numbered(f, c, sent[c] - Len(q))
  BY <1>3, <1>7, Zenon DEF Numbered
<1>10. PICK r : r = SubSeq(q, m + 1, Len(q))
  BY Zenon
<1>11. r \in Seq(Messages) /\ Len(r) = Len(q) - m /\ \A i \in 1 .. Len(r) : r[i] = q[i + m]
  BY <1>3, <1>5, <1>10, SuffixIs, Zenon
<1>12. Numbered(r, c, sent[c] - Len(r))
  <2> SUFFICES ASSUME NEW k \in 1 .. Len(r) PROVE r[k] = <<c, (sent[c] - Len(r)) + k>>
    BY Zenon DEF Numbered
  <2>1. k + m \in 1 .. Len(q) /\ (sent[c] - Len(q)) + (k + m) = (sent[c] - Len(r)) + k
    BY <1>1, <1>3, <1>5, <1>11
  <2>2. r[k] = <<c, (sent[c] - Len(q)) + (k + m)>>
    BY <1>3, <1>11, <2>1, Zenon DEF Numbered
  <2> QED BY <2>1, <2>2, Zenon
<1>13. r = SubSeq(inbox[c], Len(Arrived(c)) + 1, Len(inbox[c]))
  BY <1>2, <1>7, <1>8, <1>10, Zenon
<1> QED BY <1>2, <1>5, <1>7, <1>8, <1>9, <1>11, <1>12, <1>13, Zenon

\* Operations are added, and leave.
LEMMA SendsAdd ==
  ASSUME NEW S, NEW T, NEW c
  PROVE  Sends(S \cup T, c) = Sends(S, c) \cup Sends(T, c)
<1> QED BY Zenon DEF Sends

LEMMA SendsDrop ==
  ASSUME NEW S, NEW o, NEW c
  PROVE  /\ Sends(S \ {o}, c) \subseteq Sends(S, c)
         /\ o.who # c \/ o.ev # "write" => Sends(S \ {o}, c) = Sends(S, c)
<1>1. Sends(S \ {o}, c) \subseteq Sends(S, c)
  BY Zenon DEF Sends
<1>2. ASSUME o.who # c \/ o.ev # "write", NEW n \in Sends(S, c) PROVE n \in Sends(S \ {o}, c)
  BY <1>2, Zenon DEF Sends
<1> QED BY <1>1, <1>2, Zenon

\* A completion arrives at the end of the queue, and is taken from its head.
LEMMA ReceivedAppend ==
  ASSUME NEW q \in Seq(Cqes), NEW x \in Cqes, NEW c
  PROVE  Received(Append(q, x), c) = Received(q, c) \cup Receives(x, c)
<1>1. PICK r : r = Append(q, x)
  BY Zenon
<1>2. /\ Len(q) \in Nat /\ Len(r) = Len(q) + 1 /\ r[Len(q) + 1] = x
      /\ \A i \in 1 .. Len(q) : r[i] = q[i]
  BY <1>1
<1>3. /\ Len(q) + 1 \in 1 .. Len(r) /\ \A i \in 1 .. Len(q) : i \in 1 .. Len(r)
      /\ \A i \in 1 .. Len(r) : i = Len(q) + 1 \/ i \in 1 .. Len(q)
  BY <1>2
<1>4. Received(r, c) = Received(q, c) \cup Receives(x, c)
  BY <1>2, <1>3, Zenon DEF Received
<1> QED BY <1>1, <1>4, Zenon

LEMMA ReceivedTail ==
  ASSUME NEW q \in Seq(Cqes), Len(q) > 0, NEW c
  PROVE  Received(q, c) = Receives(Head(q), c) \cup Received(Tail(q), c)
<1>1. PICK r : r = Tail(q)
  BY Zenon
<1>2. /\ Len(q) \in Nat /\ Len(q) >= 1 /\ Len(r) = Len(q) - 1 /\ Head(q) = q[1]
      /\ \A i \in 1 .. Len(r) : r[i] = q[i + 1]
  BY <1>1
<1>3. /\ 1 \in 1 .. Len(q)
      /\ \A i \in 1 .. Len(r) : i + 1 \in 1 .. Len(q)
      /\ \A i \in 1 .. Len(q) : i = 1 \/ (i - 1 \in 1 .. Len(r) /\ (i - 1) + 1 = i)
  BY <1>2
<1>4. \A i \in 1 .. Len(q) : i # 1 => r[i - 1] = q[i] /\ i - 1 \in 1 .. Len(r)
  BY <1>2, <1>3, Zenon
<1>5. Received(q, c) \subseteq Receives(q[1], c) \cup Received(r, c)
  BY <1>4, Zenon DEF Received
<1>6. Receives(q[1], c) \cup Received(r, c) \subseteq Received(q, c)
  <2>1. ASSUME NEW n \in Received(r, c) PROVE n \in Received(q, c)
    <3>1. PICK i \in 1 .. Len(r) : n \in Receives(r[i], c)
      BY <2>1, Zenon DEF Received
    <3>2. i + 1 \in 1 .. Len(q) /\ n \in Receives(q[i + 1], c)
      BY <1>2, <1>3, <3>1, Zenon
    <3> QED BY <3>2, Zenon DEF Received
  <2>2. Receives(q[1], c) \subseteq Received(q, c)
    BY <1>3, Zenon DEF Received
  <2> QED BY <2>1, <2>2, Zenon
<1> QED BY <1>1, <1>2, <1>5, <1>6, Zenon

\* A step that moves no message, and leaves what is due alone or resets the connection.
LEMMA DataKeeps ==
  ASSUME DataInv, UNCHANGED <<server, sent, inbox, echoed, buffers>>, shorted \subseteq shorted',
         \A c \in Conns : fd'[c] = "none" => fd[c] = "none",
         \A c \in Conns : peer[c] = "reset" => peer'[c] = "reset",
         \A c \in Conns : Due(c)' = Due(c) \/ (Due(c)' \subseteq Due(c) /\ peer'[c] = "reset")
  PROVE  DataInv'
<1>1. DataTypeOK'
  BY Zenon DEF DataInv, DataTypeOK
<1>2. ASSUME NEW c \in Conns PROVE (Arriving(c) /\ Kept(c))'
  BY <1>2, Zenon DEF DataInv, Arriving, Numbered, Kept, Buffer
<1>3. Alone' => Alone
  BY Zenon DEF Alone
<1>4. ASSUME Alone', NEW c \in Conns \ shorted' PROVE Echoing(c)'
  <2>1. Echoing(c)
    BY <1>3, <1>4, Zenon DEF DataInv
  <2>2. ASSUME NEW n PROVE Owes(c, n)' <=> Owes(c, n)
    BY Zenon DEF Owes, Buffer
  <2>3. CASE Due(c)' = Due(c)
    BY <2>1, <2>2, <2>3, Zenon DEF Echoing, Numbered
  <2>4. CASE peer'[c] = "reset"
    BY <2>1, <2>4, Zenon DEF Echoing, Numbered
  <2> QED BY <1>4, <2>3, <2>4, Zenon
<1> QED BY <1>1, <1>2, <1>4, Zenon DEF DataInv

\* A completion is handled: only that of a recv leaves something due, and a send of the
\* same takes its place.
LEMMA DueHandled ==
  ASSUME EchoTypeOK, nready > 0, cqes' = Tail(cqes), UNCHANGED inflight, NEW A, armed' = armed \cup A,
         NEW c, Sends(A, c) = Receives(Cqe, c)
  PROVE  Due(c)' = Due(c)
<1>1. cqes \in Seq(Cqes) /\ Len(cqes) > 0
  BY DEF EchoTypeOK
<1>2. Received(cqes, c) = Receives(Cqe, c) \cup Received(cqes', c)
  BY <1>1, ReceivedTail, Zenon DEF Cqe
<1>3. Sends(armed', c) = Sends(armed, c) \cup Sends(A, c)
  <2>1. Sends(armed \cup A, c) = Sends(armed, c) \cup Sends(A, c)
    BY ONLY SendsAdd
  <2> QED BY ONLY <2>1, armed' = armed \cup A
<1> QED BY <1>2, <1>3, Zenon DEF Due

\* An operation completes that is neither a send nor a recv with messages.
LEMMA DueCompleted ==
  ASSUME EchoTypeOK, NEW o, NEW res \in Int, Completes(o, res), o.ev = "read" => res <= 0, NEW c
  PROVE  /\ Due(c)' \subseteq Due(c)
         /\ o.who # c \/ o.ev # "write" => Due(c)' = Due(c)
<1>1. /\ o \in inflight /\ inflight' = inflight \ {o} /\ armed' = armed
      /\ cqes' = Append(cqes, [ev |-> o.ev, who |-> o.who, res |-> res])
  BY Zenon DEF Completes
<1>2. PICK x : x = [ev |-> o.ev, who |-> o.who, res |-> res]
  BY Zenon
<1>3. x.ev = o.ev /\ x.who = o.who /\ x.res = res /\ x \in Cqes /\ cqes \in Seq(Cqes)
  BY <1>1, <1>2 DEF EchoTypeOK, Ops, Cqes
<1>4. ~(x.ev = "read" /\ x.res > 0)
  BY <1>3
<1>5. Received(cqes', c) = Received(cqes, c)
  <2>1. Received(Append(cqes, x), c) = Received(cqes, c) \cup Receives(x, c)
    BY <1>3, ReceivedAppend, Zenon
  <2>2. Receives(x, c) = {}
    BY <1>4, Zenon DEF Receives
  <2>3. cqes' = Append(cqes, x)
    BY <1>1, <1>2, Zenon
  <2> QED BY ONLY <2>1, <2>2, <2>3
<1> QED BY <1>1, <1>5, SendsDrop, Zenon DEF Due

\* The fields of an operation.
LEMMA OpFields ==
  ASSUME NEW ev, NEW c, NEW s, NEW n
  PROVE  Op(ev, c, s, n).ev = ev /\ Op(ev, c, s, n).who = c /\ Op(ev, c, s, n).n = n
<1> QED BY DEF Op

\* Sends and receives that there are not, or that carry the same messages.
LEMMA NothingMoves ==
  ASSUME NEW A, NEW c, \A o \in A : o.ev # "write", Cqe.ev # "read" \/ ~(Cqe.res > 0)
  PROVE  Sends(A, c) = Receives(Cqe, c)
<1>1. Sends(A, c) = {}
  BY Zenon DEF Sends
<1>2. Receives(Cqe, c) = {}
  BY Zenon DEF Receives
<1> QED BY <1>1, <1>2, Zenon

LEMMA SameMoves ==
  ASSUME NEW s, NEW c, Cqe.ev = "read", Cqe.res > 0
  PROVE  Sends({Op("write", Cqe.who, s, Cqe.res)}, c) = Receives(Cqe, c)
<1>1. PICK o : o = Op("write", Cqe.who, s, Cqe.res)
  BY Zenon
<1>2. o.ev = "write" /\ o.who = Cqe.who /\ o.n = Cqe.res
  BY <1>1 DEF Op
<1>3. CASE Cqe.who = c
  <2>1. Sends({o}, c) = {Cqe.res}
    BY <1>2, <1>3, Zenon DEF Sends
  <2>2. Receives(Cqe, c) = {Cqe.res}
    BY <1>3, Zenon DEF Receives
  <2> QED BY <1>1, <2>1, <2>2, Zenon
<1>4. CASE Cqe.who # c
  <2>1. Sends({o}, c) = {}
    BY <1>2, <1>4, Zenon DEF Sends
  <2>2. Receives(Cqe, c) = {}
    BY <1>4, Zenon DEF Receives
  <2> QED BY <1>1, <2>1, <2>2, Zenon
<1> QED BY <1>3, <1>4, Zenon

\* The completions of the uring loop and of the coroutines: what was received is sent.
LEMMA HandledData ==
  ASSUME EchoInv, DataInv, nready > 0, CqeDone, NEW A, armed' = armed \cup A,
         \A c \in Conns : fd'[c] = "none" => fd[c] = "none",
         \A c \in Conns : Sends(A, c) = Receives(Cqe, c)
  PROVE  DataInv'
<1>1. /\ UNCHANGED <<server, sent, inbox, echoed, buffers, peer, shorted, inflight>>
      /\ cqes' = Tail(cqes)
  BY Zenon DEF CqeDone, peer_vars
<1>2. ASSUME NEW c \in Conns PROVE Due(c)' = Due(c)
  <2>1. EchoTypeOK /\ Sends(A, c) = Receives(Cqe, c) /\ inflight' = inflight
    BY <1>1, <1>2, Zenon DEF EchoInv
  <2> QED BY ONLY <1>1, <2>1, nready > 0, armed' = armed \cup A, DueHandled
<1> QED BY <1>1, <1>2, DataKeeps, Zenon

LEMMA HandlersData ==
  ASSUME EchoInv, DataInv,
         \/ uring_accept \/ uring_read \/ uring_write
         \/ server_accepts \/ client_connects \/ session_read \/ session_write \/ session_close
  PROVE  DataInv'
<1>t. fd \in [Conns -> {"none", "open", "closed"}]
  BY Zenon DEF EchoInv, EchoTypeOK
<1>d. armed = armed \cup {}
  BY Zenon
<1> DEFINE Quiet(A) == \A o \in A : o.ev # "write"
<1>q. ASSUME NEW A, Quiet(A), nready > 0, CqeDone, armed' = armed \cup A, UNCHANGED fd,
             Cqe.ev # "read" \/ ~(Cqe.res > 0)
      PROVE  DataInv'
  BY <1>q, NothingMoves, HandledData, Zenon DEF Quiet
<1>w. ASSUME NEW s, nready > 0, CqeDone, UNCHANGED fd, Cqe.ev = "read", Cqe.res > 0,
             armed' = armed \cup {Op("write", Cqe.who, s, Cqe.res)}
      PROVE  DataInv'
  <2>1. \A c \in Conns : Sends({Op("write", Cqe.who, s, Cqe.res)}, c) = Receives(Cqe, c)
    BY <1>w, SameMoves, Zenon
  <2> QED BY <1>w, <2>1, HandledData, Zenon
<1>r. \A c, s, n : /\ Op("accept", c, s, n).ev # "write" /\ Op("read", c, s, n).ev # "write"
                   /\ Op("close", c, s, n).ev # "write"
  BY OpFields
<1>e. Quiet({})
  BY Zenon DEF Quiet
<1> HIDE DEF Quiet
<1>1. CASE uring_accept
  <2>0. PICK A : A = {set_event_accept, set_event_recv(Cqe.res)}
    BY Zenon
  <2>1. Quiet(A)
    BY <1>r, <2>0, Zenon DEF Quiet, set_event_accept, set_event_recv
  <2>2. nready > 0 /\ CqeDone /\ armed' = armed \cup A /\ UNCHANGED fd /\ Cqe.ev # "read"
    BY <1>1, <2>0, Zenon DEF uring_accept, Handles, Cqe
  <2> QED BY <1>q, <2>1, <2>2, Zenon
<1>2. CASE uring_read
  <2>0. nready > 0 /\ CqeDone /\ Cqe.ev = "read"
    BY <1>2, Zenon DEF uring_read, Handles, Cqe
  <2>1. CASE Cqe.res > 0 /\ armed' = armed \cup {set_event_send(Cqe.who, Cqe.res)} /\ UNCHANGED fd
    BY <1>w, <2>0, <2>1, Zenon DEF set_event_send
  <2>2. CASE Cqe.res < 0 /\ UNCHANGED <<armed, fd>>
    <3>1. ~(Cqe.res > 0)
      <4>1. Cqe.res \in Int
        <5>1. cqes \in Seq(Cqes) /\ nready \in 0 .. Len(cqes)
          BY Zenon DEF EchoInv, EchoTypeOK
        <5>2. Head(cqes) \in Cqes
          BY <2>0, <5>1
        <5> QED BY <5>2 DEF Cqe, Cqes
      <4> QED BY <2>2, <4>1
    <3> QED BY <1>d, <1>e, <1>q, <2>0, <2>2, <3>1, Zenon
  <2>3. CASE Cqe.res = 0 /\ fd' = [fd EXCEPT ![Cqe.who] = "closed"] /\ UNCHANGED armed
    <3>1. ~(Cqe.res > 0)
      BY <2>3
    <3>2. \A c \in Conns : fd'[c] = "none" => fd[c] = "none"
      BY <1>t, <2>3
    <3>3. \A c \in Conns : Sends({}, c) = Receives(Cqe, c)
      BY <3>1, NothingMoves, Zenon
    <3> QED BY <1>d, <2>0, <2>3, <3>2, <3>3, HandledData, Zenon
  <2> QED BY <1>2, <2>1, <2>2, <2>3, Zenon DEF uring_read
<1>3. CASE uring_write
  <2>0. PICK A : A = {set_event_recv(Cqe.who)}
    BY Zenon
  <2>1. Quiet(A)
    BY <1>r, <2>0, Zenon DEF Quiet, set_event_recv
  <2>2. nready > 0 /\ CqeDone /\ armed' = armed \cup A /\ UNCHANGED fd /\ Cqe.ev # "read"
    BY <1>3, <2>0, Zenon DEF uring_write, Handles, Cqe
  <2> QED BY <1>q, <2>1, <2>2, Zenon
<1>4. CASE server_accepts
  <2>0. nready > 0 /\ CqeDone /\ UNCHANGED fd /\ Cqe.ev # "read"
    BY <1>4, Zenon DEF server_accepts, Handles, Cqe
  <2>1. CASE armed' = armed \cup {tcp_accept_awaiter(slot[Listener])}
    <3>1. Quiet({tcp_accept_awaiter(slot[Listener])})
      BY <1>r, Zenon DEF Quiet, tcp_accept_awaiter
    <3> QED BY <1>q, <2>0, <2>1, <3>1, Zenon
  <2>2. CASE UNCHANGED armed
    BY <1>d, <1>e, <1>q, <2>0, <2>2, Zenon
  <2> QED BY <1>4, <2>1, <2>2, Zenon DEF server_accepts
<1>5. CASE client_connects
  <2>0. PICK A : A = {tcp_read_awaiter(Cqe.who, slot'[Cqe.who])}
    BY Zenon
  <2>1. Quiet(A)
    BY <1>r, <2>0, Zenon DEF Quiet, tcp_read_awaiter
  <2>2. nready > 0 /\ CqeDone /\ armed' = armed \cup A /\ UNCHANGED fd /\ Cqe.ev # "read"
    BY <1>5, <2>0, Zenon DEF client_connects, Handles, Cqe
  <2> QED BY <1>q, <2>1, <2>2, Zenon
<1>c. Quiet({tcp_close_awaiter(Cqe.who)})
  BY <1>r, Zenon DEF Quiet, tcp_close_awaiter
<1>6. CASE session_read
  <2>0. nready > 0 /\ CqeDone /\ UNCHANGED fd /\ Cqe.ev = "read"
    BY <1>6, Zenon DEF session_read, Handles, Cqe
  <2>1. CASE Cqe.res > 0
    <3>1. armed' = armed \cup {Op("write", Cqe.who, slot[Cqe.who], Cqe.res)}
      BY <1>6, <2>1, Zenon DEF session_read, tcp_write_awaiter
    <3> QED BY <1>w, <2>0, <2>1, <3>1, Zenon
  <2>2. CASE ~(Cqe.res > 0)
    BY <1>6, <1>c, <1>q, <2>0, <2>2, Zenon DEF session_read, close
  <2> QED BY <2>1, <2>2, Zenon
<1>7. CASE session_write
  <2>0. nready > 0 /\ CqeDone /\ UNCHANGED fd /\ Cqe.ev # "read"
    BY <1>7, Zenon DEF session_write, Handles, Cqe
  <2>1. \/ armed' = armed \cup {tcp_close_awaiter(Cqe.who)}
        \/ armed' = armed \cup {tcp_read_awaiter(Cqe.who, slot[Cqe.who])}
    BY <1>7, Zenon DEF session_write, close
  <2>2. Quiet({tcp_read_awaiter(Cqe.who, slot[Cqe.who])})
    BY <1>r, Zenon DEF Quiet, tcp_read_awaiter
  <2> QED BY <1>c, <1>q, <2>0, <2>1, <2>2, Zenon
<1>8. CASE session_close
  <2>0. nready > 0 /\ CqeDone /\ UNCHANGED <<armed, fd>> /\ Cqe.ev # "read"
    BY <1>8, Zenon DEF session_close, Handles, Cqe
  <2> QED BY <1>d, <1>e, <1>q, <2>0, Zenon
<1> QED BY <1>1, <1>2, <1>3, <1>4, <1>5, <1>6, <1>7, <1>8, Zenon

\* io_uring_submit: what is sent stays what it is.
LEMMA SubmitData ==
  ASSUME EchoInv, DataInv, SubmitOps
  PROVE  DataInv'
<1>1. UNCHANGED <<server, sent, inbox, echoed, buffers, peer, shorted, fd, cqes>> /\ armed' = {}
  BY Zenon DEF SubmitOps, peer_vars
<1>2. PICK T : T = {[o EXCEPT !.to = IF o.idx = NoSlot THEN o.who ELSE table[o.idx]] : o \in armed}
  BY Zenon
<1>3. inflight' = inflight \cup T
  BY <1>2, Zenon DEF SubmitOps
<1>4. armed \subseteq Ops
  BY Zenon DEF EchoInv, EchoTypeOK
<1>5. \A p \in T : \E o \in armed : p.who = o.who /\ p.ev = o.ev /\ p.n = o.n
  BY <1>2, <1>4 DEF Ops
<1>6. ASSUME NEW o \in armed PROVE \E p \in T : p.who = o.who /\ p.ev = o.ev /\ p.n = o.n
  <2>1. PICK p : p = [o EXCEPT !.to = IF o.idx = NoSlot THEN o.who ELSE table[o.idx]]
    BY Zenon
  <2>2. p \in T
    BY <1>2, <2>1, Zenon
  <2>3. p.who = o.who /\ p.ev = o.ev /\ p.n = o.n
    BY <1>4, <2>1 DEF Ops
  <2> QED BY <2>2, <2>3, Zenon
<1>7. ASSUME NEW c \in Conns PROVE Due(c)' = Due(c)
  <2>1. Sends(T, c) \subseteq Sends(armed, c)
    <3>1. ASSUME NEW p \in T, p.who = c, p.ev = "write" PROVE p.n \in Sends(armed, c)
      BY <1>5, <3>1, Zenon DEF Sends
    <3> QED BY <3>1, Zenon DEF Sends
  <2>2. Sends(armed, c) \subseteq Sends(T, c)
    <3>1. ASSUME NEW o \in armed, o.who = c, o.ev = "write" PROVE o.n \in Sends(T, c)
      BY <1>6, <3>1, Zenon DEF Sends
    <3> QED BY <3>1, Zenon DEF Sends
  <2>3. Sends(inflight \cup T, c) = Sends(inflight, c) \cup Sends(T, c)
    BY ONLY SendsAdd
  <2>4. Sends(inflight', c) = Sends(inflight, c) \cup Sends(T, c)
    BY ONLY <1>3, <2>3
  <2>5. Sends(armed', c) = {}
    BY <1>1, Zenon DEF Sends
  <2>6. Received(cqes', c) = Received(cqes, c)
    BY <1>1, Zenon
  <2> QED BY <2>1, <2>2, <2>4, <2>5, <2>6, Zenon DEF Due
<1> QED BY <1>1, <1>7, DataKeeps, Zenon

\* Steps that prepare at most an accept or a read, and complete nothing.
LEMMA QuietData ==
  ASSUME DataInv, UNCHANGED <<server, sent, inbox, echoed, buffers, shorted, inflight, cqes>>,
         NEW A, armed' = armed \cup A, \A o \in A : o.ev # "write",
         \A c \in Conns : fd'[c] = "none" => fd[c] = "none",
         \A c \in Conns : peer[c] = "reset" => peer'[c] = "reset"
  PROVE  DataInv'
<1>1. ASSUME NEW c \in Conns PROVE Due(c)' = Due(c)
  <2>1. Sends(A, c) = {}
    BY Zenon DEF Sends
  <2>2. Sends(armed \cup A, c) = Sends(armed, c) \cup Sends(A, c)
    BY ONLY SendsAdd
  <2>3. Sends(armed', c) = Sends(armed, c)
    BY ONLY <2>1, <2>2, armed' = armed \cup A
  <2>4. Received(cqes', c) = Received(cqes, c) /\ Sends(inflight', c) = Sends(inflight, c)
    BY Zenon
  <2> QED BY <2>3, <2>4, Zenon DEF Due
<1> QED BY <1>1, DataKeeps, Zenon

LEMMA OthersData ==
  ASSUME EchoInv, DataInv, NEW c \in Conns,
         \/ PeekCqes \/ tcp_server \/ session(c) \/ PeerConnects(c) \/ PeerCloses(c) \/ epoll_wait
         \/ \E e \in events : epoll_accept(e, c)
         \/ UNCHANGED echo_vars
  PROVE  DataInv'
<1>t. /\ fd \in [Conns -> {"none", "open", "closed"}] /\ peer \in [Conns -> PeerStates]
  BY Zenon DEF EchoInv, EchoTypeOK
<1>q. ASSUME UNCHANGED <<server, sent, inbox, echoed, buffers, shorted, armed, inflight, cqes>>,
             \A d \in Conns : fd'[d] = "none" => fd[d] = "none",
             \A d \in Conns : peer[d] = "reset" => peer'[d] = "reset"
      PROVE  DataInv'
  <2>1. PICK A : A = {}
    BY Zenon
  <2>2. armed' = armed \cup A /\ \A o \in A : o.ev # "write"
    BY <1>q, <2>1, Zenon
  <2> QED BY <1>q, <2>2, QuietData, Zenon
<1>1. CASE PeekCqes \/ epoll_wait \/ UNCHANGED echo_vars
  <2>1. UNCHANGED <<server, sent, inbox, echoed, buffers, shorted, armed, inflight, cqes, fd, peer>>
    BY <1>1, Zenon DEF PeekCqes, epoll_wait, echo_vars, peer_vars, loop_vars
  <2> QED BY <1>q, <2>1, Zenon
<1>2. CASE tcp_server
  <2>0. PICK A : A = {tcp_accept_awaiter(slot'[Listener])}
    BY Zenon
  <2>1. \A o \in A : o.ev # "write"
    BY <2>0, OpFields DEF tcp_accept_awaiter
  <2>2. /\ UNCHANGED <<server, sent, inbox, echoed, buffers, shorted, inflight, cqes, fd, peer>>
        /\ armed' = armed \cup A
    BY <1>2, <2>0, Zenon DEF tcp_server, peer_vars
  <2> QED BY <2>1, <2>2, QuietData, Zenon
<1>3. CASE session(c)
  <2>0. PICK A : A = {tcp_read_awaiter(c, slot'[c])}
    BY Zenon
  <2>1. \A o \in A : o.ev # "write"
    BY <2>0, OpFields DEF tcp_read_awaiter
  <2>2. /\ UNCHANGED <<server, sent, inbox, echoed, buffers, shorted, inflight, cqes, fd, peer>>
        /\ armed' = armed \cup A
    BY <1>3, <2>0, Zenon DEF session, peer_vars
  <2> QED BY <2>1, <2>2, QuietData, Zenon
<1>4. CASE PeerConnects(c) \/ PeerCloses(c)
  <2>1. /\ UNCHANGED <<server, sent, inbox, echoed, buffers, shorted, armed, inflight, cqes, fd>>
        /\ peer[c] # "reset"
        /\ peer' = [peer EXCEPT ![c] = "connecting"] \/ peer' = [peer EXCEPT ![c] = "closed"]
    BY <1>4, Zenon DEF PeerConnects, PeerCloses, net_unchanged, loop_vars
  <2>2. \A d \in Conns : peer[d] = "reset" => peer'[d] = "reset"
    BY <1>t, <2>1
  <2> QED BY <1>q, <2>1, <2>2, Zenon
<1>5. ASSUME NEW e \in events, epoll_accept(e, c) PROVE DataInv'
  <2>1. /\ UNCHANGED <<server, sent, inbox, echoed, buffers, shorted, armed, inflight, cqes>>
        /\ peer[c] # "reset"
        /\ \/ peer' = [peer EXCEPT ![c] = "open"] /\ fd' = [fd EXCEPT ![c] = "open"]
           \/ UNCHANGED <<peer, fd>>
    BY <1>5, Zenon DEF epoll_accept, loop_vars
  <2>2. /\ \A d \in Conns : peer[d] = "reset" => peer'[d] = "reset"
        /\ \A d \in Conns : fd'[d] = "none" => fd[d] = "none"
    BY <1>t, <2>1
  <2> QED BY <1>q, <2>1, <2>2, Zenon
<1> QED BY <1>1, <1>2, <1>3, <1>4, <1>5, Zenon

\* Connections are made, fail and end. A send fails when the connection was reset: while
\* something is due the descriptor is open.
LEMMA KernelData ==
  ASSUME EchoInv, DataInv, NEW o \in inflight, NEW c \in Conns,
         KernelConnects(o, c) \/ KernelFails(o) \/ KernelCloses(o)
  PROVE  DataInv'
<1>t. /\ fd \in [Conns -> {"none", "open", "closed"}] /\ peer \in [Conns -> PeerStates]
      /\ EchoTypeOK /\ o \in Ops /\ OpRule(o) /\ o.to = o.who
  BY Zenon DEF EchoInv, EchoTypeOK, Rules
<1>1. CASE KernelConnects(o, c)
  <2>1. /\ UNCHANGED <<server, sent, inbox, echoed, buffers, shorted>> /\ Completes(o, c)
        /\ peer[c] # "reset" /\ o.ev # "read" /\ o.ev # "write"
        /\ peer' = [peer EXCEPT ![c] = "open"] /\ fd' = [fd EXCEPT ![c] = "open"]
    BY <1>1, Zenon DEF KernelConnects, Completes
  <2>2. /\ \A d \in Conns : peer[d] = "reset" => peer'[d] = "reset"
        /\ \A d \in Conns : fd'[d] = "none" => fd[d] = "none"
    BY <1>t, <2>1
  <2>3. c \in Int
    BY DEF Conns
  <2>4. \A d \in Conns : Due(d)' = Due(d)
    BY <1>t, <2>1, <2>3, DueCompleted, Zenon
  <2> QED BY <2>1, <2>2, <2>4, DataKeeps, Zenon
<1>2. CASE KernelCloses(o)
  <2>1. /\ UNCHANGED <<server, sent, inbox, echoed, buffers, shorted, peer>> /\ Completes(o, 0)
        /\ o.ev # "read" /\ o.ev # "write" /\ fd' = [fd EXCEPT ![o.to] = "closed"]
    BY <1>2, Zenon DEF KernelCloses, Completes
  <2>2. \A d \in Conns : fd'[d] = "none" => fd[d] = "none"
    BY <1>t, <2>1
  <2>3. 0 \in Int
    OBVIOUS
  <2>4. \A d \in Conns : Due(d)' = Due(d)
    BY <1>t, <2>1, <2>3, DueCompleted, Zenon
  <2> QED BY <2>1, <2>2, <2>4, DataKeeps, Zenon
<1>3. CASE KernelFails(o)
  <2>1. /\ UNCHANGED <<server, sent, inbox, echoed, buffers, shorted, peer, fd>>
        /\ Completes(o, Failed)
    BY <1>3, Zenon DEF KernelFails, Completes
  <2>2. Failed \in Int /\ Failed <= 0
    BY DEF Failed
  <2>3. \A d \in Conns : /\ Due(d)' \subseteq Due(d)
                         /\ o.who # d \/ o.ev # "write" => Due(d)' = Due(d)
    BY <1>t, <2>1, <2>2, DueCompleted, Zenon
  <2>4. ASSUME NEW d \in Conns, o.who = d, o.ev = "write" PROVE peer'[d] = "reset"
    <3>1. o.n \in Due(d)
      BY <2>4, Zenon DEF Due, Sends
    <3>2. fd[d] # "none"
      BY <3>1, Zenon DEF DataInv, Kept
    <3>3. fd[d] = "open"
      BY <1>t, <2>4, <3>2, Zenon DEF OpRule
    <3>4. fd[o.to] # "open" \/ peer[o.to] = "reset"
      BY <1>3, <1>t, <2>4, Zenon DEF KernelFails
    <3> QED BY <1>t, <2>1, <2>4, <3>3, <3>4, Zenon
  <2> QED BY <2>1, <2>3, <2>4, DataKeeps, Zenon
<1> QED BY <1>1, <1>2, <1>3, Zenon

\* What is due is a number.
LEMMA DueInt ==
  ASSUME EchoTypeOK, NEW c, NEW n \in Due(c)
  PROVE  n \in Int
<1>1. ASSUME NEW S \in SUBSET Ops, n \in Sends(S, c) PROVE n \in Int
  <2>1. PICK o \in S : n = o.n
    BY <1>1, Zenon DEF Sends
  <2> QED BY <2>1 DEF Ops
<1>2. ASSUME n \in Received(cqes, c) PROVE n \in Int
  <2>1. PICK i \in 1 .. Len(cqes) : n \in Receives(cqes[i], c)
    BY <1>2, Zenon DEF Received
  <2>2. n = cqes[i].res
    BY <2>1, Zenon DEF Receives
  <2>3. cqes[i] \in Cqes
    BY <2>1 DEF EchoTypeOK
  <2> QED BY <2>2, <2>3 DEF Cqes
<1>3. armed \in SUBSET Ops /\ inflight \in SUBSET Ops
  BY Zenon DEF EchoTypeOK
<1> QED BY <1>1, <1>2, <1>3, Zenon DEF Due

\* An operation in the kernel is the only thing under way on its connection.
LEMMA DueOnly ==
  ASSUME EchoInv, NEW o \in inflight, o.who \in Conns
  PROVE  /\ Sends(armed, o.who) = {} /\ Received(cqes, o.who) = {}
         /\ Sends(inflight \ {o}, o.who) = {}
         /\ o.ev = "write" => Due(o.who) = {o.n}
         /\ o.ev # "write" => Due(o.who) = {}
<1>s. o.who \in Socks
  BY DEF Conns, Socks
<1>t. OnePlace /\ o.who \in Names(inflight)
  BY <1>s, Zenon DEF EchoInv, Names
<1>1. Sends(armed, o.who) = {}
  <2>1. o.who \notin Names(armed)
    BY <1>t, Zenon DEF OnePlace
  <2> QED BY <1>s, <2>1, Zenon DEF Sends, Names
<1>2. Received(cqes, o.who) = {}
  <2>1. o.who \notin CqNames(cqes)
    BY <1>t, Zenon DEF OnePlace
  <2>2. \A i \in 1 .. Len(cqes) : cqes[i].who # o.who
    BY <1>s, <2>1, Zenon DEF CqNames, Of
  <2>3. \A i \in 1 .. Len(cqes) : Receives(cqes[i], o.who) = {}
    BY <2>2, Zenon DEF Receives
  <2> QED BY <2>3, Zenon DEF Received
<1>3. \A p \in inflight : p.who = o.who => p = o
  BY <1>s, <1>t, Zenon DEF OnePlace, Once
<1>4. Sends(inflight \ {o}, o.who) = {}
  BY <1>3, Zenon DEF Sends
<1>5. ASSUME o.ev = "write" PROVE Sends(inflight, o.who) = {o.n}
  BY <1>3, <1>5, Zenon DEF Sends
<1>6. ASSUME o.ev # "write" PROVE Sends(inflight, o.who) = {}
  BY <1>3, <1>6, Zenon DEF Sends
<1> QED BY <1>1, <1>2, <1>4, <1>5, <1>6, Zenon DEF Due

\* How what is due changes when o completes with res.
LEMMA DueAfter ==
  ASSUME EchoInv, NEW o \in inflight, o.who \in Conns, NEW res \in Int, Completes(o, res)
  PROVE  /\ o.ev = "read" /\ res > 0 => Due(o.who)' = {res}
         /\ o.ev # "read" \/ ~(res > 0) => Due(o.who)' = {}
         /\ \A c : c # o.who => Due(c)' = Due(c)
<1>t. EchoTypeOK /\ o \in Ops
  BY Zenon DEF EchoInv, EchoTypeOK
<1>1. /\ inflight' = inflight \ {o} /\ armed' = armed
      /\ cqes' = Append(cqes, [ev |-> o.ev, who |-> o.who, res |-> res])
  BY Zenon DEF Completes
<1>2. PICK x : x = [ev |-> o.ev, who |-> o.who, res |-> res]
  BY Zenon
<1>3. x.ev = o.ev /\ x.who = o.who /\ x.res = res /\ x \in Cqes /\ cqes \in Seq(Cqes)
  BY <1>t, <1>2 DEF EchoTypeOK, Ops, Cqes
<1>4. ASSUME NEW c PROVE Received(cqes', c) = Received(cqes, c) \cup Receives(x, c)
  <2>1. Received(Append(cqes, x), c) = Received(cqes, c) \cup Receives(x, c)
    BY <1>3, ReceivedAppend, Zenon
  <2>2. cqes' = Append(cqes, x)
    BY <1>1, <1>2, Zenon
  <2> QED BY ONLY <2>1, <2>2
<1>5. /\ Sends(armed', o.who) = {} /\ Sends(inflight', o.who) = {} /\ Received(cqes, o.who) = {}
  BY <1>1, DueOnly, Zenon
<1>6. Due(o.who)' = Receives(x, o.who)
  BY <1>4, <1>5, Zenon DEF Due
<1>7. ASSUME o.ev = "read", res > 0 PROVE Due(o.who)' = {res}
  <2>1. Receives(x, o.who) = {res}
    BY <1>3, <1>7, Zenon DEF Receives
  <2> QED BY <1>6, <2>1, Zenon
<1>8. ASSUME o.ev # "read" \/ ~(res > 0) PROVE Due(o.who)' = {}
  <2>1. Receives(x, o.who) = {}
    BY <1>3, <1>8, Zenon DEF Receives
  <2> QED BY <1>6, <2>1, Zenon
<1>9. ASSUME NEW c, c # o.who PROVE Due(c)' = Due(c)
  <2>1. Receives(x, c) = {}
    BY <1>3, <1>9, Zenon DEF Receives
  <2>2. Sends(inflight \ {o}, c) = Sends(inflight, c)
    BY <1>9, SendsDrop, Zenon
  <2> QED BY <1>1, <1>4, <2>1, <2>2, Zenon DEF Due
<1> QED BY <1>7, <1>8, <1>9, Zenon

\* A recv: what arrived lies in the buffer and is due. Another connection that uses the same
\* buffer is one of the uring servers', and then the invariant promises nothing.
LEMMA ReadsData ==
  ASSUME EchoInv, DataInv, NEW o \in inflight, KernelReads(o)
  PROVE  DataInv'
<1> USE EchoAssumption
<1>t. /\ EchoTypeOK /\ o.to = o.who /\ DataTypeOK
      /\ \A c \in Conns : Arriving(c) /\ Kept(c)
  BY Zenon DEF EchoInv, Rules, DataInv
<1>1. PICK d : d = o.who
  BY Zenon
<1>2. PICK new : new = Arrived(d)
  BY Zenon
<1>3. PICK rest : rest = SubSeq(inbox[d], Len(new) + 1, Len(inbox[d]))
  BY Zenon
<1>4. /\ d \in Conns /\ o.ev = "read" /\ fd[d] = "open" /\ peer[d] # "reset"
      /\ buffers' = [buffers EXCEPT ![Buffer(d)] = new \o SubSeq(@, Len(new) + 1, Len(@))]
      /\ inbox' = [inbox EXCEPT ![d] = rest]
      /\ Completes(o, Len(new))
      /\ UNCHANGED <<peer, echoed, fd, shorted, server, sent>>
  BY <1>t, <1>1, <1>2, <1>3, Zenon DEF KernelReads, Overwrite, Completes
<1>5. /\ new \in Seq(Messages) /\ Len(new) \in 0 .. Len(inbox[d])
      /\ Numbered(new, d, sent[d] - Len(inbox[d]))
      /\ rest \in Seq(Messages) /\ Len(rest) = Len(inbox[d]) - Len(new)
      /\ Numbered(rest, d, sent[d] - Len(rest))
  BY <1>t, <1>2, <1>3, <1>4, ArrivedIs, Zenon
<1>6. /\ inbox \in [Conns -> Seq(Messages)] /\ sent[d] \in Nat
      /\ \A c \in Conns : Len(inbox[c]) \in Nat /\ Len(echoed[c]) \in Nat
  BY <1>t, <1>4 DEF EchoTypeOK, Messages, DataTypeOK
<1>7. \A c \in Conns : Buffer(c) \in Socks /\ Buffer(c)' = Buffer(c)
  BY <1>4 DEF Buffer, Socks, Conns
<1>8. PICK old : old = buffers[Buffer(d)]
  BY Zenon
<1>9. PICK buf : buf = new \o SubSeq(old, Len(new) + 1, Len(old))
  BY Zenon
<1>10. old \in Seq(Messages) /\ Len(new) \in Nat /\ Len(old) \in Nat
  BY <1>t, <1>4, <1>5, <1>7, <1>8 DEF DataTypeOK
<1>11. /\ buf \in Seq(Messages) /\ Len(buf) >= Len(new) /\ Len(buf) >= Len(old) /\ Len(buf) \in Nat
       /\ \A i \in 1 .. Len(new) : buf[i] = new[i]
  <2>1. SubSeq(old, Len(new) + 1, Len(old)) \in Seq(Messages)
    BY <1>10, RestIs, Zenon
  <2>2. PICK tl : tl = SubSeq(old, Len(new) + 1, Len(old))
    BY Zenon
  <2>3. /\ buf \in Seq(Messages) /\ Len(buf) = Len(new) + Len(tl) /\ Len(tl) \in Nat
        /\ \A i \in 1 .. Len(new) : buf[i] = new[i]
    BY <1>5, <1>9, <2>1, <2>2, ConcatIs, ZenonT(30)
  <2>4. CASE Len(new) <= Len(old)
    <3>1. Len(tl) = Len(old) - Len(new)
      BY <1>10, <2>2, <2>4, SuffixIs, Zenon
    <3> QED BY <1>10, <2>3, <3>1
  <2>5. CASE Len(new) > Len(old)
    BY <1>10, <2>3, <2>5
  <2> QED BY <1>10, <2>4, <2>5
<1>12. /\ buffers'[Buffer(d)] = buf
       /\ \A b \in Socks : b # Buffer(d) => buffers'[b] = buffers[b]
       /\ buffers' \in [Socks -> Seq(Messages)]
  <2>1. /\ buffers \in [Socks -> Seq(Messages)] /\ Buffer(d) \in Socks /\ buf \in Seq(Messages)
        /\ buffers' = [buffers EXCEPT ![Buffer(d)] = buf]
    BY <1>t, <1>4, <1>7, <1>8, <1>9, <1>11, Zenon DEF DataTypeOK
  <2> QED BY <2>1, Zenon
<1>13. /\ inbox'[d] = rest /\ \A c \in Conns : c # d => inbox'[c] = inbox[c]
  BY <1>4, <1>6
<1>14. /\ Due(d) = {} /\ (Len(new) > 0 => Due(d)' = {Len(new)}) /\ (~(Len(new) > 0) => Due(d)' = {})
       /\ \A c \in Conns : c # d => Due(c)' = Due(c)
  <2>1. Len(new) \in Int
    BY <1>10
  <2>2. o.ev # "write"
    BY <1>4
  <2> QED BY <1>1, <1>4, <2>1, <2>2, DueOnly, DueAfter, Zenon
<1>15. DataTypeOK'
  BY <1>t, <1>4, <1>12, Zenon DEF DataTypeOK
<1>16. ASSUME NEW c \in Conns PROVE Arriving(c)'
  <2>1. CASE c = d
    <3>0. Len(inbox[d]) <= sent[d] /\ Len(inbox[d]) \in Nat
      BY <1>t, <1>4, <1>6, Zenon DEF Arriving
    <3>1. Len(rest) <= sent[d]
      BY ONLY <1>5, <1>6, <3>0
    <3> QED BY <1>4, <1>5, <1>13, <2>1, <3>1, Zenon DEF Arriving
  <2>2. CASE c # d
    BY <1>t, <1>4, <1>13, <2>2, Zenon DEF Arriving
  <2> QED BY <2>1, <2>2, Zenon
<1>17. ASSUME NEW c \in Conns PROVE Kept(c)'
  <2>1. CASE c = d
    <3>1. \A n \in Due(d)' : n <= Len(buf)
      BY <1>10, <1>11, <1>14
    <3> QED BY <1>4, <1>7, <1>12, <2>1, <3>1 DEF Kept
  <2>2. CASE c # d
    <3>1. ASSUME NEW n \in Due(c) PROVE n <= Len(buffers'[Buffer(c)])
      <4>1. n <= Len(buffers[Buffer(c)])
        BY <1>t, <3>1, Zenon DEF Kept
      <4>2. CASE Buffer(c) # Buffer(d)
        BY <1>7, <1>12, <4>1, <4>2, Zenon
      <4>3. CASE Buffer(c) = Buffer(d)
        <5>1. n <= Len(old) /\ n \in Int
          <6>1. n \in Int
            BY <1>t, <3>1, DueInt, Zenon
          <6> QED BY <1>8, <4>1, <4>3, <6>1, Zenon
        <5>2. n <= Len(buf)
          BY <1>10, <1>11, <5>1
        <5> QED BY <1>12, <4>3, <5>2, Zenon
      <4> QED BY <4>2, <4>3, Zenon
    <3> QED BY <1>t, <1>4, <1>7, <1>14, <2>2, <3>1, Zenon DEF Kept
  <2> QED BY <2>1, <2>2, Zenon
<1>18. Alone' => Alone
  BY <1>4, Zenon DEF Alone
<1>19. ASSUME Alone', NEW c \in Conns \ shorted' PROVE Echoing(c)'
  <2>1. c \in Conns /\ Echoing(c)
    BY <1>4, <1>18, <1>19, Zenon DEF DataInv
  <2>2. CASE c = d
    <3>1. Numbered(echoed[d], d, 0) /\ Len(echoed[d]) <= sent[d] /\ Owes(d, 0)
      BY <1>4, <1>14, <2>1, <2>2, Zenon DEF Echoing
    <3>2. Len(echoed[d]) + 0 + Len(inbox[d]) = sent[d]
      BY <3>1, Zenon DEF Owes
    <3>3. Len(echoed[d]) + Len(new) + Len(rest) = sent[d] /\ sent[d] - Len(inbox[d]) = Len(echoed[d])
      <4>1. /\ Len(echoed[d]) \in Nat /\ Len(inbox[d]) \in Nat /\ sent[d] \in Nat /\ Len(new) \in Nat
            /\ Len(rest) = Len(inbox[d]) - Len(new)
        BY <1>4, <1>5, <1>6, <1>10, Zenon
      <4>2. PICK e, i, n, r, t : /\ e = Len(echoed[d]) /\ i = Len(inbox[d]) /\ n = Len(new)
                                /\ r = Len(rest) /\ t = sent[d]
        BY Zenon
      <4>3. e \in Nat /\ i \in Nat /\ t \in Nat /\ n \in Nat /\ r = i - n /\ e + 0 + i = t
        BY <3>2, <4>1, <4>2, Zenon
      <4>4. e + n + r = t /\ t - i = e
        BY ONLY <4>3
      <4> QED BY <4>2, <4>4, Zenon
    <3>4. \A k \in 1 .. Len(new) : buf[k] = <<d, Len(echoed[d]) + k>>
      BY <1>5, <1>11, <3>3, Zenon DEF Numbered
    <3>5. Owes(d, Len(new))'
      BY <1>4, <1>7, <1>12, <1>13, <3>3, <3>4, Zenon DEF Owes
    <3>6. CASE Len(new) > 0
      BY <1>4, <1>14, <2>2, <3>1, <3>5, <3>6, Zenon DEF Echoing, Numbered
    <3>7. CASE ~(Len(new) > 0)
      <4>1. Len(new) = 0
        BY <1>10, <3>7
      <4> QED BY <1>4, <1>14, <2>2, <3>1, <3>5, <3>7, <4>1, Zenon DEF Echoing, Numbered
    <3> QED BY <3>6, <3>7, Zenon
  <2>3. CASE c # d /\ Due(c) = {}
    <3>1. Owes(c, 0)' <=> Owes(c, 0)
      <4>1. 1 .. 0 = {}
        BY ONLY TRUE
      <4> QED BY <1>4, <1>13, <2>1, <2>3, <4>1, Zenon DEF Owes
    <3> QED BY <1>4, <1>14, <2>1, <2>3, <3>1, Zenon DEF Echoing, Numbered
  <2>4. CASE c # d /\ Due(c) # {}
    <3>1. fd[c] # "none"
      BY <1>t, <2>1, <2>4, ZenonT(30) DEF Kept
    <3>2. server # "uring"
      BY <1>4, <1>18, <1>19, <2>1, <2>4, <3>1 DEF Alone
    <3>3. Buffer(c) # Buffer(d)
      BY <2>4, <3>2, Zenon DEF Buffer
    <3>4. ASSUME NEW n PROVE Owes(c, n)' <=> Owes(c, n)
      BY <1>4, <1>7, <1>12, <1>13, <2>1, <2>4, <3>3, Zenon DEF Owes
    <3> QED BY <1>4, <1>14, <2>1, <2>4, <3>4, Zenon DEF Echoing, Numbered
  <2> QED BY <2>2, <2>3, <2>4, Zenon
<1> QED BY <1>15, <1>16, <1>17, <1>19, Zenon DEF DataInv

\* A send: what goes out continues what got back before. Of a short one only the type of
\* the messages is known.
LEMMA WritesData ==
  ASSUME EchoInv, DataInv, NEW o \in inflight, NEW k, KernelWrites(o, k)
  PROVE  DataInv'
<1> USE EchoAssumption
<1>t. /\ EchoTypeOK /\ o \in Ops /\ o.to = o.who /\ DataTypeOK
      /\ \A c \in Conns : Arriving(c) /\ Kept(c)
  BY Zenon DEF EchoInv, EchoTypeOK, Rules, DataInv
<1>1. PICK d : d = o.who
  BY Zenon
<1>2. PICK out : out = SubSeq(buffers[Buffer(d)], 1, k)
  BY Zenon
<1>3. /\ d \in Conns /\ o.ev = "write" /\ peer[d] # "reset" /\ k \in 1 .. o.n
      /\ echoed' = [echoed EXCEPT ![d] = @ \o out]
      /\ Completes(o, k)
      /\ UNCHANGED <<peer, inbox, fd, buffers, server, sent>>
      /\ k # o.n => shorted' = shorted \cup {d}
      /\ k = o.n => UNCHANGED shorted
  BY <1>t, <1>1, <1>2, Zenon DEF KernelWrites, Delivers, Completes
<1>4. k \in Int /\ k \in Nat /\ o.n \in Int /\ k <= o.n
  BY <1>t, <1>3 DEF Ops
<1>5. /\ Due(d) = {o.n} /\ Due(d)' = {} /\ \A c \in Conns : c # d => Due(c)' = Due(c)
  <2>1. o.ev # "read"
    BY <1>3
  <2> QED BY <1>1, <1>3, <1>4, <2>1, DueOnly, DueAfter, Zenon
<1>6. \A c \in Conns : Buffer(c) \in Socks /\ Buffer(c)' = Buffer(c)
  BY <1>3 DEF Buffer, Socks, Conns
<1>7. PICK buf : buf = buffers[Buffer(d)]
  BY Zenon
<1>8. buf \in Seq(Messages) /\ o.n <= Len(buf) /\ Len(buf) \in Nat
  <2>1. buf \in Seq(Messages)
    BY <1>t, <1>3, <1>6, <1>7, Zenon DEF DataTypeOK
  <2>2. o.n <= Len(buf)
    BY <1>t, <1>3, <1>5, <1>7, Zenon DEF Kept
  <2> QED BY <2>1, <2>2
<1>9. out \in Seq(Messages) /\ Len(out) = k /\ \A i \in 1 .. k : out[i] = buf[i]
  <2>1. k \in 0 .. Len(buf)
    BY ONLY <1>4, <1>8
  <2> QED BY <1>2, <1>7, <1>8, <2>1, FrontIs, Zenon
<1>10. /\ echoed[d] \in Seq(Messages) /\ Len(echoed[d]) \in Nat /\ sent[d] \in Nat
       /\ Len(inbox[d]) \in Nat
       /\ echoed'[d] = echoed[d] \o out /\ \A c \in Conns : c # d => echoed'[c] = echoed[c]
  BY <1>t, <1>3 DEF DataTypeOK, EchoTypeOK
<1>11. /\ echoed'[d] \in Seq(Messages) /\ Len(echoed'[d]) = Len(echoed[d]) + k
  BY <1>9, <1>10, ConcatIs, Zenon
<1>12. DataTypeOK'
  <2>1. echoed' \in [Conns -> Seq(Messages)]
    BY <1>t, <1>3, <1>10, <1>11 DEF DataTypeOK
  <2> QED BY <1>t, <1>3, <2>1, Zenon DEF DataTypeOK
<1>13. ASSUME NEW c \in Conns PROVE (Arriving(c) /\ Kept(c))'
  <2>1. Arriving(c)'
    BY <1>t, <1>3, Zenon DEF Arriving, Numbered
  <2>2. Due(c)' \subseteq Due(c)
    BY <1>5, Zenon
  <2> QED BY <1>t, <1>3, <1>6, <2>1, <2>2, Zenon DEF Kept
<1>14. Alone' => Alone
  BY <1>3, Zenon DEF Alone
<1>15. ASSUME Alone', NEW c \in Conns \ shorted' PROVE Echoing(c)'
  <2>1. c \in Conns /\ Echoing(c)
    BY <1>3, <1>14, <1>15, Zenon DEF DataInv
  <2>2. CASE c # d
    <3>1. ASSUME NEW n PROVE Owes(c, n)' <=> Owes(c, n)
      BY <1>3, <1>6, <1>10, <2>1, <2>2, Zenon DEF Owes
    <3>2. Numbered(echoed'[c], c, 0) /\ Len(echoed'[c]) <= sent'[c] /\ peer'[c] = peer[c]
      BY <1>3, <1>10, <2>1, <2>2 DEF Echoing
    <3> QED BY <1>5, <2>1, <2>2, <3>1, <3>2, Zenon DEF Echoing
  <2>3. CASE c = d
    <3>1. k = o.n
      BY <1>3, <1>15, <2>3, Zenon
    <3>2. Numbered(echoed[d], d, 0) /\ Owes(d, k)
      BY <1>3, <1>5, <2>1, <2>3, <3>1, Zenon DEF Echoing
    <3>3. /\ \A i \in 1 .. k : buf[i] = <<d, Len(echoed[d]) + i>>
          /\ Len(echoed[d]) + k + Len(inbox[d]) = sent[d]
      BY <1>7, <3>2, Zenon DEF Owes
    <3>4. Numbered(out, d, 0 + Len(echoed[d]))
      <4>1. 0 + Len(echoed[d]) = Len(echoed[d])
        BY <1>10
      <4> QED BY <1>9, <3>3, <4>1, Zenon DEF Numbered
    <3>5. Numbered(echoed'[d], d, 0)
      <4>1. 0 \in Int
        OBVIOUS
      <4> QED BY <1>9, <1>10, <3>2, <3>4, <4>1, NumberedConcat, Zenon
    <3>6. Len(echoed'[d]) <= sent[d] /\ Len(echoed'[d]) + 0 + Len(inbox[d]) = sent[d]
      BY <1>4, <1>10, <1>11, <3>3
    <3>7. Owes(d, 0)'
      <4>1. 1 .. 0 = {}
        OBVIOUS
      <4> QED BY <1>3, <3>6, <4>1, Zenon DEF Owes
    <3> QED BY <1>3, <1>5, <2>3, <3>5, <3>6, <3>7, Zenon DEF Echoing
  <2> QED BY <2>2, <2>3, Zenon
<1> QED BY <1>12, <1>13, <1>15, Zenon DEF DataInv

\* A peer sends, or resets: what has arrived is gone then, and nothing is owed any more.
LEMMA PeerData ==
  ASSUME EchoInv, DataInv, NEW d \in Conns, PeerSends(d) \/ PeerResets(d)
  PROVE  DataInv'
<1>t. /\ EchoTypeOK /\ DataTypeOK /\ \A c \in Conns : Arriving(c) /\ Kept(c)
  BY Zenon DEF EchoInv, DataInv
<1>u. UNCHANGED <<echoed, server, fd, armed, inflight, cqes, buffers, shorted>>
  BY Zenon DEF PeerSends, PeerResets, net_unchanged, loop_vars
<1>s. /\ \A c \in Conns : inbox[c] \in Seq(Messages) /\ Len(inbox[c]) \in Nat /\ sent[c] \in Nat
      /\ \A c \in Conns : Len(echoed[c]) \in Nat
      /\ inbox \in [Conns -> Seq(Messages)] /\ sent \in [Conns -> Nat]
      /\ peer \in [Conns -> PeerStates]
  BY <1>t DEF EchoTypeOK, DataTypeOK, Messages
<1>d. \A c \in Conns : Due(c)' = Due(c) /\ Buffer(c)' = Buffer(c)
  BY <1>u, Zenon DEF Due, Buffer
<1>1. DataTypeOK' /\ \A c \in Conns : Kept(c)'
  BY <1>t, <1>u, <1>d, Zenon DEF DataTypeOK, Kept
<1>2. Alone' => Alone
  BY <1>u, Zenon DEF Alone
<1>3. ASSUME NEW c \in Conns, inbox'[c] = inbox[c], sent'[c] = sent[c], peer'[c] = peer[c]
      PROVE  Arriving(c)' /\ (Echoing(c) => Echoing(c)')
  <2>1. ASSUME NEW n PROVE Owes(c, n)' <=> Owes(c, n)
    BY <1>u, <1>d, <1>3, Zenon DEF Owes
  <2>2. Arriving(c)'
    BY <1>t, <1>3 DEF Arriving
  <2>3. ASSUME Echoing(c) PROVE Echoing(c)'
    <3>1. Numbered(echoed'[c], c, 0) /\ Len(echoed'[c]) <= sent'[c]
      BY <1>u, <1>3, <2>3 DEF Echoing
    <3> QED BY <1>d, <1>3, <2>1, <2>3, <3>1, Zenon DEF Echoing
  <2> QED BY <2>2, <2>3, Zenon
<1>4. CASE PeerSends(d)
  <2>1. /\ sent' = [sent EXCEPT ![d] = @ + 1] /\ UNCHANGED peer
        /\ inbox' = [inbox EXCEPT ![d] = Append(@, <<d, sent[d] + 1>>)]
    BY <1>4, Zenon DEF PeerSends
  <2>2. /\ sent'[d] = sent[d] + 1 /\ inbox'[d] = Append(inbox[d], <<d, sent[d] + 1>>)
        /\ \A c \in Conns : c # d => sent'[c] = sent[c] /\ inbox'[c] = inbox[c]
    BY <1>s, <2>1
  <2>3. PICK q : q = inbox[d]
    BY Zenon
  <2>4. PICK r : r = inbox'[d]
    BY Zenon
  <2>5. /\ <<d, sent[d] + 1>> \in Messages /\ q \in Seq(Messages) /\ Len(q) \in Nat
        /\ Len(q) <= sent[d] /\ Numbered(q, d, sent[d] - Len(q))
    <3>1. /\ q \in Seq(Messages) /\ Len(q) \in Nat /\ sent[d] \in Nat /\ d \in Conns
          /\ Len(q) <= sent[d] /\ Numbered(q, d, sent[d] - Len(q))
      BY <1>s, <1>t, <2>3, Zenon DEF Arriving
    <3>2. <<d, sent[d] + 1>> \in Messages
      BY ONLY <3>1 DEF Messages
    <3> QED BY <3>1, <3>2, Zenon
  <2>6. /\ Len(r) = Len(q) + 1 /\ r[Len(q) + 1] = <<d, sent[d] + 1>>
        /\ \A i \in 1 .. Len(q) : r[i] = q[i]
    BY <2>2, <2>3, <2>4, <2>5
  <2>7. /\ sent'[d] - Len(r) = sent[d] - Len(q) /\ Len(r) <= sent'[d]
        /\ (sent[d] - Len(q)) + (Len(q) + 1) = sent[d] + 1
        /\ \A i \in 1 .. Len(r) : i = Len(q) + 1 \/ i \in 1 .. Len(q)
    <3>1. PICK s \in Nat, n \in Nat : s = sent[d] /\ n = Len(q)
      BY <1>s, <2>5, Zenon
    <3>2. sent'[d] = s + 1 /\ Len(r) = n + 1 /\ n <= s
      BY <2>2, <2>5, <2>6, <3>1, Zenon
    <3>3. /\ (s + 1) - (n + 1) = s - n /\ n + 1 <= s + 1 /\ (s - n) + (n + 1) = s + 1
          /\ \A i \in 1 .. n + 1 : i = n + 1 \/ i \in 1 .. n
      BY ONLY s \in Nat, n \in Nat, <3>2
    <3> QED BY <3>1, <3>2, <3>3, Zenon
  <2>8. Numbered(r, d, sent'[d] - Len(r))
    BY <2>5, <2>6, <2>7, Zenon DEF Numbered
  <2>9. Arriving(d)'
    BY <2>4, <2>7, <2>8, Zenon DEF Arriving
  <2>10. ASSUME Echoing(d) PROVE Echoing(d)'
    <3>1. ASSUME NEW n \in Int, Owes(d, n) PROVE Owes(d, n)'
      <4>1. Len(echoed[d]) + n + Len(inbox'[d]) = sent'[d]
        <5>1. Len(echoed[d]) + n + Len(q) = sent[d]
          BY <2>3, <3>1, Zenon DEF Owes
        <5>2. /\ Len(inbox'[d]) = Len(q) + 1 /\ sent'[d] = sent[d] + 1
              /\ Len(echoed[d]) \in Nat /\ Len(q) \in Nat /\ sent[d] \in Nat
          BY <1>s, <2>2, <2>4, <2>5, <2>6, Zenon
        <5>3. Len(echoed[d]) + n + (Len(q) + 1) = sent[d] + 1
          <6>1. PICK a \in Nat : a = Len(echoed[d])
            BY <5>2, Zenon
          <6>2. PICK b \in Nat : b = Len(q)
            BY <5>2, Zenon
          <6>3. PICK s \in Nat : s = sent[d]
            BY <5>2, Zenon
          <6>4. a + n + b = s
            BY <5>1, <6>1, <6>2, <6>3, Zenon
          <6>5. a + n + (b + 1) = s + 1
            BY ONLY <6>4, a \in Nat, n \in Int, b \in Nat, s \in Nat
          <6> QED BY <6>1, <6>2, <6>3, <6>5, Zenon
        <5> QED BY <5>2, <5>3, Zenon
      <4> QED BY <1>u, <1>d, <3>1, <4>1, Zenon DEF Owes
    <3>2. Numbered(echoed'[d], d, 0) /\ Len(echoed'[d]) <= sent'[d]
      <4>1. PICK a \in Nat, s \in Nat : a = Len(echoed[d]) /\ s = sent[d]
        BY <1>s, Zenon
      <4>2. a <= s /\ Numbered(echoed'[d], d, 0) /\ Len(echoed'[d]) = a /\ sent'[d] = s + 1
        BY <1>u, <2>2, <2>10, <4>1, Zenon DEF Echoing
      <4>3. a <= s + 1
        BY ONLY a \in Nat, s \in Nat, <4>2
      <4> QED BY <4>2, <4>3, Zenon
    <3>3. \A n \in Due(d) : n \in Int
      BY <1>t, DueInt, Zenon
    <3>4. 0 \in Int
      OBVIOUS
    <3> QED BY <1>d, <2>1, <2>10, <3>1, <3>2, <3>3, <3>4, Zenon DEF Echoing
  <2>11. \A c \in Conns : Arriving(c)' /\ (Echoing(c) => Echoing(c)')
    BY <1>3, <2>1, <2>2, <2>9, <2>10, Zenon
  <2> QED BY <1>u, <1>1, <1>2, <2>11, Zenon DEF DataInv
<1>5. CASE PeerResets(d)
  <2>1. /\ peer' = [peer EXCEPT ![d] = "reset"] /\ inbox' = [inbox EXCEPT ![d] = <<>>]
        /\ UNCHANGED sent
    BY <1>5, Zenon DEF PeerResets
  <2>2. /\ peer'[d] = "reset" /\ inbox'[d] = <<>>
        /\ \A c \in Conns : c # d => peer'[c] = peer[c] /\ inbox'[c] = inbox[c]
    BY <1>s, <2>1
  <2>3. Arriving(d)'
    <3>1. Len(inbox'[d]) = 0 /\ 1 .. 0 = {} /\ 0 <= sent'[d]
      BY <1>s, <2>1, <2>2
    <3> QED BY <3>1, Zenon DEF Arriving, Numbered
  <2>4. Echoing(d) => Echoing(d)'
    BY <1>u, <2>1, <2>2, Zenon DEF Echoing, Numbered
  <2>5. \A c \in Conns : Arriving(c)' /\ (Echoing(c) => Echoing(c)')
    BY <1>3, <2>1, <2>2, <2>3, <2>4, Zenon
  <2> QED BY <1>u, <1>1, <1>2, <2>5, Zenon DEF DataInv
<1> QED BY <1>4, <1>5, Zenon

\* A program starts: nothing has been received, and nothing is sent.
LEMMA StartData ==
  ASSUME EchoInv, DataInv, NEW s \in Servers, StartServer(s)
  PROVE  DataInv'
<1>u. /\ UNCHANGED <<peer, sent, inbox, echoed, fd, inflight, cqes, buffers, shorted>>
      /\ server = "none" /\ armed' \in {{}, {set_event_accept}, {tcp_connect_awaiter(1)}}
  BY Zenon DEF StartServer, peer_vars
<1>t. /\ DataTypeOK /\ (\A c \in Conns : Arriving(c) /\ Kept(c)) /\ Alone
      /\ armed = {} /\ inflight = {} /\ cqes = <<>>
  BY <1>u, Zenon DEF EchoInv, Begins, DataInv, Alone
<1>1. ASSUME NEW c \in Conns PROVE Due(c) = {} /\ Due(c)' = {}
  <2>1. \A o \in armed' : o.ev # "write"
    BY <1>u, OpFields DEF set_event_accept, tcp_connect_awaiter
  <2>2. Sends(armed, c) = {} /\ Sends(inflight, c) = {} /\ Sends(armed', c) = {}
    BY <1>t, <2>1, Zenon DEF Sends
  <2>3. Received(cqes, c) = {}
    BY <1>t DEF Received
  <2> QED BY <1>u, <2>2, <2>3, Zenon DEF Due
<1>2. DataTypeOK' /\ \A c \in Conns : Arriving(c)' /\ Kept(c)'
  BY <1>u, <1>t, <1>1, Zenon DEF DataTypeOK, Arriving, Numbered, Kept
<1>3. ASSUME NEW c \in Conns, Echoing(c) PROVE Echoing(c)'
  <2>1. 1 .. 0 = {}
    OBVIOUS
  <2>2. Owes(c, 0)' <=> Owes(c, 0)
    BY <1>u, <2>1, Zenon DEF Owes
  <2> QED BY <1>u, <1>1, <1>3, <2>2, Zenon DEF Echoing, Numbered
<1> QED BY <1>u, <1>t, <1>2, <1>3, Zenon DEF DataInv

\* The epoll server reads and writes at once, from a buffer of its own.
LEMMA EpollData ==
  ASSUME EchoInv, DataInv, NEW e \in events, epoll_event(e)
  PROVE  DataInv'
<1> USE EchoAssumption
<1>1. PICK d : d = e.who
  BY Zenon
<1>t. /\ EchoTypeOK /\ DataTypeOK /\ (\A c \in Conns : Arriving(c) /\ Kept(c))
      /\ server = "epoll" /\ armed = {} /\ inflight = {} /\ cqes = <<>> /\ d \in Conns
      /\ UNCHANGED <<server, peer, sent, armed, inflight, cqes>>
  BY <1>1, Zenon DEF EchoInv, Begins, DataInv, epoll_event, loop_vars
<1>2. /\ server # "uring" /\ Alone
  BY <1>t DEF Alone
<1>3. \A c \in Conns : Echoing(c) \/ c \in shorted
  BY <1>2, Zenon DEF DataInv
<1>4. \A c \in Conns : Due(c) = {} /\ Due(c)' = {}
  <2>1. \A c : Sends({}, c) = {}
    BY Zenon DEF Sends
  <2>2. \A c : Received(<<>>, c) = {}
    BY DEF Received
  <2>3. Len(<<>>) = 0
    OBVIOUS
  <2> QED BY <1>t, <2>1, <2>2, Zenon DEF Due
<1>5. CASE e.hup \/ peer[d] = "reset"
  <2>1. UNCHANGED <<inbox, echoed, buffers, shorted>> /\ fd' = [fd EXCEPT ![d] = "closed"]
    BY <1>1, <1>5, Zenon DEF epoll_event
  <2>2. \A c \in Conns : fd'[c] = "none" => fd[c] = "none"
    BY <1>t, <2>1 DEF EchoTypeOK
  <2> QED BY <1>t, <1>4, <2>1, <2>2, DataKeeps, Zenon
<1>6. CASE ~(e.hup \/ peer[d] = "reset")
  <2>1. PICK new : new = Arrived(d)
    BY Zenon
  <2>2. PICK rest : rest = SubSeq(inbox[d], Len(new) + 1, Len(inbox[d]))
    BY Zenon
  <2>3. PICK k \in 0 .. Len(new) :
           /\ echoed' = [echoed EXCEPT ![d] = @ \o SubSeq(new, 1, k)]
           /\ k # Len(new) => shorted' = shorted \cup {d}
           /\ k = Len(new) => UNCHANGED shorted
    BY <1>1, <1>6, <2>1, Zenon DEF epoll_event
  <2>4. /\ buffers' = [buffers EXCEPT ![0] = new] /\ inbox' = [inbox EXCEPT ![d] = rest]
        /\ UNCHANGED fd
    BY <1>1, <1>6, <2>1, <2>2, Zenon DEF epoll_event
  <2>5. /\ new \in Seq(Messages) /\ Len(new) \in 0 .. Len(inbox[d])
        /\ Numbered(new, d, sent[d] - Len(inbox[d]))
        /\ rest \in Seq(Messages) /\ Len(rest) = Len(inbox[d]) - Len(new)
        /\ Numbered(rest, d, sent[d] - Len(rest))
    BY <1>t, <2>1, <2>2, ArrivedIs, Zenon
  <2>6. PICK out : out = SubSeq(new, 1, k)
    BY Zenon
  <2>7. out \in Seq(Messages) /\ Len(out) = k /\ \A i \in 1 .. k : out[i] = new[i]
    BY <2>5, <2>6, FrontIs, Zenon
  <2>8. /\ echoed[d] \in Seq(Messages) /\ Len(echoed[d]) \in Nat /\ sent[d] \in Nat
        /\ Len(inbox[d]) \in Nat /\ Len(new) \in Nat /\ k \in Nat
        /\ inbox'[d] = rest /\ \A c \in Conns : c # d => inbox'[c] = inbox[c]
    BY <1>t, <2>4, <2>5 DEF DataTypeOK, EchoTypeOK, Messages
  <2>9. echoed'[d] = echoed[d] \o out /\ \A c \in Conns : c # d => echoed'[c] = echoed[c]
    BY <1>t, <2>3, <2>6 DEF DataTypeOK
  <2>10. echoed'[d] \in Seq(Messages) /\ Len(echoed'[d]) = Len(echoed[d]) + k
    BY <2>7, <2>8, <2>9, ConcatIs, Zenon
  <2>11. DataTypeOK'
    <3>1. echoed' \in [Conns -> Seq(Messages)]
      BY <1>t, <2>3, <2>9, <2>10 DEF DataTypeOK
    <3>2. buffers' \in [Socks -> Seq(Messages)]
      BY <1>t, <2>4, <2>5, Zenon DEF DataTypeOK
    <3> QED BY <3>1, <3>2, Zenon DEF DataTypeOK
  <2>12. ASSUME NEW c \in Conns PROVE Arriving(c)' /\ Kept(c)'
    <3>1. CASE c = d
      <4>1. Len(rest) <= sent[d]
        BY <1>t, <2>5, <2>8 DEF Arriving
      <4> QED BY <1>t, <1>4, <2>5, <2>8, <3>1, <4>1, Zenon DEF Arriving, Kept
    <3>2. CASE c # d
      BY <1>t, <1>4, <2>8, <3>2, Zenon DEF Arriving, Kept
    <3> QED BY <3>1, <3>2, Zenon
  <2>13. ASSUME NEW c \in Conns \ shorted' PROVE Echoing(c)'
    <3>0. 1 .. 0 = {} /\ 0 \in Int
      OBVIOUS
    <3>1. c \in Conns /\ Echoing(c)
      BY <1>3, <2>3, <2>13, Zenon
    <3>2. CASE c # d
      <4>1. Owes(c, 0)' <=> Owes(c, 0)
        BY <1>t, <2>8, <2>9, <3>0, <3>1, <3>2, Zenon DEF Owes
      <4>2. Numbered(echoed'[c], c, 0) /\ Len(echoed'[c]) <= sent'[c] /\ peer'[c] = peer[c]
        BY <1>t, <2>9, <3>1, <3>2, Zenon DEF Echoing
      <4> QED BY <1>4, <3>1, <4>1, <4>2, Zenon DEF Echoing
    <3>3. CASE c = d
      <4>1. k = Len(new)
        BY <2>3, <2>13, <3>3, Zenon
      <4>2. Numbered(echoed[d], d, 0) /\ Owes(d, 0)
        BY <1>4, <1>6, <3>1, <3>3, Zenon DEF Echoing
      <4>3. Len(echoed[d]) + 0 + Len(inbox[d]) = sent[d]
        BY <4>2, Zenon DEF Owes
      <4>4. /\ sent[d] - Len(inbox[d]) = 0 + Len(echoed[d])
            /\ Len(echoed'[d]) <= sent[d] /\ Len(echoed'[d]) + 0 + Len(rest) = sent[d]
        <5>0. PICK s \in Nat : s = sent[d]
          BY <2>8, Zenon
        <5>1. PICK a \in Nat : a = Len(echoed[d])
          BY <2>8, Zenon
        <5>2. PICK i \in Nat : i = Len(inbox[d])
          BY <2>8, Zenon
        <5>3. PICK m \in 0 .. i : m = Len(new)
          BY <2>5, <5>2, Zenon
        <5>4. s - i = 0 + a /\ a + m <= s /\ (a + m) + 0 + (i - m) = s
          <6>1. a + 0 + i = s
            BY <4>3, <5>0, <5>1, <5>2, Zenon
          <6> QED BY ONLY <6>1, a \in Nat, i \in Nat, m \in 0 .. i, s \in Nat
        <5> QED BY <2>5, <2>10, <4>1, <5>0, <5>1, <5>2, <5>3, <5>4, Zenon
      <4>5. Numbered(out, d, 0 + Len(echoed[d]))
        BY <2>5, <2>7, <4>1, <4>4, Zenon DEF Numbered
      <4>6. Numbered(echoed'[d], d, 0)
        BY <2>7, <2>8, <2>9, <3>0, <4>2, <4>5, NumberedConcat, Zenon
      <4>7. Owes(d, 0)'
        BY <1>t, <2>8, <3>0, <4>4, Zenon DEF Owes
      <4> QED BY <1>t, <1>4, <3>3, <4>4, <4>6, <4>7, Zenon DEF Echoing
    <3> QED BY <3>2, <3>3, Zenon
  <2> QED BY <2>11, <2>12, <2>13, Zenon DEF DataInv
<1> QED BY <1>5, <1>6, Zenon

LEMMA DataStarts == EchoInit => DataInv
<1> USE EchoAssumption
<1> SUFFICES ASSUME EchoInit PROVE DataInv
  BY Zenon
<1>1. /\ \A c \in Conns : inbox[c] = <<>> /\ echoed[c] = <<>> /\ sent[c] = 0
      /\ armed = {} /\ inflight = {} /\ cqes = <<>>
      /\ echoed = [c \in Conns |-> <<>>] /\ buffers = [b \in Socks |-> <<>>]
  BY Zenon DEF EchoInit, Socks
<1>2. Len(<<>>) = 0 /\ 1 .. 0 = {} /\ 0 + 0 + 0 = 0 /\ 0 <= 0 /\ <<>> \in Seq(Messages)
  OBVIOUS
<1>3. DataTypeOK
  BY <1>1, <1>2, Zenon DEF DataTypeOK
<1>4. ASSUME NEW c \in Conns PROVE Arriving(c) /\ Due(c) = {}
  <2>1. Arriving(c)
    BY <1>1, <1>2, Zenon DEF Arriving, Numbered
  <2>2. Sends({}, c) = {} /\ Received(<<>>, c) = {}
    BY <1>2, Zenon DEF Sends, Received
  <2> QED BY <1>1, <2>1, <2>2, Zenon DEF Due
<1>5. ASSUME NEW c \in Conns PROVE Echoing(c)
  <2>1. Owes(c, 0)
    BY <1>1, <1>2, Zenon DEF Owes
  <2> QED BY <1>1, <1>2, <1>4, <2>1, Zenon DEF Echoing, Numbered
<1> QED BY <1>3, <1>4, <1>5, Zenon DEF DataInv, Kept

LEMMA DataStep ==
  ASSUME EchoInv, DataInv, [EchoNext]_echo_vars
  PROVE  DataInv'
<1>c. 1 \in Conns
  BY EchoAssumption DEF Conns
<1>1. ASSUME NEW s \in Servers, StartServer(s) PROVE DataInv'
  BY <1>1, StartData, Zenon
<1>2. CASE LoopSteps
  BY <1>2, <1>c, SubmitData, OthersData, HandlersData, EpollData, Zenon DEF LoopSteps
<1>3. CASE PeerSteps
  BY <1>3, OthersData, PeerData, Zenon DEF PeerSteps
<1>4. CASE KernelSteps
  BY <1>4, <1>c, KernelData, ReadsData, WritesData, Zenon DEF KernelSteps
<1>5. CASE UNCHANGED echo_vars
  BY <1>5, <1>c, OthersData, Zenon
<1> QED BY <1>1, <1>2, <1>3, <1>4, <1>5, Zenon DEF EchoNext

\* The numbers of the messages spell the prefix.
LEMMA DataExact == EchoInv /\ DataInv => EchoExact
<1> SUFFICES ASSUME EchoInv, DataInv,
                    server = "uring" => AtMostOne({c \in Conns : fd[c] # "none"}),
                    NEW d \in Conns \ shorted
             PROVE  Prefix(echoed[d], Sent(d))
  BY Zenon DEF EchoExact
<1>1. Alone
  BY Zenon DEF Alone, AtMostOne
<1>2. Echoing(d) /\ d \in Conns /\ echoed[d] \in Seq(Messages) /\ sent[d] \in Nat
  BY <1>1 DEF DataInv, DataTypeOK, EchoInv, EchoTypeOK
<1>3. PICK s : s = echoed[d]
  BY Zenon
<1>4. PICK n : n = sent[d]
  BY Zenon
<1>5. /\ s \in Seq(Messages) /\ n \in Nat /\ Len(s) \in Nat /\ Len(s) <= n
      /\ \A k \in 1 .. Len(s) : s[k] = <<d, 0 + k>>
  BY <1>2, <1>3, <1>4 DEF Echoing, Numbered
<1>6. PICK t : t = [k \in 1 .. n |-> <<d, k>>]
  BY Zenon
<1>7. /\ t \in Seq(Messages) /\ Len(t) = n /\ \A k \in 1 .. n : t[k] = <<d, k>>
  <2>1. t \in [1 .. n -> Messages]
    BY <1>2, <1>5, <1>6 DEF Messages
  <2> QED BY <1>5, <1>6, <2>1
<1>8. PICK r : r = SubSeq(t, 1, Len(s))
  BY Zenon
<1>9. r \in Seq(Messages) /\ Len(r) = Len(s) /\ \A k \in 1 .. Len(s) : r[k] = t[k]
  <2>1. Len(s) \in 0 .. Len(t)
    BY <1>5, <1>7
  <2> QED BY <1>7, <1>8, <2>1, FrontIs, Zenon
<1>10. \A k \in 1 .. Len(s) : r[k] = s[k]
  <2>1. \A k \in 1 .. Len(s) : k \in 1 .. n /\ 0 + k = k
    BY <1>5
  <2> QED BY <1>5, <1>7, <1>9, <2>1, Zenon
<1>11. r = s
  BY <1>5, <1>9, <1>10, ListsEqual
<1> QED BY <1>3, <1>4, <1>5, <1>6, <1>7, <1>8, <1>11, Zenon DEF Prefix, Sent

\* What a peer gets back is a prefix of what it sent, for any number of connections, messages
\* and buffer places, over every interleaving of recv, send, handler and peer: no message is
\* lost, repeated, reordered or given to another peer, unless a short send, which no server
\* continues, has cut it. The uring servers, with their one buffer, promise it for a single
\* connection (tcp_echo_server.cpp:7-21, echo_server.cpp:114-137, epoll_server_bench.cpp:98-129).
THEOREM EchoExactCorrect == EchoSpec => []EchoExact
<1>1. EchoInit => EchoInv /\ DataInv
  BY EchoStarts, DataStarts, Zenon
<1>2. EchoInv /\ DataInv /\ [EchoNext]_echo_vars => (EchoInv /\ DataInv)'
  BY EchoStep, DataStep, Zenon
<1>3. EchoInv /\ DataInv => EchoExact
  BY DataExact, Zenon
<1> QED BY <1>1, <1>2, <1>3, PTL DEF EchoSpec
=============================================================================
