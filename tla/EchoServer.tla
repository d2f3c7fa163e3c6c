----------------------------- MODULE EchoServer -----------------------------
(***************************************************************************)
(* The echo servers of the repository and the TCP classes under them.      *)
(*   "uring"   the loop of io_uring/example/echo_server.cpp, also          *)
(*             benchmark/base_model/uring_server_bench.cpp;                *)
(*   "epoll"   benchmark/base_model/epoll_server_bench.cpp;                *)
(*   "coro"    the coroutines of examples/tcp_echo_server.cpp and those of *)
(*             benchmark/tinycoro_model, which differ in one test;         *)
(*   "client"  examples/tcp_echo_client.cpp, a session over a connect.     *)
(* The coroutines use tcp_server, tcp_client and tcp_connector (tcp.hpp,   *)
(* tcp.cpp), which may name a socket by a slot of the engine's registered  *)
(* descriptors (base_io_type.hpp, marked_buffer.hpp, uring_proxy.hpp).     *)
(*                                                                         *)
(* A connection is a number, 0 is the listening socket. What a peer sends  *)
(* is a sequence of messages; a read takes the messages that have arrived, *)
(* BufCap at most, a send may stop after any of them. io_uring completes   *)
(* operations in any order, and touches a buffer when it completes them.   *)
(* Engine and scheduler are reduced to the loop they run: submit, wait,    *)
(* handle the completions one by one.                                      *)
(***************************************************************************)
EXTENDS Integers, Sequences

CONSTANTS MaxConns,  \* bound: connections
          MaxMsgs,   \* bound: messages the first peer sends, each other one less
          BufCap,    \* BUFFER_LENGTH, BUFFLEN, sizeof(buff), in messages
          FixFds,    \* config::kFixFdArraySize, 0 when config::kEnableFixfd is off
          MaxFaults  \* bound: resets, short sends, failing accepts and connects

ASSUME EchoAssumption ==
    /\ MaxConns \in Nat \ {0} /\ MaxMsgs \in Nat /\ BufCap \in Nat \ {0}
    /\ FixFds \in Nat /\ MaxFaults \in Nat

VARIABLES server,              \* which program runs, or "none"
          peer,                \* [Conns -> PeerStates]
          sent, inbox, echoed, \* per connection: messages sent, arrived, got back
          fd,                  \* [Conns -> {"none", "open", "closed"}]
          armed,               \* SQEs prepared
          inflight,            \* operations the kernel has
          cqes, nready,        \* the completion queue, the rest of the batch in work
          buffers,             \* [0 .. MaxConns -> Seq(message)]
          spawned,             \* sessions submitted to the scheduler
          edges, events,       \* epoll: descriptors made ready, events of the last epoll_wait
          que, slot, table,    \* marked_buffer: free slots, who has which, what is registered
          shorted, faults

peer_vars == <<peer, sent, inbox, echoed>>
loop_vars == <<armed, inflight, cqes, nready>>
slot_vars == <<que, slot, table>>
echo_vars == <<server, peer_vars, fd, loop_vars, buffers, spawned, edges, events,
               slot_vars, shorted, faults>>

Conns      == 1 .. MaxConns
Listener   == 0
NullFd     == -1     \* /dev/null in the registered table
NoSlot     == 0
Failed     == -1     \* a negative result
Servers    == {"uring", "epoll", "coro", "client"}
PeerStates == {"away", "connecting", "open", "closed", "reset"}
Coroutines == server \in {"coro", "client"}

EchoInit ==
    /\ server = "none"
    /\ peer = [c \in Conns |-> "away"] /\ sent = [c \in Conns |-> 0]
    /\ inbox = [c \in Conns |-> <<>>] /\ echoed = [c \in Conns |-> <<>>]
    /\ fd = [c \in Conns |-> "none"]
    /\ armed = {} /\ inflight = {} /\ cqes = <<>> /\ nready = 0
    /\ buffers = [b \in 0 .. MaxConns |-> <<>>] /\ spawned = {} /\ edges = {} /\ events = {}
    /\ que = [i \in 1 .. FixFds |-> i]
    /\ slot = [c \in 0 .. MaxConns |-> NoSlot] /\ table = [s \in 1 .. FixFds |-> NullFd]
    /\ shorted = {} /\ faults = 0

-----------------------------------------------------------------------------
(* Registered descriptors: fixed_fds over marked_buffer. The item is      *)
(* borrowed when the object is constructed.                                *)

\* fixed_fds() and assign(): borrow() the first free slot, if there is one, and put the
\* socket into the registered table.
assign(c) ==
    IF que = <<>> THEN UNCHANGED slot_vars
    ELSE /\ que' = Tail(que)
         /\ slot' = [slot EXCEPT ![c] = Head(que)]
         /\ table' = [table EXCEPT ![Head(que)] = c]

\* Mutant: the item stays valid, so that the destructor returns the slot once more.
return_backTwice(c) ==
    IF slot[c] = NoSlot THEN UNCHANGED slot_vars
    ELSE /\ que' = que \o <<slot[c], slot[c]>>
         /\ slot' = [slot EXCEPT ![c] = NoSlot]
         /\ table' = [table EXCEPT ![slot[c]] = NullFd]

\* return_back() and back_fixed_fd(): the null descriptor goes back into the table.
return_back(c) ==
    IF slot[c] = NoSlot THEN UNCHANGED slot_vars
    ELSE /\ que' = Append(que, slot[c])
         /\ slot' = [slot EXCEPT ![c] = NoSlot]
         /\ table' = [table EXCEPT ![slot[c]] = NullFd]

-----------------------------------------------------------------------------
(* Operations: set_event_accept, set_event_recv, set_event_send, and the  *)
(* awaiters that tcp_server, tcp_connector and tcp_client return. "to" is  *)
(* the socket the operation reaches: the kernel looks a slot up when the   *)
(* operation is submitted.                                                 *)

Op(ev, c, s, n) == [ev |-> ev, who |-> c, idx |-> s, to |-> c, n |-> n]

set_event_accept     == Op("accept", Listener, NoSlot, 0)
set_event_recv(c)    == Op("read", c, NoSlot, 0)
set_event_send(c, n) == Op("write", c, NoSlot, n)
tcp_accept_awaiter(s)      == Op("accept", Listener, s, 0)
tcp_read_awaiter(c, s)     == Op("read", c, s, 0)
tcp_write_awaiter(c, s, n) == Op("write", c, s, n)
tcp_close_awaiter(c)       == Op("close", c, NoSlot, 0)
tcp_connect_awaiter(c)     == Op("connect", c, NoSlot, 0)

\* io_uring_submit, once the batch is done.
SubmitOps ==
    /\ armed # {} /\ nready = 0
    /\ inflight' = inflight \cup
            {[o EXCEPT !.to = IF o.idx = NoSlot THEN o.who ELSE table[o.idx]] : o \in armed}
    /\ armed' = {}
    /\ UNCHANGED <<server, peer_vars, fd, cqes, nready, buffers, spawned, edges, events,
                   slot_vars, shorted, faults>>

BatchSize == Len(cqes)

\* io_uring_wait_cqe and io_uring_peek_batch_cqe; cq_advance comes with the last one.
PeekCqes ==
    /\ armed = {} /\ nready = 0 /\ cqes # <<>>
    /\ nready' = BatchSize
    /\ UNCHANGED <<server, peer_vars, fd, armed, inflight, cqes, buffers, spawned, edges,
                   events, slot_vars, shorted, faults>>

-----------------------------------------------------------------------------
(* The programs start.                                                     *)

StartServer(s) ==
    /\ server = "none" /\ server' = s
    /\ UNCHANGED <<peer_vars, fd, inflight, cqes, nready, buffers, spawned, edges, events,
                   slot_vars, shorted, faults>>
    /\ armed' = CASE s = "uring"  -> {set_event_accept}
                  [] s = "client" -> {tcp_connect_awaiter(1)}
                  [] OTHER        -> {}

\* The coroutine server(port): the constructor of tcp_server, then the first accept.
tcp_server ==
    /\ server = "coro" /\ Listener \notin spawned
    /\ spawned' = spawned \cup {Listener}
    /\ assign(Listener)
    /\ armed' = armed \cup {tcp_accept_awaiter(slot'[Listener])}
    /\ UNCHANGED <<server, peer_vars, fd, inflight, cqes, nready, buffers, edges, events,
                   shorted, faults>>

-----------------------------------------------------------------------------
(* The network and the kernel. A peer that has closed has sent its FIN and *)
(* still reads; a reset ends both directions.                              *)

net_unchanged == UNCHANGED <<server, fd, loop_vars, buffers, spawned, events, slot_vars, shorted>>

PeerConnects(c) ==
    /\ server \notin {"none", "client"} /\ peer[c] = "away"
    /\ \A d \in 1 .. c - 1 : peer[d] # "away"
    /\ peer' = [peer EXCEPT ![c] = "connecting"]
    /\ UNCHANGED <<sent, inbox, echoed, edges, faults>> /\ net_unchanged

\* The epoll server may get one message more: a buffer full, and a rest.
PeerSends(c) ==
    /\ peer[c] = "open"
    /\ sent[c] <= (IF server = "epoll" THEN MaxMsgs + 1 ELSE MaxMsgs) - c
    /\ sent' = [sent EXCEPT ![c] = @ + 1]
    /\ inbox' = [inbox EXCEPT ![c] = Append(@, <<c, sent[c] + 1>>)]
    /\ edges' = IF server = "epoll" THEN edges \cup {c} ELSE edges
    /\ UNCHANGED <<peer, echoed, faults>> /\ net_unchanged

PeerCloses(c) ==
    /\ peer[c] = "open"
    /\ peer' = [peer EXCEPT ![c] = "closed"]
    /\ edges' = IF server = "epoll" THEN edges \cup {c} ELSE edges
    /\ UNCHANGED <<sent, inbox, echoed, faults>> /\ net_unchanged

PeerResets(c) ==
    /\ peer[c] \in {"open", "closed"} /\ faults < MaxFaults /\ faults' = faults + 1
    /\ peer' = [peer EXCEPT ![c] = "reset"]
    /\ inbox' = [inbox EXCEPT ![c] = <<>>]
    /\ edges' = IF server = "epoll" THEN edges \cup {c} ELSE edges
    /\ UNCHANGED <<sent, echoed>> /\ net_unchanged

Least(a, b)   == IF a < b THEN a ELSE b
Arrived(c)    == SubSeq(inbox[c], 1, Least(BufCap, Len(inbox[c])))
Readable(c)   == inbox[c] # <<>> \/ peer[c] \in {"closed", "reset"}

\* A recv of k messages overwrites the first k places of its buffer.
Overwrite(b, new) == buffers' = [buffers EXCEPT ![b] = new \o SubSeq(@, Len(new) + 1, Len(@))]

\* Mutant: one buffer for all sessions.
BufferShared(c) == Listener

\* The uring loop has one buffer for all connections, a session has its own.
Buffer(c) == IF server = "uring" THEN 0 ELSE c

\* An operation completes with a result.
Completes(o, res) ==
    /\ o \in inflight /\ inflight' = inflight \ {o}
    /\ cqes' = Append(cqes, [ev |-> o.ev, who |-> o.who, res |-> res])
    /\ UNCHANGED <<server, sent, armed, nready, spawned, edges, events, slot_vars>>

KernelConnects(o, c) ==
    /\ \/ o.ev = "accept" /\ o.to = Listener /\ peer[c] = "connecting"
       \/ o.ev = "connect" /\ o.to = c /\ peer[c] = "away"
    /\ peer' = [peer EXCEPT ![c] = "open"] /\ fd' = [fd EXCEPT ![c] = "open"]
    /\ Completes(o, c)
    /\ UNCHANGED <<inbox, echoed, buffers, shorted, faults>>

KernelFails(o) ==
    /\ \/ o.ev \in {"accept", "connect"} /\ faults < MaxFaults /\ faults' = faults + 1
       \/ /\ o.ev \in {"read", "write"} /\ UNCHANGED faults
          /\ IF o.to \in Conns THEN fd[o.to] # "open" \/ peer[o.to] = "reset" ELSE TRUE
       \/ o.ev = "close" /\ fd[o.to] # "open" /\ UNCHANGED faults
    /\ Completes(o, Failed)
    /\ UNCHANGED <<peer, inbox, echoed, fd, buffers, shorted>>

KernelReads(o) ==
    /\ o.ev = "read" /\ o.to \in Conns /\ fd[o.to] = "open"
    /\ Readable(o.to) /\ peer[o.to] # "reset"
    /\ Overwrite(Buffer(o.who), Arrived(o.to))
    /\ inbox' = [inbox EXCEPT ![o.to] = SubSeq(@, Len(Arrived(o.to)) + 1, Len(@))]
    /\ Completes(o, Len(Arrived(o.to)))
    /\ UNCHANGED <<peer, echoed, fd, shorted, faults>>

\* n messages of the buffer are to go out, k of them do.
Delivers(c, b, n, k) ==
    /\ echoed' = [echoed EXCEPT ![c] = @ \o SubSeq(buffers[b], 1, k)]
    /\ IF k = n THEN UNCHANGED <<shorted, faults>>
       ELSE faults < MaxFaults /\ faults' = faults + 1 /\ shorted' = shorted \cup {c}

KernelWrites(o, k) ==
    /\ o.ev = "write" /\ o.to \in Conns /\ fd[o.to] = "open" /\ peer[o.to] # "reset"
    /\ k \in 1 .. o.n
    /\ Delivers(o.to, Buffer(o.who), o.n, k)
    /\ Completes(o, k)
    /\ UNCHANGED <<peer, inbox, fd, buffers>>

KernelCloses(o) ==
    /\ o.ev = "close" /\ fd[o.to] = "open"
    /\ fd' = [fd EXCEPT ![o.to] = "closed"]
    /\ Completes(o, 0)
    /\ UNCHANGED <<peer, inbox, echoed, buffers, shorted, faults>>

KernelSteps ==
    \E o \in inflight :
        \/ \E c \in Conns : KernelConnects(o, c)
        \/ KernelFails(o) \/ KernelReads(o) \/ KernelCloses(o)
        \/ \E k \in 1 .. o.n : KernelWrites(o, k)

-----------------------------------------------------------------------------
(* Completions are handled one by one.                                     *)

Handles(ev) == nready > 0 /\ Head(cqes).ev = ev
Cqe         == Head(cqes)

CqeDone ==
    /\ nready' = nready - 1 /\ cqes' = Tail(cqes)
    /\ UNCHANGED <<server, peer_vars, inflight, buffers, edges, events, shorted, faults>>

\* main of the uring servers. The result of an accept is used unseen: a recv on a negative
\* descriptor fails, and a failed recv is dropped.
uring_accept ==
    /\ server = "uring" /\ Handles("accept") /\ CqeDone
    /\ armed' = armed \cup {set_event_accept, set_event_recv(Cqe.res)}
    /\ UNCHANGED <<fd, spawned, slot_vars>>

uring_read ==
    /\ server = "uring" /\ Handles("read") /\ CqeDone
    /\ \/ Cqe.res = 0 /\ fd' = [fd EXCEPT ![Cqe.who] = "closed"] /\ UNCHANGED armed
       \/ Cqe.res > 0 /\ armed' = armed \cup {set_event_send(Cqe.who, Cqe.res)} /\ UNCHANGED fd
       \/ Cqe.res < 0 /\ UNCHANGED <<armed, fd>>
    /\ UNCHANGED <<spawned, slot_vars>>

uring_write ==
    /\ server = "uring" /\ Handles("write") /\ CqeDone
    /\ armed' = armed \cup {set_event_recv(Cqe.who)}
    /\ UNCHANGED <<fd, spawned, slot_vars>>

\* The coroutines: a completion's callback submits the handle, and the coroutine goes on to
\* its next co_await. server(port) spawns a session per connection; a failed accept ends it,
\* and the destructor of tcp_server returns its slot.
server_accepts ==
    /\ server = "coro" /\ Handles("accept") /\ CqeDone
    /\ IF Cqe.res > 0
       THEN /\ spawned' = spawned \cup {Cqe.res}
            /\ armed' = armed \cup {tcp_accept_awaiter(slot[Listener])}
            /\ UNCHANGED slot_vars
       ELSE return_back(Listener) /\ UNCHANGED <<spawned, armed>>
    /\ UNCHANGED fd

\* A session starts: the constructor of tcp_connector, then the first read.
session(c) ==
    /\ c \in spawned /\ c # Listener
    /\ spawned' = spawned \ {c}
    /\ assign(c)
    /\ armed' = armed \cup {tcp_read_awaiter(c, slot'[c])}
    /\ UNCHANGED <<server, peer_vars, fd, inflight, cqes, nready, buffers, edges, events,
                   shorted, faults>>

\* client(): the socket of a successful connect becomes a session. With assertions compiled
\* out a failed one does too, on a descriptor that was never open.
client_connects ==
    /\ server = "client" /\ Handles("connect") /\ CqeDone
    /\ assign(Cqe.who)
    /\ armed' = armed \cup {tcp_read_awaiter(Cqe.who, slot'[Cqe.who])}
    /\ UNCHANGED <<fd, spawned>>

\* Mutants: the loop reads once more after close(), or forgets the co_await.
closeAndRead(c) ==
    return_back(c) /\ armed' = armed \cup {tcp_close_awaiter(c), tcp_read_awaiter(c, NoSlot)}
closeSlotOnly(c) == return_back(c) /\ UNCHANGED armed

\* tcp_connector::close(): the slot goes back before the close is submitted, by the
\* original descriptor.
close(c) == return_back(c) /\ armed' = armed \cup {tcp_close_awaiter(c)}

session_read ==
    /\ Coroutines /\ Handles("read") /\ CqeDone
    /\ IF Cqe.res > 0
       THEN /\ armed' = armed \cup {tcp_write_awaiter(Cqe.who, slot[Cqe.who], Cqe.res)}
            /\ UNCHANGED slot_vars
       ELSE close(Cqe.who)
    /\ UNCHANGED <<fd, spawned>>

\* Mutant: a session ends after its first write.
EndsOnAny(res) == {TRUE}

\* Whether a session ends after a write: that of the benchmarks does when the write failed,
\* that of the example and of the client does not look.
EndsOn(res) == IF res <= 0 THEN BOOLEAN ELSE {FALSE}

session_write ==
    /\ Coroutines /\ Handles("write") /\ CqeDone
    /\ \E ends \in EndsOn(Cqe.res) :
          IF ends THEN close(Cqe.who)
          ELSE /\ armed' = armed \cup {tcp_read_awaiter(Cqe.who, slot[Cqe.who])}
               /\ UNCHANGED slot_vars
    /\ UNCHANGED <<fd, spawned>>

\* The session ends; ~fixed_fds() finds its item invalid.
session_close ==
    /\ Coroutines /\ Handles("close") /\ CqeDone
    /\ return_back(Cqe.who)
    /\ UNCHANGED <<armed, fd, spawned>>

-----------------------------------------------------------------------------
(* The epoll server. The listening socket is level triggered, the others   *)
(* are edge triggered: an edge is reported if it still holds. A call of    *)
(* epoll_wait that fails ends the process and is left out.                 *)

epoll_wait ==
    LET ready == {c \in edges : fd[c] = "open" /\ Readable(c)}
        conn  == {Listener : c \in {d \in Conns : peer[d] = "connecting"}} IN
    /\ server = "epoll" /\ events = {} /\ ready \cup conn # {}
    /\ events' = {[who |-> c, hup |-> c # Listener /\ peer[c] = "reset"] : c \in ready \cup conn}
    /\ edges' = edges \ {c \in Conns : fd[c] = "open"}
    /\ UNCHANGED <<server, peer_vars, fd, loop_vars, buffers, spawned, slot_vars, shorted, faults>>

\* accept(), which may fail: the connection then waits for the next epoll_wait. The fcntl
\* calls on the new descriptor do not fail.
epoll_accept(e, c) ==
    /\ e \in events /\ e.who = Listener /\ peer[c] = "connecting"
    /\ events' = events \ {e}
    /\ \/ /\ peer' = [peer EXCEPT ![c] = "open"] /\ fd' = [fd EXCEPT ![c] = "open"]
          /\ UNCHANGED faults
       \/ /\ faults < MaxFaults /\ faults' = faults + 1
          /\ UNCHANGED <<peer, fd>>
    /\ UNCHANGED <<server, sent, inbox, echoed, loop_vars, buffers, spawned, edges,
                   slot_vars, shorted>>

\* EPOLLERR or EPOLLHUP, or a read that fails: the connection is closed. Otherwise one read
\* and one write; a read of zero bytes is written back and nothing else.
epoll_event(e) ==
    /\ e \in events /\ e.who \in Conns /\ events' = events \ {e}
    /\ IF e.hup \/ peer[e.who] = "reset"
       THEN fd' = [fd EXCEPT ![e.who] = "closed"] /\ UNCHANGED <<inbox, echoed, buffers, shorted, faults>>
       ELSE /\ buffers' = [buffers EXCEPT ![0] = Arrived(e.who)]
            /\ inbox' = [inbox EXCEPT ![e.who] = SubSeq(@, Len(Arrived(e.who)) + 1, Len(@))]
            /\ \E k \in 0 .. Len(Arrived(e.who)) :
                  /\ echoed' = [echoed EXCEPT ![e.who] = @ \o SubSeq(Arrived(e.who), 1, k)]
                  /\ IF k = Len(Arrived(e.who)) THEN UNCHANGED <<shorted, faults>>
                     ELSE faults < MaxFaults /\ faults' = faults + 1 /\ shorted' = shorted \cup {e.who}
            /\ UNCHANGED fd
    /\ UNCHANGED <<server, peer, sent, loop_vars, spawned, edges, slot_vars>>

-----------------------------------------------------------------------------

LoopSteps ==
    \/ SubmitOps \/ PeekCqes
    \/ uring_accept \/ uring_read \/ uring_write
    \/ tcp_server \/ server_accepts \/ client_connects
    \/ \E c \in Conns : session(c)
    \/ session_read \/ session_write \/ session_close
    \/ epoll_wait \/ \E e \in events : epoll_event(e) \/ \E c \in Conns : epoll_accept(e, c)

PeerSteps ==
    \E c \in Conns : PeerConnects(c) \/ PeerSends(c) \/ PeerCloses(c) \/ PeerResets(c)

EchoNext ==
    \/ \E s \in Servers : StartServer(s)
    \/ LoopSteps \/ PeerSteps \/ KernelSteps

\* The process runs its loop, and the kernel completes what can complete; a fault or a short
\* send never has to happen.
EchoFairness ==
    /\ WF_echo_vars(LoopSteps)
    /\ WF_echo_vars(\E o \in inflight : o.ev \in {"read", "write", "close"} /\
            (KernelReads(o) \/ KernelWrites(o, o.n) \/ KernelCloses(o) \/ KernelFails(o)))

-----------------------------------------------------------------------------
(* Properties.                                                             *)

Sent(c) == [k \in 1 .. sent[c] |-> <<c, k>>]
Prefix(s, t) == Len(s) <= Len(t) /\ s = SubSeq(t, 1, Len(s))
AtMostOne(S) == \A x, y \in S : x = y

\* What a peer gets back is what it sent, in order and without gaps, unless a short send,
\* which no server continues, cut it. The uring servers keep this promise for a single
\* connection only: they receive from all connections into one buffer.
EchoExact ==
    (server = "uring" => AtMostOne({c \in Conns : fd[c] # "none"})) =>
        \A c \in Conns \ shorted : Prefix(echoed[c], Sent(c))

\* The operations on c that are prepared, in the kernel, or completed and not yet handled.
Outstanding(c) == {o \in armed \cup inflight : o.who = c}
Completed(c)   == {i \in DOMAIN cqes : cqes[i].who = c /\ cqes[i].ev # "accept"}

\* A connection has at most one operation under way, so that its buffer is never read and
\* written at once, and none once its descriptor is closed and may be given out again.
OneOperationEach ==
    \A c \in Conns :
        /\ AtMostOne(Outstanding(c)) /\ AtMostOne(Completed(c))
        /\ Outstanding(c) = {} \/ Completed(c) = {}
        /\ (fd[c] = "closed" => Outstanding(c) = {})

\* A slot of the registered table is free or lent once, names the socket it was lent for,
\* and an operation that goes through it reaches that socket.
SlotsExact ==
    /\ \A i, j \in DOMAIN que : que[i] = que[j] => i = j
    /\ \A s \in 1 .. FixFds :
          LET users == {c \in 0 .. MaxConns : slot[c] = s} IN
          IF \E i \in DOMAIN que : que[i] = s THEN users = {} /\ table[s] = NullFd
          ELSE users = {table[s]}
    /\ \A o \in inflight : o.to = o.who

\* What a peer sent before it closed comes back, unless it resets or a send was short: time
\* and again no closed connection is owed anything. The epoll server reads once per edge:
\* what exceeds its buffer may stay unread.
EverythingEchoed ==
    []<>(\A c \in Conns : (peer[c] = "closed" /\ (server = "epoll" => sent[c] <= BufCap)) =>
            (Len(echoed[c]) = sent[c] \/ c \in shorted))

\* The endings of a connection that make a server close its descriptor: the uring loop drops
\* a failed recv, the epoll loop takes the end of the stream for an empty message.
Notices == CASE server = "uring" -> {"closed"} [] server = "epoll" -> {"reset"}
             [] OTHER -> {"closed", "reset"}

\* Descriptors whose peers have gone are closed, where the server notices: time and again
\* none is left.
DescriptorsReturned == []<>(\A c \in Conns : fd[c] = "open" => peer[c] \notin Notices)
=============================================================================
