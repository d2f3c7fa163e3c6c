------------------------------- MODULE Engine -------------------------------
(***************************************************************************)
(* coro::detail::engine (src/engine.cpp) over uring_proxy: the per-context *)
(* task queue, the eventfd that wakes the worker, and the io_uring         *)
(* bookkeeping. Every operator is one atomic step of an engine method; the *)
(* context's run loop (Context.tla) sequences them.                        *)
(*                                                                         *)
(* A coroutine handle is a member of Tasks. The eventfd counter is reduced *)
(* to what eventfd_read tells apart: zero blocks, signalled does not, and  *)
(* a closed descriptor swallows the write (the assert on the return value  *)
(* is compiled out of the default Release build). A coroutine awaits one   *)
(* I/O at a time, so an SQE or CQE is named by the task that awaits it.    *)
(***************************************************************************)
EXTENDS Integers, Sequences, FiniteSets

CONSTANTS N,        \* m_ctx_cnt: number of contexts, one engine each
          Tasks,    \* coroutine handles
          NoTask,   \* no handle
          QueCap    \* config::kQueCap: capacity of m_task_queue and of m_urc

ASSUME EngineAssumption ==
    /\ N \in Nat \ {0}
    /\ QueCap \in Nat \ {0}
    /\ NoTask \notin Tasks

Ctx == 0 .. N - 1

VARIABLES
    m_task_queue,         \* [Ctx -> Seq(Tasks)]
    m_efd,                \* [Ctx -> {"zero", "signalled", "closed"}]
    sq,                   \* SQEs prepared and not yet submitted
    inflight,             \* I/O owned by the kernel
    cq,                   \* completion ring
    m_io_submit_count,
    m_io_running_count,
    nready,               \* poll_submit's local: size of the batch in m_urc
    handled               \* poll_submit's loop index i

queue_vars  == <<m_task_queue, m_efd>>
count_vars  == <<m_io_submit_count, m_io_running_count>>
batch_vars  == <<nready, handled>>
io_vars     == <<sq, inflight, cq, count_vars, batch_vars>>
engine_vars == <<queue_vars, io_vars>>

QueueTypeOK ==
    /\ m_task_queue \in [Ctx -> Seq(Tasks)]
    /\ m_efd \in [Ctx -> {"zero", "signalled", "closed"}]

IoTypeOK ==
    /\ sq \in [Ctx -> SUBSET Tasks]
    /\ inflight \in [Ctx -> SUBSET Tasks]
    /\ cq \in [Ctx -> Seq(Tasks)]
    /\ m_io_submit_count \in [Ctx -> Nat]
    /\ m_io_running_count \in [Ctx -> Int]
    /\ nready \in [Ctx -> Nat]
    /\ handled \in [Ctx -> Nat]

EngineInit ==
    /\ m_task_queue = [e \in Ctx |-> <<>>]
    /\ m_efd = [e \in Ctx |-> "zero"]
    /\ sq = [e \in Ctx |-> {}]
    /\ inflight = [e \in Ctx |-> {}]
    /\ cq = [e \in Ctx |-> <<>>]
    /\ m_io_submit_count = [e \in Ctx |-> 0]
    /\ m_io_running_count = [e \in Ctx |-> 0]
    /\ nready = [e \in Ctx |-> 0]
    /\ handled = [e \in Ctx |-> 0]

-----------------------------------------------------------------------------
(* The task queue and the eventfd.                                         *)

ready(e) == m_task_queue[e] # <<>>

\* AtomicQueueB2::push spins until its slot is free: it blocks on a full queue.
push(e, t) ==
    /\ Len(m_task_queue[e]) < QueCap
    /\ m_task_queue' = [m_task_queue EXCEPT ![e] = Append(@, t)]

\* schedule(): only the engine's own worker pops.
schedule(e) ==
    /\ ready(e)
    /\ m_task_queue' = [m_task_queue EXCEPT ![e] = Tail(@)]

Signalled(old) == IF old = "closed" THEN "closed" ELSE "signalled"

write_eventfd(e) == m_efd' = [m_efd EXCEPT ![e] = Signalled(@)]

wait_eventfd(e) ==
    /\ m_efd[e] = "signalled"
    /\ m_efd' = [m_efd EXCEPT ![e] = "zero"]

\* deinit(): uring_proxy::deinit closes the eventfd and sets m_efd to -1.
deinit(e) == m_efd' = [m_efd EXCEPT ![e] = "closed"]

-----------------------------------------------------------------------------
(* I/O. Only the worker that owns the engine touches the counters and the  *)
(* rings, apart from the kernel, which moves an in-flight I/O to the       *)
(* completion ring.                                                        *)

empty_io(e) == m_io_submit_count[e] = 0 /\ m_io_running_count[e] = 0

\* An I/O awaiter takes an SQE, prepares it and calls add_io_submit.
add_io_submit(e, t) ==
    /\ sq' = [sq EXCEPT ![e] = @ \cup {t}]
    /\ m_io_submit_count' = [m_io_submit_count EXCEPT ![e] = @ + 1]
    /\ UNCHANGED <<inflight, cq, m_io_running_count, batch_vars>>

\* Mutant: the fetch_add on m_io_running_count is missing.
SubmitSqesUncounted(e) ==
    /\ sq' = [sq EXCEPT ![e] = {}]
    /\ inflight' = [inflight EXCEPT ![e] = @ \cup sq[e]]
    /\ UNCHANGED <<cq, count_vars, batch_vars>>

\* poll_submit: m_upxy.submit(), then the running count goes up ...
SubmitSqes(e) ==
    /\ sq' = [sq EXCEPT ![e] = {}]
    /\ inflight' = [inflight EXCEPT ![e] = @ \cup sq[e]]
    /\ m_io_running_count' = [m_io_running_count EXCEPT ![e] = @ + m_io_submit_count[e]]
    /\ UNCHANGED <<cq, m_io_submit_count, batch_vars>>

\* ... and only then the submit count goes down by what was submitted.
SettleSubmit(e) ==
    /\ m_io_submit_count' = [m_io_submit_count EXCEPT ![e] = 0]
    /\ UNCHANGED <<sq, inflight, cq, m_io_running_count, batch_vars>>

\* peek_batch_cqe: the batch is bounded by m_urc; the CQEs stay in the ring.
PeekBatch(e) ==
    /\ nready' = [nready EXCEPT ![e] = IF Len(cq[e]) < QueCap THEN Len(cq[e]) ELSE QueCap]
    /\ handled' = [handled EXCEPT ![e] = 0]
    /\ UNCHANGED <<sq, inflight, cq, count_vars>>

\* The task whose CQE the loop hands to handle_cqe_entry next.
CqeTask(e) == cq[e][handled[e] + 1]

NextCqe(e) ==
    /\ handled' = [handled EXCEPT ![e] = @ + 1]
    /\ UNCHANGED <<sq, inflight, cq, count_vars, nready>>

\* Mutant: the whole ring is released, completions that arrived since the peek
\* included.
cq_advanceAll(e) ==
    /\ cq' = [cq EXCEPT ![e] = <<>>]
    /\ m_io_running_count' = [m_io_running_count EXCEPT ![e] = @ - nready[e]]
    /\ nready' = [nready EXCEPT ![e] = 0]
    /\ handled' = [handled EXCEPT ![e] = 0]
    /\ UNCHANGED <<sq, inflight, m_io_submit_count>>

cq_advance(e) ==
    /\ cq' = [cq EXCEPT ![e] = SubSeq(@, nready[e] + 1, Len(@))]
    /\ m_io_running_count' = [m_io_running_count EXCEPT ![e] = @ - nready[e]]
    /\ nready' = [nready EXCEPT ![e] = 0]
    /\ handled' = [handled EXCEPT ![e] = 0]
    /\ UNCHANGED <<sq, inflight, m_io_submit_count>>

\* The kernel completes an I/O and signals the eventfd registered with the ring.
Complete(e, t) ==
    /\ t \in inflight[e]
    /\ inflight' = [inflight EXCEPT ![e] = @ \ {t}]
    /\ cq' = [cq EXCEPT ![e] = Append(@, t)]
    /\ write_eventfd(e)
    /\ UNCHANGED <<m_task_queue, sq, count_vars, batch_vars>>
=============================================================================
