------------------------------ MODULE Context -------------------------------
(***************************************************************************)
(* coro::context (src/context.cpp): the worker thread of a context, its    *)
(* run loop, and the calls a coroutine body makes back into the runtime.   *)
(*                                                                         *)
(* pc[c] is the worker's place in context::run and the engine methods it   *)
(* calls. A coroutine body is any sequence of the operations in Ops:       *)
(*   "io"         co_await an I/O awaiter                                  *)
(*   "park"       suspend in the wait list of a synchronisation primitive  *)
(*   "local"      hand a handle to the worker's own context                *)
(*   "scheduler"  hand a handle to the scheduler (round robin)             *)
(* where the handle is a new task or one taken from a wait list, and the   *)
(* body finally runs to co_return.                                         *)
(***************************************************************************)
EXTENDS Engine

CONSTANTS Ops,          \* what bodies do, see above
          Detached,     \* handles submitted through task<void>&&
          MaxSuspends,  \* bound: suspensions of one coroutine
          Managed       \* m_managed_by_scheduler

ASSUME ContextAssumption ==
    /\ Ops \subseteq {"io", "park", "local", "scheduler"}
    /\ Detached \subseteq Tasks
    /\ MaxSuspends \in Nat
    /\ Managed \in BOOLEAN

VARIABLES
    m_wait_count,
    m_running_task,
    m_job,        \* [Ctx -> BOOLEAN]: the unique_ptr<jthread> is assigned
    stop,         \* [Ctx -> BOOLEAN]: the thread's stop token
    pc,
    coro,         \* exec_one_task's local: the handle being executed
    call,         \* the submit_task call the worker is inside of
    frame,        \* coroutine frames
    suspends,     \* suspensions so far
    parked        \* handles in the wait lists of synchronisation primitives

thread_vars  == <<pc, coro>>
frame_vars   == <<frame, suspends, parked>>
context_vars == <<m_wait_count, m_running_task, m_job, stop, thread_vars, call, frame_vars>>

\* From the pop in exec_one_task to unregister_wait the worker holds a handle
\* ("trapped": for ever).
Executing == {"body", "trapped", "done", "clean", "unregister"}

\* run's poll_submit call up to the eventfd.
Polling == {"poll", "settle", "pollwait"}

PCs == {"unborn", "init", "while", "waitcount", "ready", "exec", "finish",
        "selfstop", "cqe", "deinit", "exited", "crashed"}
       \cup Executing \cup Polling

Steps == {"none", "dispatch", "register", "push", "wake"}

NoCall == [step |-> "none", task |-> NoTask, ctx |-> 0]

ThreadTypeOK ==
    /\ m_wait_count \in [Ctx -> Int]
    /\ m_running_task \in [Ctx -> BOOLEAN]
    /\ m_job \in [Ctx -> BOOLEAN]
    /\ stop \in [Ctx -> BOOLEAN]
    /\ pc \in [Ctx -> PCs]
    /\ coro \in [Ctx -> Tasks \cup {NoTask}]
    /\ call \in [Ctx -> [step : Steps, task : Tasks \cup {NoTask}, ctx : Ctx]]

FrameTypeOK ==
    /\ frame \in [Tasks -> {"none", "live", "done", "freed"}]
    /\ suspends \in [Tasks -> 0 .. MaxSuspends]
    /\ parked \in SUBSET Tasks

ContextInit ==
    /\ m_wait_count = [c \in Ctx |-> 0]
    /\ m_running_task = [c \in Ctx |-> FALSE]
    /\ m_job = [c \in Ctx |-> FALSE]
    /\ stop = [c \in Ctx |-> FALSE]
    /\ pc = [c \in Ctx |-> "unborn"]
    /\ coro = [c \in Ctx |-> NoTask]
    /\ call = [c \in Ctx |-> NoCall]
    /\ frame = [t \in Tasks |-> "none"]
    /\ suspends = [t \in Tasks |-> 0]
    /\ parked = {}

Goto(c, from, to) ==
    /\ pc[c] = from
    /\ pc' = [pc EXCEPT ![c] = to]

-----------------------------------------------------------------------------
(* context::submit_task, called by worker w for the handle and the context *)
(* in call[w].                                                             *)

register_wait(w) ==
    /\ call[w].step = "register"
    /\ m_wait_count' = [m_wait_count EXCEPT ![call[w].ctx] = @ + 1]
    /\ call' = [call EXCEPT ![w].step = "push"]
    /\ UNCHANGED <<engine_vars, m_running_task, m_job, stop, thread_vars, frame_vars>>

\* engine::submit_task: the push, then the eventfd write.
SubmitPush(w) ==
    /\ call[w].step = "push"
    /\ push(call[w].ctx, call[w].task)
    /\ call' = [call EXCEPT ![w].step = "wake"]
    /\ UNCHANGED <<m_efd, io_vars, m_wait_count, m_running_task, m_job, stop,
                   thread_vars, frame_vars>>

\* Mutant: submit_task does not write the eventfd.
SubmitWakeSilent(w) ==
    /\ call[w].step = "wake"
    /\ call' = [call EXCEPT ![w] = NoCall]
    /\ UNCHANGED <<engine_vars, m_wait_count, m_running_task, m_job, stop,
                   thread_vars, frame_vars>>

SubmitWake(w) ==
    /\ call[w].step = "wake"
    /\ write_eventfd(call[w].ctx)
    /\ call' = [call EXCEPT ![w] = NoCall]
    /\ UNCHANGED <<m_task_queue, io_vars, m_wait_count, m_running_task, m_job, stop,
                   thread_vars, frame_vars>>

-----------------------------------------------------------------------------
(* The coroutine body, between coro.resume() and its return.               *)

InBody(c) == pc[c] = "body" /\ call[c] = NoCall

\* Entering submit_to_context or submit_to_scheduler with handle t.
Submit(c, t) ==
    \/ /\ "local" \in Ops
       /\ call' = [call EXCEPT ![c] = [step |-> "register", task |-> t, ctx |-> c]]
    \/ /\ "scheduler" \in Ops
       /\ call' = [call EXCEPT ![c] = [step |-> "dispatch", task |-> t, ctx |-> 0]]

\* submit_to_*(task<void>&&): the new coroutine's frame is live from here on.
SpawnTask(c, t) ==
    /\ InBody(c)
    /\ frame[t] = "none"
    /\ frame' = [frame EXCEPT ![t] = "live"]
    /\ Submit(c, t)
    /\ UNCHANGED <<engine_vars, m_wait_count, m_running_task, m_job, stop, thread_vars,
                   suspends, parked>>

\* Mutant: the waiter is submitted but stays in the list.
ResumeParkedKept(c, t) ==
    /\ InBody(c)
    /\ t \in parked
    /\ Submit(c, t)
    /\ UNCHANGED <<engine_vars, m_wait_count, m_running_task, m_job, stop, thread_vars,
                   frame_vars>>

\* A primitive takes a waiter from its list and submits its handle.
ResumeParked(c, t) ==
    /\ InBody(c)
    /\ t \in parked
    /\ parked' = parked \ {t}
    /\ Submit(c, t)
    /\ UNCHANGED <<engine_vars, m_wait_count, m_running_task, m_job, stop, thread_vars,
                   frame, suspends>>

\* A coroutine suspends: resume() returns to exec_one_task.
Suspend(c) ==
    /\ InBody(c)
    /\ suspends[coro[c]] < MaxSuspends
    /\ suspends' = [suspends EXCEPT ![coro[c]] = @ + 1]
    /\ Goto(c, "body", "done")
    /\ UNCHANGED <<queue_vars, m_wait_count, m_running_task, m_job, stop, coro, call, frame>>

\* co_await on an I/O awaiter.
AwaitIo(c) ==
    /\ "io" \in Ops
    /\ Suspend(c)
    /\ add_io_submit(c, coro[c])
    /\ UNCHANGED parked

\* await_suspend publishes the handle; whoever takes it may resume it at once. It stands
\* for the push into any wait list; that a mutex found free is taken instead is in Mutex.
AwaitPrimitive(c) ==
    /\ "park" \in Ops
    /\ Suspend(c)
    /\ parked' = parked \cup {coro[c]}
    /\ UNCHANGED io_vars

\* co_return of a task that nobody co_awaits: final_suspend has no parent to
\* return and falls off its end, which is undefined. Either the coroutine rests at
\* its final suspend point, or the transfer to a null handle ends the process.
CoReturn(c) ==
    /\ InBody(c)
    /\ \/ /\ Goto(c, "body", "done")
          /\ frame' = [frame EXCEPT ![coro[c]] = "done"]
       \/ /\ Goto(c, "body", "trapped")
          /\ UNCHANGED frame
    /\ UNCHANGED <<engine_vars, m_wait_count, m_running_task, m_job, stop, coro, call,
                   suspends, parked>>

-----------------------------------------------------------------------------
(* engine::exec_one_task and the loop around it.                           *)

ExecPop(c) ==
    /\ Goto(c, "exec", "body")
    /\ schedule(c)
    /\ coro' = [coro EXCEPT ![c] = Head(m_task_queue[c])]
    /\ UNCHANGED <<m_efd, io_vars, m_wait_count, m_running_task, m_job, stop, call, frame_vars>>

\* Mutant: exec_one_task cleans without asking done().
DoneAnswersAlways(t) == {TRUE}

\* coro.done(): on a destroyed frame this reads freed memory, so any answer.
DoneAnswers(t) == IF frame[t] = "freed" THEN BOOLEAN ELSE {frame[t] = "done"}

ExecDone(c) ==
    /\ pc[c] = "done"
    /\ \E d \in DoneAnswers(coro[c]) : Goto(c, "done", IF d THEN "clean" ELSE "unregister")
    /\ UNCHANGED <<engine_vars, m_wait_count, m_running_task, m_job, stop, coro, call, frame_vars>>

\* clean(): destroys the frame if the promise is marked detached.
clean(c) ==
    /\ Goto(c, "clean", "unregister")
    /\ frame' = [frame EXCEPT ![coro[c]] = IF coro[c] \in Detached THEN "freed" ELSE @]
    /\ UNCHANGED <<engine_vars, m_wait_count, m_running_task, m_job, stop, coro, call,
                   suspends, parked>>

\* Mutant: the fetch_sub on m_wait_count is missing.
unregister_waitMissing(c) ==
    /\ Goto(c, "unregister", "finish")
    /\ write_eventfd(c)
    /\ coro' = [coro EXCEPT ![c] = NoTask]
    /\ UNCHANGED <<m_task_queue, io_vars, m_wait_count, m_running_task, m_job, stop, call,
                   frame_vars>>

\* The eventfd write is merged: only this worker reads its eventfd.
unregister_wait(c) ==
    /\ Goto(c, "unregister", "finish")
    /\ m_wait_count' = [m_wait_count EXCEPT ![c] = @ - 1]
    /\ write_eventfd(c)
    /\ coro' = [coro EXCEPT ![c] = NoTask]
    /\ UNCHANGED <<m_task_queue, io_vars, m_running_task, m_job, stop, call, frame_vars>>

ClearRunning(c) ==
    /\ Goto(c, "finish", "ready")
    /\ m_running_task' = [m_running_task EXCEPT ![c] = FALSE]
    /\ UNCHANGED <<engine_vars, m_wait_count, m_job, stop, coro, call, frame_vars>>

-----------------------------------------------------------------------------
(* context::run.                                                           *)

Unmoved == UNCHANGED <<m_wait_count, m_job, coro, call, frame_vars>>

\* The thread function's init(): thread-local pointers and the ring.
WorkerInit(c) ==
    /\ Goto(c, "init", "while")
    /\ UNCHANGED <<engine_vars, m_running_task, stop>>
    /\ Unmoved

\* Mutant: the while condition forgets the I/O.
RunWhileNoIo(c) ==
    /\ Goto(c, "while", IF ~stop[c] \/ ready(c) THEN "ready" ELSE "waitcount")
    /\ UNCHANGED <<engine_vars, m_running_task, stop>>
    /\ Unmoved

\* The while condition, up to the read of m_wait_count ...
RunWhile(c) ==
    /\ Goto(c, "while", IF ~stop[c] \/ ~empty_io(c) \/ ready(c) THEN "ready" ELSE "waitcount")
    /\ UNCHANGED <<engine_vars, m_running_task, stop>>
    /\ Unmoved

\* Mutant: the while condition forgets m_wait_count.
RunWaitCountIgnored(c) ==
    /\ Goto(c, "waitcount", "deinit")
    /\ UNCHANGED <<engine_vars, m_running_task, stop>>
    /\ Unmoved

\* ... and that read, which other threads' register_wait may precede.
RunWaitCount(c) ==
    /\ Goto(c, "waitcount", IF m_wait_count[c] > 0 THEN "ready" ELSE "deinit")
    /\ UNCHANGED <<engine_vars, m_running_task, stop>>
    /\ Unmoved

RunReady(c) ==
    /\ \/ /\ ready(c)
          /\ Goto(c, "ready", "exec")
          /\ m_running_task' = [m_running_task EXCEPT ![c] = TRUE]
       \/ /\ ~ready(c)
          /\ Goto(c, "ready", IF Managed THEN "poll" ELSE "selfstop")
          /\ UNCHANGED m_running_task
    /\ UNCHANGED <<engine_vars, stop>>
    /\ Unmoved

\* Without a scheduler the context stops itself once it has nothing to do.
ShouldStop(c) == ~stop[c] /\ empty_io(c) /\ ~ready(c) /\ m_wait_count[c] = 0

\* notify_stop() dereferences m_job, which start() may not have assigned yet.
RunSelfStop(c) ==
    /\ \/ /\ ShouldStop(c) /\ m_job[c]
          /\ Goto(c, "selfstop", "poll")
          /\ stop' = [stop EXCEPT ![c] = TRUE]
          /\ write_eventfd(c)
       \/ /\ ShouldStop(c) /\ ~m_job[c]
          /\ Goto(c, "selfstop", "crashed")
          /\ UNCHANGED <<stop, m_efd>>
       \/ /\ ~ShouldStop(c)
          /\ Goto(c, "selfstop", "poll")
          /\ UNCHANGED <<stop, m_efd>>
    /\ UNCHANGED <<m_task_queue, io_vars, m_running_task>>
    /\ Unmoved

\* The thread function's deinit().
WorkerDeinit(c) ==
    /\ Goto(c, "deinit", "exited")
    /\ deinit(c)
    /\ UNCHANGED <<m_task_queue, io_vars, m_running_task, stop>>
    /\ Unmoved

-----------------------------------------------------------------------------
(* engine::poll_submit.                                                    *)

PollSubmit(c) ==
    /\ \/ /\ m_io_submit_count[c] > 0
          /\ Goto(c, "poll", "settle")
          /\ SubmitSqes(c)
       \/ /\ m_io_submit_count[c] = 0
          /\ Goto(c, "poll", "pollwait")
          /\ UNCHANGED io_vars
    /\ UNCHANGED <<queue_vars, m_running_task, stop>>
    /\ Unmoved

PollSettle(c) ==
    /\ Goto(c, "settle", "pollwait")
    /\ SettleSubmit(c)
    /\ UNCHANGED <<queue_vars, m_running_task, stop>>
    /\ Unmoved

\* Nothing in flight: block on the eventfd.
PollWait(c) ==
    /\ m_io_running_count[c] = 0
    /\ Goto(c, "pollwait", "while")
    /\ wait_eventfd(c)
    /\ UNCHANGED <<m_task_queue, io_vars, m_running_task, stop>>
    /\ Unmoved

\* Something in flight: peek without blocking.
PollPeek(c) ==
    /\ m_io_running_count[c] # 0
    /\ \/ /\ cq[c] = <<>>
          /\ Goto(c, "pollwait", "while")
          /\ UNCHANGED io_vars
       \/ /\ cq[c] # <<>>
          /\ Goto(c, "pollwait", "cqe")
          /\ PeekBatch(c)
    /\ UNCHANGED <<queue_vars, m_running_task, stop>>
    /\ Unmoved

\* handle_cqe_entry: the awaiter's callback calls submit_to_context.
HandleCqe(c) ==
    /\ pc[c] = "cqe" /\ call[c] = NoCall /\ handled[c] < nready[c]
    /\ call' = [call EXCEPT ![c] = [step |-> "register", task |-> CqeTask(c), ctx |-> c]]
    /\ NextCqe(c)
    /\ UNCHANGED <<queue_vars, m_wait_count, m_running_task, m_job, stop, thread_vars, frame_vars>>

PollAdvance(c) ==
    /\ call[c] = NoCall /\ handled[c] = nready[c]
    /\ Goto(c, "cqe", "while")
    /\ cq_advance(c)
    /\ UNCHANGED <<queue_vars, m_running_task, stop>>
    /\ Unmoved

Body(c) ==
    \/ \E t \in Tasks : SpawnTask(c, t) \/ ResumeParked(c, t)
    \/ AwaitIo(c) \/ AwaitPrimitive(c) \/ CoReturn(c)

Call(c) == register_wait(c) \/ SubmitPush(c) \/ SubmitWake(c)

Run(c) ==
    \/ WorkerInit(c) \/ RunWhile(c) \/ RunWaitCount(c) \/ RunReady(c)
    \/ ExecPop(c) \/ ExecDone(c) \/ clean(c) \/ unregister_wait(c) \/ ClearRunning(c)
    \/ RunSelfStop(c) \/ PollSubmit(c) \/ PollSettle(c) \/ PollWait(c) \/ PollPeek(c)
    \/ HandleCqe(c) \/ PollAdvance(c) \/ WorkerDeinit(c)

Worker(c) == Body(c) \/ Call(c) \/ Run(c)
=============================================================================
