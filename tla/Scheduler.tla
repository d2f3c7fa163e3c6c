----------------------------- MODULE Scheduler ------------------------------
(***************************************************************************)
(* coro::scheduler and its round-robin dispatcher (src/scheduler.cpp,      *)
(* include/coro/dispatcher.hpp), composed with the worker threads of       *)
(* Context.tla and the engines of Engine.tla: the whole runtime.           *)
(*                                                                         *)
(* The main thread submits the Initial tasks, then runs scheduler::loop(): *)
(* start every context, scan them with is_idle() until all look idle in    *)
(* one pass, stop them, join them. With Managed = FALSE there is no        *)
(* scheduler and the main thread uses the contexts directly: submit, start *)
(* and join.                                                               *)
(***************************************************************************)
EXTENDS Context

CONSTANTS Initial,   \* tasks the main thread submits before loop()
          SizeMod    \* size_t arithmetic is modulo SizeMod (2^64 in the code)

ASSUME SchedulerAssumption ==
    /\ Initial \subseteq Tasks
    /\ SizeMod \in Nat \ {0}
    /\ Managed \/ "scheduler" \notin Ops

VARIABLES main,      \* the main thread: [at, ctx, field]
          m_cur      \* dispatcher::m_cur

vars == <<engine_vars, context_vars, main, m_cur>>

\* The loads of is_idle(), in the order && evaluates them.
Fields == 1 .. 5

\* Mutant: is_idle() does not look at m_wait_count.
IdleFieldNoWait(c, f) ==
    CASE f = 1 -> ~m_running_task[c]
      [] f = 2 -> m_io_submit_count[c] = 0
      [] f = 3 -> m_io_running_count[c] = 0
      [] f = 4 -> ~ready(c)
      [] f = 5 -> TRUE

IdleField(c, f) ==
    CASE f = 1 -> ~m_running_task[c]
      [] f = 2 -> m_io_submit_count[c] = 0
      [] f = 3 -> m_io_running_count[c] = 0
      [] f = 4 -> ~ready(c)
      [] f = 5 -> m_wait_count[c] = 0

MainPCs == {"submit", "start", "assign", "scan", "stop", "notify", "join", "end"}

MainTypeOK ==
    /\ main \in [at : MainPCs, ctx : Ctx, field : Fields]
    /\ m_cur \in 0 .. SizeMod - 1

\* Every variable holds a value of its C++ type (the atomic counters that the
\* code decrements are only known to be integers here).
TypeOK == QueueTypeOK /\ IoTypeOK /\ ThreadTypeOK /\ FrameTypeOK /\ MainTypeOK

MainAt(at, c) == [at |-> at, ctx |-> c, field |-> 1]

Init ==
    /\ EngineInit
    /\ ContextInit
    /\ main = MainAt("submit", 0)
    /\ m_cur = 0

-----------------------------------------------------------------------------
\* Mutant: the reduction modulo m_ctx_cnt is missing.
dispatchUnreduced == m_cur

\* dispatcher<round_robin>::dispatch: m_cur.fetch_add(1) % m_ctx_cnt.
dispatch == m_cur % N

m_cur_next == (m_cur + 1) % SizeMod

\* submit_task_impl on a worker: dispatch, then context::submit_task.
SubmitDispatch(w) ==
    /\ call[w].step = "dispatch"
    /\ call' = [call EXCEPT ![w] = [step |-> "register", task |-> call[w].task, ctx |-> dispatch]]
    /\ m_cur' = m_cur_next
    /\ UNCHANGED <<engine_vars, m_wait_count, m_running_task, m_job, stop, thread_vars,
                   frame_vars, main>>

\* The main thread submits before any worker exists: one step per task, to the
\* dispatched context or, without a scheduler, to a context of its choice.
MainSubmit(t, c) ==
    /\ main.at = "submit"
    /\ t \in Initial /\ frame[t] = "none"
    /\ IF Managed THEN c = dispatch /\ m_cur' = m_cur_next ELSE UNCHANGED m_cur
    /\ frame' = [frame EXCEPT ![t] = "live"]
    /\ m_wait_count' = [m_wait_count EXCEPT ![c] = @ + 1]
    /\ push(c, t)
    /\ write_eventfd(c)
    /\ UNCHANGED <<io_vars, m_running_task, m_job, stop, thread_vars, call, suspends, parked, main>>

\* loop_impl (or the user of a bare context) begins.
MainLoop ==
    /\ main.at = "submit"
    /\ \A t \in Initial : frame[t] # "none"
    /\ main' = MainAt("start", 0)
    /\ UNCHANGED <<engine_vars, context_vars, m_cur>>

\* The next context in a for loop over m_ctxs, or what follows the loop.
NextCtx(at, after) ==
    main' = IF main.ctx + 1 < N THEN MainAt(at, main.ctx + 1) ELSE MainAt(after, 0)

\* context::start: the jthread runs as soon as it is constructed ...
MainStart ==
    /\ main.at = "start"
    /\ Goto(main.ctx, "unborn", "init")
    /\ main' = MainAt("assign", main.ctx)
    /\ UNCHANGED <<engine_vars, m_wait_count, m_running_task, m_job, stop, coro, call,
                   frame_vars, m_cur>>

\* ... and m_job is assigned afterwards.
MainAssignJob ==
    /\ main.at = "assign"
    /\ m_job' = [m_job EXCEPT ![main.ctx] = TRUE]
    /\ NextCtx("start", IF Managed THEN "scan" ELSE "join")
    /\ UNCHANGED <<engine_vars, m_wait_count, m_running_task, stop, thread_vars, call,
                   frame_vars, m_cur>>

\* One load of is_idle() on one context; a busy context restarts the scan.
MainScan ==
    /\ main.at = "scan"
    /\ \/ /\ ~IdleField(main.ctx, main.field)
          /\ main' = MainAt("scan", 0)
       \/ /\ IdleField(main.ctx, main.field)
          /\ main.field < 5
          /\ main' = [main EXCEPT !.field = @ + 1]
       \/ /\ IdleField(main.ctx, main.field)
          /\ main.field = 5
          /\ NextCtx("scan", "stop")
    /\ UNCHANGED <<engine_vars, context_vars, m_cur>>

\* stop_impl: notify_stop on each context, request_stop before the eventfd write.
MainRequestStop ==
    /\ main.at = "stop"
    /\ stop' = [stop EXCEPT ![main.ctx] = TRUE]
    /\ main' = MainAt("notify", main.ctx)
    /\ UNCHANGED <<engine_vars, m_wait_count, m_running_task, m_job, thread_vars, call,
                   frame_vars, m_cur>>

MainNotify ==
    /\ main.at = "notify"
    /\ write_eventfd(main.ctx)
    /\ NextCtx("stop", "join")
    /\ UNCHANGED <<m_task_queue, io_vars, context_vars, m_cur>>

MainJoin ==
    /\ main.at = "join"
    /\ pc[main.ctx] = "exited"
    /\ NextCtx("join", "end")
    /\ UNCHANGED <<engine_vars, context_vars, m_cur>>

Main ==
    \/ \E t \in Tasks, c \in Ctx : MainSubmit(t, c)
    \/ MainLoop \/ MainStart \/ MainAssignJob \/ MainScan
    \/ MainRequestStop \/ MainNotify \/ MainJoin

-----------------------------------------------------------------------------
\* A null dereference in one thread ends the process.
Crashed == \E c \in Ctx : pc[c] \in {"crashed", "trapped"}

WorkerStep(c) ==
    /\ ~Crashed
    /\ \/ Worker(c) /\ UNCHANGED <<main, m_cur>>
       \/ SubmitDispatch(c)

MainStep == ~Crashed /\ Main

Kernel(c) ==
    /\ ~Crashed
    /\ \E t \in Tasks : Complete(c, t)
    /\ UNCHANGED <<context_vars, main, m_cur>>

\* The process is over: loop() has returned, or it crashed.
Over ==
    /\ main.at = "end" \/ Crashed
    /\ UNCHANGED vars

Next ==
    \/ \E c \in Ctx : WorkerStep(c) \/ Kernel(c)
    \/ MainStep
    \/ Over

Spec == Init /\ [][Next]_vars

\* The operating system runs every thread that can run and the kernel completes
\* every I/O.
Fairness ==
    /\ \A c \in Ctx : WF_vars(WorkerStep(c)) /\ WF_vars(Kernel(c))
    /\ WF_vars(MainStep)

FairSpec == Spec /\ Fairness

-----------------------------------------------------------------------------
(* Properties.                                                             *)

\* Threads inside submit_task for context c, by the step they are about to take.
Calling(c, step) == {w \in Ctx : call[w].step = step /\ call[w].ctx = c}

\* m_wait_count is exact: it is the number of queued handles, plus the one being
\* executed, plus the submitters that have called register_wait and not yet
\* pushed. So the relaxed fetch_add/fetch_sub pairs of submit_task and run never
\* drift, whatever the interleaving, and zero means that nothing is queued.
WaitCountExact ==
    \A c \in Ctx :
        m_wait_count[c] = Len(m_task_queue[c])
                          + (IF pc[c] \in Executing THEN 1 ELSE 0)
                          + Cardinality(Calling(c, "push"))

\* A worker that blocks in wait_eventfd with the counter at zero has missed
\* nothing: if its queue is not empty, a submitter is about to write the eventfd,
\* and if its stop token is set, either notify_stop is about to write it or a
\* submission to the context is under way that will.
Blocked(c) == pc[c] = "pollwait" /\ m_io_running_count[c] = 0 /\ m_efd[c] = "zero"

NoLostWakeup ==
    \A c \in Ctx : Blocked(c) =>
        /\ ready(c) => Calling(c, "wake") # {}
        /\ stop[c] => \/ main.at = "notify" /\ main.ctx = c
                      \/ Calling(c, "push") \cup Calling(c, "wake") # {}

\* The I/O counters agree with the rings at every step of poll_submit: the submit
\* count is the number of prepared SQEs (except between submit() and its
\* fetch_sub), the running count is what the kernel owns plus what the completion
\* ring holds. A worker that reads zero leaves no I/O behind.
IoCountersExact ==
    \A c \in Ctx :
        /\ pc[c] # "settle" => m_io_submit_count[c] = Cardinality(sq[c])
        /\ pc[c] = "settle" => sq[c] = {}
        /\ m_io_running_count[c] = Cardinality(inflight[c]) + Len(cq[c])

\* context::run leaves its loop only when its queue is empty, no submitter has
\* registered, and no I/O is prepared, in flight or unreaped.
ExitsDrained ==
    [][\A c \in Ctx : pc[c] = "waitcount" /\ pc'[c] = "deinit" =>
           /\ ~ready(c)
           /\ Calling(c, "push") = {}
           /\ sq[c] = {} /\ inflight[c] = {} /\ cq[c] = <<>>]_vars

\* No coroutine is resumed on two workers at a time, and no handle that is being
\* executed by a worker's resume() is also waiting in a queue.
NoConcurrentResume ==
    \A c, d \in Ctx : pc[c] = "body" =>
        /\ c # d /\ pc[d] = "body" => coro[c] # coro[d]
        /\ \A i \in 1 .. Len(m_task_queue[d]) : m_task_queue[d][i] # coro[c]

\* When loop() (or the last join()) returns, every task that was ever submitted
\* has run to completion, unless it is still parked in a wait list.
AllTasksRun ==
    main.at = "end" =>
        \A t \in Tasks \ parked : frame[t] \in {"none", "done", "freed"}

\* A worker calls done() or destroy() only on a frame that still exists, for submitted
\* tasks that co_await I/O or primitives and no other task (for those that do, see
\* StaleOnlyNested).
FramesAlive ==
    \A c \in Ctx : pc[c] \in {"body", "done", "clean"} => frame[coro[c]] # "freed"

\* The scheduler stops the contexts only when all the work is finished: nothing is
\* queued, executing or in flight anywhere.
StopsWhenQuiescent ==
    main.at = "stop" /\ main.ctx = 0 =>
        \A c \in Ctx : m_wait_count[c] = 0 /\ empty_io(c)

\* Every task so far was submitted by the main thread and has run without
\* suspending.
Independent ==
    /\ \A t \in Tasks : suspends[t] = 0
    /\ \A t \in Tasks \ Initial : frame[t] = "none"

\* The scan of is_idle() over the contexts is no snapshot, and a task that hands
\* work back to a context already scanned defeats it. As long as the tasks are
\* independent it is exact: loop_impl then stops only a runtime that is quiescent.
IndependentQuiescent == Independent => StopsWhenQuiescent

\* A context that stops itself has its m_job: short-run mode ends by a stop and
\* not by a crash.
JobAssignedOnSelfStop ==
    \A c \in Ctx : pc[c] # "crashed"

\* A worker that submits to a full queue is never left waiting for itself.
WorkerNeverBlocksItself ==
    \A c \in Ctx : ~(c \in Calling(c, "push") /\ Len(m_task_queue[c]) = QueCap)

\* loop() returns: no worker sleeps through its stop request, and no counter keeps
\* the scan or a worker's loop alive for ever.
Terminates == <>(main.at = "end" \/ Crashed)

\* loop() (or the last join()) returns, and by then every task has run.
Completes == <>(Crashed \/ (main.at = "end" /\ AllTasksRun))
=============================================================================
