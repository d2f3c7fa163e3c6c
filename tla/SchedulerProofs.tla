-------------------------- MODULE SchedulerProofs ---------------------------
(***************************************************************************)
(* Proofs about Scheduler.tla. First the type invariant, and the control   *)
(* facts it needs to be inductive. Then what a worker's loop decides by:   *)
(* m_wait_count is exact, the I/O counters cover all I/O, the inductive    *)
(* invariant of the runtime, what a worker's exit implies, no wakeup of an *)
(* idle worker is lost, and for independent tasks the scan of loop_impl is *)
(* exact.                                                                  *)
(***************************************************************************)
EXTENDS Scheduler, Items, FiniteSetTheorems, TLAPS

\* The worker holds a handle while it executes one.
HoldsTask(c) == pc[c] \in Executing => coro[c] \in Tasks

\* Only a coroutine body or a completion callback is inside submit_task.
CallOK(c) == call[c] # NoCall => call[c].task \in Tasks /\ pc[c] \in {"body", "cqe"}

\* The queue the worker saw non-empty stays so until the worker pops.
ExecReady(c) == pc[c] = "exec" => ready(c)

\* The batch being reaped is a prefix of the completion ring.
BatchOK(c) == handled[c] <= nready[c] /\ nready[c] <= Len(cq[c])

\* What the place of each worker says about the data it is about to use.
Control == \A c \in Ctx : HoldsTask(c) /\ CallOK(c) /\ ExecReady(c) /\ BatchOK(c)

\* Context numbers are naturals and there is a context 0.
LEMMA CtxNat == Ctx \subseteq Nat /\ 0 \in Ctx
BY EngineAssumption DEF Ctx

\* dispatch() always names an existing context, also when m_cur wraps around.
LEMMA DispatchInCtx ==
  ASSUME MainTypeOK
  PROVE  dispatch \in Ctx /\ m_cur_next \in 0 .. SizeMod - 1
BY EngineAssumption, SchedulerAssumption
   DEF MainTypeOK, dispatch, m_cur_next, Ctx

\* The for loops over m_ctxs stay inside the container.
LEMMA NextCtxType ==
  ASSUME MainTypeOK, NEW at \in MainPCs, NEW after \in MainPCs, NextCtx(at, after)
  PROVE  main' \in [at : MainPCs, ctx : Ctx, field : Fields]
BY EngineAssumption DEF MainTypeOK, NextCtx, MainAt, Fields, Ctx

\* Every step of every thread keeps the type invariant. Control is needed where a
\* step uses a handle: exec_one_task, submit_task and the completion callback.
LEMMA TypeStep == TypeOK /\ Control /\ [Next]_vars => TypeOK'
<1> SUFFICES ASSUME TypeOK, Control, [Next]_vars PROVE TypeOK'
  BY Zenon
<1>a. \A c \in Ctx : pc[c] \in Executing => coro[c] \in Tasks
  BY Zenon DEF Control, HoldsTask
<1>b. \A c \in Ctx : call[c].step # "none" => call[c].task \in Tasks
  BY DEF Control, CallOK, NoCall
<1>c. \A c \in Ctx : handled[c] < nready[c] => CqeTask(c) \in Tasks
  BY DEF Control, BatchOK, CqeTask, TypeOK, IoTypeOK
<1> USE DEF TypeOK, engine_vars, queue_vars, io_vars, count_vars, batch_vars, context_vars,
            thread_vars, frame_vars
<1>1. ASSUME NEW c \in Ctx, register_wait(c), UNCHANGED <<main, m_cur>> PROVE TypeOK'
  <2>1. ThreadTypeOK'
    BY <1>1 DEF register_wait, ThreadTypeOK, Steps
  <2> QED
    BY <1>1, <2>1, Zenon DEF register_wait, QueueTypeOK, IoTypeOK, FrameTypeOK, MainTypeOK
<1>2. ASSUME NEW c \in Ctx, SubmitPush(c), UNCHANGED <<main, m_cur>> PROVE TypeOK'
  <2>1. call[c].task \in Tasks /\ call[c].ctx \in Ctx
    BY <1>2, <1>b, Zenon DEF SubmitPush, ThreadTypeOK
  <2>2. QueueTypeOK'
    BY <1>2, <2>1 DEF SubmitPush, QueueTypeOK, push
  <2>3. ThreadTypeOK'
    BY <1>2, <2>1 DEF SubmitPush, ThreadTypeOK, Steps
  <2> QED
    BY <1>2, <2>2, <2>3, Zenon DEF SubmitPush, IoTypeOK, FrameTypeOK, MainTypeOK
<1>3. ASSUME NEW c \in Ctx, SubmitWake(c), UNCHANGED <<main, m_cur>> PROVE TypeOK'
  <2>1. QueueTypeOK'
    BY <1>3, Zenon DEF SubmitWake, QueueTypeOK, write_eventfd, Signalled
  <2>2. ThreadTypeOK'
    BY <1>3, CtxNat, Zenon DEF SubmitWake, ThreadTypeOK, Steps, NoCall
  <2> QED
    BY <1>3, <2>1, <2>2, Zenon DEF SubmitWake, IoTypeOK, FrameTypeOK, MainTypeOK
<1>4. ASSUME NEW c \in Ctx, NEW t \in Tasks, SpawnTask(c, t), UNCHANGED <<main, m_cur>>
      PROVE  TypeOK'
  <2>1. ThreadTypeOK'
    BY <1>4, CtxNat DEF SpawnTask, ThreadTypeOK, Submit, Steps
  <2>2. FrameTypeOK'
    BY <1>4, Zenon DEF SpawnTask, FrameTypeOK
  <2> QED
    BY <1>4, <2>1, <2>2, Zenon DEF SpawnTask, QueueTypeOK, IoTypeOK, MainTypeOK
<1>5. ASSUME NEW c \in Ctx, NEW t \in Tasks, ResumeParked(c, t), UNCHANGED <<main, m_cur>>
      PROVE  TypeOK'
  <2>1. ThreadTypeOK'
    BY <1>5, CtxNat DEF ResumeParked, ThreadTypeOK, Submit, Steps
  <2>2. FrameTypeOK'
    BY <1>5, Zenon DEF ResumeParked, FrameTypeOK
  <2> QED
    BY <1>5, <2>1, <2>2, Zenon DEF ResumeParked, QueueTypeOK, IoTypeOK, MainTypeOK
<1>6. ASSUME NEW c \in Ctx, AwaitIo(c), UNCHANGED <<main, m_cur>> PROVE TypeOK'
  <2>1. coro[c] \in Tasks
    BY <1>6, <1>a, Zenon DEF AwaitIo, Suspend, InBody, Executing
  <2>2. IoTypeOK'
    BY <1>6, <2>1 DEF AwaitIo, IoTypeOK, add_io_submit
  <2>3. ThreadTypeOK'
    BY <1>6, <2>1, Zenon DEF AwaitIo, ThreadTypeOK, Suspend, PCs, Executing, Polling, Goto
  <2>4. FrameTypeOK'
    BY <1>6, <2>1, ContextAssumption DEF AwaitIo, FrameTypeOK, Suspend
  <2> QED
    BY <1>6, <2>2, <2>3, <2>4, Zenon DEF AwaitIo, QueueTypeOK, MainTypeOK, Suspend
<1>7. ASSUME NEW c \in Ctx, AwaitPrimitive(c), UNCHANGED <<main, m_cur>> PROVE TypeOK'
  <2>1. coro[c] \in Tasks
    BY <1>7, <1>a, Zenon DEF AwaitPrimitive, Suspend, InBody, Executing
  <2>2. ThreadTypeOK'
    BY <1>7, <2>1, Zenon
       DEF AwaitPrimitive, ThreadTypeOK, Suspend, PCs, Executing, Polling, Goto
  <2>3. FrameTypeOK'
    BY <1>7, <2>1, ContextAssumption DEF AwaitPrimitive, FrameTypeOK, Suspend
  <2> QED
    BY <1>7, <2>2, <2>3, Zenon DEF AwaitPrimitive, QueueTypeOK, IoTypeOK, MainTypeOK, Suspend
<1>8. ASSUME NEW c \in Ctx, CoReturn(c), UNCHANGED <<main, m_cur>> PROVE TypeOK'
  <2>1. ThreadTypeOK'
    BY <1>8 DEF CoReturn, ThreadTypeOK, PCs, Executing, Polling, Goto
  <2>2. FrameTypeOK'
    BY <1>8, Zenon DEF CoReturn, FrameTypeOK
  <2> QED
    BY <1>8, <2>1, <2>2, Zenon DEF CoReturn, QueueTypeOK, IoTypeOK, MainTypeOK
<1>9. ASSUME NEW c \in Ctx, ExecPop(c), UNCHANGED <<main, m_cur>> PROVE TypeOK'
  <2>1. QueueTypeOK'
    BY <1>9 DEF ExecPop, QueueTypeOK, schedule, ready
  <2>2. ThreadTypeOK'
    BY <1>9
       DEF ExecPop, ThreadTypeOK, QueueTypeOK, schedule, ready, PCs, Executing, Polling,
           Goto
  <2> QED
    BY <1>9, <2>1, <2>2, Zenon DEF ExecPop, IoTypeOK, FrameTypeOK, MainTypeOK
<1>10. ASSUME NEW c \in Ctx, ExecDone(c), UNCHANGED <<main, m_cur>> PROVE TypeOK'
  <2>1. ThreadTypeOK'
    BY <1>10 DEF ExecDone, ThreadTypeOK, PCs, Executing, Polling, Goto
  <2> QED
    BY <1>10, <2>1, Zenon DEF ExecDone, QueueTypeOK, IoTypeOK, FrameTypeOK, MainTypeOK
<1>11. ASSUME NEW c \in Ctx, clean(c), UNCHANGED <<main, m_cur>> PROVE TypeOK'
  <2>1. ThreadTypeOK'
    BY <1>11, Zenon DEF clean, ThreadTypeOK, PCs, Executing, Polling, Goto
  <2>2. FrameTypeOK'
    BY <1>11, Zenon DEF clean, FrameTypeOK
  <2> QED
    BY <1>11, <2>1, <2>2, Zenon DEF clean, QueueTypeOK, IoTypeOK, MainTypeOK
<1>12. ASSUME NEW c \in Ctx, unregister_wait(c), UNCHANGED <<main, m_cur>> PROVE TypeOK'
  <2>1. QueueTypeOK'
    BY <1>12, Zenon DEF unregister_wait, QueueTypeOK, write_eventfd, Signalled
  <2>2. ThreadTypeOK'
    BY <1>12 DEF unregister_wait, ThreadTypeOK, PCs, Executing, Polling, Goto
  <2> QED
    BY <1>12, <2>1, <2>2, Zenon DEF unregister_wait, IoTypeOK, FrameTypeOK, MainTypeOK
<1>13. ASSUME NEW c \in Ctx, ClearRunning(c), UNCHANGED <<main, m_cur>> PROVE TypeOK'
  <2>1. ThreadTypeOK'
    BY <1>13, Zenon DEF ClearRunning, ThreadTypeOK, PCs, Executing, Polling, Goto
  <2> QED
    BY <1>13, <2>1, Zenon DEF ClearRunning, QueueTypeOK, IoTypeOK, FrameTypeOK, MainTypeOK
<1>14. ASSUME NEW c \in Ctx, WorkerInit(c), UNCHANGED <<main, m_cur>> PROVE TypeOK'
  <2>1. ThreadTypeOK'
    BY <1>14, Zenon DEF WorkerInit, ThreadTypeOK, PCs, Executing, Polling, Goto, Unmoved
  <2> QED
    BY <1>14, <2>1, Zenon
       DEF WorkerInit, QueueTypeOK, IoTypeOK, FrameTypeOK, MainTypeOK, Unmoved
<1>15. ASSUME NEW c \in Ctx, RunWhile(c), UNCHANGED <<main, m_cur>> PROVE TypeOK'
  <2>1. ThreadTypeOK'
    BY <1>15, Zenon DEF RunWhile, ThreadTypeOK, PCs, Executing, Polling, Goto, Unmoved
  <2> QED
    BY <1>15, <2>1, Zenon DEF RunWhile, QueueTypeOK, IoTypeOK, FrameTypeOK, MainTypeOK, Unmoved
<1>16. ASSUME NEW c \in Ctx, RunWaitCount(c), UNCHANGED <<main, m_cur>> PROVE TypeOK'
  <2>1. ThreadTypeOK'
    BY <1>16, Zenon DEF RunWaitCount, ThreadTypeOK, PCs, Executing, Polling, Goto, Unmoved
  <2> QED
    BY <1>16, <2>1, Zenon
       DEF RunWaitCount, QueueTypeOK, IoTypeOK, FrameTypeOK, MainTypeOK, Unmoved
<1>17. ASSUME NEW c \in Ctx, RunReady(c), UNCHANGED <<main, m_cur>> PROVE TypeOK'
  <2>1. ThreadTypeOK'
    <3>1. pc' \in [Ctx -> PCs]
      BY <1>17, Zenon DEF RunReady, ThreadTypeOK, PCs, Polling, Goto
    <3>2. m_running_task' \in [Ctx -> BOOLEAN]
      BY <1>17, Zenon DEF RunReady, ThreadTypeOK
    <3> QED BY <1>17, <3>1, <3>2, Zenon DEF RunReady, ThreadTypeOK, Unmoved
  <2> QED
    BY <1>17, <2>1, Zenon DEF RunReady, QueueTypeOK, IoTypeOK, FrameTypeOK, MainTypeOK, Unmoved
<1>18. ASSUME NEW c \in Ctx, RunSelfStop(c), UNCHANGED <<main, m_cur>> PROVE TypeOK'
  <2>1. QueueTypeOK'
    BY <1>18, Zenon DEF RunSelfStop, QueueTypeOK, write_eventfd, Signalled
  <2>2. ThreadTypeOK'
    BY <1>18 DEF RunSelfStop, ThreadTypeOK, PCs, Executing, Polling, Goto, Unmoved
  <2> QED
    BY <1>18, <2>1, <2>2, Zenon DEF RunSelfStop, IoTypeOK, FrameTypeOK, MainTypeOK, Unmoved
<1>19. ASSUME NEW c \in Ctx, WorkerDeinit(c), UNCHANGED <<main, m_cur>> PROVE TypeOK'
  <2>1. QueueTypeOK'
    BY <1>19, Zenon DEF WorkerDeinit, QueueTypeOK, deinit
  <2>2. ThreadTypeOK'
    BY <1>19, Zenon DEF WorkerDeinit, ThreadTypeOK, PCs, Executing, Polling, Goto, Unmoved
  <2> QED
    BY <1>19, <2>1, <2>2, Zenon DEF WorkerDeinit, IoTypeOK, FrameTypeOK, MainTypeOK, Unmoved
<1>20. ASSUME NEW c \in Ctx, PollSubmit(c), UNCHANGED <<main, m_cur>> PROVE TypeOK'
  <2>1. IoTypeOK'
    <3>1. CASE SubmitSqes(c)
      BY <3>1 DEF IoTypeOK, SubmitSqes
    <3>2. CASE UNCHANGED io_vars
      BY <3>2, Zenon DEF IoTypeOK
    <3> QED BY <1>20, <3>1, <3>2, Zenon DEF PollSubmit
  <2>2. ThreadTypeOK'
    BY <1>20 DEF PollSubmit, ThreadTypeOK, PCs, Executing, Polling, Goto, Unmoved
  <2> QED
    BY <1>20, <2>1, <2>2, Zenon DEF PollSubmit, QueueTypeOK, FrameTypeOK, MainTypeOK, Unmoved
<1>21. ASSUME NEW c \in Ctx, PollSettle(c), UNCHANGED <<main, m_cur>> PROVE TypeOK'
  <2>1. IoTypeOK'
    BY <1>21, Zenon DEF PollSettle, IoTypeOK, SettleSubmit
  <2>2. ThreadTypeOK'
    BY <1>21, Zenon DEF PollSettle, ThreadTypeOK, PCs, Executing, Polling, Goto, Unmoved
  <2> QED
    BY <1>21, <2>1, <2>2, Zenon DEF PollSettle, QueueTypeOK, FrameTypeOK, MainTypeOK, Unmoved
<1>22. ASSUME NEW c \in Ctx, PollWait(c), UNCHANGED <<main, m_cur>> PROVE TypeOK'
  <2>1. QueueTypeOK'
    BY <1>22, Zenon DEF PollWait, QueueTypeOK, wait_eventfd
  <2>2. ThreadTypeOK'
    BY <1>22, Zenon DEF PollWait, ThreadTypeOK, PCs, Executing, Polling, Goto, Unmoved
  <2> QED
    BY <1>22, <2>1, <2>2, Zenon DEF PollWait, IoTypeOK, FrameTypeOK, MainTypeOK, Unmoved
<1>23. ASSUME NEW c \in Ctx, PollPeek(c), UNCHANGED <<main, m_cur>> PROVE TypeOK'
  <2>1. IoTypeOK'
    BY <1>23, EngineAssumption DEF PollPeek, IoTypeOK, PeekBatch
  <2>2. ThreadTypeOK'
    BY <1>23, Zenon DEF PollPeek, ThreadTypeOK, PCs, Executing, Polling, Goto, Unmoved
  <2> QED
    BY <1>23, <2>1, <2>2, Zenon DEF PollPeek, QueueTypeOK, FrameTypeOK, MainTypeOK, Unmoved
<1>24. ASSUME NEW c \in Ctx, HandleCqe(c), UNCHANGED <<main, m_cur>> PROVE TypeOK'
  <2>1. CqeTask(c) \in Tasks
    BY <1>24, <1>c, Zenon DEF HandleCqe
  <2>2. IoTypeOK'
    BY <1>24, <2>1 DEF HandleCqe, IoTypeOK, NextCqe
  <2>3. ThreadTypeOK'
    BY <1>24, <2>1, Zenon DEF HandleCqe, ThreadTypeOK, Steps
  <2> QED
    BY <1>24, <2>2, <2>3, Zenon DEF HandleCqe, QueueTypeOK, FrameTypeOK, MainTypeOK
<1>25. ASSUME NEW c \in Ctx, PollAdvance(c), UNCHANGED <<main, m_cur>> PROVE TypeOK'
  <2>1. IoTypeOK'
    BY <1>25 DEF PollAdvance, IoTypeOK, cq_advance
  <2>2. ThreadTypeOK'
    BY <1>25, Zenon DEF PollAdvance, ThreadTypeOK, PCs, Executing, Polling, Goto, Unmoved
  <2> QED
    BY <1>25, <2>1, <2>2, Zenon DEF PollAdvance, QueueTypeOK, FrameTypeOK, MainTypeOK, Unmoved
<1>26. ASSUME NEW c \in Ctx, SubmitDispatch(c) PROVE TypeOK'
  <2>1. ThreadTypeOK'
    BY <1>26, DispatchInCtx, Zenon DEF SubmitDispatch, ThreadTypeOK, Steps
  <2>2. MainTypeOK'
    BY <1>26, DispatchInCtx, Zenon DEF SubmitDispatch, MainTypeOK
  <2> QED
    BY <1>26, <2>1, <2>2, Zenon DEF SubmitDispatch, QueueTypeOK, IoTypeOK, FrameTypeOK
<1>27. ASSUME NEW c \in Ctx, Kernel(c) PROVE TypeOK'
  <2>1. QueueTypeOK'
    BY <1>27, Zenon DEF Kernel, QueueTypeOK, Complete, write_eventfd, Signalled
  <2>2. IoTypeOK'
    BY <1>27 DEF Kernel, IoTypeOK, Complete
  <2> QED
    BY <1>27, <2>1, <2>2, Zenon DEF Kernel, ThreadTypeOK, FrameTypeOK, MainTypeOK, Complete
<1>28. ASSUME NEW c \in Ctx, NEW t \in Tasks, MainSubmit(t, c) PROVE TypeOK'
  <2>1. QueueTypeOK'
    BY <1>28 DEF MainSubmit, QueueTypeOK, push, write_eventfd, Signalled
  <2>2. ThreadTypeOK'
    BY <1>28 DEF MainSubmit, ThreadTypeOK
  <2>3. FrameTypeOK'
    BY <1>28, Zenon DEF MainSubmit, FrameTypeOK
  <2>4. MainTypeOK'
    BY <1>28, DispatchInCtx, Zenon DEF MainSubmit, MainTypeOK
  <2> QED
    BY <1>28, <2>1, <2>2, <2>3, <2>4, Zenon DEF MainSubmit, IoTypeOK
<1>29. ASSUME MainLoop PROVE TypeOK'
  <2>1. MainTypeOK'
    BY <1>29, CtxNat DEF MainLoop, MainTypeOK, MainAt, MainPCs, Fields
  <2> QED
    BY <1>29, <2>1, Zenon DEF MainLoop, QueueTypeOK, IoTypeOK, ThreadTypeOK, FrameTypeOK
<1>30. ASSUME MainStart PROVE TypeOK'
  <2>1. ThreadTypeOK'
    BY <1>30, Zenon DEF MainStart, ThreadTypeOK, PCs, Executing, Polling, Goto
  <2>2. MainTypeOK'
    BY <1>30 DEF MainStart, MainTypeOK, MainAt, MainPCs, Fields
  <2> QED
    BY <1>30, <2>1, <2>2, Zenon DEF MainStart, QueueTypeOK, IoTypeOK, FrameTypeOK
<1>31. ASSUME MainAssignJob PROVE TypeOK'
  <2>1. ThreadTypeOK'
    BY <1>31, Zenon DEF MainAssignJob, ThreadTypeOK
  <2>2. MainTypeOK'
    BY <1>31, NextCtxType, Zenon DEF MainAssignJob, MainTypeOK, MainPCs
  <2> QED
    BY <1>31, <2>1, <2>2, Zenon DEF MainAssignJob, QueueTypeOK, IoTypeOK, FrameTypeOK
<1>32. ASSUME MainScan PROVE TypeOK'
  <2>1. MainTypeOK'
    BY <1>32, NextCtxType, CtxNat DEF MainScan, MainTypeOK, MainAt, MainPCs, Fields
  <2> QED
    BY <1>32, <2>1 DEF MainScan, QueueTypeOK, IoTypeOK, ThreadTypeOK, FrameTypeOK
<1>33. ASSUME MainRequestStop PROVE TypeOK'
  <2>1. ThreadTypeOK'
    BY <1>33, Zenon DEF MainRequestStop, ThreadTypeOK
  <2>2. MainTypeOK'
    BY <1>33 DEF MainRequestStop, MainTypeOK, MainAt, MainPCs, Fields
  <2> QED
    BY <1>33, <2>1, <2>2, Zenon DEF MainRequestStop, QueueTypeOK, IoTypeOK, FrameTypeOK
<1>34. ASSUME MainNotify PROVE TypeOK'
  <2>1. QueueTypeOK'
    BY <1>34, Zenon DEF MainNotify, QueueTypeOK, write_eventfd, Signalled
  <2>2. MainTypeOK'
    BY <1>34, NextCtxType, Zenon DEF MainNotify, MainTypeOK, MainPCs
  <2> QED
    BY <1>34, <2>1, <2>2, Zenon DEF MainNotify, IoTypeOK, ThreadTypeOK, FrameTypeOK
<1>35. ASSUME MainJoin PROVE TypeOK'
  <2>1. MainTypeOK'
    BY <1>35, NextCtxType, Zenon DEF MainJoin, MainTypeOK, MainPCs
  <2> QED
    BY <1>35, <2>1, Zenon DEF MainJoin, QueueTypeOK, IoTypeOK, ThreadTypeOK, FrameTypeOK
<1>36. CASE UNCHANGED vars
  BY <1>36, Zenon DEF vars, QueueTypeOK, IoTypeOK, ThreadTypeOK, FrameTypeOK, MainTypeOK
<1> QED
  BY ZenonT(30), <1>1, <1>2, <1>3, <1>4, <1>5, <1>6, <1>7, <1>8, <1>9, <1>10, <1>11, <1>12,
     <1>13, <1>14, <1>15, <1>16, <1>17, <1>18, <1>19, <1>20, <1>21, <1>22, <1>23, <1>24, <1>25,
     <1>26, <1>27, <1>28, <1>29, <1>30, <1>31, <1>32, <1>33, <1>34, <1>35, <1>36
     DEF Next, WorkerStep, Worker, Body, Call, Run, MainStep, Main, Over

\* Every step keeps the control facts: who holds a handle, who is inside
\* submit_task, and how far poll_submit has got through its batch.
LEMMA ControlStep == TypeOK /\ Control /\ [Next]_vars => Control'
<1> SUFFICES ASSUME TypeOK, Control, [Next]_vars, NEW d \in Ctx
             PROVE  (HoldsTask(d) /\ CallOK(d) /\ ExecReady(d) /\ BatchOK(d))'
  BY Zenon DEF Control
<1> DEFINE G == HoldsTask(d) /\ CallOK(d) /\ ExecReady(d) /\ BatchOK(d)
<1>0. G
  BY Zenon DEF Control
<1> USE DEF TypeOK, engine_vars, queue_vars, io_vars, count_vars, batch_vars, context_vars,
            thread_vars, frame_vars
<1>1. ASSUME NEW c \in Ctx, register_wait(c), UNCHANGED <<main, m_cur>> PROVE G'
  BY <1>1, <1>0
     DEF register_wait, NoCall, ThreadTypeOK, QueueTypeOK, HoldsTask, CallOK, ExecReady,
         BatchOK, ready, Executing
<1>2. ASSUME NEW c \in Ctx, SubmitPush(c), UNCHANGED <<main, m_cur>> PROVE G'
  <2>1. call[c].task \in Tasks /\ call[c].ctx \in Ctx /\ pc[c] \in {"body", "cqe"}
    BY <1>2 DEF SubmitPush, Control, CallOK, NoCall, ThreadTypeOK
  <2>2. HoldsTask(d)' /\ BatchOK(d)'
    BY <1>2, <1>0, Zenon DEF SubmitPush, HoldsTask, BatchOK
  <2>3. CallOK(d)'
    BY <1>2, <1>0, <2>1 DEF SubmitPush, CallOK, ThreadTypeOK
  <2>4. ExecReady(d)'
    <3>1. CASE d = call[c].ctx
      <4>1. m_task_queue'[d] = Append(m_task_queue[d], call[c].task)
        BY <1>2, <3>1, Zenon DEF SubmitPush, push, QueueTypeOK
      <4> QED BY <4>1, <2>1, AppendIs DEF ExecReady, ready, QueueTypeOK
    <3>2. CASE d # call[c].ctx
      BY <1>2, <1>0, <3>2, Zenon DEF SubmitPush, push, ExecReady, ready, QueueTypeOK
    <3> QED BY <3>1, <3>2, Zenon
  <2> QED BY <2>2, <2>3, <2>4, Zenon
<1>3. ASSUME NEW c \in Ctx, SubmitWake(c), UNCHANGED <<main, m_cur>> PROVE G'
  BY <1>3, <1>0, Zenon
     DEF SubmitWake, write_eventfd, Signalled, NoCall, ThreadTypeOK, QueueTypeOK, HoldsTask,
         CallOK, ExecReady, BatchOK, ready, Executing
<1>4. ASSUME NEW c \in Ctx, NEW t \in Tasks, SpawnTask(c, t), UNCHANGED <<main, m_cur>> PROVE G'
  <2>1. HoldsTask(d)' /\ ExecReady(d)' /\ BatchOK(d)'
    BY <1>4, <1>0, Zenon DEF SpawnTask, HoldsTask, ExecReady, BatchOK, ready
  <2>2. CallOK(d)'
    BY <1>4, <1>0 DEF SpawnTask, Submit, InBody, CallOK, ThreadTypeOK
  <2> QED BY <2>1, <2>2, Zenon
<1>5. ASSUME NEW c \in Ctx, NEW t \in Tasks, ResumeParked(c, t), UNCHANGED <<main, m_cur>> PROVE G'
  <2>1. HoldsTask(d)' /\ ExecReady(d)' /\ BatchOK(d)'
    BY <1>5, <1>0, Zenon DEF ResumeParked, HoldsTask, ExecReady, BatchOK, ready
  <2>2. CallOK(d)'
    BY <1>5, <1>0 DEF ResumeParked, Submit, InBody, CallOK, ThreadTypeOK
  <2> QED BY <2>1, <2>2, Zenon
<1>6. ASSUME NEW c \in Ctx, AwaitIo(c), UNCHANGED <<main, m_cur>> PROVE G'
  BY <1>6, <1>0, Zenon
     DEF AwaitIo, add_io_submit, Suspend, Executing, Polling, Goto, InBody, NoCall,
         ThreadTypeOK, QueueTypeOK, IoTypeOK, HoldsTask, CallOK, ExecReady, BatchOK, ready
<1>7. ASSUME NEW c \in Ctx, AwaitPrimitive(c), UNCHANGED <<main, m_cur>> PROVE G'
  BY <1>7, <1>0, Zenon
     DEF AwaitPrimitive, Suspend, Executing, Polling, Goto, InBody, NoCall, ThreadTypeOK,
         QueueTypeOK, HoldsTask, CallOK, ExecReady, BatchOK, ready
<1>8. ASSUME NEW c \in Ctx, CoReturn(c), UNCHANGED <<main, m_cur>> PROVE G'
  BY <1>8, <1>0, Zenon
     DEF CoReturn, Executing, Polling, Goto, InBody, NoCall, ThreadTypeOK, QueueTypeOK,
         HoldsTask, CallOK, ExecReady, BatchOK, ready
<1>9. ASSUME NEW c \in Ctx, ExecPop(c), UNCHANGED <<main, m_cur>> PROVE G'
  <2>1. HoldsTask(d)'
    BY <1>9, <1>0 DEF ExecPop, schedule, ready, Goto, QueueTypeOK, ThreadTypeOK, HoldsTask
  <2>2. CallOK(d)'
    BY <1>9, <1>0, Zenon DEF ExecPop, Goto, ThreadTypeOK, CallOK
  <2>3. ExecReady(d)'
    BY <1>9, <1>0, Zenon
       DEF ExecPop, schedule, Goto, QueueTypeOK, ThreadTypeOK, ExecReady, ready
  <2>4. BatchOK(d)'
    BY <1>9, <1>0, Zenon DEF ExecPop, BatchOK
  <2> QED BY <2>1, <2>2, <2>3, <2>4, Zenon
<1>10. ASSUME NEW c \in Ctx, ExecDone(c), UNCHANGED <<main, m_cur>> PROVE G'
  BY <1>10, <1>0, Zenon
     DEF ExecDone, Executing, Polling, Goto, NoCall, ThreadTypeOK, QueueTypeOK, HoldsTask,
         CallOK, ExecReady, BatchOK, ready
<1>11. ASSUME NEW c \in Ctx, clean(c), UNCHANGED <<main, m_cur>> PROVE G'
  BY <1>11, <1>0, Zenon
     DEF clean, Executing, Polling, Goto, NoCall, ThreadTypeOK, QueueTypeOK, HoldsTask,
         CallOK, ExecReady, BatchOK, ready
<1>12. ASSUME NEW c \in Ctx, unregister_wait(c), UNCHANGED <<main, m_cur>> PROVE G'
  BY <1>12, <1>0, Zenon
     DEF unregister_wait, write_eventfd, Signalled, Executing, Polling, Goto, NoCall,
         ThreadTypeOK, QueueTypeOK, HoldsTask, CallOK, ExecReady, BatchOK, ready
<1>13. ASSUME NEW c \in Ctx, ClearRunning(c), UNCHANGED <<main, m_cur>> PROVE G'
  BY <1>13, <1>0, Zenon
     DEF ClearRunning, Executing, Polling, Goto, NoCall, ThreadTypeOK, QueueTypeOK,
         HoldsTask, CallOK, ExecReady, BatchOK, ready
<1>14. ASSUME NEW c \in Ctx, WorkerInit(c), UNCHANGED <<main, m_cur>> PROVE G'
  BY <1>14, <1>0, Zenon
     DEF WorkerInit, Executing, Polling, Goto, Unmoved, NoCall, ThreadTypeOK, QueueTypeOK,
         HoldsTask, CallOK, ExecReady, BatchOK, ready
<1>15. ASSUME NEW c \in Ctx, RunWhile(c), UNCHANGED <<main, m_cur>> PROVE G'
  BY <1>15, <1>0, Zenon
     DEF RunWhile, Executing, Polling, Goto, Unmoved, NoCall, ThreadTypeOK, QueueTypeOK,
         HoldsTask, CallOK, ExecReady, BatchOK, ready
<1>16. ASSUME NEW c \in Ctx, RunWaitCount(c), UNCHANGED <<main, m_cur>> PROVE G'
  BY <1>16, <1>0, Zenon
     DEF RunWaitCount, Executing, Polling, Goto, Unmoved, NoCall, ThreadTypeOK, QueueTypeOK,
         HoldsTask, CallOK, ExecReady, BatchOK, ready
<1>17. ASSUME NEW c \in Ctx, RunReady(c), UNCHANGED <<main, m_cur>> PROVE G'
  BY <1>17, <1>0
     DEF RunReady, Executing, Polling, Goto, Unmoved, NoCall, ThreadTypeOK, QueueTypeOK,
         HoldsTask, CallOK, ExecReady, BatchOK, ready
<1>18. ASSUME NEW c \in Ctx, RunSelfStop(c), UNCHANGED <<main, m_cur>> PROVE G'
  BY <1>18, <1>0
     DEF RunSelfStop, write_eventfd, Signalled, Executing, Polling, Goto, Unmoved, NoCall,
         ThreadTypeOK, QueueTypeOK, HoldsTask, CallOK, ExecReady, BatchOK, ready
<1>19. ASSUME NEW c \in Ctx, WorkerDeinit(c), UNCHANGED <<main, m_cur>> PROVE G'
  BY <1>19, <1>0, Zenon
     DEF WorkerDeinit, deinit, Executing, Polling, Goto, Unmoved, NoCall, ThreadTypeOK,
         QueueTypeOK, HoldsTask, CallOK, ExecReady, BatchOK, ready
<1>20. ASSUME NEW c \in Ctx, PollSubmit(c), UNCHANGED <<main, m_cur>> PROVE G'
  <2>1. UNCHANGED <<queue_vars, cq, batch_vars, coro, call>>
    BY <1>20, Zenon DEF PollSubmit, SubmitSqes, Unmoved
  <2>2. pc[c] = "poll" /\ \E to \in {"settle", "pollwait"} : pc' = [pc EXCEPT ![c] = to]
    BY <1>20, Zenon DEF PollSubmit, Goto
  <2>3. HoldsTask(d)' /\ CallOK(d)' /\ ExecReady(d)'
    BY <2>1, <2>2, <1>0, Zenon DEF HoldsTask, CallOK, ExecReady, ready, ThreadTypeOK, Executing
  <2>4. BatchOK(d)'
    BY <2>1, <1>0, Zenon DEF BatchOK
  <2> QED BY <2>3, <2>4, Zenon
<1>21. ASSUME NEW c \in Ctx, PollSettle(c), UNCHANGED <<main, m_cur>> PROVE G'
  BY <1>21, <1>0, Zenon
     DEF PollSettle, SettleSubmit, Executing, Polling, Goto, Unmoved, NoCall, ThreadTypeOK,
         QueueTypeOK, IoTypeOK, HoldsTask, CallOK, ExecReady, BatchOK, ready
<1>22. ASSUME NEW c \in Ctx, PollWait(c), UNCHANGED <<main, m_cur>> PROVE G'
  BY <1>22, <1>0, Zenon
     DEF PollWait, wait_eventfd, Executing, Polling, Goto, Unmoved, NoCall, ThreadTypeOK,
         QueueTypeOK, HoldsTask, CallOK, ExecReady, BatchOK, ready
<1>23. ASSUME NEW c \in Ctx, PollPeek(c), UNCHANGED <<main, m_cur>> PROVE G'
  <2>1. HoldsTask(d)' /\ CallOK(d)' /\ ExecReady(d)'
    BY <1>23, <1>0, Zenon DEF PollPeek, PeekBatch, Goto, Unmoved, HoldsTask, CallOK, ExecReady,
                       ready, ThreadTypeOK, Executing
  <2>2. BatchOK(d)'
    <3>1. CASE UNCHANGED io_vars
      BY <3>1, <1>0, Zenon DEF BatchOK
    <3>2. CASE PeekBatch(c)
      BY <3>2, <1>0, EngineAssumption DEF PeekBatch, BatchOK, IoTypeOK
    <3> QED BY <1>23, <3>1, <3>2, Zenon DEF PollPeek
  <2> QED BY <2>1, <2>2, Zenon
<1>24. ASSUME NEW c \in Ctx, HandleCqe(c), UNCHANGED <<main, m_cur>> PROVE G'
  <2>1. CqeTask(c) \in Tasks
    BY <1>24 DEF HandleCqe, Control, BatchOK, CqeTask, IoTypeOK
  <2>2. HoldsTask(d)' /\ ExecReady(d)'
    BY <1>24, <1>0, Zenon DEF HandleCqe, HoldsTask, ExecReady, ready
  <2>3. CallOK(d)'
    BY <1>24, <1>0, <2>1, Zenon DEF HandleCqe, CallOK, ThreadTypeOK
  <2>4. BatchOK(d)'
    BY <1>24, <1>0 DEF HandleCqe, NextCqe, BatchOK, IoTypeOK
  <2> QED BY <2>2, <2>3, <2>4, Zenon
<1>25. ASSUME NEW c \in Ctx, PollAdvance(c), UNCHANGED <<main, m_cur>> PROVE G'
  <2>1. HoldsTask(d)' /\ CallOK(d)' /\ ExecReady(d)'
    BY <1>25, <1>0, Zenon DEF PollAdvance, Goto, Unmoved, HoldsTask, CallOK, ExecReady, ready,
                       ThreadTypeOK, Executing
  <2>2. BatchOK(d)'
    <3>1. CASE d = c
      <4>1. nready'[c] = 0 /\ handled'[c] = 0
        BY <1>25, Zenon DEF PollAdvance, cq_advance, IoTypeOK
      <4>2. cq'[c] \in Seq(Tasks)
        BY TypeStep, Zenon DEF IoTypeOK
      <4> QED BY <3>1, <4>1, <4>2 DEF BatchOK
    <3>2. CASE d # c
      BY <1>25, <1>0, <3>2, Zenon DEF PollAdvance, cq_advance, BatchOK, IoTypeOK
    <3> QED BY <3>1, <3>2, Zenon
  <2> QED BY <2>1, <2>2, Zenon
<1>26. ASSUME NEW c \in Ctx, SubmitDispatch(c) PROVE G'
  <2>1. HoldsTask(d)' /\ ExecReady(d)' /\ BatchOK(d)'
    BY <1>26, <1>0, Zenon DEF SubmitDispatch, HoldsTask, ExecReady, BatchOK, ready
  <2>2. CallOK(d)'
    <3>1. CASE d = c
      <4>1. call[c] # NoCall
        BY <1>26 DEF SubmitDispatch, NoCall
      <4>2. call'[c].task = call[c].task /\ pc' = pc
        BY <1>26, Zenon DEF SubmitDispatch, ThreadTypeOK
      <4> QED BY <1>0, <3>1, <4>1, <4>2, Zenon DEF CallOK
    <3>2. CASE d # c
      BY <1>26, <1>0, <3>2, Zenon DEF SubmitDispatch, CallOK, ThreadTypeOK
    <3> QED BY <3>1, <3>2, Zenon
  <2> QED BY <2>1, <2>2, Zenon
<1>27. ASSUME NEW c \in Ctx, Kernel(c) PROVE G'
  <2>1. HoldsTask(d)' /\ CallOK(d)' /\ ExecReady(d)'
    BY <1>27, <1>0, Zenon DEF Kernel, Complete, HoldsTask, CallOK, ExecReady, ready
  <2>2. PICK t \in Tasks : cq' = [cq EXCEPT ![c] = Append(@, t)] /\ UNCHANGED batch_vars
    BY <1>27, Zenon DEF Kernel, Complete
  <2>3. Len(cq'[d]) >= Len(cq[d]) /\ Len(cq'[d]) \in Nat /\ Len(cq[d]) \in Nat
    BY <2>2, AppendIs, LenIs DEF IoTypeOK
  <2>4. BatchOK(d)'
    BY <2>2, <2>3, <1>0 DEF BatchOK, IoTypeOK
  <2> QED BY <2>1, <2>4, Zenon
<1>28. ASSUME NEW c \in Ctx, NEW t \in Tasks, MainSubmit(t, c) PROVE G'
  <2>1. HoldsTask(d)' /\ CallOK(d)' /\ BatchOK(d)'
    BY <1>28, <1>0, Zenon DEF MainSubmit, HoldsTask, CallOK, BatchOK
  <2>2. ExecReady(d)'
    <3>1. CASE d = c
      BY <1>28, <3>1 DEF MainSubmit, push, ExecReady, ready, QueueTypeOK
    <3>2. CASE d # c
      BY <1>28, <1>0, <3>2, Zenon DEF MainSubmit, push, ExecReady, ready, QueueTypeOK
    <3> QED BY <3>1, <3>2, Zenon
  <2> QED BY <2>1, <2>2, Zenon
<1>29. ASSUME MainLoop PROVE G'
  BY <1>29, <1>0, Zenon
     DEF MainLoop, MainAt, MainPCs, Fields, NoCall, ThreadTypeOK, QueueTypeOK, HoldsTask,
         CallOK, ExecReady, BatchOK, ready, Executing
<1>30. ASSUME MainStart PROVE G'
  BY <1>30, <1>0, Zenon
     DEF MainStart, Executing, Polling, Goto, MainAt, MainPCs, Fields, NoCall, ThreadTypeOK,
         QueueTypeOK, HoldsTask, CallOK, ExecReady, BatchOK, ready
<1>31. ASSUME MainAssignJob PROVE G'
  BY <1>31, <1>0, Zenon
     DEF MainAssignJob, MainPCs, NoCall, ThreadTypeOK, QueueTypeOK, HoldsTask, CallOK,
         ExecReady, BatchOK, ready, Executing
<1>32. ASSUME MainScan PROVE G'
  BY <1>32, <1>0, Zenon
     DEF MainScan, MainAt, MainPCs, Fields, NoCall, ThreadTypeOK, QueueTypeOK, HoldsTask,
         CallOK, ExecReady, BatchOK, ready, Executing
<1>33. ASSUME MainRequestStop PROVE G'
  BY <1>33, <1>0, Zenon
     DEF MainRequestStop, MainAt, MainPCs, Fields, NoCall, ThreadTypeOK, QueueTypeOK,
         HoldsTask, CallOK, ExecReady, BatchOK, ready, Executing
<1>34. ASSUME MainNotify PROVE G'
  BY <1>34, <1>0, Zenon
     DEF MainNotify, write_eventfd, Signalled, MainPCs, NoCall, ThreadTypeOK, QueueTypeOK,
         HoldsTask, CallOK, ExecReady, BatchOK, ready, Executing
<1>35. ASSUME MainJoin PROVE G'
  BY <1>35, <1>0, Zenon
     DEF MainJoin, MainPCs, NoCall, ThreadTypeOK, QueueTypeOK, HoldsTask, CallOK, ExecReady,
         BatchOK, ready, Executing
<1>36. CASE UNCHANGED vars
  BY <1>36, <1>0, Zenon DEF vars, HoldsTask, CallOK, ExecReady, BatchOK, ready
<1> QED
  BY ZenonT(30), <1>1, <1>2, <1>3, <1>4, <1>5, <1>6, <1>7, <1>8, <1>9, <1>10, <1>11, <1>12,
     <1>13, <1>14, <1>15, <1>16, <1>17, <1>18, <1>19, <1>20, <1>21, <1>22, <1>23, <1>24, <1>25,
     <1>26, <1>27, <1>28, <1>29, <1>30, <1>31, <1>32, <1>33, <1>34, <1>35, <1>36
     DEF Next, WorkerStep, Worker, Body, Call, Run, MainStep, Main, Over

-----------------------------------------------------------------------------
(* What a worker's loop decides by.                                        *)

\* A step that moves nothing WaitCountExact counts.
Quiet ==
    /\ UNCHANGED <<m_wait_count, m_task_queue>>
    /\ \A c \in Ctx : pc'[c] \in Executing <=> pc[c] \in Executing
    /\ \A c \in Ctx : Calling(c, "push")' = Calling(c, "push")

\* All steps but five are of this kind: only register_wait, the push, the pop,
\* unregister_wait and the main thread's submit move a counted handle.
LEMMA QuietSteps ==
  ASSUME TypeOK, Control, [Next]_vars,
         \A c \in Ctx : ~(register_wait(c) \/ SubmitPush(c) \/ ExecPop(c) \/ unregister_wait(c)),
         \A c \in Ctx, t \in Tasks : ~MainSubmit(t, c)
  PROVE  Quiet
<1> USE DEF TypeOK, engine_vars, queue_vars, context_vars, thread_vars, Quiet, Calling
<1>1. ASSUME NEW c \in Ctx, SubmitWake(c) PROVE Quiet
  BY <1>1, Zenon DEF SubmitWake, NoCall, ThreadTypeOK
<1>2. ASSUME NEW c \in Ctx, NEW t \in Tasks, SpawnTask(c, t) PROVE Quiet
  <2>1. call[c].step = "none" /\ \E x : x.step # "push" /\ call' = [call EXCEPT ![c] = x]
    BY <1>2 DEF SpawnTask, Submit, InBody, NoCall
  <2> QED
    BY <1>2, <2>1, Zenon DEF SpawnTask, ThreadTypeOK
<1>3. ASSUME NEW c \in Ctx, NEW t \in Tasks, ResumeParked(c, t) PROVE Quiet
  <2>1. call[c].step = "none" /\ \E x : x.step # "push" /\ call' = [call EXCEPT ![c] = x]
    BY <1>3 DEF ResumeParked, Submit, InBody, NoCall
  <2> QED
    BY <1>3, <2>1, Zenon DEF ResumeParked, ThreadTypeOK
<1>4. ASSUME NEW c \in Ctx, AwaitIo(c) PROVE Quiet
  BY <1>4, Zenon DEF AwaitIo, Suspend, Executing, Goto, InBody, ThreadTypeOK
<1>5. ASSUME NEW c \in Ctx, AwaitPrimitive(c) PROVE Quiet
  BY <1>5, Zenon DEF AwaitPrimitive, Suspend, Executing, Goto, InBody, ThreadTypeOK
<1>6. ASSUME NEW c \in Ctx, CoReturn(c) PROVE Quiet
  BY <1>6, Zenon DEF CoReturn, Executing, Goto, InBody, ThreadTypeOK
<1>7. ASSUME NEW c \in Ctx, ExecDone(c) PROVE Quiet
  BY <1>7, Zenon DEF ExecDone, Executing, Goto, ThreadTypeOK
<1>8. ASSUME NEW c \in Ctx, clean(c) PROVE Quiet
  BY <1>8, Zenon DEF clean, Executing, Goto, ThreadTypeOK
<1>9. ASSUME NEW c \in Ctx, ClearRunning(c) PROVE Quiet
  BY <1>9, Zenon DEF ClearRunning, Executing, Goto, ThreadTypeOK
<1>10. ASSUME NEW c \in Ctx, WorkerInit(c) PROVE Quiet
  BY <1>10, Zenon DEF WorkerInit, Executing, Goto, Unmoved, ThreadTypeOK
<1>11. ASSUME NEW c \in Ctx, RunWhile(c) PROVE Quiet
  BY <1>11, Zenon DEF RunWhile, Executing, Goto, Unmoved, ThreadTypeOK
<1>12. ASSUME NEW c \in Ctx, RunWaitCount(c) PROVE Quiet
  BY <1>12, Zenon DEF RunWaitCount, Executing, Goto, Unmoved, ThreadTypeOK
<1>13. ASSUME NEW c \in Ctx, RunReady(c) PROVE Quiet
  BY <1>13, Zenon DEF RunReady, Executing, Goto, Unmoved, ThreadTypeOK
<1>14. ASSUME NEW c \in Ctx, RunSelfStop(c) PROVE Quiet
  BY <1>14, Zenon DEF RunSelfStop, Executing, Goto, Unmoved, ThreadTypeOK
<1>15. ASSUME NEW c \in Ctx, WorkerDeinit(c) PROVE Quiet
  BY <1>15, Zenon DEF WorkerDeinit, Executing, Goto, Unmoved, ThreadTypeOK
<1>16. ASSUME NEW c \in Ctx, PollSubmit(c) PROVE Quiet
  BY <1>16, Zenon DEF PollSubmit, Executing, Goto, Unmoved, ThreadTypeOK
<1>17. ASSUME NEW c \in Ctx, PollSettle(c) PROVE Quiet
  BY <1>17, Zenon DEF PollSettle, Executing, Goto, Unmoved, ThreadTypeOK
<1>18. ASSUME NEW c \in Ctx, PollWait(c) PROVE Quiet
  BY <1>18, Zenon DEF PollWait, Executing, Goto, Unmoved, ThreadTypeOK
<1>19. ASSUME NEW c \in Ctx, PollPeek(c) PROVE Quiet
  BY <1>19, Zenon DEF PollPeek, Executing, Goto, Unmoved, ThreadTypeOK
<1>20. ASSUME NEW c \in Ctx, HandleCqe(c) PROVE Quiet
  <2>1. PICK x : x = [step |-> "register", task |-> CqeTask(c), ctx |-> c]
    BY Zenon
  <2>2. x.step # "push" /\ NoCall.step # "push"
    BY ONLY <2>1 DEF NoCall
  <2>3. /\ call[c] = NoCall /\ call' = [call EXCEPT ![c] = x]
        /\ UNCHANGED <<queue_vars, m_wait_count, thread_vars>>
    BY <1>20, <2>1, Zenon DEF HandleCqe
  <2> QED
    BY <2>2, <2>3, Zenon DEF ThreadTypeOK
<1>21. ASSUME NEW c \in Ctx, PollAdvance(c) PROVE Quiet
  BY <1>21, Zenon DEF PollAdvance, Executing, Goto, Unmoved, ThreadTypeOK
<1>22. ASSUME NEW c \in Ctx, SubmitDispatch(c) PROVE Quiet
  BY <1>22, Zenon DEF SubmitDispatch, ThreadTypeOK
<1>23. ASSUME NEW c \in Ctx, Kernel(c) PROVE Quiet
  BY <1>23, Zenon DEF Kernel, Complete
<1>24. ASSUME MainLoop PROVE Quiet
  BY <1>24, Zenon DEF MainLoop
<1>25. ASSUME MainStart PROVE Quiet
  BY <1>25, Zenon DEF MainStart, Executing, Goto, ThreadTypeOK
<1>26. ASSUME MainAssignJob PROVE Quiet
  BY <1>26, Zenon DEF MainAssignJob, ThreadTypeOK
<1>27. ASSUME MainScan PROVE Quiet
  BY <1>27, Zenon DEF MainScan
<1>28. ASSUME MainRequestStop PROVE Quiet
  BY <1>28, Zenon DEF MainRequestStop, ThreadTypeOK
<1>29. ASSUME MainNotify PROVE Quiet
  BY <1>29, Zenon DEF MainNotify
<1>30. ASSUME MainJoin PROVE Quiet
  BY <1>30, Zenon DEF MainJoin
<1>31. CASE UNCHANGED vars
  BY <1>31, Zenon DEF vars
<1> QED
  BY <1>1, <1>2, <1>3, <1>4, <1>5, <1>6, <1>7, <1>8, <1>9, <1>10, <1>11, <1>12, <1>13,
     <1>14, <1>15, <1>16, <1>17, <1>18, <1>19, <1>20, <1>21, <1>22, <1>23, <1>24, <1>25,
     <1>26, <1>27, <1>28, <1>29, <1>30, <1>31, ZenonT(30)
     DEF Next, WorkerStep, Worker, Body, Call, Run, MainStep, Main, Over

\* The submitters of a context are finitely many.
LEMMA CallingFinite ==
  ASSUME NEW c, NEW step
  PROVE  IsFiniteSet(Calling(c, step)) /\ Cardinality(Calling(c, step)) \in Nat
<1>1. IsFiniteSet(Ctx)
  BY EngineAssumption, FS_Interval DEF Ctx
<1>2. Calling(c, step) \in SUBSET Ctx
  BY Zenon DEF Calling
<1> QED
  BY <1>1, <1>2, FS_Subset, FS_CardinalityType, Zenon

\* Every step keeps m_wait_count exact: each of the counted places gains or loses
\* one handle exactly when the counter, or another place, moves.
LEMMA WaitCountStep == TypeOK /\ Control /\ WaitCountExact /\ [Next]_vars => WaitCountExact'
<1> SUFFICES ASSUME TypeOK, Control, WaitCountExact, [Next]_vars, NEW d \in Ctx
             PROVE  m_wait_count'[d] = Len(m_task_queue'[d])
                                       + (IF pc'[d] \in Executing THEN 1 ELSE 0)
                                       + Cardinality(Calling(d, "push")')
  BY Zenon DEF WaitCountExact
<1> DEFINE Goal == m_wait_count'[d] = Len(m_task_queue'[d])
                                      + (IF pc'[d] \in Executing THEN 1 ELSE 0)
                                      + Cardinality(Calling(d, "push")')
           Count == Cardinality(Calling(d, "push"))
           Busy == IF pc[d] \in Executing THEN 1 ELSE 0
<1>a. m_wait_count[d] = Len(m_task_queue[d]) + Busy + Count
  BY Zenon DEF WaitCountExact
<1>b. IsFiniteSet(Calling(d, "push")) /\ Count \in Nat
  BY CallingFinite, Zenon
<1>c. Len(m_task_queue[d]) \in Nat /\ m_wait_count[d] \in Int
  BY DEF TypeOK, QueueTypeOK, ThreadTypeOK
<1>d. m_task_queue[d] \in Seq(Tasks)
  BY Zenon DEF TypeOK, QueueTypeOK
<1>1. ASSUME NEW w \in Ctx, register_wait(w) PROVE Goal
  <2>1. UNCHANGED <<m_task_queue, pc>> /\ call[w].step = "register" /\ call[w].ctx \in Ctx
    BY <1>1, Zenon DEF register_wait, engine_vars, queue_vars, thread_vars, TypeOK, ThreadTypeOK
  <2>2. CASE d = call[w].ctx
    <3>1. Calling(d, "push")' = Calling(d, "push") \cup {w} /\ w \notin Calling(d, "push")
      BY <1>1, <2>1, <2>2, Zenon DEF register_wait, Calling, TypeOK, ThreadTypeOK
    <3>2. Cardinality(Calling(d, "push")') = Count + 1
      BY <3>1, <1>b, FS_AddElement, Zenon
    <3>3. m_wait_count'[d] = m_wait_count[d] + 1
      BY <1>1, <2>2, Zenon DEF register_wait, TypeOK, ThreadTypeOK
    <3>5. CASE pc[d] \in Executing
      BY <3>5, <3>2, <3>3, <2>1, <1>a, <1>b, <1>c
    <3>6. CASE pc[d] \notin Executing
      BY <3>6, <3>2, <3>3, <2>1, <1>a, <1>b, <1>c
    <3> QED BY <3>5, <3>6, Zenon
  <2>3. CASE d # call[w].ctx
    <3>1. Calling(d, "push")' = Calling(d, "push")
      BY <1>1, <2>1, <2>3 DEF register_wait, Calling, TypeOK, ThreadTypeOK
    <3>2. m_wait_count'[d] = m_wait_count[d]
      BY <1>1, <2>3, Zenon DEF register_wait, TypeOK, ThreadTypeOK
    <3> QED BY <3>1, <3>2, <2>1, <1>a, Zenon
  <2> QED BY <2>2, <2>3, Zenon
<1>2. ASSUME NEW w \in Ctx, SubmitPush(w) PROVE Goal
  <2>1. /\ UNCHANGED <<m_wait_count, pc>> /\ call[w].step = "push" /\ call[w].ctx \in Ctx
        /\ call[w].task \in Tasks
    BY <1>2 DEF SubmitPush, thread_vars, TypeOK, ThreadTypeOK, Control, CallOK, NoCall
  <2>2. CASE d = call[w].ctx
    <3>1. Calling(d, "push")' = Calling(d, "push") \ {w} /\ w \in Calling(d, "push")
      BY <1>2, <2>1, <2>2, Zenon DEF SubmitPush, Calling, TypeOK, ThreadTypeOK
    <3>2. Cardinality(Calling(d, "push")') = Count - 1
      BY <3>1, <1>b, FS_RemoveElement, Zenon
    <3>3. m_task_queue'[d] = Append(m_task_queue[d], call[w].task)
      BY <1>2, <2>2, Zenon DEF SubmitPush, push, TypeOK, QueueTypeOK
    <3>4. Len(m_task_queue'[d]) = Len(m_task_queue[d]) + 1
      BY <3>3, <2>1, <1>d, AppendIs
    <3>5. m_wait_count'[d] = m_wait_count[d] /\ pc'[d] = pc[d]
      BY <2>1, Zenon
    <3>6. CASE pc[d] \in Executing
      BY <3>6, <3>2, <3>4, <3>5, <1>a, <1>b, <1>c
    <3>7. CASE pc[d] \notin Executing
      BY <3>7, <3>2, <3>4, <3>5, <1>a, <1>b, <1>c
    <3> QED BY <3>6, <3>7, Zenon
  <2>3. CASE d # call[w].ctx
    <3>1. Calling(d, "push")' = Calling(d, "push")
      BY <1>2, <2>1, <2>3 DEF SubmitPush, Calling, TypeOK, ThreadTypeOK
    <3>2. m_task_queue'[d] = m_task_queue[d]
      BY <1>2, <2>3, Zenon DEF SubmitPush, push, TypeOK, QueueTypeOK
    <3> QED BY <3>1, <3>2, <2>1, <1>a, Zenon
  <2> QED BY <2>2, <2>3, Zenon
<1>3. ASSUME NEW c \in Ctx, ExecPop(c) PROVE Goal
  <2>1. UNCHANGED m_wait_count /\ Calling(d, "push")' = Calling(d, "push")
    BY <1>3, Zenon DEF ExecPop, Calling
  <2>2. CASE d = c
    <3>1. Len(m_task_queue'[d]) = Len(m_task_queue[d]) - 1
      BY <1>3, <2>2, <1>d DEF ExecPop, schedule, ready, TypeOK, QueueTypeOK
    <3>2. pc[d] \notin Executing /\ pc'[d] \in Executing
      BY <1>3, <2>2, Zenon DEF ExecPop, Goto, Executing, TypeOK, ThreadTypeOK
    <3> QED BY <3>1, <3>2, <2>1, <1>a, <1>b, <1>c
  <2>3. CASE d # c
    BY <1>3, <2>1, <2>3, <1>a, Zenon
       DEF ExecPop, schedule, Goto, TypeOK, QueueTypeOK, ThreadTypeOK
  <2> QED BY <2>2, <2>3, Zenon
<1>4. ASSUME NEW c \in Ctx, unregister_wait(c) PROVE Goal
  <2>1. UNCHANGED m_task_queue /\ Calling(d, "push")' = Calling(d, "push")
    BY <1>4, Zenon DEF unregister_wait, Calling
  <2>2. CASE d = c
    <3>1. m_wait_count'[d] = m_wait_count[d] - 1
      BY <1>4, <2>2, Zenon DEF unregister_wait, TypeOK, ThreadTypeOK
    <3>2. pc[d] \in Executing /\ pc'[d] \notin Executing
      BY <1>4, <2>2, Zenon DEF unregister_wait, Goto, Executing, TypeOK, ThreadTypeOK
    <3> QED BY <3>1, <3>2, <2>1, <1>a, <1>b, <1>c
  <2>3. CASE d # c
    BY <1>4, <2>1, <2>3, <1>a, Zenon DEF unregister_wait, Goto, TypeOK, ThreadTypeOK
  <2> QED BY <2>2, <2>3, Zenon
<1>5. ASSUME NEW c \in Ctx, NEW t \in Tasks, MainSubmit(t, c) PROVE Goal
  <2>1. UNCHANGED pc /\ Calling(d, "push")' = Calling(d, "push")
    BY <1>5, Zenon DEF MainSubmit, Calling, thread_vars
  <2>2. CASE d = c
    <3>1. m_wait_count'[d] = m_wait_count[d] + 1
      BY <1>5, <2>2, Zenon DEF MainSubmit, TypeOK, ThreadTypeOK
    <3>2. Len(m_task_queue'[d]) = Len(m_task_queue[d]) + 1
      BY <1>5, <2>2, <1>d DEF MainSubmit, push, TypeOK, QueueTypeOK
    <3>5. CASE pc[d] \in Executing
      BY <3>5, <3>1, <3>2, <2>1, <1>a, <1>b, <1>c
    <3>6. CASE pc[d] \notin Executing
      BY <3>6, <3>1, <3>2, <2>1, <1>a, <1>b, <1>c
    <3> QED BY <3>5, <3>6, Zenon
  <2>3. CASE d # c
    BY <1>5, <2>1, <2>3, <1>a, Zenon DEF MainSubmit, push, TypeOK, QueueTypeOK, ThreadTypeOK
  <2> QED BY <2>2, <2>3, Zenon
<1>6. CASE Quiet
  BY <1>6, <1>a, Zenon DEF Quiet
<1> QED
  BY <1>1, <1>2, <1>3, <1>4, <1>5, <1>6, QuietSteps, Zenon

-----------------------------------------------------------------------------
(* The I/O counters.                                                       *)

\* What the counters of engine c cover. The bounds are one-sided: that no I/O
\* escapes the counters is what run's exit test and poll_submit's blocking test
\* rely on.
IoCovered(c) ==
    /\ IsFiniteSet(sq[c]) /\ IsFiniteSet(inflight[c])
    /\ pc[c] # "settle" => Cardinality(sq[c]) <= m_io_submit_count[c]
    /\ Cardinality(inflight[c]) + Len(cq[c]) <= m_io_running_count[c]

\* What the worker knows of its counters from the tests it has passed.
IoTested(c) ==
    /\ pc[c] = "settle" => sq[c] = {} /\ m_io_running_count[c] > 0
    /\ pc[c] = "pollwait" => m_io_submit_count[c] = 0
    /\ pc[c] = "waitcount" => empty_io(c)

\* The I/O part of the inductive invariant.
IoInv == \A c \in Ctx : IoCovered(c) /\ IoTested(c)

\* Adding an element raises a cardinality by at most one.
LEMMA AddBound ==
  ASSUME NEW S, NEW x, IsFiniteSet(S)
  PROVE  /\ IsFiniteSet(S \cup {x}) /\ Cardinality(S) \in Nat
         /\ Cardinality(S \cup {x}) <= Cardinality(S) + 1
         /\ Cardinality(S \cup {x}) \in Nat
<1>1. IsFiniteSet(S \cup {x})
  BY FS_AddElement, Zenon
<1>2. Cardinality(S) \in Nat
  BY FS_CardinalityType, Zenon
<1> QED
  BY <1>1, <1>2, FS_AddElement

\* The cardinality of a union is at most the sum of the cardinalities.
LEMMA UnionBound ==
  ASSUME NEW S, NEW T, IsFiniteSet(S), IsFiniteSet(T)
  PROVE  /\ IsFiniteSet(S \cup T) /\ Cardinality(S \cup T) \in Nat
         /\ Cardinality(S \cup T) <= Cardinality(S) + Cardinality(T)
<1>1. IsFiniteSet(S \cup T) /\ IsFiniteSet(S \cap T)
  BY FS_Union, FS_Intersection, Zenon
<1>2. Cardinality(S \cup T) = Cardinality(S) + Cardinality(T) - Cardinality(S \cap T)
  BY FS_Union, Zenon
<1>3. /\ Cardinality(S) \in Nat /\ Cardinality(T) \in Nat
      /\ Cardinality(S \cup T) \in Nat /\ Cardinality(S \cap T) \in Nat
  BY <1>1, FS_CardinalityType, Zenon
<1> QED
  BY <1>1, <1>2, <1>3

\* Removing an element lowers a cardinality by exactly one.
LEMMA RemoveOne ==
  ASSUME NEW S, NEW x \in S, IsFiniteSet(S)
  PROVE  /\ IsFiniteSet(S \ {x}) /\ Cardinality(S) \in Nat
         /\ Cardinality(S \ {x}) = Cardinality(S) - 1
<1>1. Cardinality(S) \in Nat
  BY FS_CardinalityType, Zenon
<1> QED
  BY <1>1, FS_RemoveElement, Zenon

\* Every step keeps the I/O counters large enough: prepared SQEs are covered by
\* m_io_submit_count, I/O in flight and unreaped CQEs by m_io_running_count.
LEMMA IoStep == TypeOK /\ Control /\ IoInv /\ [Next]_vars => IoInv'
<1> SUFFICES ASSUME TypeOK, Control, IoInv, [Next]_vars, NEW d \in Ctx
             PROVE  (IoCovered(d) /\ IoTested(d))'
  BY Zenon DEF IoInv
<1> DEFINE G == IoCovered(d) /\ IoTested(d)
<1>0. G
  BY Zenon DEF IoInv
<1> USE DEF TypeOK, engine_vars, queue_vars, io_vars, count_vars, batch_vars, context_vars,
            thread_vars
<1>1. ASSUME NEW c \in Ctx, register_wait(c) PROVE G'
  BY <1>1, <1>0, Zenon DEF register_wait, ThreadTypeOK, IoCovered, IoTested, empty_io
<1>2. ASSUME NEW c \in Ctx, SubmitPush(c) PROVE G'
  BY <1>2, <1>0, Zenon DEF SubmitPush, ThreadTypeOK, IoCovered, IoTested, empty_io
<1>3. ASSUME NEW c \in Ctx, SubmitWake(c) PROVE G'
  BY <1>3, <1>0, Zenon DEF SubmitWake, NoCall, ThreadTypeOK, IoCovered, IoTested, empty_io
<1>4. ASSUME NEW c \in Ctx, NEW t \in Tasks, SpawnTask(c, t) PROVE G'
  BY <1>4, <1>0, Zenon
     DEF SpawnTask, Submit, InBody, ThreadTypeOK, IoCovered, IoTested, empty_io
<1>5. ASSUME NEW c \in Ctx, NEW t \in Tasks, ResumeParked(c, t) PROVE G'
  BY <1>5, <1>0, Zenon
     DEF ResumeParked, Submit, InBody, ThreadTypeOK, IoCovered, IoTested, empty_io
<1>6. ASSUME NEW c \in Ctx, AwaitIo(c) PROVE G'
  <2>1. CASE d # c
    BY <1>6, <1>0, <2>1, Zenon
       DEF AwaitIo, add_io_submit, Suspend, Goto, ThreadTypeOK, IoTypeOK,
                            IoCovered, IoTested, empty_io
  <2>2. CASE d = c
    <3>1. /\ sq'[c] = sq[c] \cup {coro[c]} /\ UNCHANGED <<inflight, cq, m_io_running_count>>
          /\ m_io_submit_count'[c] = m_io_submit_count[c] + 1
          /\ pc[c] = "body" /\ pc'[c] = "done"
      BY <1>6, Zenon DEF AwaitIo, add_io_submit, Suspend, Goto, ThreadTypeOK, IoTypeOK
    <3>2. /\ IsFiniteSet(sq'[c]) /\ Cardinality(sq[c]) \in Nat /\ Cardinality(sq'[c]) \in Nat
          /\ Cardinality(sq'[c]) <= Cardinality(sq[c]) + 1
      <4>1. IsFiniteSet(sq[c])
        BY <1>0, <2>2, Zenon DEF IoCovered
      <4>2. /\ IsFiniteSet(sq[c] \cup {coro[c]}) /\ Cardinality(sq[c]) \in Nat
            /\ Cardinality(sq[c] \cup {coro[c]}) \in Nat
            /\ Cardinality(sq[c] \cup {coro[c]}) <= Cardinality(sq[c]) + 1
        BY ONLY <4>1, AddBound, Zenon
      <4> QED BY <3>1, <4>2, Zenon
    <3>3. Cardinality(sq[c]) <= m_io_submit_count[c] /\ m_io_submit_count[c] \in Nat
      BY <3>1, <1>0, <2>2, Zenon DEF IoCovered, IoTypeOK
    <3>4. Cardinality(sq'[c]) <= m_io_submit_count'[c]
      BY <3>1, <3>2, <3>3
    <3> QED
      BY <3>1, <3>2, <3>4, <1>0, <2>2, Zenon DEF IoCovered, IoTested
  <2> QED BY <2>1, <2>2, Zenon
<1>7. ASSUME NEW c \in Ctx, AwaitPrimitive(c) PROVE G'
  BY <1>7, <1>0, Zenon
     DEF AwaitPrimitive, Suspend, Goto, InBody, ThreadTypeOK, IoCovered, IoTested, empty_io
<1>8. ASSUME NEW c \in Ctx, CoReturn(c) PROVE G'
  BY <1>8, <1>0, Zenon DEF CoReturn, Goto, InBody, ThreadTypeOK, IoCovered, IoTested, empty_io
<1>9. ASSUME NEW c \in Ctx, ExecPop(c) PROVE G'
  BY <1>9, <1>0, Zenon
     DEF ExecPop, QueueTypeOK, schedule, ready, Goto, ThreadTypeOK, IoCovered, IoTested,
         empty_io
<1>10. ASSUME NEW c \in Ctx, ExecDone(c) PROVE G'
  BY <1>10, <1>0, Zenon DEF ExecDone, Goto, ThreadTypeOK, IoCovered, IoTested, empty_io
<1>11. ASSUME NEW c \in Ctx, clean(c) PROVE G'
  BY <1>11, <1>0, Zenon DEF clean, Goto, ThreadTypeOK, IoCovered, IoTested, empty_io
<1>12. ASSUME NEW c \in Ctx, unregister_wait(c) PROVE G'
  BY <1>12, <1>0, Zenon DEF unregister_wait, Goto, ThreadTypeOK, IoCovered, IoTested, empty_io
<1>13. ASSUME NEW c \in Ctx, ClearRunning(c) PROVE G'
  BY <1>13, <1>0, Zenon DEF ClearRunning, Goto, ThreadTypeOK, IoCovered, IoTested, empty_io
<1>14. ASSUME NEW c \in Ctx, WorkerInit(c) PROVE G'
  BY <1>14, <1>0, Zenon
     DEF WorkerInit, Goto, Unmoved, ThreadTypeOK, IoCovered, IoTested, empty_io
<1>15. ASSUME NEW c \in Ctx, RunWhile(c) PROVE G'
  BY <1>15, <1>0, Zenon DEF RunWhile, Goto, Unmoved, ThreadTypeOK, IoCovered, IoTested, empty_io
<1>16. ASSUME NEW c \in Ctx, RunWaitCount(c) PROVE G'
  BY <1>16, <1>0, Zenon
     DEF RunWaitCount, Goto, Unmoved, ThreadTypeOK, IoCovered, IoTested, empty_io
<1>17. ASSUME NEW c \in Ctx, RunReady(c) PROVE G'
  BY <1>17, <1>0, Zenon DEF RunReady, Goto, Unmoved, ThreadTypeOK, IoCovered, IoTested, empty_io
<1>18. ASSUME NEW c \in Ctx, RunSelfStop(c) PROVE G'
  BY <1>18, <1>0, Zenon
     DEF RunSelfStop, Goto, Unmoved, ThreadTypeOK, IoCovered, IoTested, empty_io
<1>19. ASSUME NEW c \in Ctx, WorkerDeinit(c) PROVE G'
  BY <1>19, <1>0, Zenon
     DEF WorkerDeinit, Goto, Unmoved, ThreadTypeOK, IoCovered, IoTested, empty_io
<1>20. ASSUME NEW c \in Ctx, PollSubmit(c) PROVE G'
  <2>1. CASE d # c
    BY <1>20, <1>0, <2>1, ZenonT(30)
       DEF PollSubmit, SubmitSqes, Goto, Unmoved, ThreadTypeOK, IoTypeOK,
                             IoCovered, IoTested, empty_io
  <2>2. CASE d = c /\ m_io_submit_count[c] = 0
    <3>1. UNCHANGED io_vars /\ pc[c] = "poll" /\ pc'[c] = "pollwait"
      BY <1>20, <2>2 DEF PollSubmit, Goto, ThreadTypeOK
    <3> QED BY <1>0, <2>2, <3>1, Zenon DEF IoCovered, IoTested
  <2>3. CASE d = c /\ m_io_submit_count[c] > 0
    <3>1. /\ sq'[c] = {} /\ inflight'[c] = inflight[c] \cup sq[c] /\ UNCHANGED cq
          /\ m_io_running_count'[c] = m_io_running_count[c] + m_io_submit_count[c]
          /\ pc[c] = "poll" /\ pc'[c] = "settle"
      BY <1>20, <2>3 DEF PollSubmit, SubmitSqes, Goto, ThreadTypeOK, IoTypeOK
    <3>2. /\ IsFiniteSet(inflight'[c]) /\ Cardinality(inflight'[c]) \in Nat
          /\ Cardinality(inflight'[c]) <= Cardinality(inflight[c]) + Cardinality(sq[c])
      <4>1. IsFiniteSet(sq[c]) /\ IsFiniteSet(inflight[c])
        BY <1>0, <2>3, Zenon DEF IoCovered
      <4> QED BY <3>1, <4>1, UnionBound, Zenon
    <3>3. IsFiniteSet(sq'[c])
      BY <3>1, FS_EmptySet, Zenon
    <3>4. /\ Cardinality(sq[c]) <= m_io_submit_count[c]
          /\ Cardinality(inflight[c]) + Len(cq[c]) <= m_io_running_count[c]
          /\ Cardinality(sq[c]) \in Nat /\ Cardinality(inflight[c]) \in Nat
      BY <1>0, <2>3, <3>1, FS_CardinalityType, Zenon DEF IoCovered
    <3>5. /\ m_io_submit_count[c] \in Nat /\ m_io_running_count[c] \in Int
          /\ Len(cq[c]) \in Nat
      BY DEF IoTypeOK
    <3>6. Cardinality(inflight'[c]) + Len(cq'[c]) <= m_io_running_count'[c]
      BY <3>1, <3>2, <3>4, <3>5
    <3>7. m_io_running_count'[c] > 0
      BY <3>1, <3>4, <3>5, <2>3
    <3> QED
      BY <3>1, <3>2, <3>3, <3>6, <3>7, <2>3, Zenon DEF IoCovered, IoTested
  <2> QED BY <2>1, <2>2, <2>3 DEF IoTypeOK
<1>21. ASSUME NEW c \in Ctx, PollSettle(c) PROVE G'
  <2>1. CASE d # c
    BY <1>21, <1>0, <2>1, Zenon
       DEF PollSettle, SettleSubmit, Goto, Unmoved, ThreadTypeOK, IoTypeOK,
                             IoCovered, IoTested, empty_io
  <2>2. CASE d = c
    <3>1. /\ m_io_submit_count'[c] = 0 /\ UNCHANGED <<sq, inflight, cq, m_io_running_count>>
          /\ pc[c] = "settle" /\ pc'[c] = "pollwait"
      BY <1>21, Zenon DEF PollSettle, SettleSubmit, Goto, ThreadTypeOK, IoTypeOK
    <3> QED
      BY <3>1, <1>0, <2>2, FS_EmptySet DEF IoCovered, IoTested
  <2> QED BY <2>1, <2>2, Zenon
<1>22. ASSUME NEW c \in Ctx, PollWait(c) PROVE G'
  BY <1>22, <1>0, Zenon DEF PollWait, Goto, Unmoved, ThreadTypeOK, IoCovered, IoTested, empty_io
<1>23. ASSUME NEW c \in Ctx, PollPeek(c) PROVE G'
  BY <1>23, <1>0, Zenon
     DEF PollPeek, PeekBatch, Goto, Unmoved, ThreadTypeOK, IoTypeOK, IoCovered, IoTested,
         empty_io
<1>24. ASSUME NEW c \in Ctx, HandleCqe(c) PROVE G'
  BY <1>24, <1>0, Zenon
     DEF HandleCqe, NextCqe, ThreadTypeOK, IoTypeOK, IoCovered, IoTested, empty_io
<1>25. ASSUME NEW c \in Ctx, PollAdvance(c) PROVE G'
  <2>1. CASE d # c
    BY <1>25, <1>0, <2>1, Zenon
       DEF PollAdvance, cq_advance, Goto, Unmoved, ThreadTypeOK, IoTypeOK,
                             IoCovered, IoTested, empty_io
  <2>2. CASE d = c
    <3>1. /\ cq'[c] = SubSeq(cq[c], nready[c] + 1, Len(cq[c]))
          /\ m_io_running_count'[c] = m_io_running_count[c] - nready[c]
          /\ UNCHANGED <<sq, inflight, m_io_submit_count>>
          /\ pc[c] = "cqe" /\ pc'[c] = "while"
      BY <1>25, Zenon DEF PollAdvance, cq_advance, Goto, ThreadTypeOK, IoTypeOK
    <3>2. nready[c] \in Nat /\ nready[c] <= Len(cq[c]) /\ cq[c] \in Seq(Tasks)
      BY Zenon DEF Control, BatchOK, IoTypeOK
    <3>3. Len(cq'[c]) = Len(cq[c]) - nready[c]
      BY <3>1, <3>2
    <3>4. /\ Cardinality(inflight[c]) \in Nat /\ m_io_running_count[c] \in Int
          /\ Len(cq[c]) \in Nat
          /\ Cardinality(inflight[c]) + Len(cq[c]) <= m_io_running_count[c]
      BY <1>0, <2>2, FS_CardinalityType DEF IoCovered, IoTypeOK
    <3>5. Cardinality(inflight[c]) + Len(cq'[c]) <= m_io_running_count'[c]
      BY <3>1, <3>2, <3>3, <3>4
    <3> QED
      BY <3>1, <3>5, <1>0, <2>2, Zenon DEF IoCovered, IoTested
  <2> QED BY <2>1, <2>2, Zenon
<1>26. ASSUME NEW c \in Ctx, SubmitDispatch(c) PROVE G'
  BY <1>26, <1>0, Zenon DEF SubmitDispatch, ThreadTypeOK, IoCovered, IoTested, empty_io
<1>27. ASSUME NEW c \in Ctx, Kernel(c) PROVE G'
  <2> PICK t \in Tasks : Complete(c, t)
    BY <1>27, Zenon DEF Kernel
  <2>0. UNCHANGED <<pc, sq, m_io_submit_count, m_io_running_count>>
    BY <1>27, Zenon DEF Kernel, Complete
  <2>1. CASE d # c
    BY <2>0, <1>0, <2>1, Zenon DEF Complete, IoTypeOK, IoCovered, IoTested, empty_io
  <2>2. CASE d = c
    <3>1. inflight'[c] = inflight[c] \ {t} /\ t \in inflight[c] /\ cq'[c] = Append(cq[c], t)
      BY Zenon DEF Complete, IoTypeOK
    <3>2. Len(cq'[c]) = Len(cq[c]) + 1 /\ Len(cq[c]) \in Nat
      BY <3>1 DEF IoTypeOK
    <3>3. /\ IsFiniteSet(inflight'[c]) /\ Cardinality(inflight[c]) \in Nat
          /\ Cardinality(inflight'[c]) = Cardinality(inflight[c]) - 1
      <4>1. IsFiniteSet(inflight[c])
        BY <1>0, <2>2, Zenon DEF IoCovered
      <4> QED BY <3>1, <4>1, RemoveOne, Zenon
    <3>4. Cardinality(inflight'[c]) + Len(cq'[c]) <= m_io_running_count'[c]
      BY <3>2, <3>3, <2>0, <1>0, <2>2 DEF IoCovered
    <3> QED
      BY <3>3, <3>4, <2>0, <1>0, <2>2, Zenon DEF IoCovered, IoTested, empty_io
  <2> QED BY <2>1, <2>2, Zenon
<1>28. ASSUME NEW c \in Ctx, NEW t \in Tasks, MainSubmit(t, c) PROVE G'
  BY <1>28, <1>0, Zenon DEF MainSubmit, ThreadTypeOK, IoCovered, IoTested, empty_io
<1>29. ASSUME MainLoop PROVE G'
  BY <1>29, <1>0, Zenon DEF MainLoop, IoCovered, IoTested, empty_io
<1>30. ASSUME MainStart PROVE G'
  BY <1>30, <1>0, Zenon DEF MainStart, Goto, ThreadTypeOK, IoCovered, IoTested, empty_io
<1>31. ASSUME MainAssignJob PROVE G'
  BY <1>31, <1>0, Zenon DEF MainAssignJob, ThreadTypeOK, IoCovered, IoTested, empty_io
<1>32. ASSUME MainScan PROVE G'
  BY <1>32, <1>0, Zenon DEF MainScan, IoCovered, IoTested, empty_io
<1>33. ASSUME MainRequestStop PROVE G'
  BY <1>33, <1>0, Zenon DEF MainRequestStop, ThreadTypeOK, IoCovered, IoTested, empty_io
<1>34. ASSUME MainNotify PROVE G'
  BY <1>34, <1>0, Zenon DEF MainNotify, IoCovered, IoTested, empty_io
<1>35. ASSUME MainJoin PROVE G'
  BY <1>35, <1>0, Zenon DEF MainJoin, IoCovered, IoTested, empty_io
<1>36. CASE UNCHANGED vars
  BY <1>36, <1>0, Zenon DEF vars, IoCovered, IoTested, empty_io
<1> QED
  BY <1>1, <1>2, <1>3, <1>4, <1>5, <1>6, <1>7, <1>8, <1>9, <1>10, <1>11, <1>12, <1>13,
     <1>14, <1>15, <1>16, <1>17, <1>18, <1>19, <1>20, <1>21, <1>22, <1>23, <1>24, <1>25,
     <1>26, <1>27, <1>28, <1>29, <1>30, <1>31, <1>32, <1>33, <1>34, <1>35, <1>36, ZenonT(30)
     DEF Next, WorkerStep, Worker, Body, Call, Run, MainStep, Main, Over

-----------------------------------------------------------------------------
\* Before any task is submitted everything is empty and every counter is zero.
LEMMA InvInit == Init => TypeOK /\ Control /\ WaitCountExact /\ IoInv
<1> SUFFICES ASSUME Init PROVE TypeOK /\ Control /\ WaitCountExact /\ IoInv
  BY Zenon
<1> USE DEF Init, EngineInit, ContextInit
<1>1. TypeOK
  BY EngineAssumption, ContextAssumption, SchedulerAssumption, CtxNat
     DEF TypeOK, QueueTypeOK, IoTypeOK, ThreadTypeOK, FrameTypeOK, MainTypeOK,
         NoCall, MainAt, PCs, Steps, MainPCs, Fields
<1>2. Control
  BY DEF Control, HoldsTask, CallOK, ExecReady, BatchOK, Executing
<1>3. WaitCountExact
  <2>1. ASSUME NEW c \in Ctx PROVE Cardinality(Calling(c, "push")) = 0
    <3>1. Calling(c, "push") = {}
      BY Zenon DEF Calling, NoCall
    <3> QED BY <3>1, FS_EmptySet, Zenon
  <2> QED BY <2>1, EmptyList DEF WaitCountExact, Executing
<1>4. IoInv
  BY FS_EmptySet DEF IoInv, IoCovered, IoTested
<1> QED BY <1>1, <1>2, <1>3, <1>4, Zenon

\* The inductive invariant.
Inv == TypeOK /\ Control /\ WaitCountExact /\ IoInv

\* The invariant holds in every reachable state.
LEMMA InvInductive == Spec => []Inv
<1>1. Init => Inv
  BY InvInit, Zenon DEF Inv
<1>2. Inv /\ [Next]_vars => Inv'
  BY TypeStep, ControlStep, WaitCountStep, IoStep, Zenon DEF Inv
<1> QED
  BY <1>1, <1>2, PTL DEF Spec

\* Type correctness of the runtime: engines, contexts, scheduler and dispatcher hold
\* values of their types for any number of contexts and tasks.
THEOREM TypeCorrect == Spec => []TypeOK
<1>1. Inv => TypeOK
  BY Zenon DEF Inv
<1> QED
  BY <1>1, InvInductive, PTL

\* m_wait_count never drifts: at every instant it counts the queued handles, the
\* one being executed, and the submitters between register_wait and the push.
THEOREM WaitCountCorrect == Spec => []WaitCountExact
<1>1. Inv => WaitCountExact
  BY Zenon DEF Inv
<1> QED
  BY <1>1, InvInductive, PTL

\* A worker that reads m_wait_count = 0 has nothing queued and no submitter
\* between register_wait and push.
LEMMA ZeroMeansDrained ==
  ASSUME TypeOK, WaitCountExact, NEW c \in Ctx, m_wait_count[c] <= 0
  PROVE  ~ready(c) /\ Calling(c, "push") = {} /\ pc[c] \notin Executing
<1>1. /\ IsFiniteSet(Calling(c, "push")) /\ Cardinality(Calling(c, "push")) \in Nat
  BY CallingFinite, Zenon
<1>2. m_task_queue[c] \in Seq(Tasks) /\ Len(m_task_queue[c]) \in Nat /\ m_wait_count[c] \in Int
  BY DEF TypeOK, QueueTypeOK, ThreadTypeOK
<1>3. m_wait_count[c] = Len(m_task_queue[c]) + (IF pc[c] \in Executing THEN 1 ELSE 0)
                        + Cardinality(Calling(c, "push"))
  BY Zenon DEF WaitCountExact
<1>4. Len(m_task_queue[c]) = 0 /\ Cardinality(Calling(c, "push")) = 0 /\ pc[c] \notin Executing
  <2>1. CASE pc[c] \in Executing
    BY <2>1, <1>1, <1>2, <1>3
  <2>2. CASE pc[c] \notin Executing
    BY <2>2, <1>1, <1>2, <1>3
  <2> QED BY <2>1, <2>2, Zenon
<1> QED
  BY <1>1, <1>2, <1>4, FS_EmptySet, EmptyList, Zenon DEF ready

\* When both I/O counters read zero, no I/O is prepared, in flight or unreaped.
LEMMA ZeroMeansNoIo ==
  ASSUME TypeOK, IoInv, NEW c \in Ctx, empty_io(c), pc[c] # "settle"
  PROVE  sq[c] = {} /\ inflight[c] = {} /\ cq[c] = <<>>
<1>1. IsFiniteSet(sq[c]) /\ IsFiniteSet(inflight[c])
  BY Zenon DEF IoInv, IoCovered
<1>2. Cardinality(sq[c]) \in Nat /\ Cardinality(inflight[c]) \in Nat
  BY <1>1, FS_CardinalityType, Zenon
<1>3. cq[c] \in Seq(Tasks) /\ Len(cq[c]) \in Nat
  BY DEF TypeOK, IoTypeOK
<1>4. Cardinality(sq[c]) <= 0 /\ Cardinality(inflight[c]) + Len(cq[c]) <= 0
  BY Zenon DEF IoInv, IoCovered, empty_io
<1>5. Cardinality(sq[c]) = 0 /\ Cardinality(inflight[c]) = 0 /\ Len(cq[c]) = 0
  BY <1>2, <1>3, <1>4
<1> QED
  BY <1>1, <1>3, <1>5, FS_EmptySet, EmptyList, Zenon

\* Only the read of m_wait_count takes a worker out of "waitcount".
LEMMA WaitCountRead ==
  ASSUME TypeOK, Next, NEW c \in Ctx, pc[c] = "waitcount", pc'[c] # "waitcount"
  PROVE  RunWaitCount(c)
<1> SUFFICES ASSUME ~RunWaitCount(c) PROVE pc'[c] = "waitcount"
  BY Zenon
<1>0. pc \in [Ctx -> PCs]
  BY Zenon DEF TypeOK, ThreadTypeOK
<1> USE DEF Goto, thread_vars
<1>1. ASSUME NEW d \in Ctx, Body(d) PROVE pc'[c] = "waitcount"
  BY <1>0, <1>1, Zenon
     DEF Body, SpawnTask, ResumeParked, AwaitIo, AwaitPrimitive, Suspend, CoReturn
<1>2. ASSUME NEW d \in Ctx, Call(d) PROVE pc'[c] = "waitcount"
  BY <1>0, <1>2, Zenon DEF Call, register_wait, SubmitPush, SubmitWake
<1>3. ASSUME NEW d \in Ctx, Run(d) PROVE pc'[c] = "waitcount"
  <2>1. CASE RunWaitCount(d)
    BY <1>0, <2>1, Zenon DEF RunWaitCount
  <2>2. CASE ~RunWaitCount(d)
    BY <1>0, <1>3, <2>2, Zenon
       DEF Run, WorkerInit, RunWhile, RunReady, ExecPop, ExecDone, clean, unregister_wait,
           ClearRunning, RunSelfStop, PollSubmit, PollSettle, PollWait, PollPeek, HandleCqe,
           PollAdvance, WorkerDeinit
  <2> QED BY <2>1, <2>2, Zenon
<1>4. ASSUME NEW d \in Ctx, SubmitDispatch(d) \/ Kernel(d) PROVE pc'[c] = "waitcount"
  BY <1>0, <1>4, Zenon DEF SubmitDispatch, Kernel, context_vars
<1>5. ASSUME Main PROVE pc'[c] = "waitcount"
  BY <1>0, <1>5, Zenon DEF Main, MainSubmit, MainLoop, MainStart, MainAssignJob, MainScan,
                    MainRequestStop, MainNotify, MainJoin, context_vars
<1>6. ASSUME Over PROVE pc'[c] = "waitcount"
  BY <1>6, Zenon DEF Over, vars, context_vars
<1> QED
  BY <1>1, <1>2, <1>3, <1>4, <1>5, <1>6, Zenon DEF Next, WorkerStep, Worker, MainStep

\* context::run leaves its loop only with an empty queue, with no submitter between
\* register_wait and the push, and with no I/O outstanding.
THEOREM ExitsDrainedCorrect == Spec => ExitsDrained
<1> DEFINE Drained(c) ==
             /\ ~ready(c)
             /\ Calling(c, "push") = {}
             /\ sq[c] = {} /\ inflight[c] = {} /\ cq[c] = <<>>
           Exit == \A c \in Ctx : pc[c] = "waitcount" /\ pc'[c] = "deinit" => Drained(c)
<1>1. Inv /\ [Next]_vars => [Exit]_vars
  <2> SUFFICES ASSUME Inv, Next, NEW c \in Ctx, pc[c] = "waitcount", pc'[c] = "deinit"
               PROVE  Drained(c)
    BY Zenon
  <2>1. m_wait_count[c] <= 0
    <3>1. pc \in [Ctx -> PCs] /\ m_wait_count[c] \in Int
      BY Zenon DEF Inv, TypeOK, ThreadTypeOK
    <3>2. RunWaitCount(c)
      BY WaitCountRead, Zenon DEF Inv
    <3> QED BY <3>1, <3>2 DEF RunWaitCount, Goto
  <2>2. ~ready(c) /\ Calling(c, "push") = {}
    BY <2>1, ZeroMeansDrained, Zenon DEF Inv
  <2>3. empty_io(c)
    BY Zenon DEF Inv, IoInv, IoTested
  <2> QED BY <2>2, <2>3, ZeroMeansNoIo, Zenon DEF Inv
<1> QED
  BY <1>1, InvInductive, PTL DEF ExitsDrained, Spec

-----------------------------------------------------------------------------

\* A worker past its last look at the queue will be woken for what was pushed since.
QueueAlert(c) ==
    pc[c] \in Polling \cup {"selfstop"} /\ ready(c) =>
        m_efd[c] # "zero" \/ Calling(c, "wake") # {}

\* unregister_wait has written the eventfd before the loop tests the queue again.
FinishAlert(c) == pc[c] = "finish" => m_efd[c] # "zero"

\* A worker past the while condition with its stop token set has a reason to come back.
StopAlert(c) ==
    stop[c] /\ pc[c] \in {"ready", "selfstop"} \cup Polling =>
        \/ m_efd[c] # "zero"
        \/ main.at = "notify" /\ main.ctx = c
        \/ Calling(c, "push") \cup Calling(c, "wake") # {}
        \/ ready(c)
        \/ ~empty_io(c)

\* The strengthening: each worker on its way to wait_eventfd has a wakeup pending
\* for whatever happened since it last looked.
Alert == \A c \in Ctx : QueueAlert(c) /\ FinishAlert(c) /\ StopAlert(c)

\* Every step keeps the alert: a push is followed by its eventfd write, and nobody
\* but the worker itself consumes the eventfd.
LEMMA AlertStep == Inv /\ Alert /\ [Next]_vars => Alert'
<1> SUFFICES ASSUME Inv, Alert, [Next]_vars, NEW d \in Ctx
             PROVE  (QueueAlert(d) /\ FinishAlert(d) /\ StopAlert(d))'
  BY Zenon DEF Alert
<1> DEFINE G == QueueAlert(d) /\ FinishAlert(d) /\ StopAlert(d)
<1>0. G
  BY Zenon DEF Alert
<1>t. QueueTypeOK /\ IoTypeOK /\ ThreadTypeOK /\ MainTypeOK
  BY Zenon DEF Inv, TypeOK
<1> USE DEF engine_vars, queue_vars, io_vars, count_vars, batch_vars, context_vars,
            thread_vars
<1>l. ASSUME NEW c \in Ctx, UNCHANGED <<engine_vars, stop, call, main>>,
             \E to \in {"exec", "done", "trapped", "clean", "unregister"} :
                 pc' = [pc EXCEPT ![c] = to]
      PROVE  G'
  <2>1. /\ pc'[c] \notin {"ready", "selfstop", "finish"} \cup Polling
        /\ \A e \in Ctx : e # c => pc'[e] = pc[e]
    BY <1>t, <1>l, Zenon DEF ThreadTypeOK, Polling
  <2> QED BY <1>0, <1>l, <2>1, Zenon
          DEF QueueAlert, FinishAlert, StopAlert, Calling, ready, empty_io
<1>1. ASSUME NEW c \in Ctx, register_wait(c), UNCHANGED <<main, m_cur>> PROVE G'
  BY <1>1, <1>0, <1>t, Zenon
     DEF register_wait, NoCall, ThreadTypeOK, QueueAlert, FinishAlert, StopAlert, Polling,
         Calling, ready, empty_io
<1>2. ASSUME NEW c \in Ctx, SubmitPush(c), UNCHANGED <<main, m_cur>> PROVE G'
  <2>1. PICK e : e = call[c].ctx
    BY Zenon
  <2>2. /\ call' = [call EXCEPT ![c].step = "wake"] /\ call[c].step = "push"
        /\ m_task_queue' = [m_task_queue EXCEPT ![e] = Append(@, call[c].task)]
        /\ UNCHANGED <<m_efd, io_vars, stop, thread_vars, main>>
    BY <1>2, <2>1, Zenon DEF SubmitPush, push
  <2>3. call \in [Ctx -> [step : Steps, task : Tasks \cup {NoTask}, ctx : Ctx]]
    BY <1>t, Zenon DEF ThreadTypeOK
  <2>4. /\ e \in Ctx /\ call'[c].ctx = e /\ call'[c].step = "wake"
        /\ \A w \in Ctx : w # c => call'[w] = call[w]
    BY <2>1, <2>2, <2>3
  <2>5. CASE d = e
    <3>1. Calling(d, "wake")' # {}
      BY <2>4, <2>5, Zenon DEF Calling
    <3> QED BY <1>0, <2>2, <3>1, Zenon DEF QueueAlert, FinishAlert, StopAlert
  <2>6. CASE d # e
    <3>1. Calling(d, "push")' = Calling(d, "push") /\ Calling(d, "wake")' = Calling(d, "wake")
      BY <2>1, <2>4, <2>6, Zenon DEF Calling
    <3>2. ready(d)' <=> ready(d)
      BY <1>t, <2>2, <2>4, <2>6, Zenon DEF ready, QueueTypeOK
    <3> QED BY <1>0, <2>2, <3>1, <3>2, Zenon DEF QueueAlert, FinishAlert, StopAlert, empty_io
  <2> QED BY <2>5, <2>6, Zenon
<1>3. ASSUME NEW c \in Ctx, SubmitWake(c), UNCHANGED <<main, m_cur>> PROVE G'
  <2>1. PICK e : e = call[c].ctx
    BY Zenon
  <2>2. /\ call' = [call EXCEPT ![c] = NoCall] /\ call[c].step = "wake"
        /\ m_efd' = [m_efd EXCEPT ![e] = Signalled(@)]
        /\ UNCHANGED <<m_task_queue, io_vars, stop, thread_vars, main>>
    BY <1>3, <2>1, Zenon DEF SubmitWake, write_eventfd
  <2>3. call \in [Ctx -> [step : Steps, task : Tasks \cup {NoTask}, ctx : Ctx]]
    BY <1>t, Zenon DEF ThreadTypeOK
  <2>4. /\ e \in Ctx /\ call'[c].step = "none"
        /\ \A w \in Ctx : w # c => call'[w] = call[w]
    BY <2>1, <2>2, <2>3 DEF NoCall
  <2>5. CASE d = e
    <3>1. m_efd'[d] # "zero"
      BY <1>t, <2>2, <2>5, Zenon DEF QueueTypeOK, Signalled
    <3> QED BY <3>1, Zenon DEF QueueAlert, FinishAlert, StopAlert
  <2>6. CASE d # e
    <3>1. Calling(d, "push")' = Calling(d, "push") /\ Calling(d, "wake")' = Calling(d, "wake")
      BY <2>1, <2>2, <2>4, <2>6, Zenon DEF Calling
    <3>2. m_efd'[d] = m_efd[d]
      BY <1>t, <2>2, <2>4, <2>6, Zenon DEF QueueTypeOK
    <3> QED BY <1>0, <2>2, <3>1, <3>2, Zenon
            DEF QueueAlert, FinishAlert, StopAlert, ready, empty_io
  <2> QED BY <2>5, <2>6, Zenon
<1>4. ASSUME NEW c \in Ctx, NEW t \in Tasks, SpawnTask(c, t), UNCHANGED <<main, m_cur>> PROVE G'
  <2>1. /\ call[c].step = "none"
        /\ \E x : x.step \notin {"push", "wake"} /\ call' = [call EXCEPT ![c] = x]
    BY <1>4 DEF SpawnTask, Submit, InBody, NoCall
  <2>2. Calling(d, "push")' = Calling(d, "push") /\ Calling(d, "wake")' = Calling(d, "wake")
    BY <2>1, <1>t DEF Calling, ThreadTypeOK
  <2> QED
    BY <1>4, <1>0, <2>2, Zenon
       DEF SpawnTask, QueueAlert, FinishAlert, StopAlert, ready, empty_io
<1>5. ASSUME NEW c \in Ctx, NEW t \in Tasks, ResumeParked(c, t), UNCHANGED <<main, m_cur>> PROVE G'
  <2>1. /\ call[c].step = "none"
        /\ \E x : x.step \notin {"push", "wake"} /\ call' = [call EXCEPT ![c] = x]
    BY <1>5 DEF ResumeParked, Submit, InBody, NoCall
  <2>2. Calling(d, "push")' = Calling(d, "push") /\ Calling(d, "wake")' = Calling(d, "wake")
    BY <2>1, <1>t DEF Calling, ThreadTypeOK
  <2> QED
    BY <1>5, <1>0, <2>2, Zenon
       DEF ResumeParked, QueueAlert, FinishAlert, StopAlert, ready, empty_io
<1>6. ASSUME NEW c \in Ctx, AwaitIo(c), UNCHANGED <<main, m_cur>> PROVE G'
  BY <1>6, <1>0, <1>t, Zenon
     DEF AwaitIo, add_io_submit, Suspend, Polling, Goto, InBody, NoCall, ThreadTypeOK,
         IoTypeOK, QueueAlert, FinishAlert, StopAlert, Calling, ready, empty_io
<1>7. ASSUME NEW c \in Ctx, AwaitPrimitive(c), UNCHANGED <<main, m_cur>> PROVE G'
  BY <1>7, <1>0, <1>t, Zenon
     DEF AwaitPrimitive, Suspend, Polling, Goto, InBody, NoCall, ThreadTypeOK, QueueAlert,
         FinishAlert, StopAlert, Calling, ready, empty_io
<1>8. ASSUME NEW c \in Ctx, CoReturn(c), UNCHANGED <<main, m_cur>> PROVE G'
  <2>1. /\ \E to \in {"done", "trapped"} : pc' = [pc EXCEPT ![c] = to]
        /\ UNCHANGED <<engine_vars, stop, call, main>>
    BY <1>8, Zenon DEF CoReturn, Goto
  <2> QED BY <2>1, <1>l, Zenon
<1>9. ASSUME NEW c \in Ctx, ExecPop(c), UNCHANGED <<main, m_cur>> PROVE G'
  BY <1>9, <1>0, <1>t, Zenon
     DEF ExecPop, schedule, ready, QueueTypeOK, Polling, Goto, NoCall, ThreadTypeOK,
         QueueAlert, FinishAlert, StopAlert, Calling, empty_io
<1>10. ASSUME NEW c \in Ctx, ExecDone(c), UNCHANGED <<main, m_cur>> PROVE G'
  <2>1. /\ \E to \in {"clean", "unregister"} : pc' = [pc EXCEPT ![c] = to]
        /\ UNCHANGED <<engine_vars, stop, call, main>>
    BY <1>10, Zenon DEF ExecDone, Goto
  <2> QED BY <2>1, <1>l, Zenon
<1>11. ASSUME NEW c \in Ctx, clean(c), UNCHANGED <<main, m_cur>> PROVE G'
  BY <1>11, <1>0, <1>t, Zenon
     DEF clean, Polling, Goto, NoCall, ThreadTypeOK, QueueAlert, FinishAlert, StopAlert,
         Calling, ready, empty_io
<1>12. ASSUME NEW c \in Ctx, unregister_wait(c), UNCHANGED <<main, m_cur>> PROVE G'
  BY <1>12, <1>0, <1>t, Zenon
     DEF unregister_wait, write_eventfd, Signalled, Polling, Goto, NoCall, ThreadTypeOK,
         QueueTypeOK, QueueAlert, FinishAlert, StopAlert, Calling, ready, empty_io
<1>13. ASSUME NEW c \in Ctx, ClearRunning(c), UNCHANGED <<main, m_cur>> PROVE G'
  BY <1>13, <1>0, <1>t, Zenon
     DEF ClearRunning, Polling, Goto, NoCall, ThreadTypeOK, QueueAlert, FinishAlert,
         StopAlert, Calling, ready, empty_io
<1>14. ASSUME NEW c \in Ctx, WorkerInit(c), UNCHANGED <<main, m_cur>> PROVE G'
  BY <1>14, <1>0, <1>t, Zenon
     DEF WorkerInit, Polling, Goto, Unmoved, NoCall, ThreadTypeOK, QueueAlert, FinishAlert,
         StopAlert, Calling, ready, empty_io
<1>15. ASSUME NEW c \in Ctx, RunWhile(c), UNCHANGED <<main, m_cur>> PROVE G'
  BY <1>15, <1>0, <1>t, Zenon
     DEF RunWhile, Polling, Goto, Unmoved, NoCall, ThreadTypeOK, QueueAlert, FinishAlert,
         StopAlert, Calling, ready, empty_io
<1>16. ASSUME NEW c \in Ctx, RunWaitCount(c), UNCHANGED <<main, m_cur>> PROVE G'
  <2>1. UNCHANGED <<m_task_queue, m_efd, stop, call, main>>
    BY <1>16, Zenon DEF RunWaitCount, Unmoved
  <2>2. Calling(d, "push")' = Calling(d, "push") /\ Calling(d, "wake")' = Calling(d, "wake")
    BY <2>1, Zenon DEF Calling
  <2>3. CASE d # c
    BY <1>16, <1>0, <1>t, <2>2, <2>3, Zenon
       DEF RunWaitCount, Goto, Unmoved, QueueAlert, FinishAlert, StopAlert, ready, empty_io,
           ThreadTypeOK
  <2>4. CASE d = c /\ m_wait_count[c] > 0
    <3>1. pc[c] = "waitcount" /\ pc'[c] = "ready"
      BY <1>16, <1>t, <2>4, Zenon DEF RunWaitCount, Goto, ThreadTypeOK
    <3>2. ready(c) \/ Calling(c, "push") # {}
      <4>1. SUFFICES ASSUME ~ready(c), Calling(c, "push") = {} PROVE FALSE
        BY Zenon
      <4>2. Len(m_task_queue[c]) = 0 /\ Cardinality(Calling(c, "push")) = 0
        BY <4>1, FS_EmptySet, EmptyList, Zenon DEF ready
      <4>3. m_wait_count[c] = Len(m_task_queue[c]) + (IF pc[c] \in Executing THEN 1 ELSE 0)
                              + Cardinality(Calling(c, "push"))
        BY Zenon DEF Inv, WaitCountExact
      <4>4. pc[c] \notin Executing
        BY <3>1, Zenon DEF Executing
      <4>5. m_wait_count[c] = 0
        BY <4>2, <4>3, <4>4
      <4> QED BY <4>5, <2>4
    <3> QED
      BY <3>1, <3>2, <2>1, <2>2, <2>4, Zenon
         DEF QueueAlert, FinishAlert, StopAlert, Polling, ready
  <2>5. CASE d = c /\ ~(m_wait_count[c] > 0)
    BY <1>16, <1>t, <2>5, Zenon
       DEF RunWaitCount, Goto, QueueAlert, FinishAlert, StopAlert, Polling, ThreadTypeOK
  <2> QED BY <2>3, <2>4, <2>5, Zenon
<1>17. ASSUME NEW c \in Ctx, RunReady(c), UNCHANGED <<main, m_cur>> PROVE G'
  <2>1. UNCHANGED <<engine_vars, stop, call, main>>
    BY <1>17, Zenon DEF RunReady, Unmoved
  <2>2. CASE ready(c)
    <3>1. \E to \in {"exec"} : pc' = [pc EXCEPT ![c] = to]
      BY <1>17, <2>2, Zenon DEF RunReady, Goto
    <3> QED BY <2>1, <3>1, <1>l, Zenon
  <2>3. CASE ~ready(c)
    <3>1. /\ pc[c] = "ready" /\ pc'[c] \in {"poll", "selfstop"}
          /\ \A e \in Ctx : e # c => pc'[e] = pc[e]
      BY <1>17, <1>t, <2>3, Zenon DEF RunReady, Goto, ThreadTypeOK
    <3> QED BY <1>0, <2>1, <2>3, <3>1, Zenon
            DEF QueueAlert, FinishAlert, StopAlert, Polling, Calling, ready, empty_io
  <2> QED BY <2>2, <2>3, Zenon
<1>18. ASSUME NEW c \in Ctx, RunSelfStop(c), UNCHANGED <<main, m_cur>> PROVE G'
  <2>1. /\ UNCHANGED <<m_task_queue, call, count_vars, main>>
        /\ pc[c] = "selfstop" /\ \E to \in {"poll", "crashed"} : pc' = [pc EXCEPT ![c] = to]
    BY <1>18, Zenon DEF RunSelfStop, Goto, Unmoved
  <2>2. Calling(d, "push")' = Calling(d, "push") /\ Calling(d, "wake")' = Calling(d, "wake")
    BY <2>1, Zenon DEF Calling
  <2>3. CASE d # c \/ UNCHANGED <<stop, m_efd>>
    <3>1. stop'[d] = stop[d] /\ m_efd'[d] = m_efd[d]
      BY <1>18, <1>t, <2>3, ZenonT(30) DEF RunSelfStop, write_eventfd, ThreadTypeOK, QueueTypeOK
    <3> QED
      BY <1>0, <1>t, <2>1, <2>2, <3>1, ZenonT(30)
         DEF QueueAlert, FinishAlert, StopAlert, Polling, ready, empty_io, ThreadTypeOK
  <2>4. CASE d = c /\ ~UNCHANGED <<stop, m_efd>>
    <3>1. m_efd'[d] # "zero"
      BY <1>18, <1>t, <2>4, Zenon DEF RunSelfStop, write_eventfd, Signalled, QueueTypeOK
    <3> QED BY <3>1, Zenon DEF QueueAlert, FinishAlert, StopAlert
  <2> QED BY <2>3, <2>4, Zenon
<1>19. ASSUME NEW c \in Ctx, WorkerDeinit(c), UNCHANGED <<main, m_cur>> PROVE G'
  BY <1>19, <1>0, <1>t, Zenon
     DEF WorkerDeinit, deinit, Polling, Goto, Unmoved, NoCall, ThreadTypeOK, QueueTypeOK,
         QueueAlert, FinishAlert, StopAlert, Calling, ready, empty_io
<1>20. ASSUME NEW c \in Ctx, PollSubmit(c), UNCHANGED <<main, m_cur>> PROVE G'
  <2>1. UNCHANGED <<m_task_queue, m_efd, stop, call, main, m_io_submit_count>>
    BY <1>20, Zenon DEF PollSubmit, SubmitSqes, Unmoved
  <2>2. Calling(d, "push")' = Calling(d, "push") /\ Calling(d, "wake")' = Calling(d, "wake")
    BY <2>1, Zenon DEF Calling
  <2>3. CASE d # c
    BY <1>20, <1>0, <1>t, <2>1, <2>2, <2>3, ZenonT(30)
       DEF PollSubmit, SubmitSqes, Goto, QueueAlert, FinishAlert, StopAlert, ready,
           empty_io, ThreadTypeOK, IoTypeOK
  <2>4. CASE d = c
    <3>1. pc[c] = "poll" /\ pc'[c] \in {"settle", "pollwait"}
      BY <1>20, <1>t, Zenon DEF PollSubmit, Goto, ThreadTypeOK
    <3>2. ~empty_io(c) => ~empty_io(c)'
      BY <1>20, <1>t, <2>1 DEF PollSubmit, SubmitSqes, empty_io, IoTypeOK
    <3> QED
      BY <1>0, <2>1, <2>2, <2>4, <3>1, <3>2, Zenon
         DEF QueueAlert, FinishAlert, StopAlert, Polling, ready
  <2> QED BY <2>3, <2>4, Zenon
<1>21. ASSUME NEW c \in Ctx, PollSettle(c), UNCHANGED <<main, m_cur>> PROVE G'
  <2>1. UNCHANGED <<m_task_queue, m_efd, stop, call, main, m_io_running_count>>
    BY <1>21, Zenon DEF PollSettle, SettleSubmit, Unmoved
  <2>2. Calling(d, "push")' = Calling(d, "push") /\ Calling(d, "wake")' = Calling(d, "wake")
    BY <2>1, Zenon DEF Calling
  <2>3. CASE d # c
    BY <1>21, <1>0, <1>t, <2>1, <2>2, <2>3, Zenon
       DEF PollSettle, SettleSubmit, Goto, QueueAlert, FinishAlert, StopAlert, ready,
           empty_io, ThreadTypeOK, IoTypeOK
  <2>4. CASE d = c
    <3>1. pc[c] = "settle" /\ pc'[c] = "pollwait"
      BY <1>21, <1>t, Zenon DEF PollSettle, Goto, ThreadTypeOK
    <3>2. ~empty_io(c)'
      <4>1. m_io_running_count[c] \in Int /\ m_io_running_count[c] > 0
        BY <3>1, <1>t, Zenon DEF Inv, IoInv, IoTested, IoTypeOK
      <4> QED BY <2>1, <4>1 DEF empty_io
    <3> QED
      BY <1>0, <2>1, <2>2, <2>4, <3>1, <3>2, Zenon
         DEF QueueAlert, FinishAlert, StopAlert, Polling, ready
  <2> QED BY <2>3, <2>4, Zenon
<1>22. ASSUME NEW c \in Ctx, PollWait(c), UNCHANGED <<main, m_cur>> PROVE G'
  BY <1>22, <1>0, <1>t, ZenonT(30)
     DEF PollWait, wait_eventfd, Polling, Goto, Unmoved, NoCall, ThreadTypeOK, QueueTypeOK,
         QueueAlert, FinishAlert, StopAlert, Calling, ready, empty_io
<1>23. ASSUME NEW c \in Ctx, PollPeek(c), UNCHANGED <<main, m_cur>> PROVE G'
  <2>1. UNCHANGED <<m_task_queue, m_efd, stop, call, main, m_io_submit_count, m_io_running_count>>
    BY <1>23, Zenon DEF PollPeek, PeekBatch, Unmoved
  <2>2. Calling(d, "push")' = Calling(d, "push") /\ Calling(d, "wake")' = Calling(d, "wake")
    BY <2>1, Zenon DEF Calling
  <2>3. pc'[d] = pc[d] \/ pc'[d] \in {"while", "cqe"}
    BY <1>23, <1>t, Zenon DEF PollPeek, Goto, ThreadTypeOK
  <2> QED
    BY <1>0, <2>1, <2>2, <2>3, Zenon
       DEF QueueAlert, FinishAlert, StopAlert, Polling, ready, empty_io
<1>24. ASSUME NEW c \in Ctx, HandleCqe(c), UNCHANGED <<main, m_cur>> PROVE G'
  <2>1. Calling(d, "push")' = Calling(d, "push") /\ Calling(d, "wake")' = Calling(d, "wake")
    <3> DEFINE r == [step |-> "register", task |-> CqeTask(c), ctx |-> c]
    <3>1. call[c].step = "none" /\ r.step = "register"
      BY <1>24 DEF HandleCqe, NoCall
    <3>2. call' = [call EXCEPT ![c] = r]
      BY <1>24, Zenon DEF HandleCqe
    <3> HIDE DEF r
    <3> QED BY <3>1, <3>2, <1>t, Zenon DEF Calling, ThreadTypeOK
  <2> QED
    BY <1>24, <1>0, <2>1, Zenon
       DEF HandleCqe, NextCqe, QueueAlert, FinishAlert, StopAlert, ready, empty_io
<1>25. ASSUME NEW c \in Ctx, PollAdvance(c), UNCHANGED <<main, m_cur>> PROVE G'
  BY <1>25, <1>0, <1>t, Zenon
     DEF PollAdvance, cq_advance, Polling, Goto, Unmoved, NoCall, ThreadTypeOK, IoTypeOK,
         QueueAlert, FinishAlert, StopAlert, Calling, ready, empty_io
<1>26. ASSUME NEW c \in Ctx, SubmitDispatch(c) PROVE G'
  BY <1>26, <1>0, <1>t, Zenon
     DEF SubmitDispatch, NoCall, ThreadTypeOK, MainTypeOK, QueueAlert, FinishAlert,
         StopAlert, Polling, Calling, ready, empty_io
<1>27. ASSUME NEW c \in Ctx, Kernel(c) PROVE G'
  <2>1. UNCHANGED <<m_task_queue, stop, pc, call, main, m_io_submit_count, m_io_running_count>>
    BY <1>27, Zenon DEF Kernel, Complete
  <2>2. m_efd[d] # "zero" => m_efd'[d] # "zero"
    BY <1>27, <1>t, Zenon DEF Kernel, Complete, write_eventfd, Signalled, QueueTypeOK
  <2>3. Calling(d, "push")' = Calling(d, "push") /\ Calling(d, "wake")' = Calling(d, "wake")
    BY <2>1, Zenon DEF Calling
  <2> QED
    BY <1>0, <2>1, <2>2, <2>3, Zenon DEF QueueAlert, FinishAlert, StopAlert, ready, empty_io
<1>28. ASSUME NEW c \in Ctx, NEW t \in Tasks, MainSubmit(t, c) PROVE G'
  BY <1>28, <1>0, <1>t, ZenonT(30)
     DEF MainSubmit, push, write_eventfd, Signalled, NoCall, ThreadTypeOK, QueueTypeOK,
         MainTypeOK, QueueAlert, FinishAlert, StopAlert, Polling, Calling, ready, empty_io
<1>29. ASSUME MainLoop PROVE G'
  BY <1>29, <1>0, <1>t, Zenon
     DEF MainLoop, MainAt, NoCall, NextCtx, ThreadTypeOK, MainTypeOK, QueueAlert,
         FinishAlert, StopAlert, Polling, Calling, ready, empty_io
<1>30. ASSUME MainStart PROVE G'
  BY <1>30, <1>0, <1>t, Zenon
     DEF MainStart, Polling, Goto, MainAt, NoCall, NextCtx, ThreadTypeOK, MainTypeOK,
         QueueAlert, FinishAlert, StopAlert, Calling, ready, empty_io
<1>31. ASSUME MainAssignJob PROVE G'
  BY <1>31, <1>0, <1>t, Zenon
     DEF MainAssignJob, NoCall, NextCtx, ThreadTypeOK, MainTypeOK, QueueAlert, FinishAlert,
         StopAlert, Polling, Calling, ready, empty_io
<1>32. ASSUME MainScan PROVE G'
  BY <1>32, <1>0, <1>t, Zenon
     DEF MainScan, MainAt, NoCall, NextCtx, ThreadTypeOK, MainTypeOK, QueueAlert,
         FinishAlert, StopAlert, Polling, Calling, ready, empty_io
<1>33. ASSUME MainRequestStop PROVE G'
  BY <1>33, <1>0, <1>t, Zenon
     DEF MainRequestStop, MainAt, NoCall, NextCtx, ThreadTypeOK, MainTypeOK, QueueAlert,
         FinishAlert, StopAlert, Polling, Calling, ready, empty_io
<1>34. ASSUME MainNotify PROVE G'
  BY <1>34, <1>0, <1>t, ZenonT(30)
     DEF MainNotify, write_eventfd, Signalled, NoCall, NextCtx, ThreadTypeOK, QueueTypeOK,
         MainTypeOK, QueueAlert, FinishAlert, StopAlert, Polling, Calling, ready, empty_io
<1>35. ASSUME MainJoin PROVE G'
  BY <1>35, <1>0, <1>t, Zenon
     DEF MainJoin, NoCall, NextCtx, ThreadTypeOK, MainTypeOK, QueueAlert, FinishAlert,
         StopAlert, Polling, Calling, ready, empty_io
<1>36. CASE UNCHANGED vars
  BY <1>36, <1>0, Zenon DEF vars, QueueAlert, FinishAlert, StopAlert, Calling, ready, empty_io
<1> QED
  BY <1>1, <1>2, <1>3, <1>4, <1>5, <1>6, <1>7, <1>8, <1>9, <1>10, <1>11, <1>12, <1>13,
     <1>14, <1>15, <1>16, <1>17, <1>18, <1>19, <1>20, <1>21, <1>22, <1>23, <1>24, <1>25,
     <1>26, <1>27, <1>28, <1>29, <1>30, <1>31, <1>32, <1>33, <1>34, <1>35, <1>36, ZenonT(30)
     DEF Next, WorkerStep, Worker, Body, Call, Run, MainStep, Main, Over

\* No wakeup is lost: a worker blocked on a zero eventfd has an empty queue or a
\* submitter that is about to write, and the same for its stop request.
THEOREM NoLostWakeupCorrect == Spec => []NoLostWakeup
<1>1. Init => Inv /\ Alert
  <2>1. Init => Alert
    BY Zenon
       DEF Init, EngineInit, ContextInit, Alert, QueueAlert, FinishAlert, StopAlert, Polling
  <2> QED BY <2>1, InvInit, Zenon DEF Inv
<1>2. Inv /\ Alert /\ [Next]_vars => Inv' /\ Alert'
  BY TypeStep, ControlStep, WaitCountStep, IoStep, AlertStep, Zenon DEF Inv
<1>3. Inv /\ Alert => NoLostWakeup
  <2> SUFFICES ASSUME Inv, Alert, NEW c \in Ctx, Blocked(c)
               PROVE  /\ ready(c) => Calling(c, "wake") # {}
                      /\ stop[c] => \/ main.at = "notify" /\ main.ctx = c
                                    \/ Calling(c, "push") \cup Calling(c, "wake") # {}
    BY Zenon DEF NoLostWakeup
  <2>1. pc[c] = "pollwait" /\ m_efd[c] = "zero" /\ m_io_running_count[c] = 0
    BY Zenon DEF Blocked
  <2>2. ready(c) => Calling(c, "wake") # {}
    BY <2>1, Zenon DEF Alert, QueueAlert, Polling
  <2>3. empty_io(c)
    BY <2>1, Zenon DEF Inv, IoInv, IoTested, empty_io
  <2> QED
    BY <2>1, <2>2, <2>3, Zenon DEF Alert, StopAlert, Polling
<1> QED
  BY <1>1, <1>2, <1>3, PTL DEF Spec

-----------------------------------------------------------------------------
(* The scan.                                                               *)

\* No worker exists before the main thread has submitted the Initial tasks.
Begun ==
    /\ main.at # "submit" => \A t \in Initial : frame[t] # "none"
    /\ \A c \in Ctx : pc[c] # "unborn" => main.at # "submit"

\* With independent tasks nobody but the main thread submits, and there is no I/O.
Alone ==
    /\ \A c \in Ctx : call[c] = NoCall /\ empty_io(c)
    /\ parked = {}

\* A context the current pass has found idle stays idle.
Scanned ==
    /\ main.at = "scan" => \A d \in Ctx : d < main.ctx => m_wait_count[d] = 0
    /\ main.at = "stop" /\ main.ctx = 0 => \A d \in Ctx : m_wait_count[d] = 0

\* The strengthening.
Solo == Begun /\ (Independent => Alone /\ Scanned)

\* A step of a worker or the kernel when the tasks are independent: it starts no
\* submission and no I/O, and leaves an idle context idle.
Tame ==
    /\ UNCHANGED <<call, parked, m_io_submit_count, m_io_running_count, main>>
    /\ \A d \in Ctx : m_wait_count[d] = 0 => m_wait_count'[d] = 0

\* Every step keeps Begun: frames are never un-created, and the main thread starts
\* the workers after its last submission.
LEMMA BegunStep == TypeOK /\ Control /\ Begun /\ [Next]_vars => Begun'
<1> SUFFICES ASSUME TypeOK, Control, Begun, [Next]_vars PROVE Begun'
  BY Zenon
<1>t. /\ pc \in [Ctx -> PCs] /\ frame \in [Tasks -> {"none", "live", "done", "freed"}]
      /\ Initial \subseteq Tasks
      /\ main \in [at : MainPCs, ctx : Ctx, field : Fields]
  BY SchedulerAssumption, Zenon DEF TypeOK, ThreadTypeOK, FrameTypeOK, MainTypeOK
<1> USE DEF Begun, Goto, thread_vars, frame_vars, context_vars
<1>1. ASSUME NEW c \in Ctx, Worker(c), UNCHANGED <<main, m_cur>> PROVE Begun'
  <2>1. \A t \in Tasks : frame[t] # "none" => frame'[t] # "none"
    <3>1. CASE Body(c)
      BY <3>1, <1>t, Zenon DEF Body, SpawnTask, ResumeParked, AwaitIo, AwaitPrimitive, Suspend,
                        CoReturn
    <3>2. CASE Call(c)
      BY <3>2, Zenon DEF Call, register_wait, SubmitPush, SubmitWake
    <3>3. CASE Run(c)
      BY <3>3, <1>t, Zenon
         DEF Run, WorkerInit, RunWhile, RunWaitCount, RunReady, ExecPop, ExecDone, clean,
             unregister_wait, ClearRunning, RunSelfStop, PollSubmit, PollSettle, PollWait,
             PollPeek, HandleCqe, PollAdvance, WorkerDeinit, Unmoved
    <3> QED BY <1>1, <3>1, <3>2, <3>3, Zenon DEF Worker
  <2>2. \A d \in Ctx : pc[d] = "unborn" => pc'[d] = "unborn"
    <3>1. CASE Body(c)
      BY <3>1, <1>t, Zenon DEF Body, SpawnTask, ResumeParked, AwaitIo, AwaitPrimitive, Suspend,
                        CoReturn
    <3>2. CASE Call(c)
      BY <3>2, Zenon DEF Call, register_wait, SubmitPush, SubmitWake
    <3>3. CASE Run(c)
      BY <3>3, <1>t, Zenon
         DEF Run, WorkerInit, RunWhile, RunWaitCount, RunReady, ExecPop, ExecDone, clean,
             unregister_wait, ClearRunning, RunSelfStop, PollSubmit, PollSettle, PollWait,
             PollPeek, HandleCqe, PollAdvance, WorkerDeinit, Unmoved
    <3> QED BY <1>1, <3>1, <3>2, <3>3, Zenon DEF Worker
  <2> QED BY <1>1, <1>t, <2>1, <2>2, Zenon
<1>2. ASSUME NEW c \in Ctx, SubmitDispatch(c) PROVE Begun'
  BY <1>2, Zenon DEF SubmitDispatch
<1>3. ASSUME NEW c \in Ctx, Kernel(c) PROVE Begun'
  BY <1>3, Zenon DEF Kernel
<1>4. ASSUME NEW c \in Ctx, NEW t \in Tasks, MainSubmit(t, c) PROVE Begun'
  BY <1>4, <1>t, Zenon DEF MainSubmit
<1>5. ASSUME MainLoop PROVE Begun'
  BY <1>5, <1>t, Zenon DEF MainLoop, MainAt
<1>6. ASSUME MainStart PROVE Begun'
  BY <1>6, <1>t, Zenon DEF MainStart, MainAt
<1>7. ASSUME MainAssignJob \/ MainScan \/ MainRequestStop \/ MainNotify \/ MainJoin
      PROVE  Begun'
  <2>1. main.at # "submit" /\ UNCHANGED <<pc, frame>>
    BY <1>7, Zenon DEF MainAssignJob, MainScan, MainRequestStop, MainNotify, MainJoin
  <2>2. main'.at # "submit"
    BY <1>7, <1>t
       DEF MainAssignJob, MainScan, MainRequestStop, MainNotify, MainJoin, NextCtx, MainAt
  <2> QED BY <2>1, <2>2, Zenon
<1>8. CASE UNCHANGED vars
  BY <1>8, Zenon DEF vars
<1> QED
  BY <1>1, <1>2, <1>3, <1>4, <1>5, <1>6, <1>7, <1>8, Zenon
     DEF Next, WorkerStep, MainStep, Main, Over

\* Independence is lost for good: a suspension is counted, a frame stays created.
LEMMA IndependentBefore ==
  ASSUME TypeOK, Control, [Next]_vars, Independent'
  PROVE  Independent
<1>t. /\ frame \in [Tasks -> {"none", "live", "done", "freed"}]
      /\ suspends \in [Tasks -> 0 .. MaxSuspends] /\ MaxSuspends \in Nat
  BY ContextAssumption, Zenon DEF TypeOK, FrameTypeOK
<1>h. \A c \in Ctx : pc[c] = "body" => coro[c] \in Tasks
  BY Zenon DEF Control, HoldsTask, Executing
<1> USE DEF Independent, frame_vars, context_vars
<1>1. ASSUME NEW c \in Ctx, Body(c) PROVE Independent
  <2>1. ASSUME NEW t \in Tasks, SpawnTask(c, t) \/ ResumeParked(c, t) PROVE Independent
    BY <2>1, <1>t DEF SpawnTask, ResumeParked
  <2>2. ASSUME Suspend(c) PROVE Independent
    BY <2>2, <1>t, <1>h DEF Suspend, InBody
  <2>3. ASSUME CoReturn(c) PROVE Independent
    BY <2>3, <1>t DEF CoReturn
  <2> QED BY <1>1, <2>1, <2>2, <2>3, Zenon DEF Body, AwaitIo, AwaitPrimitive
<1>2. ASSUME NEW c \in Ctx, Call(c) PROVE Independent
  BY <1>2, Zenon DEF Call, register_wait, SubmitPush, SubmitWake
<1>3. ASSUME NEW c \in Ctx, Run(c) PROVE Independent
  BY <1>3, <1>t, Zenon
     DEF Run, WorkerInit, RunWhile, RunWaitCount, RunReady, ExecPop, ExecDone, clean,
         unregister_wait, ClearRunning, RunSelfStop, PollSubmit, PollSettle, PollWait,
         PollPeek, HandleCqe, PollAdvance, WorkerDeinit, Unmoved
<1>4. ASSUME NEW c \in Ctx, SubmitDispatch(c) \/ Kernel(c) PROVE Independent
  BY <1>4, Zenon DEF SubmitDispatch, Kernel
<1>5. ASSUME NEW c \in Ctx, NEW t \in Tasks, MainSubmit(t, c) PROVE Independent
  BY <1>5, <1>t, Zenon DEF MainSubmit
<1>6. CASE MainLoop \/ MainStart \/ MainAssignJob \/ MainScan \/ MainRequestStop
           \/ MainNotify \/ MainJoin \/ UNCHANGED vars
  BY <1>6, Zenon DEF MainLoop, MainStart, MainAssignJob, MainScan, MainRequestStop, MainNotify,
              MainJoin, vars
<1> QED
  BY <1>1, <1>2, <1>3, <1>4, <1>5, <1>6, Zenon
     DEF Next, WorkerStep, Worker, MainStep, Main, Over

\* While the tasks are independent, a worker only executes what is already queued.
LEMMA WorkerTame ==
  ASSUME Inv, Begun, Alone, Independent', NEW c \in Ctx,
         (Worker(c) /\ UNCHANGED <<main, m_cur>>) \/ SubmitDispatch(c) \/ Kernel(c)
  PROVE  Tame
<1>t. /\ pc \in [Ctx -> PCs] /\ call[c] = NoCall
      /\ frame \in [Tasks -> {"none", "live", "done", "freed"}]
      /\ suspends \in [Tasks -> 0 .. MaxSuspends] /\ MaxSuspends \in Nat
  BY ContextAssumption, Zenon DEF Inv, TypeOK, ThreadTypeOK, FrameTypeOK, Alone
<1>h. pc[c] = "body" => coro[c] \in Tasks
  BY Zenon DEF Inv, Control, HoldsTask, Executing
<1>i. pc[c] # "settle" /\ cq[c] = <<>> /\ nready[c] = 0
  <2>1. m_io_running_count[c] = 0
    BY Zenon DEF Alone, empty_io
  <2>2. pc[c] # "settle"
    BY <2>1 DEF Inv, IoInv, IoTested
  <2>3. cq[c] = <<>>
    BY <2>2, ZeroMeansNoIo, Zenon DEF Inv, Alone
  <2>4. nready[c] <= Len(cq[c]) /\ nready[c] \in Nat
    BY Zenon DEF Inv, Control, BatchOK, TypeOK, IoTypeOK
  <2> QED BY <2>2, <2>3, <2>4, EmptyList
<1> USE DEF Tame, engine_vars, io_vars, count_vars, frame_vars, context_vars
<1>1. CASE Body(c) /\ UNCHANGED <<main, m_cur>>
  <2>1. ASSUME NEW t \in Tasks, SpawnTask(c, t) PROVE FALSE
    <3>1. main.at # "submit" /\ frame[t] = "none"
      BY <2>1, Zenon DEF SpawnTask, InBody, Begun
    <3>2. t \notin Initial
      BY <3>1, Zenon DEF Begun
    <3> QED BY <2>1, <3>2, <1>t, Zenon DEF SpawnTask, Independent
  <2>2. ~Suspend(c)
    BY <1>t, <1>h DEF Suspend, InBody, Independent
  <2>3. ASSUME NEW t \in Tasks, ResumeParked(c, t) PROVE FALSE
    BY <2>3, Zenon DEF ResumeParked, Alone
  <2>4. CoReturn(c)
    BY <1>1, <2>1, <2>2, <2>3, Zenon DEF Body, AwaitIo, AwaitPrimitive
  <2> QED BY <1>1, <2>4, Zenon DEF CoReturn
<1>2. ~Call(c) /\ ~SubmitDispatch(c)
  BY <1>t DEF Call, register_wait, SubmitPush, SubmitWake, SubmitDispatch, NoCall
<1>3. CASE Run(c) /\ UNCHANGED <<main, m_cur>>
  <2>1. ~HandleCqe(c) /\ ~PollSettle(c)
    <3>1. handled[c] \in Nat
      BY Zenon DEF Inv, TypeOK, IoTypeOK
    <3> QED BY <3>1, <1>i DEF HandleCqe, PollSettle, Goto
  <2>2. CASE unregister_wait(c)
    <3>1. m_wait_count[c] # 0
      <4>1. pc[c] \in Executing /\ m_wait_count[c] \in Int
        BY <2>2, Zenon DEF unregister_wait, Goto, Executing, Inv, TypeOK, ThreadTypeOK
      <4>2. TypeOK /\ WaitCountExact
        BY Zenon DEF Inv
      <4>3. m_wait_count[c] <= 0 => pc[c] \notin Executing
        BY ONLY <4>2, c \in Ctx, ZeroMeansDrained, Zenon
      <4> QED BY ONLY <4>1, <4>3
    <3> QED BY <1>3, <2>2, <3>1, Zenon DEF unregister_wait, Inv, TypeOK, ThreadTypeOK
  <2>3. CASE PollSubmit(c)
    <3>1. m_io_submit_count[c] = 0
      BY Zenon DEF Alone, empty_io
    <3> QED BY <1>3, <2>3, <3>1 DEF PollSubmit, Unmoved
  <2>4. CASE PollAdvance(c)
    <3>1. m_io_running_count' = m_io_running_count
      BY <2>4, <1>i DEF PollAdvance, cq_advance, Inv, TypeOK, IoTypeOK
    <3> QED BY <1>3, <2>4, <3>1, Zenon DEF PollAdvance, cq_advance, Unmoved
  <2>5. CASE PollPeek(c)
    BY <1>3, <2>5, Zenon DEF PollPeek, PeekBatch, Unmoved
  <2> QED
    BY <1>3, <2>1, <2>2, <2>3, <2>4, <2>5, Zenon
       DEF Run, WorkerInit, RunWhile, RunWaitCount, RunReady, ExecPop, ExecDone, clean,
           ClearRunning, RunSelfStop, PollWait, WorkerDeinit, Unmoved
<1>4. CASE Kernel(c)
  BY <1>4, Zenon DEF Kernel, Complete
<1> QED BY <1>1, <1>2, <1>3, <1>4, Zenon DEF Worker

\* Every step keeps the strengthening.
LEMMA SoloStep == Inv /\ Solo /\ [Next]_vars => Solo'
<1> SUFFICES ASSUME Inv, Solo, [Next]_vars, Independent' PROVE Alone' /\ Scanned'
  BY BegunStep, Zenon DEF Inv, Solo
<1>0. Begun /\ Alone /\ Scanned
  BY IndependentBefore, Zenon DEF Inv, Solo
<1>t. /\ main \in [at : MainPCs, ctx : Ctx, field : Fields]
      /\ N \in Nat \ {0} /\ Ctx = 0 .. N - 1
  BY EngineAssumption, Zenon DEF Inv, TypeOK, MainTypeOK, Ctx
<1> USE DEF engine_vars, io_vars, count_vars, frame_vars, context_vars
<1>1. CASE Tame
  BY <1>1, <1>0, Zenon DEF Tame, Alone, Scanned, empty_io
<1>2. ASSUME NEW c \in Ctx, NEW t \in Tasks, MainSubmit(t, c) PROVE Alone' /\ Scanned'
  BY <1>2, <1>0, Zenon DEF MainSubmit, Alone, Scanned, empty_io
<1>3. ASSUME MainLoop PROVE Alone' /\ Scanned'
  BY <1>3, <1>0, Zenon DEF MainLoop, MainAt, Alone, Scanned, empty_io
<1>4. ASSUME MainStart PROVE Alone' /\ Scanned'
  BY <1>4, <1>0, Zenon DEF MainStart, MainAt, Alone, Scanned, empty_io
<1>5. ASSUME MainAssignJob PROVE Alone' /\ Scanned'
  BY <1>5, <1>0, <1>t DEF MainAssignJob, NextCtx, MainAt, Alone, Scanned, empty_io
<1>6. ASSUME MainScan PROVE Alone' /\ Scanned'
  <2>1. Alone'
    BY <1>6, <1>0, Zenon DEF MainScan, Alone, empty_io
  <2>2. Scanned'
    <3>1. UNCHANGED m_wait_count /\ main.at = "scan"
      BY <1>6, Zenon DEF MainScan
    <3>2. CASE main' = MainAt("scan", 0)
      BY <3>2, <1>t DEF Scanned, MainAt
    <3>3. CASE main' = [main EXCEPT !.field = @ + 1]
      BY <3>1, <3>3, <1>0, <1>t, Zenon DEF Scanned
    <3>4. CASE IdleField(main.ctx, main.field) /\ main.field = 5 /\ NextCtx("scan", "stop")
      <4>1. m_wait_count[main.ctx] = 0
        BY <3>4 DEF IdleField
      <4>2. CASE main.ctx + 1 < N
        BY <3>1, <3>4, <4>1, <4>2, <1>0, <1>t DEF Scanned, NextCtx, MainAt
      <4>3. CASE ~(main.ctx + 1 < N)
        BY <3>1, <3>4, <4>1, <4>3, <1>0, <1>t DEF Scanned, NextCtx, MainAt
      <4> QED BY <4>2, <4>3, Zenon
    <3> QED BY <1>6, <3>2, <3>3, <3>4, Zenon DEF MainScan
  <2> QED BY <2>1, <2>2, Zenon
<1>7. ASSUME MainRequestStop PROVE Alone' /\ Scanned'
  BY <1>7, <1>0, Zenon DEF MainRequestStop, MainAt, Alone, Scanned, empty_io
<1>8. ASSUME MainNotify PROVE Alone' /\ Scanned'
  BY <1>8, <1>0, <1>t DEF MainNotify, NextCtx, MainAt, Alone, Scanned, empty_io
<1>9. ASSUME MainJoin PROVE Alone' /\ Scanned'
  BY <1>9, <1>0, <1>t, Zenon DEF MainJoin, NextCtx, MainAt, Alone, Scanned, empty_io
<1>10. CASE UNCHANGED vars
  BY <1>10, <1>0, Zenon DEF vars, Alone, Scanned, empty_io
<1> QED
  BY <1>0, <1>1, <1>2, <1>3, <1>4, <1>5, <1>6, <1>7, <1>8, <1>9, <1>10, WorkerTame
     DEF Next, WorkerStep, MainStep, Main, Over

\* For independent tasks the scan of loop_impl is exact, for any number of contexts
\* and tasks: when it ends, no context has a handle queued or executing, or I/O.
THEOREM IndependentQuiescentCorrect == Spec => []IndependentQuiescent
<1>1. Init => Inv /\ Solo
  <2>1. Init => Solo
    BY DEF Init, EngineInit, ContextInit, Solo, Begun, Alone, Scanned, MainAt, empty_io
  <2> QED BY <2>1, InvInit, Zenon DEF Inv
<1>2. Inv /\ Solo /\ [Next]_vars => Inv' /\ Solo'
  BY TypeStep, ControlStep, WaitCountStep, IoStep, SoloStep, Zenon DEF Inv
<1>3. Solo => IndependentQuiescent
  BY Zenon DEF Solo, Alone, Scanned, IndependentQuiescent, StopsWhenQuiescent
<1> QED
  BY <1>1, <1>2, <1>3, PTL DEF Spec
=============================================================================
