---------------------------- MODULE HandleProofs ----------------------------
(***************************************************************************)
(* Proofs about Scheduler.tla, part 3: every coroutine handle is in one    *)
(* place, from its submission to its co_return. From this follow that no   *)
(* coroutine is resumed twice, that the I/O counters are exact, that only  *)
(* live frames are touched, and that no task is left behind.               *)
(***************************************************************************)
EXTENDS SchedulerProofs

-----------------------------------------------------------------------------
(* Where a handle can be.                                                  *)

Kinds == {"queue", "body", "call", "sq", "kernel", "cq", "parked"}

Resumed(c) == IF pc[c] \in {"body", "trapped"} THEN {coro[c]} ELSE {}

Submitted(c) ==
    IF call[c].step \in {"dispatch", "register", "push"} THEN {call[c].task} ELSE {}

Parked(c) == IF c = 0 THEN parked ELSE {}

\* The handles in the task queue of c, resumed by its worker, inside its submit_task
\* call before the push, in its rings or with the kernel for it; wait lists belong to
\* no context.
There(k, c) ==
    CASE k = "queue"  -> Items(m_task_queue[c], 0)
      [] k = "body"   -> Resumed(c)
      [] k = "call"   -> Submitted(c)
      [] k = "sq"     -> sq[c]
      [] k = "kernel" -> inflight[c]
      [] k = "cq"     -> Items(cq[c], handled[c])
      [] k = "parked" -> Parked(c)

\* No handle is in two places, ...
Apart ==
    \A t \in Tasks, k \in Kinds, l \in Kinds, c \in Ctx, d \in Ctx :
        t \in There(k, c) /\ t \in There(l, d) => k = l /\ c = d

\* ... or twice in one, ...
NoCopies == \A c \in Ctx : NoRepeat(m_task_queue[c], 0) /\ NoRepeat(cq[c], handled[c])

\* ... and a coroutine that has not finished is in one.
Alive ==
    \A t \in Tasks : frame[t] = "live" <=> \E k \in Kinds, c \in Ctx : t \in There(k, c)

\* Outside the batch loop nothing of the completion ring is half done, and clean() is
\* called for a finished coroutine only.
Reaped ==
    \A c \in Ctx : /\ pc[c] # "cqe" => handled[c] = 0
                   /\ pc[c] = "clean" => frame[coro[c]] \in {"done", "freed"}

\* The inductive invariant about handles.
Handles == Apart /\ NoCopies /\ Alive /\ Reaped

\* The cases of There.
LEMMA ThereIs ==
  ASSUME NEW c
  PROVE  /\ There("queue", c) = Items(m_task_queue[c], 0)
         /\ There("body", c) = Resumed(c) /\ There("call", c) = Submitted(c)
         /\ There("sq", c) = sq[c] /\ There("kernel", c) = inflight[c]
         /\ There("cq", c) = Items(cq[c], handled[c]) /\ There("parked", c) = Parked(c)
BY Zenon DEF There

\* The cases of There after a step.
LEMMA ThereIsNext ==
  ASSUME NEW c
  PROVE  /\ There("queue", c)' = Items(m_task_queue'[c], 0)
         /\ There("body", c)' = Resumed(c)' /\ There("call", c)' = Submitted(c)'
         /\ There("sq", c)' = sq'[c] /\ There("kernel", c)' = inflight'[c]
         /\ There("cq", c)' = Items(cq'[c], handled'[c]) /\ There("parked", c)' = Parked(c)'
BY Zenon DEF There

\* A step that moves no handle.
LEMMA NoneMoves ==
  ASSUME Apart, Alive, \A k \in Kinds, c \in Ctx : There(k, c)' = There(k, c),
         \A t \in Tasks : frame'[t] = "live" <=> frame[t] = "live"
  PROVE  Apart' /\ Alive'
BY DEF Apart, Alive

\* The handles S move from place k of context c to place l of context d.
Moves(S, k, c, l, d) ==
    /\ S \subseteq There(k, c)
    /\ \A m \in Kinds, e \in Ctx :
           There(m, e)' = IF m = k /\ e = c THEN There(m, e) \ S
                          ELSE IF m = l /\ e = d THEN There(m, e) \cup S
                          ELSE There(m, e)

\* Moving handles to a place of another kind keeps them apart.
LEMMA SomeMove ==
  ASSUME Apart, Alive, NEW k \in Kinds, NEW c \in Ctx, NEW l \in Kinds, NEW d \in Ctx,
         k # l, NEW S, Moves(S, k, c, l, d), frame' = frame
  PROVE  Apart' /\ Alive'
<1> USE DEF Moves
<1>1. ASSUME NEW t \in S, t \in Tasks, NEW m \in Kinds, NEW e \in Ctx
      PROVE  t \in There(m, e)' <=> (m = l /\ e = d)
  BY <1>1 DEF Apart
<1>2. ASSUME NEW t, t \notin S, NEW m \in Kinds, NEW e \in Ctx
      PROVE  t \in There(m, e)' <=> t \in There(m, e)
  BY <1>2, Zenon
<1>3. Apart'
  BY <1>1, <1>2 DEF Apart
<1>4. ASSUME NEW t \in Tasks
      PROVE  frame'[t] = "live" <=> \E m \in Kinds, e \in Ctx : t \in There(m, e)'
  <2>1. CASE t \in S
    BY <2>1, <1>1, Zenon DEF Alive
  <2>2. CASE t \notin S
    BY <2>2, <1>2, Zenon DEF Alive
  <2> QED BY <2>1, <2>2, Zenon
<1> QED BY <1>3, <1>4, Zenon DEF Alive

\* Handle t appears at place k of context c, or disappears from it.
Appears(t, k, c) ==
    \A m \in Kinds, e \in Ctx :
        There(m, e)' = IF m = k /\ e = c THEN There(m, e) \cup {t} ELSE There(m, e)

Disappears(t, k, c) ==
    \A m \in Kinds, e \in Ctx :
        There(m, e)' = IF m = k /\ e = c THEN There(m, e) \ {t} ELSE There(m, e)

\* A step that creates a coroutine.
LEMMA OneComes ==
  ASSUME TypeOK, Apart, Alive, NEW t \in Tasks, frame[t] = "none",
         frame' = [frame EXCEPT ![t] = "live"], NEW k \in Kinds, NEW c \in Ctx,
         Appears(t, k, c)
  PROVE  Apart' /\ Alive'
<1> USE DEF TypeOK, FrameTypeOK, Appears
<1>1. \A m \in Kinds, e \in Ctx : t \notin There(m, e)
  BY Zenon DEF Alive
<1>2. \A m \in Kinds, e \in Ctx : t \in There(m, e)' <=> (m = k /\ e = c)
  BY <1>1, Zenon
<1>3. \A u \in Tasks \ {t}, m \in Kinds, e \in Ctx : u \in There(m, e)' <=> u \in There(m, e)
  BY Zenon
<1>4. Apart'
  BY <1>2, <1>3 DEF Apart
<1>5. frame'[t] = "live" /\ \A u \in Tasks \ {t} : frame'[u] = frame[u]
  BY Zenon
<1>6. ASSUME NEW u \in Tasks
      PROVE  frame'[u] = "live" <=> \E m \in Kinds, e \in Ctx : u \in There(m, e)'
  <2>1. CASE u = t
    BY <2>1, <1>2, <1>5, Zenon
  <2>2. CASE u # t
    BY <2>2, <1>3, <1>5, Zenon DEF Alive
  <2> QED BY <2>1, <2>2, Zenon
<1> QED BY <1>4, <1>6, Zenon DEF Alive

\* A step at which a coroutine finishes.
LEMMA OneGoes ==
  ASSUME TypeOK, Apart, Alive, NEW t \in Tasks, frame' = [frame EXCEPT ![t] = "done"],
         NEW k \in Kinds, NEW c \in Ctx, t \in There(k, c), Disappears(t, k, c)
  PROVE  Apart' /\ Alive'
<1> USE DEF TypeOK, FrameTypeOK, Disappears
<1>1. \A m \in Kinds, e \in Ctx : t \notin There(m, e)'
  BY DEF Apart
<1>2. \A u \in Tasks \ {t}, m \in Kinds, e \in Ctx : u \in There(m, e)' <=> u \in There(m, e)
  BY Zenon
<1>3. Apart'
  BY <1>1, <1>2 DEF Apart
<1>4. frame'[t] # "live" /\ \A u \in Tasks \ {t} : frame'[u] = frame[u]
  BY Zenon
<1>5. ASSUME NEW u \in Tasks
      PROVE  frame'[u] = "live" <=> \E m \in Kinds, e \in Ctx : u \in There(m, e)'
  <2>1. CASE u = t
    BY <2>1, <1>1, <1>4, Zenon
  <2>2. CASE u # t
    BY <2>2, <1>2, <1>4, Zenon DEF Alive
  <2> QED BY <2>1, <2>2, Zenon
<1> QED BY <1>3, <1>5, Zenon DEF Alive

\* A step that leaves every handle where it is.
Still ==
    /\ UNCHANGED <<m_task_queue, sq, inflight, cq, handled, parked, frame>>
    /\ \A c \in Ctx : /\ Resumed(c)' = Resumed(c) /\ Submitted(c)' = Submitted(c)
                      /\ pc'[c] = "cqe" \/ handled[c] = 0
                      /\ pc'[c] = "clean" => frame[coro'[c]] \in {"done", "freed"}

\* Such a step keeps the invariant.
LEMMA StillKeeps == Handles /\ Still => Handles'
<1> SUFFICES ASSUME Handles, Still PROVE Handles'
  BY Zenon
<1>1. ASSUME NEW c \in Ctx PROVE \A k \in Kinds : There(k, c)' = There(k, c)
  BY Zenon DEF There, Still, Parked, Kinds
<1>2. Apart' /\ Alive'
  BY <1>1, NoneMoves, Zenon DEF Handles, Still
<1>3. NoCopies' /\ Reaped'
  BY Zenon DEF Handles, Still, NoCopies, Reaped
<1> QED BY <1>2, <1>3, Zenon DEF Handles

\* The steps of a worker that move no handle.
LEMMA StillSteps ==
  ASSUME TypeOK, Control, Reaped, NEW c \in Ctx,
         \/ register_wait(c) \/ SubmitWake(c) \/ ExecDone(c) \/ unregister_wait(c)
         \/ ClearRunning(c) \/ WorkerInit(c) \/ RunWhile(c) \/ RunWaitCount(c)
         \/ RunReady(c) \/ RunSelfStop(c) \/ WorkerDeinit(c) \/ PollSettle(c)
         \/ PollWait(c) \/ PollPeek(c) \/ SubmitDispatch(c)
  PROVE  Still
<1>t. ThreadTypeOK /\ IoTypeOK
  BY Zenon DEF TypeOK
<1>r. \A d \in Ctx : /\ pc[d] # "cqe" => handled[d] = 0
                     /\ pc[d] = "clean" => frame[coro[d]] \in {"done", "freed"}
  BY Zenon DEF Reaped
<1> USE DEF engine_vars, queue_vars, io_vars, count_vars, batch_vars, context_vars,
            thread_vars, frame_vars, Goto, Still, Resumed, Submitted, ThreadTypeOK
<1>1. CASE register_wait(c)
  <2>1. /\ call[c].step = "register" /\ call'[c].step = "push" /\ call'[c].task = call[c].task
        /\ \A d \in Ctx \ {c} : call'[d] = call[d]
    BY <1>1, <1>t DEF register_wait
  <2> QED BY <1>1, <2>1, <1>r DEF register_wait
<1>2. CASE SubmitWake(c)
  BY <1>2, <1>t, <1>r, Zenon DEF SubmitWake, NoCall
<1>3. CASE ExecDone(c)
  BY <1>3, <1>t, <1>r DEF ExecDone, DoneAnswers
<1>4. CASE unregister_wait(c)
  BY <1>4, <1>t, <1>r, Zenon DEF unregister_wait
<1>5. CASE ClearRunning(c)
  BY <1>5, <1>t, <1>r, Zenon DEF ClearRunning
<1>6. CASE WorkerInit(c)
  BY <1>6, <1>t, <1>r, Zenon DEF WorkerInit, Unmoved
<1>7. CASE RunWhile(c)
  BY <1>7, <1>t, <1>r, Zenon DEF RunWhile, Unmoved
<1>8. CASE RunWaitCount(c)
  BY <1>8, <1>t, <1>r, Zenon DEF RunWaitCount, Unmoved
<1>9. CASE RunReady(c)
  BY <1>9, <1>t, <1>r DEF RunReady, Unmoved
<1>10. CASE RunSelfStop(c)
  BY <1>10, <1>t, <1>r DEF RunSelfStop, Unmoved
<1>11. CASE WorkerDeinit(c)
  BY <1>11, <1>t, <1>r, Zenon DEF WorkerDeinit, Unmoved
<1>12. CASE PollSettle(c)
  BY <1>12, <1>t, <1>r, Zenon DEF PollSettle, Unmoved, SettleSubmit
<1>13. CASE PollWait(c)
  BY <1>13, <1>t, <1>r, Zenon DEF PollWait, Unmoved
<1>14. CASE PollPeek(c)
  BY <1>14, <1>t, <1>r DEF PollPeek, Unmoved, PeekBatch, IoTypeOK
<1>15. CASE SubmitDispatch(c)
  BY <1>15, <1>t, <1>r, Zenon DEF SubmitDispatch
<1> QED
  BY <1>1, <1>2, <1>3, <1>4, <1>5, <1>6, <1>7, <1>8, <1>9, <1>10, <1>11, <1>12, <1>13, <1>14,
     <1>15, ZenonT(30)

-----------------------------------------------------------------------------
(* The steps that move a handle, in the order of its life.                 *)

\* The main thread submits: from nowhere into a task queue.
LEMMA MainSubmitHandles ==
  ASSUME TypeOK, Control, Handles, NEW c \in Ctx, NEW t \in Tasks, MainSubmit(t, c)
  PROVE  Handles'
<1>1. /\ frame[t] = "none" /\ frame' = [frame EXCEPT ![t] = "live"]
      /\ m_task_queue' = [m_task_queue EXCEPT ![c] = Append(m_task_queue[c], t)]
      /\ UNCHANGED <<sq, inflight, cq, handled, pc, coro, call, parked>>
  BY Zenon DEF MainSubmit, push, io_vars, batch_vars, thread_vars
<1>2. t \notin Items(m_task_queue[c], 0)
  BY <1>1, ThereIs, Zenon DEF Handles, Alive, Kinds
<1>3. /\ Items(m_task_queue'[c], 0) = Items(m_task_queue[c], 0) \cup {t}
      /\ NoRepeat(m_task_queue'[c], 0) /\ \A e \in Ctx \ {c} : m_task_queue'[e] = m_task_queue[e]
  <2>1. m_task_queue[c] \in Seq(Tasks) /\ 0 <= Len(m_task_queue[c]) /\ NoRepeat(m_task_queue[c], 0)
    BY DEF TypeOK, QueueTypeOK, Handles, NoCopies
  <2>2. /\ Items(Append(m_task_queue[c], t), 0) = Items(m_task_queue[c], 0) \cup {t}
        /\ NoRepeat(Append(m_task_queue[c], t), 0)
    BY <1>2, <2>1, ItemsAppend
  <2> QED BY <1>1, <2>2, Zenon DEF TypeOK, QueueTypeOK
<1>4. ASSUME NEW m \in Kinds, NEW e \in Ctx
      PROVE  There(m, e)' = IF m = "queue" /\ e = c THEN There(m, e) \cup {t} ELSE There(m, e)
  <2>1. Resumed(e)' = Resumed(e) /\ Submitted(e)' = Submitted(e) /\ Parked(e)' = Parked(e)
    BY <1>1, Zenon DEF Resumed, Submitted, Parked
  <2>2. CASE m = "queue"
    BY <1>3, <2>2, Zenon DEF There
  <2>3. CASE m # "queue"
    BY <1>1, <2>1, <2>3, Zenon DEF There, Kinds
  <2> QED BY <2>2, <2>3, Zenon
<1>5. Apart' /\ Alive'
  <2>1. Appears(t, "queue", c) /\ "queue" \in Kinds
    BY <1>4, Zenon DEF Appears, Kinds
  <2> QED BY <1>1, <2>1, OneComes, Zenon DEF Handles
<1>6. NoCopies'
  BY <1>1, <1>3, Zenon DEF Handles, NoCopies
<1>7. Reaped'
  BY <1>1 DEF Handles, Reaped, TypeOK, FrameTypeOK
<1> QED BY <1>5, <1>6, <1>7, Zenon DEF Handles

\* A body enters submit_to_*: a new coroutine, from nowhere, or one from a wait list.
LEMMA SubmitHandles ==
  ASSUME TypeOK, Control, Handles, NEW c \in Ctx, NEW t \in Tasks,
         SpawnTask(c, t) \/ ResumeParked(c, t)
  PROVE  Handles'
<1>1. /\ call[c].step = "none" /\ UNCHANGED <<m_task_queue, sq, inflight, cq, handled, pc, coro>>
      /\ call'[c].step \in {"dispatch", "register"} /\ call'[c].task = t
      /\ \A e \in Ctx \ {c} : call'[e] = call[e]
  BY DEF SpawnTask, ResumeParked, InBody, NoCall, Submit, engine_vars, queue_vars, io_vars,
         batch_vars, thread_vars, TypeOK, ThreadTypeOK
<1>2. Submitted(c)' = Submitted(c) \cup {t} /\ \A e \in Ctx \ {c} : Submitted(e)' = Submitted(e)
  BY <1>1, Zenon DEF Submitted
<1>3. NoCopies'
  BY <1>1, Zenon DEF Handles, NoCopies
<1>4. CASE SpawnTask(c, t)
  <2>1. frame[t] = "none" /\ frame' = [frame EXCEPT ![t] = "live"] /\ parked' = parked
    BY <1>4, Zenon DEF SpawnTask
  <2>2. ASSUME NEW m \in Kinds, NEW e \in Ctx
        PROVE  There(m, e)' = IF m = "call" /\ e = c THEN There(m, e) \cup {t} ELSE There(m, e)
    BY <1>1, <1>2, <2>1, Zenon DEF There, Kinds, Resumed, Parked
  <2>3. Apart' /\ Alive'
    <3>1. Appears(t, "call", c) /\ "call" \in Kinds
      BY <2>2, Zenon DEF Appears, Kinds
    <3> QED BY <2>1, <3>1, OneComes, Zenon DEF Handles
  <2>4. Reaped'
    BY <1>1, <2>1 DEF Handles, Reaped, TypeOK, FrameTypeOK
  <2> QED BY <1>3, <2>3, <2>4, Zenon DEF Handles
<1>5. CASE ResumeParked(c, t)
  <2>1. t \in parked /\ parked' = parked \ {t} /\ frame' = frame
    BY <1>5, Zenon DEF ResumeParked
  <2>2. ASSUME NEW m \in Kinds, NEW e \in Ctx
        PROVE  There(m, e)' = IF m = "parked" /\ e = 0 THEN There(m, e) \ {t}
                              ELSE IF m = "call" /\ e = c THEN There(m, e) \cup {t}
                              ELSE There(m, e)
    BY <1>1, <1>2, <2>1, Zenon DEF There, Kinds, Resumed, Parked
  <2>3. Apart' /\ Alive'
    <3>1. {t} \subseteq There("parked", 0)
      BY <2>1, ThereIs DEF Parked
    <3>2. Moves({t}, "parked", 0, "call", c)
      BY <2>2, <3>1, Zenon DEF Moves
    <3>3. "call" \in Kinds /\ "parked" \in Kinds /\ 0 \in Ctx
      BY CtxNat, Zenon DEF Kinds
    <3> QED BY <2>1, <3>2, <3>3, SomeMove, Zenon DEF Handles
  <2>4. Reaped'
    BY <1>1, <2>1, Zenon DEF Handles, Reaped
  <2> QED BY <1>3, <2>3, <2>4, Zenon DEF Handles
<1> QED BY <1>4, <1>5, Zenon

\* The push: from the call into the task queue.
LEMMA PushHandles ==
  ASSUME TypeOK, Control, Handles, NEW w \in Ctx, SubmitPush(w)
  PROVE  Handles'
<1> DEFINE t == call[w].task
           c == call[w].ctx
<1>1. /\ call[w].step = "push" /\ call'[w].step = "wake" /\ t \in Tasks /\ c \in Ctx
      /\ \A e \in Ctx \ {w} : call'[e] = call[e]
  BY DEF SubmitPush, TypeOK, ThreadTypeOK, Control, CallOK, NoCall
<1>2. /\ m_task_queue' = [m_task_queue EXCEPT ![c] = Append(m_task_queue[c], t)]
      /\ UNCHANGED <<sq, inflight, cq, handled, pc, coro, parked, frame>>
  BY Zenon DEF SubmitPush, push, io_vars, batch_vars, thread_vars, frame_vars
<1>3. t \in Submitted(w)
  BY <1>1, Zenon DEF Submitted
<1> HIDE DEF t, c
<1>4. t \notin Items(m_task_queue[c], 0)
  <2>1. t \in There("call", w) /\ There("queue", c) = Items(m_task_queue[c], 0)
    BY <1>3, ThereIs, Zenon
  <2> QED BY <1>1, <2>1 DEF Handles, Apart, Kinds
<1>5. /\ Items(m_task_queue'[c], 0) = Items(m_task_queue[c], 0) \cup {t}
      /\ NoRepeat(m_task_queue'[c], 0) /\ \A e \in Ctx \ {c} : m_task_queue'[e] = m_task_queue[e]
  <2>1. m_task_queue[c] \in Seq(Tasks) /\ 0 <= Len(m_task_queue[c]) /\ NoRepeat(m_task_queue[c], 0)
    BY <1>1 DEF TypeOK, QueueTypeOK, Handles, NoCopies
  <2>2. /\ Items(Append(m_task_queue[c], t), 0) = Items(m_task_queue[c], 0) \cup {t}
        /\ NoRepeat(Append(m_task_queue[c], t), 0)
    BY <1>1, <1>4, <2>1, ItemsAppend
  <2> QED BY <1>1, <1>2, <2>2, Zenon DEF TypeOK, QueueTypeOK
<1>6. Submitted(w) = {t} /\ Submitted(w)' = {} /\ \A e \in Ctx \ {w} : Submitted(e)' = Submitted(e)
  BY <1>1, Zenon DEF Submitted, t
<1>7. ASSUME NEW m \in Kinds, NEW e \in Ctx
      PROVE  There(m, e)' = IF m = "call" /\ e = w THEN There(m, e) \ {t}
                            ELSE IF m = "queue" /\ e = c THEN There(m, e) \cup {t}
                            ELSE There(m, e)
  <2>1. Resumed(e)' = Resumed(e) /\ Parked(e)' = Parked(e)
    BY <1>2, Zenon DEF Resumed, Parked
  <2>2. CASE m = "queue"
    BY <1>5, <2>2, Zenon DEF There
  <2>3. CASE m = "call"
    BY <1>6, <2>3, Zenon DEF There
  <2>4. CASE m \notin {"queue", "call"}
    BY <1>2, <2>1, <2>4, Zenon DEF There, Kinds
  <2> QED BY <2>2, <2>3, <2>4, Zenon
<1>8. Moves({t}, "call", w, "queue", c) /\ "call" \in Kinds /\ "queue" \in Kinds
  BY <1>3, <1>7, ThereIs, Zenon DEF Moves, Kinds
<1>9. Apart' /\ Alive'
  BY <1>1, <1>2, <1>8, SomeMove, Zenon DEF Handles
<1>10. NoCopies'
  BY <1>2, <1>5, Zenon DEF Handles, NoCopies
<1>11. Reaped'
  BY <1>2, Zenon DEF Handles, Reaped
<1> QED BY <1>9, <1>10, <1>11, Zenon DEF Handles

\* The pop: from the task queue into the worker's hand.
LEMMA PopHandles ==
  ASSUME TypeOK, Control, Handles, NEW c \in Ctx, ExecPop(c)
  PROVE  Handles'
<1> DEFINE t == Head(m_task_queue[c])
<1>1. /\ m_task_queue[c] \in Seq(Tasks) /\ m_task_queue[c] # <<>>
      /\ m_task_queue' = [m_task_queue EXCEPT ![c] = Tail(m_task_queue[c])]
      /\ UNCHANGED <<sq, inflight, cq, handled, call, parked, frame>>
  BY Zenon DEF ExecPop, schedule, ready, io_vars, batch_vars, frame_vars, TypeOK, QueueTypeOK
<1>2. /\ pc[c] = "exec" /\ pc'[c] = "body" /\ coro'[c] = t
      /\ \A e \in Ctx \ {c} : pc'[e] = pc[e] /\ coro'[e] = coro[e]
  BY Zenon DEF ExecPop, Goto, TypeOK, ThreadTypeOK
<1> HIDE DEF t
<1>3. NoRepeat(m_task_queue[c], 0)
  BY Zenon DEF Handles, NoCopies
<1>4. /\ t \in Items(m_task_queue[c], 0) /\ t \in Tasks
      /\ Items(m_task_queue'[c], 0) = Items(m_task_queue[c], 0) \ {t}
      /\ NoRepeat(m_task_queue'[c], 0) /\ \A e \in Ctx \ {c} : m_task_queue'[e] = m_task_queue[e]
  <2>1. m_task_queue'[c] = Tail(m_task_queue[c]) /\ \A e \in Ctx \ {c} : m_task_queue'[e] = m_task_queue[e]
    BY <1>1, Zenon DEF TypeOK, QueueTypeOK
  <2> QED BY <1>1, <1>3, <2>1, ItemsTail DEF t
<1>5. Resumed(c) = {} /\ Resumed(c)' = {t} /\ \A e \in Ctx \ {c} : Resumed(e)' = Resumed(e)
  BY <1>2, Zenon DEF Resumed
<1>6. ASSUME NEW m \in Kinds, NEW e \in Ctx
      PROVE  There(m, e)' = IF m = "queue" /\ e = c THEN There(m, e) \ {t}
                            ELSE IF m = "body" /\ e = c THEN There(m, e) \cup {t}
                            ELSE There(m, e)
  <2>1. Submitted(e)' = Submitted(e) /\ Parked(e)' = Parked(e)
    BY <1>1, Zenon DEF Submitted, Parked
  <2>2. CASE m = "queue"
    BY <1>4, <2>2, Zenon DEF There
  <2>3. CASE m = "body"
    BY <1>5, <2>3, Zenon DEF There
  <2>4. CASE m \notin {"queue", "body"}
    BY <1>1, <2>1, <2>4, Zenon DEF There, Kinds
  <2> QED BY <2>2, <2>3, <2>4, Zenon
<1>7. Moves({t}, "queue", c, "body", c) /\ "body" \in Kinds /\ "queue" \in Kinds
  BY <1>4, <1>6, ThereIs, Zenon DEF Moves, Kinds
<1>8. Apart' /\ Alive'
  BY <1>1, <1>7, SomeMove, Zenon DEF Handles
<1>9. NoCopies'
  BY <1>1, <1>4, Zenon DEF Handles, NoCopies
<1>10. Reaped'
  BY <1>1, <1>2, Zenon DEF Handles, Reaped
<1> QED BY <1>8, <1>9, <1>10, Zenon DEF Handles

\* A suspension: from the worker's hand to an SQE or into a wait list.
LEMMA SuspendHandles ==
  ASSUME TypeOK, Control, Handles, NEW c \in Ctx, AwaitIo(c) \/ AwaitPrimitive(c)
  PROVE  Handles'
<1> DEFINE t == coro[c]
<1>1. /\ pc[c] = "body" /\ pc'[c] = "done" /\ t \in Tasks
      /\ \A e \in Ctx \ {c} : pc'[e] = pc[e]
      /\ UNCHANGED <<m_task_queue, inflight, cq, handled, call, coro, frame>>
  BY Zenon
     DEF AwaitIo, AwaitPrimitive, Suspend, InBody, Goto, add_io_submit, io_vars, queue_vars,
         batch_vars, TypeOK, ThreadTypeOK, Control, HoldsTask, Executing
<1>2. Resumed(c) = {t} /\ Resumed(c)' = {} /\ \A e \in Ctx \ {c} : Resumed(e)' = Resumed(e)
  BY <1>1, Zenon DEF Resumed
<1>3. \A e \in Ctx : Submitted(e)' = Submitted(e)
  BY <1>1, Zenon DEF Submitted
<1>4. {t} \subseteq There("body", c) /\ {"body", "sq", "parked"} \subseteq Kinds
  BY <1>2, ThereIs, Zenon DEF Kinds
<1>5. NoCopies'
  BY <1>1, Zenon DEF Handles, NoCopies
<1>6. Reaped'
  BY <1>1, Zenon DEF Handles, Reaped
<1>7. CASE AwaitIo(c)
  <2>1. sq'[c] = sq[c] \cup {t} /\ \A e \in Ctx \ {c} : sq'[e] = sq[e]
    BY <1>7, Zenon DEF AwaitIo, add_io_submit, TypeOK, IoTypeOK
  <2>2. \A e \in Ctx : Parked(e)' = Parked(e)
    BY <1>7, Zenon DEF AwaitIo, Parked
  <2> HIDE DEF t
  <2>3. ASSUME NEW m \in Kinds, NEW e \in Ctx
        PROVE  There(m, e)' = IF m = "body" /\ e = c THEN There(m, e) \ {t}
                              ELSE IF m = "sq" /\ e = c THEN There(m, e) \cup {t}
                              ELSE There(m, e)
    BY <1>1, <1>2, <1>3, <2>1, <2>2, Zenon DEF There, Kinds
  <2>4. Moves({t}, "body", c, "sq", c)
    BY <1>4, <2>3, Zenon DEF Moves
  <2>5. Apart' /\ Alive'
    BY <1>1, <1>4, <2>4, SomeMove, Zenon DEF Handles
  <2> QED BY <1>5, <1>6, <2>5, Zenon DEF Handles
<1>8. CASE AwaitPrimitive(c)
  <2>1. parked' = parked \cup {t} /\ sq' = sq
    BY <1>8, Zenon DEF AwaitPrimitive, io_vars
  <2> HIDE DEF t
  <2>2. ASSUME NEW m \in Kinds, NEW e \in Ctx
        PROVE  There(m, e)' = IF m = "body" /\ e = c THEN There(m, e) \ {t}
                              ELSE IF m = "parked" /\ e = 0 THEN There(m, e) \cup {t}
                              ELSE There(m, e)
    BY <1>1, <1>2, <1>3, <2>1, Zenon DEF There, Kinds, Parked
  <2>3. Moves({t}, "body", c, "parked", 0)
    BY <1>4, <2>2, Zenon DEF Moves
  <2>4. Apart' /\ Alive'
    BY <1>1, <1>4, <2>3, SomeMove, CtxNat, Zenon DEF Handles
  <2> QED BY <1>5, <1>6, <2>4, Zenon DEF Handles
<1> QED BY <1>7, <1>8, Zenon

\* poll_submit: from the submission ring to the kernel.
LEMMA PollSubmitHandles ==
  ASSUME TypeOK, Control, Handles, NEW c \in Ctx, PollSubmit(c)
  PROVE  Handles'
<1>1. /\ pc[c] = "poll" /\ pc'[c] \in {"settle", "pollwait"} /\ \A e \in Ctx \ {c} : pc'[e] = pc[e]
      /\ UNCHANGED <<m_task_queue, cq, handled, call, coro, parked, frame>>
  BY Zenon
     DEF PollSubmit, Unmoved, Goto, SubmitSqes, io_vars, queue_vars, batch_vars, frame_vars,
         TypeOK, ThreadTypeOK
<1>2. \A e \in Ctx : /\ Resumed(e)' = Resumed(e) /\ Submitted(e)' = Submitted(e)
                     /\ Parked(e)' = Parked(e)
  BY <1>1, Zenon DEF Resumed, Submitted, Parked
<1>3. NoCopies' /\ Reaped'
  BY <1>1, Zenon DEF Handles, NoCopies, Reaped
<1>4. CASE SubmitSqes(c)
  <2>1. /\ sq'[c] = {} /\ inflight'[c] = inflight[c] \cup sq[c]
        /\ \A e \in Ctx \ {c} : sq'[e] = sq[e] /\ inflight'[e] = inflight[e]
    BY <1>4, Zenon DEF SubmitSqes, TypeOK, IoTypeOK
  <2>2. ASSUME NEW m \in Kinds, NEW e \in Ctx
        PROVE  There(m, e)' = IF m = "sq" /\ e = c THEN There(m, e) \ sq[c]
                              ELSE IF m = "kernel" /\ e = c THEN There(m, e) \cup sq[c]
                              ELSE There(m, e)
    BY <1>1, <1>2, <2>1, Zenon DEF There, Kinds
  <2>3. Moves(sq[c], "sq", c, "kernel", c) /\ {"sq", "kernel"} \subseteq Kinds
    BY <2>2, ThereIs, Zenon DEF Moves, Kinds
  <2>4. Apart' /\ Alive'
    BY <1>1, <2>3, SomeMove, Zenon DEF Handles
  <2> QED BY <1>3, <2>4, Zenon DEF Handles
<1>5. CASE UNCHANGED io_vars
  <2>1. sq' = sq /\ inflight' = inflight
    BY <1>5, Zenon DEF io_vars
  <2>2. ASSUME NEW e \in Ctx PROVE \A m \in Kinds : There(m, e)' = There(m, e)
    BY <1>1, <1>2, <2>1, Zenon DEF There, Kinds
  <2>3. Apart' /\ Alive'
    BY <1>1, <2>2, NoneMoves, Zenon DEF Handles
  <2> QED BY <1>3, <2>3, Zenon DEF Handles
<1> QED BY <1>4, <1>5, Zenon DEF PollSubmit

\* A completion: from the kernel into the completion ring.
LEMMA KernelHandles ==
  ASSUME TypeOK, Control, Handles, NEW c \in Ctx, Kernel(c)
  PROVE  Handles'
<1>1. PICK t \in Tasks : Complete(c, t)
  BY Zenon DEF Kernel
<1>2. /\ t \in inflight[c] /\ inflight'[c] = inflight[c] \ {t}
      /\ \A e \in Ctx \ {c} : inflight'[e] = inflight[e] /\ cq'[e] = cq[e]
      /\ cq'[c] = Append(cq[c], t)
      /\ UNCHANGED <<m_task_queue, sq, handled>>
  BY <1>1, Zenon DEF Complete, batch_vars, TypeOK, IoTypeOK
<1>3. UNCHANGED <<pc, coro, call, parked, frame>>
  BY Zenon DEF Kernel, context_vars, thread_vars, frame_vars
<1>4. t \notin Items(cq[c], handled[c])
  <2>1. t \in There("kernel", c) /\ There("cq", c) = Items(cq[c], handled[c])
    BY <1>2, ThereIs, Zenon
  <2> QED BY <2>1 DEF Handles, Apart, Kinds
<1>5. /\ Items(cq'[c], handled[c]) = Items(cq[c], handled[c]) \cup {t}
      /\ NoRepeat(cq'[c], handled[c])
  <2>1. /\ cq[c] \in Seq(Tasks) /\ handled[c] \in Nat /\ handled[c] <= Len(cq[c])
        /\ NoRepeat(cq[c], handled[c])
    BY DEF TypeOK, IoTypeOK, Handles, NoCopies, Control, BatchOK
  <2> QED BY <1>2, <1>4, <2>1, ItemsAppend
<1>6. ASSUME NEW m \in Kinds, NEW e \in Ctx
      PROVE  There(m, e)' = IF m = "kernel" /\ e = c THEN There(m, e) \ {t}
                            ELSE IF m = "cq" /\ e = c THEN There(m, e) \cup {t}
                            ELSE There(m, e)
  <2>1. Resumed(e)' = Resumed(e) /\ Submitted(e)' = Submitted(e) /\ Parked(e)' = Parked(e)
    BY <1>3, Zenon DEF Resumed, Submitted, Parked
  <2>2. CASE m = "cq"
    BY <1>2, <1>5, <2>2, Zenon DEF There
  <2>3. CASE m # "cq"
    BY <1>2, <2>1, <2>3, Zenon DEF There, Kinds
  <2> QED BY <2>2, <2>3, Zenon
<1>7. Moves({t}, "kernel", c, "cq", c) /\ {"cq", "kernel"} \subseteq Kinds
  BY <1>2, <1>6, ThereIs, Zenon DEF Moves, Kinds
<1>8. Apart' /\ Alive'
  BY <1>3, <1>7, SomeMove, Zenon DEF Handles
<1>9. NoCopies'
  BY <1>2, <1>5, Zenon DEF Handles, NoCopies
<1>10. Reaped'
  BY <1>2, <1>3, Zenon DEF Handles, Reaped
<1> QED BY <1>8, <1>9, <1>10, Zenon DEF Handles

\* The completion callback: from the completion ring into a submit_task call.
LEMMA HandleCqeHandles ==
  ASSUME TypeOK, Control, Handles, NEW c \in Ctx, HandleCqe(c)
  PROVE  Handles'
<1> DEFINE t == cq[c][handled[c] + 1]
<1>1. /\ call[c].step = "none" /\ call'[c].step = "register" /\ call'[c].task = t
      /\ \A e \in Ctx \ {c} : call'[e] = call[e]
      /\ UNCHANGED <<m_task_queue, sq, inflight, cq, pc, coro, parked, frame>>
  <2>1. /\ call[c] = NoCall
        /\ call' = [call EXCEPT ![c] = [step |-> "register", task |-> t, ctx |-> c]]
    BY Zenon DEF HandleCqe, CqeTask
  <2>2. DOMAIN call = Ctx
    BY Zenon DEF TypeOK, ThreadTypeOK
  <2>3. UNCHANGED <<m_task_queue, sq, inflight, cq, pc, coro, parked, frame>>
    BY Zenon DEF HandleCqe, NextCqe, queue_vars, thread_vars, frame_vars
  <2> QED BY <2>1, <2>2, <2>3 DEF NoCall
<1>2. /\ pc[c] = "cqe" /\ handled'[c] = handled[c] + 1
      /\ \A e \in Ctx \ {c} : handled'[e] = handled[e]
  BY Zenon DEF HandleCqe, NextCqe, TypeOK, IoTypeOK
<1>3. /\ cq[c] \in Seq(Tasks) /\ handled[c] \in Nat /\ handled[c] < Len(cq[c])
      /\ NoRepeat(cq[c], handled[c])
  <2>1. cq[c] \in Seq(Tasks) /\ handled[c] \in Nat /\ NoRepeat(cq[c], handled[c])
    BY Zenon DEF TypeOK, IoTypeOK, Handles, NoCopies
  <2>2. handled[c] < Len(cq[c])
    BY DEF TypeOK, IoTypeOK, Control, BatchOK, HandleCqe
  <2> QED BY ONLY <2>1, <2>2, Zenon
<1>4. /\ t \in Items(cq[c], handled[c]) /\ t \in Tasks
      /\ Items(cq[c], handled[c] + 1) = Items(cq[c], handled[c]) \ {t}
      /\ NoRepeat(cq[c], handled[c] + 1)
  BY <1>3, ItemsNext, Zenon
<1> HIDE DEF t
<1>5. Submitted(c) = {} /\ Submitted(c)' = {t} /\ \A e \in Ctx \ {c} : Submitted(e)' = Submitted(e)
  BY <1>1, Zenon DEF Submitted
<1>6. ASSUME NEW m \in Kinds, NEW e \in Ctx
      PROVE  There(m, e)' = IF m = "cq" /\ e = c THEN There(m, e) \ {t}
                            ELSE IF m = "call" /\ e = c THEN There(m, e) \cup {t}
                            ELSE There(m, e)
  <2>1. Resumed(e)' = Resumed(e) /\ Parked(e)' = Parked(e)
    BY <1>1, Zenon DEF Resumed, Parked
  <2>2. CASE m = "cq"
    BY <1>1, <1>2, <1>4, <2>2, Zenon DEF There
  <2>3. CASE m # "cq"
    BY <1>1, <1>5, <2>1, <2>3, Zenon DEF There, Kinds
  <2> QED BY <2>2, <2>3, Zenon
<1>7. Moves({t}, "cq", c, "call", c) /\ {"cq", "call"} \subseteq Kinds
  BY <1>4, <1>6, ThereIs, Zenon DEF Moves, Kinds
<1>8. Apart' /\ Alive'
  BY <1>1, <1>7, SomeMove, Zenon DEF Handles
<1>9. NoCopies'
  BY <1>1, <1>2, <1>4, Zenon DEF Handles, NoCopies
<1>10. Reaped'
  BY <1>1, <1>2, Zenon DEF Handles, Reaped
<1> QED BY <1>8, <1>9, <1>10, Zenon DEF Handles

\* cq_advance forgets the entries whose callbacks have run, and no other.
LEMMA AdvanceHandles ==
  ASSUME TypeOK, Control, Handles, NEW c \in Ctx, PollAdvance(c)
  PROVE  Handles'
<1>1. /\ UNCHANGED <<m_task_queue, sq, inflight, call, coro, parked, frame>>
      /\ pc[c] = "cqe" /\ pc'[c] = "while" /\ \A e \in Ctx \ {c} : pc'[e] = pc[e]
  BY Zenon
     DEF PollAdvance, Unmoved, Goto, cq_advance, queue_vars, frame_vars, TypeOK, ThreadTypeOK
<1>2. /\ handled[c] = nready[c] /\ handled'[c] = 0
      /\ cq'[c] = SubSeq(cq[c], nready[c] + 1, Len(cq[c]))
      /\ \A e \in Ctx \ {c} : cq'[e] = cq[e] /\ handled'[e] = handled[e]
  BY Zenon DEF PollAdvance, cq_advance, TypeOK, IoTypeOK
<1>3. /\ cq[c] \in Seq(Tasks) /\ handled[c] \in Nat /\ handled[c] <= Len(cq[c])
      /\ NoRepeat(cq[c], handled[c])
  BY <1>2, Zenon DEF TypeOK, IoTypeOK, Handles, NoCopies, Control, BatchOK
<1>4. /\ cq'[c] \in Seq(Tasks) /\ Len(cq'[c]) = Len(cq[c]) - handled[c]
      /\ \A i \in 1 .. Len(cq'[c]) : cq'[c][i] = cq[c][i + handled[c]]
  <2>1. cq'[c] = SubSeq(cq[c], handled[c] + 1, Len(cq[c]))
    BY <1>2, Zenon
  <2>2. /\ SubSeq(cq[c], handled[c] + 1, Len(cq[c])) \in Seq(Tasks)
        /\ Len(SubSeq(cq[c], handled[c] + 1, Len(cq[c]))) = Len(cq[c]) - handled[c]
        /\ \A i \in 1 .. Len(SubSeq(cq[c], handled[c] + 1, Len(cq[c]))) :
               SubSeq(cq[c], handled[c] + 1, Len(cq[c]))[i] = cq[c][i + handled[c]]
    BY ONLY <1>3, SuffixIs, Zenon
  <2> QED BY ONLY <2>1, <2>2, Zenon
<1>5. Items(cq'[c], 0) = Items(cq[c], handled[c]) /\ NoRepeat(cq'[c], 0)
  BY <1>3, <1>4, ItemsDrop, Zenon
<1>6. ASSUME NEW m \in Kinds, NEW e \in Ctx PROVE There(m, e)' = There(m, e)
  <2>1. Resumed(e)' = Resumed(e) /\ Submitted(e)' = Submitted(e) /\ Parked(e)' = Parked(e)
    BY <1>1, Zenon DEF Resumed, Submitted, Parked
  <2>2. CASE m = "cq"
    BY <1>2, <1>5, <2>2, Zenon DEF There
  <2>3. CASE m # "cq"
    BY <1>1, <2>1, <2>3, Zenon DEF There, Kinds
  <2> QED BY <2>2, <2>3, Zenon
<1>7. Apart' /\ Alive'
  BY <1>1, <1>6, NoneMoves, Zenon DEF Handles
<1>8. NoCopies'
  BY <1>1, <1>2, <1>5, Zenon DEF Handles, NoCopies
<1>9. Reaped'
  BY <1>1, <1>2, Zenon DEF Handles, Reaped
<1> QED BY <1>7, <1>8, <1>9, Zenon DEF Handles

\* co_return: out of the worker's hand for good.
LEMMA CoReturnHandles ==
  ASSUME TypeOK, Control, Handles, NEW c \in Ctx, CoReturn(c)
  PROVE  Handles'
<1> DEFINE t == coro[c]
<1>1. /\ pc[c] = "body" /\ pc'[c] \in {"done", "trapped"} /\ t \in Tasks
      /\ \A e \in Ctx \ {c} : pc'[e] = pc[e]
      /\ UNCHANGED <<m_task_queue, sq, inflight, cq, handled, call, coro, parked>>
  BY Zenon DEF CoReturn, InBody, Goto, engine_vars, io_vars, queue_vars, batch_vars, TypeOK,
         ThreadTypeOK, Control, HoldsTask, Executing
<1>2. \A e \in Ctx : Submitted(e)' = Submitted(e) /\ Parked(e)' = Parked(e)
  BY <1>1, Zenon DEF Submitted, Parked
<1>3. NoCopies'
  BY <1>1, Zenon DEF Handles, NoCopies
<1>4. CASE pc'[c] = "done" /\ frame' = [frame EXCEPT ![t] = "done"]
  <2>1. Resumed(c) = {t} /\ Resumed(c)' = {} /\ \A e \in Ctx \ {c} : Resumed(e)' = Resumed(e)
    BY <1>1, <1>4, Zenon DEF Resumed
  <2>2. Reaped'
    BY <1>1, <1>4 DEF Handles, Reaped, TypeOK, FrameTypeOK
  <2> HIDE DEF t
  <2>3. ASSUME NEW m \in Kinds, NEW e \in Ctx
        PROVE  There(m, e)' = IF m = "body" /\ e = c THEN There(m, e) \ {t} ELSE There(m, e)
    BY <1>1, <1>2, <2>1, Zenon DEF There, Kinds
  <2>4. Disappears(t, "body", c) /\ t \in There("body", c) /\ "body" \in Kinds
    BY <2>1, <2>3, ThereIs, Zenon DEF Disappears, Kinds
  <2>5. Apart' /\ Alive'
    BY <1>1, <1>4, <2>4, OneGoes, Zenon DEF Handles
  <2> QED BY <1>3, <2>2, <2>5, Zenon DEF Handles
<1>5. CASE pc'[c] = "trapped" /\ UNCHANGED frame
  <2>1. \A e \in Ctx : Resumed(e)' = Resumed(e)
    BY <1>1, <1>5, Zenon DEF Resumed
  <2>2. Still
    BY <1>1, <1>2, <1>5, <2>1, Zenon DEF Still, Handles, Reaped
  <2> QED BY <2>2, StillKeeps, Zenon
<1>6. \/ pc'[c] = "done" /\ frame' = [frame EXCEPT ![t] = "done"]
      \/ pc'[c] = "trapped" /\ UNCHANGED frame
  BY Zenon DEF CoReturn, Goto, TypeOK, ThreadTypeOK
<1> QED BY <1>4, <1>5, <1>6, Zenon

\* clean() destroys the frame of a coroutine that is in no place any more.
LEMMA CleanHandles ==
  ASSUME TypeOK, Control, Handles, NEW c \in Ctx, clean(c)
  PROVE  Handles'
<1> DEFINE t == coro[c]
<1>1. /\ pc[c] = "clean" /\ pc'[c] = "unregister" /\ t \in Tasks
      /\ \A e \in Ctx \ {c} : pc'[e] = pc[e]
      /\ frame' = [frame EXCEPT ![t] = IF t \in Detached THEN "freed" ELSE frame[t]]
      /\ UNCHANGED <<m_task_queue, sq, inflight, cq, handled, call, coro, parked>>
  BY Zenon DEF clean, Goto, engine_vars, io_vars, queue_vars, batch_vars, TypeOK,
         ThreadTypeOK, Control, HoldsTask, Executing
<1>2. \A e \in Ctx : /\ Resumed(e)' = Resumed(e) /\ Submitted(e)' = Submitted(e)
                     /\ Parked(e)' = Parked(e)
  BY <1>1, Zenon DEF Resumed, Submitted, Parked
<1>3. frame[t] \in {"done", "freed"}
  BY <1>1, Zenon DEF Handles, Reaped
<1>4. \A u \in Tasks : /\ frame'[u] \in {frame[u], "freed"}
                       /\ frame'[u] = "live" <=> frame[u] = "live"
  BY <1>1, <1>3, Zenon DEF TypeOK, FrameTypeOK
<1>5. ASSUME NEW e \in Ctx PROVE \A m \in Kinds : There(m, e)' = There(m, e)
  BY <1>1, <1>2, Zenon DEF There, Kinds
<1>6. Apart' /\ Alive'
  BY <1>4, <1>5, NoneMoves, Zenon DEF Handles
<1>7. NoCopies'
  BY <1>1, Zenon DEF Handles, NoCopies
<1>8. Reaped'
  <2>1. ASSUME NEW e \in Ctx, pc'[e] = "clean" PROVE frame'[coro'[e]] \in {"done", "freed"}
    <3>1. pc[e] = "clean" /\ coro'[e] = coro[e] /\ coro[e] \in Tasks
      BY <1>1, <2>1, Zenon DEF Control, HoldsTask, Executing
    <3> QED BY <1>4, <3>1, Zenon DEF Handles, Reaped
  <2> QED BY <1>1, <2>1, Zenon DEF Handles, Reaped
<1> QED BY <1>6, <1>7, <1>8, Zenon DEF Handles

\* Every step of every thread and of the kernel keeps the handles in their places.
LEMMA HandlesStep == TypeOK /\ Control /\ Handles /\ [Next]_vars => Handles'
<1> SUFFICES ASSUME TypeOK, Control, Handles, [Next]_vars PROVE Handles'
  BY Zenon
<1>r. Reaped
  BY Zenon DEF Handles
<1>1. ASSUME NEW c \in Ctx, Body(c) PROVE Handles'
  BY <1>1, SubmitHandles, SuspendHandles, CoReturnHandles, Zenon DEF Body
<1>2. ASSUME NEW c \in Ctx, Call(c) \/ SubmitDispatch(c) PROVE Handles'
  BY <1>2, <1>r, StillSteps, StillKeeps, PushHandles, Zenon DEF Call
<1>3. ASSUME NEW c \in Ctx, Run(c) PROVE Handles'
  <2>1. CASE \/ WorkerInit(c) \/ RunWhile(c) \/ RunWaitCount(c) \/ RunReady(c) \/ ExecDone(c)
             \/ unregister_wait(c) \/ ClearRunning(c) \/ RunSelfStop(c) \/ PollSettle(c)
             \/ PollWait(c) \/ PollPeek(c) \/ WorkerDeinit(c)
    BY <2>1, <1>r, StillSteps, StillKeeps, Zenon
  <2>2. CASE ExecPop(c) \/ clean(c)
    BY <2>2, PopHandles, CleanHandles, Zenon
  <2>3. CASE PollSubmit(c) \/ HandleCqe(c) \/ PollAdvance(c)
    BY <2>3, PollSubmitHandles, HandleCqeHandles, AdvanceHandles, Zenon
  <2> QED BY <1>3, <2>1, <2>2, <2>3, Zenon DEF Run
<1>4. CASE Main
  <2>1. CASE \E t \in Tasks, c \in Ctx : MainSubmit(t, c)
    BY <2>1, MainSubmitHandles, Zenon
  <2>2. CASE MainStart
    <3>1. /\ UNCHANGED <<m_task_queue, sq, inflight, cq, handled, parked, frame, call, coro>>
          /\ \A c \in Ctx : pc'[c] = pc[c] \/ (pc[c] = "unborn" /\ pc'[c] = "init")
      BY <2>2, Zenon
         DEF MainStart, Goto, engine_vars, queue_vars, io_vars, batch_vars, frame_vars,
                  TypeOK, ThreadTypeOK
    <3>2. Still
      BY <1>r, <3>1, Zenon DEF Still, Resumed, Submitted, Reaped
    <3> QED BY <3>2, StillKeeps, Zenon
  <2>3. CASE \/ MainLoop \/ MainAssignJob \/ MainScan \/ MainRequestStop \/ MainNotify
             \/ MainJoin
    <3>1. UNCHANGED <<m_task_queue, sq, inflight, cq, handled, parked, frame, pc, call, coro>>
      BY <2>3, Zenon
         DEF MainLoop, MainAssignJob, MainScan, MainRequestStop, MainNotify, MainJoin,
                  engine_vars, queue_vars, io_vars, batch_vars, context_vars, thread_vars,
                  frame_vars
    <3>2. Still
      BY <1>r, <3>1, Zenon DEF Still, Resumed, Submitted, Reaped
    <3> QED BY <3>2, StillKeeps, Zenon
  <2> QED BY <1>4, <2>1, <2>2, <2>3, Zenon DEF Main
<1>5. CASE UNCHANGED vars
  <2>1. UNCHANGED <<m_task_queue, sq, inflight, cq, handled, parked, frame, pc, call, coro>>
    BY <1>5, Zenon
       DEF vars, engine_vars, queue_vars, io_vars, batch_vars, context_vars, thread_vars,
                frame_vars
  <2>2. Still
    BY <1>r, <2>1, Zenon DEF Still, Resumed, Submitted, Reaped
  <2> QED BY <2>2, StillKeeps, Zenon
<1>6. ASSUME NEW c \in Ctx, Kernel(c) PROVE Handles'
  BY <1>6, KernelHandles, Zenon
<1> QED BY <1>1, <1>2, <1>3, <1>4, <1>5, <1>6, Zenon
           DEF Next, WorkerStep, Worker, MainStep, Over

\* Before the first submission there is no handle anywhere.
LEMMA HandlesInit == Init => Handles
<1> SUFFICES ASSUME Init PROVE Handles
  BY Zenon
<1> USE DEF Init, EngineInit, ContextInit
<1>1. Items(<<>>, 0) = {} /\ NoRepeat(<<>>, 0)
  <2>1. 0 + 1 .. Len(<<>>) = {}
    BY EmptyList
  <2> QED BY <2>1, Zenon DEF Items, NoRepeat
<1>2. ASSUME NEW c \in Ctx, NEW k \in Kinds PROVE There(k, c) = {}
  BY <1>1, Zenon DEF There, Kinds, Resumed, Submitted, Parked, NoCall
<1>3. Apart /\ Alive
  BY <1>2, Zenon DEF Apart, Alive
<1>4. NoCopies /\ Reaped
  BY <1>1, Zenon DEF NoCopies, Reaped
<1> QED BY <1>3, <1>4, Zenon DEF Handles

\* Every handle is in its one place in every reachable state.
LEMMA HandlesInductive == Spec => [](Inv /\ Handles)
<1>1. Inv /\ Handles /\ [Next]_vars => Handles'
  BY HandlesStep, Zenon DEF Inv
<1> QED
  BY <1>1, HandlesInit, InvInductive, PTL DEF Spec

\* No coroutine is resumed by two workers at a time, or resumed while its handle is
\* in a task queue, for any number of contexts and tasks.
THEOREM NoConcurrentResumeCorrect == Spec => []NoConcurrentResume
<1>1. Inv /\ Handles => NoConcurrentResume
  <2> SUFFICES ASSUME Inv, Handles, NEW c \in Ctx, NEW d \in Ctx, pc[c] = "body"
               PROVE  /\ c # d /\ pc[d] = "body" => coro[c] # coro[d]
                      /\ \A i \in 1 .. Len(m_task_queue[d]) : m_task_queue[d][i] # coro[c]
    BY Zenon DEF NoConcurrentResume
  <2>1. coro[c] \in Tasks /\ coro[c] \in There("body", c)
    BY ThereIs, Zenon DEF Inv, Control, HoldsTask, Executing, Resumed
  <2>2. {"body", "queue"} \subseteq Kinds
    BY Zenon DEF Kinds
  <2>3. ASSUME c # d, pc[d] = "body" PROVE coro[c] # coro[d]
    <3>1. coro[d] \in There("body", d)
      BY <2>3, ThereIs, Zenon DEF Resumed
    <3> QED BY <2>1, <2>2, <2>3, <3>1, Zenon DEF Handles, Apart
  <2>4. ASSUME NEW i \in 1 .. Len(m_task_queue[d]) PROVE m_task_queue[d][i] # coro[c]
    <3>1. m_task_queue[d][i] \in Items(m_task_queue[d], 0)
      BY DEF Items
    <3>2. m_task_queue[d][i] \in There("queue", d)
      BY <3>1, ThereIs, Zenon
    <3> QED BY <2>1, <2>2, <3>2, Zenon DEF Handles, Apart
  <2> QED BY <2>3, <2>4, Zenon
<1> QED
  BY <1>1, HandlesInductive, PTL

-----------------------------------------------------------------------------
(* The I/O counters count exactly.                                         *)

\* A step that leaves the rings and the counters alone.
IoUntouched ==
    /\ UNCHANGED <<sq, inflight, cq, m_io_submit_count, m_io_running_count>>
    /\ \A c \in Ctx : pc'[c] = "settle" <=> pc[c] = "settle"

\* Which steps these are.
LEMMA IoUntouchedSteps ==
  ASSUME TypeOK, NEW c \in Ctx,
         \/ Body(c) /\ ~AwaitIo(c)
         \/ Call(c) \/ SubmitDispatch(c)
         \/ Run(c) /\ ~(PollSubmit(c) \/ PollSettle(c) \/ PollAdvance(c))
         \/ Main \/ UNCHANGED vars
  PROVE  IoUntouched
<1>t. pc \in [Ctx -> PCs]
  BY Zenon DEF TypeOK, ThreadTypeOK
<1> USE DEF engine_vars, io_vars, count_vars, context_vars, thread_vars, Goto, IoUntouched
<1>1. CASE Body(c) /\ ~AwaitIo(c)
  BY <1>1, <1>t, Zenon DEF Body, SpawnTask, ResumeParked, AwaitPrimitive, Suspend, CoReturn
<1>2. CASE Call(c) \/ SubmitDispatch(c)
  BY <1>2, Zenon DEF Call, register_wait, SubmitPush, SubmitWake, SubmitDispatch
<1>3. CASE WorkerInit(c) \/ RunWhile(c) \/ RunWaitCount(c) \/ RunReady(c)
  BY <1>3, <1>t, Zenon DEF WorkerInit, RunWhile, RunWaitCount, RunReady
<1>4. CASE ExecPop(c) \/ ExecDone(c) \/ clean(c) \/ unregister_wait(c) \/ ClearRunning(c)
  BY <1>4, <1>t, Zenon DEF ExecPop, ExecDone, clean, unregister_wait, ClearRunning
<1>5. CASE RunSelfStop(c) \/ PollWait(c) \/ PollPeek(c) \/ HandleCqe(c) \/ WorkerDeinit(c)
  BY <1>5, <1>t, Zenon
     DEF RunSelfStop, PollWait, PollPeek, PeekBatch, HandleCqe, NextCqe, WorkerDeinit
<1>6. CASE Main
  BY <1>6, <1>t, Zenon DEF Main, MainSubmit, MainLoop, MainStart, MainAssignJob, MainScan,
                    MainRequestStop, MainNotify, MainJoin
<1>7. CASE UNCHANGED vars
  BY <1>7, Zenon DEF vars
<1> QED BY <1>1, <1>2, <1>3, <1>4, <1>5, <1>6, <1>7, Zenon DEF Run

\* Every step keeps the counters exact. That a handle is in one place is what makes
\* a prepared SQE a new one, and the kernel's set disjoint from the submission ring.
LEMMA IoExactStep == Inv /\ Handles /\ IoCountersExact /\ [Next]_vars => IoCountersExact'
<1> SUFFICES ASSUME Inv, Handles, IoCountersExact, [Next]_vars PROVE IoCountersExact'
  BY Zenon
<1> DEFINE G(d) == /\ pc[d] # "settle" => m_io_submit_count[d] = Cardinality(sq[d])
                   /\ pc[d] = "settle" => sq[d] = {}
                   /\ m_io_running_count[d] = Cardinality(inflight[d]) + Len(cq[d])
<1>0. /\ \A d \in Ctx : G(d)
      /\ (\A d \in Ctx : G(d)') => IoCountersExact'
  BY Zenon DEF IoCountersExact
<1>f. \A d \in Ctx : /\ IsFiniteSet(sq[d]) /\ Cardinality(sq[d]) \in Nat
                     /\ IsFiniteSet(inflight[d]) /\ Cardinality(inflight[d]) \in Nat
                     /\ cq[d] \in Seq(Tasks) /\ Len(cq[d]) \in Nat
                     /\ m_io_submit_count[d] \in Nat
  BY FS_CardinalityType DEF Inv, IoInv, IoCovered, TypeOK, IoTypeOK
<1>p. pc \in [Ctx -> PCs] /\ IoTypeOK
  BY Zenon DEF Inv, TypeOK, ThreadTypeOK
<1>1. ASSUME IoUntouched PROVE IoCountersExact'
  BY <1>1, <1>0, Zenon DEF IoUntouched
<1>2. ASSUME NEW c \in Ctx, AwaitIo(c) PROVE IoCountersExact'
  <2>1. /\ sq'[c] = sq[c] \cup {coro[c]} /\ m_io_submit_count'[c] = m_io_submit_count[c] + 1
        /\ pc[c] = "body" /\ pc'[c] = "done" /\ UNCHANGED <<inflight, cq, m_io_running_count>>
        /\ \A d \in Ctx \ {c} : /\ sq'[d] = sq[d] /\ pc'[d] = pc[d]
                                /\ m_io_submit_count'[d] = m_io_submit_count[d]
    BY <1>2, <1>p, Zenon DEF AwaitIo, Suspend, Goto, add_io_submit, IoTypeOK
  <2>2. coro[c] \notin sq[c]
    <3>1. coro[c] \in Tasks /\ coro[c] \in There("body", c) /\ There("sq", c) = sq[c]
      BY <2>1, ThereIs, Zenon DEF Inv, Control, HoldsTask, Executing, Resumed
    <3> QED BY <3>1 DEF Handles, Apart, Kinds
  <2>3. Cardinality(sq'[c]) = Cardinality(sq[c]) + 1
    <3>1. IsFiniteSet(sq[c])
      BY <1>f, Zenon
    <3>2. Cardinality(sq[c] \cup {coro[c]}) = Cardinality(sq[c]) + 1
      BY ONLY <2>2, <3>1, FS_AddElement, Zenon
    <3> QED BY ONLY <2>1, <3>2, Zenon
  <2>4. G(c)'
    BY <1>0, <2>1, <2>3, Zenon
  <2>5. \A d \in Ctx \ {c} : G(d)'
    BY <1>0, <2>1, Zenon
  <2> QED BY <1>0, <2>4, <2>5, Zenon
<1>3. ASSUME NEW c \in Ctx, PollSubmit(c) PROVE IoCountersExact'
  <2>1. CASE m_io_submit_count[c] = 0
    <3>1. /\ UNCHANGED <<sq, inflight, cq, m_io_submit_count, m_io_running_count>>
          /\ \A d \in Ctx : pc'[d] = "settle" <=> pc[d] = "settle"
      BY <1>3, <1>p, <2>1 DEF PollSubmit, Goto, io_vars, count_vars
    <3> QED BY <1>1, <3>1, Zenon DEF IoUntouched
  <2>2. CASE m_io_submit_count[c] # 0
    <3>1. /\ sq'[c] = {} /\ inflight'[c] = inflight[c] \cup sq[c] /\ cq' = cq
          /\ m_io_running_count'[c] = m_io_running_count[c] + m_io_submit_count[c]
          /\ pc[c] = "poll" /\ pc'[c] = "settle" /\ m_io_submit_count' = m_io_submit_count
          /\ \A d \in Ctx \ {c} : /\ sq'[d] = sq[d] /\ pc'[d] = pc[d] /\ inflight'[d] = inflight[d]
                                  /\ m_io_running_count'[d] = m_io_running_count[d]
      BY <1>3, <1>p, <2>2, Zenon DEF PollSubmit, Goto, SubmitSqes, IoTypeOK
    <3>2. inflight[c] \cap sq[c] = {}
      <4>1. There("kernel", c) = inflight[c] /\ There("sq", c) = sq[c]
        BY ThereIs, Zenon
      <4>2. inflight[c] \subseteq Tasks
        BY <1>p, Zenon DEF IoTypeOK
      <4>3. {"kernel", "sq"} \subseteq Kinds
        BY Zenon DEF Kinds
      <4>4. Apart
        BY Zenon DEF Handles
      <4> QED BY ONLY <4>1, <4>2, <4>3, <4>4, c \in Ctx DEF Apart
    <3>3. Cardinality(inflight'[c]) = Cardinality(inflight[c]) + Cardinality(sq[c])
      <4>1. /\ IsFiniteSet(inflight[c]) /\ IsFiniteSet(sq[c])
            /\ Cardinality(inflight[c]) \in Nat /\ Cardinality(sq[c]) \in Nat
        BY <1>f, Zenon
      <4>2. Cardinality(inflight[c] \cup sq[c])
                = Cardinality(inflight[c]) + Cardinality(sq[c]) - Cardinality(inflight[c] \cap sq[c])
        BY ONLY <4>1, FS_Union, Zenon
      <4>3. Cardinality(inflight[c] \cap sq[c]) = 0
        BY ONLY <3>2, FS_EmptySet, Zenon
      <4>4. Cardinality(inflight[c] \cup sq[c]) = Cardinality(inflight[c]) + Cardinality(sq[c])
        BY ONLY <4>1, <4>2, <4>3
      <4> QED BY <3>1, <4>4, Zenon
    <3>4. G(c)'
      <4>1. /\ m_io_submit_count[c] = Cardinality(sq[c])
            /\ m_io_running_count[c] = Cardinality(inflight[c]) + Len(cq[c])
        BY <1>0, <3>1, Zenon
      <4>2. Cardinality(sq[c]) \in Nat /\ Cardinality(inflight[c]) \in Nat /\ Len(cq[c]) \in Nat
        BY <1>f, Zenon
      <4>3. m_io_running_count'[c] = Cardinality(inflight'[c]) + Len(cq'[c])
        BY ONLY <3>1, <3>3, <4>1, <4>2
      <4> QED BY ONLY <3>1, <4>3, Zenon
    <3>5. \A d \in Ctx \ {c} : G(d)'
      BY <1>0, <3>1, ZenonT(30)
    <3> QED BY <1>0, <3>4, <3>5, Zenon
  <2> QED BY <2>1, <2>2, Zenon
<1>4. ASSUME NEW c \in Ctx, PollSettle(c) PROVE IoCountersExact'
  <2>1. /\ UNCHANGED <<sq, inflight, cq, m_io_running_count>> /\ m_io_submit_count'[c] = 0
        /\ pc[c] = "settle" /\ pc'[c] = "pollwait"
        /\ \A d \in Ctx \ {c} : pc'[d] = pc[d] /\ m_io_submit_count'[d] = m_io_submit_count[d]
    BY <1>4, <1>p, Zenon DEF PollSettle, SettleSubmit, Goto, IoTypeOK
  <2>2. G(c)'
    BY <1>0, <2>1, FS_EmptySet, Zenon
  <2>3. \A d \in Ctx \ {c} : G(d)'
    BY <1>0, <2>1, ZenonT(30)
  <2> QED BY <1>0, <2>2, <2>3, Zenon
<1>5. ASSUME NEW c \in Ctx, PollAdvance(c) PROVE IoCountersExact'
  <2>1. /\ UNCHANGED <<sq, inflight, m_io_submit_count>>
        /\ cq'[c] = SubSeq(cq[c], nready[c] + 1, Len(cq[c]))
        /\ m_io_running_count'[c] = m_io_running_count[c] - nready[c]
        /\ pc[c] = "cqe" /\ pc'[c] = "while"
        /\ \A d \in Ctx \ {c} : /\ pc'[d] = pc[d] /\ cq'[d] = cq[d]
                                /\ m_io_running_count'[d] = m_io_running_count[d]
    BY <1>5, <1>p, Zenon DEF PollAdvance, cq_advance, Goto, IoTypeOK
  <2>2. nready[c] \in Nat /\ nready[c] <= Len(cq[c])
    BY <1>p, <1>f, Zenon DEF IoTypeOK, Inv, Control, BatchOK
  <2>3. Len(cq'[c]) = Len(cq[c]) - nready[c]
    <3>1. cq[c] \in Seq(Tasks)
      BY <1>f, Zenon
    <3>2. Len(SubSeq(cq[c], nready[c] + 1, Len(cq[c]))) = Len(cq[c]) - nready[c]
      BY ONLY <2>2, <3>1, SuffixIs, Zenon
    <3> QED BY ONLY <2>1, <3>2, Zenon
  <2>4. G(c)'
    <3>1. Cardinality(inflight[c]) \in Nat /\ Len(cq[c]) \in Nat /\ G(c)
      BY <1>0, <1>f, Zenon
    <3>2. m_io_running_count'[c] = Cardinality(inflight'[c]) + Len(cq'[c])
      BY ONLY <2>1, <2>2, <2>3, <3>1
    <3> QED BY ONLY <2>1, <3>1, <3>2, Zenon
  <2>5. \A d \in Ctx \ {c} : G(d)'
    BY <1>0, <2>1, Zenon
  <2> QED BY <1>0, <2>4, <2>5, Zenon
<1>6. ASSUME NEW c \in Ctx, Kernel(c) PROVE IoCountersExact'
  <2>1. PICK t \in Tasks : Complete(c, t)
    BY <1>6, Zenon DEF Kernel
  <2>2. /\ UNCHANGED <<sq, m_io_submit_count, m_io_running_count, pc>>
        /\ t \in inflight[c] /\ inflight'[c] = inflight[c] \ {t} /\ cq'[c] = Append(cq[c], t)
        /\ \A d \in Ctx \ {c} : inflight'[d] = inflight[d] /\ cq'[d] = cq[d]
    BY <1>6, <1>p, <2>1, Zenon
       DEF Kernel, Complete, count_vars, context_vars, thread_vars, IoTypeOK
  <2>3. Cardinality(inflight'[c]) = Cardinality(inflight[c]) - 1 /\ Len(cq'[c]) = Len(cq[c]) + 1
    <3>1. IsFiniteSet(inflight[c]) /\ t \in inflight[c] /\ cq[c] \in Seq(Tasks) /\ t \in Tasks
      BY <1>f, <2>2, Zenon
    <3>2. Cardinality(inflight[c] \ {t}) = Cardinality(inflight[c]) - 1
      BY ONLY <3>1, RemoveOne, Zenon
    <3>3. Len(Append(cq[c], t)) = Len(cq[c]) + 1
      BY ONLY <3>1
    <3> QED BY <2>2, <3>2, <3>3, Zenon
  <2>4. G(c)'
    <3>1. Cardinality(inflight[c]) \in Nat /\ Len(cq[c]) \in Nat /\ G(c)
      BY <1>0, <1>f, Zenon
    <3>2. m_io_running_count'[c] = Cardinality(inflight'[c]) + Len(cq'[c])
      BY ONLY <2>2, <2>3, <3>1
    <3> QED BY ONLY <2>2, <3>1, <3>2, Zenon
  <2>5. \A d \in Ctx \ {c} : G(d)'
    BY <1>0, <2>2, Zenon
  <2> QED BY <1>0, <2>4, <2>5, Zenon
<1>7. TypeOK
  BY Zenon DEF Inv
<1> QED
  BY <1>1, <1>2, <1>3, <1>4, <1>5, <1>6, <1>7, IoUntouchedSteps, CtxNat, ZenonT(30)
     DEF Next, WorkerStep, Worker, MainStep, Over

\* The I/O counters are exact at every step of poll_submit, for any number of
\* contexts and I/Os: the submit count is the number of prepared SQEs, the running
\* count what the kernel owns plus what the completion ring holds.
THEOREM IoCountersExactCorrect == Spec => []IoCountersExact
<1>1. Init => IoCountersExact
  <2>1. Cardinality({}) = 0 /\ Len(<<>>) = 0
    BY FS_EmptySet, EmptyList, Zenon
  <2> QED BY <2>1 DEF Init, EngineInit, ContextInit, IoCountersExact
<1> QED
  BY <1>1, IoExactStep, HandlesInductive, PTL DEF Spec

-----------------------------------------------------------------------------
(* After resume() has returned.                                            *)

\* The handle a worker still looks at has either finished, or its coroutine is
\* suspended where only this worker can take it from: the worker's own SQEs, or a
\* wait list.
Looked(c) ==
    pc[c] \in {"done", "clean"} =>
        \/ frame[coro[c]] = "done"
        \/ pc[c] = "done" /\ frame[coro[c]] = "live" /\ coro[c] \in sq[c] \cup parked

\* No two workers look at the same handle.
OneLooks ==
    \A c, d \in Ctx :
        pc[c] \in {"done", "clean"} /\ pc[d] \in {"done", "clean"} /\ coro[c] = coro[d] => c = d

\* The strengthening for FramesAlive.
Ends ==
    /\ "park" \notin Ops => parked = {}
    /\ \A c \in Ctx : Looked(c)
    /\ OneLooks

\* A step that neither starts nor ends any of this.
Passive ==
    /\ UNCHANGED <<frame, parked, sq>>
    /\ \A d \in Ctx : pc'[d] \in {"done", "clean"} => pc'[d] = pc[d] /\ coro'[d] = coro[d]

\* Such a step keeps it.
LEMMA PassiveKeeps ==
  ASSUME Ends, Passive
  PROVE  Ends'
<1>1. ASSUME NEW c \in Ctx PROVE Looked(c)'
  BY Zenon DEF Ends, Looked, Passive
<1>2. OneLooks'
  BY Zenon DEF Ends, OneLooks, Passive
<1> QED BY <1>1, <1>2, Zenon DEF Ends, Passive

\* Which steps these are.
LEMMA PassiveSteps ==
  ASSUME TypeOK, NEW c \in Ctx,
         \/ Call(c) \/ SubmitDispatch(c) \/ Kernel(c) \/ UNCHANGED vars
         \/ Run(c) /\ ~(ExecDone(c) \/ clean(c) \/ PollSubmit(c))
         \/ Main /\ ~(\E t \in Tasks, d \in Ctx : MainSubmit(t, d))
  PROVE  Passive
<1>t. pc \in [Ctx -> PCs] /\ coro \in [Ctx -> Tasks \cup {NoTask}]
  BY Zenon DEF TypeOK, ThreadTypeOK
<1> USE DEF engine_vars, io_vars, context_vars, thread_vars, frame_vars, Goto, Passive
<1>1. CASE Call(c) \/ SubmitDispatch(c) \/ Kernel(c) \/ UNCHANGED vars
  BY <1>1, Zenon
     DEF Call, register_wait, SubmitPush, SubmitWake, SubmitDispatch, Kernel, Complete, vars
<1>2. CASE WorkerInit(c) \/ RunWhile(c) \/ RunWaitCount(c) \/ RunReady(c)
  BY <1>2, <1>t, Zenon DEF WorkerInit, RunWhile, RunWaitCount, RunReady, Unmoved
<1>3. CASE ExecPop(c) \/ unregister_wait(c) \/ ClearRunning(c)
  BY <1>3, <1>t, Zenon DEF ExecPop, unregister_wait, ClearRunning
<1>4. CASE RunSelfStop(c) \/ WorkerDeinit(c) \/ PollSettle(c)
  BY <1>4, <1>t, Zenon DEF RunSelfStop, WorkerDeinit, PollSettle, SettleSubmit, Unmoved
<1>5. CASE PollWait(c) \/ PollPeek(c) \/ HandleCqe(c) \/ PollAdvance(c)
  BY <1>5, <1>t, Zenon
     DEF PollWait, PollPeek, PeekBatch, HandleCqe, NextCqe, PollAdvance, cq_advance,
                    Unmoved
<1>6. CASE Main /\ ~(\E t \in Tasks, d \in Ctx : MainSubmit(t, d))
  BY <1>6, <1>t, Zenon DEF Main, MainLoop, MainStart, MainAssignJob, MainScan, MainRequestStop,
                    MainNotify, MainJoin
<1> QED BY <1>1, <1>2, <1>3, <1>4, <1>5, <1>6, ZenonT(30) DEF Run

\* A coroutine leaves the hands of its worker: nobody else looks at it.
LEMMA LeavesBody ==
  ASSUME Inv, Handles, Ends, NEW c \in Ctx, pc[c] = "body", NEW d \in Ctx,
         pc[d] \in {"done", "clean"}
  PROVE  coro[d] # coro[c] /\ frame[coro[c]] = "live" /\ coro[c] \in Tasks
<1>1. coro[c] \in Tasks /\ coro[c] \in There("body", c)
  BY ThereIs, Zenon DEF Inv, Control, HoldsTask, Executing, Resumed
<1>2. {"body", "sq", "parked"} \subseteq Kinds /\ 0 \in Ctx
  BY CtxNat, Zenon DEF Kinds
<1>3. frame[coro[c]] = "live"
  BY <1>1, <1>2, Zenon DEF Handles, Alive
<1>4. coro[c] \notin sq[d] \cup parked
  <2>1. There("sq", d) = sq[d] /\ There("parked", 0) = parked
    BY ThereIs, Zenon DEF Parked
  <2> QED BY <1>1, <1>2, <2>1 DEF Handles, Apart
<1> QED BY <1>1, <1>3, <1>4, Zenon DEF Ends, Looked

\* Every step keeps Ends when coroutines only suspend in I/O, or when one worker runs
\* them all.
LEMMA EndsStep ==
  ASSUME "park" \notin Ops \/ N = 1, Inv, Handles, Ends, [Next]_vars
  PROVE  Ends'
<1>t. /\ pc \in [Ctx -> PCs] /\ frame \in [Tasks -> {"none", "live", "done", "freed"}]
      /\ sq \in [Ctx -> SUBSET Tasks] /\ coro \in [Ctx -> Tasks \cup {NoTask}]
      /\ \A c \in Ctx : pc[c] \in {"body", "done", "clean"} => coro[c] \in Tasks
      /\ TypeOK
  BY Zenon DEF Inv, TypeOK, ThreadTypeOK, FrameTypeOK, IoTypeOK, Control, HoldsTask, Executing
<1>1. ASSUME NEW t \in Tasks, frame[t] = "none", frame' = [frame EXCEPT ![t] = "live"],
             UNCHANGED <<pc, coro, sq, parked>>
      PROVE  Ends'
  <2>1. \A c \in Ctx : Looked(c)'
    BY <1>1, <1>t, Zenon DEF Ends, Looked
  <2> QED BY <1>1, <2>1, Zenon DEF Ends, OneLooks
<1>2. ASSUME NEW c \in Ctx, NEW t \in Tasks, ResumeParked(c, t) PROVE Ends'
  <2>1. /\ pc[c] = "body" /\ t \in parked /\ UNCHANGED <<pc, coro, sq, frame>>
        /\ parked' = parked \ {t}
    BY <1>2, Zenon DEF ResumeParked, InBody, engine_vars, io_vars, thread_vars
  <2>2. N = 1 /\ \A d \in Ctx : d = c
    <3>1. N = 1
      BY <2>1, Zenon DEF Ends
    <3> QED BY <3>1 DEF Ctx
  <2> QED BY <2>1, <2>2, Zenon DEF Ends, Looked, OneLooks
<1>3. ASSUME NEW c \in Ctx, pc[c] = "body", coro' = coro, pc' = [pc EXCEPT ![c] = "done"],
             Looked(c)', \A d \in Ctx \ {c} : Looked(d) => Looked(d)',
             "park" \notin Ops => parked' = parked
      PROVE  Ends'
  <2>1. OneLooks'
    <3>1. /\ pc'[c] = "done" /\ \A d \in Ctx \ {c} : pc'[d] = pc[d]
          /\ \A d \in Ctx : coro'[d] = coro[d]
      BY <1>3, <1>t, Zenon
    <3>2. \A d \in Ctx : pc[d] \in {"done", "clean"} => coro[d] # coro[c]
      BY <1>3, LeavesBody, Zenon
    <3> QED BY <3>1, <3>2 DEF Ends, OneLooks
  <2> QED BY <1>3, <2>1, Zenon DEF Ends
<1>4. ASSUME NEW c \in Ctx, AwaitIo(c) PROVE Ends'
  <2>1. /\ pc[c] = "body" /\ pc' = [pc EXCEPT ![c] = "done"] /\ UNCHANGED <<coro, frame, parked>>
        /\ sq' = [sq EXCEPT ![c] = sq[c] \cup {coro[c]}]
    BY <1>4, Zenon DEF AwaitIo, Suspend, Goto, add_io_submit
  <2>2. coro[c] \in Tasks /\ frame[coro[c]] = "live"
    <3>1. coro[c] \in Tasks /\ coro[c] \in There("body", c) /\ "body" \in Kinds
      BY <1>t, <2>1, ThereIs, Zenon DEF Resumed, Kinds
    <3> QED BY <3>1, Zenon DEF Handles, Alive
  <2>3. Looked(c)' /\ \A d \in Ctx \ {c} : Looked(d) => Looked(d)'
    BY <1>t, <2>1, <2>2, Zenon DEF Looked
  <2> QED BY <1>3, <2>1, <2>3, Zenon
<1>5. ASSUME NEW c \in Ctx, AwaitPrimitive(c) PROVE Ends'
  <2>1. /\ pc[c] = "body" /\ pc' = [pc EXCEPT ![c] = "done"] /\ UNCHANGED <<coro, frame, sq>>
        /\ parked' = parked \cup {coro[c]} /\ "park" \in Ops
    BY <1>5, Zenon DEF AwaitPrimitive, Suspend, Goto, io_vars
  <2>2. coro[c] \in Tasks /\ frame[coro[c]] = "live"
    <3>1. coro[c] \in Tasks /\ coro[c] \in There("body", c) /\ "body" \in Kinds
      BY <1>t, <2>1, ThereIs, Zenon DEF Resumed, Kinds
    <3> QED BY <3>1, Zenon DEF Handles, Alive
  <2>3. Looked(c)' /\ \A d \in Ctx \ {c} : Looked(d) => Looked(d)'
    BY <1>t, <2>1, <2>2, Zenon DEF Looked
  <2> QED BY <1>3, <2>1, <2>3, Zenon
<1>6. ASSUME NEW c \in Ctx, CoReturn(c) PROVE Ends'
  <2>1. /\ pc[c] = "body" /\ UNCHANGED <<coro, parked, sq>> /\ coro[c] \in Tasks
        /\ \/ pc' = [pc EXCEPT ![c] = "done"] /\ frame' = [frame EXCEPT ![coro[c]] = "done"]
           \/ pc' = [pc EXCEPT ![c] = "trapped"] /\ UNCHANGED frame
    BY <1>6, <1>t, Zenon DEF CoReturn, InBody, Goto, engine_vars, io_vars
  <2>2. CASE pc' = [pc EXCEPT ![c] = "done"] /\ frame' = [frame EXCEPT ![coro[c]] = "done"]
    <3>1. Looked(c)' /\ \A d \in Ctx \ {c} : Looked(d) => Looked(d)'
      BY <1>t, <2>1, <2>2, LeavesBody, ZenonT(30) DEF Looked
    <3> QED BY <1>3, <2>1, <2>2, <3>1, Zenon
  <2>3. CASE pc' = [pc EXCEPT ![c] = "trapped"] /\ UNCHANGED frame
    BY <1>t, <2>1, <2>3, PassiveKeeps, Zenon DEF Passive
  <2> QED BY <2>1, <2>2, <2>3, Zenon
<1>7. ASSUME NEW c \in Ctx, ExecDone(c) PROVE Ends'
  <2>1. /\ pc[c] = "done" /\ pc'[c] \in {"clean", "unregister"}
        /\ \A d \in Ctx \ {c} : pc'[d] = pc[d]
        /\ pc'[c] = "clean" => TRUE \in DoneAnswers(coro[c])
        /\ UNCHANGED <<coro, frame, parked, sq>>
    BY <1>7, <1>t, Zenon DEF ExecDone, Goto, engine_vars, io_vars, frame_vars
  <2>2. pc'[c] = "clean" => frame[coro[c]] = "done"
    BY <2>1, Zenon DEF DoneAnswers, Ends, Looked
  <2>3. \A d \in Ctx : Looked(d)'
    BY <2>1, <2>2, Zenon DEF Ends, Looked
  <2>4. OneLooks'
    BY <2>1 DEF Ends, OneLooks
  <2> QED BY <2>1, <2>3, <2>4, Zenon DEF Ends
<1>8. ASSUME NEW c \in Ctx, clean(c) PROVE Ends'
  <2>1. /\ pc[c] = "clean" /\ pc'[c] = "unregister" /\ \A d \in Ctx \ {c} : pc'[d] = pc[d]
        /\ UNCHANGED <<coro, parked, sq>>
        /\ \A u \in Tasks \ {coro[c]} : frame'[u] = frame[u]
    BY <1>8, <1>t, Zenon DEF clean, Goto, engine_vars, io_vars
  <2>2. \A d \in Ctx : Looked(d)'
    BY <1>t, <2>1 DEF Ends, Looked, OneLooks
  <2>3. OneLooks'
    BY <2>1, Zenon DEF Ends, OneLooks
  <2> QED BY <2>1, <2>2, <2>3, Zenon DEF Ends
<1>9. ASSUME NEW c \in Ctx, PollSubmit(c) PROVE Ends'
  <2>1. /\ pc[c] = "poll" /\ pc'[c] \notin {"done", "clean"}
        /\ \A d \in Ctx \ {c} : pc'[d] = pc[d] /\ sq'[d] = sq[d]
        /\ UNCHANGED <<coro, frame, parked>>
    BY <1>9, <1>t, Zenon DEF PollSubmit, Goto, SubmitSqes, Unmoved, io_vars, frame_vars
  <2>2. \A d \in Ctx : Looked(d)'
    BY <2>1, Zenon DEF Ends, Looked
  <2>3. OneLooks'
    BY <2>1, Zenon DEF Ends, OneLooks
  <2> QED BY <2>1, <2>2, <2>3, Zenon DEF Ends
<1>10. ASSUME NEW c \in Ctx, Worker(c) PROVE Ends'
  <2>1. ASSUME NEW t \in Tasks, SpawnTask(c, t) PROVE Ends'
    BY <1>1, <2>1, Zenon DEF SpawnTask, engine_vars, io_vars, thread_vars
  <2>2. CASE Body(c)
    BY <1>2, <1>4, <1>5, <1>6, <2>1, <2>2, ZenonT(30) DEF Body
  <2>3. CASE Call(c)
    BY <1>t, <2>3, PassiveSteps, PassiveKeeps, Zenon
  <2>4. CASE Run(c)
    BY <1>t, <1>7, <1>8, <1>9, <2>4, PassiveSteps, PassiveKeeps, ZenonT(30)
  <2> QED BY <1>10, <2>2, <2>3, <2>4, Zenon DEF Worker
<1>11. CASE Main
  <2>1. ASSUME NEW t \in Tasks, NEW c \in Ctx, MainSubmit(t, c) PROVE Ends'
    BY <1>1, <2>1, Zenon DEF MainSubmit, io_vars, thread_vars
  <2> QED BY <1>t, <1>11, <2>1, PassiveSteps, PassiveKeeps, CtxNat, ZenonT(30)
<1>12. ASSUME NEW c \in Ctx, SubmitDispatch(c) \/ Kernel(c) \/ UNCHANGED vars PROVE Ends'
  BY <1>t, <1>12, PassiveSteps, PassiveKeeps, Zenon
<1> QED
  BY <1>10, <1>11, <1>12, CtxNat, Zenon DEF Next, WorkerStep, MainStep, Over

\* For submitted tasks that co_await no other task, the use-after-free that FramesAlive can
\* show needs a wait list and a second worker: without either, a worker calls done() and
\* destroy() on existing frames only, for any number of contexts and tasks. A task that does
\* co_await another one can meet it on one worker too: see StaleOnlyNestedCorrect.
THEOREM FramesAliveCorrect ==
  ASSUME "park" \notin Ops \/ N = 1
  PROVE  Spec => []FramesAlive
<1>1. Init => Ends
  BY Zenon DEF Init, EngineInit, ContextInit, Ends, Looked, OneLooks
<1>2. Inv /\ Handles /\ Ends /\ [Next]_vars => Ends'
  BY EndsStep, Zenon
<1>3. Inv /\ Handles /\ Ends => FramesAlive
  <2> SUFFICES ASSUME Inv, Handles, Ends, NEW c \in Ctx, pc[c] \in {"body", "done", "clean"}
               PROVE  frame[coro[c]] # "freed"
    BY Zenon DEF FramesAlive
  <2>1. CASE pc[c] = "body"
    <3>1. coro[c] \in Tasks /\ coro[c] \in There("body", c) /\ "body" \in Kinds
      BY <2>1, ThereIs, Zenon DEF Inv, Control, HoldsTask, Executing, Resumed, Kinds
    <3> QED BY <3>1, Zenon DEF Handles, Alive
  <2>2. CASE pc[c] # "body"
    BY <2>2, Zenon DEF Ends, Looked
  <2> QED BY <2>1, <2>2, Zenon
<1> QED
  BY <1>1, <1>2, <1>3, HandlesInductive, PTL DEF Spec

-----------------------------------------------------------------------------
(* When the workers have left.                                             *)

\* Without submit_to_scheduler a worker submits to its own context only.
Home == \A w \in Ctx : call[w] # NoCall => call[w].ctx = w /\ call[w].step # "dispatch"

\* A worker that has left its loop leaves nothing behind, ...
Empty(c) == m_task_queue[c] = <<>> /\ sq[c] = {} /\ inflight[c] = {} /\ cq[c] = <<>>

Gone == {"deinit", "exited"}

Left == \A c \in Ctx : pc[c] \in Gone => Empty(c)

\* ... and the main thread has joined the workers it has passed.
Joined ==
    /\ main.at = "join" => \A d \in Ctx : d < main.ctx => pc[d] = "exited"
    /\ main.at = "end" => \A d \in Ctx : pc[d] = "exited"

\* The strengthening for AllTasksRun.
Quit == Home /\ Left /\ Joined

\* A worker does not touch another context's queue, rings or control.
LEMMA KeepsToItself ==
  ASSUME Inv, Home, NEW d \in Ctx, Worker(d), NEW c \in Ctx, c # d
  PROVE  pc'[c] = pc[c] /\ call'[c] = call[c] /\ (Empty(c) => Empty(c)')
<1>t. /\ pc \in [Ctx -> PCs] /\ IoTypeOK /\ QueueTypeOK
      /\ call \in [Ctx -> [step : Steps, task : Tasks \cup {NoTask}, ctx : Ctx]]
  BY Zenon DEF Inv, TypeOK, ThreadTypeOK
<1> USE DEF engine_vars, queue_vars, io_vars, context_vars, thread_vars, Goto, Empty
<1>1. CASE Body(d)
  BY <1>1, <1>t, Zenon
     DEF Body, SpawnTask, ResumeParked, Submit, AwaitIo, AwaitPrimitive, Suspend,
                    add_io_submit, CoReturn, IoTypeOK
<1>2. CASE register_wait(d) \/ SubmitWake(d)
  BY <1>2, <1>t, Zenon DEF register_wait, SubmitWake
<1>3. CASE SubmitPush(d)
  <2>1. call[d].ctx = d
    BY <1>3 DEF SubmitPush, Home, NoCall
  <2> QED BY <1>3, <1>t, <2>1, Zenon DEF SubmitPush, push, QueueTypeOK
<1>4. CASE WorkerInit(d) \/ RunWhile(d) \/ RunWaitCount(d) \/ RunReady(d)
  BY <1>4, <1>t, Zenon DEF WorkerInit, RunWhile, RunWaitCount, RunReady, Unmoved
<1>5. CASE ExecPop(d) \/ ExecDone(d) \/ clean(d) \/ unregister_wait(d) \/ ClearRunning(d)
  BY <1>5, <1>t, Zenon DEF ExecPop, schedule, ExecDone, clean, unregister_wait, ClearRunning,
                    QueueTypeOK
<1>6. CASE RunSelfStop(d) \/ WorkerDeinit(d) \/ PollSettle(d) \/ PollWait(d)
  BY <1>6, <1>t, Zenon
     DEF RunSelfStop, WorkerDeinit, PollSettle, SettleSubmit, PollWait, Unmoved
<1>7. CASE PollSubmit(d) \/ PollPeek(d) \/ PollAdvance(d)
  BY <1>7, <1>t, ZenonT(30)
     DEF PollSubmit, SubmitSqes, PollPeek, PeekBatch, PollAdvance, cq_advance,
                    Unmoved, IoTypeOK
<1>8. CASE HandleCqe(d)
  BY <1>8, <1>t, Zenon DEF HandleCqe, NextCqe
<1> QED
  BY <1>1, <1>2, <1>3, <1>4, <1>5, <1>6, <1>7, <1>8, ZenonT(30) DEF Worker, Call, Run

\* A worker that has left only deinitialises, and leaves with everything empty.
LEMMA LeavesEmpty ==
  ASSUME Inv, Left, NEW c \in Ctx, Worker(c)
  PROVE  /\ pc[c] = "exited" => pc'[c] = "exited"
         /\ pc'[c] \in Gone => Empty(c)'
<1>t. pc \in [Ctx -> PCs]
  BY Zenon DEF Inv, TypeOK, ThreadTypeOK
<1>c. pc[c] \in Gone => call[c] = NoCall
  BY Zenon DEF Inv, Control, CallOK, Gone
<1> USE DEF engine_vars, queue_vars, io_vars, thread_vars, Goto, Gone
<1>1. CASE Body(c)
  BY <1>1, <1>t, Zenon DEF Body, SpawnTask, ResumeParked, AwaitIo, AwaitPrimitive, Suspend,
                    CoReturn, InBody
<1>2. CASE Call(c)
  <2>1. call[c] # NoCall /\ pc' = pc
    BY <1>2 DEF Call, register_wait, SubmitPush, SubmitWake, NoCall
  <2> QED BY <1>c, <2>1, Zenon
<1>3. CASE RunWaitCount(c)
  <2>1. pc[c] = "waitcount" /\ UNCHANGED <<m_task_queue, sq, inflight, cq>>
    BY <1>3, Zenon DEF RunWaitCount
  <2>2. ASSUME pc'[c] \in Gone PROVE Empty(c)
    <3>1. m_wait_count[c] <= 0
      <4>1. m_wait_count[c] \in Int
        BY Zenon DEF Inv, TypeOK, ThreadTypeOK
      <4>2. ~(m_wait_count[c] > 0)
        BY <1>3, <1>t, <2>2, Zenon DEF RunWaitCount, Goto, Gone
      <4> QED BY ONLY <4>1, <4>2
    <3>2. ~ready(c)
      BY <3>1, ZeroMeansDrained, Zenon DEF Inv
    <3>3. empty_io(c)
      BY <2>1, Zenon DEF Inv, IoInv, IoTested
    <3>4. sq[c] = {} /\ inflight[c] = {} /\ cq[c] = <<>>
      BY <2>1, <3>3, ZeroMeansNoIo, Zenon DEF Inv
    <3> QED BY <3>2, <3>4, Zenon DEF Empty, ready
  <2> QED BY <2>1, <2>2, Zenon DEF Empty
<1>4. CASE WorkerDeinit(c)
  BY <1>4, <1>t, Zenon DEF WorkerDeinit, Left, Empty
<1>5. CASE WorkerInit(c) \/ RunWhile(c) \/ RunReady(c)
  BY <1>5, <1>t, Zenon DEF WorkerInit, RunWhile, RunReady
<1>6. CASE ExecPop(c) \/ ExecDone(c) \/ clean(c) \/ unregister_wait(c) \/ ClearRunning(c)
  BY <1>6, <1>t, Zenon DEF ExecPop, ExecDone, clean, unregister_wait, ClearRunning
<1>7. CASE RunSelfStop(c) \/ PollSubmit(c) \/ PollSettle(c) \/ PollWait(c)
  BY <1>7, <1>t, Zenon DEF RunSelfStop, PollSubmit, PollSettle, PollWait
<1>8. CASE PollPeek(c) \/ HandleCqe(c) \/ PollAdvance(c)
  BY <1>8, <1>t, Zenon DEF PollPeek, HandleCqe, PollAdvance
<1> QED
  BY <1>1, <1>2, <1>3, <1>4, <1>5, <1>6, <1>7, <1>8, ZenonT(30) DEF Worker, Run

\* A worker enters submit_task for its own context only.
LEMMA HomeWorker ==
  ASSUME "scheduler" \notin Ops, Inv, Home, NEW c \in Ctx, Worker(c)
  PROVE  call'[c] # NoCall => call'[c].ctx = c /\ call'[c].step # "dispatch"
<1>t. call \in [Ctx -> [step : Steps, task : Tasks \cup {NoTask}, ctx : Ctx]]
  BY Zenon DEF Inv, TypeOK, ThreadTypeOK
<1>1. CASE Body(c)
  <2>1. ASSUME NEW t \in Tasks, SpawnTask(c, t) \/ ResumeParked(c, t)
        PROVE  call'[c].ctx = c /\ call'[c].step = "register"
    BY <1>t, <2>1 DEF SpawnTask, ResumeParked, Submit
  <2>2. ASSUME AwaitIo(c) \/ AwaitPrimitive(c) \/ CoReturn(c) PROVE call'[c] = call[c]
    BY <2>2, Zenon DEF AwaitIo, AwaitPrimitive, Suspend, CoReturn
  <2> QED BY <1>1, <2>1, <2>2, Zenon DEF Body, Home
<1>2. CASE register_wait(c)
  BY <1>2, <1>t DEF register_wait, Home, NoCall
<1>3. CASE SubmitPush(c)
  BY <1>3, <1>t DEF SubmitPush, Home, NoCall
<1>4. CASE SubmitWake(c)
  BY <1>4, <1>t, Zenon DEF SubmitWake
<1>5. CASE HandleCqe(c)
  BY <1>5, <1>t, Zenon DEF HandleCqe
<1>6. CASE Run(c) /\ ~HandleCqe(c)
  BY <1>6, Zenon
     DEF Run, WorkerInit, RunWhile, RunWaitCount, RunReady, ExecPop, ExecDone, clean,
         unregister_wait, ClearRunning, RunSelfStop, PollSubmit, PollSettle, PollWait,
         PollPeek, PollAdvance, WorkerDeinit, Unmoved, Home
<1> QED BY <1>1, <1>2, <1>3, <1>4, <1>5, <1>6, ZenonT(30) DEF Worker, Call

\* Every step keeps Quit when nobody submits through the scheduler.
LEMMA QuitStep ==
  ASSUME "scheduler" \notin Ops, Inv, Begun, Quit, [Next]_vars
  PROVE  Quit'
<1>t. /\ pc \in [Ctx -> PCs] /\ m_task_queue \in [Ctx -> Seq(Tasks)]
      /\ inflight \in [Ctx -> SUBSET Tasks] /\ cq \in [Ctx -> Seq(Tasks)]
      /\ main \in [at : MainPCs, ctx : Ctx, field : Fields]
  BY Zenon DEF Inv, TypeOK, QueueTypeOK, IoTypeOK, ThreadTypeOK, MainTypeOK
<1>q. Home /\ Left /\ Joined
  BY Zenon DEF Quit
<1>1. ASSUME NEW d \in Ctx, Worker(d), UNCHANGED <<main, m_cur>> PROVE Quit'
  <2>1. Home'
    <3>1. ASSUME NEW c \in Ctx
          PROVE  call'[c] # NoCall => call'[c].ctx = c /\ call'[c].step # "dispatch"
      <4>1. CASE c = d
        BY <1>1, <1>q, <4>1, HomeWorker, Zenon
      <4>2. CASE c # d
        <5>1. call'[c] = call[c]
          BY <1>1, <1>q, <4>2, KeepsToItself, Zenon
        <5> QED BY <1>q, <5>1, Zenon DEF Home
      <4> QED BY <4>1, <4>2, Zenon
    <3> QED BY <3>1, Zenon DEF Home, NoCall
  <2>2. ASSUME NEW c \in Ctx
        PROVE  /\ pc'[c] \in Gone => Empty(c)'
               /\ pc[c] = "exited" => pc'[c] = "exited"
    <3>1. CASE c = d
      BY <1>1, <1>q, <3>1, LeavesEmpty, Zenon
    <3>2. CASE c # d
      <4>1. pc'[c] = pc[c] /\ (Empty(c) => Empty(c)')
        BY <1>1, <1>q, <3>2, KeepsToItself, Zenon
      <4> QED BY <1>q, <4>1, Zenon DEF Left
    <3> QED BY <3>1, <3>2, Zenon
  <2>3. Left'
    BY <2>2, Zenon DEF Left, Gone
  <2>4. Joined'
    BY <1>1, <1>q, <2>2, Zenon DEF Joined
  <2> QED BY <2>1, <2>3, <2>4, Zenon DEF Quit
<1>2. ASSUME NEW d \in Ctx, SubmitDispatch(d) PROVE Quit'
  <2>1. call[d] # NoCall /\ call[d].step = "dispatch"
    BY <1>2 DEF SubmitDispatch, NoCall
  <2> QED BY <1>q, <2>1, Zenon DEF Home
<1>3. ASSUME NEW d \in Ctx, Kernel(d) PROVE Quit'
  <2>1. PICK t \in Tasks : Complete(d, t)
    BY <1>3, Zenon DEF Kernel
  <2>2. /\ UNCHANGED <<pc, call, main, m_task_queue, sq>> /\ t \in inflight[d]
        /\ \A c \in Ctx \ {d} : inflight'[c] = inflight[c] /\ cq'[c] = cq[c]
    BY <1>3, <1>t, <2>1, Zenon DEF Kernel, Complete, context_vars, thread_vars
  <2>3. pc[d] \notin Gone
    BY <1>q, <2>2, Zenon DEF Left, Empty
  <2>4. Left'
    BY <1>q, <2>2, <2>3, Zenon DEF Left, Empty
  <2>5. Home' /\ Joined'
    BY <1>q, <2>2, Zenon DEF Home, Joined, NoCall
  <2> QED BY <2>4, <2>5, Zenon DEF Quit
<1>4. ASSUME NEW t \in Tasks, NEW d \in Ctx, MainSubmit(t, d) PROVE Quit'
  <2>1. /\ main.at = "submit" /\ UNCHANGED <<pc, call, main, sq, inflight, cq>>
        /\ \A c \in Ctx : pc[c] = "unborn"
    BY <1>4, Zenon DEF MainSubmit, io_vars, thread_vars, Begun
  <2>2. Left'
    BY <2>1, Zenon DEF Left, Gone
  <2>3. Home' /\ Joined'
    BY <1>q, <2>1, Zenon DEF Home, Joined, NoCall
  <2> QED BY <2>2, <2>3, Zenon DEF Quit
<1>5. ASSUME MainStart PROVE Quit'
  <2>1. /\ UNCHANGED <<call, m_task_queue, sq, inflight, cq>> /\ main'.at = "assign"
        /\ \A c \in Ctx : pc'[c] \in Gone => pc[c] = pc'[c]
    BY <1>5, <1>t, Zenon DEF MainStart, Goto, MainAt, engine_vars, queue_vars, io_vars, Gone
  <2>2. Left'
    BY <1>q, <2>1, Zenon DEF Left, Empty, Gone
  <2>3. Home' /\ Joined'
    BY <1>q, <2>1, Zenon DEF Home, Joined, NoCall
  <2> QED BY <2>2, <2>3, Zenon DEF Quit
<1>6. ASSUME MainLoop \/ MainAssignJob \/ MainScan \/ MainRequestStop \/ MainNotify
      PROVE  Quit'
  <2>1. UNCHANGED <<call, m_task_queue, sq, inflight, cq, pc>>
    BY <1>6, Zenon
       DEF MainLoop, MainAssignJob, MainScan, MainRequestStop, MainNotify, engine_vars,
                queue_vars, io_vars, context_vars, thread_vars
  <2>2. main'.at # "end" /\ (main'.at = "join" => main'.ctx = 0)
    BY <1>6, <1>t
       DEF MainLoop, MainAssignJob, MainScan, MainRequestStop, MainNotify, NextCtx, MainAt
  <2>3. Joined'
    BY <2>2, CtxNat DEF Joined
  <2>4. Home' /\ Left'
    BY <1>q, <2>1, Zenon DEF Home, Left, Empty, NoCall, Gone
  <2> QED BY <2>3, <2>4, Zenon DEF Quit
<1>7. ASSUME MainJoin PROVE Quit'
  <2>1. /\ UNCHANGED <<call, m_task_queue, sq, inflight, cq, pc>>
        /\ main.at = "join" /\ pc[main.ctx] = "exited" /\ NextCtx("join", "end")
    BY <1>7, Zenon DEF MainJoin, engine_vars, queue_vars, io_vars, context_vars, thread_vars
  <2>2. \A d \in Ctx : d <= main.ctx => pc[d] = "exited"
    <3>1. \A d \in Ctx : d < main.ctx => pc[d] = "exited"
      BY <1>q, <2>1, Zenon DEF Joined
    <3>2. \A d \in Ctx : d <= main.ctx => d < main.ctx \/ d = main.ctx
      BY <1>t, EngineAssumption DEF Ctx
    <3> QED BY <2>1, <3>1, <3>2, Zenon
  <2>3. Joined'
    <3>1. CASE main.ctx + 1 < N
      <4>1. main'.at = "join" /\ main'.ctx = main.ctx + 1
        BY <2>1, <3>1, Zenon DEF NextCtx, MainAt
      <4>2. \A d \in Ctx : d < main.ctx + 1 => d <= main.ctx
        BY <1>t, CtxNat DEF Ctx
      <4> QED BY <2>1, <2>2, <4>1, <4>2, Zenon DEF Joined
    <3>2. CASE ~(main.ctx + 1 < N)
      <4>1. main'.at = "end"
        BY <2>1, <3>2, Zenon DEF NextCtx, MainAt
      <4>2. \A d \in Ctx : d <= main.ctx
        BY <1>t, <3>2, EngineAssumption DEF Ctx
      <4> QED BY <2>1, <2>2, <4>1, <4>2, Zenon DEF Joined
    <3> QED BY <3>1, <3>2, Zenon
  <2>4. Home' /\ Left'
    BY <1>q, <2>1, Zenon DEF Home, Left, Empty, NoCall, Gone
  <2> QED BY <2>3, <2>4, Zenon DEF Quit
<1>8. CASE UNCHANGED vars
  BY <1>8, <1>q, Zenon
     DEF vars, engine_vars, queue_vars, io_vars, context_vars, thread_vars, Quit,
                    Home, Left, Joined, Empty, NoCall, Gone
<1> QED
  BY <1>1, <1>2, <1>3, <1>4, <1>5, <1>6, <1>7, <1>8, ZenonT(30)
     DEF Next, WorkerStep, MainStep, Main, Over

\* As long as work is handed on within a context, loop() (or the last join())
\* returns with every submitted task finished, for any number of contexts and tasks:
\* a worker that leaves its run loop leaves no handle in its queue, its rings or with
\* the kernel, and nobody gives it one afterwards.
THEOREM AllTasksRunCorrect ==
  ASSUME "scheduler" \notin Ops
  PROVE  Spec => []AllTasksRun
<1>1. Init => Begun /\ Quit
  <2> SUFFICES ASSUME Init PROVE Begun /\ Quit
    BY Zenon
  <2> USE DEF Init, EngineInit, ContextInit, MainAt
  <2>1. Begun
    BY Zenon DEF Begun
  <2>2. Home /\ Left /\ Joined
    BY Zenon DEF Home, Left, Joined, Gone
  <2> QED BY <2>1, <2>2, Zenon DEF Quit
<1>2. Inv /\ Begun /\ Quit /\ [Next]_vars => Begun' /\ Quit'
  <2> SUFFICES ASSUME Inv, Begun, Quit, [Next]_vars PROVE Begun' /\ Quit'
    BY Zenon
  <2>1. Begun'
    BY BegunStep, Zenon DEF Inv
  <2>2. Quit'
    BY QuitStep, Zenon
  <2> QED BY <2>1, <2>2, Zenon
<1>3. Inv /\ Handles /\ Quit => AllTasksRun
  <2> SUFFICES ASSUME Inv, Handles, Quit, main.at = "end", NEW t \in Tasks, frame[t] = "live"
               PROVE  t \in parked
    BY Zenon DEF AllTasksRun, Inv, TypeOK, FrameTypeOK
  <2>1. PICK k \in Kinds, c \in Ctx : t \in There(k, c)
    BY Zenon DEF Handles, Alive
  <2>2. pc[c] = "exited" /\ Empty(c)
    BY Zenon DEF Quit, Joined, Left, Gone
  <2>3. Resumed(c) = {} /\ Submitted(c) = {}
    <3>1. call[c] = NoCall
      BY <2>2, Zenon DEF Inv, Control, CallOK
    <3>2. pc[c] \notin {"body", "trapped"} /\ call[c].step = "none"
      BY <2>2, <3>1 DEF NoCall
    <3> QED BY ONLY <3>2, Zenon DEF Resumed, Submitted
  <2>4. Items(m_task_queue[c], 0) = {} /\ Items(cq[c], handled[c]) = {}
    <3>1. handled[c] = 0 /\ Len(<<>>) = 0 /\ 0 + 1 .. 0 = {}
      BY <2>2, EmptyList DEF Handles, Reaped
    <3> QED BY <2>2, <3>1, Zenon DEF Empty, Items
  <2>5. k = "parked"
    BY <2>1, <2>2, <2>3, <2>4, ThereIs, Zenon DEF Kinds, Empty
  <2> QED BY <2>1, <2>5, ThereIs, Zenon DEF Parked
<1> QED
  BY <1>1, <1>2, <1>3, HandlesInductive, PTL DEF Spec
=============================================================================
