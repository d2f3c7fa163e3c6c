--------------------------- MODULE ProgramProofs ----------------------------
(***************************************************************************)
(* Proofs about parts beside the runtime, for any bounds: the spinlock     *)
(* excludes, and tasks deliver their results, finish, and are freed once,  *)
(* but for the detached ones that end on the handle of another.            *)
(***************************************************************************)
EXTENDS Spinlock, Task, TLAPS

-----------------------------------------------------------------------------
(* The spinlock. The argument needs that lock_ is set while a thread is    *)
(* inside: an exchange that returns false then proves that nobody is.      *)

SpinSpec == SpinInit /\ [][SpinNext]_spin_vars

SpinInv ==
    /\ SpinTypeOK
    /\ SpinExclusion
    /\ \A t \in SpinThreads : spin_pc[t] = "inside" => lock_

\* A step of one thread keeps the invariant: the exchange lets it in only when nobody is,
\* and unlock is called by the thread that is inside (spinlock.hpp:20-53).
LEMMA SpinStepKeeps ==
    ASSUME SpinInv, NEW t \in SpinThreads, CallLock(t) \/ CallTryLock(t) \/ SpinStep(t)
    PROVE  SpinInv'
<1> USE DEF SpinInv, SpinTypeOK, SpinExclusion, Goes
<1>1. CASE CallLock(t) \/ CallTryLock(t)
  BY <1>1, Zenon DEF CallLock, CallTryLock
<1>2. CASE Exchange(t)
  BY <1>2, Zenon DEF Exchange, Exchanged
<1>3. CASE Spin(t)
  BY <1>3, Zenon DEF Spin
<1>4. CASE Peek(t)
  BY <1>4, Zenon DEF Peek
<1>5. CASE TryExchange(t)
  BY <1>5, Zenon DEF TryExchange, Exchanged
<1>6. CASE unlock(t)
  BY <1>6, Zenon DEF unlock
<1> QED
  BY <1>1, <1>2, <1>3, <1>4, <1>5, <1>6, Zenon DEF SpinStep

\* Any number of threads calling lock(), try_lock() and unlock() are inside one at a time
\* (spinlock.hpp:16-54).
THEOREM SpinlockExcludes == SpinSpec => []SpinExclusion
<1>1. SpinInit => SpinInv
  BY Zenon DEF SpinInit, SpinInv, SpinTypeOK, SpinExclusion
<1>2. SpinInv /\ [SpinNext]_spin_vars => SpinInv'
  <2> SUFFICES ASSUME SpinInv, [SpinNext]_spin_vars PROVE SpinInv'
    BY Zenon
  <2>1. CASE SpinNext
    BY <2>1, SpinStepKeeps, Zenon DEF SpinNext
  <2>2. CASE UNCHANGED spin_vars
    BY <2>2, Zenon DEF spin_vars, SpinInv, SpinTypeOK, SpinExclusion
  <2> QED
    BY <2>1, <2>2, Zenon
<1>3. SpinInv => SpinExclusion
  BY Zenon DEF SpinInv
<1> QED
  BY <1>1, <1>2, <1>3, PTL DEF SpinSpec

-----------------------------------------------------------------------------
(* Tasks.                                                                  *)

TaskSpec == TaskInit /\ [][TaskNext]_task_vars

Results == {"none", "value", "exception", "terminate", "default", "runtime_error"}

\* A coroutine that has finished has filled its container.
ResultInv ==
    /\ frame \in [Frames -> FrameStates] /\ m_parent \in [Frames -> Frames \cup {NoFrame}]
    /\ kind \in [Frames -> Kinds] /\ got \in [Frames -> Results]
    /\ box \in [Frames -> {"unset", "value", "exception"}]
    /\ calls \in 0 .. MaxFrames
    /\ \A f \in Frames : done(f) => box[f] # "unset"
    /\ ResultReachesAwaiter

LEMMA Names ==
  /\ NoFrame \notin Frames /\ Caller \notin Frames /\ Nowhere \notin Frames
  /\ Caller # Nowhere /\ NoFrame = Caller
BY TaskAssumption DEF NoFrame, Caller, Nowhere, Frames

\* A filled container never makes a result up.
LEMMA FilledResult ==
  ASSUME NEW k \in Kinds, NEW b \in {"unset", "value", "exception"}
  PROVE  /\ result(k, b) \in Results
         /\ b # "unset" => result(k, b) \notin {"default", "runtime_error"}
BY DEF Kinds, Results, result, class_result, pod_result, void_result

\* An await_resume that reads a filled container, or that of an unfinished coroutine for a
\* coroutine that is then in forced.
LEMMA Delivers ==
  ASSUME ResultInv, NEW p \in Frames, NEW f \in Frames,
         NEW b \in {"unset", "value", "exception"}, await_resume(p, f, b),
         forced \subseteq forced', b # "unset" \/ p \in forced'
  PROVE  got' \in [Frames -> Results] /\ ResultReachesAwaiter'
<1>1. kind[f] \in Kinds
  BY Zenon DEF ResultInv
<1>2. PICK r \in Results : r = result(kind[f], b)
  BY <1>1, FilledResult, Zenon
<1>3. r \in {"default", "runtime_error"} => p \in forced'
  BY <1>1, <1>2, FilledResult, Zenon
<1>4. got' = [got EXCEPT ![p] = r] /\ got \in [Frames -> Results]
  BY <1>2, Zenon DEF await_resume, ResultInv
<1>5. got' \in [Frames -> Results] /\ \A q \in Frames : got'[q] = IF q = p THEN r ELSE got[q]
  BY <1>4
<1> QED BY <1>3, <1>5, Zenon DEF ResultInv, ResultReachesAwaiter

LEMMA ContinueDelivers ==
  ASSUME ResultInv, NEW f \in Frames, Continue(f)
  PROVE  got' \in [Frames -> Results] /\ ResultReachesAwaiter' /\ forced \subseteq forced'
<1>1. CASE frame[f] = "awaiting"
  <2>1. f \in forced' /\ forced \subseteq forced'
    BY <1>1, Zenon DEF Continue
  <2>2. PICK c \in Frames : await_resume(f, c, box[c])
    BY <1>1, Zenon DEF Continue
  <2>3. box[c] \in {"unset", "value", "exception"}
    BY <2>2, Zenon DEF ResultInv
  <2> QED BY <2>1, <2>2, <2>3, Delivers, Zenon
<1>2. CASE frame[f] # "awaiting"
  <2>1. UNCHANGED <<forced, got>>
    BY <1>2, Zenon DEF Continue
  <2> QED BY <2>1, Zenon DEF ResultInv, ResultReachesAwaiter
<1> QED BY <1>1, <1>2, Zenon

LEMMA ResultStep == ResultInv /\ [TaskNext]_task_vars => ResultInv'
<1> SUFFICES ASSUME ResultInv, [TaskNext]_task_vars PROVE ResultInv'
  BY Zenon
<1> USE DEF task_vars, promise_vars, run_vars, past_vars
<1>t. /\ frame \in [Frames -> FrameStates] /\ m_parent \in [Frames -> Frames \cup {NoFrame}]
      /\ kind \in [Frames -> Kinds] /\ got \in [Frames -> Results]
      /\ box \in [Frames -> {"unset", "value", "exception"}]
      /\ calls \in 0 .. MaxFrames
      /\ \A f \in Frames : frame[f] = "final" => box[f] # "unset"
  BY Zenon DEF ResultInv, done
<1>n. {"fresh", "running", "awaiting", "paused", "final"} \subseteq FrameStates
  BY Zenon DEF FrameStates
\* Steps after which fewer coroutines are finished, and that deliver nothing.
<1>q. ASSUME UNCHANGED <<m_parent, kind, box, calls, got, forced>>,
             frame' \in [Frames -> FrameStates],
             \A f \in Frames : frame'[f] = "final" => frame[f] = "final"
      PROVE  ResultInv'
  BY <1>t, <1>q, Zenon DEF ResultInv, ResultReachesAwaiter, done
<1>1. ASSUME NEW c \in Frames \cup {Caller}, NEW k \in Kinds, get_return_object(c, k)
      PROVE  ResultInv'
  <2>1. /\ calls + 1 \in Frames /\ calls + 1 \in 0 .. MaxFrames
        /\ UNCHANGED <<m_parent, box, got, forced>> /\ calls' = calls + 1
    BY <1>t, <1>1, TaskAssumption DEF get_return_object, Frames
  <2>2. /\ frame' \in [Frames -> FrameStates] /\ kind' \in [Frames -> Kinds]
        /\ \A f \in Frames : frame'[f] = "final" => frame[f] = "final"
    BY <1>t, <1>n, <1>1, <2>1 DEF get_return_object
  <2> QED BY <1>t, <2>1, <2>2, Zenon DEF ResultInv, ResultReachesAwaiter, done
<1>2. ASSUME NEW c \in Frames \cup {Caller}, NEW f \in Frames, destroy(c, f) PROVE ResultInv'
  BY <1>t, <1>q, <1>2, Zenon DEF destroy
<1>3. ASSUME NEW f \in Frames, submit_task(f) PROVE ResultInv'
  BY <1>t, <1>q, <1>3, Zenon DEF submit_task
<1>4. ASSUME NEW f \in Frames, resume(f) PROVE ResultInv'
  <2>1. Continue(f) /\ UNCHANGED <<kind, m_parent, box, calls>>
    BY <1>4, Zenon DEF resume
  <2>2. /\ frame' \in [Frames -> FrameStates]
        /\ \A g \in Frames : frame'[g] = "final" => frame[g] = "final"
    BY <1>t, <1>n, <1>4 DEF resume
  <2> QED BY <1>t, <2>1, <2>2, ContinueDelivers, Zenon DEF ResultInv, done
<1>5. ASSUME NEW h \in Frames, ExecResume(h) PROVE ResultInv'
  <2>1. /\ frame' \in [Frames -> FrameStates]
        /\ \A g \in Frames : frame'[g] = "final" => frame[g] = "final"
    BY <1>t, <1>n, <1>5 DEF ExecResume
  <2> QED BY <1>q, <1>5, <2>1, Zenon DEF ExecResume
<1>6. ASSUME NEW c \in Frames, NEW b \in {"value", "exception"}, Finish(c, b) PROVE ResultInv'
  <2>1. UNCHANGED <<kind, m_parent, calls, forced>> /\ box' = [box EXCEPT ![c] = b]
    BY <1>6, Zenon DEF Finish
  <2>2. /\ box' \in [Frames -> {"unset", "value", "exception"}] /\ box'[c] = b
        /\ \A f \in Frames : f # c => box'[f] = box[f]
    BY <1>t, <2>1
  <2>3. CASE m_parent[c] = NoFrame
    <3>1. UNCHANGED got /\ frame' = [frame EXCEPT ![c] = "final"]
      BY <1>6, <2>3, Zenon DEF Finish, final_suspend
    <3>2. frame' \in [Frames -> FrameStates] /\ \A f \in Frames : f # c => frame'[f] = frame[f]
      BY <1>t, <1>n, <3>1
    <3> QED BY <1>t, <2>1, <2>2, <3>1, <3>2 DEF ResultInv, ResultReachesAwaiter, done
  <2>4. CASE m_parent[c] # NoFrame
    <3>1. PICK p \in Frames : p = m_parent[c]
      BY <1>t, <2>4, Zenon
    <3>2. frame' = [frame EXCEPT ![c] = "final", ![p] = "running"] /\ await_resume(p, c, b)
      BY <1>6, <2>4, <3>1, Zenon DEF Finish, final_suspend
    <3>3. /\ frame' \in [Frames -> FrameStates]
          /\ \A f \in Frames : f # c => frame'[f] = frame[f] \/ frame'[f] = "running"
      BY <1>t, <1>n, <3>2
    <3>4. b \in {"unset", "value", "exception"} /\ b # "unset" /\ forced \subseteq forced'
      BY <2>1, Zenon
    <3>5. got' \in [Frames -> Results] /\ ResultReachesAwaiter'
      BY <3>1, <3>2, <3>4, Delivers, Zenon
    <3> QED BY <1>t, <2>1, <2>2, <3>3, <3>4, <3>5 DEF ResultInv, done
  <2> QED BY <2>3, <2>4, Zenon
<1>7. ASSUME NEW c \in Frames, set_exception(c) PROVE ResultInv'
  BY <1>t, <1>q, <1>7, Zenon DEF set_exception
<1>8. ASSUME NEW p \in Frames, NEW f \in Frames, co_await(p, f) PROVE ResultInv'
  <2>1. UNCHANGED <<kind, box, calls>>
    BY <1>8, Zenon DEF co_await
  <2>2. CASE await_ready(f) /\ await_resume(p, f, box[f]) /\ UNCHANGED <<frame, m_parent, forced>>
    <3>1. box[f] \in {"unset", "value", "exception"} /\ box[f] # "unset"
      BY <1>t, <2>2, Zenon DEF await_ready, done
    <3>2. got' \in [Frames -> Results] /\ ResultReachesAwaiter'
      BY <2>2, <3>1, Delivers, Zenon
    <3> QED BY <1>t, <2>1, <2>2, <3>2, Zenon DEF ResultInv, done
  <2>3. CASE /\ m_parent' = [m_parent EXCEPT ![f] = p] /\ Continue(f)
             /\ frame' = [frame EXCEPT ![p] = "awaiting", ![f] = "running"]
    <3>1. /\ frame' \in [Frames -> FrameStates]
          /\ \A g \in Frames : frame'[g] = "final" => frame[g] = "final"
      BY <1>t, <1>n, <2>3
    <3>2. m_parent' \in [Frames -> Frames \cup {NoFrame}]
      BY <1>t, <2>3
    <3> QED BY <1>t, <2>1, <2>3, <3>1, <3>2, ContinueDelivers, Zenon DEF ResultInv, done
  <2> QED BY <1>8, <2>2, <2>3, Zenon DEF co_await, await_suspend
<1>9. ASSUME NEW c \in Frames, Pause(c) PROVE ResultInv'
  <2>1. /\ frame' \in [Frames -> FrameStates]
        /\ \A g \in Frames : frame'[g] = "final" => frame[g] = "final"
    BY <1>t, <1>n, <1>9 DEF Pause
  <2> QED BY <1>q, <1>9, <2>1, Zenon DEF Pause
<1>10. ASSUME NEW c \in Frames \cup {Caller}, NEW f \in Frames, NEW g \in Frames, Move(c, f, g)
       PROVE  ResultInv'
  BY <1>t, <1>q, <1>10, Zenon DEF Move
<1>11. CASE ExecDone
  BY <1>t, <1>q, <1>11, Zenon DEF ExecDone
<1>12. CASE ResumeReturns
  BY <1>t, <1>q, <1>12, Zenon DEF ResumeReturns
<1>13. CASE UNCHANGED task_vars
  BY <1>t, <1>q, <1>13, Zenon
<1> QED BY <1>1, <1>2, <1>3, <1>4, <1>5, <1>6, <1>7, <1>8, <1>9, <1>10, <1>11, <1>12, <1>13,
           Zenon DEF TaskNext, BodySteps, return_value, unhandled_exception

\* What co_await delivers is what the awaited coroutine returned or threw, for any number of
\* frames and pauses: await_ready looks at done(), and a coroutine is done only after its
\* container was filled (task.hpp:154-165, 238-256; container.hpp:30-130). The exception is
\* an awaiter that was resumed while it waited.
THEOREM ResultReachesAwaiterCorrect == TaskSpec => []ResultReachesAwaiter
<1>1. TaskInit => ResultInv
  <2> SUFFICES ASSUME TaskInit PROVE ResultInv
    BY Zenon
  <2>1. 0 \in 0 .. MaxFrames
    BY TaskAssumption
  <2> QED BY <2>1 DEF TaskInit, ResultInv, ResultReachesAwaiter, done, FrameStates, Kinds, Results
<1>2. ResultInv => ResultReachesAwaiter
  BY Zenon DEF ResultInv
<1> QED BY <1>1, <1>2, ResultStep, PTL DEF TaskSpec

-----------------------------------------------------------------------------
(* Who owns a frame and who may resume it. A frame dies with the one its   *)
(* object is in, so that nothing is freed twice as long as no freed frame  *)
(* acts. None does: the running coroutine and the queued ones each end a   *)
(* chain of coroutines that await one another, every one of which is held  *)
(* by the next, up to a root that nobody may destroy. The chains cover all *)
(* unfinished roots that the engine was given. A finished one is freed by  *)
(* the done() that follows, if it is the one that was resumed.             *)

Places == Frames \cup {Caller, Nowhere}

TaskTypeOK ==
    /\ frame \in [Frames -> FrameStates] /\ m_parent \in [Frames -> Frames \cup {NoFrame}]
    /\ m_detached \in [Frames -> BOOLEAN] /\ held \in [Frames -> Places]
    /\ frees \in [Frames -> {0, 1}] /\ calls \in 0 .. MaxFrames
    /\ lent \subseteq Frames /\ queued \subseteq Frames
    /\ resumed \in Frames \cup {NoFrame} /\ cur \in Frames \cup {NoFrame}
    /\ by \in {"nobody", "engine", "caller"} /\ ended_on \in [Frames -> Frames \cup {NoFrame}]

\* A frame that was not allocated yet is nowhere named.
Unborn(f) ==
    /\ ~Freed(f) /\ held[f] = Nowhere /\ m_parent[f] = NoFrame /\ ~m_detached[f]
    /\ f \notin lent \cup queued \cup {resumed, cur}
    /\ \A g \in Frames : held[g] # f

Allocated == \A f \in Frames : (f > calls => frame[f] = "none") /\ (frame[f] = "none" => Unborn(f))

\* A frame is freed together with the one its object is in; only a detached frame has no
\* object, and what the engine was given belongs to no coroutine.
Given(f) == m_detached[f] \/ f \in lent

Owned(f) ==
    /\ held[f] = Caller => ~Freed(f) /\ m_parent[f] = NoFrame
    /\ \A g \in Frames : held[f] = g => (Freed(f) <=> Freed(g))
    /\ m_detached[f] => held[f] = Nowhere
    /\ Given(f) => held[f] \notin Frames /\ m_parent[f] = NoFrame
    /\ Alive(f) /\ held[f] = Nowhere => m_detached[f]

\* No frame dies with its own locals: no object is, however deep, in the frame it names.
NoCycle ==
    \A c \in Frames : \E T \in SUBSET Frames :
        c \notin T /\ Closed(T) /\ \A f \in Frames : held[f] = c => f \in T

\* Who may be resumed next: the running coroutine and those that the engine has queued.
Tips == queued \cup ({cur} \ {NoFrame})

\* K[t] is t with the coroutines that await it, up to the one that was submitted or resumed.
Chain(K, t) ==
    /\ t \in K[t]
    /\ \A x \in K[t] :
          /\ ~Freed(x) /\ frame[x] # "none"
          /\ x # t => frame[x] = "awaiting"
          /\ m_parent[x] # NoFrame => /\ m_parent[x] \in K[t] /\ held[x] = m_parent[x]
                                      /\ frame[m_parent[x]] = "awaiting"
          /\ m_parent[x] = NoFrame => held[x] \notin Frames
    /\ \A x, y \in K[t] : m_parent[x] = m_parent[y] => x = y

\* The caller drives its own tasks, the engine the ones it was given.
Driven(K, t) ==
    \A x \in K[t] : m_parent[x] = NoFrame => (Given(x) <=> ~(t = cur /\ by = "caller"))

Chains(K) ==
    /\ \A t \in Tips : Chain(K, t) /\ Driven(K, t)
    /\ \A t, u \in Tips : t # u => K[t] \cap K[u] = {}
    /\ \A f \in Frames : Given(f) /\ ~done(f) => \E t \in Tips : f \in K[t]

Running ==
    /\ by = "nobody" <=> resumed = NoFrame
    /\ cur # NoFrame => resumed # NoFrame /\ frame[cur] = "running"
    /\ \A t \in queued : frame[t] \in {"fresh", "paused"}

\* A detached coroutine that has finished on its own handle waits for the clean() of the step
\* that resumed it; done() is read of a freed frame only if somebody awaited that one.
Finished ==
    /\ \A f \in Frames : m_detached[f] =>
          /\ Freed(f) => ended_on[f] = f
          /\ done(f) /\ ended_on[f] = f /\ ~Freed(f) => by = "engine" /\ resumed = f
    /\ \A h \in Frames : by = "engine" /\ resumed = h =>
          /\ done(h) /\ m_detached[h] => ended_on[h] = h
          /\ m_parent[h] = NoFrame => held[h] \notin Frames /\ ~Freed(h)
    /\ \A h \in stale : h \in Frames /\ m_parent[h] # NoFrame
    /\ health = "corrupt" => stale # {}

TaskInv ==
    /\ TaskTypeOK /\ Allocated /\ (\A f \in Frames : Owned(f)) /\ NoCycle /\ Running /\ Finished
    /\ \E K \in [Frames -> SUBSET Frames] : Chains(K)

-----------------------------------------------------------------------------
(* What dies together.                                                     *)

LEMMA LocalsLeast ==
  ASSUME NEW S, NEW T \in SUBSET Frames, S \subseteq T, Closed(T)
  PROVE  WithLocals(S) \subseteq T
BY Zenon DEF WithLocals

LEMMA LocalsClosed ==
  ASSUME NEW S \in SUBSET Frames
  PROVE  /\ WithLocals(S) \in SUBSET Frames /\ S \subseteq WithLocals(S)
         /\ Closed(WithLocals(S))
<1>1. PICK W : W = WithLocals(S)
  BY Zenon
<1>2. \A f : f \in W <=> f \in Frames /\ \A T \in SUBSET Frames : S \subseteq T /\ Closed(T) => f \in T
  BY <1>1, Zenon DEF WithLocals
<1>3. S \subseteq W /\ W \in SUBSET Frames
  BY <1>2, Zenon
<1>4. ASSUME NEW f \in Frames, held[f] \in W PROVE f \in W
  <2> SUFFICES ASSUME NEW T \in SUBSET Frames, S \subseteq T, Closed(T) PROVE f \in T
    BY <1>2, Zenon
  <2>1. held[f] \in T
    BY <1>2, <1>4, Zenon
  <2> QED BY <2>1, Zenon DEF Closed
<1> QED BY <1>1, <1>3, <1>4, Zenon DEF Closed

\* What is freed with others is in one of them.
LEMMA LocalsInside ==
  ASSUME NEW S \in SUBSET Frames, NEW f \in WithLocals(S), f \notin S
  PROVE  held[f] \in WithLocals(S)
<1>1. PICK W : W = WithLocals(S)
  BY Zenon
<1>2. W \in SUBSET Frames /\ S \subseteq W /\ Closed(W) /\ f \in W
  BY <1>1, LocalsClosed, Zenon
<1> SUFFICES ASSUME held[f] \notin W PROVE FALSE
  BY <1>1, Zenon
<1>3. PICK T : T = W \ {f}
  BY Zenon
<1>4. T \in SUBSET Frames /\ S \subseteq T /\ f \notin T
  BY <1>2, <1>3, Zenon
<1>5. Closed(T)
  BY <1>2, <1>3, Zenon DEF Closed
<1> QED BY <1>1, <1>2, <1>4, <1>5, LocalsLeast, Zenon

\* Frames that live hold none that is freed.
LEMMA LocalsLive ==
  ASSUME \A f \in Frames : Owned(f), NEW S \in SUBSET Frames, \A f \in S : ~Freed(f)
  PROVE  \A f \in WithLocals(S) : f \in Frames /\ ~Freed(f)
<1>1. PICK T : T = {f \in Frames : ~Freed(f)}
  BY Zenon
<1>2. T \in SUBSET Frames /\ S \subseteq T
  BY <1>1, Zenon
<1>3. ASSUME NEW f \in Frames, held[f] \in T PROVE f \in T
  <2>1. PICK g \in Frames : held[f] = g /\ ~Freed(g)
    BY <1>1, <1>3, Zenon
  <2> QED BY <1>1, <2>1, Zenon DEF Owned
<1> QED BY <1>1, <1>2, <1>3, LocalsLeast, Zenon DEF Closed

\* destroy() counts each of them once.
LEMMA FreeingOnce ==
  ASSUME frees \in [Frames -> {0, 1}], NEW S, frees' = Freeing(S),
         \A f \in WithLocals(S) : ~Freed(f)
  PROVE  /\ frees' \in [Frames -> {0, 1}]
         /\ \A f \in Frames : Freed(f)' <=> Freed(f) \/ f \in WithLocals(S)
<1>1. PICK W : W = WithLocals(S)
  BY Zenon
<1>2. frees' = [f \in Frames |-> IF f \in W THEN frees[f] + 1 ELSE frees[f]]
  BY <1>1, Zenon DEF Freeing
<1>3. \A f \in W : ~(frees[f] > 0)
  BY <1>1, Zenon DEF Freed
<1>4. /\ frees' \in [Frames -> {0, 1}]
      /\ \A f \in Frames : frees'[f] > 0 <=> frees[f] > 0 \/ f \in W
  BY <1>2, <1>3
<1> QED BY <1>1, <1>4, Zenon DEF Freed

\* No chain loses a frame when what is freed is not in it.
LEMMA ChainSpared ==
  ASSUME TaskTypeOK, NEW K \in [Frames -> SUBSET Frames], NEW t \in Frames, Chain(K, t),
         NEW S \in SUBSET Frames, \A f \in S : f \notin K[t]
  PROVE  \A f \in WithLocals(S) : f \notin K[t]
<1>1. PICK T : T = Frames \ K[t]
  BY Zenon
<1>2. T \in SUBSET Frames /\ S \subseteq T
  BY <1>1, Zenon
<1>3. ASSUME NEW f \in Frames, held[f] \in T PROVE f \in T
  <2> SUFFICES ASSUME f \in K[t] PROVE FALSE
    BY <1>1, <1>3, Zenon
  <2>1. held[f] \in Frames /\ held[f] \notin K[t]
    BY <1>1, <1>3, Zenon
  <2>2. m_parent[f] = NoFrame
    BY <2>1, Zenon DEF Chain
  <2> QED BY <2>1, <2>2, Zenon DEF Chain
<1> QED BY <1>1, <1>2, <1>3, LocalsLeast, Zenon DEF Closed

\* Without cycles a frame survives the end of its locals, and an object that it held can go.
LEMMA CycleFree ==
  ASSUME NoCycle, NEW c \in Frames, NEW S \in SUBSET Frames, \A f \in S : held[f] = c
  PROVE  c \notin WithLocals(S)
<1>1. PICK T \in SUBSET Frames :
        c \notin T /\ Closed(T) /\ \A f \in Frames : held[f] = c => f \in T
  BY Zenon DEF NoCycle
<1>2. S \subseteq T
  BY <1>1, Zenon
<1> QED BY <1>1, <1>2, LocalsLeast, Zenon

LEMMA FewerCycles ==
  ASSUME NoCycle, \A f \in Frames : held'[f] = held[f] \/ held'[f] \notin Frames
  PROVE  NoCycle'
<1> SUFFICES ASSUME NEW c \in Frames
             PROVE  \E T \in SUBSET Frames :
                      c \notin T /\ Closed(T)' /\ \A f \in Frames : held'[f] = c => f \in T
  BY Zenon DEF NoCycle
<1>1. PICK T \in SUBSET Frames :
        c \notin T /\ Closed(T) /\ \A f \in Frames : held[f] = c => f \in T
  BY Zenon DEF NoCycle
<1>2. Closed(T)' /\ \A f \in Frames : held'[f] = c => f \in T
  BY <1>1, Zenon DEF Closed
<1> QED BY <1>1, <1>2, Zenon

\* What the engine knows of finished coroutines outlasts every step that finishes none and
\* leaves the roots alone.
LEMMA FinishedKept ==
  ASSUME Finished, UNCHANGED <<m_detached, ended_on, stale, resumed, by>>, health' # "corrupt",
         \A f \in Frames : frame'[f] = "final" <=> frame[f] = "final",
         \A f \in Frames : m_detached[f] => (Freed(f)' <=> Freed(f)),
         \A f \in Frames : m_parent'[f] = m_parent[f] \/ m_parent'[f] # NoFrame,
         \A h \in Frames : by = "engine" /\ resumed = h /\ m_parent[h] = NoFrame =>
            held'[h] = held[h] /\ (Freed(h)' <=> Freed(h))
  PROVE  Finished'
BY Zenon DEF Finished, done

-----------------------------------------------------------------------------
(* Steps at which no object moves and nothing is freed.                    *)

LEMMA ChainStays ==
  ASSUME NEW K, NEW t, Chain(K, t), UNCHANGED <<held, frees, m_parent>>,
         frame[t] # "awaiting", frame'[t] # "none", \A x \in K[t] : x # t => frame'[x] = frame[x]
  PROVE  Chain(K, t)'
<1>1. \A x : Freed(x)' <=> Freed(x)
  BY Zenon DEF Freed
<1> QED BY <1>1, Zenon DEF Chain

LEMMA NothingFreed ==
  ASSUME TaskInv, UNCHANGED <<held, frees, m_parent, m_detached, lent, calls, ended_on>>,
         frame' \in [Frames -> FrameStates],
         \A f \in Frames : frame'[f] = "none" <=> frame[f] = "none",
         by' \in {"nobody", "engine", "caller"},
         \A f \in queued' \cup ({resumed', cur'} \ {NoFrame}) : f \in Frames /\ frame'[f] # "none"
  PROVE  TaskTypeOK' /\ Allocated' /\ (\A f \in Frames : Owned(f))' /\ NoCycle'
<1>1. \A x : Freed(x)' <=> Freed(x)
  BY Zenon DEF Freed
<1>2. TaskTypeOK'
  BY Zenon DEF TaskInv, TaskTypeOK
<1>3. Allocated'
  BY <1>1, Names, Zenon DEF TaskInv, Allocated, Unborn
<1>4. ASSUME NEW f \in Frames PROVE Owned(f)'
  BY <1>1, Zenon DEF TaskInv, Owned, Given, Alive
<1>5. NoCycle'
  BY FewerCycles, Zenon DEF TaskInv
<1> QED BY <1>2, <1>3, <1>4, <1>5, Zenon

LEMMA ChainsStay ==
  ASSUME TaskInv, NEW K \in [Frames -> SUBSET Frames], Chains(K),
         UNCHANGED <<held, frees, m_parent, m_detached, lent>>,
         \A t \in Tips' :
            /\ t \in Tips /\ frame[t] # "awaiting" /\ frame'[t] # "none"
            /\ \A x \in K[t] : x # t => frame'[x] = frame[x]
            /\ t = cur' /\ by' = "caller" <=> t = cur /\ by = "caller",
         \A f \in Frames : Given(f) /\ frame'[f] # "final" =>
            frame[f] # "final" /\ \A t \in Tips : f \in K[t] => t \in Tips'
  PROVE  Chains(K)'
<1>1. \A t \in Tips : Chain(K, t) /\ Driven(K, t)
  BY Zenon DEF Chains
<1>2. \A f : Given(f)' <=> Given(f)
  BY Zenon DEF Given
<1>3. ASSUME NEW t \in Tips' PROVE Chain(K, t)' /\ Driven(K, t)'
  <2>1. Chain(K, t)'
    BY <1>1, <1>3, ChainStays, Zenon
  <2>2. Driven(K, t)'
    BY <1>1, <1>2, <1>3, Zenon DEF Driven
  <2> QED BY <2>1, <2>2, Zenon
<1>4. \A t, u \in Tips' : t # u => K[t] \cap K[u] = {}
  BY Zenon DEF Chains
<1>5. ASSUME NEW f \in Frames, Given(f)', ~done(f)' PROVE \E t \in Tips' : f \in K[t]
  <2>1. Given(f) /\ frame'[f] # "final"
    BY <1>2, <1>5, Zenon DEF done
  <2>2. PICK t \in Tips : f \in K[t]
    BY <2>1, Zenon DEF Chains, done
  <2> QED BY <2>1, <2>2, Zenon
<1> QED BY <1>3, <1>4, <1>5, Zenon DEF Chains

\* The frames that something names exist.
LEMMA NamedFrames ==
  ASSUME TaskInv
  PROVE  \A f \in queued \cup ({resumed, cur} \ {NoFrame}) : f \in Frames /\ frame[f] # "none"
BY Zenon DEF TaskInv, TaskTypeOK, Allocated, Unborn

\* A tip is running, or waits in the queue.
LEMMA TipStates ==
  ASSUME TaskInv
  PROVE  \A t \in Tips : t \in Frames /\ frame[t] \in {"running", "fresh", "paused"}
BY Zenon DEF TaskInv, TaskTypeOK, Running, Tips

LEMMA TaskQuiet ==
  ASSUME TaskInv, health' = "corrupt" => health = "corrupt",
         UNCHANGED <<frame, m_parent, m_detached, held, frees, calls, lent, queued, resumed, by,
                     cur, ended_on, stale>>
  PROVE  TaskInv'
<1>1. TaskTypeOK' /\ Allocated' /\ (\A f \in Frames : Owned(f))' /\ NoCycle'
  <2>1. frame \in [Frames -> FrameStates] /\ by \in {"nobody", "engine", "caller"}
    BY Zenon DEF TaskInv, TaskTypeOK
  <2> QED BY <2>1, NothingFreed, NamedFrames, Zenon
<1>2. Running' /\ Finished'
  BY Zenon DEF TaskInv, Running, Finished, done, Freed
<1>3. PICK K \in [Frames -> SUBSET Frames] : Chains(K)
  BY Zenon DEF TaskInv
<1>5. Tips' = Tips
  BY Zenon DEF Tips
<1>6. Chains(K)'
  <2>1. \A t \in Tips : frame[t] # "awaiting" /\ frame[t] # "none"
    BY TipStates, Zenon
  <2> QED BY <1>3, <1>5, <2>1, ChainsStay, Zenon
<1> QED BY <1>1, <1>2, <1>6, Zenon DEF TaskInv

LEMMA TaskPause ==
  ASSUME TaskInv, NEW c \in Frames, Pause(c)
  PROVE  TaskInv'
<1>1. /\ cur = c /\ cur' = NoFrame /\ health = "ok" /\ frame' = [frame EXCEPT ![c] = "paused"]
      /\ queued' = IF by = "engine" THEN queued \cup {c} ELSE queued
      /\ UNCHANGED <<held, frees, m_parent, m_detached, lent, calls, resumed, by, health, ended_on,
                     stale>>
  BY Zenon DEF Pause, BodyRuns, promise_vars, past_vars
<1>2. frame \in [Frames -> FrameStates] /\ by \in {"nobody", "engine", "caller"}
  BY Zenon DEF TaskInv, TaskTypeOK
<1>3. /\ frame' \in [Frames -> FrameStates] /\ frame'[c] = "paused"
      /\ \A f \in Frames : f # c => frame'[f] = frame[f]
  BY <1>1, <1>2 DEF FrameStates
<1>4. c \in Frames /\ frame[c] = "running" /\ c # NoFrame /\ c \in Tips /\ c \notin queued
  BY <1>1, Names, Zenon DEF TaskInv, Running, Tips
<1>5. TaskTypeOK' /\ Allocated' /\ (\A f \in Frames : Owned(f))' /\ NoCycle'
  <2>1. \A f \in Frames : frame'[f] = "none" <=> frame[f] = "none"
    BY <1>3, <1>4, Zenon
  <2>2. \A f \in queued' \cup ({resumed', cur'} \ {NoFrame}) : f \in Frames /\ frame'[f] # "none"
    BY <1>1, <1>3, <1>4, NamedFrames, Zenon
  <2> QED BY <1>1, <1>2, <1>3, <2>1, <2>2, NothingFreed, Zenon
<1>6. Running'
  BY <1>1, <1>3, <1>4, Zenon DEF TaskInv, TaskTypeOK, Running
<1>7. Finished'
  <2>1. \A x : Freed(x)' <=> Freed(x)
    BY <1>1, Zenon DEF Freed
  <2>2. \A f \in Frames : frame'[f] = "final" <=> frame[f] = "final"
    BY <1>3, <1>4, Zenon
  <2> QED BY <1>1, <2>1, <2>2, FinishedKept, Zenon DEF TaskInv
<1>8. PICK K \in [Frames -> SUBSET Frames] : Chains(K)
  BY Zenon DEF TaskInv
<1>10. \A t \in Tips' : t \in Tips /\ (t = c => by = "engine")
  BY <1>1, <1>4, Zenon DEF Tips
<1>11. ASSUME NEW t \in Tips'
       PROVE  /\ frame[t] # "awaiting" /\ frame'[t] # "none"
              /\ \A x \in K[t] : x # t => frame'[x] = frame[x]
  <2>1. t \in Tips /\ t \in Frames /\ frame[t] \in {"running", "fresh", "paused"}
    BY <1>10, <1>11, TipStates, Zenon
  <2>2. ASSUME NEW x \in K[t], x # t PROVE frame'[x] = frame[x]
    <3>1. frame[x] = "awaiting" /\ x \in Frames
      BY <1>8, <2>1, <2>2, Zenon DEF Chains, Chain
    <3> QED BY <1>3, <1>4, <3>1, Zenon
  <2> QED BY <1>3, <2>1, <2>2, Zenon
<1>12. ASSUME NEW t \in Tips'
       PROVE  t = cur' /\ by' = "caller" <=> t = cur /\ by = "caller"
  BY <1>1, <1>10, <1>12, TipStates, Names, Zenon
<1>13. ASSUME NEW f \in Frames, Given(f), frame'[f] # "final"
       PROVE  frame[f] # "final" /\ \A t \in Tips : f \in K[t] => t \in Tips'
  <2>1. frame[f] # "final"
    BY <1>3, <1>4, <1>13, Zenon
  <2>2. ASSUME NEW t \in Tips, f \in K[t] PROVE t \in Tips'
    <3>1. CASE t # c
      BY <1>1, <2>2, <3>1, Zenon DEF Tips
    <3>2. CASE t = c
      <4>1. m_parent[f] = NoFrame
        BY <1>13, Zenon DEF TaskInv, Owned
      <4>2. by # "caller"
        BY <1>1, <1>8, <1>13, <2>2, <3>2, <4>1, Zenon DEF Chains, Driven
      <4>3. by = "engine"
        BY <1>1, <1>2, <1>4, <4>2, Zenon DEF TaskInv, Running
      <4> QED BY <1>1, <3>2, <4>3, Zenon DEF Tips
    <3> QED BY <3>1, <3>2, Zenon
  <2> QED BY <2>1, <2>2, Zenon
<1>14. Chains(K)'
  BY <1>1, <1>8, <1>10, <1>11, <1>12, <1>13, ChainsStay, Zenon
<1> QED BY <1>5, <1>6, <1>7, <1>14, Zenon DEF TaskInv

LEMMA TaskExecResume ==
  ASSUME TaskInv, NEW h \in Frames, ExecResume(h)
  PROVE  TaskInv'
<1>1. PICK K \in [Frames -> SUBSET Frames] : Chains(K)
  BY Zenon DEF TaskInv
<1>2. /\ resumed = NoFrame /\ cur = NoFrame /\ health = "ok" /\ h \in queued /\ h \in Tips
      /\ frame[h] \in {"fresh", "paused"} /\ h # NoFrame
  BY Names, Zenon DEF ExecResume, CallerRuns, TaskInv, Running, Tips
<1>3. ~Freed(h) /\ Chain(K, h) /\ Driven(K, h)
  BY <1>1, <1>2, Zenon DEF Chains, Chain
<1>4. /\ cur' = h /\ resumed' = h /\ by' = "engine" /\ frame' = [frame EXCEPT ![h] = "running"]
      /\ queued' = queued \ {h}
      /\ UNCHANGED <<held, frees, m_parent, m_detached, lent, calls, health, ended_on, stale>>
  BY <1>3, Zenon DEF ExecResume, promise_vars
<1>5. frame \in [Frames -> FrameStates]
  BY Zenon DEF TaskInv, TaskTypeOK
<1>6. /\ frame' \in [Frames -> FrameStates] /\ frame'[h] = "running"
      /\ \A f \in Frames : f # h => frame'[f] = frame[f]
  BY <1>4, <1>5 DEF FrameStates
<1>7. TaskTypeOK' /\ Allocated' /\ (\A f \in Frames : Owned(f))' /\ NoCycle'
  <2>1. \A f \in Frames : frame'[f] = "none" <=> frame[f] = "none"
    BY <1>2, <1>6, Zenon
  <2>2. \A f \in queued' \cup ({resumed', cur'} \ {NoFrame}) : f \in Frames /\ frame'[f] # "none"
    BY <1>4, <1>6, NamedFrames, Zenon
  <2> QED BY <1>4, <1>6, <2>1, <2>2, NothingFreed, Zenon
<1>8. Running'
  BY <1>2, <1>4, <1>6, Zenon DEF TaskInv, TaskTypeOK, Running
<1>9. Finished'
  <2>1. by # "engine"
    BY <1>2, Zenon DEF TaskInv, Running
  <2>2. \A f \in Frames : frame'[f] = "final" <=> frame[f] = "final" /\ f # h
    BY <1>2, <1>6, Zenon
  <2>3. \A x : Freed(x)' <=> Freed(x)
    BY <1>4, Zenon DEF Freed
  <2>4. m_parent[h] = NoFrame => held[h] \notin Frames
    BY <1>3, Zenon DEF Chain
  <2> QED BY <1>2, <1>3, <1>4, <2>1, <2>2, <2>3, <2>4, Zenon DEF TaskInv, Finished, done
<1>11. Tips' = Tips
  BY <1>2, <1>4, Zenon DEF Tips
<1>12. ASSUME NEW t \in Tips'
       PROVE  /\ frame[t] # "awaiting" /\ frame'[t] # "none"
              /\ \A x \in K[t] : x # t => frame'[x] = frame[x]
              /\ t = cur' /\ by' = "caller" <=> t = cur /\ by = "caller"
  <2>1. t \in Tips /\ t \in Frames /\ frame[t] \in {"running", "fresh", "paused"}
    BY <1>11, <1>12, TipStates, Zenon
  <2>2. ASSUME NEW x \in K[t], x # t PROVE frame'[x] = frame[x]
    <3>1. frame[x] = "awaiting" /\ x \in Frames
      BY <1>1, <2>1, <2>2, Zenon DEF Chains, Chain
    <3> QED BY <1>2, <1>6, <3>1, Zenon
  <2> QED BY <1>2, <1>4, <1>6, <2>1, <2>2, Names, Zenon
<1>13. Chains(K)'
  BY <1>1, <1>2, <1>4, <1>6, <1>11, <1>12, ChainsStay, Zenon
<1> QED BY <1>7, <1>8, <1>9, <1>13, Zenon DEF TaskInv

\* resume() has returned to the caller, or to an engine that has nothing to clean up.
LEMMA TaskReturns ==
  ASSUME TaskInv, resumed # NoFrame, cur = NoFrame, health = "ok",
         \A h \in Frames : by = "engine" /\ resumed = h /\ frame[h] = "final" /\ m_detached[h] =>
            Freed(h),
         resumed' = NoFrame, by' = "nobody", health' = "corrupt" => stale' # {},
         \A h \in stale' : h \in stale \/ (by = "engine" /\ resumed = h /\ Freed(h)),
         UNCHANGED <<frame, m_parent, m_detached, held, frees, calls, lent, queued, cur, ended_on>>
  PROVE  TaskInv'
<1>1. TaskTypeOK' /\ Allocated' /\ (\A f \in Frames : Owned(f))' /\ NoCycle'
  <2>1. frame \in [Frames -> FrameStates]
    BY Zenon DEF TaskInv, TaskTypeOK
  <2> QED BY <2>1, NothingFreed, NamedFrames, Zenon
<1>2. Running'
  BY Zenon DEF TaskInv, Running
<1>3. Finished'
  <2>1. \A f \in Frames : Freed(f)' <=> Freed(f)
    BY Zenon DEF Freed
  <2>2. ASSUME NEW f \in Frames, m_detached[f], frame[f] = "final", ended_on[f] = f, ~Freed(f)
        PROVE  FALSE
    BY <2>2, Zenon DEF TaskInv, Finished, done
  <2>3. \A f \in Frames : m_detached[f] /\ Freed(f) => ended_on[f] = f
    BY Zenon DEF TaskInv, Finished
  <2>4. ASSUME NEW h \in stale' PROVE h \in Frames /\ m_parent[h] # NoFrame
    <3>1. resumed \in Frames
      BY Zenon DEF TaskInv, TaskTypeOK
    <3> QED BY <2>4, <3>1, Zenon DEF TaskInv, Finished
  <2> QED BY <2>1, <2>2, <2>3, <2>4, Zenon DEF Finished, done
<1>4. PICK K \in [Frames -> SUBSET Frames] : Chains(K)
  BY Zenon DEF TaskInv
<1>5. Tips' = Tips
  BY Zenon DEF Tips
<1>6. \A t \in Tips : /\ frame[t] # "awaiting" /\ frame[t] # "none"
                      /\ (t = cur' /\ by' = "caller" <=> t = cur /\ by = "caller")
  BY TipStates, Names, Zenon
<1>7. Chains(K)'
  BY <1>4, <1>5, <1>6, ChainsStay, Zenon
<1> QED BY <1>1, <1>2, <1>3, <1>7, Zenon DEF TaskInv

-----------------------------------------------------------------------------
(* A root starts: the caller resumes it, or gives it to the engine.        *)

LEMMA NewTip ==
  ASSUME TaskInv, NEW K \in [Frames -> SUBSET Frames], Chains(K),
         NEW f \in Frames, \A t \in Tips : f \notin K[t],
         UNCHANGED <<frees, m_parent>>,
         \A g \in Frames : g # f =>
            held'[g] = held[g] /\ frame'[g] = frame[g] /\ (Given(g)' <=> Given(g)),
         held[f] \notin Frames, held'[f] \notin Frames, m_parent[f] = NoFrame, ~Freed(f),
         frame'[f] # "none", Tips' = Tips \cup {f}, cur = NoFrame,
         Given(f)' <=> ~(f = cur' /\ by' = "caller"),
         \A t \in Tips : ~(t = cur' /\ by' = "caller")
  PROVE  \E L \in [Frames -> SUBSET Frames] : Chains(L)'
<1>1. PICK L : L = [K EXCEPT ![f] = {f}]
  BY Zenon
<1>2. /\ L \in [Frames -> SUBSET Frames] /\ L[f] = {f}
      /\ \A t \in Frames : t # f => L[t] = K[t]
  BY <1>1
<1>3. \A t \in Tips : t \in Frames /\ Chain(K, t) /\ Driven(K, t)
  BY TipStates, Zenon DEF Chains
<1>4. \A t \in Tips : t # f /\ L[t] = K[t]
  <2> SUFFICES ASSUME NEW t \in Tips PROVE t # f
    BY <1>2, <1>3, Zenon
  <2>1. t \in K[t] /\ f \notin K[t]
    BY <1>3, Zenon DEF Chain
  <2> QED BY <2>1, Zenon
<1>5. \A x : Freed(x)' <=> Freed(x)
  BY Zenon DEF Freed
<1>8. ASSUME NEW t \in Tips PROVE Chain(L, t)' /\ Driven(L, t)'
  <2>1. \A x \in K[t] : /\ x \in Frames /\ x # f
                        /\ held'[x] = held[x] /\ frame'[x] = frame[x] /\ (Given(x)' <=> Given(x))
    BY <1>3, <1>8, Zenon
  <2>2. ASSUME NEW x \in K[t], m_parent[x] # NoFrame PROVE frame'[m_parent[x]] = "awaiting"
    <3>1. m_parent[x] \in K[t] /\ frame[m_parent[x]] = "awaiting"
      BY <1>3, <1>8, <2>2, Zenon DEF Chain
    <3> QED BY <2>1, <3>1, Zenon
  <2>3. Chain(L, t)'
    BY <1>3, <1>4, <1>5, <1>8, <2>1, <2>2, ZenonT(30) DEF Chain
  <2>4. Driven(L, t)'
    BY <1>3, <1>4, <1>8, <2>1, Names, Zenon DEF Driven
  <2> QED BY <2>3, <2>4, Zenon
<1>9. Chain(L, f)' /\ Driven(L, f)'
  BY <1>2, <1>5, Zenon DEF Chain, Driven
<1>10. \A t, u \in Tips' : t # u => L[t] \cap L[u] = {}
  <2>1. \A t, u \in Tips : t # u => L[t] \cap L[u] = {}
    BY <1>4, Zenon DEF Chains
  <2>2. \A t \in Tips : L[t] \cap L[f] = {}
    BY <1>2, <1>4, Zenon
  <2> QED BY <2>1, <2>2, Zenon
<1>11. ASSUME NEW g \in Frames, Given(g)', ~done(g)' PROVE \E t \in Tips' : g \in L[t]
  <2>1. CASE g = f
    BY <1>2, <2>1, Zenon
  <2>2. CASE g # f
    <3>1. Given(g) /\ ~done(g)
      BY <1>11, <2>2, Zenon DEF done
    <3>2. PICK t \in Tips : g \in K[t]
      BY <3>1, Zenon DEF Chains
    <3> QED BY <1>4, <3>2, Zenon
  <2> QED BY <2>1, <2>2, Zenon
<1>12. Chains(L)'
  BY <1>8, <1>9, <1>10, <1>11, Zenon DEF Chains
<1> QED BY <1>2, <1>12, Zenon

\* What the caller holds and the engine was not given is in no chain while the caller runs.
LEMMA CallerHolds ==
  ASSUME TaskInv, NEW K \in [Frames -> SUBSET Frames], Chains(K), cur = NoFrame,
         NEW f \in Frames, held[f] = Caller, NEW t \in Tips, f \in K[t]
  PROVE  f \in lent
<1>1. Chain(K, t) /\ Driven(K, t) /\ t # NoFrame
  BY TipStates, Names, Zenon DEF Chains
<1>2. m_parent[f] = NoFrame /\ ~m_detached[f]
  BY Names, Zenon DEF TaskInv, Owned
<1> QED BY <1>1, <1>2, Zenon DEF Driven, Given

LEMMA TaskResume ==
  ASSUME TaskInv, NEW f \in Frames, resume(f)
  PROVE  TaskInv'
<1>1. PICK K \in [Frames -> SUBSET Frames] : Chains(K)
  BY Zenon DEF TaskInv
<1>2. /\ resumed = NoFrame /\ cur = NoFrame /\ health = "ok" /\ held[f] = Caller /\ f \notin lent
      /\ ~Freed(f) /\ frame[f] # "none" /\ frame[f] # "final" /\ f # NoFrame
  BY Names, Zenon DEF resume, CallerRuns, TaskInv, Running, Alive, done
<1>3. /\ cur' = f /\ resumed' = f /\ by' = "caller" /\ frame' = [frame EXCEPT ![f] = "running"]
      /\ UNCHANGED <<held, frees, m_parent, m_detached, lent, calls, queued, ended_on, stale>>
  BY Zenon DEF resume, promise_vars, past_vars
<1>4. health' # "corrupt"
  BY <1>2, Zenon DEF resume, Continue, await_resume
<1>5. frame \in [Frames -> FrameStates]
  BY Zenon DEF TaskInv, TaskTypeOK
<1>6. /\ frame' \in [Frames -> FrameStates] /\ frame'[f] = "running"
      /\ \A g \in Frames : g # f => frame'[g] = frame[g]
  BY <1>3, <1>5 DEF FrameStates
<1>7. TaskTypeOK' /\ Allocated' /\ (\A g \in Frames : Owned(g))' /\ NoCycle'
  <2>1. \A g \in Frames : frame'[g] = "none" <=> frame[g] = "none"
    BY <1>2, <1>6, Zenon
  <2>2. \A g \in queued' \cup ({resumed', cur'} \ {NoFrame}) : g \in Frames /\ frame'[g] # "none"
    BY <1>2, <1>3, <2>1, NamedFrames, Zenon
  <2> QED BY <1>3, <1>6, <2>1, <2>2, NothingFreed, Zenon
<1>8. \A t \in Tips : f \notin K[t]
  BY <1>1, <1>2, CallerHolds, Zenon
<1>15. ASSUME NEW t \in Tips PROVE t # f
  <2>1. t \in K[t] /\ f \notin K[t]
    BY <1>1, <1>8, <1>15, Zenon DEF Chains, Chain
  <2> QED BY <2>1, Zenon
<1>9. f \notin queued
  BY <1>15, Zenon DEF Tips
<1>10. Running'
  BY <1>2, <1>3, <1>6, <1>9, Zenon DEF TaskInv, TaskTypeOK, Running
<1>11. Finished'
  <2>1. by # "engine"
    BY <1>2, Zenon DEF TaskInv, Running
  <2>2. \A x : Freed(x)' <=> Freed(x)
    BY <1>3, Zenon DEF Freed
  <2>3. \A g \in Frames : frame'[g] = "final" <=> frame[g] = "final"
    BY <1>2, <1>6, Zenon
  <2> QED BY <1>3, <1>4, <2>1, <2>2, <2>3, Zenon DEF TaskInv, Finished, done
<1>12. Tips' = Tips \cup {f}
  BY <1>2, <1>3, Zenon DEF Tips
<1>13. m_parent[f] = NoFrame /\ ~Given(f)
  BY <1>2, Names, Zenon DEF TaskInv, Owned, Given
<1>14. \A g : Given(g)' <=> Given(g)
  BY <1>3, Zenon DEF Given
<1>16. \E L \in [Frames -> SUBSET Frames] : Chains(L)'
  BY <1>1, <1>2, <1>3, <1>6, <1>8, <1>12, <1>13, <1>14, <1>15, NewTip, Names, Zenon
<1> QED BY <1>7, <1>10, <1>11, <1>16, Zenon DEF TaskInv

LEMMA TaskSubmit ==
  ASSUME TaskInv, NEW f \in Frames, submit_task(f)
  PROVE  TaskInv'
<1>1. PICK K \in [Frames -> SUBSET Frames] : Chains(K)
  BY Zenon DEF TaskInv
<1>2. /\ resumed = NoFrame /\ cur = NoFrame /\ health = "ok" /\ held[f] = Caller
      /\ frame[f] = "fresh" /\ f \notin queued /\ f # NoFrame
  BY Names, Zenon DEF submit_task, CallerRuns, TaskInv, Running
<1>3. /\ queued' = queued \cup {f}
      /\ UNCHANGED <<frame, frees, m_parent, calls, resumed, by, cur, health, ended_on, stale>>
  BY Zenon DEF submit_task, past_vars
<1>4. /\ m_detached \in [Frames -> BOOLEAN] /\ held \in [Frames -> Places] /\ lent \subseteq Frames
      /\ by = "nobody" /\ Nowhere \in Places
  BY <1>2, Zenon DEF TaskInv, TaskTypeOK, Running, Places
<1>5. /\ m_detached' \in [Frames -> BOOLEAN] /\ held' \in [Frames -> Places]
      /\ lent' \subseteq Frames
      /\ \A g \in Frames : g # f =>
            held'[g] = held[g] /\ (m_detached'[g] <=> m_detached[g]) /\ (g \in lent' <=> g \in lent)
      /\ \/ m_detached'[f] /\ held'[f] = Nowhere
         \/ f \in lent' /\ held'[f] = Caller /\ (m_detached'[f] <=> m_detached[f])
  <2>1. CASE detach(f) /\ UNCHANGED lent
    BY <1>4, <2>1 DEF detach
  <2>2. CASE lent' = lent \cup {f} /\ UNCHANGED <<m_detached, held>>
    BY <1>2, <1>4, <2>2, Zenon
  <2> QED BY <2>1, <2>2, Zenon DEF submit_task
<1>6. \A x : Freed(x)' <=> Freed(x)
  BY <1>3, Zenon DEF Freed
<1>7. ~Freed(f) /\ m_parent[f] = NoFrame /\ ~m_detached[f]
  BY <1>2, Names, Zenon DEF TaskInv, Owned
<1>8. TaskTypeOK'
  BY <1>3, <1>5, Zenon DEF TaskInv, TaskTypeOK
<1>9. Allocated'
  <2>1. ASSUME NEW g \in Frames, frame'[g] = "none" PROVE Unborn(g)'
    <3>1. Unborn(g) /\ g # f
      BY <1>2, <1>3, <2>1, Zenon DEF TaskInv, Allocated
    <3>2. \A x \in Frames : held'[x] # g
      BY <1>5, <3>1, Names, Zenon DEF Unborn
    <3> QED BY <1>3, <1>5, <1>6, <3>1, <3>2, Zenon DEF Unborn
  <2>2. \A g \in Frames : g > calls => frame[g] = "none"
    BY Zenon DEF TaskInv, Allocated
  <2> QED BY <1>3, <2>1, <2>2, Zenon DEF Allocated
<1>10. ASSUME NEW g \in Frames PROVE Owned(g)'
  <2>1. CASE g = f
    BY <1>3, <1>5, <1>6, <1>7, <2>1, Names, Zenon DEF Owned, Given
  <2>2. CASE g # f
    <3>1. Owned(g)
      BY Zenon DEF TaskInv
    <3>2. /\ held'[g] = held[g] /\ m_parent'[g] = m_parent[g] /\ (m_detached'[g] <=> m_detached[g])
          /\ (Given(g)' <=> Given(g)) /\ (Alive(g)' <=> Alive(g))
      BY <1>3, <1>5, <1>6, <2>2, Zenon DEF Given, Alive
    <3> QED BY <1>6, <3>1, <3>2, Zenon DEF Owned
  <2> QED BY <2>1, <2>2, Zenon
<1>11. NoCycle'
  <2>1. \A g \in Frames : held'[g] = held[g] \/ held'[g] \notin Frames
    BY <1>5, Names, ZenonT(30)
  <2> QED BY <2>1, FewerCycles, Zenon DEF TaskInv
<1>12. Running'
  BY <1>2, <1>3, Zenon DEF TaskInv, Running
<1>13. Finished'
  <2>1. \A g \in Frames : m_detached'[g] => m_detached[g] \/ g = f
    BY <1>5, Zenon
  <2> QED BY <1>2, <1>3, <1>4, <1>6, <1>7, <2>1, Zenon DEF TaskInv, Finished, done
<1>14. \A t \in Tips : f \notin K[t]
  <2> SUFFICES ASSUME NEW t \in Tips, f \in K[t] PROVE FALSE
    BY Zenon
  <2>1. t = f
    BY <1>1, <1>2, Zenon DEF Chains, Chain
  <2> QED BY <1>2, <2>1, Zenon DEF Tips
<1>15. Tips' = Tips \cup {f}
  BY <1>2, <1>3, Zenon DEF Tips
<1>16. Given(f)' /\ \A g \in Frames : g # f => (Given(g)' <=> Given(g))
  BY <1>5, Zenon DEF Given
<1>17. held[f] \notin Frames /\ held'[f] \notin Frames
  BY <1>2, <1>5, Names, Zenon
<1>18. by' = "nobody" /\ frame'[f] # "none"
  BY <1>2, <1>3, <1>4, Zenon
<1>19. \E L \in [Frames -> SUBSET Frames] : Chains(L)'
  BY <1>1, <1>2, <1>3, <1>5, <1>7, <1>14, <1>15, <1>16, <1>17, <1>18, NewTip, Zenon
<1> QED BY <1>8, <1>9, <1>10, <1>11, <1>12, <1>13, <1>19, Zenon DEF TaskInv

-----------------------------------------------------------------------------
(* Objects appear, move and go.                                            *)

LEMMA ChainsKept ==
  ASSUME TaskInv, NEW K \in [Frames -> SUBSET Frames], Chains(K),
         UNCHANGED <<m_parent, queued, cur, m_detached, lent>>,
         cur # NoFrame => UNCHANGED by,
         \A t \in Tips : \A x \in K[t] : held'[x] = held[x] /\ frame'[x] = frame[x] /\ ~Freed(x)',
         \A f \in Frames : Given(f) /\ ~done(f)' => ~done(f)
  PROVE  Chains(K)'
<1>1. Tips' = Tips /\ \A t \in Tips : t \in Frames /\ Chain(K, t) /\ Driven(K, t)
  BY TipStates, Zenon DEF Tips, Chains
<1>2. \A f : Given(f)' <=> Given(f)
  BY Zenon DEF Given
<1>3. ASSUME NEW t \in Tips PROVE Chain(K, t)' /\ Driven(K, t)'
  <2>1. \A x \in K[t] : x \in Frames
    BY <1>1, <1>3, Zenon
  <2>2. ASSUME NEW x \in K[t], m_parent[x] # NoFrame PROVE frame'[m_parent[x]] = "awaiting"
    <3>1. m_parent[x] \in K[t] /\ frame[m_parent[x]] = "awaiting"
      BY <1>1, <1>3, <2>2, Zenon DEF Chain
    <3> QED BY <1>3, <3>1, Zenon
  <2>4. Chain(K, t)'
    <3>1. \A x \in K[t] : held'[x] = held[x] /\ frame'[x] = frame[x] /\ ~Freed(x)'
      BY <1>3, Zenon
    <3> QED BY ONLY <1>1, <1>3, <2>2, <3>1, UNCHANGED m_parent, ZenonT(30) DEF Chain
  <2>5. Driven(K, t)'
    BY <1>1, <1>2, <1>3, Names, Zenon DEF Driven
  <2> QED BY <2>4, <2>5, Zenon
<1>5. \A f \in Frames : Given(f)' /\ ~done(f)' => \E t \in Tips' : f \in K[t]
  BY <1>1, <1>2, Zenon DEF Chains
<1>6. \A t, u \in Tips' : t # u => K[t] \cap K[u] = {}
  BY <1>1, Zenon DEF Chains
<1> QED BY <1>1, <1>3, <1>5, <1>6, Zenon DEF Chains

\* The running coroutine lives; what it holds is in no chain.
LEMMA CurrentLives ==
  ASSUME TaskInv, NEW c \in Frames, cur = c
  PROVE  c \in Tips /\ ~Freed(c) /\ frame[c] = "running"
<1>1. PICK K \in [Frames -> SUBSET Frames] : Chains(K)
  BY Zenon DEF TaskInv
<1>2. c \in Tips /\ c # NoFrame
  BY Names, Zenon DEF Tips
<1> QED BY <1>1, <1>2, Zenon DEF TaskInv, Running, Chains, Chain

LEMMA LocalOutside ==
  ASSUME TaskInv, NEW K \in [Frames -> SUBSET Frames], Chains(K),
         NEW c \in Frames, cur = c, NEW f \in Frames, held[f] = c, NEW t \in Tips
  PROVE  f \notin K[t]
<1> SUFFICES ASSUME f \in K[t] PROVE FALSE
  BY Zenon
<1>1. Chain(K, t) /\ frame[c] = "running"
  BY CurrentLives, Zenon DEF Chains
<1>2. m_parent[f] = c
  BY <1>1, Zenon DEF Chain
<1>3. frame[c] = "awaiting"
  BY <1>1, <1>2, Names, Zenon DEF Chain
<1> QED BY <1>1, <1>3, Zenon

LEMMA TaskCall ==
  ASSUME TaskInv, NEW c \in Frames \cup {Caller}, NEW k \in Kinds, get_return_object(c, k)
  PROVE  TaskInv'
<1>1. PICK n : n = calls + 1
  BY Zenon
<1>2. calls \in 0 .. MaxFrames /\ calls < MaxFrames /\ calls' = calls + 1 /\ MaxFrames \in Nat
  BY TaskAssumption DEF TaskInv, TaskTypeOK, get_return_object
<1>3. /\ n \in Frames /\ n > calls /\ calls' \in 0 .. MaxFrames
      /\ \A f \in Frames : f > calls' => f > calls /\ f # n
  BY <1>1, <1>2 DEF Frames
<1>4. /\ frame' = [frame EXCEPT ![n] = "fresh"] /\ held' = [held EXCEPT ![n] = c]
      /\ UNCHANGED <<m_parent, m_detached, frees, lent, queued, resumed, by, cur, health, ended_on,
                     stale>>
      /\ health = "ok"
  BY <1>1, Zenon DEF get_return_object, run_vars, past_vars, Acts, CallerRuns, BodyRuns
<1>5. frame[n] = "none" /\ Unborn(n)
  BY <1>3, Zenon DEF TaskInv, Allocated
<1>6. frame \in [Frames -> FrameStates] /\ held \in [Frames -> Places] /\ c \in Places
  BY Zenon DEF TaskInv, TaskTypeOK, Places
<1>7. /\ frame' \in [Frames -> FrameStates] /\ held' \in [Frames -> Places]
      /\ frame'[n] = "fresh" /\ held'[n] = c
      /\ \A f \in Frames : f # n => frame'[f] = frame[f] /\ held'[f] = held[f]
  BY <1>3, <1>4, <1>6 DEF FrameStates
<1>8. \A x : Freed(x)' <=> Freed(x)
  BY <1>4, Zenon DEF Freed
<1>9. c \in Frames => ~Freed(c) /\ frame[c] = "running" /\ c # n
  <2>1. c \in Frames => cur = c
    BY Names, Zenon DEF get_return_object, Acts
  <2> QED BY <1>5, <2>1, CurrentLives, Zenon
<1>10. TaskTypeOK'
  BY <1>3, <1>4, <1>7, Zenon DEF TaskInv, TaskTypeOK
<1>11. Allocated'
  <2>1. \A f \in Frames : f > calls' => frame'[f] = "none"
    BY <1>3, <1>7, Zenon DEF TaskInv, Allocated
  <2>2. ASSUME NEW f \in Frames, frame'[f] = "none" PROVE Unborn(f)'
    <3>1. Unborn(f) /\ f # n /\ frame[f] = "none"
      BY <1>7, <2>2, Zenon DEF TaskInv, Allocated
    <3>2. \A g \in Frames : held'[g] # f
      BY <1>7, <1>9, <3>1, Names, Zenon DEF Unborn
    <3> QED BY <1>4, <1>7, <1>8, <3>1, <3>2, Zenon DEF Unborn
  <2> QED BY <2>1, <2>2, Zenon DEF Allocated
<1>12. ASSUME NEW f \in Frames PROVE Owned(f)'
  <2>1. CASE f = n
    BY <1>4, <1>5, <1>7, <1>8, <1>9, <2>1, Names, Zenon DEF Owned, Unborn, Given
  <2>2. CASE f # n
    <3>1. Owned(f) /\ held'[f] = held[f] /\ frame'[f] = frame[f]
      BY <1>7, <2>2, Zenon DEF TaskInv
    <3> QED BY <1>4, <1>8, <3>1, Zenon DEF Owned, Given, Alive
  <2> QED BY <2>1, <2>2, Zenon
<1>13. \A g \in Frames : held[g] # n /\ held'[g] # n
  BY <1>5, <1>7, <1>9, <1>3, Names, Zenon DEF Unborn
<1>14. NoCycle'
  <2> SUFFICES ASSUME NEW x \in Frames
               PROVE  \E T \in SUBSET Frames :
                        x \notin T /\ Closed(T)' /\ \A f \in Frames : held'[f] = x => f \in T
    BY Zenon DEF NoCycle
  <2>1. CASE x = n
    <3>1. Closed({})' /\ {} \in SUBSET Frames
      BY Zenon DEF Closed
    <3> QED BY <1>13, <2>1, <3>1, Zenon
  <2>2. CASE x # n
    <3>1. PICK T \in SUBSET Frames :
            x \notin T /\ Closed(T) /\ \A f \in Frames : held[f] = x => f \in T
      BY Zenon DEF TaskInv, NoCycle
    <3>2. PICK V : V = T \cup {n}
      BY Zenon
    <3>3. V \in SUBSET Frames /\ x \notin V
      BY <1>3, <2>2, <3>1, <3>2, Zenon
    <3>4. Closed(V)'
      BY <1>7, <1>13, <3>1, <3>2, Zenon DEF Closed
    <3>5. \A f \in Frames : held'[f] = x => f \in V
      BY <1>7, <3>1, <3>2, Zenon
    <3> QED BY <3>3, <3>4, <3>5, Zenon
  <2> QED BY <2>1, <2>2, Zenon
<1>15. Running'
  BY <1>4, <1>5, <1>7, NamedFrames, Zenon DEF TaskInv, TaskTypeOK, Running
<1>16. Finished'
  <2>1. \A h \in Frames : resumed = h => held'[h] = held[h]
    BY <1>5, <1>7, Zenon DEF Unborn
  <2>2. \A f \in Frames : frame'[f] = "final" <=> frame[f] = "final"
    BY <1>5, <1>7, Zenon
  <2> QED BY <1>4, <1>8, <2>1, <2>2, FinishedKept, Zenon DEF TaskInv
<1>17. PICK K \in [Frames -> SUBSET Frames] : Chains(K)
  BY Zenon DEF TaskInv
<1>18. Chains(K)'
  <2>1. ASSUME NEW t \in Tips, NEW x \in K[t]
        PROVE  held'[x] = held[x] /\ frame'[x] = frame[x] /\ ~Freed(x)'
    <3>1. x \in Frames /\ frame[x] # "none" /\ ~Freed(x)
      BY <1>17, <2>1, TipStates, Zenon DEF Chains, Chain
    <3> QED BY <1>5, <1>7, <1>8, <3>1, Zenon
  <2>2. \A f \in Frames : Given(f) /\ ~done(f)' => ~done(f)
    BY <1>5, <1>7, Zenon DEF done
  <2> QED BY <1>4, <1>17, <2>1, <2>2, ChainsKept, Zenon
<1> QED BY <1>10, <1>11, <1>12, <1>14, <1>15, <1>16, <1>18, Zenon DEF TaskInv

LEMMA TaskMove ==
  ASSUME TaskInv, NEW c \in Frames \cup {Caller}, NEW f \in Frames, NEW g \in Frames, Move(c, f, g)
  PROVE  TaskInv'
<1>1. /\ f # g /\ held[f] = c /\ held[g] = c /\ f \notin lent /\ health = "ok"
      /\ ~Freed(f) /\ ~Freed(g) /\ frame[f] # "none" /\ frame[g] = "fresh"
      /\ c \in Frames => cur = c
      /\ c = Caller => resumed = NoFrame /\ cur = NoFrame
  BY Names, Zenon DEF Move, Acts, Alive, CallerRuns, BodyRuns, TaskInv, Running
<1>2. /\ held' = [held EXCEPT ![f] = g]
      /\ UNCHANGED <<frame, m_parent, m_detached, frees, calls, lent, queued, resumed, by, cur,
                     health, ended_on, stale>>
  BY Zenon DEF Move, promise_vars, run_vars, past_vars
<1>3. held \in [Frames -> Places] /\ g \in Places
  BY Zenon DEF TaskInv, TaskTypeOK, Places
<1>4. /\ held' \in [Frames -> Places] /\ held'[f] = g
      /\ \A x \in Frames : x # f => held'[x] = held[x]
  BY <1>2, <1>3
<1>5. \A x : Freed(x)' <=> Freed(x)
  BY <1>2, Zenon DEF Freed
<1>6. c \in Frames => ~Freed(c) /\ frame[c] = "running"
  BY <1>1, CurrentLives, Zenon
<1>7. TaskTypeOK'
  BY <1>2, <1>4, Zenon DEF TaskInv, TaskTypeOK
<1>8. Allocated'
  <2>1. ASSUME NEW x \in Frames, frame[x] = "none" PROVE Unborn(x)'
    <3>1. Unborn(x) /\ x # f /\ x # g
      BY <1>1, <2>1, Zenon DEF TaskInv, Allocated
    <3>2. \A y \in Frames : held'[y] # x
      BY <1>4, <3>1, Zenon DEF Unborn
    <3> QED BY <1>2, <1>4, <1>5, <3>1, <3>2, Zenon DEF Unborn
  <2> QED BY <1>2, <2>1, Zenon DEF TaskInv, Allocated
<1>9. ASSUME NEW x \in Frames PROVE Owned(x)'
  <2>1. CASE x = f
    <3>1. ~Given(f)
      BY <1>1, Names, Zenon DEF TaskInv, Owned, Given
    <3> QED BY <1>1, <1>2, <1>4, <1>5, <2>1, <3>1, Names, Zenon DEF Owned, Given
  <2>2. CASE x # f
    <3>1. Owned(x) /\ held'[x] = held[x]
      BY <1>4, <2>2, Zenon DEF TaskInv
    <3> QED BY <1>2, <1>5, <3>1, Zenon DEF Owned, Given, Alive
  <2> QED BY <2>1, <2>2, Zenon
<1>10. NoCycle'
  <2> SUFFICES ASSUME NEW x \in Frames
               PROVE  \E T \in SUBSET Frames :
                        x \notin T /\ Closed(T)' /\ \A y \in Frames : held'[y] = x => y \in T
    BY Zenon DEF NoCycle
  <2>1. NoCycle
    BY Zenon DEF TaskInv
  <2>2. CASE x # g
    <3>1. PICK S : S = {y \in Frames : held[y] = x}
      BY Zenon
    <3>2. PICK W : W = WithLocals(S)
      BY Zenon
    <3>3. S \in SUBSET Frames /\ \A y \in Frames : y \in S <=> held[y] = x
      BY <3>1, Zenon
    <3>4. W \in SUBSET Frames /\ S \subseteq W /\ Closed(W) /\ x \notin W
      BY <2>1, <3>2, <3>3, LocalsClosed, CycleFree, Zenon
    <3>5. ASSUME g \in W PROVE f \in W
      <4>1. CASE g \in S
        BY <1>1, <3>3, <3>4, <4>1, Zenon
      <4>2. CASE g \notin S
        <5>1. held[g] \in W
          BY <3>2, <3>3, <3>5, <4>2, LocalsInside, Zenon
        <5> QED BY <1>1, <3>4, <5>1, Zenon DEF Closed
      <4> QED BY <4>1, <4>2, Zenon
    <3>6. Closed(W)'
      BY <1>4, <3>4, <3>5, Zenon DEF Closed
    <3>7. \A y \in Frames : held'[y] = x => y \in W
      BY <1>4, <2>2, <3>3, <3>4, Zenon
    <3> QED BY <3>4, <3>6, <3>7, Zenon
  <2>3. CASE x = g
    <3>1. PICK S : S = {y \in Frames : held[y] = g \/ y = f}
      BY Zenon
    <3>2. PICK W : W = WithLocals(S)
      BY Zenon
    <3>3. S \in SUBSET Frames /\ \A y \in Frames : y \in S <=> held[y] = g \/ y = f
      BY <3>1, Zenon
    <3>4. W \in SUBSET Frames /\ S \subseteq W /\ Closed(W)
      BY <3>2, <3>3, LocalsClosed, Zenon
    <3>7. c \notin W
      <4>1. CASE c = Caller
        BY <3>4, <4>1, Names, Zenon
      <4>2. CASE c \in Frames
        <5>1. PICK T \in SUBSET Frames :
                c \notin T /\ Closed(T) /\ \A y \in Frames : held[y] = c => y \in T
          BY <2>1, <4>2, Zenon DEF NoCycle
        <5>2. S \subseteq T
          BY <1>1, <3>3, <5>1, Zenon DEF Closed
        <5> QED BY <3>2, <5>1, <5>2, LocalsLeast, Zenon
      <4> QED BY <4>1, <4>2, Zenon
    <3>8. g \notin S
      BY <1>1, <1>6, <3>3, Names, Zenon
    <3>9. g \notin W
      BY <1>1, <3>2, <3>3, <3>7, <3>8, LocalsInside, Zenon
    <3>10. Closed(W)'
      BY <1>4, <3>3, <3>4, Zenon DEF Closed
    <3>11. \A y \in Frames : held'[y] = g => y \in W
      BY <1>4, <3>3, <3>4, Zenon
    <3> QED BY <2>3, <3>4, <3>9, <3>10, <3>11, Zenon
  <2> QED BY <2>2, <2>3, Zenon
<1>11. Running'
  BY <1>2, Zenon DEF TaskInv, Running
<1>12. Finished'
  <2>1. ASSUME NEW h \in Frames, by = "engine", resumed = h, m_parent[h] = NoFrame
        PROVE  held'[h] = held[h]
    <3>1. held[h] \notin Frames /\ c \in Frames
      BY <1>1, <2>1, Names, Zenon DEF TaskInv, Finished
    <3> QED BY <1>1, <1>4, <3>1, Zenon
  <2> QED BY <1>1, <1>2, <1>5, <2>1, FinishedKept, Zenon DEF TaskInv
<1>13. PICK K \in [Frames -> SUBSET Frames] : Chains(K)
  BY Zenon DEF TaskInv
<1>14. Chains(K)'
  <2>1. ASSUME NEW t \in Tips, NEW x \in K[t]
        PROVE  held'[x] = held[x] /\ frame'[x] = frame[x] /\ ~Freed(x)'
    <3>1. x \in Frames /\ ~Freed(x)
      BY <1>13, <2>1, TipStates, Zenon DEF Chains, Chain
    <3>2. f \notin K[t]
      <4>1. CASE c \in Frames
        BY <1>1, <1>13, <2>1, <4>1, LocalOutside, Zenon
      <4>2. CASE c = Caller
        BY <1>1, <1>13, <2>1, <4>2, CallerHolds, Zenon
      <4> QED BY <4>1, <4>2, Zenon
    <3>3. x # f
      BY <2>1, <3>2, Zenon
    <3> QED BY <1>2, <1>4, <1>5, <3>1, <3>3, Zenon
  <2>2. \A x \in Frames : Given(x) /\ ~done(x)' => ~done(x)
    BY <1>2, Zenon DEF done
  <2> QED BY <1>2, <1>13, <2>1, <2>2, ChainsKept, Zenon
<1> QED BY <1>7, <1>8, <1>9, <1>10, <1>11, <1>12, <1>14, Zenon DEF TaskInv

\* What a destruction does to the owners: S dies with all it holds, and no object names S.
LEMMA OwnersAfter ==
  ASSUME TaskInv, NEW S \in SUBSET Frames, \A f \in S : ~Freed(f) /\ frame[f] # "none",
         frees' = Freeing(S), held' \in [Frames -> Places],
         \A f \in Frames : held'[f] = IF f \in S THEN Nowhere ELSE held[f],
         \A f \in Frames : frame'[f] = "none" <=> frame[f] = "none",
         \A f \in Frames : Given(f)' <=> Given(f),
         UNCHANGED <<m_parent, m_detached>>
  PROVE  /\ frees' \in [Frames -> {0, 1}]
         /\ \A f \in Frames : Freed(f)' <=> Freed(f) \/ f \in WithLocals(S)
         /\ (\A f \in Frames : Owned(f))' /\ NoCycle'
         /\ \A f \in Frames : held[f] \notin Frames /\ f \notin S =>
               held'[f] = held[f] /\ (Freed(f)' <=> Freed(f))
<1>1. \A f \in Frames : Owned(f)
  BY Zenon DEF TaskInv
<1>2. PICK W : W = WithLocals(S)
  BY Zenon
<1>3. \A f \in W : f \in Frames /\ ~Freed(f)
  BY <1>1, <1>2, LocalsLive, Zenon
<1>4. frees' \in [Frames -> {0, 1}] /\ \A f \in Frames : Freed(f)' <=> Freed(f) \/ f \in W
  BY <1>2, <1>3, FreeingOnce, Zenon DEF TaskInv, TaskTypeOK
<1>5. W \in SUBSET Frames /\ S \subseteq W /\ Closed(W)
  BY <1>2, LocalsClosed, Zenon
<1>6. \A f \in W : f \in S \/ held[f] \in W
  BY <1>2, LocalsInside, Zenon
<1>7. ASSUME NEW f \in Frames PROVE Owned(f)'
  <2>1. Owned(f)
    BY <1>1, Zenon
  <2>2. CASE f \in S
    <3>1. Freed(f)' /\ held'[f] = Nowhere
      BY <1>4, <1>5, <2>2, Zenon
    <3>2. Given(f) => m_parent[f] = NoFrame
      BY <2>1, Zenon DEF Owned
    <3> QED BY <3>1, <3>2, Names, Zenon DEF Owned, Alive
  <2>3. CASE f \notin S
    <3>1. held'[f] = held[f]
      BY <2>3, Zenon
    <3>2. \A g \in Frames : held[f] = g => (f \in W <=> g \in W)
      BY <1>5, <1>6, <2>3, Zenon DEF Closed
    <3>3. held[f] \notin Frames => f \notin W
      BY <1>5, <1>6, <2>3, Zenon
    <3>4. Freed(f)' <=> Freed(f) \/ f \in W
      BY <1>4, Zenon
    <3>5. \A g \in Frames : held'[f] = g => (Freed(f)' <=> Freed(g)')
      BY <1>4, <2>1, <3>1, <3>2, <3>4, Zenon DEF Owned
    <3>6. held'[f] = Caller => ~Freed(f)' /\ m_parent'[f] = NoFrame
      BY <2>1, <3>1, <3>3, <3>4, Names, Zenon DEF Owned
    <3>7. Alive(f)' => Alive(f)
      BY <3>4, Zenon DEF Alive
    <3> QED BY <2>1, <3>1, <3>5, <3>6, <3>7, Zenon DEF Owned
  <2> QED BY <2>2, <2>3, Zenon
<1>8. NoCycle'
  BY FewerCycles, Names, Zenon DEF TaskInv
<1>9. \A f \in Frames : held[f] \notin Frames /\ f \notin S =>
        held'[f] = held[f] /\ (Freed(f)' <=> Freed(f))
  BY <1>4, <1>5, <1>6, Zenon
<1> QED BY <1>2, <1>4, <1>7, <1>8, <1>9, Zenon

LEMMA TaskDestroy ==
  ASSUME TaskInv, NEW c \in Frames \cup {Caller}, NEW f \in Frames, destroy(c, f)
  PROVE  TaskInv'
<1>1. /\ held[f] = c /\ frame[f] # "none" /\ (f \in lent => queued = {}) /\ health = "ok"
      /\ c \in Frames => cur = c
      /\ c = Caller => resumed = NoFrame /\ cur = NoFrame /\ by # "engine"
  BY Names, Zenon DEF destroy, Acts, CallerRuns, BodyRuns, TaskInv, Running
<1>2. /\ frees' = Freeing({f}) /\ held' = [held EXCEPT ![f] = Nowhere]
      /\ UNCHANGED <<frame, m_parent, m_detached, calls, lent, queued, resumed, by, cur, health,
                     ended_on, stale>>
  BY Zenon DEF destroy, promise_vars, run_vars, past_vars
<1>3. PICK S : S = {f}
  BY Zenon
<1>4. PICK W : W = WithLocals(S)
  BY Zenon
<1>5. S \in SUBSET Frames /\ \A x : x \in S <=> x = f
  BY <1>3, Zenon
<1>6. held \in [Frames -> Places] /\ Nowhere \in Places
  BY Zenon DEF TaskInv, TaskTypeOK, Places
<1>7. /\ held' \in [Frames -> Places]
      /\ \A x \in Frames : held'[x] = IF x = f THEN Nowhere ELSE held[x]
  BY <1>2, <1>6
<1>8. ~Freed(f)
  <2>1. CASE c \in Frames
    BY <1>1, <2>1, CurrentLives, Zenon DEF TaskInv, Owned
  <2>2. CASE c = Caller
    BY <1>1, <2>2, Zenon DEF TaskInv, Owned
  <2> QED BY <2>1, <2>2, Zenon
<1>9. /\ frees' \in [Frames -> {0, 1}]
      /\ \A x \in Frames : Freed(x)' <=> Freed(x) \/ x \in W
      /\ (\A x \in Frames : Owned(x))' /\ NoCycle'
      /\ \A x \in Frames : held[x] \notin Frames /\ x \notin S =>
            held'[x] = held[x] /\ (Freed(x)' <=> Freed(x))
  <2>1. frees' = Freeing(S)
    BY <1>2, <1>3, Zenon
  <2>2. \A x \in Frames : held'[x] = IF x \in S THEN Nowhere ELSE held[x]
    BY <1>5, <1>7, Zenon
  <2>3. \A x \in S : ~Freed(x) /\ frame[x] # "none"
    BY <1>1, <1>5, <1>8, Zenon
  <2>4. \A x \in Frames : Given(x)' <=> Given(x)
    BY <1>2, Zenon DEF Given
  <2> QED BY <1>2, <1>4, <1>5, <1>7, <2>1, <2>2, <2>3, <2>4, OwnersAfter, Zenon
<1>10. TaskTypeOK'
  BY <1>2, <1>7, <1>9, Zenon DEF TaskInv, TaskTypeOK
<1>11. Allocated'
  <2>1. ASSUME NEW x \in Frames, frame[x] = "none" PROVE Unborn(x)'
    <3>1. Unborn(x) /\ x # f
      BY <1>1, <2>1, Zenon DEF TaskInv, Allocated
    <3>2. held'[x] = held[x] /\ (Freed(x)' <=> Freed(x))
      BY <1>5, <1>9, <3>1, Names, Zenon DEF Unborn
    <3>3. \A y \in Frames : held'[y] # x
      BY <1>7, <3>1, Names, Zenon DEF Unborn
    <3> QED BY <1>2, <3>1, <3>2, <3>3, Zenon DEF Unborn
  <2> QED BY <1>2, <2>1, Zenon DEF TaskInv, Allocated
<1>12. Running'
  BY <1>2, Zenon DEF TaskInv, Running
<1>13. Finished'
  <2>1. by = "engine" => cur = c /\ c \in Frames
    BY <1>1, Zenon
  <2>2. ASSUME NEW x \in Frames, m_detached[x] PROVE Freed(x)' <=> Freed(x)
    <3>1. held[x] = Nowhere
      BY <2>2, Zenon DEF TaskInv, Owned
    <3>2. x \notin S
      BY <1>1, <1>5, <3>1, Names, Zenon
    <3> QED BY <1>9, <3>1, <3>2, Names, Zenon
  <2>3. \A h \in Frames : by = "engine" /\ resumed = h /\ m_parent[h] = NoFrame =>
          held'[h] = held[h] /\ (Freed(h)' <=> Freed(h))
    BY <1>1, <1>5, <1>9, <2>1, Zenon DEF TaskInv, Finished
  <2> QED BY <1>1, <1>2, <2>2, <2>3, FinishedKept, Zenon DEF TaskInv
<1>14. PICK K \in [Frames -> SUBSET Frames] : Chains(K)
  BY Zenon DEF TaskInv
<1>15. ASSUME NEW t \in Tips PROVE f \notin K[t]
  <2>1. CASE c \in Frames
    BY <1>1, <1>14, <1>15, <2>1, LocalOutside, Zenon
  <2>2. CASE c = Caller
    <3> SUFFICES ASSUME f \in K[t] PROVE FALSE
      BY Zenon
    <3>1. f \in lent
      BY <1>1, <1>14, <1>15, <2>2, CallerHolds, Zenon
    <3> QED BY <1>1, <1>15, <2>2, <3>1, Zenon DEF Tips
  <2> QED BY <2>1, <2>2, Zenon
<1>16. Chains(K)'
  <2>1. ASSUME NEW t \in Tips, NEW x \in K[t]
        PROVE  held'[x] = held[x] /\ frame'[x] = frame[x] /\ ~Freed(x)'
    <3>0. f \notin K[t]
      BY <1>15, <2>1, Zenon
    <3>1. t \in Frames /\ Chain(K, t) /\ x \in Frames /\ ~Freed(x) /\ x # f
      BY <1>14, <2>1, <3>0, TipStates, Zenon DEF Chains, Chain
    <3>2. \A y \in S : y \notin K[t]
      BY <1>5, <1>15, <2>1, Zenon
    <3>3. x \notin W
      BY <1>4, <1>5, <2>1, <3>1, <3>2, ChainSpared, Zenon DEF TaskInv
    <3> QED BY <1>2, <1>7, <1>9, <3>1, <3>3, Zenon
  <2>2. \A x \in Frames : Given(x) /\ ~done(x)' => ~done(x)
    BY <1>2, Zenon DEF done
  <2> QED BY <1>2, <1>14, <2>1, <2>2, ChainsKept, Zenon
<1> QED BY <1>9, <1>10, <1>11, <1>12, <1>13, <1>16, Zenon DEF TaskInv

LEMMA TaskExecDone ==
  ASSUME TaskInv, ExecDone
  PROVE  TaskInv'
<1>1. resumed # NoFrame /\ by = "engine" /\ cur = NoFrame /\ health = "ok"
  BY Zenon DEF ExecDone
<1>2. PICK h \in Frames : resumed = h
  BY <1>1, Zenon DEF TaskInv, TaskTypeOK
<1>3. /\ resumed' = NoFrame /\ by' = "nobody"
      /\ UNCHANGED <<frame, m_parent, m_detached, held, calls, lent, queued, cur, ended_on>>
  BY Zenon DEF ExecDone, promise_vars
<1>4. CASE Freed(h)
  <2>1. UNCHANGED frees /\ stale' = stale \cup {h}
    BY <1>2, <1>4, Zenon DEF ExecDone
  <2> QED BY <1>1, <1>2, <1>3, <1>4, <2>1, TaskReturns, Zenon
<1>5. CASE ~Freed(h) /\ ~(frame[h] = "final" /\ m_detached[h])
  <2>1. UNCHANGED <<frees, health, stale>>
    BY <1>2, <1>5, Zenon DEF ExecDone, clean, done
  <2> QED BY <1>1, <1>2, <1>3, <1>5, <2>1, TaskReturns, Zenon
<1>6. CASE ~Freed(h) /\ frame[h] = "final" /\ m_detached[h]
  <2>1. frees' = Freeing({h}) /\ UNCHANGED <<health, stale>>
    BY <1>2, <1>6, Zenon DEF ExecDone, clean, done
  <2>2. PICK S : S = {h}
    BY Zenon
  <2>3. PICK W : W = WithLocals(S)
    BY Zenon
  <2>4. S \in SUBSET Frames /\ (\A x : x \in S <=> x = h) /\ held[h] = Nowhere
    BY <1>6, <2>2, Zenon DEF TaskInv, Owned
  <2>5. /\ frees' \in [Frames -> {0, 1}]
        /\ \A x \in Frames : Freed(x)' <=> Freed(x) \/ x \in W
        /\ (\A x \in Frames : Owned(x))' /\ NoCycle'
        /\ \A x \in Frames : held[x] \notin Frames /\ x \notin S =>
              held'[x] = held[x] /\ (Freed(x)' <=> Freed(x))
    <3>1. frees' = Freeing(S) /\ held' \in [Frames -> Places]
      BY <1>3, <2>1, <2>2, Zenon DEF TaskInv, TaskTypeOK
    <3>2. \A x \in Frames : held'[x] = IF x \in S THEN Nowhere ELSE held[x]
      BY <1>3, <2>4, Zenon
    <3>3. \A x \in S : ~Freed(x) /\ frame[x] # "none"
      BY <1>6, <2>4, Zenon
    <3>4. \A x \in Frames : Given(x)' <=> Given(x)
      BY <1>3, Zenon DEF Given
    <3> QED BY <1>3, <2>3, <2>4, <3>1, <3>2, <3>3, <3>4, OwnersAfter, Zenon
  <2>6. TaskTypeOK'
    BY <1>3, <2>5, Zenon DEF TaskInv, TaskTypeOK
  <2>7. Allocated'
    <3>1. ASSUME NEW x \in Frames, frame[x] = "none" PROVE Unborn(x)'
      <4>1. Unborn(x) /\ x # h
        BY <1>6, <3>1, Zenon DEF TaskInv, Allocated
      <4>2. Freed(x)' <=> Freed(x)
        BY <2>4, <2>5, <4>1, Names, Zenon DEF Unborn
      <4> QED BY <1>3, <4>1, <4>2, Names, Zenon DEF Unborn
    <3> QED BY <1>3, <3>1, Zenon DEF TaskInv, Allocated
  <2>8. Running'
    BY <1>1, <1>3, Zenon DEF TaskInv, Running
  <2>9. W \in SUBSET Frames /\ S \subseteq W /\ Closed(W)
    BY <2>3, <2>4, LocalsClosed, Zenon
  <2>10. Finished'
    <3>1. Freed(h)' /\ ended_on[h] = h
      BY <1>1, <1>2, <1>6, <2>4, <2>5, <2>9, Zenon DEF TaskInv, Finished, done
    <3>2. \A x \in Frames : m_detached[x] /\ x # h => (Freed(x)' <=> Freed(x))
      <4>1. \A x \in Frames : m_detached[x] => held[x] = Nowhere
        BY Zenon DEF TaskInv, Owned
      <4> QED BY <2>4, <2>5, <4>1, Names, Zenon
    <3>3. health' # "corrupt"
      BY <1>1, <2>1, Zenon
    <3> QED BY <1>2, <1>3, <2>1, <3>1, <3>2, <3>3, Zenon DEF TaskInv, Finished, done
  <2>11. PICK K \in [Frames -> SUBSET Frames] : Chains(K)
    BY Zenon DEF TaskInv
  <2>12. Chains(K)'
    <3>1. ASSUME NEW t \in Tips, NEW x \in K[t]
          PROVE  held'[x] = held[x] /\ frame'[x] = frame[x] /\ ~Freed(x)'
      <4>1. t \in Frames /\ Chain(K, t) /\ x \in Frames /\ ~Freed(x)
        BY <2>11, <3>1, TipStates, Zenon DEF Chains, Chain
      <4>2. ASSUME NEW y \in S, y \in K[t] PROVE FALSE
        <5>1. frame[y] \in {"awaiting", "running", "fresh", "paused"}
          BY <3>1, <4>1, <4>2, TipStates, Zenon DEF Chain
        <5> QED BY <1>6, <2>4, <5>1, Zenon
      <4>3. x \notin W
        BY <2>3, <2>4, <2>11, <3>1, <4>1, <4>2, ChainSpared, Zenon DEF TaskInv
      <4> QED BY <1>3, <2>5, <4>1, <4>3, Zenon
    <3>2. \A x \in Frames : Given(x) /\ ~done(x)' => ~done(x)
      BY <1>3, Zenon DEF done
    <3> QED BY <1>1, <1>3, <2>11, <3>1, <3>2, ChainsKept, Zenon
  <2> QED BY <2>5, <2>6, <2>7, <2>8, <2>10, <2>12, Zenon DEF TaskInv
<1> QED BY <1>4, <1>5, <1>6, Zenon

-----------------------------------------------------------------------------
(* The chain grows by a co_await and shrinks when its tip finishes.        *)

\* A chain that the step does not touch.
LEMMA ChainApart ==
  ASSUME NEW K, NEW L, NEW t, L[t] = K[t], Chain(K, t),
         \A x \in K[t] : /\ held'[x] = held[x] /\ frame'[x] = frame[x] /\ ~Freed(x)'
                         /\ m_parent'[x] = m_parent[x]
  PROVE  Chain(L, t)'
<1>1. ASSUME NEW x \in K[t], m_parent[x] # NoFrame PROVE frame'[m_parent[x]] = "awaiting"
  <2>1. m_parent[x] \in K[t] /\ frame[m_parent[x]] = "awaiting"
    BY <1>1, Zenon DEF Chain
  <2> QED BY <2>1, Zenon
<1> QED BY <1>1, Zenon DEF Chain

\* The chain of the running coroutine shares no frame with that of a queued one.
LEMMA QueuedApart ==
  ASSUME TaskInv, NEW K \in [Frames -> SUBSET Frames], Chains(K),
         NEW c \in Frames, cur = c, NEW t \in queued
  PROVE  /\ t \in Tips /\ t \in Frames /\ t # c /\ Chain(K, t)
         /\ \A x \in K[t] : x \in Frames /\ x \notin K[c] /\ (m_parent[x] = NoFrame => Given(x))
<1>1. t \in Tips /\ c \in Tips /\ t \in Frames /\ t # c
  BY CurrentLives, TipStates, Zenon DEF TaskInv, Running, Tips
<1>2. Chain(K, t) /\ Driven(K, t) /\ K[t] \cap K[c] = {}
  BY <1>1, Zenon DEF Chains
<1>3. \A x \in K[t] : x \in Frames /\ x \notin K[c]
  BY <1>1, <1>2, Zenon
<1>4. \A x \in K[t] : m_parent[x] = NoFrame => Given(x)
  BY <1>1, <1>2, Zenon DEF Driven
<1> QED BY <1>1, <1>2, <1>3, <1>4, Zenon

LEMMA TaskAwaits ==
  ASSUME TaskInv, NEW p \in Frames, NEW f \in Frames, cur = p, held[f] = p, Alive(f),
         frame[f] # "final", m_parent' = [m_parent EXCEPT ![f] = p], cur' = f,
         frame' = [frame EXCEPT ![p] = "awaiting", ![f] = "running"], health' # "corrupt",
         UNCHANGED <<m_detached, held, frees, calls, lent, queued, resumed, by, ended_on, stale>>
  PROVE  TaskInv'
<1>1. PICK K \in [Frames -> SUBSET Frames] : Chains(K)
  BY Zenon DEF TaskInv
<1>2. /\ p \in Tips /\ ~Freed(p) /\ frame[p] = "running" /\ ~Freed(f) /\ frame[f] # "none"
      /\ p # NoFrame /\ f # NoFrame /\ Chain(K, p) /\ Driven(K, p)
  BY <1>1, CurrentLives, Names, Zenon DEF Alive, Chains
<1>3. \A t \in Tips : f \notin K[t]
  BY <1>1, LocalOutside, Zenon
<1>4. f # p /\ p \in K[p] /\ K[p] \in SUBSET Frames
  <2>1. p \in K[p] /\ f \notin K[p]
    BY <1>2, <1>3, Zenon DEF Chain
  <2> QED BY <2>1, Zenon
<1>5. f \notin queued
  <2> SUFFICES ASSUME f \in queued PROVE FALSE
    BY Zenon
  <2>1. f \in Tips /\ Chain(K, f)
    BY <1>1, Zenon DEF Tips, Chains
  <2>2. f \in K[f]
    BY <2>1, Zenon DEF Chain
  <2> QED BY <1>3, <2>1, <2>2, Zenon
<1>6. frame \in [Frames -> FrameStates] /\ m_parent \in [Frames -> Frames \cup {NoFrame}]
  BY Zenon DEF TaskInv, TaskTypeOK
<1>7. /\ frame' \in [Frames -> FrameStates] /\ frame'[p] = "awaiting" /\ frame'[f] = "running"
      /\ \A x \in Frames : x # p /\ x # f => frame'[x] = frame[x]
  BY <1>4, <1>6 DEF FrameStates
<1>8. /\ m_parent' \in [Frames -> Frames \cup {NoFrame}] /\ m_parent'[f] = p
      /\ \A x \in Frames : x # f => m_parent'[x] = m_parent[x]
  BY <1>6
<1>9. \A x : Freed(x)' <=> Freed(x)
  BY Zenon DEF Freed
<1>11. \A x : Given(x)' <=> Given(x)
  BY Zenon DEF Given
<1>12. TaskTypeOK'
  BY <1>7, <1>8, Zenon DEF TaskInv, TaskTypeOK
<1>13. Allocated'
  <2>1. ASSUME NEW x \in Frames, frame'[x] = "none" PROVE Unborn(x)'
    <3>1. Unborn(x) /\ x # f /\ x # p
      BY <1>7, <2>1, Zenon DEF TaskInv, Allocated
    <3> QED BY <1>8, <1>9, <3>1, Zenon DEF Unborn
  <2>2. \A x \in Frames : x > calls => frame'[x] = "none"
    <3>1. \A x \in Frames : x > calls => frame[x] = "none"
      BY Zenon DEF TaskInv, Allocated
    <3> QED BY <1>2, <1>7, <3>1, Zenon
  <2> QED BY <2>1, <2>2, Zenon DEF Allocated
<1>14. ~Given(f)
  BY Zenon DEF TaskInv, Owned
<1>15. ASSUME NEW x \in Frames PROVE Owned(x)'
  <2>1. Owned(x)
    BY Zenon DEF TaskInv
  <2>2. Alive(x)' => Alive(x)
    BY <1>2, <1>7, <1>9, Zenon DEF Alive
  <2>3. CASE x = f
    BY <1>9, <1>11, <1>14, <2>1, <2>2, <2>3, Names, Zenon DEF Owned
  <2>4. CASE x # f
    BY <1>8, <1>9, <1>11, <2>1, <2>2, <2>4, Zenon DEF Owned
  <2> QED BY <2>3, <2>4, Zenon
<1>16. NoCycle'
  BY FewerCycles, Zenon DEF TaskInv
<1>17. Running'
  <2>1. \A t \in queued : t \in Frames /\ t # p /\ t # f /\ frame[t] \in {"fresh", "paused"}
    BY <1>2, <1>5, Zenon DEF TaskInv, TaskTypeOK, Running
  <2>2. (by = "nobody" <=> resumed = NoFrame) /\ resumed # NoFrame
    BY <1>2, Zenon DEF TaskInv, Running
  <2> QED BY <1>7, <2>1, <2>2, Zenon DEF Running
<1>18. \A x \in Frames : frame'[x] = "final" <=> frame[x] = "final"
  BY <1>2, <1>7, Zenon
<1>19. Finished'
  <2>1. \A x \in Frames : m_parent'[x] = m_parent[x] \/ m_parent'[x] # NoFrame
    BY <1>2, <1>8, Zenon
  <2> QED BY <1>9, <1>18, <2>1, FinishedKept, Zenon DEF TaskInv
<1>20. PICK L : L = [K EXCEPT ![f] = K[p] \cup {f}]
  BY Zenon
<1>21. /\ L \in [Frames -> SUBSET Frames] /\ \A x : x \in L[f] <=> x \in K[p] \/ x = f
       /\ \A t \in Frames : t # f => L[t] = K[t]
  BY <1>4, <1>20
<1>22. Tips' = queued \cup {f}
  BY <1>2, Zenon DEF Tips
<1>23. ASSUME NEW t \in queued PROVE Chain(L, t)' /\ Driven(L, t)' /\ L[t] = K[t]
  <2>1. /\ t \in Tips /\ t \in Frames /\ Chain(K, t) /\ t # f
        /\ \A x \in K[t] : x \in Frames /\ x \notin K[p] /\ (m_parent[x] = NoFrame => Given(x))
    BY <1>1, <1>5, <1>23, QueuedApart, Zenon
  <2>2. L[t] = K[t]
    BY <1>21, <2>1, Zenon
  <2>3. f \notin K[t]
    BY <1>3, <2>1, Zenon
  <2>4. ASSUME NEW x \in K[t]
        PROVE  /\ held'[x] = held[x] /\ frame'[x] = frame[x] /\ ~Freed(x)'
               /\ m_parent'[x] = m_parent[x]
    <3>1. x # f /\ x # p /\ x \in Frames /\ ~Freed(x)
      BY <1>4, <2>1, <2>3, <2>4, Zenon DEF Chain
    <3> QED BY <1>7, <1>8, <1>9, <3>1, Zenon
  <2>5. Chain(L, t)'
    BY <2>1, <2>2, <2>4, ChainApart, Zenon
  <2>6. Driven(L, t)'
    BY <1>11, <2>1, <2>2, <2>4, Zenon DEF Driven
  <2> QED BY <2>2, <2>5, <2>6, Zenon
<1>24. Chain(L, f)'
  <2>1. f \in L[f]
    BY <1>21, Zenon
  <2>2. ASSUME NEW x \in K[p]
        PROVE  /\ x \in Frames /\ x # f /\ ~Freed(x) /\ frame'[x] = "awaiting"
               /\ m_parent'[x] = m_parent[x]
               /\ m_parent[x] # NoFrame => m_parent[x] \in K[p] /\ held[x] = m_parent[x]
               /\ m_parent[x] = NoFrame => held[x] \notin Frames
               /\ m_parent[x] # p
    <3>1. x \in Frames /\ x # f
      BY <1>2, <1>3, <1>4, <2>2, Zenon
    <3>2. frame'[x] = "awaiting"
      BY <1>2, <1>7, <2>2, <3>1, Zenon DEF Chain
    <3>3. m_parent[x] # p
      BY <1>2, <2>2, Zenon DEF Chain
    <3> QED BY <1>2, <1>8, <2>2, <3>1, <3>2, <3>3, Zenon DEF Chain
  <2>3. ASSUME NEW x \in L[f]
        PROVE  /\ ~Freed(x)' /\ frame'[x] # "none"
               /\ x # f => frame'[x] = "awaiting"
               /\ m_parent'[x] # NoFrame => /\ m_parent'[x] \in L[f] /\ held'[x] = m_parent'[x]
                                            /\ frame'[m_parent'[x]] = "awaiting"
               /\ m_parent'[x] = NoFrame => held'[x] \notin Frames
    <3>1. CASE x = f
      BY <1>2, <1>4, <1>7, <1>8, <1>9, <1>21, <3>1, Zenon
    <3>2. CASE x \in K[p]
      BY <1>9, <1>21, <2>2, <3>2, Zenon
    <3> QED BY <1>21, <2>3, <3>1, <3>2, Zenon
  <2>4. ASSUME NEW x \in L[f], NEW y \in L[f], m_parent'[x] = m_parent'[y] PROVE x = y
    <3>1. CASE x \in K[p] /\ y \in K[p]
      <4>1. m_parent'[x] = m_parent[x] /\ m_parent'[y] = m_parent[y]
        BY <2>2, <3>1, Zenon
      <4>2. m_parent[x] = m_parent[y]
        BY ONLY <2>4, <4>1, Zenon
      <4>3. \A v, w \in K[p] : m_parent[v] = m_parent[w] => v = w
        BY <1>2, Zenon DEF Chain
      <4> QED BY ONLY <3>1, <4>2, <4>3, Zenon
    <3>2. CASE x = f /\ y \in K[p]
      <4>1. m_parent'[y] # p
        BY <2>2, <3>2, Zenon
      <4> QED BY ONLY <1>8, <2>4, <3>2, <4>1, Zenon
    <3>3. CASE x \in K[p] /\ y = f
      <4>1. m_parent'[x] # p
        BY <2>2, <3>3, Zenon
      <4> QED BY ONLY <1>8, <2>4, <3>3, <4>1, Zenon
    <3> QED BY <1>21, <2>4, <3>1, <3>2, <3>3, Zenon
  <2> QED BY <2>1, <2>3, <2>4, Zenon DEF Chain
<1>25. Driven(L, f)'
  <2> SUFFICES ASSUME NEW x \in L[f], m_parent'[x] = NoFrame
               PROVE  Given(x)' <=> ~(f = cur' /\ by' = "caller")
    BY Zenon DEF Driven
  <2>1. x # f
    BY <1>2, <1>8, Zenon
  <2>2. x \in K[p] /\ m_parent[x] = NoFrame
    BY <1>4, <1>8, <1>21, <2>1, Zenon
  <2> QED BY <1>2, <1>11, <2>2, Zenon DEF Driven
<1>27. \A t, u \in Tips' : t # u => L[t] \cap L[u] = {}
  <2>1. \A t, u \in queued : t # u => L[t] \cap L[u] = {}
    BY <1>1, <1>23, Zenon DEF Chains, Tips
  <2>2. ASSUME NEW t \in queued, NEW x \in L[t], x \in L[f] PROVE FALSE
    <3>1. x \in K[t] /\ x \notin K[p] /\ t \in Tips
      BY <1>1, <1>23, <2>2, QueuedApart, Zenon
    <3>2. x = f
      BY <1>21, <2>2, <3>1, Zenon
    <3> QED BY <1>3, <3>1, <3>2, Zenon
  <2> QED BY <1>22, <2>1, <2>2, Zenon
<1>28. ASSUME NEW x \in Frames, Given(x)', ~done(x)' PROVE \E t \in Tips' : x \in L[t]
  <2>1. Given(x) /\ ~done(x)
    BY <1>11, <1>18, <1>28, Zenon DEF done
  <2>2. PICK t \in Tips : x \in K[t]
    BY <1>1, <2>1, Zenon DEF Chains
  <2>3. CASE t \in queued
    BY <1>22, <1>23, <2>2, <2>3, Zenon
  <2>4. CASE t = p
    BY <1>21, <1>22, <2>2, <2>4, Zenon
  <2> QED BY <2>2, <2>3, <2>4, Zenon DEF Tips
<1>29. Chains(L)'
  BY <1>22, <1>23, <1>24, <1>25, <1>27, <1>28, Zenon DEF Chains
<1> QED BY <1>12, <1>13, <1>15, <1>16, <1>17, <1>19, <1>21, <1>29, Zenon DEF TaskInv

LEMMA TaskFinish ==
  ASSUME TaskInv, NEW c \in Frames, NEW b, Finish(c, b)
  PROVE  TaskInv'
<1>1. PICK K \in [Frames -> SUBSET Frames] : Chains(K)
  BY Zenon DEF TaskInv
<1>2. PICK p : p = m_parent[c]
  BY Zenon
<1>3. /\ cur = c /\ health = "ok" /\ cur' = p
      /\ frees' = Freeing(Locals(c))
      /\ held' = [f \in Frames |-> IF f \in Locals(c) THEN Nowhere ELSE held[f]]
      /\ ended_on' = [ended_on EXCEPT ![c] = resumed]
      /\ UNCHANGED <<m_parent, m_detached, calls, lent, queued, resumed, by, stale>>
  BY <1>2, Zenon DEF Finish, BodyRuns, final_suspend, run_vars
<1>4. frame' = IF p = NoFrame THEN [frame EXCEPT ![c] = "final"]
                              ELSE [frame EXCEPT ![c] = "final", ![p] = "running"]
  BY <1>2, Zenon DEF Finish, final_suspend
<1>5. health' # "corrupt"
  BY <1>3, Zenon DEF Finish, await_resume
<1>6. /\ c \in Tips /\ ~Freed(c) /\ frame[c] = "running" /\ Chain(K, c) /\ Driven(K, c)
      /\ c \in K[c] /\ K[c] \in SUBSET Frames /\ c # NoFrame /\ resumed # NoFrame
  BY <1>1, <1>3, CurrentLives, Names, Zenon DEF Chains, Chain, TaskInv, Running
<1>7. p # NoFrame => p \in K[c] /\ p \in Frames /\ frame[p] = "awaiting" /\ p # c
  BY <1>2, <1>6, Zenon DEF Chain
<1>8. PICK S : S = Locals(c)
  BY Zenon
<1>9. PICK W : W = WithLocals(S)
  BY Zenon
<1>10. /\ S \in SUBSET Frames
       /\ \A f \in S : f \in Frames /\ held[f] = c /\ frame[f] # "none"
  <2>1. \A f \in Frames : held[f] = c => frame[f] # "none"
    BY Names, Zenon DEF TaskInv, Allocated, Unborn
  <2> QED BY <1>8, <2>1, Zenon DEF Locals
<1>11. W \in SUBSET Frames /\ S \subseteq W /\ Closed(W)
  BY <1>9, <1>10, LocalsClosed, Zenon
<1>12. /\ frame \in [Frames -> FrameStates] /\ held \in [Frames -> Places] /\ Nowhere \in Places
       /\ m_parent \in [Frames -> Frames \cup {NoFrame}]
       /\ ended_on \in [Frames -> Frames \cup {NoFrame}] /\ resumed \in Frames
  BY <1>6, Zenon DEF TaskInv, TaskTypeOK, Places
<1>13. /\ held' \in [Frames -> Places]
       /\ \A f \in Frames : held'[f] = IF f \in S THEN Nowhere ELSE held[f]
  <2>1. held' = [f \in Frames |-> IF f \in S THEN Nowhere ELSE held[f]]
    BY <1>3, <1>8, Zenon
  <2> QED BY <1>12, <2>1
<1>30. /\ ended_on' \in [Frames -> Frames \cup {NoFrame}] /\ ended_on'[c] = resumed
       /\ \A f \in Frames : f # c => ended_on'[f] = ended_on[f]
  BY <1>3, <1>12
<1>14. /\ frame' \in [Frames -> FrameStates] /\ frame'[c] = "final"
       /\ p # NoFrame => frame'[p] = "running"
       /\ \A f \in Frames : f # c /\ f # p => frame'[f] = frame[f]
  <2>1. CASE p = NoFrame
    BY <1>4, <1>12, <2>1 DEF FrameStates
  <2>2. CASE p # NoFrame
    <3>1. p \in Frames /\ p # c
      BY <1>7, <2>2, Zenon
    <3> QED BY <1>4, <1>12, <2>2, <3>1 DEF FrameStates
  <2> QED BY <2>1, <2>2, Zenon
<1>15. \A f \in Frames : frame'[f] = "none" <=> frame[f] = "none"
  BY <1>6, <1>7, <1>14, Names, Zenon
<1>16. \A x : Given(x)' <=> Given(x)
  BY <1>3, Zenon DEF Given
<1>17. /\ frees' \in [Frames -> {0, 1}]
       /\ \A x \in Frames : Freed(x)' <=> Freed(x) \/ x \in W
       /\ (\A x \in Frames : Owned(x))' /\ NoCycle'
       /\ \A x \in Frames : held[x] \notin Frames /\ x \notin S =>
             held'[x] = held[x] /\ (Freed(x)' <=> Freed(x))
  <2>1. frees' = Freeing(S)
    BY <1>3, <1>8, Zenon
  <2>2. \A x \in S : ~Freed(x) /\ frame[x] # "none"
    BY <1>6, <1>8, <1>10, Zenon DEF TaskInv, Owned
  <2> QED BY <1>3, <1>9, <1>10, <1>13, <1>15, <1>16, <2>1, <2>2, OwnersAfter, Zenon
<1>18. TaskTypeOK'
  <2>1. p \in Frames \cup {NoFrame}
    BY <1>2, <1>12, Zenon
  <2> QED BY <1>3, <1>13, <1>14, <1>17, <1>30, <2>1, Zenon DEF TaskInv, TaskTypeOK
<1>19. Allocated'
  <2>1. ASSUME NEW x \in Frames, frame[x] = "none" PROVE Unborn(x)'
    <3>1. Unborn(x) /\ x # p
      BY <1>7, <2>1, Names, Zenon DEF TaskInv, Allocated
    <3>2. x \notin S /\ held'[x] = held[x] /\ (Freed(x)' <=> Freed(x))
      BY <1>10, <1>17, <3>1, Names, Zenon DEF Unborn
    <3>3. \A y \in Frames : held'[y] # x
      BY <1>13, <3>1, Names, Zenon DEF Unborn
    <3> QED BY <1>3, <3>1, <3>2, <3>3, Zenon DEF Unborn
  <2>2. \A x \in Frames : x > calls => frame[x] = "none"
    BY Zenon DEF TaskInv, Allocated
  <2> QED BY <1>3, <1>15, <2>1, <2>2, Zenon DEF Allocated
<1>20. \A t \in queued : t \in Frames /\ t # c /\ t # p /\ frame[t] \in {"fresh", "paused"}
  BY <1>6, <1>7, Names, Zenon DEF TaskInv, TaskTypeOK, Running
<1>21. Running'
  <2>1. by = "nobody" <=> resumed = NoFrame
    BY Zenon DEF TaskInv, Running
  <2> QED BY <1>3, <1>6, <1>14, <1>20, <2>1, Zenon DEF Running
<1>22. \A x \in Frames : frame'[x] = "final" => frame[x] = "final" \/ x = c
  BY <1>14, Names, Zenon
<1>23. Finished'
  <2>1. ASSUME NEW x \in Frames, m_detached[x]
        PROVE  /\ Freed(x)' <=> Freed(x)
               /\ Freed(x) => ended_on'[x] = x
               /\ frame'[x] = "final" /\ ended_on'[x] = x /\ ~Freed(x) => by = "engine" /\ resumed = x
    <3>1. held[x] = Nowhere /\ Given(x) /\ m_parent[x] = NoFrame
      BY <2>1, Zenon DEF TaskInv, Owned, Given
    <3>2. Freed(x)' <=> Freed(x)
      BY <1>10, <1>17, <3>1, Names, Zenon
    <3>3. CASE x # c
      BY <1>22, <1>30, <2>1, <3>2, <3>3, Zenon DEF TaskInv, Finished, done
    <3>4. CASE x = c
      <4>1. by # "caller"
        BY <1>3, <1>6, <3>1, <3>4, Zenon DEF Driven
      <4>2. by # "nobody" /\ by \in {"nobody", "engine", "caller"}
        BY <1>6, Zenon DEF TaskInv, TaskTypeOK, Running
      <4> QED BY <1>6, <1>30, <3>2, <3>4, <4>1, <4>2, Zenon
    <3> QED BY <3>3, <3>4, Zenon
  <2>2. ASSUME NEW h \in Frames, by = "engine", resumed = h
        PROVE  /\ frame'[h] = "final" /\ m_detached[h] => ended_on'[h] = h
               /\ m_parent[h] = NoFrame => held'[h] \notin Frames /\ ~Freed(h)'
    <3>1. frame'[h] = "final" /\ m_detached[h] => ended_on'[h] = h
      <4>1. CASE h = c
        BY <1>30, <2>2, <4>1, Zenon
      <4>2. CASE h # c
        BY <1>22, <1>30, <2>2, <4>2, Zenon DEF TaskInv, Finished, done
      <4> QED BY <4>1, <4>2, Zenon
    <3>2. ASSUME m_parent[h] = NoFrame PROVE held'[h] \notin Frames /\ ~Freed(h)'
      <4>1. held[h] \notin Frames /\ ~Freed(h)
        BY <2>2, <3>2, Zenon DEF TaskInv, Finished
      <4>2. h \notin S
        BY <1>10, <4>1, Zenon
      <4> QED BY <1>17, <4>1, <4>2, Zenon
    <3> QED BY <3>1, <3>2, Zenon
  <2>3. \A h \in stale : h \in Frames /\ m_parent[h] # NoFrame
    BY Zenon DEF TaskInv, Finished
  <2> QED BY <1>3, <1>5, <2>1, <2>2, <2>3, Zenon DEF Finished, done
\* The chains that remain.
<1>24. ASSUME NEW t \in Tips, NEW x \in K[t] PROVE x \notin W /\ held'[x] = held[x] /\ ~Freed(x)'
  <2>1. t \in Frames /\ Chain(K, t) /\ x \in Frames /\ ~Freed(x)
    BY <1>1, <1>24, TipStates, Zenon DEF Chains, Chain
  <2>2. \A y \in S : y \notin K[t]
    BY <1>1, <1>3, <1>10, <1>24, LocalOutside, Zenon
  <2>3. x \notin W
    BY <1>9, <1>10, <1>24, <2>1, <2>2, ChainSpared, Zenon DEF TaskInv
  <2> QED BY <1>11, <1>13, <1>17, <2>1, <2>3, Zenon
<1>26. ASSUME NEW L, NEW t \in queued, L[t] = K[t] PROVE Chain(L, t)' /\ Driven(L, t)'
  <2>1. /\ t \in Tips /\ t \in Frames /\ Chain(K, t)
        /\ \A x \in K[t] : x \in Frames /\ x \notin K[c] /\ (m_parent[x] = NoFrame => Given(x))
    BY <1>1, <1>3, <1>26, QueuedApart, Zenon
  <2>2. ASSUME NEW x \in K[t]
        PROVE  /\ held'[x] = held[x] /\ frame'[x] = frame[x] /\ ~Freed(x)'
               /\ m_parent'[x] = m_parent[x]
    <3>1. x \in Frames /\ x # c /\ x # p
      BY <1>6, <1>7, <2>1, <2>2, Names, Zenon
    <3> QED BY <1>3, <1>14, <1>24, <2>1, <2>2, <3>1, Zenon
  <2>4. Chain(L, t)'
    BY <1>26, <2>1, <2>2, ChainApart, Zenon
  <2>5. t # cur'
    BY <1>3, <1>20, <1>26, Zenon
  <2>6. Driven(L, t)'
    BY <1>3, <1>16, <1>26, <2>1, <2>5, Zenon DEF Driven
  <2> QED BY <2>4, <2>6, Zenon
<1>27. ASSUME NEW x \in Frames, Given(x)', ~done(x)'
       PROVE  x # c /\ m_parent[x] = NoFrame /\ \E t \in Tips : x \in K[t]
  <2>1. x # c
    BY <1>14, <1>27, Zenon DEF done
  <2>2. Given(x)
    BY <1>16, <1>27, Zenon
  <2>3. frame[x] # "final"
    <3>1. CASE x = p
      BY <1>7, <3>1, Names, Zenon
    <3>2. CASE x # p
      BY <1>14, <1>27, <2>1, <3>2, Zenon DEF done
    <3> QED BY <3>1, <3>2, Zenon
  <2>4. m_parent[x] = NoFrame
    BY <2>2, Zenon DEF TaskInv, Owned
  <2> QED BY <1>1, <2>1, <2>2, <2>3, <2>4, Zenon DEF Chains, done
<1>28. CASE p = NoFrame
  <2>1. Tips' = queued
    BY <1>3, <1>28, Zenon DEF Tips
  <2>2. \A t, u \in queued : t # u => K[t] \cap K[u] = {}
    BY <1>1, Zenon DEF Chains, Tips
  <2>4. ASSUME NEW x \in Frames, Given(x)', ~done(x)' PROVE \E t \in Tips' : x \in K[t]
    <3>1. x # c /\ m_parent[x] = NoFrame /\ \E t \in Tips : x \in K[t]
      BY <1>27, <2>4, Zenon
    <3>2. PICK t \in Tips : x \in K[t]
      BY <3>1, Zenon
    <3>3. t # c
      <4> SUFFICES ASSUME t = c PROVE FALSE
        BY Zenon
      <4>1. x \in K[c] /\ m_parent[x] = m_parent[c]
        BY <1>2, <1>28, <3>1, <3>2, Zenon
      <4> QED BY <1>6, <3>1, <4>1, Zenon DEF Chain
    <3> QED BY <1>3, <2>1, <3>2, <3>3, Zenon DEF Tips
  <2>5. Chains(K)'
    BY <1>26, <2>1, <2>2, <2>4, Zenon DEF Chains
  <2> QED BY <1>17, <1>18, <1>19, <1>21, <1>23, <2>5, Zenon DEF TaskInv
<1>29. CASE p # NoFrame
  <2>1. p \in K[c] /\ p \in Frames /\ frame[p] = "awaiting" /\ p # c
    BY <1>7, <1>29, Zenon
  <2>2. PICK L : L = [K EXCEPT ![p] = K[c] \ {c}]
    BY Zenon
  <2>3. /\ L \in [Frames -> SUBSET Frames] /\ \A x : x \in L[p] <=> x \in K[c] /\ x # c
        /\ \A t \in Frames : t # p => L[t] = K[t]
    BY <1>6, <2>1, <2>2
  <2>4. Tips' = queued \cup {p}
    BY <1>3, <1>29, Zenon DEF Tips
  <2>5. \A t \in queued : L[t] = K[t] /\ Chain(L, t)' /\ Driven(L, t)'
    BY <1>20, <1>26, <2>3, Zenon
  <2>6. Chain(L, p)'
    <3>1. ASSUME NEW x \in K[c], x # c
          PROVE  /\ x \in Frames /\ ~Freed(x)' /\ held'[x] = held[x] /\ frame'[x] # "none"
                 /\ x # p => frame'[x] = "awaiting"
                 /\ m_parent[x] # NoFrame => /\ m_parent[x] \in K[c] /\ m_parent[x] # c
                                             /\ held[x] = m_parent[x] /\ m_parent[x] # p
                                             /\ frame'[m_parent[x]] = "awaiting"
                 /\ m_parent[x] = NoFrame => held[x] \notin Frames
      <4>1. x \in Frames /\ ~Freed(x)' /\ held'[x] = held[x] /\ frame[x] = "awaiting"
        BY <1>6, <1>24, <3>1, Zenon DEF Chain
      <4>2. frame'[x] # "none" /\ (x # p => frame'[x] = "awaiting")
        BY <1>14, <1>29, <3>1, <4>1, Zenon
      <4>3. m_parent[x] # p
        BY <1>2, <1>6, <3>1, Zenon DEF Chain
      <4>4. ASSUME m_parent[x] # NoFrame
            PROVE  /\ m_parent[x] \in K[c] /\ m_parent[x] # c /\ held[x] = m_parent[x]
                   /\ frame'[m_parent[x]] = "awaiting"
        <5>1. m_parent[x] \in K[c] /\ held[x] = m_parent[x] /\ frame[m_parent[x]] = "awaiting"
          BY <1>6, <3>1, <4>4, Zenon DEF Chain
        <5>2. m_parent[x] \in Frames /\ m_parent[x] # c
          BY <1>6, <5>1, Zenon
        <5> QED BY <1>14, <4>3, <5>1, <5>2, Zenon
      <4>5. m_parent[x] = NoFrame => held[x] \notin Frames
        BY <1>6, <3>1, Zenon DEF Chain
      <4> QED BY <4>1, <4>2, <4>3, <4>4, <4>5, Zenon
    <3>2. ASSUME NEW x \in L[p]
          PROVE  /\ ~Freed(x)' /\ frame'[x] # "none"
                 /\ x # p => frame'[x] = "awaiting"
                 /\ m_parent'[x] # NoFrame => /\ m_parent'[x] \in L[p] /\ held'[x] = m_parent'[x]
                                              /\ frame'[m_parent'[x]] = "awaiting"
                 /\ m_parent'[x] = NoFrame => held'[x] \notin Frames
      BY <1>3, <2>3, <3>1, <3>2, Zenon
    <3>3. \A x, y \in L[p] : m_parent'[x] = m_parent'[y] => x = y
      BY <1>3, <1>6, <2>3, Zenon DEF Chain
    <3>5. p \in L[p]
      BY <2>1, <2>3, Zenon
    <3> QED BY <3>2, <3>3, <3>5, Zenon DEF Chain
  <2>7. Driven(L, p)'
    BY <1>3, <1>6, <1>16, <2>3, Zenon DEF Driven
  <2>9. \A t, u \in Tips' : t # u => L[t] \cap L[u] = {}
    <3>1. \A t, u \in queued : t # u => L[t] \cap L[u] = {}
      BY <1>1, <2>5, Zenon DEF Chains, Tips
    <3>2. ASSUME NEW t \in queued, NEW x \in L[t], x \in L[p] PROVE FALSE
      <4>1. x \in K[t] /\ x \in K[c]
        BY <2>3, <2>5, <3>2, Zenon
      <4> QED BY <1>1, <1>3, <3>2, <4>1, QueuedApart, Zenon
    <3> QED BY <2>4, <3>1, <3>2, Zenon
  <2>10. ASSUME NEW x \in Frames, Given(x)', ~done(x)' PROVE \E t \in Tips' : x \in L[t]
    <3>1. x # c /\ \E t \in Tips : x \in K[t]
      BY <1>27, <2>10, Zenon
    <3>2. PICK t \in Tips : x \in K[t]
      BY <3>1, Zenon
    <3>3. CASE t \in queued
      BY <2>4, <2>5, <3>2, <3>3, Zenon
    <3>4. CASE t = c
      BY <2>3, <2>4, <3>1, <3>2, <3>4, Zenon
    <3> QED BY <1>3, <3>2, <3>3, <3>4, Zenon DEF Tips
  <2>11. Chains(L)'
    BY <2>4, <2>5, <2>6, <2>7, <2>9, <2>10, Zenon DEF Chains
  <2> QED BY <1>17, <1>18, <1>19, <1>21, <1>23, <2>3, <2>11, Zenon DEF TaskInv
<1> QED BY <1>28, <1>29, Zenon

-----------------------------------------------------------------------------
(* The inductive invariant, and what follows from it.                      *)

LEMMA TaskStarts == TaskInit => TaskInv
<1> SUFFICES ASSUME TaskInit PROVE TaskInv
  BY Zenon
<1>1. /\ \A f \in Frames : /\ frame[f] = "none" /\ m_parent[f] = NoFrame /\ ~m_detached[f]
                           /\ held[f] = Nowhere /\ frees[f] = 0
      /\ calls = 0 /\ lent = {} /\ queued = {} /\ resumed = NoFrame /\ by = "nobody"
      /\ cur = NoFrame /\ health = "ok" /\ stale = {}
  BY Zenon DEF TaskInit
<1>2. TaskTypeOK
  <2>1. 0 \in 0 .. MaxFrames
    BY TaskAssumption
  <2> QED BY <2>1 DEF TaskInit, TaskTypeOK, FrameStates, Places
<1>3. \A f \in Frames : ~Freed(f)
  BY <1>1 DEF Freed
<1>4. Allocated
  BY <1>1, <1>3, Names, Zenon DEF Allocated, Unborn
<1>5. \A f \in Frames : Owned(f)
  BY <1>1, <1>3, Names, Zenon DEF Owned, Given, Alive
<1>6. NoCycle
  <2>1. Closed({}) /\ {} \in SUBSET Frames
    BY Zenon DEF Closed
  <2> QED BY <1>1, <2>1, Names, Zenon DEF NoCycle
<1>7. Running /\ Finished
  BY <1>1, <1>3, Zenon DEF Running, Finished
<1>8. PICK K : K = [f \in Frames |-> {}]
  BY Zenon
<1>9. K \in [Frames -> SUBSET Frames]
  BY <1>8
<1>10. Chains(K)
  BY <1>1, Zenon DEF Chains, Tips, Given
<1> QED BY <1>2, <1>4, <1>5, <1>6, <1>7, <1>9, <1>10, Zenon DEF TaskInv

LEMMA TaskStep == TaskInv /\ [TaskNext]_task_vars => TaskInv'
<1> SUFFICES ASSUME TaskInv, [TaskNext]_task_vars PROVE TaskInv'
  BY Zenon
<1> USE DEF promise_vars, run_vars, past_vars
<1>1. ASSUME NEW p \in Frames, NEW f \in Frames, co_await(p, f) PROVE TaskInv'
  <2>1. cur = p /\ held[f] = p /\ Alive(f) /\ health = "ok"
    BY <1>1, Zenon DEF co_await, BodyRuns
  <2>2. UNCHANGED <<m_detached, held, frees, calls, lent, queued, resumed, by, ended_on, stale>>
    BY <1>1, Zenon DEF co_await
  <2>3. CASE await_resume(p, f, box[f]) /\ UNCHANGED <<frame, m_parent, cur>>
    <3>1. health' # "corrupt"
      BY <2>1, <2>3, Zenon DEF await_resume
    <3> QED BY <2>2, <2>3, <3>1, TaskQuiet, Zenon
  <2>4. CASE /\ ~await_ready(f) /\ await_suspend(p, f) /\ cur' = f /\ Continue(f)
             /\ frame' = [frame EXCEPT ![p] = "awaiting", ![f] = "running"]
    <3>1. health' # "corrupt"
      BY <2>1, <2>4, Zenon DEF Continue, await_resume
    <3>2. frame[f] # "final" /\ m_parent' = [m_parent EXCEPT ![f] = p]
      BY <2>4, Zenon DEF await_ready, done, await_suspend
    <3> QED BY <2>1, <2>2, <2>4, <3>1, <3>2, TaskAwaits, Zenon
  <2> QED BY <1>1, <2>3, <2>4, Zenon DEF co_await
<1>2. ASSUME NEW c \in Frames, set_exception(c) PROVE TaskInv'
  BY <1>2, TaskQuiet, Zenon DEF set_exception
<1>3. CASE ResumeReturns
  <2>1. by # "engine"
    BY <1>3, Zenon DEF ResumeReturns
  <2> QED BY <1>3, <2>1, TaskReturns, Zenon DEF ResumeReturns
<1>4. CASE UNCHANGED task_vars
  BY <1>4, TaskQuiet, Zenon DEF task_vars
<1>5. CASE BodySteps
  BY <1>1, <1>2, <1>5, TaskFinish, TaskPause, TaskMove, Zenon
     DEF BodySteps, return_value, unhandled_exception
<1>6. CASE \/ \E c \in Frames \cup {Caller}, k \in Kinds : get_return_object(c, k)
           \/ \E c \in Frames \cup {Caller}, f \in Frames : destroy(c, f)
           \/ \E f \in Frames : submit_task(f) \/ resume(f) \/ ExecResume(f)
  BY <1>6, TaskCall, TaskDestroy, TaskSubmit, TaskResume, TaskExecResume, Zenon
<1> QED BY <1>3, <1>4, <1>5, <1>6, TaskExecDone, Zenon DEF TaskNext

LEMMA EngineIsDone == TaskInv => EngineFinishes
<1> SUFFICES ASSUME TaskInv, resumed = NoFrame, queued = {}, NEW f \in Frames, Given(f)
             PROVE  done(f)
  BY Zenon DEF EngineFinishes, CallerRuns, Given
<1>1. PICK K \in [Frames -> SUBSET Frames] : Chains(K)
  BY Zenon DEF TaskInv
<1>2. \A t \in Tips : FALSE
  BY Zenon DEF TaskInv, Running, Tips
<1> QED BY <1>1, <1>2, Zenon DEF Chains

LEMMA Reclaimed == TaskInv => FramesReclaimed
<1> SUFFICES ASSUME TaskInv PROVE FramesReclaimed
  BY Zenon
<1>1. \A f \in Frames : frees[f] <= 1
  BY DEF TaskInv, TaskTypeOK
<1>2. ASSUME CallerRuns, queued = {}, NEW f \in Frames, m_detached[f]
      PROVE  Freed(f) <=> ended_on[f] = f
  <2>1. by # "engine"
    BY <1>2, Zenon DEF CallerRuns, TaskInv, Running
  <2>2. done(f)
    BY <1>2, EngineIsDone, Zenon DEF EngineFinishes
  <2> QED BY <1>2, <2>1, <2>2, Zenon DEF TaskInv, Finished
<1>3. ASSUME NEW f \in Frames, frame[f] # "none", ~m_detached[f]
      PROVE  Alive(f) <=> held[f] # Nowhere /\ (held[f] = Caller \/ Alive(held[f]))
  <2>1. Owned(f) /\ held[f] \in Places
    BY Zenon DEF TaskInv, TaskTypeOK
  <2>2. CASE held[f] \in Frames
    <3>1. PICK g \in Frames : held[f] = g
      BY <2>2, Zenon
    <3>2. frame[g] # "none"
      BY <3>1, Zenon DEF TaskInv, Allocated, Unborn
    <3> QED BY <1>3, <2>1, <3>1, <3>2, Names, Zenon DEF Owned, Alive
  <2>3. CASE held[f] = Caller
    BY <1>3, <2>1, <2>3, Names, Zenon DEF Owned, Alive
  <2>4. CASE held[f] = Nowhere
    BY <1>3, <2>1, <2>4, Zenon DEF Owned
  <2> QED BY <2>1, <2>2, <2>3, <2>4, Zenon DEF Places
<1> QED BY <1>1, <1>2, <1>3, Zenon DEF FramesReclaimed

LEMMA OnlyNestedStale == TaskInv => StaleOnlyNested
<1> SUFFICES ASSUME TaskInv PROVE StaleOnlyNested
  BY Zenon
<1>1. PICK K \in [Frames -> SUBSET Frames] : Chains(K)
  BY Zenon DEF TaskInv
<1>2. \A h \in queued : ~Freed(h)
  BY <1>1, Zenon DEF Chains, Chain, Tips
<1> QED BY <1>2, Zenon DEF TaskInv, Finished, StaleOnlyNested

LEMMA TaskAlways == TaskSpec => []TaskInv
BY TaskStarts, TaskStep, PTL DEF TaskSpec

\* No frame is destroyed twice, for any number of calls and pauses and any nesting of task
\* objects: ~task, destroy(), operator=, the end of the holder and the engine's clean() never
\* come to the same frame (task.hpp:176-236, 277-283). One with an object dies exactly when
\* its owner does, and a detached one is freed if and only if it finished on its own handle:
\* every detached root that ends on the handle of a coroutine it awaited is leaked
\* (engine.cpp:49-57).
THEOREM FramesReclaimedCorrect == TaskSpec => []FramesReclaimed
BY TaskAlways, Reclaimed, PTL

\* When the engine has nothing left to resume, every coroutine it was given has finished:
\* final_suspend leads from each tip to the root it belongs to (task.hpp:33-50).
THEOREM EngineFinishesCorrect == TaskSpec => []EngineFinishes
BY TaskAlways, EngineIsDone, PTL

\* The engine resumes only live frames, and the done() it reads after resume() is that of a
\* freed frame only for the handle of an awaited coroutine (engine.cpp:49-57): a program
\* whose coroutines pause only in roots never meets one.
THEOREM StaleOnlyNestedCorrect == TaskSpec => []StaleOnlyNested
BY TaskAlways, OnlyNestedStale, PTL
=============================================================================
