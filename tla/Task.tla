-------------------------------- MODULE Task --------------------------------
(***************************************************************************)
(* coro::task, its promises (task.hpp) and the containers of their results *)
(* (detail/container.hpp): coroutines that call and co_await one another,  *)
(* run by one worker. A root is submitted to the engine, which resumes a   *)
(* handle, looks at done() and cleans up, or it is driven by its caller    *)
(* with task::resume(), as tests/lab1_test.cpp does.                       *)
(*                                                                         *)
(* A frame is a number; the task object that names it lives in another     *)
(* frame or in the caller, and dies with it. What a coroutine computes is  *)
(* left open: it may call, await, drop or move a task, pause, return or    *)
(* throw whenever the language lets it.                                    *)
(***************************************************************************)
EXTENDS Integers, FiniteSets

CONSTANTS MaxFrames, \* bound: coroutine calls in a behaviour
          MaxPauses  \* bound: suspensions on I/O or suspend_always

ASSUME TaskAssumption == MaxFrames \in Nat \ {0} /\ MaxPauses \in Nat

VARIABLES frame,      \* [Frames -> FrameStates]
          kind,       \* [Frames -> Kinds]: the return type
          m_parent,   \* [Frames -> frame], NoFrame when nobody awaits it
          m_detached,
          box,        \* [Frames -> {"unset", "value", "exception"}]: the container
          got,        \* [Frames]: what the last co_await of the frame delivered
          held,       \* [Frames]: where the task object is
          param,      \* frames whose object is a parameter, not a local, of the one it is in
          frees,      \* [Frames -> Nat]: how often the frame was destroyed
          calls, pauses,
          lent,       \* frames the engine was given without detach()
          queued,     \* handles the engine was given and has not resumed yet
          resumed,    \* the handle that engine or caller resumed, and ...
          by,         \* ... which of the two
          cur,        \* the coroutine that runs
          forced,     \* coroutines that were resumed while they awaited another
          ended_on,   \* [Frames]: the handle that was resumed when the frame finished
          stale,      \* handles the engine used after their frame was freed
          health      \* "ok", "terminated" (std::terminate) or "corrupt" (destroyed twice)

promise_vars == <<kind, m_parent, m_detached, box>>
run_vars     == <<queued, resumed, by>>
past_vars    == <<ended_on, stale>>
task_vars    == <<frame, promise_vars, got, held, param, frees, calls, pauses, lent, run_vars,
                  cur, forced, past_vars, health>>

Frames      == 1 .. MaxFrames
NoFrame     == 0
Caller      == 0    \* as a place of a task object
Nowhere     == -1   \* no object: detached
Kinds       == {"void", "pod", "class"}
FrameStates == {"none", "fresh", "running", "awaiting", "paused", "final"}

TaskInit ==
    /\ frame = [f \in Frames |-> "none"] /\ kind = [f \in Frames |-> "void"]
    /\ m_parent = [f \in Frames |-> NoFrame] /\ m_detached = [f \in Frames |-> FALSE]
    /\ box = [f \in Frames |-> "unset"] /\ got = [f \in Frames |-> "none"]
    /\ held = [f \in Frames |-> Nowhere] /\ param = {} /\ frees = [f \in Frames |-> 0]
    /\ ended_on = [f \in Frames |-> NoFrame] /\ stale = {}
    /\ calls = 0 /\ pauses = 0 /\ lent = {} /\ queued = {}
    /\ resumed = NoFrame /\ by = "nobody" /\ cur = NoFrame /\ forced = {} /\ health = "ok"

Freed(f) == frees[f] > 0
Alive(f) == frame[f] # "none" /\ ~Freed(f)
done(f)  == frame[f] = "final"

\* The caller acts when nothing it or the engine resumed is still running.
CallerRuns == resumed = NoFrame /\ health = "ok"
BodyRuns   == cur # NoFrame /\ health = "ok"

\* The code that runs: a coroutine, or the caller.
Acts(c) == IF c = Caller THEN CallerRuns ELSE BodyRuns /\ cur = c

-----------------------------------------------------------------------------
(* Task objects.                                                           *)

\* An object in a frame dies with the frame, and the frame it names with the object.
Closed(T) == \A f \in Frames : held[f] \in T => f \in T

\* The frames that die with those of S: the least closed set around it.
WithLocals(S) == {f \in Frames : \A T \in SUBSET Frames : S \subseteq T /\ Closed(T) => f \in T}

\* handle.destroy() of the frames S and of all that goes with them.
Freeing(S) == [f \in Frames |-> IF f \in WithLocals(S) THEN frees[f] + 1 ELSE frees[f]]

\* A call: promise construction, get_return_object and initial_suspend. The caller's
\* own calls are roots, task<void>, as submit_task demands.
get_return_object(c, k) ==
    /\ Acts(c) /\ calls < MaxFrames /\ (c = Caller => k = "void")
    /\ calls' = calls + 1
    /\ frame' = [frame EXCEPT ![calls + 1] = "fresh"]
    /\ kind' = [kind EXCEPT ![calls + 1] = k]
    /\ held' = [held EXCEPT ![calls + 1] = c]
    /\ UNCHANGED <<m_parent, m_detached, box, got, param, frees, pauses, lent, run_vars, cur, forced,
                   past_vars, health>>

\* task(task&&): the object becomes a parameter of a coroutine that has not started.
Move(c, f, g) ==
    /\ Acts(c) /\ f # g /\ f \notin lent /\ g \notin lent
    /\ held[f] = c /\ held[g] = c /\ Alive(f) /\ Alive(g) /\ frame[g] = "fresh"
    /\ held' = [held EXCEPT ![f] = g]
    /\ param' = param \cup {f}
    /\ UNCHANGED <<frame, promise_vars, got, frees, calls, pauses, lent, run_vars, cur, forced,
                   past_vars, health>>

\* ~task(), destroy(), and operator=(task&&) over an object that names f. A task that
\* was lent to the engine is kept until the engine is through with it.
destroy(c, f) ==
    /\ Acts(c) /\ held[f] = c /\ frame[f] # "none"
    /\ (f \in lent => queued = {})
    /\ frees' = Freeing({f})
    /\ held' = [held EXCEPT ![f] = Nowhere]
    /\ UNCHANGED <<frame, promise_vars, got, param, calls, pauses, lent, run_vars, cur, forced,
                   past_vars, health>>

\* Mutant: the object keeps its handle.
DetachedKeeps(f) == m_detached' = [m_detached EXCEPT ![f] = TRUE] /\ UNCHANGED held

detach(f) ==
    /\ m_detached' = [m_detached EXCEPT ![f] = TRUE]
    /\ held' = [held EXCEPT ![f] = Nowhere]

\* submit_task(task&&) detaches the task, submit_task(task&) does not.
submit_task(f) ==
    /\ CallerRuns /\ held[f] = Caller /\ frame[f] = "fresh" /\ f \notin queued
    /\ queued' = queued \cup {f}
    /\ \/ detach(f) /\ UNCHANGED lent
       \/ lent' = lent \cup {f} /\ UNCHANGED <<m_detached, held>>
    /\ UNCHANGED <<frame, kind, m_parent, box, got, param, frees, calls, pauses, resumed, by, cur,
                   forced, past_vars, health>>

-----------------------------------------------------------------------------
(* The containers.                                                         *)

\* The general container throws when there is no result.
class_result(b) == IF b = "unset" THEN "runtime_error" ELSE b

\* That of pod types makes up a value then; its result() is noexcept, so that an exception
\* it rethrows ends the program.
pod_result(b) == CASE b = "value" -> b [] b = "exception" -> "terminate" [] b = "unset" -> "default"

void_result(b) == IF b = "unset" THEN "default" ELSE b

result(k, b) ==
    CASE k = "class" -> class_result(b) [] k = "pod" -> pod_result(b) [] k = "void" -> void_result(b)

\* await_resume of p: what the container of f holds reaches p.
await_resume(p, f, b) ==
    /\ got' = [got EXCEPT ![p] = result(kind[f], b)]
    /\ health' = IF result(kind[f], b) = "terminate" THEN "terminated" ELSE health

\* The coroutine f is resumed wherever it is suspended. When it awaits another task it goes
\* on as if that one were finished.
Continue(f) ==
    IF frame[f] = "awaiting"
    THEN /\ forced' = forced \cup {f}
         /\ \E c \in Frames : m_parent[c] = f /\ Alive(c) /\ ~done(c) /\ await_resume(f, c, box[c])
    ELSE UNCHANGED <<forced, got, health>>

-----------------------------------------------------------------------------
(* Coroutine bodies.                                                       *)

\* Mutant: a task that was started counts as finished.
await_readyEarly(f) == frame[f] # "fresh"

await_ready(f) == done(f)

await_suspend(p, f) == m_parent' = [m_parent EXCEPT ![f] = p]

\* co_await of a task the coroutine p holds. Both forms of operator co_await do this.
co_await(p, f) ==
    /\ BodyRuns /\ cur = p /\ held[f] = p /\ Alive(f)
    /\ \/ /\ await_ready(f)
          /\ await_resume(p, f, box[f])
          /\ UNCHANGED <<frame, m_parent, cur, forced>>
       \/ /\ ~await_ready(f)
          /\ await_suspend(p, f)
          /\ frame' = [frame EXCEPT ![p] = "awaiting", ![f] = "running"]
          /\ cur' = f
          /\ Continue(f)
    /\ UNCHANGED <<kind, m_detached, box, held, param, frees, calls, pauses, lent, run_vars, past_vars>>

\* The body awaits an I/O, whose completion submits the handle of THIS coroutine, or,
\* when the caller drives it, std::suspend_always.
Pause(c) ==
    /\ BodyRuns /\ cur = c /\ pauses < MaxPauses
    /\ pauses' = pauses + 1
    /\ frame' = [frame EXCEPT ![c] = "paused"]
    /\ cur' = NoFrame
    /\ queued' = IF by = "engine" THEN queued \cup {c} ELSE queued
    /\ UNCHANGED <<promise_vars, got, held, param, frees, calls, lent, resumed, by, forced, past_vars,
                   health>>

\* Mutant: final_suspend returns to resume() whoever awaits.
final_suspendStays(c) == NoFrame

\* final_suspend: the parent by symmetric transfer. Without a parent the function runs off
\* its end; the model takes the outcome that lets a program go on, the return to resume().
final_suspend(c) == m_parent[c]

\* The objects that die at the end of the body; parameters live as long as the frame.
Locals(c) == {f \in Frames \ param : held[f] = c}

\* co_return, or an exception that leaves the body: the container takes b, the locals are
\* destroyed, final_suspend.
Finish(c, b) ==
    /\ BodyRuns /\ cur = c
    /\ box' = [box EXCEPT ![c] = b]
    /\ frees' = Freeing(Locals(c))
    /\ held' = [f \in Frames |-> IF f \in Locals(c) THEN Nowhere ELSE held[f]]
    /\ ended_on' = [ended_on EXCEPT ![c] = resumed]
    /\ LET p == final_suspend(c) IN
       /\ cur' = p
       /\ IF p = NoFrame
          THEN frame' = [frame EXCEPT ![c] = "final"] /\ UNCHANGED <<got, health>>
          ELSE /\ frame' = [frame EXCEPT ![c] = "final", ![p] = "running"]
               /\ await_resume(p, c, b)
    /\ UNCHANGED <<kind, m_parent, m_detached, param, calls, pauses, lent, run_vars, forced, stale>>

\* return_value and return_void.
return_value(c) == Finish(c, "value")

unhandled_exception(c) == Finish(c, "exception")

\* set_exception of the pod container assigns to an exception_ptr that was never
\* constructed; what the assignment releases first may be garbage, and the program ends.
set_exception(c) ==
    /\ BodyRuns /\ cur = c /\ kind[c] = "pod"
    /\ health' = "terminated"
    /\ UNCHANGED <<frame, promise_vars, got, held, param, frees, calls, pauses, lent, run_vars, cur,
                   forced, past_vars>>

-----------------------------------------------------------------------------
(* Who resumes.                                                            *)

\* exec_one_task: schedule() and resume().
ExecResume(h) ==
    /\ CallerRuns /\ h \in queued
    /\ queued' = queued \ {h} /\ resumed' = h /\ by' = "engine"
    /\ IF Freed(h) THEN stale' = stale \cup {h} /\ health' = "corrupt" /\ UNCHANGED <<frame, cur>>
       ELSE frame' = [frame EXCEPT ![h] = "running"] /\ cur' = h /\ UNCHANGED <<stale, health>>
    /\ UNCHANGED <<promise_vars, got, held, param, frees, calls, pauses, lent, forced, ended_on>>

\* Mutant: clean() does not look at m_detached.
cleanAlways(h) == Freeing({h})

clean(h) == IF m_detached[h] THEN Freeing({h}) ELSE frees

\* exec_one_task: resume() has returned; done() and clean(). In a freed frame they read what
\* is left there: mostly nothing comes of it and the engine goes on, but an answer that says
\* done and detached destroys the frame again.
ExecDone ==
    /\ resumed # NoFrame /\ by = "engine" /\ cur = NoFrame /\ health = "ok"
    /\ resumed' = NoFrame /\ by' = "nobody"
    /\ IF Freed(resumed)
       THEN stale' = stale \cup {resumed} /\ health' \in {"ok", "corrupt"} /\ UNCHANGED frees
       ELSE /\ frees' = IF done(resumed) THEN clean(resumed) ELSE frees
            /\ UNCHANGED <<stale, health>>
    /\ UNCHANGED <<frame, promise_vars, got, held, param, calls, pauses, lent, queued, cur, forced,
                   ended_on>>

\* task::resume(): the caller resumes its task.
resume(f) ==
    /\ CallerRuns /\ held[f] = Caller /\ f \notin lent /\ Alive(f) /\ ~done(f)
    /\ resumed' = f /\ by' = "caller" /\ cur' = f
    /\ frame' = [frame EXCEPT ![f] = "running"]
    /\ Continue(f)
    /\ UNCHANGED <<promise_vars, held, param, frees, calls, pauses, lent, queued, past_vars>>

ResumeReturns ==
    /\ resumed # NoFrame /\ by = "caller" /\ cur = NoFrame /\ health = "ok"
    /\ resumed' = NoFrame /\ by' = "nobody"
    /\ UNCHANGED <<frame, promise_vars, got, held, param, frees, calls, pauses, lent, queued, cur,
                   forced, past_vars, health>>

BodySteps ==
    \/ \E c \in Frames : return_value(c) \/ unhandled_exception(c) \/ set_exception(c)
    \/ \E c, f \in Frames : co_await(c, f)
    \/ \E c \in Frames : Pause(c)
    \/ \E c \in Frames \cup {Caller}, f, g \in Frames : Move(c, f, g)

TaskNext ==
    \/ \E c \in Frames \cup {Caller}, k \in Kinds : get_return_object(c, k)
    \/ \E c \in Frames \cup {Caller}, f \in Frames : destroy(c, f)
    \/ \E f \in Frames : submit_task(f) \/ resume(f) \/ ExecResume(f)
    \/ BodySteps
    \/ ExecDone \/ ResumeReturns

-----------------------------------------------------------------------------
(* Properties.                                                             *)

\* No frame is destroyed twice, whichever of ~task, destroy(), operator=, the end of the
\* coroutine that holds the object, and the engine's clean() come to it (task.hpp:176-236,
\* 277-283). When the engine is idle a frame with an object lives exactly as long as its
\* owner, and a detached one has been freed if and only if it finished while its own handle
\* was the one the engine had resumed (engine.cpp:51-55): a root that comes to its end on the
\* handle of a coroutine it awaited, one that had paused, is leaked.
FramesReclaimed ==
    /\ \A f \in Frames : frees[f] <= 1
    /\ (CallerRuns /\ queued = {}) =>
          \A f \in Frames : frame[f] # "none" =>
             IF m_detached[f] THEN Freed(f) <=> ended_on[f] = f
             ELSE Alive(f) <=> held[f] # Nowhere /\ (held[f] = Caller \/ Alive(held[f]))

\* When the engine has nothing left to resume, every coroutine it was given has finished: no
\* co_await, nested and paused as it may be, is left without the resumption that ends it.
EngineFinishes ==
    (CallerRuns /\ queued = {}) => \A f \in Frames : (m_detached[f] \/ f \in lent) => done(f)

\* What co_await delivers is what the awaited coroutine returned or threw, never a made-up
\* value or "did you execute the coroutine?" (container.hpp:78, 175), unless the awaiter was
\* resumed while that coroutine had not finished.
ResultReachesAwaiter ==
    \A p \in Frames : got[p] \in {"default", "runtime_error"} => p \in forced

\* The engine resumes only live frames, and the handle whose done() it reads after resume()
\* (engine.cpp:51-55) names a freed frame only if it is the handle of an awaited coroutine:
\* one that paused, was resumed by its own handle, and was released by its awaiter. Nothing
\* else destroys a frame again.
StaleOnlyNested ==
    /\ \A h \in queued : ~Freed(h)
    /\ \A h \in stale : m_parent[h] # NoFrame
    /\ health = "corrupt" => stale # {}
=============================================================================
