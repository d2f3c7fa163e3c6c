# A TLA+ verification of tinyCoroLab

tinyCoroLab is a C++20 coroutine runtime on io_uring: a scheduler spreads
coroutines over worker threads, each worker runs an event loop over a task queue
and a ring, and coroutines meet in channels, mutexes, latches and the like. This
directory models the runtime, its synchronisation primitives, its tasks, its TCP
classes and the programs built on them in TLA+, checks them with TLC on small
instances and proves the central invariants with TLAPS. Paths below are relative to
`src/tinyCoroLab/`, those that begin with `io_uring/` or `C++20_coroutine/` to `src/`.

## The system

| part | source | modelled in |
|---|---|---|
| engine: task queue, I/O counters, poll | `src/engine.cpp`, `include/coro/engine.hpp` | `Engine`, `Context` |
| uring_proxy: ring and eventfd | `include/coro/uring_proxy.hpp` | `Engine`; the registered descriptors in `EchoServer` |
| context: worker thread and run loop | `src/context.cpp`, `include/coro/context.hpp` | `Context` |
| scheduler, round-robin dispatcher | `src/scheduler.cpp`, `include/coro/{scheduler,dispatcher}.hpp` | `Scheduler` |
| task, promises, result containers | `include/coro/task.hpp`, `include/coro/detail/container.hpp` | `Task`; frames of submitted tasks under several workers in `Context` |
| I/O awaiters | `src/io/io_awaiter.cpp`, `include/coro/io/base_awaiter.hpp` | one generic I/O in `Context`; the TCP awaiters in `EchoServer` |
| channel | `include/coro/comp/channel.hpp` | `Channel`, promise in `FifoChannel` |
| mutex, lock_guard | `include/coro/comp/{mutex,mutex_guard}.hpp` | `Mutex`; in `Context` a source of parked handles |
| condition_variable | `include/coro/comp/condition_variable.hpp` | `ConditionVariable` (waits with a condition) |
| event, latch, wait_group | `include/coro/comp/{event,latch,wait_group}.hpp` | `Gate` (wait_group for one round) |
| spinlock | `include/coro/spinlock.hpp` | `Spinlock` |
| tcp, fixed descriptors | `include/coro/io/net/tcp/`, `src/io/net/tcp/tcp.cpp`, `include/coro/{marked_buffer,io/base_io_type}.hpp` | `EchoServer` |
| echo servers and client | `io_uring/example/echo_server.cpp`, `benchmark/`, `examples/tcp_echo_*.cpp` | `EchoServer` |
| benchmarks, examples | `benchtests/`, `examples/` | `Clients` |
| the rest | see "Not modelled" | no |

A submission (`submit_to_scheduler`, `submit_to_context`, the completion of an
I/O, a primitive waking a waiter) goes through `context::submit_task`: count it,
push it, write the target's eventfd. The worker pops a handle, resumes it, calls
`done()` on it, frees it if it finished and was detached, and uncounts it. With
an empty queue it submits prepared I/O and then blocks on the eventfd or reaps
completions. `scheduler::loop()` starts the workers, scans their counters until
all look idle in one pass, requests their stop and joins them.

## Modules

`Engine` holds the queue, the eventfd, the rings and the counters; an operator is
one step of an engine method. `Context` adds the worker threads: `pc[c]` is the
place in `context::run`, `call[c]` the `submit_task` call a worker is inside of,
`frame` the life of each coroutine frame. `Scheduler` adds the main thread and the
dispatcher and is the specification that is checked. Bodies of coroutines are not
fixed: a body is any sequence of the operations in `Ops` (await I/O, park in a
primitive, submit locally, submit through the scheduler) that ends in `co_return`.

An action is what another thread can observe as one step:

- `is_idle()` is five loads, one per step, in the order `&&` evaluates them;
- `submit_task` is three steps (count, push, wake), and another step dispatches;
- the exit condition reads `m_wait_count` separately from what it owns alone;
- `submit()` and the `fetch_add` after it are one step, since no thread reads the
  ring and the submit count covers the I/O until the `fetch_sub`, its own step;
- a worker's write to its own eventfd is merged with the step before it, and the
  main thread's submissions before `loop()` are whole steps: nobody else looks;
- a `done()` on a destroyed frame may answer anything;
- `final_suspend` of a task without a parent flows off the end of a function that
  must return a handle (`task.hpp:38-45`): the coroutine rests there, or the
  process ends.

Tasks of `Context` are submitted ones, and `co_await` no other task: nested ones are
the subject of `Task`. A primitive that parks a handle is its wait list and nothing
else; that a mutex may be found free in `await_suspend` is in `Mutex`.

Memory is sequentially consistent. The queue is `AtomicQueueB2` of
`third_party/atomic_queue`, whose `push` and `pop` are one step each: `push` blocks
while the queue is full. The kernel is external: an I/O completes at any time and
signals the eventfd. Submissions come from the main thread before `loop()` and
from coroutines afterwards.

`Channel` has one action per critical section of `channel.hpp`: `await_ready`,
`await_suspend` and `await_resume` of a send and of a receive, and `close`. A
critical section runs under the spinlock and is atomic. A value is named by its
sender and number. `accepted` and `delivered` are history. `FifoChannel` is the
promise: a bounded FIFO queue with no waiters.

`Mutex` holds the lock, its wait list and a small runtime: workers that run one
coroutine at a time from a queue of their own. Which queue a handle enters matters,
since `unlock` gives the next owner to the worker that unlocks. `ConditionVariable`
composes it with condition variables and with the clients of `tests/lab5b_test.cpp`:
coroutines that take turns, each waiting for its turn and notifying the others, and
producers and consumers of a bounded queue, who wait on a condition variable of their
kind and notify the other. The two differ in who can make a condition false again:
nobody but the waiter itself, or everyone of its kind. `await_suspend` is two steps
(unlock, then join the waiters), a notify one step per waiter it looks at, and
counting a batch of items a step apart from moving it.

`Gate` models latch, wait_group and event, with and without a value, as one module:
`kind` says which. They share the awaiter (test, lock, test again, join) and differ
in how they open: a counter decremented outside the lock, or a flag set inside it.
Every `add()` comes before the coroutines start, and there are as many openers as
the count, as in the tests.

`Task` is `task.hpp` and `container.hpp` on one worker: coroutines that create,
move, drop and `co_await` one another, return or throw, pause on I/O, and are
driven by the engine or by a caller of `resume()`. `held` says in which frame, or
in the caller, the task object of a frame lives: locals die at the end of the body,
parameters (`param`) with the frame, and with either what they own. The three containers differ in `result()`: the
general one throws when there is no result, the one for pod types makes a value up
and is `noexcept`, so that an exception ends the program. Two pieces of undefined
behaviour are choices: the missing return of `final_suspend` here only comes back
to `resume()` (its crash is in `Context`), and `set_exception` of the pod
container, which assigns to an `exception_ptr` never constructed, works or ends the
program.

`Clients` holds the programs of `benchtests/` and `examples/` as data, the list of
jobs each submits, and one action per kind of job. Jobs run on the thread pool of
`bench_helper.hpp`, as coroutines that block their worker in the standard library's
primitives, or as coroutines that leave it in those of tinyCoroLab. Its executor
runs every handle it accepts: that the real one can stop too early is the subject of
`lost_task`, and the steps inside a primitive are the subject of `Channel`, `Mutex`
and `Gate`. The body of a loop that only burns time is left out. In
`coro_cv_notifyall` and `coro_cv_notifyone` of `lab5b_bench.cpp` the guard is a
temporary and `cv.wait` is not awaited, so that a job locks and unlocks and nothing
waits; the model says so.

`EchoServer` has the four TCP programs (`server` says which runs), their peers and
the kernel: connections open, messages arrive, peers close or reset, sends stop
short, accepts and connects fail, completions come in any order. Engine and
scheduler are reduced to the loop they run. The peer's `closed` is a FIN: it still
reads. Connections are distinct descriptors; a closed one is not given out again,
and `OneOperationEach` shows that nothing would still use it. In the epoll loop an
`accept` may fail, while `epoll_wait`, whose failure ends the process, and `fcntl` on
a descriptor just accepted do not.

`Spinlock` has one action per access to `lock_`; it justifies the atomic critical sections of the other modules.

`MCScheduler` and `MCConditionVariable` add symmetry. `MCPrograms` picks one of
`Clients`, `Task`, `EchoServer` and `Spinlock` and runs it alone, since
they do not interact: its state space is the sum of theirs.

## Runs

| run | instance | shows |
|---|---|---|
| `local` | 2 contexts, 3 tasks, I/O and local submission | no task is lost when `loop()` returns; the frames of tasks that await no other task are used only while they exist |
| `interleave` | 2 contexts, 2 tasks, every operation | counters exact, no lost wakeup, no double resume, workers exit drained, `loop()` returns; independent tasks are all finished when the scan ends |
| `bare` | 1 context without scheduler | it stops itself with all tasks run, or crashes as `start_race` shows |
| `channel` | 2 senders, 2 receivers, capacity 2 | FIFO, nothing lost, truthful answers, refines `FifoChannel`; sends complete, `close` releases all |
| `cond_var` | 4 coroutines, 2 workers, 2 rounds with `notify_all`, or 2 items per producer and a queue of 1 | exclusion, no handle lost or doubled, the queue within its bounds although `wait` may return with its condition false, every `lock` succeeds; on one worker all turns are taken and all items consumed |
| `gate` | 3 waiters, 3 openers, each kind | nobody passes early, nobody twice, everybody in the end |
| `programs` | each of four parts alone, bounds below | see the next paragraph |

`programs` shows, of the clients: no increment and no value is lost, and every
program ends, provided a job that blocks has a worker of its own (the two blocking
jobs of `lab5b` and `lab5c` need two). Of tasks: no frame is freed twice; one with an
owner lives as long as its owner; a detached root is freed if and only if it finishes
on its own handle, so that one which awaits a task that pauses, and ends on that
task's handle, is leaked, since the engine cleans up the handle it resumed; the engine finishes what it was given, and a result reaches its awaiter unless that
was resumed while it was awaiting (by `resume()`, or by a `co_await` of it). The engine's `done()` on a
freed frame happens on one worker too, but only with the handle of an awaited
coroutine that paused and whose awaiter released it. Of the servers: peers get
back what they sent, in order (the `uring` loops promise it for one connection only,
having one buffer); a connection has one operation at a time; a slot of the
registered table is free or lent once; what was sent before a close comes back,
short sends and the epoll server's unread rest excepted; descriptors are closed
where the server notices the end (the `uring` loop drops a failed `recv`, the epoll
loop takes the end of a stream for an empty message). Of the spinlock: one
thread inside.

Five runs end in a counterexample, each to something the repository states; the
quotations are in `PROJECT.json`.

- `lost_task`: the idle scan is no snapshot. With a chain of tasks submitted
  through the scheduler the contexts can be stopped too early, and the dispatcher
  then sends a task to a context that has exited (`tests/lab2b_test.cpp:262-277`
  expects all to run). `IndependentQuiescent` and `local` delimit when this cannot
  happen: tasks that neither suspend nor submit, and local submission.
- `stale_frame`: a parked coroutine is resumed, finished and freed by another
  worker before the first one calls `done()` on it.
- `lost_notify`: `condition_variable::wait` unlocks the mutex before it joins the
  waiters. On two workers a notify falls in between and finds nobody, and both
  coroutines wait for ever (`tests/lab5b_test.cpp:159` expects all turns to be
  taken). `EndsOnOneWorker` shows that one worker is safe.
- `start_race`: a bare context dereferences `m_job` before `start()` assigns it.
- `full_queue`: a worker pushing to its own full queue waits for itself, where the
  configuration's comment promises direct execution.

Three more observations have no run. `notify_stop` may write an eventfd that the
worker, having seen its stop request, has closed: a Release build ignores the failed
write, a Debug build fails the assertion at `uring_proxy.hpp:184`. `m_wait_count` does not count parked
coroutines, though the comments at `context.hpp:88` and `mutex.hpp:94` say so, so
`loop()` can return while some wait; `AllTasksRun` exempts them. And the missing
return in `final_suspend`, above: compiled with GCC 12.2 at `-O0` and `-O3`, a
task that nobody awaits crashes when it returns.

Bounds. Two contexts suffice for every pairwise race; three tasks let one be
submitted while one runs and one waits, and the lost task needs a chain of four.
`MaxSuspends` bounds the suspensions of one coroutine, `Quota` the sends of one
sender, `Rounds` the turns of one coroutine and the items of one producer; `SizeMod` is the modulus of `m_cur`, small so that it wraps. `QueCap` is
never reached except in `full_queue`. The submission ring is unbounded. Three
waiters and three openers let a decrement that is not the last, the last one and a
late waiter meet at a gate. Of four coroutines a notify meets waiters whose
condition is false beside one whose condition is true, and two producers meet two
consumers over one place (`Capacity`): a coroutine is notified, another of its kind
gets the mutex first and takes the place or the item, and `wait` returns too late.

In `programs` up to three workers (`MaxThreads`) run three jobs of three rounds
(`ExampleTasks`, `RunCnt`; the sources use 5 to 100 tasks) over a queue of two
(`Cap`), so that it fills and empties. Three frames (`MaxFrames`) make a chain of
two awaits, and one pause (`MaxPauses`) suspends any link of it. Two connections
(`MaxConns`) share the `uring` buffer; a peer sends up to two messages (`MaxMsgs`)
and a buffer holds two (`BufCap`), so that a send can be short and the `uring`
buffer mixed up; one more message leaves the epoll server a rest it does not read,
and without its exemption `EverythingEchoed` fails; two slots (`FixFds`) for two connections and the
listener exhaust the registered table; one fault (`MaxFaults`) at any point. Deadlock is not checked there, since programs end.

Fairness is weak fairness of every worker, of the main thread and of the kernel
per ring: the operating system runs threads that can run, and the kernel completes
I/O. Symmetry is used only in runs without liveness and permutes only tasks with the
same role (submitted by the main thread, or not). A crash ends the process and
satisfies the liveness properties; the branch without the crash is always explored
too. In `Channel` fairness is weak fairness of every
sender and receiver: the runtime resumes every handle submitted to it, senders send
their `Quota` and receivers keep receiving until they see nullopt. Nobody has to
call `close`. In `ConditionVariable` every worker is weakly fair, in `Gate` every
coroutine: the runtime runs whatever has been submitted to it. In `Clients` one
condition suffices: as long as some worker can run, one does. In `EchoServer` the process runs its loop and the kernel completes reads,
writes and closes that can complete; faults, short sends and peers owe nothing.

## Proofs

All theorems hold for any number of contexts, tasks, coroutines, workers, senders,
receivers, waiters and openers and any capacity; they assume the named `ASSUME`s of
the modules, and two of them a condition on the workload, stated below.

The runtime, `Scheduler`:

- `SchedulerProofs`: `TypeOK` and what each place in the code implies about the
  thread's locals. `m_wait_count` equals queued plus executing plus registered; the
  count of registered submitters is a cardinality, so the lemmas say how adding or
  removing one caller changes it. The I/O counters are upper bounds of what the
  rings and the kernel hold, so that zero means no I/O; with the wait count and what
  the loop condition has tested this gives `ExitsDrained`. Theorems `TypeCorrect`,
  `WaitCountCorrect`, `ExitsDrainedCorrect`.
  `NoLostWakeup` is not inductive, because a worker decides to block several steps
  before it does. The strengthening (`Alert`) says that from its last look at the
  queue on, what was pushed since has its eventfd write done or under way, and that
  a stopped worker past the loop condition still has a reason to come back. Theorem
  `NoLostWakeupCorrect`.
  As long as no task suspends and none but the initial ones exists, nobody but the
  main thread submits, so that a context the pass has found idle stays idle; that no
  worker exists before the initial submissions are over is the other half. Theorem
  `IndependentQuiescentCorrect`.
- `HandleProofs`: the invariant `Handles` names every place a handle can be in (a
  task queue, a running worker, inside a `submit_task` call, the submission ring, the
  kernel, the unreaped part of the completion ring, a wait list) and says that the
  places are disjoint, hold nothing twice, and hold every live frame. A step is a
  move from one place to another; one lemma per kind of move keeps the invariant.
  Four theorems follow. `NoConcurrentResumeCorrect`: two workers never resume one
  coroutine. `IoCountersExactCorrect`: the counters are equalities, since handles
  that are disjoint add up. `FramesAliveCorrect`, for tasks that await no other
  task, if they suspend in I/O only or there is one worker: the handle a worker still looks at after `resume()` has
  finished or lies where only that worker takes it from (`Ends`). `AllTasksRunCorrect`,
  if coroutines submit locally: a worker that has left its loop leaves nothing behind
  and nobody sends to it (`Quit`), so that a live frame at the end can only be in a
  wait list. Without these two conditions the statements are false, as `stale_frame`
  and `lost_task` show.

The primitives:

- `ChannelProofs`: the invariant joins types, the wait lists being exactly the
  suspended coroutines, waiting only on a full or empty open channel, `accepted`
  being `delivered` followed by the buffer, and what each pending answer says.
  Theorems `TypeCorrect`, `WaitersBlockedCorrect`, `FifoOrderCorrect`,
  `NulloptCorrect`, `AnswersTrueCorrect`, and `Refinement`.
- `GateProofs`: `WaitersCovered` needs that the lists hold only waiting coroutines
  and that a wait group is not yet in use while its `add()` calls are made;
  `NobodyPassesEarly` that the counter is the number of openers still to count down.
  Theorems `WaitersCoveredCorrect`, `NobodyPassesEarlyCorrect`, `WokenOnceCorrect`.
- `ConditionVariableProofs`: again every handle is in one place, held, queued, or in
  the wait list of the mutex or of a condition variable. Whoever is in a list goes on
  with the lock, so that its next owner is its first waiter. A batch that has been
  counted still fits when it is moved (`QueueInv`), because its coroutine owns the
  lock in between and nobody else changes the queue; what it was notified about plays
  no part. Theorems `HandleInOnePlaceCorrect`, `LockOwnedCorrect`,
  `QueueBoundedCorrect`, for `notify_one` as for `notify_all`.
- `Items` has the lemmas about sequences, and about lists without repetition, that the
  other proofs share.

Beside the runtime:

- `ProgramProofs`, the spinlock: a thread inside holds `lock_`, and only one does
  (`SpinlockExcludes`, for any set of threads).
- `ProgramProofs`, tasks, for any number of frames and pauses. A finished coroutine
  has filled its container, so that what an awaiter reads is no made-up result
  (`ResultReachesAwaiterCorrect`). The other three need one invariant, `TaskInv`,
  because whether a frame dies twice depends on who may still act. Ownership: a frame
  lives as long as the one its object is in, a detached one has no object, and no
  object lies in the frame it names, however deep (`NoCycle`). Resumption: the running
  coroutine and each queued one is the tip of a chain of coroutines that await one
  another, in which each is held by the next, up to a root; as two chains share no
  frame, the end of one touches no other. `Finished` says of a detached root that has
  finished on its own handle that it is freed or that the engine is about to look at it. `WithLocals`, the frames that die with a set, is the least set closed under
  "its object is in", so that a set shown closed bounds it from above without an
  induction. Then nothing that may still be resumed is freed
  (`StaleOnlyNestedCorrect`), nothing is freed twice and what is never freed is known
  (`FramesReclaimedCorrect`), and when no tip is left no root is unfinished
  (`EngineFinishesCorrect`).
- `EchoProofs`, the TCP programs, for any number of connections, messages, slots and
  buffer places: neither `OneOperationEach` nor `SlotsExact` is inductive. The
  invariant `EchoInv` has a socket in one place at most: an operation is prepared, in
  the kernel, or completed and not yet handled, or the socket has been accepted and its
  session has not begun; an accept's completion stands for two sockets. A slot is
  borrowed with the first operation and returned with the close, so an operation
  prepared through a slot still owns it when it is submitted
  (`OneOperationEachCorrect`, `SlotsExactCorrect`). On top of it `DataInv` follows the
  messages: those of a connection are numbered without a gap through what was echoed,
  the part of its buffer that is due to go out, and its inbox, and together they are
  what the peer sent; since a connection has one operation at a time, what is due is
  one number, known from the operation or the completion that carries it
  (`EchoExactCorrect`).

Only model-checked: liveness, which is out of the prover's reach (`Terminates`
and its like need fairness and ENABLED), and the invariant `NothingLost` of
`Clients`, a sum over the jobs of a program, which takes induction over data.

## Not modelled

- Stubs and compile-time code: `when_all`, `parallel` and their examples, `http`,
  concepts and type traits; logging, socket options and the pass-through allocator.
- `uring_proxy`'s `wait_uring`, `handle_for_each_cqe` and `seen_cqe_entry`, which
  the runtime does not call; start-up failures, which exit the process; a full
  submission ring, which ends in a null pointer.
- `timer`, beyond what `Context` says of every I/O awaiter. How long it sleeps starts
  from an `m_ts` the constructor leaves uninitialised (`timer.hpp:85`, `137`), and its
  `count` of 1 lets any other completion on the ring end it early (`timer.hpp:132-133`),
  so that no statement about the duration holds of the code. Its `set_by_` functions and
  `get_kernel_timespec` do not compile when used.
- `co_await` of an empty task object, which dereferences a null handle.
- In `lab5b_bench.cpp` the thread pool's jobs, which use a dead loop variable, and
  the `notify_all` over the standard library, which unlocks its mutex twice: no
  outcome of them is worth a property. `example_bench.cpp` measures nothing.
- `stdin_client.cpp` (an endless loop that ignores its results), `stack_call.cpp` (an
  instance of what `Task` explores), `cv_notify_one.cpp` and `cv_notify_all.cpp`
  (`ConditionVariable` has the tests' clients instead).
- `io_uring/example/event_fd.cpp` and `C++20_coroutine/`: demonstrations that share
  nothing with the library.
- Of the primitives: `wait` without a condition, a wait group used again, a latch counted below zero, a second
  `set` that races with the read of an event's value. No code outside the tests
  depends on them.
