------------------------------ MODULE Clients -------------------------------
(***************************************************************************)
(* The programs that use the runtime: the benchmarks of benchtests/ and    *)
(* the examples of examples/. A program submits jobs and waits for them.   *)
(* It runs in one of three ways: "threads" (benchtests' thread_pool, jobs  *)
(* that call the primitives of the standard library), "stl" (coroutines    *)
(* that call those primitives, so that a job that waits holds its worker)  *)
(* and "coro" (coroutines and the primitives of tinyCoroLab, so that a job *)
(* that waits leaves its worker).                                          *)
(*                                                                         *)
(* Executor and primitives are abstract here: a worker runs the jobs of    *)
(* its queue one after the other, and a call on a primitive is one step.   *)
(* What the steps of the runtime and of its primitives are made of is the  *)
(* subject of Scheduler, Channel, Mutex and Gate.                          *)
(***************************************************************************)
EXTENDS Integers, Sequences, FiniteSets

CONSTANTS MaxThreads,   \* bound: hardware_concurrency()
          ExampleTasks, \* bound: TASK_NUM of the examples
          RunCnt,       \* bound: rounds of a job, values a producer sends
          Cap           \* bound: capacity of a queue or a channel

ASSUME ClientsAssumption ==
    /\ MaxThreads \in Nat \ {0} /\ ExampleTasks \in Nat \ {0, 1}
    /\ RunCnt \in Nat \ {0} /\ Cap \in Nat \ {0}

VARIABLES prog,      \* the running program, or NoProgram
          threads,   \* its number of workers
          m_ques,    \* [Workers -> Seq(job)]
          rr,        \* the round robin's next worker
          on,        \* [Workers -> job], 0 when the worker is free
          parked,    \* coroutines suspended in a primitive, first come first
          state,     \* [job -> "ready", "locked", "asleep" or "ended"]
          left,      \* [job]: rounds or values to go; values a receiver has got
          count,     \* gate: openings to go; channel: producers to go
          owner,     \* the job that holds the mutex, or 0
          data,      \* what the mutex protects
          seen,      \* [job]: data as the job read it
          len,       \* values in the queue or channel
          gid

client_vars == <<prog, threads, m_ques, rr, on, parked, state, left, count, owner, data,
                 seen, len, gid>>

Repeat(n, k) == [i \in 1 .. n |-> k]

Program(name, mode, jobs, cnt, quota) ==
    [name |-> name, mode |-> mode, jobs |-> jobs, count |-> cnt, quota |-> quota]

NoProgram == Program("none", "none", <<>>, 0, 0)

-----------------------------------------------------------------------------
(* The programs, n being hardware_concurrency(): the jobs they submit, in  *)
(* their order. Those of lab4a to lab4c wait for a gate ...                *)

GateJobs(opens, waits) == Repeat(opens, "open") \o Repeat(waits, "wait")

event_bench(mode, n) == Program("event", mode, Append(Repeat(n - 1, "wait"), "open"), 1, 1)
threadpool_stl_future(n) == event_bench("threads", n)
coro_stl_future(n)       == event_bench("stl", n)
coro_event(n)            == event_bench("coro", n)

latch_bench(mode, n) == Program("latch", mode, GateJobs(n \div 2, n - n \div 2), n \div 2, 1)
threadpool_stl_latch(n) == latch_bench("threads", n)
coro_stl_latch(n)       == latch_bench("stl", n)
coro_latch(n)           == latch_bench("coro", n)

waitgroup_bench(mode, n) ==
    Program("wait_group", mode, GateJobs(n \div 2, n - n \div 2), n \div 2, 1)
threadpool_stl_waitgroup(n) == waitgroup_bench("threads", n)
coro_stl_waitgroup(n)       == waitgroup_bench("stl", n)
coro_waitgroup(n)           == waitgroup_bench("coro", n)

\* ... those of lab4d lock a mutex; so do the coroutines of lab5b, whose
\* condition_variable::wait is never awaited: they lock and unlock, and that is all ...
mutex_bench(mode, n) == Program("mutex", mode, Repeat(n, "lock"), 0, 1)
threadpool_stl_mutex(n) == mutex_bench("threads", n)
coro_stl_mutex(n)       == mutex_bench("stl", n)
coro_spinlock(n)        == [mutex_bench("stl", n) EXCEPT !.name = "spinlock"]
coro_mutex(n)           == mutex_bench("coro", n)

cv_notifyall_bench(n)   == Program("cv_notifyall", "coro", Repeat(n, "lock"), 0, 1)
coro_cv_notifyall(n)    == cv_notifyall_bench(n)

cv_notifyone_bench(mode, job) == Program("cv_notifyone", mode, Repeat(2, job), 0, RunCnt)
coro_stl_cv_notifyone   == cv_notifyone_bench("stl", "ping")
coro_cv_notifyone       == cv_notifyone_bench("coro", "lock")

\* ... and those of lab5c pass values, through a queue or through a channel.
channel_bench(mode, producer, consumer) ==
    Program("channel", mode, <<producer, consumer>>, 1, RunCnt)
threadpool_stl_channel_int    == channel_bench("threads", "produce", "consume")
threadpool_stl_channel_string == threadpool_stl_channel_int
coro_stl_channel_int          == channel_bench("stl", "produce", "consume")
coro_stl_channel_string       == coro_stl_channel_int
coro_channel_int              == channel_bench("coro", "send", "recv")
coro_channel_string           == coro_channel_int

Benchmarks(n) ==
    {threadpool_stl_future(n), coro_stl_future(n), coro_event(n),
     threadpool_stl_latch(n), coro_stl_latch(n), coro_latch(n),
     threadpool_stl_waitgroup(n), coro_stl_waitgroup(n), coro_waitgroup(n),
     threadpool_stl_mutex(n), coro_stl_mutex(n), coro_spinlock(n), coro_mutex(n),
     coro_cv_notifyall(n), coro_stl_cv_notifyone, coro_cv_notifyone,
     threadpool_stl_channel_int, threadpool_stl_channel_string, coro_stl_channel_int,
     coro_stl_channel_string, coro_channel_int, coro_channel_string}

\* The examples submit a fixed number of tasks, whatever the number of workers.
ex_mutex       == Program("ex_mutex", "coro", Repeat(ExampleTasks, "lock"), 0, 1)
ex_mutex_guard == [ex_mutex EXCEPT !.name = "ex_mutex_guard"]
ex_latch       == Program("ex_latch", "coro", <<"wait">> \o Repeat(ExampleTasks - 1, "open"),
                          ExampleTasks - 1, 1)
ex_latch_guard == [ex_latch EXCEPT !.name = "ex_latch_guard"]
ex_wait_group  == Program("ex_wait_group", "coro", <<"wait", "open", "open", "open">>, 3, 1)
ex_event       == Program("ex_event", "coro", Append(Repeat(ExampleTasks - 1, "wait"), "open"), 1, 1)
ex_event_guard == [ex_event EXCEPT !.name = "ex_event_guard"]
ex_event_value == [ex_event EXCEPT !.name = "ex_event_value"]
ex_channel     == Program("ex_channel", "coro", <<"send", "recv">>, 1, RunCnt)
ex_buffer_channel ==
    Program("ex_buffer_channel", "coro", <<"send", "send", "recv", "recv">>, 2, RunCnt)

Examples == {ex_mutex, ex_mutex_guard, ex_latch, ex_latch_guard, ex_wait_group, ex_event,
             ex_event_guard, ex_event_value, ex_channel, ex_buffer_channel}

-----------------------------------------------------------------------------
(* The executors.                                                          *)

Workers == 0 .. threads - 1
Jobs    == DOMAIN prog.jobs

\* Jobs that wait inside a call hold their worker.
Blocking == prog.mode # "coro"

ClientInit ==
    /\ prog = NoProgram /\ threads = 1 /\ m_ques = [w \in {0} |-> <<>>] /\ rr = 0
    /\ on = [w \in {0} |-> 0] /\ parked = <<>> /\ state = <<>> /\ left = <<>> /\ count = 0
    /\ owner = 0 /\ data = 0 /\ seen = <<>> /\ len = 0 /\ gid = 0

\* submit_task for each job in turn, round robin, before anything runs.
submit_tasks(n, jobs) ==
    [w \in 0 .. n - 1 |->
        SelectSeq([i \in 1 .. Len(jobs) |-> i], LAMBDA i : (i - 1) % n = w)]

\* A program starts: scheduler::init() or a new thread_pool, and the submissions.
Start(n, p) ==
    /\ prog = NoProgram
    /\ prog' = p /\ threads' = n
    /\ m_ques' = submit_tasks(n, p.jobs)
    /\ rr' = Len(p.jobs) % n
    /\ on' = [w \in 0 .. n - 1 |-> 0]
    /\ state' = [j \in DOMAIN p.jobs |-> "ready"]
    /\ left' = [j \in DOMAIN p.jobs |-> IF p.jobs[j] = "recv" THEN 0 ELSE p.quota]
    /\ seen' = [j \in DOMAIN p.jobs |-> 0]
    /\ count' = p.count
    /\ UNCHANGED <<parked, owner, data, len, gid>>

\* What join() or loop() waits for.
AllEnded == \A j \in Jobs : state[j] = "ended"

\* A program whose jobs block their workers has a worker for every job.
Roomy == Blocking => Len(prog.jobs) <= threads

\* A free worker takes the next job of its queue.
run(w) ==
    /\ on[w] = 0 /\ m_ques[w] # <<>>
    /\ on' = [on EXCEPT ![w] = Head(m_ques[w])]
    /\ m_ques' = [m_ques EXCEPT ![w] = Tail(@)]
    /\ UNCHANGED <<prog, threads, rr, parked, state, left, count, owner, data, seen, len, gid>>

\* Worker w is running a job of the given kind that is ready to go on.
Runs(w, kind) == on[w] # 0 /\ prog.jobs[on[w]] = kind /\ state[on[w]] = "ready"

\* The job on w suspends in a primitive.
Park(w) ==
    /\ ~Blocking
    /\ parked' = Append(parked, on[w])
    /\ on' = [on EXCEPT ![w] = 0]

\* Mutant: the handles are dropped.
RoundRobinNone(s) == UNCHANGED <<m_ques, rr>>

\* Handles s, submitted to the scheduler by a primitive ...
RoundRobin(s) ==
    /\ m_ques' = [w \in Workers |-> m_ques[w] \o
                     SelectSeq(s, LAMBDA j : \E i \in DOMAIN s : s[i] = j /\ (rr + i - 1) % threads = w)]
    /\ rr' = (rr + Len(s)) % threads

\* ... or to the context of the worker itself.
Local(w, s) == m_ques' = [m_ques EXCEPT ![w] = @ \o s] /\ UNCHANGED rr

\* The job on w, having used a call's result, goes on or has ended.
GoesOn(w, ends) ==
    /\ on' = [on EXCEPT ![w] = IF ends THEN 0 ELSE @]
    /\ state' = [state EXCEPT ![on[w]] = IF ends THEN "ended" ELSE "ready"]

-----------------------------------------------------------------------------
(* Jobs at a gate: future, latch, wait_group, event.                       *)

\* set_value(), set(), count_down() or done().
OpenGate(w) ==
    /\ Runs(w, "open")
    /\ count' = count - 1
    /\ parked' = IF count = 1 THEN <<>> ELSE parked
    /\ RoundRobin(IF count = 1 THEN parked ELSE <<>>)
    /\ GoesOn(w, TRUE)
    /\ UNCHANGED <<prog, threads, left, owner, data, seen, len, gid>>

WaitGate(w) ==
    /\ Runs(w, "wait")
    /\ \/ count = 0 /\ GoesOn(w, TRUE) /\ UNCHANGED parked
       \/ count > 0 /\ Park(w) /\ UNCHANGED state
    /\ UNCHANGED <<m_ques, rr, prog, threads, left, count, owner, data, seen, len, gid>>

-----------------------------------------------------------------------------
(* Jobs that lock a mutex, or spin on a spinlock.                          *)

try_lock == owner = 0

LockMutex(w) ==
    /\ Runs(w, "lock")
    /\ \/ /\ try_lock
          /\ owner' = on[w]
          /\ state' = [state EXCEPT ![on[w]] = "locked"]
          /\ seen' = [seen EXCEPT ![on[w]] = data]
          /\ UNCHANGED <<on, parked>>
       \/ /\ ~try_lock /\ Park(w)
          /\ UNCHANGED <<owner, state, seen>>
    /\ UNCHANGED <<m_ques, rr, prog, threads, left, count, data, len, gid>>

PopWaiter == parked' = Tail(parked)

\* The protected data is written and the lock handed to the first waiter, if any.
UnlockMutex(w) ==
    /\ on[w] # 0 /\ state[on[w]] = "locked"
    /\ data' = seen[on[w]] + 1
    /\ left' = [left EXCEPT ![on[w]] = @ - 1]
    /\ on' = [on EXCEPT ![w] = IF left[on[w]] = 1 THEN 0 ELSE @]
    /\ LET after == [state EXCEPT ![on[w]] = IF left[on[w]] = 1 THEN "ended" ELSE "ready"]
       IN  \/ /\ parked = <<>>
              /\ owner' = 0 /\ state' = after
              /\ UNCHANGED <<m_ques, rr, parked, seen>>
           \/ /\ parked # <<>>
              /\ owner' = Head(parked)
              /\ state' = [after EXCEPT ![Head(parked)] = "locked"]
              /\ seen' = [seen EXCEPT ![Head(parked)] = data']
              /\ Local(w, <<Head(parked)>>)
              /\ PopWaiter
    /\ UNCHANGED <<prog, threads, count, len, gid>>

-----------------------------------------------------------------------------
(* Jobs with std::mutex and std::condition_variable. What happens under    *)
(* the mutex is one step; a job whose condition is false falls asleep on   *)
(* its worker until it is notified.                                        *)

Asleep == {j \in Jobs : state[j] = "asleep"}

\* The job on w moves to s, and the jobs in woken wake.
Notify(w, s, woken) ==
    /\ state' = [j \in Jobs |-> IF j = on[w] THEN s ELSE IF j \in woken THEN "ready" ELSE state[j]]
    /\ on' = [on EXCEPT ![w] = IF s = "ended" THEN 0 ELSE @]

Turn(w) == gid = on[w] - 1

\* notify_one: wait for the own turn, pass it on, wake one sleeper.
Ping(w) ==
    /\ Runs(w, "ping")
    /\ \/ /\ Turn(w)
          /\ gid' = (gid + 1) % 2
          /\ left' = [left EXCEPT ![on[w]] = @ - 1]
          /\ \E woken \in SUBSET Asleep :
                /\ Cardinality(woken) = (IF Asleep = {} THEN 0 ELSE 1)
                /\ Notify(w, IF left[on[w]] = 1 THEN "ended" ELSE "ready", woken)
       \/ /\ ~Turn(w)
          /\ Notify(w, "asleep", {})
          /\ UNCHANGED <<gid, left>>
    /\ UNCHANGED <<m_ques, rr, parked, prog, threads, count, owner, data, seen, len>>

Batch(w) == IF left[on[w]] < Cap - len THEN left[on[w]] ELSE Cap - len

\* Fill the queue up, as far as there is something to send.
Produce(w) ==
    /\ Runs(w, "produce")
    /\ \/ /\ len < Cap
          /\ len' = len + Batch(w)
          /\ left' = [left EXCEPT ![on[w]] = @ - Batch(w)]
          /\ Notify(w, IF left[on[w]] <= Batch(w) THEN "ended" ELSE "ready", Asleep)
       \/ len >= Cap /\ Notify(w, "asleep", {}) /\ UNCHANGED <<len, left>>
    /\ UNCHANGED <<m_ques, rr, parked, prog, threads, count, owner, data, seen, gid>>

\* Empty the queue.
Consume(w) ==
    /\ Runs(w, "consume")
    /\ \/ /\ len > 0
          /\ left' = [left EXCEPT ![on[w]] = @ - len]
          /\ len' = 0
          /\ Notify(w, IF left[on[w]] <= len THEN "ended" ELSE "ready", Asleep)
       \/ len = 0 /\ Notify(w, "asleep", {}) /\ UNCHANGED <<len, left>>
    /\ UNCHANGED <<m_ques, rr, parked, prog, threads, count, owner, data, seen, gid>>

-----------------------------------------------------------------------------
(* Jobs at a channel.                                                      *)

\* What a channel does with the first parked job and one value: hand over, or refill.
Resume(w, sender, receiver) ==
    /\ left' = [left EXCEPT ![sender] = @ - 1, ![receiver] = @ + 1]
    /\ Local(w, <<Head(parked)>>)
    /\ parked' = Tail(parked)

Keep == UNCHANGED <<m_ques, rr, parked>>

\* Mutant: every producer closes the channel.
LastProducerAny == TRUE

LastProducer == count = 1

\* The producer sends its values one by one; the last to finish closes the channel.
Send(w) ==
    /\ Runs(w, "send")
    /\ \/ /\ left[on[w]] > 0 /\ parked # <<>> /\ prog.jobs[Head(parked)] = "recv"
          /\ Resume(w, on[w], Head(parked))
          /\ UNCHANGED <<on, state, len, count>>
       \/ /\ left[on[w]] > 0 /\ len < Cap /\ ~(parked # <<>> /\ prog.jobs[Head(parked)] = "recv")
          /\ len' = len + 1
          /\ left' = [left EXCEPT ![on[w]] = @ - 1]
          /\ Keep /\ UNCHANGED <<on, state, count>>
       \/ /\ left[on[w]] > 0 /\ len = Cap
          /\ Park(w)
          /\ UNCHANGED <<m_ques, rr, state, left, len, count>>
       \/ /\ left[on[w]] = 0
          /\ count' = IF LastProducer THEN 0 ELSE count - 1
          /\ IF LastProducer THEN Local(w, parked) /\ parked' = <<>> ELSE Keep
          /\ GoesOn(w, TRUE)
          /\ UNCHANGED <<left, len>>
    /\ UNCHANGED <<prog, threads, owner, data, seen, gid>>

\* The consumer receives until it sees nullopt.
Recv(w) ==
    /\ Runs(w, "recv")
    /\ \/ /\ len > 0 /\ parked # <<>>
          /\ Resume(w, Head(parked), on[w])
          /\ UNCHANGED <<on, state, len>>
       \/ /\ len > 0 /\ parked = <<>>
          /\ len' = len - 1
          /\ left' = [left EXCEPT ![on[w]] = @ + 1]
          /\ Keep /\ UNCHANGED <<on, state>>
       \/ /\ len = 0 /\ count = 0
          /\ GoesOn(w, TRUE)
          /\ Keep /\ UNCHANGED <<left, len>>
       \/ /\ len = 0 /\ count > 0
          /\ Park(w)
          /\ UNCHANGED <<m_ques, rr, state, left, len>>
    /\ UNCHANGED <<prog, threads, count, owner, data, seen, gid>>

WorkerRuns(w) ==
    \/ run(w) \/ OpenGate(w) \/ WaitGate(w) \/ LockMutex(w) \/ UnlockMutex(w)
    \/ Ping(w) \/ Produce(w) \/ Consume(w) \/ Send(w) \/ Recv(w)

ClientNext ==
    \/ \E n \in 1 .. MaxThreads : \E p \in Benchmarks(n) \cup Examples : Start(n, p)
    \/ \E w \in Workers : WorkerRuns(w)

\* As long as a worker can run, one does.
ClientFairness == WF_client_vars(\E w \in Workers : WorkerRuns(w))

-----------------------------------------------------------------------------
(* Properties.                                                             *)

Total(kind) ==
    LET f[j \in 0 .. Len(prog.jobs)] ==
            IF j = 0 THEN 0 ELSE f[j - 1] + (IF prog.jobs[j] = kind THEN left[j] ELSE 0)
    IN  f[Len(prog.jobs)]

\* No increment under the mutex is lost, whatever the number of workers
\* (examples/mutex.cpp:33 asserts data == 1000000 at the end). What producers have sent is
\* in the queue, within its capacity, or has been consumed, and when a program ends its
\* consumers have seen everything: nullopt never overtakes a value, and the close by the
\* last producer of examples/buffer_channel.cpp comes after all sends.
NothingLost ==
    /\ AllEnded /\ prog # NoProgram /\ prog.jobs[1] = "lock" =>
          data = Len(prog.jobs) * prog.quota
    /\ len \in 0 .. Cap
    /\ prog # NoProgram /\ prog.jobs[1] = "produce" => left[2] = left[1] + len
    /\ prog # NoProgram /\ prog.jobs[1] = "send" =>
          /\ Total("send") + len + Total("recv") = prog.quota * prog.count
          /\ AllEnded => Total("recv") = prog.quota * prog.count

\* Every program ends, provided a job that blocks has a worker of its own. The
\* benchmarks with thread_num jobs always have; the two blocking jobs of lab5b and
\* lab5c need two workers, and wait for ever on a machine with one. On tinyCoroLab's own
\* primitives every program ends with a single worker.
ProgramEnds == (prog # NoProgram /\ Roomy) ~> AllEnded
=============================================================================
