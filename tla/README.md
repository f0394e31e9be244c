# Lotto: a TLA+ model of the runtime, the engine, record/replay and synchronisation

Lotto runs a multithreaded program one task at a time, decides at every intercepted event
which task goes on, and writes a trace from which the same schedule can be repeated.  This
directory holds a model of the part of Lotto that has to be right for that: who may run,
who wakes whom, what is recorded and read back, and how the handlers that stand for pthread
work together.  The modules are checked with TLC
on small instances; the switcher is also proved correct with TLAPS for any number of tasks.

## The system

An event of a thread takes this way (`doc/design.md`, `doc/architecture.md`):

    INTERCEPT_* -> CAPTURE_* -> INGRESS_*  -> mediator -> engine -> sequencer -> plan
                                                 |                                |
                                             switcher <---------------------------+

| Part | Source | Module |
| --- | --- | --- |
| switcher: parks all threads but one | `src/runtime/switcher.c`, `futex.c` | `SwitcherSpec`, `Switcher` |
| interceptors, ingress, mediator: executes plans | `src/runtime/{ingress,subscribe,mediator}.c` | `Runtime` |
| engine: entry points and contract | `src/engine/{engine,plan}.c` | `Runtime` |
| sequencer: handlers, decision, plan | `src/engine/{sequencer,task}.c` | `Runtime`, `Replay` |
| blocking, impasse handlers | `modules/{blocking,impasse}` | `Runtime`, `Replay`, `Sync` |
| mutexes | `modules/mutex` | `Mutexes`, used by `Runtime` and `Sync` |
| read-write locks, joins | `modules/{rwlock,join}` | `Rwlock`, `Join`, `Sync` |
| condition variables, timeouts, virtual clock, sleep | `modules/{evec,timeout,clock,sleep}` | `Evec`, `Sync` |
| recorder, trace preparation | `src/engine/recorder.c`, `src/driver/trace_utils.c` | `Replay` |
| exit: signals, assertions, finalization | `src/runtime/{module,sighandler}.c` | `Exit` |

A *task* is a thread seen by Lotto.  A *capture* is an event handed to the engine, a
*resume* the moment the task goes on.  A task is *detached* while it is in an external call
that Lotto does not control.  The *mark* is `_switcher.next`, the task that may leave
`switcher_yield`; `ANY_TASK` stands for whoever comes first.

## The modules

`Tasks` declares the tasks and the two special ids.  Every other module except `Exit`
extends it.

### SwitcherSpec: what the switcher promises

State: the place of every thread with respect to the switcher (`new`, `run`, `out`, `in`,
`done`), the mark `next`, and the tasks their filter holds back.  Actions: `Create`,
`Refilter`, `Wake`, `Yield`, `Return`.  `doc/design.md` states the contract: "there must be
a return from yield between two wakes", "if a task can wake itself it must do it before it
yields".  Two modules implement it, one from below and one from above.

### Switcher: the code of the switcher

| Code | Model |
| --- | --- |
| `_switcher.next`, `.prev`, `.status`, `.slack`, `.cnd_counter` | the variables of these names |
| a section between `vmutex_acquire` and `vmutex_release` | one action |
| `vcond_wait`: read the value, release the mutex, `futex_wait` | `Block`, then `FutexWait` or, when a signal changed the value, straight to `woken` |
| `vcond_signal` | `Signalled` and `Dequeued`: one sleeper of the bucket, and every thread between the mutex and the futex |
| `sys_nanosleep` for the slack, without the mutex | `Wakeup` to `slack`, then `SlackEnd` |
| `switcher_wake`, `switcher_abort` | `Wake`, `Abort` |

A futex may also return without a wake (`FutexSpurious`).  The length of the slack is
abstracted to zero or not zero.  `Wake` and `Create` are the callers the runtime has.

### Runtime: the way of an event

Each thread has a program counter, the capture point it is at and what is left of the plan
of its mediator.  The engine is the functions `EngineCapture`, `EngineResume` and
`EngineReturn`, run in the thread of the caller as in the code; `engine_return` is called
by detached threads while others run.  A capture runs the handlers in the order of their
slots: creation, blocking, mutex, impasse.  Handlers that are not modelled show as
nondeterminism: whether an event is a change point, which of the selectable tasks is
chosen, whether a limit ends the run.  `ActionsFor` gives the plan as a sequence in the
order in which `plan_next` finds the bits.  `_plan_optimize` of the mediator has nothing
to do, as no plan carries an optimization.

The program may do anything: create tasks, end, call something external, lock, try to
lock and unlock a mutex (recursively up to `MaxCount`), cause other events, exit.

### Replay: record and replay

Several runs of one program.  The first one records; every other one replays the trace of
the run before it up to a goal and goes on freely.  What a run does on its own accord and
what only repeats is separated by two operators: `Ops` (the program is deterministic) and
`Picks` (the generator of random numbers is seeded by the trace).  Everything else may be
different in each run: above all the moments at which calls return.  `Loaded`, `Left` and
`Status` are the loop of `_recorder_replay_next`, `Returned`, `BlockedActual` and
`BlockedReplay` the two sets of blocked tasks of the blocking module, `Deviated` the rule
by which `sequencer_resume` records.  `Prepared` is what `lotto replay` makes of a trace.

The record granularity belongs to the process and not to the trace: `lotto replay` sets
`LOTTO_RECORD_GRANULARITY` and the sequencer reads it after the CONFIG record, so `Setup`
gives every run its own (`Granularity`).  Of the records a replay loads, CONFIG records are
written again and SCHED records are not.

The threads of `Runtime` are simplified: a wake and the following yield are one step, since
`Runtime` shows that nothing comes in between that the engine sees.

### Mutexes, Rwlock, Evec, Join and Sync: synchronisation

Lotto does not call the mutexes, condition variables, read-write locks and joins of
pthread: handlers stand for them.  Each keeps its own state and at every capture removes
the tasks that have to wait from the set of selectable ones; the timeout handler, which
comes after them, adds tasks whose time has come.  One module per handler has its state,
its capture part (`Waiters`, `RwCapture`, `EvecCapture`, `TimeoutCapture`, `JoinCapture`,
`SleepCapture`), whom it holds back (`HeldBack`, `RwHeldBack`, `JoinHeldBack`,
`evec.waiting`) and its resume part (`MutexResume`, `RwResume`, `EvecResume`).

`Sync` puts them together: `Capture` runs all of them in the order of their slots and
selects a task, `Resume` runs the resume handlers of the selected one.  A call of the
program is the sequence of events its subscriber publishes, so `CondWait` is prepare,
release, wait, acquire, with other tasks running in between.  The program is correct in
that it unlocks and waits with what it has locked (`Legal`).  Lotto ignores the time limit
of a timed lock: `pthread_mutex_timedlock` publishes the event of a plain lock
(`MutexTimedlock`), and the handler of read-write locks treats the timed operations as the
plain ones (`LocksToRead`, `LocksToWrite`).  A timed wait without a time does not block but
leaves the task among the waiters (`EvecWaitInvalid`).

| Code | Model |
| --- | --- |
| `evec->waiters`, `evec->deadlines`, `_state.waiters` of evec | `evec.waiters`, `evec.deadline`, `evec.waiting` |
| the registered deadlines of timeout, `_waiters` of sleep | `evec.timer`, `evec.sleeping` |
| `_clock_tick`, `lotto_clock_leap` | `Advance`: what is kept is the time left until each deadline; a leap may overshoot by the rounding of the code |
| `prng_range` in `_posthandle_wake` | any waiters |
| the filters for `ANY_TASK` | `Filtered` |

### Exit: the end of the process

Any thread may enter `lotto_exit`, at any time: by a signal, by an assertion, by the end of
the program, by a plan.  Each atomic exchange of `lotto_exit` and `fini_cb_` is an action,
as are the three parts of the finalization that another thread can observe or interrupt.
A signal interrupts a thread that is in `lotto_exit` already.  A capture of the running
task is three steps, because a finalization may come in between: the test of the contract
state, the test of `recorder_replay` that the recorder is open, and the write of CAPTURED
at the end, which may overwrite a FINISHED.  When one of the tests fails the task aborts,
and the handler of SIGABRT takes it to `lotto_exit` (`CaptureAfterFini`); only assertions
of the program go through `__assert_fail` (`AssertFail`).

### MCLive: liveness

The liveness of `Switcher`, `Runtime` and `Replay` is checked in one run.  A behaviour is
one of one of the three models (`part`), and the state of the others does not change.

## What is checked

| Run | Instance | Shows |
| --- | --- | --- |
| `switcher_safety` | 3 tasks, 2 buckets, aborts | `NoLostWakeup`: while the mark lets out a task that sleeps, some task of its bucket is awake and passes the signal on. `OneRunner`: one task at a time may wake, and finds the mark down. `CounterExact`: `cnd_counter` is exact, on which the wake of `ANY_TASK` relies. |
| `runtime_safety` | 3 tasks, 1 mutex | `EngineContract`: the assertions of `engine.c`, with tasks in the engine one at a time. `PlanContract`: `_check_plan` and the assertions of `task.c`. `BlockedExact`: the blocked set is right although tasks return concurrently. `TargetIsReady`: the mark goes to a task that can take it. `MutexRespected`: a lock is never entered twice, be it by id or by `ANY_TASK`. `NoLottoDeadlock`: while a task is active, something can happen. `UsesSwitcher`: the plans use the switcher as `SwitcherSpec` asks. |
| `runtime_create_fails` | 2 tasks | a violation, see the findings |
| `replay` | six setups, see `MCReplay` | `Faithful`: up to the goal a replay repeats the schedule. `LoadAgrees`: the assertion of `sequencer_capture` about loaded records. `ClocksAgree`: the assertions of the recorder about clocks, and the replay ends exactly at its goal. `BlockedSound`: the blocked tasks during and after a replay. `TargetComes`: the mark goes to a task that comes. |
| `replay_again` | 2 tasks, three runs | a violation, see the findings |
| `live` | fair threads; switcher: 3 tasks in one bucket; runtime: 2 tasks, recursive mutex; replay: 2 tasks, two setups | `ImplementsLiveAbs`: the code of the switcher implements `SwitcherSpec` and a task the mark lets out leaves. `SelectedResumes`: the task that is handed the mark resumes, and `ANY_TASK` is taken. `ReplayReachesGoal`: a replay does not wait for a task that never comes. |
| `sync` | 3 tasks, 1 mutex, 1 lock, 2 events, five programs | `LocksRespected`: the assertions about locks hold whichever handler made a task selectable. `TimerHasItsWaiter`: a timer never outlives the timed wait it was set for. `WaiterCanBeWoken`: a waiter is registered where a wake, or its timeout, finds it. `ImpasseIsDeadlock`: "Deadlock detected!" is reported only when every task is stuck (the time limits of locks aside, see the findings). `JoinDelivers`, `JoinsAcyclic`: joins return when and only when they should, and never in a circle. |
| `sync_signal`, `sync_sleep`, `sync_timedlock` | 3 tasks; 2 for the last one | violations, see the findings |
| `exit` | 3 threads, 2 signals, fair | `FinalizedOnce`, `SuccessIsRecorded`: exit code 0 means a trace that says so. `FailureNotForgotten`: an announced failure is never taken for a success. `ProcessEnds`. |
| `exit_signal` | 2 threads, 1 signal | a violation, see the findings |

For every property of a passing run there is a mutated definition, next to the original,
that stands for a plausible mistake in the code and that violates the property.

### Bounds

Three tasks are the least with which a wrong task of a bucket can take the signal of
another one, two calls can overlap while a third task runs, and two failing threads can
overtake a third.  Two buckets are enough to have a shared and a skipped one.  A mutex is
locked at most `MaxCount` times by its owner: 1 with three tasks, 2 with two.  In `Replay`
a run has at most `maxclk` captures, 3 to 5, which is what it takes to leave for a call,
be overtaken, return and be chosen again; `runs` is 2, and 3 for the replay of a replay;
in `live` 3 captures with change points and 4 without;
`beyond` bounds the captures after the goal and `trim` how far the goal lies before the end
of the trace.  In `Sync` a task makes at
most `max` calls, 1 to 4 depending on the program: enough for a task to lock, wait and
signal, and for a lock to be read twice and written.  `Patience` is 2 ticks, so that a timed
wait can end by events of others, by a leap of the clock or not at all; `Nap` is 1.  The
program with two events makes one call per task, because the second one can meet the
flaw `sync_signal` shows.  `MaxSignals` is 2: one that starts the exit and one that interrupts it.

### Deadlock and fairness

TLC's check for deadlocks is off where the model really stops: in the switcher when all
threads have ended or the marked one has left for good, in `Replay` at the bounds, and in
`Runtime` when creation fails.  In `Runtime` otherwise, in `Exit` and in `Sync` it is
on; in `Sync` it says that somebody can always resume while the run is not over.

Fairness is weak fairness of the steps a thread takes inside of Lotto: the operating system
schedules it and nothing else can hold it.  In the switcher this includes getting the
mutex, which is contended for a bounded time only.  The code of the program, its external
calls and signals get no fairness, with one exception: in the replays of `live` calls return,
because a replay cannot go on if a call that returned in the recorded run does not.

## What is proved

With TLAPS, for any set of tasks and, in `SwitcherProofs`, any number of buckets.

| Theorem | States |
| --- | --- |
| `SwitcherSpecProofs!SequentialExecution` | tasks run one at a time and the mark is down while one runs |
| `SwitcherSpecProofs!RightNeverLost` | a task runs or the mark is up |
| `SwitcherProofs!NoWakeupIsLost` | `NoLostWakeup` |
| `SwitcherProofs!WakesAreSequential` | `OneRunner` |
| `SwitcherProofs!CountersAreExact` | `CounterExact` |
| `SwitcherProofs!Implementation` | without `switcher_abort`, `Switcher` implements `SwitcherSpec` |

Assumptions: tasks are a finite set of naturals, there is at least one bucket, and the two
special ids are different and not tasks.

The inductive invariant `Inv` adds `QueueExact` to the checked properties: the queue of a
futex lists exactly the parked tasks of its bucket, each once.  It is needed because a
signal wakes the head of the queue: `NoLostWakeup` is preserved by a wake only if a
non-empty bucket has a head that is one of its sleepers, and by a spurious return only if
the thread that returns leaves the queue.  `CounterExact` is needed for `NoLostWakeup` at a
wake of `ANY_TASK`, which signals only buckets with a positive counter.  The lemmas
`ListsAppend`, `ListsTail` and `ListsRemoveAt` say what queue operations do to the set a
sequence lists; `SignalStep` says once what a signal does, for the wake and for the baton;
`BlockStep` and `LeaveStep` are the loop body and the exit of `switcher_yield`, shared by
the three actions that contain them.  The refinement needs `OneRunner`, because the
abstract wake requires that the mark is down.

Only model-checked: everything about `Runtime`, `Replay`, `Sync` and `Exit`, and all liveness, which
is outside of what the prover can do (fairness and ENABLED).

## Findings

- `runtime_create_fails`: when the real `pthread_create` fails, Lotto deadlocks.  The plan
  of a creation contains no wake, because the new task wakes its parent; nobody looks at
  the return value (`src/runtime/subscribe.c:99`).  `doc/design.md:424` says Lotto cannot
  deadlock.
- `exit_signal`: a signal, or the running task whose next capture meets the finished engine,
  calls `_exit(1)` before the finalizing thread has written the EXIT record
  (`src/runtime/module.c:169`).  `doc/design.md:264` says that each signal lets the engine
  finalize the trace.
- `sync_signal`: a task whose timed wait has ended stays in `evec->waiters`
  (`modules/evec/src/handler.c:250`), and a later signal may be spent on it while another
  task goes on waiting; `evec.h:98` says a wake "Wakes `cnt` waiters of the event."  By the
  same cause a signal for the first event removes the task from `_state.waiters` while it
  is in a timed wait for a second one, and an assertion of `_check_timeouts` fails.
- `replay_again`: the trace a replay writes with the granularity MINIMAL, the default of
  `lotto replay`, lacks the choices that were left to the operating system in the recorded
  run, because SCHED records that are loaded are not written again
  (`src/engine/recorder.c:153`).  Replayed itself, it leads to another schedule.  With the
  granularities CHPT and CAPTURE, which the run `replay` has, it does not.  `doc/design.md:5`
  promises "deterministic replay", and line 461 names "replaying with a different record
  granularity" as a scenario.
- `sync_timedlock`: the time limits of `pthread_mutex_timedlock`
  (`modules/mutex/src/subscribers.c:109`) and of the timed read and write locks
  (`modules/rwlock/src/handler.c:64`) are ignored.  Two tasks that lock in opposite order
  with a limit end in "Deadlock detected!", though either would have returned ETIMEDOUT.
  `doc/design.md:424` promises "not introducing new deadlocks".
- `sync_sleep`: in mode UNTIL a sleeping task is held back at its own event only
  (`modules/sleep/src/handler.c:81`).  It runs early, and its timer, still registered, makes
  it selectable while it waits for a mutex: the assertion "deadlock due to disrespecting
  locks" (`modules/mutex/src/handler.c:162`) fails.

## What is not modelled

- The handlers of strategies, which only narrow the choice that is arbitrary here, and
  `poll`, `deadlock`, `terminate` and `watchdog`, which are planned.
- In `Sync`: tasks that are created late or leave for external calls (`Runtime` has them),
  the status a timed wait returns, detached threads, unlocking what is not locked.  The
  program with two events makes one call per task, so `TimerHasItsWaiter` and
  `WaiterCanBeWoken` are not checked across two timed waits of a task for different events,
  where the flaw of `sync_signal` breaks them.
- Traces as files: chunking, truncation and the encoding of records and states.
- The length of times, memory management, logging, the command line, QEMU, Rust.
- Records of kinds INFO, OPAQUE and FORCE; the `file` recorder, which records without
  START and CONFIG.
- Data races on the bytes of the trace between a capture and a concurrent finalization.
- In `Runtime`, the early return for threads that Dice reports as retired.

`PROJECT.json` lists all parts, and the hazards of the code with the properties that watch
over them.

## Plan

1. Synchronisation: `poll`; a specification of the pthread condition variable that `Evec`
   with a correct `_check_timeouts` implements.
2. Ends of a run: the counters of `terminate` and `watchdog`, the lock graph of `deadlock`.
3. Data: `tidset` (removal by swapping) against a set, the flat and chunked traces against
   a sequence, `cli_trace_schedule_task` with FORCE records in `Replay`.
4. Strategies: `pct` and `pos` (priorities and change points), `region_preemption`, and the
   bisection of `inflex` as an algorithm.
5. Proofs: an inductive invariant for `EngineContract`, `BlockedExact` and `UsesSwitcher` of
   `Runtime` for any number of tasks; `FinalizedOnce` and `FailureNotForgotten` of `Exit`; the
   invariants of `Sync`.
