-------------------------------- MODULE Sync --------------------------------
(***************************************************************************)
(* The handlers that stand for the synchronisation of pthread, together:   *)
(* each removes tasks from the set of those that may run, in the order of  *)
(* their slots, and the timeout handler adds some.  The tasks call pthread *)
(* functions, each a sequence of captured events (the subscribers of the   *)
(* mutex, rwlock, evec, join and sleep modules).                           *)
(*                                                                         *)
(* Module Runtime has the way of one event in detail and shows that tasks  *)
(* run one at a time.  Here an event is two steps: a task captures it and  *)
(* the selected task resumes.  The tasks exist from the start and make no  *)
(* external calls.                                                         *)
(***************************************************************************)
EXTENDS Sequences, Mutexes, Rwlock, Evec, Join

CONSTANTS
    Setups      \* the programs: [calls : the calls tasks make, max : how many each]

VARIABLES
    setup,      \* the program that runs
    running,    \* the task that executes code of the program, or NoTask
    at,         \* the event each task is stopped at
    todo,       \* the events of its current call that follow
    left,       \* how many calls it may still make
    next,       \* the selected task
    over        \* why the run ended, or "no"

control == <<setup, running, at, todo, left, next, over>>
vars == <<control, mutexes, lock, evec, joins>>

At(type, addr) == [type |-> type, addr |-> addr]

\* The calls, as the subscribers turn them into events
MutexLock(m) == <<At("ACQUIRE", m)>>
\* pthread_mutex_timedlock publishes the event of a lock, without the time limit
MutexTimedlock(m) ==
    <<[type |-> "ACQUIRE", addr |-> m, func |-> "pthread_mutex_timedlock"]>>
MutexTrylock(m) == <<At("TRYACQUIRE", m)>>
MutexUnlock(m) == <<At("RELEASE", m)>>
CondWait(e, m) ==
    <<At("PREPARE", e), At("RELEASE", m), At("WAIT", e), At("ACQUIRE", m)>>
CondTimedwait(e, m) ==
    <<At("PREPARE", e), At("RELEASE", m), At("TIMED_WAIT", e), At("ACQUIRE", m)>>
CondSignal(e) == <<At("WAKE", e)>>
CondBroadcast(e) == <<At("WAKE_ALL", e)>>
EvecWaitFor(e) == <<At("PREPARE", e), At("TIMED_WAIT", e)>>
EvecWaitInvalid(e) == <<At("PREPARE", e), At("TIMED_WAIT_NULL", e)>>
EvecGiveUp(e) == <<At("PREPARE", e), At("CANCEL", e)>>
EvecMove(e, f) == <<[type |-> "MOVE", addr |-> e, to |-> f]>>
RwCall(type, l) == <<At(type, l)>>
PthreadJoin(u) == <<At("JOIN", u)>>
SleepUntil == <<At("SLEEP_UNTIL", NoTask)>>
Fini == <<At("FINI", NoTask)>>

\* The calls a correct program may make now: it unlocks and waits with what it locked,
\* and joins a task that nobody has joined.
Legal(t, call) ==
    LET c == Head(call) IN
    /\ \A i \in 1..Len(call) : call[i].type = "RELEASE" => owner[call[i].addr] = t
    /\ c.type \in {"ACQUIRE", "TRYACQUIRE"} => owner[c.addr] # t
    /\ c.type = "RWUNLOCK" => lock[c.addr].writer = t \/ Reads(c.addr, t)
    /\ LocksToRead(c) \/ c.type = "TRYRDLOCK" => lock[c.addr].readers[t] < 2
    /\ c.type = "JOIN" => c.addr \in pthreads \/ c.addr \notin tasks
    /\ c.type = "MOVE" => t \notin evec.waiters[c.addr]

Init ==
    /\ setup \in Setups
    /\ running = Main
    /\ at = [t \in Task |-> At("INIT", NoTask)]
    /\ todo = [t \in Task |-> <<>>]
    /\ left = [t \in Task |-> setup.max]
    /\ next = NoTask
    /\ over = "no"
    /\ MutexInit /\ RwInit /\ EvecInit /\ JoinInit

Alive == {t \in Task : at[t].type # "FINI"}

\* sequencer_capture of task t at c: the handlers of clock, join, mutex, rwlock, evec,
\* timeout, impasse and sleep, in this order.  The report of a task that waits for
\* itself ends the run, or an assertion of the resume handler of the rwlock does.  Only
\* a join that does not wait is no change point.
Capture(t, c) ==
    /\ at' = [at EXCEPT ![t] = c]
    /\ JoinCapture(t, c)
    /\ waiters' = Waiters(t, c)
    /\ RwCapture(t, c)
    /\ \E tick \in 0..1 :
          LET s == EvecCapture(Advance(evec, tick), t, c)
              tset == Alive' \ (JoinHeldBack' \cup HeldBack(waiters') \cup RwHeldBack'
                                  \cup s.waiting)
          IN  \E r \in TimeoutCapture(s, tset) :
                 LET sel == IF c.type = "SLEEP_UNTIL" THEN r.tset \ {t} ELSE r.tset IN
                 /\ evec' = SleepCapture(r.evec, t, c)
                 /\ over' = CASE r.tset = {} -> "impasse"
                              [] SelfDeadlock(t, c) -> "deadlock"
                              [] OTHER -> "no"
                 /\ next' \in CASE c.type = "JOIN" /\ waitee'[t] = NoTask -> {t}
                                [] sel = {} -> {AnyTask}
                                [] OTHER -> sel
    /\ running' = NoTask
    /\ UNCHANGED <<setup, owner, count>>

\* The task begins a call, or ends.
Call(t) ==
    /\ over = "no" /\ running = t /\ todo[t] = <<>>
    /\ \E call \in (IF left[t] > 0 THEN setup.calls ELSE {})
                      \cup (IF t = Main THEN {} ELSE {Fini}) :
          /\ Legal(t, call)
          /\ Capture(t, Head(call))
          /\ todo' = [todo EXCEPT ![t] = Tail(call)]
          /\ left' = [left EXCEPT ![t] = IF call = Fini THEN 0 ELSE @ - 1]

\* The subscriber goes on with the next event of the call.
Continue(t) ==
    /\ over = "no" /\ running = t /\ todo[t] # <<>>
    /\ Capture(t, Head(todo[t]))
    /\ todo' = [todo EXCEPT ![t] = Tail(@)]
    /\ UNCHANGED left

\* any_task_filter of the event the task is stopped at
Filtered(t) ==
    CASE at[t].type = "ACQUIRE" -> t \in HeldBack(waiters)
      [] LocksToRead(at[t]) \/ LocksToWrite(at[t]) -> t \in RwHeldBack
      [] at[t].type \in {"WAIT", "TIMED_WAIT"} -> t \in evec.waiting
      [] at[t].type = "JOIN" -> t \in JoinHeldBack
      [] at[t].type = "SLEEP_UNTIL" -> t \in evec.sleeping
      [] OTHER -> FALSE

\* The selected task resumes: switcher_yield returns, and sequencer_resume runs the
\* resume handlers.
Resume(t) ==
    /\ over = "no"
    /\ t \in Alive
    /\ next = t \/ (next = AnyTask /\ ~Filtered(t))
    /\ next' = NoTask
    /\ running' = t
    /\ at' = [at EXCEPT ![t] = At("NOP", NoTask)]
    /\ MutexResume(t, at[t])
    /\ RwResume(t, at[t])
    /\ evec' \in EvecResume(evec, t, at[t])
    /\ UNCHANGED <<setup, todo, left, over, joins>>

\* The main thread returns from main.
Return ==
    /\ over = "no" /\ running = Main /\ todo[Main] = <<>>
    /\ over' = "success"
    /\ UNCHANGED <<setup, running, at, todo, left, next, mutexes, lock, evec, joins>>

Ended == over # "no" /\ UNCHANGED vars

Next ==
    \/ Return \/ Ended
    \/ \E t \in Task : Call(t) \/ Continue(t) \/ Resume(t)

Spec == Init /\ [][Next]_vars

-----------------------------------------------------------------------------
(* Properties *)

TypeOK ==
    /\ setup \in Setups
    /\ running \in Task \cup {NoTask} /\ next \in Task \cup {NoTask, AnyTask}
    /\ over \in {"no", "impasse", "deadlock", "success"}
    /\ left \in [Task -> 0..setup.max]
    /\ owner \in [Mutex -> Task \cup {NoTask}] /\ count \in [Mutex -> 0..1]
    /\ waiters \in [Mutex -> SUBSET Task]
    /\ lock \in [Lock -> [writer : Task \cup {NoTask}, readers : [Task -> 0..2],
                          readWaiters : SUBSET Task, writeWaiters : SUBSET Task]]
    /\ evec \in [waiters : [Event -> SUBSET Task], deadline : [Event -> [Task -> 0..Off]],
                 waiting : SUBSET Task, timer : [Task -> 0..Off], sleeping : SUBSET Task]
    /\ {pthreads, tasks, terminated} \subseteq SUBSET Task
    /\ waitee \in [Task -> Task \cup {NoTask}]

\* The assertions of the resume handlers of the mutex and rwlock modules ("deadlock due to
\* disrespecting locks"): a task is selected for its lock only when the lock is free for
\* it, whichever handler put it among the tasks that may run, and nobody reads a lock
\* that is written.
LocksRespected ==
    /\ over = "no" /\ next \in Task =>
          LET c == at[next] IN
          /\ c.type = "ACQUIRE" => owner[c.addr] = NoTask
          /\ LocksToRead(c) => ~IsWriteLocked(c.addr)
          /\ LocksToWrite(c) => ~IsWriteLocked(c.addr) /\ ~IsReadLocked(c.addr)
    /\ \A l \in Lock : ~(IsWriteLocked(l) /\ IsReadLocked(l))

\* The timeout handler makes a task runnable when its timer goes off, whatever the other
\* handlers say.  So a timer may only be set while its task is stopped at the timed wait
\* it was set for: a wake, a move, a leap of the clock and the timeout itself all have to
\* clear or keep it.
TimerHasItsWaiter ==
    \A t \in Task : evec.timer[t] # Off =>
        /\ at[t].type = "TIMED_WAIT"
        /\ t \in evec.waiting \/ evec.timer[t] = 0

\* A task that waits for an event can still be woken: it is among the waiters of an
\* event, also when a wake came between its prepare and its wait and when its event was
\* moved, and a task in a timed wait has a deadline there that the timeout handler knows.
\* These are also the assertions of _check_timeouts.
WaiterCanBeWoken ==
    /\ \A t \in evec.waiting : \E e \in Event :
          /\ t \in evec.waiters[e]
          /\ at[t].type = "TIMED_WAIT" =>
                evec.deadline[e][t] = evec.timer[t] /\ evec.timer[t] # Off
    /\ \A t \in Task, e \in Event : evec.deadline[e][t] # Off => t \in evec.waiting

\* What keeps a task from running by the rules of pthread, the time limit of a lock aside.
Stuck(t) ==
    LET c == at[t] IN
    CASE c.type = "ACQUIRE" -> owner[c.addr] \notin {NoTask, t}
      [] LocksToRead(c) -> lock[c.addr].writer \notin {NoTask, t}
      [] LocksToWrite(c) -> \E u \in Task \ {t} : lock[c.addr].writer = u \/ Reads(c.addr, u)
      [] c.type = "WAIT" -> \E e \in Event : t \in evec.waiters[e]
      [] c.type = "JOIN" -> c.addr \in Alive
      [] OTHER -> FALSE

\* "Deadlock detected! (impasse)" is only reported when every task is stuck: none is in
\* a timed wait, whose end the clock leaps to, none reads a lock it could read, and none
\* joins a task that has ended.  A task in a timed lock counts as stuck while others have
\* the lock, as it does for Lotto.
ImpasseIsDeadlock == over = "impasse" => \A t \in Alive : Stuck(t)

InTimedLock(t) ==
    \/ at[t].type \in {"TIMEDRDLOCK", "TIMEDWRLOCK"}
    \/ at[t] = Head(MutexTimedlock(at[t].addr))

\* doc/design.md on liveness: "the strongest liveness guarantee Lotto can provide is not
\* introducing new deadlocks."  A task in a timed lock goes on by itself, with ETIMEDOUT,
\* so that a run with such a task does not end in "Deadlock detected! (impasse)", not even
\* one in which no task has ended and left a lock behind.
NoNewDeadlock == over = "impasse" /\ Alive = Task => \A t \in Task : ~InTimedLock(t)

\* pthread_join returns 0 only when the task has ended, and delivers its value, no matter
\* whether the task ended before the join or during it.
JoinDelivers ==
    \A t \in Task : joinRet[t].ret = "0" /\ waitee[t] = NoTask =>
        joinRet[t].of \in Task \ Alive

\* The joins never form a cycle: the one that would close it returns EDEADLK.
JoinsAcyclic == \A t \in Task : waitee[t] # NoTask => t \notin Chain(waitee[t])

\* Task u waits for e or is about to: it has neither been woken nor timed out.
InWait(u, e) ==
    /\ u \in evec.waiters[e]
    /\ at[u].type # "PREPARE"
    /\ \/ u \in evec.waiting
       \/ \E i \in 1..Len(todo[u]) : todo[u][i] \in {At("WAIT", e), At("TIMED_WAIT", e)}

\* evec.h on lotto_evec_wake, and so on pthread_cond_signal: "Wakes `cnt` waiters of the
\* event."  When a task waits for the event, a signal wakes one that waits.
WakeReachesWaiter ==
    [][\A t \in Task : at[t].type = "WAKE" /\ running = NoTask /\ running' = t =>
          LET W == {u \in Task : InWait(u, at[t].addr)}
          IN  W # {} => \E u \in W : u \notin evec'.waiters[at[t].addr]]_vars
=============================================================================
