------------------------------ MODULE Switcher ------------------------------
(***************************************************************************)
(* src/runtime/switcher.c with the futex calls of src/runtime/futex.c.     *)
(*                                                                         *)
(* A task is blocked on the condition variable of its bucket, shared by    *)
(* all the tasks whose ids are equal modulo the number of buckets.  Wake   *)
(* signals ONE waiter of the bucket, which may not be the task that was    *)
(* marked, so a waiter that is not let out signals the bucket again before *)
(* it waits: the signal is a baton that the waiters of the bucket pass on. *)
(*                                                                         *)
(* Between vmutex_acquire and vmutex_release a task is alone, so each such *)
(* section is one action.  vcond_wait reads the value of the condition,    *)
(* releases the mutex and calls futex_wait with the value: between the two *)
(* calls the task is "parking".  vcond_signal changes the value, so that   *)
(* the futex_wait of every parking task returns at once (EAGAIN), and      *)
(* wakes the first thread in the futex queue.                              *)
(***************************************************************************)
EXTENDS Naturals, Sequences, SequencesExt, FiniteSets, Tasks

CONSTANTS
    NBuckets,   \* LOTTO_SWITCHER_NBUCKETS
    CanAbort    \* whether a task may call switcher_abort, as the unit tests do

ASSUME BucketsAssumption ==
    /\ NBuckets \in Nat \ {0}
    /\ Task \subseteq Nat
    /\ IsFiniteSet(Task)
ASSUME AbortAssumption == CanAbort \in BOOLEAN

VARIABLES
    pc,         \* where the thread of each task is
    next,       \* _switcher.next
    prev,       \* _switcher.prev
    status,     \* _switcher.status
    slack,      \* _switcher.slack # 0
    counter,    \* _switcher.cnd_counter
    queue,      \* the threads asleep in the futex of each condition variable
    waits       \* the tasks for which any_task_filter(id) holds

vars == <<pc, next, prev, status, slack, counter, queue, waits>>

Bucket(t) == t % NBuckets
Buckets == 0..(NBuckets - 1)
Status == {"CONTINUE", "CHANGED", "ABORTED"}

\* Outside: "new", "run" (owner of the right to wake), "out", "done".  Inside of
\* switcher_yield: "enter" (before the mutex), "parking" (before the futex),
\* "parked" (in the futex), "woken" (out of it), "slack" (in sys_nanosleep).
Counted == {"parking", "parked", "woken", "slack"}
Inside == Counted \cup {"enter"}
PC == Inside \cup {"new", "run", "out", "done"}

TypeOK ==
    /\ pc \in [Task -> PC]
    /\ next \in Task \cup {NoTask, AnyTask}
    /\ prev \in Task \cup {NoTask}
    /\ status \in Status
    /\ slack \in BOOLEAN
    /\ counter \in [Buckets -> Nat]
    /\ queue \in [Buckets -> Seq(Task)]
    /\ waits \subseteq Task

Init ==
    /\ pc = [t \in Task |-> IF t = Main THEN "run" ELSE "new"]
    /\ next = NoTask
    /\ prev = NoTask
    /\ status = "CONTINUE"
    /\ slack = FALSE
    /\ counter = [b \in Buckets |-> 0]
    /\ queue = [b \in Buckets |-> <<>>]
    /\ waits = {}

-----------------------------------------------------------------------------
(* The condition variables. *)

\* vcond_signal on each bucket of B, for the program counters p.
Signalled(p, B) ==
    [u \in Task |->
        IF /\ Bucket(u) \in B
           /\ \/ p[u] = "parking"
              \/ queue[Bucket(u)] # <<>> /\ u = Head(queue[Bucket(u)])
        THEN "woken" ELSE p[u]]
Dequeued(B) ==
    [b \in Buckets |-> IF b \in B /\ queue[b] # <<>> THEN Tail(queue[b]) ELSE queue[b]]

\* vfutex_wait of a task whose condition was not signalled since it released the mutex.
FutexWait(t) ==
    /\ pc[t] = "parking"
    /\ pc' = [pc EXCEPT ![t] = "parked"]
    /\ queue' = [queue EXCEPT ![Bucket(t)] = Append(@, t)]
    /\ UNCHANGED <<next, prev, status, slack, counter, waits>>

\* The futex may also let a thread out without any wake.
FutexSpurious(t) ==
    /\ pc[t] = "parked"
    /\ pc' = [pc EXCEPT ![t] = "woken"]
    /\ \E i \in 1..Len(queue[Bucket(t)]) :
          /\ queue[Bucket(t)][i] = t
          /\ queue' = [queue EXCEPT ![Bucket(t)] = RemoveAt(@, i)]
    /\ UNCHANGED <<next, prev, status, slack, counter, waits>>

-----------------------------------------------------------------------------
(* switcher_yield *)

CallYield(t) ==
    /\ pc[t] = "out"
    /\ pc' = [pc EXCEPT ![t] = "enter"]
    /\ UNCHANGED <<next, prev, status, slack, counter, queue, waits>>

\* The negation of the condition of the while loop.
Passes(t) == next = t \/ status = "ABORTED" \/ (next = AnyTask /\ t \notin waits)

\* Mutant of Block: the waiter keeps the signal to itself.
BlockSilently(t) ==
    /\ ~Passes(t)
    /\ pc' = [pc EXCEPT ![t] = "parking"]
    /\ UNCHANGED <<next, prev, status, queue>>

\* The body of the loop up to the release of the mutex in vcond_wait: the baton is
\* passed on before the value of the condition is read.
Block(t) ==
    /\ ~Passes(t)
    /\ pc' = [Signalled(pc, {Bucket(t)}) EXCEPT ![t] = "parking"]
    /\ queue' = Dequeued({Bucket(t)})
    /\ UNCHANGED <<next, prev, status>>

\* Mutant of Leave: the mark stays up.
LeaveMarked(t) ==
    /\ Passes(t)
    /\ pc' = [pc EXCEPT ![t] = "run"]
    /\ prev' = t
    /\ status' = IF prev # t \/ next = AnyTask THEN "CHANGED" ELSE "CONTINUE"
    /\ UNCHANGED <<next, queue>>

\* What follows the loop.
Leave(t) ==
    /\ Passes(t)
    /\ next' = NoTask
    /\ IF status = "ABORTED"
       THEN /\ pc' = [pc EXCEPT ![t] = "done"]
            /\ UNCHANGED <<prev, status>>
       ELSE /\ pc' = [pc EXCEPT ![t] = "run"]
            /\ prev' = t
            /\ status' = IF prev # t \/ next = AnyTask THEN "CHANGED" ELSE "CONTINUE"
    /\ UNCHANGED queue

\* Mutant of Enter: the counter is not incremented.
EnterUncounted(t) ==
    /\ pc[t] = "enter"
    /\ \/ Block(t) /\ UNCHANGED slack
       \/ Leave(t) /\ slack' = (status = "ABORTED" /\ slack)
    /\ UNCHANGED <<counter, waits>>

\* From vmutex_acquire to vmutex_release, on the way in.
Enter(t) ==
    /\ pc[t] = "enter"
    /\ \/ Block(t) /\ counter' = [counter EXCEPT ![Bucket(t)] = @ + 1] /\ UNCHANGED slack
       \/ Leave(t) /\ UNCHANGED counter /\ slack' = (status = "ABORTED" /\ slack)
    /\ UNCHANGED waits

\* vcond_wait returned: sleep without the mutex if there is slack, else try again.
Wakeup(t) ==
    /\ pc[t] = "woken"
    /\ \/ /\ slack
          /\ pc' = [pc EXCEPT ![t] = "slack"]
          /\ UNCHANGED <<next, prev, status, counter, queue>>
       \/ ~slack /\ Block(t) /\ UNCHANGED counter
       \/ ~slack /\ Leave(t) /\ counter' = [counter EXCEPT ![Bucket(t)] = @ - 1]
    /\ UNCHANGED <<slack, waits>>

\* sys_nanosleep returned.
SlackEnd(t) ==
    /\ pc[t] = "slack"
    /\ slack' = FALSE
    /\ \/ Block(t) /\ UNCHANGED counter
       \/ Leave(t) /\ counter' = [counter EXCEPT ![Bucket(t)] = @ - 1]
    /\ UNCHANGED waits

-----------------------------------------------------------------------------
(* switcher_wake and switcher_abort, called by the running task. *)

\* The buckets signalled by a wake of n.
WakeBuckets(n) ==
    IF n = AnyTask THEN {b \in Buckets : counter[b] > 0} ELSE {Bucket(n)}

\* The engine decides on n, on the slack, and whether the thread goes on ("out") or
\* ends ("done").
Wake(t, n, p) ==
    /\ pc[t] = "run"
    /\ n = AnyTask \/ (n \in Task /\ pc[n] \notin {"new", "done"})
    /\ p = "done" => n # t
    /\ next' = n
    /\ slack' \in BOOLEAN
    /\ pc' = [Signalled(pc, WakeBuckets(n)) EXCEPT ![t] = p]
    /\ queue' = Dequeued(WakeBuckets(n))
    /\ UNCHANGED <<prev, status, counter, waits>>

Abort(t) ==
    /\ CanAbort
    /\ pc[t] = "run"
    /\ status' = "ABORTED"
    /\ UNCHANGED <<pc, next, prev, slack, counter, queue, waits>>

\* The handlers of the engine, called by the running task, are the only code that
\* changes what the filters say.
Refilter(t) ==
    /\ pc[t] = "run"
    /\ waits' \in SUBSET Task
    /\ UNCHANGED <<pc, next, prev, status, slack, counter, queue>>

\* Creation does not go through the switcher: the child owns the right to wake while
\* it registers itself, and the parent is on its way to switcher_yield.
Create(t, u) ==
    /\ pc[t] = "run"
    /\ pc[u] = "new"
    /\ pc' = [pc EXCEPT ![t] = "out", ![u] = "run"]
    /\ UNCHANGED <<next, prev, status, slack, counter, queue, waits>>

-----------------------------------------------------------------------------

\* What the thread of a task does inside of the switcher once it is there.
Step(t) == FutexWait(t) \/ Enter(t) \/ Wakeup(t) \/ SlackEnd(t)

Next ==
    \/ \E t \in Task : Step(t) \/ FutexSpurious(t) \/ CallYield(t) \/ Abort(t) \/ Refilter(t)
    \/ \E t, u \in Task : Create(t, u)
    \/ \E t \in Task, n \in Task \cup {AnyTask}, p \in {"out", "done"} : Wake(t, n, p)

Spec == Init /\ [][Next]_vars

\* Threads inside of the switcher are scheduled by the operating system, the mutex is
\* fair to each of them and sys_nanosleep ends.
FairSpec == Spec /\ \A t \in Task : WF_vars(Step(t))

-----------------------------------------------------------------------------
(* Properties *)

\* The tasks of bucket b that will look at the mark again without being signalled.
Batons(b) == {u \in Task : Bucket(u) = b /\ pc[u] \in {"woken", "slack"}}

\* No wake is lost: while the mark lets a task out that sleeps, or is about to sleep, on
\* its condition variable, some task of its bucket is awake and will pass the signal on.
\* It holds although wake signals a single thread per bucket, skips the buckets whose
\* counter is 0, and may come between the release of the mutex and futex_wait.
NoLostWakeup ==
    \A t \in Task :
        pc[t] \in {"parking", "parked"} /\ Passes(t) /\ status # "ABORTED"
            => Batons(Bucket(t)) # {}

\* The assertion of switcher_wake (next is NO_TASK) and the point of the switcher: at
\* most one task has the right to wake, and the mark is down while it has it.
OneRunner ==
    status # "ABORTED" =>
        \A t \in Task : pc[t] = "run" =>
            next = NoTask /\ \A u \in Task : pc[u] = "run" => u = t

\* cnd_counter counts the tasks of the bucket between its increment and its decrement
\* that do not hold the mutex; switcher_wake(ANY_TASK) relies on it to skip a bucket.
CounterExact ==
    \A b \in Buckets :
        counter[b] = Cardinality({t \in Task : Bucket(t) = b /\ pc[t] \in Counted})

\* The sequence q lists the members of the set S, each once.
Lists(q, S) ==
    /\ \A i \in 1..Len(q) : q[i] \in S
    /\ \A i, j \in 1..Len(q) : q[i] = q[j] => i = j
    /\ \A x \in S : \E i \in 1..Len(q) : q[i] = x

\* A thread in the futex sleeps in the queue of its own bucket, once: part of the
\* inductive invariant behind NoLostWakeup.
QueueExact ==
    \A b \in Buckets : Lists(queue[b], {t \in Task : Bucket(t) = b /\ pc[t] = "parked"})

\* The refinement mapping: the abstract task is in the switcher from the call of
\* switcher_yield to the release of the mutex with which it leaves.
Place(t) == IF pc[t] \in Inside THEN "in" ELSE pc[t]

Abs == INSTANCE SwitcherSpec WITH place <- [t \in Task |-> Place(t)]

\* The switcher is the one-mark switcher of SwitcherSpec.
ImplementsAbs == Abs!Spec

\* ... and it does not keep a task for ever that the mark lets out, ANY_TASK included.
ImplementsLiveAbs == Abs!LiveSpec
=============================================================================
