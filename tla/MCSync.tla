------------------------------- MODULE MCSync -------------------------------
(* The programs module Sync is checked with, one per group of pthread functions. *)
EXTENDS Sync, TLC

CONSTANTS m, l, e, f    \* a mutex, a read-write lock and two events

Locking == {MutexLock(m), MutexUnlock(m)}

\* Condition variables, with and without a time limit
Conditions ==
    [calls |-> Locking \cup {CondWait(e, m), CondTimedwait(e, m), CondSignal(e),
                             CondBroadcast(e)},
     max |-> 3]

\* The events below the condition variables.  One call each: a task that times out at one
\* event and waits for the other one meets the flaw that TimedWaits shows.
Events ==
    [calls |-> {EvecWaitFor(e), EvecWaitInvalid(e), EvecGiveUp(e), EvecMove(e, f), CondSignal(f),
                MutexTrylock(m)},
     max |-> 1]

ReadersWriters ==
    [calls |-> {RwCall(type, l) : type \in {"RDLOCK", "WRLOCK", "TRYRDLOCK", "TRYWRLOCK",
                                           "RWUNLOCK"}},
     max |-> 4]

\* Locks with a time limit
TimedLocks ==
    [calls |-> {MutexTimedlock(m), MutexUnlock(m), RwCall("TIMEDRDLOCK", l),
                RwCall("TIMEDWRLOCK", l), RwCall("RWUNLOCK", l)},
     max |-> 3]

Joining ==
    [calls |-> {PthreadJoin(u) : u \in Task} \cup {MutexLock(m), CondSignal(e)},
     max |-> 2]

AllSetups == {Conditions, Events, ReadersWriters, TimedLocks, Joining}

\* The timed locks alone
TimedLocking == {TimedLocks}

\* A timed wait and a wait for the same event
TimedWaits ==
    {[calls |-> {MutexLock(m), CondWait(e, m), CondTimedwait(e, m), CondSignal(e)},
      max |-> 2]}

\* sleep in mode UNTIL and a mutex
Sleepers == {[calls |-> {MutexLock(m), SleepUntil}, max |-> 2]}

Symmetry == Permutations(Task \ {Main})
=============================================================================
