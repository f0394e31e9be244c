------------------------------- MODULE Rwlock -------------------------------
(***************************************************************************)
(* The rwlock module: the writer of each lock, how often each task reads   *)
(* it, and who waits to do so.                                             *)
(***************************************************************************)
EXTENDS Naturals, Tasks

CONSTANT Lock       \* the addresses of the read-write locks of the program

VARIABLE lock       \* _state.locks

RwInit ==
    lock = [l \in Lock |-> [writer |-> NoTask, readers |-> [t \in Task |-> 0],
                            readWaiters |-> {}, writeWaiters |-> {}]]

Reads(l, t) == lock[l].readers[t] > 0
IsReadLocked(l) == \E t \in Task : Reads(l, t)
IsWriteLocked(l) == lock[l].writer # NoTask

\* The time limit of a timed lock is in the event and nobody reads it.
LocksToRead(c) == c.type \in {"RDLOCK", "TIMEDRDLOCK"}
LocksToWrite(c) == c.type \in {"WRLOCK", "TIMEDWRLOCK"}

\* _handle_rdlock and _handle_wrlock find that the task waits for itself.
SelfDeadlock(t, c) ==
    \/ (LocksToRead(c) \/ LocksToWrite(c)) /\ lock[c.addr].writer = t
    \/ LocksToWrite(c) /\ Reads(c.addr, t)

\* _handle_rdlock and _handle_wrlock
RwCapture(t, c) ==
    lock' = CASE LocksToRead(c) /\ ~SelfDeadlock(t, c) ->
                    [lock EXCEPT ![c.addr].readWaiters = @ \cup {t}]
              [] LocksToWrite(c) /\ ~SelfDeadlock(t, c) ->
                    [lock EXCEPT ![c.addr].writeWaiters = @ \cup {t}]
              [] OTHER -> lock

\* The loop of _rwlock_handle, and _should_wait: readers wait for the writer and, when
\* the lock is free, for the waiting writers.
RwHeldBack ==
    UNION {CASE IsReadLocked(l) -> lock[l].writeWaiters
             [] IsWriteLocked(l) -> lock[l].readWaiters \cup lock[l].writeWaiters
             [] lock[l].writeWaiters # {} -> lock[l].readWaiters
             [] OTHER -> {} : l \in Lock}

\* Mutant of RwResume: trywrlock does not look for readers.
RwResumeBarges(t, c) ==
    lock' =
        CASE LocksToRead(c) ->
                [lock EXCEPT ![c.addr].readWaiters = @ \ {t}, ![c.addr].readers[t] = @ + 1]
          [] c.type = "TRYRDLOCK" /\ ~IsWriteLocked(c.addr) ->
                [lock EXCEPT ![c.addr].readers[t] = @ + 1]
          [] LocksToWrite(c) ->
                [lock EXCEPT ![c.addr].writeWaiters = @ \ {t}, ![c.addr].writer = t]
          [] c.type = "TRYWRLOCK" /\ ~IsWriteLocked(c.addr) ->
                [lock EXCEPT ![c.addr].writer = t]
          [] c.type = "RWUNLOCK" /\ IsWriteLocked(c.addr) ->
                [lock EXCEPT ![c.addr].writer = NoTask]
          [] c.type = "RWUNLOCK" /\ ~IsWriteLocked(c.addr) ->
                [lock EXCEPT ![c.addr].readers[t] = @ - 1]
          [] OTHER -> lock

\* _posthandle_rdlock, _posthandle_tryrdlock, _posthandle_wrlock, _posthandle_trywrlock
\* and _posthandle_unlock, of a program that unlocks what it locked
RwResume(t, c) ==
    lock' =
        CASE LocksToRead(c) ->
                [lock EXCEPT ![c.addr].readWaiters = @ \ {t}, ![c.addr].readers[t] = @ + 1]
          [] c.type = "TRYRDLOCK" /\ ~IsWriteLocked(c.addr)
                                  /\ lock[c.addr].writeWaiters = {} ->
                [lock EXCEPT ![c.addr].readers[t] = @ + 1]
          [] LocksToWrite(c) ->
                [lock EXCEPT ![c.addr].writeWaiters = @ \ {t}, ![c.addr].writer = t]
          [] c.type = "TRYWRLOCK" /\ ~IsWriteLocked(c.addr) /\ ~IsReadLocked(c.addr) ->
                [lock EXCEPT ![c.addr].writer = t]
          [] c.type = "RWUNLOCK" /\ IsWriteLocked(c.addr) ->
                [lock EXCEPT ![c.addr].writer = NoTask]
          [] c.type = "RWUNLOCK" /\ ~IsWriteLocked(c.addr) ->
                [lock EXCEPT ![c.addr].readers[t] = @ - 1]
          [] OTHER -> lock
=============================================================================
