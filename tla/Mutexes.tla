------------------------------ MODULE Mutexes -------------------------------
(***************************************************************************)
(* The mutex module: who owns each mutex, how often, and who waits for it. *)
(* Capturing an event may make a task wait; a task acquires and releases   *)
(* when it resumes.  The wait set of a mutex and its owner are updated by  *)
(* different events, so whether a waiter is held back is decided anew at   *)
(* every event.                                                            *)
(***************************************************************************)
EXTENDS Naturals, Tasks

CONSTANT Mutex      \* the addresses of the mutexes of the program

VARIABLES owner, count, waiters

mutexes == <<owner, count, waiters>>

MutexInit ==
    /\ owner = [m \in Mutex |-> NoTask]
    /\ count = [m \in Mutex |-> 0]
    /\ waiters = [m \in Mutex |-> {}]

\* _handle_acquire: the owner does not wait for its own mutex
Waiters(t, c) ==
    IF c.type = "ACQUIRE" /\ owner[c.addr] # t
    THEN [waiters EXCEPT ![c.addr] = @ \cup {t}]
    ELSE waiters

\* _remove_waiters and _should_wait: whom the mutexes keep from running, the waiters of
\* a mutex being w.  A waiter of a mutex without owner is not held back.
HeldBack(w) == UNION {w[m] : m \in {x \in Mutex : owner[x] # NoTask}}

\* Mutant of MutexResume: the mutex keeps its owner when it is released.
MutexResumeKeepsOwner(t, c) ==
    CASE c.type = "ACQUIRE" ->
            /\ owner' = [owner EXCEPT ![c.addr] = t]
            /\ count' = [count EXCEPT ![c.addr] = @ + 1]
            /\ waiters' = [waiters EXCEPT ![c.addr] = @ \ {t}]
      [] c.type = "TRYACQUIRE" /\ owner[c.addr] \in {NoTask, t} ->
            /\ owner' = [owner EXCEPT ![c.addr] = t]
            /\ count' = [count EXCEPT ![c.addr] = @ + 1]
            /\ UNCHANGED waiters
      [] c.type = "RELEASE" ->
            /\ count' = [count EXCEPT ![c.addr] = @ - 1]
            /\ UNCHANGED <<owner, waiters>>
      [] OTHER -> UNCHANGED mutexes

\* The resume handlers of the mutex module: _posthandle_acquire, _posthandle_tryacquire
\* and _posthandle_release.
MutexResume(t, c) ==
    CASE c.type = "ACQUIRE" ->
            /\ owner' = [owner EXCEPT ![c.addr] = t]
            /\ count' = [count EXCEPT ![c.addr] = @ + 1]
            /\ waiters' = [waiters EXCEPT ![c.addr] = @ \ {t}]
      [] c.type = "TRYACQUIRE" /\ owner[c.addr] \in {NoTask, t} ->
            /\ owner' = [owner EXCEPT ![c.addr] = t]
            /\ count' = [count EXCEPT ![c.addr] = @ + 1]
            /\ UNCHANGED waiters
      [] c.type = "RELEASE" ->
            /\ owner' = [owner EXCEPT ![c.addr] = IF count[c.addr] = 1 THEN NoTask ELSE @]
            /\ count' = [count EXCEPT ![c.addr] = @ - 1]
            /\ UNCHANGED waiters
      [] OTHER -> UNCHANGED mutexes
=============================================================================
