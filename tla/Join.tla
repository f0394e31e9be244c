-------------------------------- MODULE Join --------------------------------
(***************************************************************************)
(* The join module: which tasks have ended and who joins whom.  Lotto does *)
(* not call the real pthread_join, the module stands for it.  The handle   *)
(* of a thread is its task id: real handles are recycled only when a       *)
(* thread has been joined, which never happens.  Threads are never         *)
(* detached, the interceptor of pthread_detach is disabled.                *)
(***************************************************************************)
EXTENDS Naturals, Tasks

VARIABLES
    pthreads,       \* _state.pthreads: the tasks that were not joined yet
    tasks,          \* _state.tasks: the handles that are known
    terminated,     \* the tasks that ended before they were joined
    waitee,         \* _state.waitees: the task a task waits for
    joinRet         \* the result of the last pthread_join and whose value it delivered

joins == <<pthreads, tasks, terminated, waitee, joinRet>>

JoinInit ==
    /\ pthreads = Task
    /\ tasks = Task
    /\ terminated = {}
    /\ waitee = [t \in Task |-> NoTask]
    /\ joinRet = [t \in Task |-> [ret |-> "NONE", of |-> NoTask]]

\* The tasks the loop of _join visits from u on.
Chain(u) ==
    LET step[S \in SUBSET Task] ==
            LET more == {waitee[v] : v \in S} \ (S \cup {NoTask})
            IN  IF more = {} THEN S ELSE step[S \cup more]
    IN  step[{u}]

\* Mutant of Joins: only a join of oneself is found to be a deadlock.
JoinsShortSighted(t, u) ==
    CASE u \notin tasks -> "ESRCH"
      [] u = t -> "EDEADLK"
      [] u \in terminated -> "0"
      [] OTHER -> "WAIT"

\* Mutant of Joins: whether the task has terminated is not looked at.
JoinsAtOnce(t, u) ==
    CASE u \notin tasks -> "ESRCH"
      [] t \in Chain(u) -> "EDEADLK"
      [] OTHER -> "0"

\* What _join does when task t joins u.
Joins(t, u) ==
    CASE u \notin tasks -> "ESRCH"
      [] t \in Chain(u) -> "EDEADLK"
      [] u \in terminated -> "0"
      [] OTHER -> "WAIT"

\* _join.  The result of a join that waits is already 0; line 109 compares the task with
\* the one that joins it, so the handle of a joined task stays known.
DoJoin(t, u) ==
    LET r == Joins(t, u)
    IN  /\ joinRet' = [joinRet EXCEPT ![t] =
              [ret |-> IF r = "WAIT" THEN "0" ELSE r,
               of  |-> IF r = "0" THEN u ELSE NoTask]]
        /\ pthreads' = IF r = "0" THEN pthreads \ {u} ELSE pthreads
        /\ terminated' = IF r = "0" THEN terminated \ {u} ELSE terminated
        /\ waitee' = IF r = "WAIT" THEN [waitee EXCEPT ![t] = u] ELSE waitee
        /\ UNCHANGED tasks

\* _texit and _fini: the waiters of the task get its value and stop waiting.
DoFini(t) ==
    LET waiting == {u \in Task : waitee[u] = t}
    IN  IF waiting = {}
        THEN /\ terminated' = terminated \cup {t}
             /\ UNCHANGED <<pthreads, tasks, waitee, joinRet>>
        ELSE /\ waitee' = [u \in Task |-> IF u \in waiting THEN NoTask ELSE waitee[u]]
             /\ joinRet' = [u \in Task |->
                    IF u \in waiting THEN [ret |-> "0", of |-> t] ELSE joinRet[u]]
             /\ pthreads' = pthreads \ {t}
             /\ tasks' = tasks \ {t}
             /\ UNCHANGED terminated

\* _join_handle
JoinCapture(t, c) ==
    CASE c.type = "JOIN" -> DoJoin(t, c.addr)
      [] c.type = "FINI" -> DoFini(t)
      [] OTHER -> UNCHANGED joins

JoinHeldBack == {t \in Task : waitee[t] # NoTask}
=============================================================================
