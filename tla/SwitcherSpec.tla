---------------------------- MODULE SwitcherSpec ----------------------------
(***************************************************************************)
(* What the switcher promises the runtime, and what the runtime promises   *)
(* the switcher.  A single mark, `next', names the task that may leave     *)
(* switcher_yield.  A task that left it runs, and hands the mark on with   *)
(* switcher_wake before it yields again or before its thread ends.         *)
(*                                                                         *)
(* Two modules implement this one: Switcher, where every mutex, condition  *)
(* variable and futex step of switcher.c is visible, and Runtime, where    *)
(* the plans of the engine decide who is woken.                            *)
(***************************************************************************)
EXTENDS Naturals, Tasks

VARIABLES
    place,      \* where the thread of a task is with respect to the switcher
    next,       \* the mark, _switcher.next
    waits       \* the tasks their any_task_filter holds back

vars == <<place, next, waits>>

\* "new": not created, "run": out of the switcher and owner of the right to wake,
\* "out": out of the switcher without it, "in": in switcher_yield, "done": ended.
Place == {"new", "run", "out", "in", "done"}

TypeOK ==
    /\ place \in [Task -> Place]
    /\ next \in Task \cup {NoTask, AnyTask}
    /\ waits \subseteq Task

Init ==
    /\ place = [t \in Task |-> IF t = Main THEN "run" ELSE "new"]
    /\ next = NoTask
    /\ waits = {}

\* The mark lets t leave: it names t, or it is ANY_TASK and no filter holds t back.
Lets(t) == next = t \/ (next = AnyTask /\ t \notin waits)

\* The running task creates task u: u runs first, and t resumes once u has woken it.
Create(t, u) ==
    /\ place[t] = "run"
    /\ place[u] = "new"
    /\ place' = [place EXCEPT ![t] = "out", ![u] = "run"]
    /\ UNCHANGED <<next, waits>>

\* What the engine does in the running task decides whom the filters hold back.
Refilter(t) ==
    /\ place[t] = "run"
    /\ next = NoTask
    /\ waits' \in SUBSET Task
    /\ UNCHANGED <<place, next>>

\* The running task gives the mark to n.  It goes on outside of the switcher, or its
\* thread ends.
Wake(t, n, p) ==
    /\ place[t] = "run"
    /\ next = NoTask
    /\ n = AnyTask \/ (n \in Task /\ place[n] \in {"run", "out", "in"})
    /\ p = "done" => n # t
    /\ next' = n
    /\ place' = [place EXCEPT ![t] = p]
    /\ UNCHANGED waits

Yield(t) ==
    /\ place[t] = "out"
    /\ place' = [place EXCEPT ![t] = "in"]
    /\ UNCHANGED <<next, waits>>

\* The task the mark lets out leaves and takes the mark with it.
Return(t) ==
    /\ place[t] = "in"
    /\ Lets(t)
    /\ place' = [place EXCEPT ![t] = "run"]
    /\ next' = NoTask
    /\ UNCHANGED waits

Next ==
    \/ \E t, u \in Task : Create(t, u)
    \/ \E t \in Task, n \in Task \cup {AnyTask}, p \in {"out", "done"} : Wake(t, n, p)
    \/ \E t \in Task : Yield(t) \/ Return(t) \/ Refilter(t)

Spec == Init /\ [][Next]_vars

\* A task in the switcher that the mark lets out is not kept in it for ever.
LiveSpec == Spec /\ WF_vars(\E t \in Task : Return(t))

-----------------------------------------------------------------------------

\* Tasks run one at a time, and while one runs the mark is down, so that no wake is
\* overwritten: the assertion of switcher_wake.
Sequential ==
    /\ \A t, u \in Task : place[t] = "run" /\ place[u] = "run" => t = u
    /\ (\E t \in Task : place[t] = "run") => next = NoTask

\* The right to run is never lost: some task runs, or the mark is up.
NeverLost == next # NoTask \/ \E t \in Task : place[t] = "run"
=============================================================================
