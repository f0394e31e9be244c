------------------------------ MODULE Runtime -------------------------------
(***************************************************************************)
(* The way of an event: the interceptor of a thread (ingress.c and         *)
(* subscribe.c), the mediator of the thread (mediator.c), the engine with  *)
(* its contract (engine.c), the sequencer with the handlers that decide    *)
(* who may run (sequencer.c, task.c, the blocking, mutex and impasse       *)
(* modules), and back: the plan the mediator executes and the switcher,    *)
(* here the one of SwitcherSpec.                                           *)
(*                                                                         *)
(* The engine runs in the thread of the captured task and is not protected *)
(* by a lock: it relies on tasks running one at a time.  The exception is  *)
(* engine_return, which detached tasks call at any moment and which only   *)
(* touches the set of pending tasks, behind a lock of its own.             *)
(*                                                                         *)
(* Nothing is replayed here; module Replay is about that.                  *)
(***************************************************************************)
EXTENDS Naturals, Sequences, FiniteSets, Tasks, Mutexes

CONSTANTS
    None,           \* the address of a capture point that is not about a mutex
    MaxCount,       \* bound on how often the owner of a mutex locks it again
    CreateMayFail   \* whether the real pthread_create may return an error

ASSUME RuntimeAssumption ==
    /\ None \notin Mutex
    /\ MaxCount \in Nat \ {0}
    /\ CreateMayFail \in BOOLEAN

VARIABLES
    pc,         \* where each thread is
    cp,         \* the capture point the thread is at
    plan,       \* the plan of its mediator: what is left of it, and whom to wake
    next,       \* the mark of the switcher
    ghost,      \* the contract state of engine.c
    registered, lastParent,     \* task.c
    unblocked, pending,         \* sequencer.c
    blocked,                    \* blocked_actual of the blocking module
    exited                      \* the process called _exit

threads == <<pc, cp, plan>>
sequencer == <<registered, lastParent, unblocked, pending, blocked>>
vars == <<threads, next, ghost, sequencer, mutexes, exited>>

-----------------------------------------------------------------------------
(* Capture points and plans *)

CapturePoints ==
    [type : {"NOP", "CREATE", "INIT", "FINI", "CALL", "EVENT"}, addr : {None}]
        \cup [type : {"ACQUIRE", "TRYACQUIRE", "RELEASE"}, addr : Mutex]

At(type) == [type |-> type, addr |-> None]
AtMutex(type, m) == [type |-> type, addr |-> m]

\* cp->blocking: the interceptors of pthread_create and of external calls set it.
Blocking(c) == c.type \in {"CREATE", "CALL"}

\* Mutants of ActionsFor: the creating task wakes somebody, the new task wakes nobody.
ActionsForCreateWakes(c) ==
    CASE c.type = "CREATE" -> <<"WAKE", "BLOCK", "YIELD", "RESUME">>
      [] c.type = "FINI"   -> <<"WAKE">>
      [] c.type = "CALL"   -> <<"WAKE", "BLOCK", "RETURN", "YIELD", "RESUME">>
      [] OTHER             -> <<"WAKE", "YIELD", "RESUME">>
ActionsForInitYields(c) ==
    CASE c.type = "CREATE" -> <<"BLOCK", "YIELD", "RESUME">>
      [] c.type = "INIT"   -> <<"YIELD", "RESUME">>
      [] c.type = "FINI"   -> <<"WAKE">>
      [] c.type = "CALL"   -> <<"WAKE", "BLOCK", "RETURN", "YIELD", "RESUME">>
      [] OTHER             -> <<"WAKE", "YIELD", "RESUME">>

\* _actions_for, with the actions in the order in which plan_next finds them.
ActionsFor(c) ==
    CASE c.type = "CREATE" -> <<"BLOCK", "YIELD", "RESUME">>
      [] c.type = "FINI"   -> <<"WAKE">>
      [] c.type = "CALL"   -> <<"WAKE", "BLOCK", "RETURN", "YIELD", "RESUME">>
      [] OTHER             -> <<"WAKE", "YIELD", "RESUME">>

NoPlan == [actions |-> <<>>, next |-> NoTask, filter |-> FALSE]

\* The thread executes its plan and the next action of it is a.
Doing(t, a) ==
    /\ pc[t] = "plan"
    /\ plan[t].actions # <<>>
    /\ Head(plan[t].actions) = a

TypeOK ==
    /\ pc \in [Task -> {"new", "start", "init", "user", "plan", "creating", "created",
                        "calling", "yield", "done"}]
    /\ cp \in [Task -> CapturePoints]
    /\ \A t \in Task :
          /\ plan[t].next \in Task \cup {NoTask, AnyTask}
          /\ plan[t].filter \in BOOLEAN
    /\ next \in Task \cup {NoTask, AnyTask}
    /\ ghost \in [state : {"INIT", "RESUMED", "CAPTURED", "FINISHED"},
                  running : Task \cup {NoTask}, returns : 0..Cardinality(Task)]
    /\ {registered, unblocked, pending, blocked} \subseteq SUBSET Task
    /\ lastParent \in Task
    /\ owner \in [Mutex -> Task \cup {NoTask}]
    /\ count \in [Mutex -> 0..MaxCount]
    /\ waiters \in [Mutex -> SUBSET Task]
    /\ exited \in BOOLEAN

Init ==
    /\ pc = [t \in Task |-> IF t = Main THEN "start" ELSE "new"]
    /\ cp = [t \in Task |-> At("NOP")]
    /\ plan = [t \in Task |-> NoPlan]
    /\ next = NoTask
    /\ ghost = [state |-> "INIT", running |-> NoTask, returns |-> 0]
    /\ registered = {} /\ lastParent = Main
    /\ unblocked = {} /\ pending = {} /\ blocked = {}
    /\ MutexInit
    /\ exited = FALSE

-----------------------------------------------------------------------------
(* The handlers.  Each works on the decision `e' about the next task. *)

\* Mutant of Registered: a task stays registered when it ends.
RegisteredForEver(t, c) == registered \cup {t}

\* handle_creation of task.c
Registered(t, c) == IF c.type = "FINI" THEN registered \ {t} ELSE registered \cup {t}
CreationNext(c) ==
    CASE c.type = "CREATE" -> AnyTask
      [] c.type = "INIT"   -> lastParent
      [] OTHER             -> NoTask

\* Mutant of Blocked: the task that leaves for a call stays selectable.
BlockedNever(t, c, unb) == blocked \ unb

\* _blocking_handle, nothing being replayed, for the tasks unb that returned
Blocked(t, c, unb) ==
    (blocked \ unb) \cup (IF c.type = "CALL" THEN {t} ELSE {})

\* The tasks _dispatch_capture_event may return, tset being what the handlers left.
\* Whether an EVENT is a change point is up to handlers that are not modelled.
Selected(t, c, tset) ==
    IF CreationNext(c) # NoTask THEN {CreationNext(c)}
    ELSE (IF tset = {} THEN {AnyTask} ELSE tset) \cup (IF c.type = "EVENT" THEN {t} ELSE {})

\* sequencer_capture by task t at c: the handlers in the order of their slots, the
\* decision and the plan.  The impasse handler ends the run when nobody is left to
\* run or to return, and the limits of the terminate handler may end it any time.
SequencerCapture(t, c) ==
    LET unb  == unblocked \cup pending
        reg  == Registered(t, c)
        blk  == Blocked(t, c, unb)
        wtr  == Waiters(t, c)
        tset == (reg \ blk) \ HeldBack(wtr)
        impasse == c.type # "CREATE" /\ tset = {} /\ blk = {}
    IN  /\ registered' = reg
        /\ lastParent' = IF c.type = "CREATE" THEN t ELSE lastParent
        /\ blocked' = blk
        /\ unblocked' = {} /\ pending' = {}
        /\ waiters' = wtr
        /\ \E n \in Selected(t, c, tset), limit \in BOOLEAN :
              plan' = [plan EXCEPT ![t] =
                  [actions |-> IF impasse \/ limit
                               THEN IF n # t THEN <<"SHUTDOWN">>
                                    ELSE Append(ActionsFor(c), "SHUTDOWN")
                               ELSE ActionsFor(c),
                   next    |-> n,
                   filter  |-> c.type = "ACQUIRE"]]
        /\ UNCHANGED <<owner, count>>

-----------------------------------------------------------------------------
(* The engine *)

\* engine_capture of task t at c: the sequencer and the contract state
EngineCapture(t, c) ==
    /\ SequencerCapture(t, c)
    /\ ghost' = [ghost EXCEPT
          !.state = "CAPTURED",
          !.returns = @ + (IF c.type = "CALL" /\ plan'[t].actions # <<"SHUTDOWN">>
                           THEN 1 ELSE 0)]

\* Mutant of EngineResume: the collected tasks stay pending.
EngineResumeKeepsPending(t, c) ==
    /\ ghost' = [ghost EXCEPT !.state = "RESUMED", !.running = t]
    /\ MutexResume(t, c)
    /\ unblocked' = unblocked \cup pending
    /\ UNCHANGED <<pending, registered, lastParent, blocked>>

\* engine_resume of task t at c: sequencer_resume also collects the pending tasks
EngineResume(t, c) ==
    /\ ghost' = [ghost EXCEPT !.state = "RESUMED", !.running = t]
    /\ MutexResume(t, c)
    /\ unblocked' = unblocked \cup pending
    /\ pending' = {}
    /\ UNCHANGED <<registered, lastParent, blocked>>

\* Mutant of EngineReturn: the return is not counted.
EngineReturnUncounted(t) ==
    /\ pending' = pending \cup {t}
    /\ UNCHANGED <<ghost, registered, lastParent, unblocked, blocked>>

\* engine_return of a detached task t
EngineReturn(t) ==
    /\ ghost' = [ghost EXCEPT !.returns = @ - 1]
    /\ pending' = pending \cup {t}
    /\ UNCHANGED <<registered, lastParent, unblocked, blocked>>

-----------------------------------------------------------------------------
(* The threads *)

\* The first event of a thread makes mediator_get set up a mediator, whose plan is to
\* resume: the thread runs without having been woken.
Bootstrap(t) ==
    /\ pc[t] = "start"
    /\ EngineResume(t, At("NOP"))
    /\ pc' = [pc EXCEPT ![t] = "init"]
    /\ UNCHANGED <<cp, plan, next, exited>>

\* mediator_capture at c.  The actions BLOCK and YIELD are left to the following
\* steps: the plan of CREATE starts with BLOCK, so the thread goes on to pthread_create.
Capture(t, c) ==
    /\ EngineCapture(t, c)
    /\ cp' = [cp EXCEPT ![t] = c]
    /\ pc' = [pc EXCEPT ![t] =
                 IF Head(plan'[t].actions) = "BLOCK" THEN "creating" ELSE "plan"]
    /\ UNCHANGED <<next, exited>>

CaptureInit(t) == pc[t] = "init" /\ Capture(t, At("INIT"))

\* Lotto can only model programs that unlock what they locked.
CaptureUser(t) ==
    /\ pc[t] = "user"
    /\ \/ \E type \in {"FINI", "CALL", "EVENT"} : Capture(t, At(type))
       \/ (\E u \in Task : pc[u] = "new") /\ Capture(t, At("CREATE"))
       \/ \E m \in Mutex, type \in {"ACQUIRE", "TRYACQUIRE"} :
             /\ owner[m] = t => count[m] < MaxCount
             /\ Capture(t, AtMutex(type, m))
       \/ \E m \in Mutex : owner[m] = t /\ Capture(t, AtMutex("RELEASE", m))

\* ACTION_WAKE: switcher_wake.  What follows is YIELD, BLOCK (the thread leaves Lotto
\* for the external call) or nothing (the thread has ended).
Wake(t) ==
    /\ Doing(t, "WAKE")
    /\ next' = plan[t].next
    /\ LET rest == Tail(plan[t].actions)
           left(actions) == [plan[t] EXCEPT !.actions = actions, !.next = NoTask]
       IN  \/ /\ rest = <<>>
              /\ pc' = [pc EXCEPT ![t] = "done"]
              /\ plan' = [plan EXCEPT ![t] = NoPlan]
           \/ /\ rest # <<>> /\ Head(rest) = "BLOCK"
              /\ pc' = [pc EXCEPT ![t] = "calling"]
              /\ plan' = [plan EXCEPT ![t] = left(Tail(rest))]
           \/ /\ rest # <<>> /\ Head(rest) # "BLOCK"
              /\ plan' = [plan EXCEPT ![t] = left(rest)]
              /\ UNCHANGED pc
    /\ UNCHANGED <<cp, ghost, sequencer, mutexes, exited>>

\* The real pthread_create starts the thread of a new task.
Spawn(t, u) ==
    /\ pc[t] = "creating"
    /\ pc[u] = "new"
    /\ pc' = [pc EXCEPT ![t] = "created", ![u] = "start"]
    /\ UNCHANGED <<cp, plan, next, ghost, sequencer, mutexes, exited>>

\* The real pthread_create returns an error.  The subscriber of its return does not
\* look at the value.
SpawnFails(t) ==
    /\ CreateMayFail
    /\ pc[t] = "creating"
    /\ pc' = [pc EXCEPT ![t] = "created"]
    /\ UNCHANGED <<cp, plan, next, ghost, sequencer, mutexes, exited>>

\* mediator_return after pthread_create: the engine is not told.
CreateReturns(t) ==
    /\ pc[t] = "created"
    /\ pc' = [pc EXCEPT ![t] = "plan"]
    /\ plan' = [plan EXCEPT ![t].actions = Tail(@)]
    /\ UNCHANGED <<cp, next, ghost, sequencer, mutexes, exited>>

\* mediator_return after any other external call, ACTION_RETURN.
CallReturns(t) ==
    /\ pc[t] = "calling"
    /\ EngineReturn(t)
    /\ pc' = [pc EXCEPT ![t] = "plan"]
    /\ plan' = [plan EXCEPT ![t].actions = Tail(@)]
    /\ UNCHANGED <<cp, next, mutexes, exited>>

\* ACTION_YIELD: switcher_yield is called, and returns.
CallYield(t) ==
    /\ Doing(t, "YIELD")
    /\ pc' = [pc EXCEPT ![t] = "yield"]
    /\ UNCHANGED <<cp, plan, next, ghost, sequencer, mutexes, exited>>

\* Mutant of FilterHolds: the filter is not installed.
FilterNever(t) == FALSE

\* any_task_filter(t); only the mutex handler sets one here
FilterHolds(t) == plan[t].filter /\ t \in HeldBack(waiters)

ReturnFromYield(t) ==
    /\ pc[t] = "yield"
    /\ next = t \/ (next = AnyTask /\ ~FilterHolds(t))
    /\ next' = NoTask
    /\ pc' = [pc EXCEPT ![t] = "plan"]
    /\ plan' = [plan EXCEPT ![t].actions = Tail(@)]
    /\ UNCHANGED <<cp, ghost, sequencer, mutexes, exited>>

\* ACTION_RESUME: engine_resume, and back to the code of the program
Resume(t) ==
    /\ Doing(t, "RESUME")
    /\ EngineResume(t, cp[t])
    /\ plan' = [plan EXCEPT ![t] =
                   IF Len(@.actions) = 1 THEN NoPlan ELSE [@ EXCEPT !.actions = Tail(@)]]
    /\ pc' = [pc EXCEPT ![t] = IF Len(plan[t].actions) = 1 THEN "user" ELSE "plan"]
    /\ cp' = [cp EXCEPT ![t] = At("NOP")]
    /\ UNCHANGED <<next, exited>>

\* ACTION_SHUTDOWN, or the program calls exit: lotto_exit and engine_fini.  Module Exit
\* looks into it.
Exit(t) ==
    /\ pc[t] = "user" \/ Doing(t, "SHUTDOWN")
    /\ ghost' = [ghost EXCEPT !.state = "FINISHED"]
    /\ exited' = TRUE
    /\ UNCHANGED <<threads, next, sequencer, mutexes>>

\* The process is gone.
Gone == exited /\ UNCHANGED vars

\* What a thread does in Lotto on its own accord.
LottoStep(t) ==
    \/ Bootstrap(t) \/ CaptureInit(t) \/ Wake(t) \/ CallYield(t) \/ ReturnFromYield(t)
    \/ Resume(t) \/ CreateReturns(t)
    \/ Doing(t, "SHUTDOWN") /\ Exit(t)

Next ==
    \/ Gone
    \/ /\ ~exited
       /\ \E t \in Task :
             \/ LottoStep(t) \/ CaptureUser(t) \/ CallReturns(t) \/ Exit(t)
             \/ SpawnFails(t)
             \/ \E u \in Task : Spawn(t, u)

Spec == Init /\ [][Next]_vars

\* The operating system runs every thread that is in Lotto, and pthread_create returns.
\* Nothing is assumed of the code of the program and of its external calls.
FairSpec ==
    /\ Spec
    /\ \A t \in Task :
          /\ WF_vars(~exited /\ LottoStep(t))
          /\ WF_vars(~exited /\ \E u \in Task : Spawn(t, u))

-----------------------------------------------------------------------------
(* Properties *)

\* The assertions of the contract of engine.c and of switcher_wake: a task that can
\* capture is the one that was resumed last, captures and resumes alternate, at most one
\* thread is at a call of the engine other than engine_return, and a wake finds the mark
\* down.
EngineContract ==
    \A t \in Task : ~exited =>
        /\ pc[t] \in {"init", "user"} =>
              ghost.state = "RESUMED" /\ ghost.running = t
        /\ pc[t] = "start" \/ Doing(t, "RESUME") => ghost.state \in {"INIT", "CAPTURED"}
        /\ pc[t] \in {"init", "user", "start"} \/ Doing(t, "RESUME") =>
              \A u \in Task \ {t} :
                 pc[u] \notin {"init", "user", "start"} /\ ~Doing(u, "RESUME")
        /\ Doing(t, "WAKE") => next = NoTask

\* _check_plan and the ENSUREs of task.c: a plan wakes somebody, never the task that
\* leaves for a call or that ends, and a task is registered when it ends and is not when
\* it is initialised.
PlanContract ==
    \A t \in Task :
        /\ Doing(t, "WAKE") => plan[t].next # NoTask
        /\ Doing(t, "WAKE") /\ cp[t].type \in {"CALL", "FINI"} => plan[t].next # t
        /\ pc[t] = "init" => t \notin registered
        /\ pc[t] = "user" => t \in registered

\* The task is in its external call or on the way to it.
Detached(t) == pc[t] = "calling" \/ (Doing(t, "WAKE") /\ cp[t].type = "CALL")

\* The set of blocked tasks of the blocking module is exact at all times although tasks
\* return concurrently: a blocked task is in its call, or it has returned and the engine
\* has yet to see it, in exactly one of the two sets of returned tasks.  This gives the
\* assertions that a task is not inserted twice in either set, that a task that leaves
\* for a call is not blocked, and that no more tasks return than left.
BlockedExact ==
    /\ blocked = {t \in Task : Detached(t)} \cup unblocked \cup pending
                     \cup {t \in Task : Doing(t, "SHUTDOWN") /\ cp[t].type = "CALL"}
    /\ unblocked \cap pending = {}
    /\ \A t \in unblocked \cup pending : ~Detached(t)
    /\ ~exited => ghost.returns = Cardinality({t \in Task : Detached(t)})

\* The engine never hands the mark to a task that cannot come and take it: one that is in
\* an external call, has ended or waits for a mutex that somebody owns.
TargetIsReady ==
    next \in Task /\ ~exited =>
        /\ pc[next] \in {"plan", "created", "yield"}
        /\ next \notin HeldBack(waiters)

\* pthread_mutex_lock returns only to the owner of the mutex, the assertion "deadlock due
\* to disrespecting locks" of the mutex module: nobody else owns the mutex when the task
\* resumes, whether it was selected by its id or came first for ANY_TASK.
MutexRespected ==
    /\ \A t \in Task : Doing(t, "RESUME") /\ cp[t].type = "ACQUIRE" =>
          \/ owner[cp[t].addr] = t /\ t \notin waiters[cp[t].addr]
          \/ owner[cp[t].addr] = NoTask /\ t \in waiters[cp[t].addr]
    /\ \A m \in Mutex : owner[m] = NoTask <=> count[m] = 0

\* The states of doc/design.md: a task that is neither before its creation nor in an
\* external call nor waiting for a mutex.
Active(t) ==
    /\ pc[t] \notin {"new", "done", "calling"}
    /\ t \notin HeldBack(waiters)

\* Lotto liveness of doc/design.md as a state property: as long as a task is active some
\* thread can take a step of its own, or the program runs.
NoLottoDeadlock ==
    (\E t \in Task : Active(t)) /\ ~exited =>
        \E t \in Task :
            \/ pc[t] \in {"start", "init", "user", "creating"}
            \/ Doing(t, "WAKE") \/ Doing(t, "RESUME") \/ Doing(t, "SHUTDOWN")
            \/ next \in {t, AnyTask} /\ Active(t)

\* The task that is handed the mark resumes, and when the mark is for anybody one of the
\* tasks that could take it does.
SelectedResumes ==
    \A t \in Task :
        /\ next = t ~> (pc[t] = "user" \/ exited)
        /\ (next = AnyTask /\ pc[t] = "yield" /\ ~FilterHolds(t)) ~> (next # AnyTask \/ exited)

\* The plans use the switcher as it wants to be used: a running task creates, wakes, and
\* only then yields or ends, and the filters change only while the mark is down.
Place(t) ==
    CASE pc[t] \in {"new", "done"} -> pc[t]
      [] pc[t] \in {"start", "init", "user", "creating"} -> "run"
      [] Doing(t, "WAKE") \/ Doing(t, "RESUME") \/ Doing(t, "SHUTDOWN") -> "run"
      [] pc[t] = "yield" -> "in"
      [] OTHER -> "out"

Abs == INSTANCE SwitcherSpec WITH
    place <- [t \in Task |-> Place(t)],
    waits <- {t \in Task : FilterHolds(t)}

UsesSwitcher == Abs!Spec
=============================================================================
