-------------------------------- MODULE Evec --------------------------------
(***************************************************************************)
(* Events to wait for and time: the evec module, which stands for the      *)
(* condition variables of pthread, the timeout module, the part of the     *)
(* sleep module that uses it, and the clock they read.                     *)
(*                                                                         *)
(* The clock of Lotto is virtual: it advances with every captured event    *)
(* and leaps to the next deadline when no task could run otherwise.  Only  *)
(* the time that is left until each deadline matters, so that is what is   *)
(* kept; Off is the time left until a deadline that is not set.            *)
(*                                                                         *)
(* All state is one record that the handlers of one event pass on.         *)
(***************************************************************************)
EXTENDS Naturals, FiniteSets, FiniteSetsExt, Tasks

CONSTANTS
    Event,      \* the addresses of the events
    Patience,   \* the time after which a timed wait ends, 20 s in evec's handler.c
    Nap         \* the time the program sleeps

VARIABLE evec

ASSUME EvecAssumption == Patience \in Nat \ {0} /\ Nap \in Nat \ {0}

Off == Patience + Nap + 1

EvecInit ==
    evec = [waiters  |-> [e \in Event |-> {}],      \* evec->waiters
            deadline |-> [e \in Event |-> [t \in Task |-> Off]],
            waiting  |-> {},                        \* _state.waiters of evec
            timer    |-> [t \in Task |-> Off],      \* _state of timeout
            sleeping |-> {}]                        \* _waiters of sleep

\* The clock advances by d.
Advance(s, d) ==
    LET left(x) == CASE x = Off -> Off [] x <= d -> 0 [] OTHER -> x - d
    IN  [s EXCEPT
            !.deadline = [e \in Event |-> [t \in Task |-> left(s.deadline[e][t])]],
            !.timer = [t \in Task |-> left(s.timer[t])]]

TurnOff(timer, T) == [t \in Task |-> IF t \in T THEN Off ELSE timer[t]]

Due(s) == {t \in Task : \E e \in Event : s.deadline[e][t] = 0}

\* _check_timeouts.  The tasks whose deadline is met stay among the waiters of the event.
CheckTimeouts(s, deregister) ==
    [s EXCEPT
        !.waiting = @ \ Due(s),
        !.deadline = [e \in Event |-> TurnOff(@[e], Due(s))],
        !.timer = IF deregister THEN TurnOff(@, Due(s)) ELSE @]

\* The events of a wait, the last one standing for a timed wait whose abstime is NULL
Waits == {"WAIT", "TIMED_WAIT", "TIMED_WAIT_NULL"}

\* Mutant of EvecWait: the task waits even if it was woken since it prepared.
EvecWaitAlways(s, t, c) ==
    IF c.type \notin Waits THEN s
    ELSE [s EXCEPT
             !.waiting = @ \cup {t},
             !.deadline[c.addr][t] = IF c.type = "TIMED_WAIT" THEN Patience ELSE @,
             !.timer[t] = IF c.type = "TIMED_WAIT" THEN Patience ELSE @]

\* _handle_wait and _handle_timed_wait, which does not use the deadline it is given.  With
\* a deadline that is NULL the task does not wait and stays among the waiters of the event.
EvecWait(s, t, c) ==
    IF c.type \notin Waits \/ t \notin s.waiters[c.addr] THEN s
    ELSE CASE c.type = "WAIT" -> [s EXCEPT !.waiting = @ \cup {t}]
           [] c.type = "TIMED_WAIT" ->
                 [s EXCEPT !.waiting = @ \cup {t}, !.deadline[c.addr][t] = Patience,
                           !.timer[t] = Patience]
           [] c.type = "TIMED_WAIT_NULL" ->
                 [s EXCEPT !.deadline[c.addr][t] = Off, !.timer[t] = Off]

\* _evec_handle
EvecCapture(s, t, c) == EvecWait(CheckTimeouts(s, TRUE), t, c)

\* _trigger_timeout for the tasks T and the two subscribers of EVENT_TIMEOUT_TRIGGER
Trigger(s, T) ==
    LET s1 == IF T \cap s.waiting = {} THEN s ELSE CheckTimeouts(s, FALSE)
    IN  [s1 EXCEPT !.sleeping = @ \ T, !.timer = TurnOff(@, T)]

Expired(s) == {t \in Task : s.timer[t] = 0}

\* _time_leap and lotto_clock_leap, whose rounding may overshoot the deadline.  When
\* several tasks share the first deadline all that are due are triggered, else just one.
TimeLeap(s) ==
    LET min == Min({s.timer[t] : t \in Task})
        first == {t \in Task : s.timer[t] = min}
    IN  {LET s1 == Advance(s, min + over)
             T  == IF Cardinality(first) > 1 THEN Expired(s1) ELSE first
         IN  [evec |-> Trigger(s1, T), tset |-> T] : over \in 0..1}

\* Mutant of TimeoutCapture: the clock does not leap.
TimeoutCaptureIdle(s, tset) ==
    {[evec |-> Trigger(s, Expired(s)), tset |-> tset \cup Expired(s)]}

\* _timeout_handle with _check_deadlines: what becomes of the state and of the tasks tset
\* that the other handlers left.
TimeoutCapture(s, tset) ==
    LET s1 == Trigger(s, Expired(s))
        rest == tset \cup Expired(s)
    IN  IF rest # {} \/ \A t \in Task : s.timer[t] = Off
        THEN {[evec |-> s1, tset |-> rest]}
        ELSE TimeLeap(s1)

\* _sleep_handle in mode UNTIL
SleepCapture(s, t, c) ==
    IF c.type = "SLEEP_UNTIL"
    THEN [s EXCEPT !.timer[t] = Nap, !.sleeping = @ \cup {t}]
    ELSE s

\* Mutant of Wake: the timeout of a task that is woken stays registered.
WakeKeepsTimer(s, e, cnt) ==
    {[s EXCEPT !.waiters[e] = @ \ T, !.deadline[e] = TurnOff(@, T), !.waiting = @ \ T] :
        T \in kSubset(IF Cardinality(s.waiters[e]) < cnt THEN Cardinality(s.waiters[e])
                      ELSE cnt, s.waiters[e])}

\* _posthandle_wake: any cnt waiters of the event
Wake(s, e, cnt) ==
    {[s EXCEPT
        !.waiters[e] = @ \ T,
        !.deadline[e] = TurnOff(@, T),
        !.timer = TurnOff(@, {t \in T : s.deadline[e][t] # Off}),
        !.waiting = @ \ T] :
        T \in kSubset(IF Cardinality(s.waiters[e]) < cnt THEN Cardinality(s.waiters[e])
                      ELSE cnt, s.waiters[e])}

\* _posthandle_move: the waiters and their deadlines change the event.
Move(s, e, f) ==
    IF s.waiters[e] = {} THEN s
    ELSE [s EXCEPT
             !.waiters[e] = {}, !.waiters[f] = @ \cup s.waiters[e],
             !.deadline[e] = TurnOff(@, Task),
             !.deadline[f] = [t \in Task |-> IF s.deadline[e][t] # Off THEN s.deadline[e][t]
                                             ELSE @[t]]]

\* The resume handlers of the evec module: _posthandle_prepare, _posthandle_cancel and
\* the ones above
EvecResume(s, t, c) ==
    CASE c.type = "PREPARE" -> {[s EXCEPT !.waiters[c.addr] = @ \cup {t}]}
      [] c.type = "CANCEL" -> {[s EXCEPT !.waiters[c.addr] = @ \ {t}]}
      [] c.type = "WAKE" -> Wake(s, c.addr, 1)
      [] c.type = "WAKE_ALL" -> Wake(s, c.addr, Cardinality(Task))
      [] c.type = "MOVE" -> {Move(s, c.addr, c.to)}
      [] OTHER -> {s}
=============================================================================
