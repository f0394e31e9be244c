------------------------------- MODULE Replay -------------------------------
(***************************************************************************)
(* Record and replay: the sequencer (sequencer.c), the recorder            *)
(* (recorder.c), the blocking module and the preparation of a trace by     *)
(* `lotto replay' (trace_utils.c), over several runs of one program.       *)
(*                                                                         *)
(* A trace does not hold the schedule.  It holds the seed, and a SCHED     *)
(* record for the clocks at which the next task cannot be derived: a task  *)
(* came back from an external call, or nobody was selectable and whoever   *)
(* came first ran (ANY_TASK).  The first run records; each later run       *)
(* replays the trace of the run before it up to a goal and goes on freely. *)
(* Calls return at other moments in every run: that is what replay has to  *)
(* make up for.  A SCHED record that is loaded is not copied to the output *)
(* and what it says is no deviation any more: how much of the schedule the *)
(* trace of a replay holds depends on the granularity of the replay.       *)
(*                                                                         *)
(* The program is deterministic: as long as a run repeats the schedule, a  *)
(* task causes the event it caused before.  So is the generator of random  *)
(* numbers: as long as both runs drew at the same clocks and a choice is   *)
(* among the same tasks, it is the same choice.                            *)
(*                                                                         *)
(* The threads are those of module Runtime with the wake and the yield of  *)
(* a capture in one step.  Clock 0 is the moment at which the tasks of     *)
(* the setup have been created.                                            *)
(***************************************************************************)
EXTENDS Naturals, Sequences, SequencesExt, FiniteSets, Tasks

CONSTANT
    Setup       \* the programs and configurations to look at

\* A setup: the tasks that exist at clock 0, the events of the program, whether
\* sequencer_config()->slack > 0, the record granularity of each run (the empty set being
\* MINIMAL), and the bounds: on the number of runs, the captures of a run, its captures
\* after the goal of a replay, and the clocks that a replay leaves out of its trace.
ASSUME ReplayAssumption ==
    /\ Task \subseteq Nat
    /\ \A s \in Setup :
          /\ Main \in s.started /\ s.started \subseteq Task
          /\ s.ops \subseteq {"CREATE", "FINI", "CALL", "CHPT", "EVENT"}
          /\ s.slack \in BOOLEAN
          /\ {s.runs, s.maxclk} \subseteq Nat \ {0}
          /\ s.gran \in [1..s.runs -> SUBSET {"SWITCH", "CHPT", "CAPTURE"}]
          /\ {s.beyond, s.trim} \subseteq Nat

VARIABLES
    pc, next,               \* the threads and the mark of the switcher
    registered, lastParent, \* task.c
    unblocked, pending,     \* sequencer.c: the tasks that returned from a call
    actual, replayed,       \* blocking: blocked_actual, blocked_replay
    returned, consumed, replaying,
    input, output,          \* the records still to be replayed, those written
    log,                    \* what happened at each clock of this run
    was,                    \* the log of the run whose trace is replayed
    run, goal,
    setup                   \* the setup of the runs

threads == <<pc, next>>
creation == <<registered, lastParent>>
returns == <<unblocked, pending>>
blocking == <<actual, replayed, returned, consumed, replaying>>
history == <<was, run, goal, setup>>
vars == <<threads, creation, returns, blocking, input, output, log, history>>

clk == Len(log)

Op == {"CREATE", "INIT", "FINI", "CALL", "CHPT", "EVENT"}

\* cp->blocking
Blocking(op) == op \in {"CREATE", "CALL"}

\* Mutant of Sched: recorder_record leaves the id out.
SchedOfNobody(c, t, ret) == [kind |-> "SCHED", clk |-> c, id |-> NoTask, ret |-> ret]

\* The records of a trace, CONFIG standing for START and CONFIG.
Config(c) == [kind |-> "CONFIG", clk |-> c, id |-> NoTask, ret |-> {}]
Sched(c, t, ret) == [kind |-> "SCHED", clk |-> c, id |-> t, ret |-> ret]
Exit(c) == [kind |-> "EXIT", clk |-> c, id |-> NoTask, ret |-> {}]

TypeOK ==
    /\ pc \in [Task -> {"new", "start", "init", "user", "yield", "calling", "done"}]
    /\ next \in Task \cup {NoTask, AnyTask}
    /\ lastParent \in Task
    /\ {registered, unblocked, pending, actual, replayed, returned} \subseteq SUBSET Task
    /\ {consumed, replaying} \subseteq BOOLEAN
    /\ \A e \in Range(log) :
          /\ e.task \in Task /\ e.op \in Op /\ e.status \in {"DONE", "LOAD", "CONT"}
          /\ e.own \in Task \cup {AnyTask} /\ e.next \in Task \cup {AnyTask}
          /\ e.ran \in Task \cup {NoTask}
    /\ run \in 1..setup.runs
    /\ goal \in 0..setup.maxclk

\* The state in which a process starts.
Fresh ==
    [pc |-> [t \in Task |-> IF t = Main THEN "user" ELSE IF t \in setup.started THEN "yield" ELSE "new"],
     registered |-> setup.started]

Init ==
    /\ setup \in Setup
    /\ pc = Fresh.pc /\ next = NoTask
    /\ registered = Fresh.registered /\ lastParent = Main
    /\ unblocked = {} /\ pending = {}
    /\ actual = {} /\ replayed = {} /\ returned = {}
    /\ consumed = FALSE /\ replaying = FALSE
    /\ input = <<Config(0)>> /\ output = <<>>
    /\ log = <<>> /\ was = <<>>
    /\ run = 1 /\ goal = 0

-----------------------------------------------------------------------------
(* The recorder *)

\* _recorder_replay_next stops at the first record that is of a later clock, or that is
\* a CONFIG of this clock, to be loaded with the next one.
Later(r, k) == r.clk > k \/ (r.kind = "CONFIG" /\ r.clk = k)
Loaded(k) ==
    LET i == SelectInSeq(input, LAMBDA r : Later(r, k))
    IN  IF i = 0 THEN input ELSE SubSeq(input, 1, i - 1)
Left(k) ==
    LET i == SelectInSeq(input, LAMBDA r : Later(r, k))
    IN  IF i = 0 THEN <<>> ELSE SubSeq(input, i, Len(input))
LoadedSched(k) == SelectSeq(Loaded(k), LAMBDA r : r.kind = "SCHED")
LoadedConfig(k) == SelectSeq(Loaded(k), LAMBDA r : r.kind = "CONFIG")

\* Mutant of Status: the last clock of the trace is not replayed.
StatusUntilLast(k) ==
    CASE LoadedSched(k) # <<>> -> "LOAD"
      [] LoadedSched(k) = <<>> /\ Len(Left(k)) > 1 -> "CONT"
      [] OTHER -> "DONE"

Status(k) ==
    CASE LoadedSched(k) # <<>> -> "LOAD"
      [] LoadedSched(k) = <<>> /\ Left(k) # <<>> -> "CONT"
      [] OTHER -> "DONE"

-----------------------------------------------------------------------------
(* The deterministic program and the deterministic generator *)

\* The events the running task t may cause at clock k.
Ops(t, k) ==
    IF k <= goal /\ was[k].task = t THEN {was[k].op}
    ELSE {op \in setup.ops : op = "CREATE" => \E u \in Task : pc[u] = "new"}

\* The runs drew random numbers at the same clocks so far.
InStep(k) == \A j \in 1..(k - 1) : log[j].tset = {} <=> was[j].tset = {}

\* Mutant of Picks: the seed of the trace is not used.
PicksUnseeded(k, tset) == tset

\* prng_range and tidset_get: the tasks of tset the generator may pick at clock k.
Picks(k, tset) ==
    IF k <= goal /\ InStep(k) /\ was[k].tset = tset THEN {was[k].own} ELSE tset

-----------------------------------------------------------------------------
(* The sequencer *)

\* Mutant of Registered: a task that ends stays registered.
RegisteredForever(t, op) == registered \cup {t}

\* handle_creation: the tasks that exist after an event of t.
Registered(t, op) == IF op = "FINI" THEN registered \ {t} ELSE registered \cup {t}

\* Mutant of Returned: a record that was loaded is consumed at every clock.
ReturnedAgain(t, rep, cons, ret, unb) ==
    IF rep THEN ret
    ELSE IF replaying THEN replayed \ (actual \ unb)
    ELSE unb

\* _blocking_handle: the tasks it takes for returned at a capture of t, the record
\* loaded saying ret, when unb are those that really returned.
Returned(t, rep, cons, ret, unb) ==
    IF rep THEN IF cons THEN {} ELSE ret
    ELSE IF replaying THEN replayed \ (actual \ unb)
    ELSE unb

\* Mutant of BlockedActual: the tasks that returned are not taken out.
BlockedForever(rep, unb) == actual

\* The two sets of blocked tasks after it, before t itself blocks.
BlockedActual(rep, unb) ==
    IF ~rep /\ replaying THEN (actual \ unb) \cap replayed ELSE actual \ unb
BlockedReplay(t, rep, ret) == IF rep THEN (replayed \ ret) \ {t} ELSE replayed

\* sequencer_config()->gran: not the granularity in the trace, every process sets its own.
Granularity == setup.gran[run]

\* _granularity_should_record
GranularityRecords(t, op, n) ==
    \/ "SWITCH" \in Granularity /\ n # t
    \/ "CHPT" \in Granularity /\ op # "EVENT"
    \/ "CAPTURE" \in Granularity

\* sequencer_capture of an event op of task t
SequencerCapture(t, op) ==
    LET k    == clk + 1
        st   == Status(k)
        rep  == st # "DONE"
        load == LoadedSched(k) # <<>>
        cons == ~load /\ consumed
        unb  == unblocked \cup pending
        ret  == Returned(t, rep, cons, IF load THEN LoadedSched(k)[1].ret ELSE returned, unb)
        reg  == Registered(t, op)
        self == IF op = "CALL" THEN {t} ELSE {}
        act  == BlockedActual(rep, unb) \cup self
        blk  == BlockedReplay(t, rep, ret) \cup (IF rep THEN self ELSE {})
        seen == IF rep THEN blk ELSE act
        tset == IF op \in {"FINI", "CALL", "CHPT"} THEN reg \ seen ELSE {}
    IN  \E own \in CASE op = "EVENT"  -> {t}
                     [] op = "CREATE" -> {AnyTask}
                     [] op = "INIT"   -> {lastParent}
                     [] OTHER         -> IF tset = {} THEN {AnyTask} ELSE Picks(k, tset) :
          LET n == CASE st = "LOAD" -> LoadedSched(k)[1].id
                     [] st = "CONT" /\ setup.slack /\ Blocking(op) -> t
                     [] OTHER -> own
          IN  /\ log' = Append(log,
                    [task |-> t, op |-> op, status |-> st, own |-> own, next |-> n,
                     tset |-> tset, seen |-> seen, ran |-> NoTask,
                     should |-> \/ ret \notin {{}, {t}}
                                \/ GranularityRecords(t, op, n)])
              /\ next' = IF op = "CREATE" THEN NoTask ELSE n
              /\ registered' = reg
              /\ lastParent' = IF op = "CREATE" THEN t ELSE lastParent
              /\ unblocked' = {} /\ pending' = {}
              /\ actual' = act /\ replayed' = blk /\ returned' = ret
              /\ consumed' = (rep \/ cons)
              /\ replaying' = rep
              /\ input' = Left(k)
              /\ output' = output \o LoadedConfig(k)
              /\ UNCHANGED history

\* sequencer_resume: the task that resumes is not the one that was to be expected.
Deviated(e, t) ==
    \/ setup.slack /\ Blocking(e.op) /\ t # e.task
    \/ e.op # "CREATE" /\ (~setup.slack \/ ~Blocking(e.op)) /\ e.next # t

\* sequencer_resume of task t, with recorder_record
SequencerResume(t) ==
    LET e == log[clk]
    IN  /\ output' = IF e.should \/ Deviated(e, t)
                     THEN Append(output, Sched(clk, t, returned)) ELSE output
        /\ log' = [log EXCEPT ![clk].ran = t]
        /\ unblocked' = unblocked \cup pending
        /\ pending' = {}
        /\ UNCHANGED <<creation, blocking, input, history>>

-----------------------------------------------------------------------------
(* The threads *)

\* A capture with the wake: the task goes to the switcher, into a call, or ends, and a
\* created thread starts.
Capture(t, op) ==
    /\ clk < setup.maxclk /\ (run > 1 => clk < goal + setup.beyond)
    /\ SequencerCapture(t, op)
    /\ pc' = [u \in Task |->
                IF u = t THEN CASE op = "CALL" -> "calling" [] op = "FINI" -> "done"
                                [] OTHER -> "yield"
                ELSE IF op = "CREATE" /\ pc[u] = "new" /\ \A v \in Task : pc[v] = "new" => u <= v
                     THEN "start" ELSE pc[u]]

CaptureUser(t) == pc[t] = "user" /\ \E op \in Ops(t, clk + 1) : Capture(t, op)

CaptureInit(t) == pc[t] = "init" /\ Capture(t, "INIT")

\* The first resume of a thread, by mediator_get.
Bootstrap(t) ==
    /\ pc[t] = "start"
    /\ SequencerResume(t)
    /\ pc' = [pc EXCEPT ![t] = "init"]
    /\ UNCHANGED next

\* switcher_yield returns and the task resumes.
Resume(t) ==
    /\ pc[t] = "yield"
    /\ next \in {t, AnyTask}
    /\ next' = NoTask
    /\ SequencerResume(t)
    /\ pc' = [pc EXCEPT ![t] = "user"]

\* sequencer_return, at any time after the call began
Return(t) ==
    /\ pc[t] = "calling"
    /\ pc' = [pc EXCEPT ![t] = "yield"]
    /\ pending' = pending \cup {t}
    /\ UNCHANGED <<next, creation, unblocked, blocking, input, output, log, history>>

\* The run ends and recorder_fini writes the EXIT record.  cli_trace_init then cuts the
\* trace at the goal and adds a CONFIG record, for the runtime to replay up to the goal.
Prepared(g) ==
    SelectSeq(Append(output, Exit(clk)), LAMBDA r : r.clk <= g) \o <<Config(g)>>

\* The run ends at any time, and `lotto replay' starts the next one.
Replay ==
    /\ run < setup.runs
    /\ \E g \in 1..clk : g + setup.trim >= clk /\ goal' = g /\ input' = Prepared(g)
    /\ was' = log
    /\ run' = run + 1 /\ UNCHANGED setup
    /\ pc' = Fresh.pc /\ next' = NoTask
    /\ registered' = Fresh.registered /\ lastParent' = Main
    /\ unblocked' = {} /\ pending' = {}
    /\ actual' = {} /\ replayed' = {} /\ returned' = {}
    /\ consumed' = FALSE /\ replaying' = FALSE
    /\ output' = <<>> /\ log' = <<>>

Step(t) == CaptureUser(t) \/ CaptureInit(t) \/ Bootstrap(t) \/ Resume(t) \/ Return(t)

Next == Replay \/ \E t \in Task : Step(t)

Spec == Init /\ [][Next]_vars

\* Every thread goes on, and every call returns: in the recorded run they did.
FairSpec == Spec /\ \A t \in Task : WF_vars(Step(t))

-----------------------------------------------------------------------------
(* Properties *)

\* Deterministic replay: up to the goal the same task causes the same event at every
\* clock and the same task runs next, although calls return at other moments.  At a
\* clock that was completed in the recorded run both runs see the same blocked tasks.  This
\* is so for the trace of a recording, and for that of a replay which records its change
\* points or all captures; for that of a replay with the granularity MINIMAL it is not.
Faithful ==
    \A k \in 1..clk : k <= goal =>
        /\ log[k].task = was[k].task /\ log[k].op = was[k].op
        /\ was[k].ran # NoTask =>
              log[k].seen = was[k].seen /\ log[k].ran \in {NoTask, was[k].ran}

\* The assertion of sequencer_capture: what the sequencer decides on its own agrees with
\* the record it loads, except after ANY_TASK and at blocking events.
LoadAgrees ==
    \A e \in Range(log) :
        e.status = "LOAD" => e.own \in {AnyTask, e.next} \/ Blocking(e.op)

\* The assertions of the recorder about clocks: no record is left behind ("record must be
\* at most 1 tick behind"), SCHED records are written in strictly increasing clocks, and
\* the goal is the clock at which replay ends.
ClocksAgree ==
    /\ \A r \in Range(input) : r.clk >= clk
    /\ \A i, j \in 1..Len(output) :
          i < j => IF output[i].kind = "SCHED" /\ output[j].kind = "SCHED"
                   THEN output[i].clk < output[j].clk ELSE output[i].clk <= output[j].clk
    /\ \A k \in 1..clk : log[k].status # "DONE" <=> k <= goal

\* The assertions about tasks that return: none is inserted twice, and a task that runs is
\* not blocked.  Before and after a replay every task in a call is blocked, except one
\* whose return the replay has already seen.
BlockedSound ==
    /\ unblocked \cap pending = {}
    /\ actual \subseteq {t \in Task : pc[t] = "calling"} \cup unblocked \cup pending
    /\ \A t \in Task : pc[t] = "calling" /\ ~replaying =>
          \/ t \in actual
          \/ \E k \in 1..clk : k <= goal /\ log[k].task = t /\ log[k].op = "CALL"
                /\ \A j \in (k + 1)..clk : log[j].task # t

\* The mark is never handed to a task that cannot come and take it.
TargetComes == next \in Task => pc[next] \in {"yield", "calling"}

\* A replay reaches its goal: it does not wait for a task that never comes.
ReplayReachesGoal == run = setup.runs ~> clk >= goal
=============================================================================
