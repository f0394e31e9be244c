------------------------------- MODULE MCLive -------------------------------
(***************************************************************************)
(* What Lotto owes a task that waits: in the switcher, in the runtime and  *)
(* in a replay.  A behaviour is one of one of the three models, the state  *)
(* of the other two staying as it is; the constants that are common to     *)
(* them have the values of the switcher.                                   *)
(***************************************************************************)
EXTENDS Switcher

CONSTANTS Mutex, None, MaxCount    \* of module Runtime

VARIABLES
    part,       \* the model in use
    tpc, tcp, tplan, tnext, tghost, tregistered, tlastParent, tunblocked, tpending, tblocked,
    texited, owner, count, waiters,    \* the variables of Runtime
    rpc, rnext, rregistered, rlastParent, runblocked, rpending, actual, replayed, returned,
    consumed, replaying, input, output, log, was, run, goal, setup  \* the variables of Replay

runtimeVars ==
    <<tpc, tcp, tplan, tnext, tghost, tregistered, tlastParent, tunblocked, tpending, tblocked,
      texited, owner, count, waiters>>
replayVars ==
    <<rpc, rnext, rregistered, rlastParent, runblocked, rpending, actual, replayed, returned,
      consumed, replaying, input, output, log, was, run, goal, setup>>
partVars == <<vars, part, runtimeVars, replayVars>>

Two == {1, 2}

\* The real pthread_create may fail.
Run == INSTANCE Runtime WITH
    Task <- Two, CreateMayFail <- TRUE, pc <- tpc, cp <- tcp, plan <- tplan, next <- tnext,
    ghost <- tghost, registered <- tregistered, lastParent <- tlastParent,
    unblocked <- tunblocked, pending <- tpending, blocked <- tblocked, exited <- texited

\* One recording and one replay of all of it, up to clock max
Recorded(ops, max) ==
    [started |-> Two, ops |-> ops, slack |-> FALSE, gran |-> <<{}, {}>>, runs |-> 2,
     maxclk |-> max, beyond |-> 0, trim |-> 0]

Rep == INSTANCE Replay WITH
    Task <- Two, pc <- rpc, next <- rnext, registered <- rregistered,
    lastParent <- rlastParent, unblocked <- runblocked, pending <- rpending,
    Setup <- {Recorded({"CALL", "CHPT", "FINI"}, 3), Recorded({"CALL", "FINI"}, 4)}

LiveInit ==
    /\ part \in {"switcher", "runtime", "replay"} /\ Init /\ Run!Init /\ Rep!Init
    /\ part # "replay" => setup.maxclk = 3    \* one initial state is enough for the others

Uses(name) == part = name /\ part' = part
InSwitcher(A) == Uses("switcher") /\ A /\ UNCHANGED <<runtimeVars, replayVars>>
InRuntime(A) == Uses("runtime") /\ A /\ UNCHANGED <<vars, replayVars>>
InReplay(A) == Uses("replay") /\ A /\ UNCHANGED <<vars, runtimeVars>>
LiveNext == InSwitcher(Next) \/ InRuntime(Run!Next) \/ InReplay(Rep!Next)

\* The fairness of the FairSpec of each of the models
LiveSpec ==
    /\ LiveInit /\ [][LiveNext]_partVars
    /\ \A t \in Task : WF_partVars(InSwitcher(Step(t)))
    /\ \A t \in Two :
          /\ WF_partVars(InRuntime(~texited /\ Run!LottoStep(t)))
          /\ WF_partVars(InRuntime(~texited /\ \E u \in Two : Run!Spawn(t, u)))
          /\ WF_partVars(InReplay(Rep!Step(t)))

\* The task that is handed the mark resumes, and when the mark is for anybody one of the
\* tasks that could take it does (switcher_yield, mediator_resume).
SelectedResumes == Run!SelectedResumes

\* A replay reaches its goal: it does not wait for a task that never comes
\* (sequencer_capture, REPLAY_LOAD).
ReplayReachesGoal == Rep!ReplayReachesGoal
=============================================================================
