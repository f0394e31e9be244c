-------------------------------- MODULE Exit --------------------------------
(***************************************************************************)
(* The end of a process: lotto_exit and fini_cb_ (runtime/module.c), the   *)
(* signal handlers and __assert_fail (runtime/sighandler.c), engine_fini   *)
(* and recorder_fini.                                                      *)
(*                                                                         *)
(* One thread runs under Lotto; the others are detached, in external calls *)
(* that go on in parallel.  A signal or a failing assertion takes any of   *)
(* them into lotto_exit, at any moment, even in the middle of another      *)
(* lotto_exit of its own.  lotto_exit does not return: a later one on the  *)
(* same thread takes the place of the earlier one.                         *)
(***************************************************************************)
EXTENDS Naturals, Sequences

CONSTANTS
    Thread,     \* the threads of the process
    Runner,     \* the one that runs under Lotto
    MaxSignals  \* bound: the number of signals

ASSUME ExitAssumption == Runner \in Thread /\ MaxSignals \in Nat

VARIABLES
    pc,         \* where each thread is
    why,        \* the reason with which it called lotto_exit ("SUCCESS" when done with)
    previous,   \* the winner it replaced
    reason,     \* the reason fini_cb_ goes on with
    winner,     \* _winner_reason
    once,       \* _only_once
    finished,   \* the contract state of the engine is FINISHED
    handling,   \* _handling of __assert_fail
    trace,      \* the EXIT records in the trace, by their reasons
    status,     \* of the process: "alive", or whether its exit code is 0
    signals     \* the number of signals so far

calls == <<why, previous, reason>>
vars == <<pc, calls, winner, once, finished, handling, trace, status, signals>>

Reason == {"SUCCESS", "SHUTDOWN", "SIGNAL", "ASSERT_FAIL"}

\* "run": not in lotto_exit; "capture": in engine_capture, and "sequence" when it is past
\* recorder_replay; "over": ended by pthread_exit.
PC == {"run", "capture", "sequence", "announce", "restore", "look", "race", "fini", "record", "close", "over"}

TypeOK ==
    /\ pc \in [Thread -> PC]
    /\ {why, previous, reason} \subseteq [Thread -> Reason]
    /\ winner \in Reason
    /\ {once, finished, handling} \subseteq BOOLEAN
    /\ trace \in Seq(Reason)
    /\ status \in {"alive", "zero", "nonzero"}
    /\ signals \in 0..MaxSignals

Init ==
    /\ pc = [t \in Thread |-> "run"]
    /\ why = [t \in Thread |-> "SUCCESS"]
    /\ previous = why /\ reason = why
    /\ winner = "SUCCESS"
    /\ once = FALSE /\ finished = FALSE /\ handling = FALSE
    /\ trace = <<>>
    /\ status = "alive"
    /\ signals = 0

-----------------------------------------------------------------------------
(* The ways into lotto_exit *)

\* lotto_exit(cp, r): a success is not announced.
LottoExit(t, r) ==
    /\ pc' = [pc EXCEPT ![t] = IF r = "SUCCESS" THEN "look" ELSE "announce"]
    /\ why' = [why EXCEPT ![t] = r]
    /\ previous' = [previous EXCEPT ![t] = "SUCCESS"]
    /\ reason' = [reason EXCEPT ![t] = "SUCCESS"]
    /\ UNCHANGED <<winner, once, finished, trace, status>>

\* The program ends (runtime_fini_), terminates itself, or the plan is to shut down.
Terminate(t) ==
    /\ t = Runner /\ pc[t] = "run"
    /\ \E r \in {"SUCCESS", "SHUTDOWN"} : LottoExit(t, r)
    /\ UNCHANGED <<handling, signals>>

\* An assertion of the program fails, __assert_fail.  While another thread is in it the
\* real one is called, whose SIGABRT is handled as any signal.
AssertFail(t) ==
    /\ pc[t] = "run"
    /\ LottoExit(t, IF handling THEN "SIGNAL" ELSE "ASSERT_FAIL")
    /\ handling' = TRUE
    /\ UNCHANGED signals

\* The running task is captured or resumed after engine_fini or recorder_fini: an
\* assertion of their contracts fails, sys_assert_fail aborts and the handler of SIGABRT
\* exits.  Detached tasks that return are ignored.
CaptureAfterFini ==
    /\ pc[Runner] \in {"run", "capture"}
    /\ finished \/ trace # <<>>
    /\ LottoExit(Runner, "SIGNAL")
    /\ UNCHANGED <<handling, signals>>

\* engine_capture tests the contract state when it starts, recorder_replay that the EXIT
\* record was not written, and engine_capture writes CAPTURED when it ends, over a
\* FINISHED that came in between.
CaptureStart ==
    /\ pc[Runner] = "run" /\ ~finished
    /\ pc' = [pc EXCEPT ![Runner] = "capture"]
    /\ UNCHANGED <<calls, winner, once, finished, handling, trace, status, signals>>

CaptureReplay ==
    /\ pc[Runner] = "capture" /\ trace = <<>>
    /\ pc' = [pc EXCEPT ![Runner] = "sequence"]
    /\ UNCHANGED <<calls, winner, once, finished, handling, trace, status, signals>>

CaptureEnd ==
    /\ pc[Runner] = "sequence"
    /\ pc' = [pc EXCEPT ![Runner] = "run"]
    /\ finished' = FALSE
    /\ UNCHANGED <<calls, winner, once, handling, trace, status, signals>>

\* A signal, _handle: also in a thread that is in lotto_exit.
Signal(t) ==
    /\ pc[t] # "over"
    /\ signals < MaxSignals
    /\ signals' = signals + 1
    /\ LottoExit(t, "SIGNAL")
    /\ UNCHANGED handling

-----------------------------------------------------------------------------
(* lotto_exit and fini_cb_ *)

\* The first vatomic_xchg of lotto_exit.
Announce(t) ==
    /\ pc[t] = "announce"
    /\ winner' = why[t]
    /\ previous' = [previous EXCEPT ![t] = winner]
    /\ pc' = [pc EXCEPT ![t] = "restore"]
    /\ UNCHANGED <<why, reason, once, finished, handling, trace, status, signals>>

\* Mutant of Restore: what was there before is restored, whatever it was.
RestoreAlways(t) ==
    /\ pc[t] = "restore"
    /\ winner' = previous[t]
    /\ previous' = [previous EXCEPT ![t] = "SUCCESS"]
    /\ pc' = [pc EXCEPT ![t] = "look"]
    /\ UNCHANGED <<why, reason, once, finished, handling, trace, status, signals>>

\* The second one: an earlier failure is restored.
Restore(t) ==
    /\ pc[t] = "restore"
    /\ winner' = IF previous[t] # "SUCCESS" THEN previous[t] ELSE winner
    /\ previous' = [previous EXCEPT ![t] = "SUCCESS"]
    /\ pc' = [pc EXCEPT ![t] = "look"]
    /\ UNCHANGED <<why, reason, once, finished, handling, trace, status, signals>>

\* fini_cb_ reads the winner.
Look(t) ==
    /\ pc[t] = "look"
    /\ reason' = [reason EXCEPT ![t] = IF winner = "SUCCESS" THEN why[t] ELSE winner]
    /\ why' = [why EXCEPT ![t] = "SUCCESS"]
    /\ pc' = [pc EXCEPT ![t] = "race"]
    /\ UNCHANGED <<previous, winner, once, finished, handling, trace, status, signals>>

\* Mutants of Race: the test is the wrong way round, a late failure exits with 0, there
\* is no test.
RaceInverted(t) ==
    /\ pc[t] = "race"
    /\ once' = TRUE
    /\ pc' = [pc EXCEPT ![t] = IF once THEN "fini" ELSE IF reason[t] = "SUCCESS" THEN "over" ELSE @]
    /\ status' = IF ~once /\ reason[t] # "SUCCESS" THEN "nonzero" ELSE status
    /\ UNCHANGED <<calls, winner, finished, handling, trace, signals>>
RaceQuietly(t) ==
    /\ pc[t] = "race"
    /\ once' = TRUE
    /\ pc' = [pc EXCEPT ![t] = IF ~once THEN "fini" ELSE IF reason[t] = "SUCCESS" THEN "over" ELSE @]
    /\ status' = IF once /\ reason[t] # "SUCCESS" THEN "zero" ELSE status
    /\ UNCHANGED <<calls, winner, finished, handling, trace, signals>>
RaceUnguarded(t) ==
    /\ pc[t] = "race"
    /\ once' = TRUE
    /\ pc' = [pc EXCEPT ![t] = "fini"]
    /\ UNCHANGED <<calls, winner, finished, handling, trace, status, signals>>

\* The vatomic_xchg of _only_once: one thread goes on to the finalization; of the
\* others one with another reason than SUCCESS ends the process at once, one
\* with SUCCESS ends its thread.
Race(t) ==
    /\ pc[t] = "race"
    /\ once' = TRUE
    /\ pc' = [pc EXCEPT ![t] = IF ~once THEN "fini" ELSE IF reason[t] = "SUCCESS" THEN "over" ELSE @]
    /\ status' = IF once /\ reason[t] # "SUCCESS" THEN "nonzero" ELSE status
    /\ UNCHANGED <<calls, winner, finished, handling, trace, signals>>

\* The finalization in three steps: engine_fini sets the contract state, recorder_fini
\* writes the EXIT record, the streams are closed and the process exits.
EngineFini(t) ==
    /\ pc[t] = "fini"
    /\ finished' = TRUE
    /\ pc' = [pc EXCEPT ![t] = "record"]
    /\ UNCHANGED <<calls, winner, once, handling, trace, status, signals>>

\* Mutant of RecorderFini: the reason is left out.
RecorderFiniUnknown(t) ==
    /\ pc[t] = "record"
    /\ trace' = Append(trace, "UNKNOWN")
    /\ pc' = [pc EXCEPT ![t] = "close"]
    /\ UNCHANGED <<calls, winner, once, finished, handling, status, signals>>

RecorderFini(t) ==
    /\ pc[t] = "record"
    /\ trace' = Append(trace, reason[t])
    /\ pc' = [pc EXCEPT ![t] = "close"]
    /\ UNCHANGED <<calls, winner, once, finished, handling, status, signals>>

Close(t) ==
    /\ pc[t] = "close"
    /\ status' = IF reason[t] = "SUCCESS" THEN "zero" ELSE "nonzero"
    /\ UNCHANGED <<pc, calls, winner, once, finished, handling, trace, signals>>

-----------------------------------------------------------------------------

InExit(t) ==
    \/ Announce(t) \/ Restore(t) \/ Look(t) \/ Race(t)
    \/ EngineFini(t) \/ RecorderFini(t) \/ Close(t)

Gone == status # "alive" /\ UNCHANGED vars

Next ==
    \/ Gone
    \/ /\ status = "alive"
       /\ \/ CaptureAfterFini \/ CaptureStart \/ CaptureReplay \/ CaptureEnd
          \/ \E t \in Thread : InExit(t) \/ Terminate(t) \/ AssertFail(t) \/ Signal(t)

Spec == Init /\ [][Next]_vars

\* A thread in lotto_exit is not blocked by anybody: the operating system runs it.
FairSpec == Spec /\ \A t \in Thread : WF_vars(status = "alive" /\ InExit(t))

-----------------------------------------------------------------------------
(* Properties *)

\* The assertions of engine_fini and recorder_fini: whatever threads fail, exit or are
\* interrupted, the engine is finalized at most once and at most one EXIT is written.
FinalizedOnce ==
    /\ Len(trace) <= 1
    /\ \A t \in Thread : pc[t] = "fini" => ~finished
    /\ \A t \in Thread : pc[t] = "record" => trace = <<>>

\* Once a reason other than SUCCESS has been announced, no exit that looks at the winner
\* takes itself for a success, although the two exchanges of lotto_exit on several threads
\* overwrite each other.
FailureNotForgotten ==
    [][winner # "SUCCESS" =>
          /\ winner' # "SUCCESS"
          /\ \A t \in Thread : Look(t) => reason'[t] # "SUCCESS"]_vars

\* Exit code 0 means that the trace was finalized and says so: a failure, however late,
\* does not end the process with 0, and a process does not succeed without a trace.
SuccessIsRecorded == status = "zero" => trace = <<"SUCCESS">>

\* The process ends once a thread is in lotto_exit: no two exits wait for each other, and
\* the thread that ends itself leaves the end of the process to another one.
ProcessEnds == \A t \in Thread : pc[t] \notin {"run", "capture", "sequence"} ~> status # "alive"

\* The signal handler section of doc/design.md: a signal "issues a termination event which
\* allows the engine to finalize the trace".
SignalFinalizesTrace == signals > 0 /\ status # "alive" => Len(trace) = 1
=============================================================================
