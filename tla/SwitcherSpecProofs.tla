------------------------- MODULE SwitcherSpecProofs -------------------------
(***************************************************************************)
(* Tasks run one at a time, and the right to run is never lost, for any    *)
(* set of tasks.                                                           *)
(***************************************************************************)
EXTENDS SwitcherSpec, TLAPS

\* Both invariants rest on the same induction: they are preserved together.
Inv == TypeOK /\ Sequential /\ NeverLost

\* In the initial state the main task runs and the mark is down.
LEMMA InitInv == Init => Inv
BY MainAssumption, MarkAssumption DEF Init, Inv, TypeOK, Place, Sequential, NeverLost

\* Every step of the switcher and of its clients preserves the invariant.
LEMMA NextInv == Inv /\ [Next]_vars => Inv'
<1> SUFFICES ASSUME Inv, [Next]_vars PROVE Inv'
  OBVIOUS
<1> USE MainAssumption, MarkAssumption
<1>1. ASSUME NEW t \in Task, NEW u \in Task, Create(t, u) PROVE Inv'
  BY <1>1 DEF Create, Inv, TypeOK, Place, Sequential, NeverLost
<1>2. ASSUME NEW t \in Task, NEW n \in Task \cup {AnyTask}, NEW p \in {"out", "done"},
             Wake(t, n, p)
      PROVE Inv'
  BY <1>2 DEF Wake, Inv, TypeOK, Place, Sequential, NeverLost
<1>3. ASSUME NEW t \in Task, Yield(t) PROVE Inv'
  BY <1>3 DEF Yield, Inv, TypeOK, Place, Sequential, NeverLost
<1>4. ASSUME NEW t \in Task, Return(t) PROVE Inv'
  BY <1>4 DEF Return, Lets, Inv, TypeOK, Place, Sequential, NeverLost
<1>5. ASSUME NEW t \in Task, Refilter(t) PROVE Inv'
  BY <1>5 DEF Refilter, Inv, TypeOK, Place, Sequential, NeverLost
<1>6. CASE UNCHANGED vars
  BY <1>6 DEF vars, Inv, TypeOK, Sequential, NeverLost
<1> QED
  BY <1>1, <1>2, <1>3, <1>4, <1>5, <1>6 DEF Next

\* The clients of the switcher and the switcher keep the execution sequential: no two
\* tasks run, and the mark is down while one does.
THEOREM SequentialExecution == Spec => []Sequential
<1>1. Inv => Sequential
  BY DEF Inv
<1> QED
  BY InitInv, NextInv, <1>1, PTL DEF Spec

\* As long as every task that runs hands the mark on, somebody has the right to run.
THEOREM RightNeverLost == Spec => []NeverLost
<1>1. Inv => NeverLost
  BY DEF Inv
<1> QED
  BY InitInv, NextInv, <1>1, PTL DEF Spec
=============================================================================
