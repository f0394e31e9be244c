------------------------------ MODULE MCReplay ------------------------------
(***************************************************************************)
(* Programs and configurations of which each stresses one way in which the *)
(* schedule depends on more than the seed.                                 *)
(***************************************************************************)
EXTENDS Replay

\* Three tasks and calls that overlap: two tasks can be away and return in any order.
Calls ==
    [started |-> {1, 2, 3}, ops |-> {"CALL", "CHPT"}, slack |-> FALSE, gran |-> <<{}, {}>>,
     runs |-> 2, maxclk |-> 4, beyond |-> 0, trim |-> 0]

\* The same, of which only a part is replayed and then left.
Part == [Calls EXCEPT !.maxclk = 3, !.beyond = 1, !.trim = 1]

\* All kinds of events, the second task being created, with every switch recorded.
Creation ==
    [started |-> {1}, ops |-> {"CREATE", "FINI", "CALL", "CHPT", "EVENT"}, slack |-> FALSE,
     gran |-> <<{"SWITCH"}, {}>>, runs |-> 2, maxclk |-> 5, beyond |-> 1, trim |-> 1]

\* Slack, under which blocking events are recorded by another rule.
Slackness ==
    [started |-> {1, 2}, ops |-> {"CREATE", "FINI", "CALL"}, slack |-> TRUE,
     gran |-> <<{}, {}>>, runs |-> 2, maxclk |-> 4, beyond |-> 1, trim |-> 1]

\* The trace of a replay is replayed, the replay recording as the one of inflex does or
\* every event.
Again(g) ==
    [started |-> {1, 2}, ops |-> {"CALL", "CHPT"}, slack |-> FALSE, gran |-> <<{}, g, {}>>,
     runs |-> 3, maxclk |-> 4, beyond |-> 1, trim |-> 1]

MCSetup == {Calls, Part, Creation, Slackness, Again({"CHPT"}), Again({"CAPTURE"})}

\* The same with the default granularity of `lotto replay', MINIMAL.
AgainSetup == {Again({})}
=============================================================================
