------------------------------- MODULE MCExit -------------------------------
(***************************************************************************)
(* The end of a process of three threads with two signals: the smallest    *)
(* instance in which two exits overtake the one that finalizes.            *)
(***************************************************************************)
EXTENDS Exit
=============================================================================
