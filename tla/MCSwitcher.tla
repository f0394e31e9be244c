----------------------------- MODULE MCSwitcher -----------------------------
(***************************************************************************)
(* Three tasks on two buckets, so that at least two of them share one.     *)
(***************************************************************************)
EXTENDS Switcher
=============================================================================
