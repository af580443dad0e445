------------------------------ MODULE MCTimer -------------------------------
(***************************************************************************)
(* A small instance of RtTimer for TLC: timers of one or two ticks, and a  *)
(* callback queue that can be filled.                                      *)
(***************************************************************************)
EXTENDS RtTimer
=============================================================================
