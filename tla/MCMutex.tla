------------------------------ MODULE MCMutex -------------------------------
(***************************************************************************)
(* Small instances of RtMutex for TLC: threads of three priorities, main   *)
(* being the highest, and one or two mutexes.                              *)
(***************************************************************************)
EXTENDS RtMutex

CONSTANTS main, mid, lo, idle, m1, m2

MCPrio == (main :> 3 @@ mid :> 2 @@ lo :> 1 @@ idle :> 0)
=============================================================================
