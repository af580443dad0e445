---------------------------- MODULE MCSemaphore -----------------------------
(***************************************************************************)
(* Small instances of RtSemaphore for TLC: two threads of different        *)
(* priority beside main, one semaphore and a queue of two requests.        *)
(***************************************************************************)
EXTENDS RtSemaphore

CONSTANTS main, hi, lo, idle, s1

MCPrio == (main :> 2 @@ hi :> 2 @@ lo :> 1 @@ idle :> 0)
=============================================================================
