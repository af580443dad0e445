----------------------------- MODULE MCMail ---------------------------------
(***************************************************************************)
(* Small instances of RtMail for TLC: three threads of two priorities, one *)
(* mailbox for two messages or mails, and an interrupt.                    *)
(***************************************************************************)
EXTENDS RtMail

CONSTANTS main, hi, lo, idle, mb, x1, x2, null, isr, pool

MCPrio == (main :> 2 @@ hi :> 2 @@ lo :> 1 @@ idle :> 0)
=============================================================================
