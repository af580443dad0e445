------------------------------ MODULE MCTicker ------------------------------
(***************************************************************************)
(* Small instances of Ticker for TLC: two Tickers and a Timeout, and a     *)
(* counter that wraps soon.                                                *)
(***************************************************************************)
EXTENDS Ticker, TLC

CONSTANTS k1, k2, once

MCSymmetry == Permutations(Tickers)
=============================================================================
