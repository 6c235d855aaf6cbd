--------------------------- MODULE MCExecutor ---------------------------
(***************************************************************************)
(* Constants of the Executor runs.                                         *)
(***************************************************************************)
EXTENDS Executor, TLC

CONSTANTS a, b      \* tickers

TickerSymmetry == Permutations(Ticker)
=============================================================================
