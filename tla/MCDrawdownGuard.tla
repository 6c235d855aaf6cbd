------------------------- MODULE MCDrawdownGuard -------------------------
(***************************************************************************)
(* Constants of the DrawdownGuard runs.                                    *)
(***************************************************************************)
EXTENDS DrawdownGuard, TLC

CONSTANTS a, b      \* tickers

TickerSymmetry == Permutations(Ticker)
=============================================================================
