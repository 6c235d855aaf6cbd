--------------------------- MODULE MCDecisions ---------------------------
(***************************************************************************)
(* Constants of the Decisions runs.                                        *)
(***************************************************************************)
EXTENDS Decisions, TLC

CONSTANTS a, b, c      \* tickers

Symmetry == Permutations(Ticker)
=============================================================================
