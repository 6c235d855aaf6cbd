-------------------------- MODULE MCMirrorCycle --------------------------
(***************************************************************************)
(* Constants of the MirrorCycle runs.                                      *)
(***************************************************************************)
EXTENDS MirrorCycle, TLC

CONSTANTS a, b      \* tickers

TickerSymmetry == Permutations(Ticker)
=============================================================================
