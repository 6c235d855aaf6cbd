-------------------------- MODULE MCShadowHedge --------------------------
(***************************************************************************)
(* Constants of the ShadowHedge runs.                                      *)
(***************************************************************************)
EXTENDS ShadowHedge

CONSTANTS a, b      \* tickers
=============================================================================
