--------------------------- MODULE MCReconciler ---------------------------
(***************************************************************************)
(* Constants of the Reconciler runs.                                       *)
(***************************************************************************)
EXTENDS Reconciler

CONSTANTS a, b, c      \* tickers
=============================================================================
