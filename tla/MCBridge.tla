----------------------------- MODULE MCBridge -----------------------------
(***************************************************************************)
(* Constants of the Bridge runs: see the .cfg files.                       *)
(***************************************************************************)
EXTENDS Bridge
=============================================================================
