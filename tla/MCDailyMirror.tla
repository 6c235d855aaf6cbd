-------------------------- MODULE MCDailyMirror --------------------------
(***************************************************************************)
(* Constants of the DailyMirror runs: a 13F asks for a share of each, or   *)
(* for both shares in one name.                                            *)
(***************************************************************************)
EXTENDS DailyMirror, TLC

CONSTANTS a, b      \* tickers

MCGoals == {(a :> 1) @@ (b :> 1), (a :> 0) @@ (b :> 2)}
=============================================================================
