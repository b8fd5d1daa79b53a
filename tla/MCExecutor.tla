----------------------------- MODULE MCExecutor -----------------------------
(***************************************************************************)
(* Instance of Executor for TLC: one job trains, with an attempt that may  *)
(* fail, and the other only comes and goes.                                *)
(***************************************************************************)
EXTENDS Executor, TLC

CONSTANTS j1, j2, c1, c2, p

OneRound  == j1 :> 1 @@ j2 :> 0
OneResult == j1 :> 1 @@ j2 :> 1
=============================================================================
