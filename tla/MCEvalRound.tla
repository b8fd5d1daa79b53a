----------------------------- MODULE MCEvalRound -----------------------------
(***************************************************************************)
(* Instance of EvalRound for TLC: more clients than a round asks for, and  *)
(* two more asked for than needed.                                         *)
(***************************************************************************)
EXTENDS EvalRound

CONSTANTS c1, c2, c3, c4
=============================================================================
