---------------------------- MODULE MCJobControl ----------------------------
(***************************************************************************)
(* Instances of JobControl for TLC.  The client managers are               *)
(* interchangeable, which the runs that check no liveness exploit.         *)
(***************************************************************************)
EXTENDS JobControlInv, TLC

OneDemand  == {1}
TwoDemands == {1, 2}

UnknownRounds == {0}
KnownRounds   == {0, 2}

Symmetry == Permutations(CM)
=============================================================================
