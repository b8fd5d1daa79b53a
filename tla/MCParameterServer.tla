-------------------------- MODULE MCParameterServer --------------------------
(***************************************************************************)
(* Instances of ParameterServer for TLC.  Clients of one leaf are          *)
(* interchangeable, which the runs that check no liveness exploit.         *)
(***************************************************************************)
EXTENDS ParameterServer, TLC

CONSTANTS c1, c2, l1, l2

SameLeaf == [c \in Client |-> l1]
OwnLeaf  == c1 :> l1 @@ c2 :> l2

OneDemand == {1}
TwoDemand == {2}

Symmetry == Permutations(Client)
=============================================================================
