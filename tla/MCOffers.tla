------------------------------ MODULE MCOffers ------------------------------
(***************************************************************************)
(* Instance of Offers for TLC: a job that every client is eligible for,    *)
(* even one with an expired specification, and one for large clients, of   *)
(* which the second does not suit every client.                            *)
(***************************************************************************)
EXTENDS Offers, TLC

CONSTANTS j1, j2, c1, c2, all, big, zero, small, large

Configurations == {<<"online", 2>>, <<"fifo", 1>>, <<"irs", 1>>}
Constraints    == all :> {zero, small, large} @@ big :> {large}
JobConstraint  == j1 :> all @@ j2 :> big
Specifications == c1 :> small @@ c2 :> large
Suited         == c1 :> {j1, j2} @@ c2 :> {j2}
=============================================================================
