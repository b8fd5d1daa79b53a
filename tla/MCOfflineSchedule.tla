-------------------------- MODULE MCOfflineSchedule --------------------------
(***************************************************************************)
(* Instances of OfflineSchedule for TLC: each of two constraints has       *)
(* clients of its own, and clients of class ab satisfy both.               *)
(***************************************************************************)
EXTENDS OfflineSchedule, TLC

CONSTANTS k1, k2, j1, j2, a, ab, b, c1, c2, c3

Overlap == k1 :> {a, ab} @@ k2 :> {ab, b}
JobKeys == j1 :> k1 @@ j2 :> k2

Classes == c1 :> a @@ c2 :> ab @@ c3 :> ab
OneAb   == c2 :> ab
=============================================================================
