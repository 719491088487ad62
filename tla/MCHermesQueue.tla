----------------------------- MODULE MCHermesQueue -----------------------------
(* Instances of HermesQueue for TLC. *)
EXTENDS HermesQueue, TLC

CONSTANTS p1, p2, t1, a, b

(* Three jobs of one target. *)
ThreeFetches == 1 :> t1 @@ 2 :> t1 @@ 3 :> t1
===============================================================================
