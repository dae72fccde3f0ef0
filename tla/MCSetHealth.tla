-------------------------------- MODULE MCSetHealth --------------------------------
(* Instances of SetHealth for TLC.                                             *)
EXTENDS SetHealth, TLC

CONSTANTS v1, v2, v3, v4, w, x, y, z

\* Every validator on its own, and two of them behind one entity.
MCEntityMaps == { (v1 :> w @@ v2 :> x @@ v3 :> y @@ v4 :> z),
                  (v1 :> w @@ v2 :> w @@ v3 :> x @@ v4 :> y) }

\* The narrowed sets hold ties, and powers that meet one and two thirds exactly.
MCTokenMaps == { (v1 :> 2 @@ v2 :> 2 @@ v3 :> 2 @@ v4 :> 1) }
=============================================================================
