------------------------------- MODULE MCVeille -------------------------------
(* One address, two communes of which old can be merged into cur, forms    *)
(* naming one or the other, and an arrete naming the one that stays.       *)
EXTENDS Veille, TLC
CONSTANTS old, cur, n1
MCMergesInto == (old :> cur) @@ (cur :> None)
MCNames == n1 :> {cur}
=============================================================================
