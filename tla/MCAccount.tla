------------------------------ MODULE MCAccount ------------------------------
(* One address, two passwords, two requests at a time.  The commune of a   *)
(* waiting dossier (old) can be merged into cur, which can be closed.      *)
EXTENDS Account, TLC
CONSTANTS a, p, q, old, cur
MCMergesInto == (old :> cur) @@ (cur :> None)
=============================================================================
