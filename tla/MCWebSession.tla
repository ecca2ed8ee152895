---------------------------- MODULE MCWebSession ----------------------------
(* Two tabs of one browser and two dates of one damage.                    *)
EXTENDS WebSession, TLC
CONSTANTS t1, t2, d1, d2
Tabs == Permutations({t1, t2}) \cup Permutations({d1, d2})
=============================================================================
