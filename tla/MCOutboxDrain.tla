---------------------------- MODULE MCOutboxDrain ----------------------------
(***************************************************************************)
(* Three rows: a hopeless one sharing its arrete with a deliverable one,   *)
(* and one of another arrete.                                              *)
(***************************************************************************)
EXTENDS OutboxDrain

CONSTANTS r1, r2, r3, a1, a2

MCRow      == {r1, r2, r3}
MCArrete   == {a1, a2}
MCArreteOf == [r \in MCRow |-> IF r = r3 THEN a2 ELSE a1]
MCHopeless == {r1}
=============================================================================
