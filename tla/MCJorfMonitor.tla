---------------------------- MODULE MCJorfMonitor ----------------------------
(* Arrete A refuses, then recognises, the place of dossier d1 (line l1)    *)
(* and recognises the place of d2 (l2).  Its first publication is on a day *)
(* no rule covers; the second revision is dated a day later, adds l4, also *)
(* about the place of d2, and resolves the commune of l3, which v1         *)
(* watches.  Arrete B recognises p1, moves its date and corrects the       *)
(* period of another line, from p4 to p5, two places of one commune v1     *)
(* watches.  Delta 1 never downloads; deltas 2 and 3 bring the revisions,  *)
(* so a delta 2 that failed is replayed after delta 3.                     *)
EXTENDS JorfMonitor, TLC

CONSTANTS A, B, l1, l2, l3, l4, p1, p2, p3, p4, p5, c1, c2, c3, c4, a1, a2, b1, b2, z1, d1, d2, v1

RECONNU(place) == [place |-> place, outcome |-> "RECONNU"]
REFUSE(place)  == [place |-> place, outcome |-> "REFUSE"]

MCNorOf  == (a1 :> A) @@ (a2 :> A) @@ (b1 :> B) @@ (b2 :> B) @@ (z1 :> B)
MCDateOf == (a1 :> 1) @@ (a2 :> 2) @@ (b1 :> 2) @@ (b2 :> 3) @@ (z1 :> 3)
MCLinesOf ==
  [t \in Text |->
     CASE t = a1 -> [l \in Line |-> CASE l = l1 -> REFUSE(p1)
                                      [] l = l2 -> RECONNU(p2)
                                      [] l = l3 -> RECONNU(None)
                                      [] OTHER  -> None]
       [] t = a2 -> [l \in Line |-> CASE l = l1 -> RECONNU(p1)
                                      [] l = l3 -> RECONNU(p3)
                                      [] OTHER  -> RECONNU(p2)]
       [] t \in {b1, b2} -> [l \in Line |-> CASE l = l1 -> RECONNU(p1)
                                              [] l = l2 -> RECONNU(IF t = b1 THEN p4 ELSE p5)
                                              [] OTHER  -> None]
       [] t = z1 -> [l \in Line |-> None]]
MCTextsIn == <<{}, {a1, b1}, {a2, b2, z1}>>
MCHomeOf  == (d1 :> p1) @@ (d2 :> p2)
MCCommuneOf == (p1 :> c1) @@ (p2 :> c2) @@ (p3 :> c3) @@ (p4 :> c4) @@ (p5 :> c4)
MCWatched == [v \in Veille |-> {c3, c4}]
MCRuled   == {2, 3}
=============================================================================
