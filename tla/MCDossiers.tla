----------------------------- MODULE MCDossiers -----------------------------
(* A commune b into which a may merge; a refusal of a later recognised by  *)
(* a rectificatif that moves its date; and a text about b.                 *)
EXTENDS Dossiers, TLC
CONSTANTS r1, r2, d1, d2, a, b, n1, n2, e1, e2, inond

MCDamage == {[code |-> a, risk |-> inond, date |-> 1], [code |-> b, risk |-> inond, date |-> 3]}
MCArreteOf == e1 :> n1 @@ e2 :> n2
MCMerger == a :> b
Line(code, start, end, outcome) ==
  [code |-> code, risks |-> {inond}, start |-> start, end |-> end, outcome |-> outcome]
Text(arrete, date, l1, l2) == [arrete |-> arrete, date |-> date, lines |-> e1 :> l1 @@ e2 :> l2]
MCTexts == <<Text(n1, 4, Line(a, 1, 2, "REFUSE"), None),
             Text(n1, 5, Line(a, 1, 2, "RECONNU"), None),
             Text(n2, 6, None, Line(b, 1, 3, "RECONNU"))>>
MCRuled == {4, 5, 6}
Symmetric == Permutations({r1, r2}) \cup Permutations({d1, d2})
=============================================================================
