---------------------------- MODULE MCPublication ----------------------------
(* The revisions of one arrete about communes x and y of one departement,  *)
(* z being a namesake of x: every choice of one or two lines, some of      *)
(* three, each line in a table of its own, and texts out of form.          *)
EXTENDS Publication, TLC

CONSTANTS x, y, z, lx, lxBad, lxArticle, ly, nx, ny, dep, p1, p2, p3

MCNameOf  == (x :> nx) @@ (y :> ny) @@ (z :> nx)
MCDep     == (x :> dep) @@ (y :> dep) @@ (z :> dep)
MCKeysOf  == (lx :> {nx}) @@ (lxArticle :> {nx}) @@ (lxBad :> {}) @@ (ly :> {ny})
MCMeantBy == (lx :> x) @@ (lxArticle :> x) @@ (lxBad :> x) @@ (ly :> y)

Flood == {"inondation", "coulee"}
Header == <<"departement", "risque", "commune", "ignored", "eventStart", "eventEnd">>
Row(l) == <<dep, l.risque, l.label, None, l.period, l.period>>

Annexe(caption, lines) ==
  [caption |-> caption, tables |-> [k \in DOMAIN lines |-> [header |-> Header, rows |-> <<Row(lines[k])>>]]]

Sound(t) ==
  [isArrete |-> TRUE, complete |-> TRUE, signature |-> None, publishedAt |-> t.published,
   annexes |-> (IF t.recognised = <<>> THEN <<>> ELSE <<Annexe("RECONNU", t.recognised)>>)
               \o (IF t.refused = <<>> THEN <<>> ELSE <<Annexe("REFUSE", t.refused)>>)]

January31 == [y |-> 2024, m |-> 1, d |-> 31]
February29 == [y |-> 2024, m |-> 2, d |-> 29]

MCLines  == [label : {lx, lxBad, ly}, risque : {Flood}, period : {p1, p2}]
MCRepeat == <<[label |-> lx, risque |-> Flood, period |-> p1],
              [label |-> lxArticle, risque |-> Flood, period |-> p1]>>
MCRocks  == [label |-> ly, risque |-> {"rochers"}, period |-> p1]
MCPairs   == {s \in MCLines \X MCLines : ly \in {s[1].label, s[2].label} /\ s[1].label # s[2].label}
MCTriples == {SetToSeq(S) : S \in {T \in SUBSET MCLines :
                Cardinality(T) = 3 /\ {l.label : l \in T} = {lxBad, ly}}}

(* The label printed again for two other periods, its old one for another. *)
MCAgain == <<[label |-> lxBad, risque |-> Flood, period |-> p2],
             [label |-> lxBad, risque |-> Flood, period |-> p3],
             [label |-> ly, risque |-> Flood, period |-> p1]>>

Revision(form, published, recognised, refused) ==
  [form |-> form, published |-> published, recognised |-> recognised, refused |-> refused]

MCText ==
  {Revision("sound", January31, s, <<>>) :
     s \in {<<l>> : l \in MCLines} \cup MCPairs \cup MCTriples \cup {MCRepeat, MCAgain}}
  \cup {Revision("sound", February29, s, <<l>>) :
          s \in {<<>>, <<MCRocks>>}, l \in {m \in MCLines : m.label = lx}}
  \cup {Revision(form, January31, <<MCRocks>>, <<>>) : form \in {"other", "untitled", "short"}}

MCPrint ==
  [t \in MCText |->
     CASE t.form = "sound"    -> Sound(t)
       [] t.form = "other"    -> [Sound(t) EXCEPT !.isArrete = FALSE]
       [] t.form = "untitled" -> [Sound(t) EXCEPT !.annexes[1].caption = None]
       [] t.form = "short"    -> [Sound(t) EXCEPT !.annexes[1].tables[1].rows[1] = <<dep>>]]

MCRules ==
  {[effectiveFrom |-> [y |-> 2023, m |-> 1, d |-> 1], effectiveTo |-> [y |-> 2024, m |-> 1, d |-> 30],
    duration |-> 30, unit |-> "DAYS"],
   [effectiveFrom |-> January31, effectiveTo |-> None, duration |-> 1, unit |-> "MONTHS"]}
=============================================================================
