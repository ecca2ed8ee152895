----------------------------- MODULE Publication -----------------------------
(* One arrete from its print to its rows (parse-arrete.ts, match-commune.ts *)
(* and ingestArrete of JorfMonitorService): a text is read cell by cell,   *)
(* its lines are placed on the commune referential, and every later        *)
(* revision is paired with the rows it corrects, which dossiers are linked *)
(* to.  A text is a record of what it prints; a wording is the set of      *)
(* words the classifier looks for.                                         *)
(***************************************************************************)
EXTENDS Integers, FiniteSets, Sequences, SequencesExt, Calendar

CONSTANTS
  None,
  Text,       \* revisions of the arrete that the deltas may deliver, in any order
  print,      \* what each of them prints
  Code, Known, \* INSEE codes, those the referential has from the start
  nameOf, departementOf, \* the Commune row of a code
  keysOf,     \* nameKeys of a printed label: as printed, and with its article up front
  meantBy,    \* the code of the commune a printed label is about
  MinCommunes, \* MIN_EXPECTED_COMMUNES
  Rules,      \* the versions of the declaration rule
  WindowMonths, \* COMMUNE_ARRETES_WINDOW_MONTHS
  Years,      \* bound: years looked at
  MaxRow, MaxDeliveries, MaxReforms \* bounds: rows, deliveries, changes of the referential

Id == 1 .. MaxRow

ASSUME BoundAssumption == MaxRow \in Nat /\ MaxDeliveries \in Nat /\ MaxReforms \in Nat

VARIABLES
  commune,    \* "absent", "current" or "closed" (effectiveTo) in the referential
  arrete,     \* the text the Arrete row was written from: its contentHash and publishedAt
  row,        \* its ArreteEntry rows
  alerts,     \* MonitorAlert rows
  delivered, reforms

vars == <<commune, arrete, row, alerts, delivered, reforms>>

TypeOK ==
  /\ commune \in [Code -> {"absent", "current", "closed"}]
  /\ arrete \in Text \cup {None}
  /\ \A i \in Id : row[i] # None => row[i].code \in Code \cup {None} /\ arrete # None
  /\ delivered \in 0 .. MaxDeliveries /\ reforms \in 0 .. MaxReforms

Init ==
  /\ commune \in {f \in [Code -> {"absent", "current"}] : \A c \in Known : f[c] = "current"}
  /\ arrete = None /\ row = [i \in Id |-> None] /\ alerts = {}
  /\ delivered = 0 /\ reforms = 0

-----------------------------------------------------------------------------
(* parseArreteXml.                                                         *)

Required == {"departement", "commune", "risque", "eventStart", "eventEnd"}
Columns  == Required \cup {"motivation", "ignored"}

Column(table, key) == {k \in DOMAIN table.header : table.header[k] = key}

(* A column printed twice: the last one stands.                            *)
Cell(table, cells, key) ==
  LET at == Column(table, key)
  IN IF at = {} THEN None ELSE cells[CHOOSE k \in at : \A j \in at : j <= k]

(* parseAnnexeTable throws on an unknown or a missing column, on a row of  *)
(* another width, on an empty cell it needs and on a date it cannot read.  *)
TableReadable(table) ==
  /\ table.header # <<>> /\ Required \subseteq ToSet(table.header)
  /\ ToSet(table.header) \subseteq Columns
  /\ \A cells \in ToSet(table.rows) :
       /\ Len(cells) = Len(table.header)
       /\ \A key \in Required : Cell(table, cells, key) # None

(* parseAnnexeSection: the caption says what is decided of every line.     *)
AnnexeReadable(annexe) ==
  /\ annexe.caption # None /\ annexe.tables # <<>>
  /\ \A table \in ToSet(annexe.tables) : TableReadable(table)

Readable(text) ==
  /\ text.complete /\ text.annexes # <<>>
  /\ \A annexe \in ToSet(text.annexes) : AnnexeReadable(annexe)

Line(annexe, table, cells) ==
  [departement |-> Cell(table, cells, "departement"), label |-> Cell(table, cells, "commune"),
   risque |-> Cell(table, cells, "risque"),
   period |-> <<Cell(table, cells, "eventStart"), Cell(table, cells, "eventEnd")>>,
   outcome |-> annexe.caption, motivation |-> Cell(table, cells, "motivation")]

LinesOf(annexe, table) == [k \in DOMAIN table.rows |-> Line(annexe, table, table.rows[k])]

(* Mutant: only the first table of an annexe is read.                      *)
FirstTable(annexe) == LinesOf(annexe, annexe.tables[1])

AnnexeLines(annexe) ==
  FlattenSeq([k \in DOMAIN annexe.tables |-> LinesOf(annexe, annexe.tables[k])])

Entries(text) == FlattenSeq([k \in DOMAIN text.annexes |-> AnnexeLines(text.annexes[k])])

EntriesOf == [t \in {u \in Text : print[u].isArrete /\ Readable(print[u])} |-> Entries(print[t])]

(* computeContentHash: the lines sorted by what identifies them, those it  *)
(* cannot tell apart left in the order of the text.                        *)
ContentHash(t) ==
  LET key(e) == [e EXCEPT !.motivation = None]
      lines  == EntriesOf[t]
  IN [publishedAt |-> print[t].publishedAt, signature |-> print[t].signature,
      entries |-> [k \in {key(e) : e \in ToSet(lines)} |->
                     SelectSeq(lines, LAMBDA e : key(e) = k)]]

IsSequence(s) == s \in Seq(ToSet(s))

ASSUME TextAssumption ==
  /\ None \notin Text /\ None \notin Id
  /\ \A t \in Text :
       /\ IsSequence(print[t].annexes)
       /\ \A annexe \in ToSet(print[t].annexes) :
            /\ IsSequence(annexe.tables)
            /\ \A table \in ToSet(annexe.tables) : IsSequence(table.rows)

(* Dates are days of the calendar, delays are not negative.                *)
ASSUME DateAssumption ==
  /\ Years \subseteq Int /\ WindowMonths \in Int
  /\ \A t \in Text : print[t].publishedAt \in DaysOf(Years)
  /\ \A r \in Rules : r.duration \in Nat

HashOf == [t \in DOMAIN EntriesOf |-> ContentHash(t)]

-----------------------------------------------------------------------------
(* matchCommune and classifyRisques.                                       *)

Names(c, label, departement) == nameOf[c] \in keysOf[label] /\ departementOf[c] = departement

MatchCommune(label, departement) ==
  LET candidates == {c \in Code : commune[c] # "absent" /\ Names(c, label, departement)}
      current    == {c \in candidates : commune[c] = "current"}
      pool       == IF current # {} THEN current ELSE candidates
  IN IF Cardinality(pool) = 1 THEN CHOOSE c \in pool : TRUE ELSE None

(* A rehydration of the soil is a drought, not a movement of the ground.   *)
ClassifyRisques(words) ==
  {r \in {"INONDATION", "SECHERESSE", "MOUVEMENT_TERRAIN", "SEISME", "AVALANCHE",
          "VENTS_CYCLONIQUES"} :
     CASE r = "INONDATION" -> words \cap {"inondation", "submersion"} # {}
       [] r = "SECHERESSE" -> "rehydratation" \in words
       [] r = "MOUVEMENT_TERRAIN" ->
            "rehydratation" \notin words /\ {"mouvement", "terrain"} \subseteq words
       [] r = "SEISME"     -> words \cap {"seisme", "volcan"} # {}
       [] r = "AVALANCHE"  -> "avalanche" \in words
       [] r = "VENTS_CYCLONIQUES" -> "cyclon" \in words}

PlacedAs(entry, code) ==
  [departement |-> entry.departement, label |-> entry.label, risque |-> entry.risque,
   period |-> entry.period, outcome |-> entry.outcome, motivation |-> entry.motivation,
   code |-> code]

Placed(entry) == PlacedAs(entry, MatchCommune(entry.label, entry.departement))

ASSUME CodeAssumption == IsFiniteSet(Code) /\ None \notin Code

EntriesPrinted == UNION {ToSet(EntriesOf[t]) : t \in DOMAIN EntriesOf}

(* Two labels that may be the name of one commune of their departement are *)
(* about one commune.                                                      *)
ASSUME LabelAssumption ==
  \A e, f \in EntriesPrinted, c \in Code :
    Names(c, e.label, e.departement) /\ Names(c, f.label, f.departement)
      => meantBy[e.label] = meantBy[f.label]

Matched(t) == [k \in DOMAIN EntriesOf[t] |-> Placed(EntriesOf[t][k])]

(* alertIfUnmatched and alertIfUnclassified, once per detail.              *)
LineAlerts(lines) ==
  {<<"UNMATCHED_COMMUNE", l.label, l.departement>> : l \in {e \in ToSet(lines) : e.code = None}}
  \cup {<<"UNPARSEABLE_ANNEXE", "risque", l.risque>> :
          l \in {e \in ToSet(lines) : ClassifyRisques(e.risque) = {}}}

-----------------------------------------------------------------------------
(* pairEntries: which stored row each line of a revision corrects.         *)

Stored == {i \in Id : row[i] # None}

IsSameEntry(i, line) ==
  /\ row[i].risque = line.risque /\ row[i].period = line.period
  /\ IF row[i].code # None /\ line.code # None THEN row[i].code = line.code
     ELSE row[i].departement = line.departement /\ row[i].label = line.label

CommuneAndRisque(line) ==
  IF line.code # None THEN <<line.code, line.risque>>
  ELSE <<line.departement, line.label, line.risque>>

DepartementAndPeriod(line) == <<line.departement, line.risque, line.period>>
IfUnresolved(stored) == IF stored.code = None THEN DepartementAndPeriod(stored) ELSE None

(* None is neither a row nor a key.                                        *)
ASSUME LineAssumption ==
  \A e \in EntriesPrinted :
    /\ \A code \in Code \cup {None} : PlacedAs(e, code) # None
    /\ DepartementAndPeriod(e) # None

(* Exact identity first: each line takes the first unclaimed row that says *)
(* the same.  The query asks for no order, so any such row may be first.   *)
ExactPasses(lines) ==
  LET passes[n \in Nat] ==
        IF n = 0 THEN {[match |-> <<>>, unclaimed |-> Stored]}
        ELSE UNION {LET same == {i \in before.unclaimed : IsSameEntry(i, lines[n])}
                    IN {[match |-> Append(before.match, i), unclaimed |-> before.unclaimed \ {i}] :
                          i \in IF same = {} THEN {None} ELSE same} : before \in passes[n - 1]}
  IN passes[Len(lines)]

(* A relaxed pass: one unclaimed row for one unpaired line of a key, or no *)
(* claim; the keys of the rows and of the lines are functions of these.    *)
ClaimBy(pairs, rowKey, lineKey) ==
  LET pass[n \in Nat] ==
        IF n = 0 THEN pairs
        ELSE LET before == pass[n - 1]
                 rows   == {i \in before.unclaimed : rowKey[i] = lineKey[n]}
                 rivals == {k \in DOMAIN lineKey :
                              before.match[k] = None /\ lineKey[k] = lineKey[n]}
             IN IF rivals = {n} /\ Cardinality(rows) = 1
                THEN [match |-> [before.match EXCEPT ![n] = CHOOSE i \in rows : TRUE],
                      unclaimed |-> before.unclaimed \ rows]
                ELSE before
  IN pass[Len(lineKey)]

(* Mutant: only an exact line finds its row.                               *)
PairExactly(lines) == {exact.match : exact \in ExactPasses(lines)}

(* Mutant: the first line that fits takes the row, rivals or not.          *)
PairGreedily(lines) ==
  LET Keys(KeyOf(_), of) == [k \in DOMAIN of |-> KeyOf(of[k])]
      stored == [i \in Stored |-> row[i]]
      Takes(pairs, rowKey, lineKey) ==
        LET pass[n \in Nat] ==
              IF n = 0 THEN pairs
              ELSE LET before == pass[n - 1]
                       rows   == {i \in before.unclaimed : rowKey[i] = lineKey[n]}
                   IN IF before.match[n] = None /\ rows # {}
                      THEN LET i == CHOOSE j \in rows : TRUE
                           IN [match |-> [before.match EXCEPT ![n] = i],
                               unclaimed |-> before.unclaimed \ {i}]
                      ELSE before
        IN pass[Len(lineKey)]
  IN {Takes(Takes(exact, Keys(CommuneAndRisque, stored), Keys(CommuneAndRisque, lines)),
            Keys(IfUnresolved, stored), Keys(DepartementAndPeriod, lines)).match :
        exact \in ExactPasses(lines)}

PairEntries(lines) ==
  LET Keys(KeyOf(_), of) == [k \in DOMAIN of |-> KeyOf(of[k])]
      stored == [i \in Stored |-> row[i]]
      byRisque(exact)  == ClaimBy(exact, Keys(CommuneAndRisque, stored), Keys(CommuneAndRisque, lines))
      byPeriod(paired) == ClaimBy(paired, Keys(IfUnresolved, stored), Keys(DepartementAndPeriod, lines))
  IN {byPeriod(byRisque(exact)).match : exact \in ExactPasses(lines)}

(* The rows after the first n writes of the transaction: an unpaired line  *)
(* is a row of its own, a row no line corrects stays.                      *)
Writes(match, lines) ==
  LET rows[n \in Nat] ==
        IF n = 0 THEN row
        ELSE LET before == rows[n - 1]
                 new    == CHOOSE i \in {j \in Id : before[j] = None} :
                             \A j \in Id : before[j] = None => i <= j
             IN [before EXCEPT ![IF match[n] = None THEN new ELSE match[n]] = lines[n]]
  IN rows

Key(r) == <<r.code, r.risque, r.period>>

(* The partial unique index of ArreteEntry.                                *)
Collide(rows) ==
  \E i, j \in Id : /\ i # j /\ rows[i] # None /\ rows[j] # None
                   /\ rows[i].code # None /\ Key(rows[i]) = Key(rows[j])

-----------------------------------------------------------------------------
(* ingestDelta and ingestArrete for one text.                              *)

Deliver == delivered < MaxDeliveries /\ delivered' = delivered + 1

(* A text that is no arrete, or says what is stored: nothing but the date  *)
(* it was last seen.                                                       *)
Unchanged(t) ==
  /\ Deliver
  /\ ~ print[t].isArrete \/ (t \in DOMAIN EntriesOf /\ arrete # None /\ HashOf[arrete] = HashOf[t])
  /\ UNCHANGED <<commune, arrete, row, alerts, reforms>>

(* One line out of form and nothing of the text is stored.                 *)
Unparseable(t) ==
  /\ Deliver /\ print[t].isArrete /\ t \notin DOMAIN EntriesOf
  /\ alerts' = alerts \cup {<<"UNPARSEABLE_ANNEXE", "text", t>>}
  /\ UNCHANGED <<commune, arrete, row, reforms>>

Store(t, match) ==
  LET lines == Matched(t)
      rows  == Writes(match, lines)
  IN /\ \A n \in DOMAIN lines : ~ Collide(rows[n])
     /\ row' = rows[Len(lines)]
     /\ arrete' = t

Created(t) ==
  /\ Deliver /\ t \in DOMAIN EntriesOf /\ arrete = None
  /\ Len(Matched(t)) <= MaxRow
  /\ Store(t, [n \in DOMAIN Matched(t) |-> None])
  /\ alerts' = alerts \cup LineAlerts(Matched(t))
  /\ UNCHANGED <<commune, reforms>>

OutcomeAlerts(match, lines) ==
  {<<"OUTCOME_CHANGED", lines[n].label, lines[n].outcome>> :
     n \in {k \in DOMAIN lines : match[k] # None /\ row[match[k]].outcome # lines[k].outcome}}

(* applyRectificatif.                                                      *)
Corrected(t) ==
  LET lines == Matched(t)
  IN /\ Deliver /\ t \in DOMAIN EntriesOf /\ arrete # None
     /\ HashOf[arrete] # HashOf[t]
     /\ \E match \in PairEntries(lines) :
          /\ Cardinality({n \in DOMAIN match : match[n] = None}) <= Cardinality(Id \ Stored)
          /\ Store(t, match)
          /\ alerts' = alerts \cup LineAlerts(lines) \cup OutcomeAlerts(match, lines)
     /\ UNCHANGED <<commune, reforms>>

(* Two lines for one commune, risk and period: the transaction is undone   *)
(* and the delta is left for the next run.                                 *)
IngestFails(t) ==
  LET lines == Matched(t)
  IN /\ Deliver /\ t \in DOMAIN EntriesOf
     /\ Len(lines) <= Cardinality(Id \ Stored)
     /\ arrete # None => HashOf[arrete] # HashOf[t]
     /\ \E match \in IF arrete = None THEN {[n \in DOMAIN lines |-> None]} ELSE PairEntries(lines) :
          \E n \in DOMAIN lines : Collide(Writes(match, lines)[n])
     /\ UNCHANGED <<commune, arrete, row, alerts, reforms>>

(* The import: a list shorter than the referential can be is refused, each *)
(* upsert commits on its own whether others fail.  The row of a code known *)
(* already gets the name and the departement of the source, which nameOf   *)
(* takes to be those it had, and keeps its effectiveTo: a closed commune   *)
(* stays closed.                                                           *)
Fetched(source) == Cardinality(source) >= MinCommunes

Import(saved) ==
  /\ reforms < MaxReforms /\ reforms' = reforms + 1
  /\ \E source \in SUBSET Code : Fetched(source) /\ saved \subseteq source
  /\ commune' = [c \in Code |-> IF c \in saved /\ commune[c] = "absent"
                                THEN "current" ELSE commune[c]]
  /\ UNCHANGED <<arrete, row, alerts, delivered>>

(* A commune merged away: effectiveTo is set by hand.                      *)
Close(c) ==
  /\ reforms < MaxReforms /\ reforms' = reforms + 1
  /\ commune[c] = "current"
  /\ commune' = [commune EXCEPT ![c] = "closed"]
  /\ UNCHANGED <<arrete, row, alerts, delivered>>

Next ==
  \/ \E t \in Text :
       Unchanged(t) \/ Unparseable(t) \/ Created(t) \/ Corrected(t) \/ IngestFails(t)
  \/ \E saved \in SUBSET Code : Import(saved)
  \/ \E c \in Code : Close(c)

Spec == Init /\ [][Next]_vars

-----------------------------------------------------------------------------
(* The answer about a commune (DossierService.arretes).                    *)

Listed(publishedAt, today) ==
  NotAfter(ResolveDeadline(today, - WindowMonths, "MONTHS"), publishedAt)

Days == DaysOf(Years)

(* Published on p, against every later day.                                *)
InOrder(p) ==
  \A q \in {d \in Days : NotAfter(p, d)} :
    /\ ActiveRule(Rules, p) = ActiveRule(Rules, q) /\ ActiveRule(Rules, p) # NoDate
         => NotAfter(DeclarationDate(Rules, "RECONNU", p), DeclarationDate(Rules, "RECONNU", q))
    /\ NotAfter(q, ResolveDeadline(p, WindowMonths, "MONTHS")) => Listed(p, q)

Ordered == {p \in {print[t].publishedAt : t \in Text} : InOrder(p)}

(* An arrete published earlier never gives a later declaration deadline    *)
(* than another under the same version of the rule, and stays on the page  *)
(* of its communes for a whole window: months of 28 to 31 days are added   *)
(* here and taken off there (resolveDeadline).                             *)
DeadlinesKeepOrder == arrete # None => print[arrete].publishedAt \in Ordered

-----------------------------------------------------------------------------
(* Properties of the rows.                                                 *)

Positions(text) ==
  UNION {UNION {{<<a, b, c>> : c \in DOMAIN text.annexes[a].tables[b].rows} :
                  b \in DOMAIN text.annexes[a].tables} : a \in DOMAIN text.annexes}

LineAt(text, p) ==
  LET annexe == text.annexes[p[1]]
      table  == annexe.tables[p[2]]
  IN Line(annexe, table, table.rows[p[3]])

(* What a text says, position by position.                                 *)
Printed == [t \in DOMAIN EntriesOf |-> [p \in Positions(print[t]) |-> LineAt(print[t], p)]]

Says(r, line) ==
  /\ r # None
  /\ [departement |-> r.departement, label |-> r.label, risque |-> r.risque,
      period |-> r.period, outcome |-> r.outcome, motivation |-> r.motivation] = line

(* Every line the text prints, in whichever annexe and table, is one row   *)
(* that says it field for field, whatever the revisions before it left; a  *)
(* row no commune was found for is on record for the administrator.        *)
StoredAsPrinted ==
  arrete # None =>
    /\ LET lines == Printed[arrete]
       IN \A p \in DOMAIN lines :
            Cardinality({i \in Id : Says(row[i], lines[p])})
              >= Cardinality({q \in DOMAIN lines : lines[q] = lines[p]})
    /\ \A i \in Stored : row[i].code = None =>
         <<"UNMATCHED_COMMUNE", row[i].label, row[i].departement>> \in alerts

Idents ==
  [t \in DOMAIN Printed |->
     {[departement |-> Printed[t][p].departement, label |-> Printed[t][p].label,
       risque |-> Printed[t][p].risque, period |-> Printed[t][p].period] : p \in DOMAIN Printed[t]}]

(* No commune is printed twice for one risk and period.                    *)
NoTwins ==
  {t \in DOMAIN Printed :
     Cardinality({<<meantBy[l.label], l.risque, l.period>> : l \in Idents[t]})
       = Cardinality(DOMAIN Printed[t])}

(* Every row is of the last text, which no line has left since.            *)
AllPrinted == arrete # None /\ Cardinality(Stored) = Cardinality(DOMAIN Printed[arrete])

CodeNow(line) == MatchCommune(line.label, line.departement)
RowOf(line)   == CHOOSE i \in Stored : /\ row[i].departement = line.departement
                                       /\ row[i].label = line.label /\ row[i].risque = line.risque
                                       /\ row[i].period = line.period

(* One line printed otherwise: another period for the same label, or       *)
(* another label, of the same commune, for the same period; code is what   *)
(* the row of the line before has.                                         *)
Corrects(b, a, code) ==
  /\ b.departement = a.departement /\ b.risque = a.risque
  /\ meantBy[b.label] = meantBy[a.label]
  /\ \/ b.label = a.label /\ (b.period # a.period => CodeNow(b) = code)
     \/ b.period = a.period

(* The everyday rectificatif, one line printed otherwise and outcomes as   *)
(* they may be, rewrites the row of that line and adds none: the row keeps *)
(* its dossiers, and no wrong period or stale outcome is left beside the   *)
(* corrected one.  The referential knows the printed communes as it did.   *)
CorrectionKeepsItsRow ==
  [][(/\ AllPrinted /\ arrete' # arrete
      /\ {arrete, arrete'} \subseteq NoTwins
      /\ \A i \in Stored : CodeNow(row[i]) = row[i].code
      /\ \E a \in Idents[arrete], b \in Idents[arrete'] :
           /\ Idents[arrete'] = (Idents[arrete] \ {a}) \cup {b}
           /\ Corrects(b, a, row[RowOf(a)].code)
           /\ (a.label = b.label \/ row[RowOf(a)].code \in {None, CodeNow(b)}))
      => {i \in Id : row'[i] # None} = Stored]_vars

(* The rows, and the lines of a text, about the commune and risk of a row. *)
RowsAbout(i) ==
  {j \in Stored : meantBy[row[j].label] = meantBy[row[i].label] /\ row[j].risque = row[i].risque}

LinesAbout(t, i) ==
  {p \in DOMAIN Printed[t] : /\ meantBy[Printed[t][p].label] = meantBy[row[i].label]
                             /\ Printed[t][p].risque = row[i].risque}

(* A row never comes to speak of another commune, while dossiers may be    *)
(* linked to it: not when lines are added beside corrected ones, share a   *)
(* period or a departement with them, or were left by earlier revisions    *)
(* (pairEntries claims a row only where that is not a guess).  A row the   *)
(* referential could not place is only safe as the one row of its commune  *)
(* and risk, corrected by the one line about them (NothingTextualIsLeft).  *)
RowKeepsItsCommune ==
  [][arrete' # arrete =>
      \A i \in Stored :
        (row[i].code = None =>
           /\ RowsAbout(i) = {i}
           /\ \E p \in DOMAIN Printed[arrete'] :
                LinesAbout(arrete', i) = {p} /\ Corrects(Printed[arrete'][p], row[i], None))
        => meantBy[row'[i].label] = meantBy[row[i].label]]_vars

(* What pairEntries says of its last pass, that nothing textual is left to *)
(* pair on: a row whose label, departement and risk the revision still     *)
(* prints is not given to a line of another commune.                       *)
NothingTextualIsLeft ==
  [][arrete' # arrete =>
      \A i \in Stored :
        (\E l \in Idents[arrete'] : /\ l.departement = row[i].departement
                                    /\ l.label = row[i].label /\ l.risque = row[i].risque)
        => meantBy[row'[i].label] = meantBy[row[i].label]]_vars
=============================================================================
