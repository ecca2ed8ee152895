--------------------------- MODULE Dossiers_proofs ---------------------------
(* Theorems about Dossiers, for any number of dossiers, requests, entries  *)
(* and texts.                                                              *)
(*                                                                         *)
(* IInv has a part for each thing the writers rely on: rows of their types *)
(* and present together (RowInv, ArreteInv, LinkInv), what a request and   *)
(* the monitor carry from one statement to the next (ReqInv, MonInv), one  *)
(* lock per row (PendInv), which rows each holds (HoldInv, MonHold), the   *)
(* one insert under the advisory lock that found no twin (TwinInv), what   *)
(* is written and not committed (WroteInv), and the status a dossier has   *)
(* or will have at the commit of whoever works on it (AgreeInv).           *)
(*                                                                         *)
(* A lemma per part shows it is kept (DbKept to AgreeKept).  They rest on  *)
(* DossierSteps: what one step may do to one dossier's rows.               *)
(***************************************************************************)
EXTENDS Dossiers, FiniteSetTheorems, TLAPS

Statuses == {"DECLARE", "AVANT_ARRETE", "ARRETE_PUBLIE", "ARRETE_REFUSE"}
Outcomes == {"RECONNU", "REFUSE"}
Edits    == {"status", "insurer", "declaration"}
Day      == Int \cup {None}
RowsOf(k) == IF k[2] = "sinistre" THEN SinistreRow ELSE StepRow

Creating == {"outer", "look", "plan", "lock", "insert"}
Updating == {"status", "mark", "insurer"}

Plan == [link : Entry \cup {None}, status : Statuses, planned : Day, at : 0 .. Len(texts)]

Request(codes) ==
  [pc : Creating \cup Updating \cup {"idle", "read", "write", "cascade"},
   kind : {None, "create", "update", "step", "remove"}, damage : Damage \cup {None},
   confirmed : BOOLEAN, codes : {codes}, plan : Plan \cup {None}, d : Dossier \cup {None},
   part : Part \cup {None}, date : Declaration \cup {None}, outcome : Outcomes \cup {None},
   published : Day]

Changes == [status : Statuses, insurer : Day, planned : Day, appears : BOOLEAN, writes : SUBSET Edits]

RevisingPcs == {"revise", "status", "insurer", "insurerWrite", "declaration", "letter"}
LinkingPcs  == {"linkWrite", "date"}

Run(to, todo, letters) ==
  [pc : RevisingPcs \cup LinkingPcs \cup {"idle", "next", "link", "apply"},
   succ : {to}, todo : {todo}, held : SUBSET Dossier, d : Dossier \cup {None},
   status : Statuses \cup {None}, link : Entry \cup {None}, change : Changes \cup {None},
   letters : {letters}]

RowInv ==
  /\ db = [k \in Key |-> db[k]]
  /\ \A k \in Key : db[k] \in RowsOf(k) \cup {None, Gone}
  /\ \A d \in Dossier, part \in Part :
       /\ db[<<d, part>>] = None <=> Row(d) = None
       /\ db[<<d, part>>] = Gone <=> Row(d) = Gone

ArreteInv ==
  /\ ingested \in 0 .. Len(texts)
  /\ publishedAt \in [Arrete -> Day]
  /\ entry = [e \in Entry |-> entry[e]]
  /\ \A e \in Entry : entry[e] # None =>
       /\ entry[e].outcome \in Outcomes /\ entry[e].start \in Int /\ entry[e].end \in Int
       /\ publishedAt[arreteOf[e]] # None

(* A link names a line that is stored. *)
Stands(e) == e # None => e \in Entry /\ entry[e] # None
LinkInv == \A d \in Dossier : Open(d) => Stands(Row(d).link)

RequestInv(q) ==
  /\ q \in Request(q.codes)
  /\ q.pc \in Creating => q.damage \in Damage
  /\ q.pc \in {"lock", "insert"} =>
       /\ q.plan \in Plan /\ Stands(q.plan.link) /\ q.plan.at <= ingested
       /\ q.plan.at = ingested => q.plan.status = SinistreStatus(OutcomeOf(q.plan.link), None)
  /\ q.pc \notin Creating \cup {"idle"} => q.d \in Dossier /\ Row(q.d) # None
  /\ q.pc \in Updating => q.kind = "update"
  /\ q.pc = "read" /\ q.kind = "step" => q.part \in {"declaration", "insurer"}
  /\ q.pc = "write" => q.part = "insurer"

ReqInv == req = [r \in Req |-> req[r]] /\ \A r \in Req : RequestInv(req[r])

(* Printed: the line of the text in hand that a dossier's link names. *)
Printed(d) == Row(d).link \in Entry /\ NextText.lines[Row(d).link] # None

RunInv(m) ==
  /\ m \in Run(m.succ, m.todo, m.letters)
  /\ m.pc \in RevisingPcs \ {"revise", "letter"} => m.change \in Changes
  /\ m.pc \in (RevisingPcs \ {"revise"}) \cup LinkingPcs => m.d \in m.held
  /\ m.pc \in {"idle", "next", "link", "apply"} => m.held = {}
  /\ \A d \in m.held : Row(d) # None
  /\ m.pc \in LinkingPcs =>
       m.held = {m.d} /\ m.link \in Entry /\ entry[m.link] # None /\ m.status \in Statuses
  /\ m.pc \in {"apply"} \cup LinkingPcs =>
       \A l \in m.todo : l.d \in Dossier /\ Row(l.d) # None /\ l.e \in Entry /\ entry[l.e] # None
  /\ m.pc \in RevisingPcs =>
       /\ ingested < Len(texts) /\ publishedAt[NextText.arrete] # None
       /\ m.todo \subseteq Dossier
       /\ \A d \in m.todo \cup m.held : Row(d) # None /\ (Open(d) => Printed(d))

MonInv == RunInv(mon)

(* Locks. *)
PendInv ==
  /\ pending = [p \in Proc |-> pending[p]]
  /\ \A p \in Proc : pending[p] = [k \in Key |-> pending[p][k]]
  /\ \A p \in Proc, k \in Key : pending[p][k] \in RowsOf(k) \cup {None, Gone}
  /\ \A p \in Proc, k \in Key : pending[p][k] # None => IsRow(db[k]) /\ ~ Locked(p, k)

HoldOf(q, rows) ==
  /\ \A k \in Key : rows[k] # None =>
       /\ q.pc \in {"mark", "insurer", "cascade"} /\ k[1] = q.d
       /\ rows[k] = Gone <=> q.pc = "cascade"
  /\ q.pc \in {"mark", "insurer", "cascade"} => rows[<<q.d, "sinistre">>] # None

HoldInv == \A r \in Req : HoldOf(req[r], pending[r])

MonHold ==
  /\ \A k \in Key : pending[Monitor][k] # None =>
       /\ pending[Monitor][k] # Gone
       /\ Revising \/ (mon.pc = "date" /\ k = <<mon.d, "sinistre">>)
  /\ mon.pc = "date" => pending[Monitor][<<mon.d, "sinistre">>] # None

(* Twins. *)
TwinInv ==
  /\ \A r, s \in Inserting : r = s
  /\ \A r \in Inserting : ~ StandsInTheWay(req[r].codes, req[r].damage, req[r].confirmed)

(* What is written and not committed. *)
WroteInv ==
  /\ \A r \in Req : LET q == req[r] IN
       /\ q.pc \in {"mark", "insurer"} =>
            pending[r][<<q.d, "sinistre">>] =
              [Row(q.d) EXCEPT !.declared = q.date, !.status = SinistreStatus(q.outcome, q.date)]
       /\ q.pc = "insurer" =>
            pending[r][<<q.d, "declaration">>] = [db[<<q.d, "declaration">>] EXCEPT !.mark = q.date]
  /\ \A d \in Dossier : Revising =>
       /\ LET row == pending[Monitor][<<d, "sinistre">>] IN
          row # None => d \in mon.held /\ row = [Row(d) EXCEPT !.status = row.status]
       /\ LET row == pending[Monitor][<<d, "declaration">>] IN
          row # None => row.mark = db[<<d, "declaration">>].mark
  /\ mon.pc = "date" =>
       pending[Monitor][<<mon.d, "sinistre">>] = [Row(mon.d) EXCEPT !.link = mon.link, !.status = mon.status]

(* The status a dossier has, or will have once the text in hand is stored. *)
GivenBy(outcome, d) == SinistreStatus(outcome, Row(d).declared)
Becomes(d) == GivenBy(NextText.lines[Row(d).link].outcome, d)

AgreeInv ==
  /\ RowsAgree
  /\ \A r \in Req : req[r].pc \in Updating /\ Open(req[r].d) /\ req[r].d \notin raced =>
       req[r].outcome = OutcomeOf(Row(req[r].d).link)
  /\ \A d \in mon.held : Patched(d) => d \in raced
  /\ mon.pc \in LinkingPcs /\ Open(mon.d) /\ mon.d \notin raced =>
       mon.status = GivenBy(OutcomeOf(mon.link), mon.d)
  /\ Revising => \A d \in Dossier : Open(d) /\ d \notin raced =>
       /\ d \in mon.held =>
            LET row == pending[Monitor][<<d, "sinistre">>] IN
            \/ row # None /\ row.status = Becomes(d)
            \/ row = None /\ Row(d).status = Becomes(d)
            \/ mon.d = d /\ mon.pc = "status"
       /\ mon.d = d /\ mon.pc = "status" => mon.change.status = Becomes(d)
       /\ d \notin mon.todo \cup mon.held /\ Printed(d) =>
            NextText.lines[Row(d).link].outcome = entry[Row(d).link].outcome

IInv ==
  /\ RowInv /\ ArreteInv /\ LinkInv /\ ReqInv /\ MonInv /\ PendInv /\ HoldInv /\ MonHold
  /\ TwinInv /\ WroteInv /\ AgreeInv

-----------------------------------------------------------------------------
LEMMA Keys ==
  /\ \A d \in Dossier, part \in Part : <<d, part>> \in Key
  /\ \A k \in Key : k[1] \in Dossier /\ k[2] \in Part /\ k = <<k[1], k[2]>>
  /\ Part = {"sinistre", "declaration", "insurer"}
  /\ \A k \in Key : None \notin RowsOf(k) /\ Gone \notin RowsOf(k)
  /\ None # Gone
BY RowAssumption DEF Key, Part, RowsOf

LEMMA TextCount == Len(texts) \in Nat
BY TextAssumption

LEMMA InitIInv == Init => IInv
<1> SUFFICES ASSUME Init PROVE IInv
  OBVIOUS
<1> USE Keys
<1>1. RowInv
  BY DEF Init, RowInv, Nothing, Row
<1>2. ArreteInv
  BY TextCount DEF Init, ArreteInv, Day
<1>3. LinkInv
  BY DEF Init, LinkInv, Nothing, Row, Open, IsRow
<1>4. ReqInv
  <2>1. Rest \in Request(Rest.codes)
    BY DEF Rest, Request, Day
  <2>. QED
    BY <2>1 DEF Init, ReqInv, RequestInv, Rest, Creating, Updating
<1>5. MonInv
  BY DEF Init, MonInv, RunInv, MonRest, Run, RevisingPcs, LinkingPcs
<1>6. PendInv /\ HoldInv /\ MonHold
  BY DEF Init, PendInv, HoldInv, HoldOf, MonHold, Nothing, Rest, MonRest, Proc
<1>7. TwinInv /\ WroteInv
  BY DEF Init, TwinInv, WroteInv, Inserting, Rest, MonRest, Revising
<1>8. AgreeInv
  BY DEF Init, AgreeInv, RowsAgree, Open, IsRow, Row, Nothing, Rest, MonRest, Updating, LinkingPcs, Revising
<1>. QED
  BY <1>1, <1>2, <1>3, <1>4, <1>5, <1>6, <1>7, <1>8 DEF IInv

-----------------------------------------------------------------------------
(* What a statement does to the rows and to what is not committed.         *)
Puts(p, k, row) ==
  /\ p \in Proc /\ k \in Key /\ row \in RowsOf(k) \cup {Gone}
  /\ IsRow(db[k]) /\ ~ Locked(p, k)
  /\ Write(p, k, row)

Saves(p, writes) ==
  /\ p \in Proc
  /\ \A k \in Key : writes[k] # None => writes[k] \in RowsOf(k) /\ IsRow(db[k]) /\ ~ Locked(p, k)
  /\ Commit(p, writes)

Deletes(p, d) ==
  /\ p \in Proc /\ d \in Dossier
  /\ \A k \in Key : pending[p][k] = IF k[1] = d THEN Gone ELSE None
  /\ Commit(p, pending[p])

Inserts(p, d, rows) ==
  /\ p \in Proc /\ d \in Dossier /\ Row(d) = None /\ pending[p] = Nothing
  /\ \A k \in Key : IF k[1] = d THEN rows[k] \in RowsOf(k) ELSE rows[k] = None
  /\ Commit(p, rows)

DbStep ==
  \/ UNCHANGED <<db, pending>>
  \/ \E p \in Proc : Rollback(p)
  \/ \E p, k, row : Puts(p, k, row)
  \/ \E p, writes : Saves(p, writes)
  \/ \E p, d : Deletes(p, d)
  \/ \E p, d, rows : Inserts(p, d, rows)

(* A transaction that ends lets go of its rows.                            *)
LEMMA Loosened ==
  ASSUME PendInv, NEW p \in Proc, pending' = [pending EXCEPT ![p] = Nothing],
         \A q \in Proc \ {p}, k \in Key : pending[q][k] # None => IsRow(db'[k])
  PROVE  PendInv'
<1>1. \A q \in Proc, k \in Key : pending'[q][k] = IF q = p THEN None ELSE pending[q][k]
  BY DEF PendInv, Nothing
<1>2. \A q \in Proc, k \in Key : ~ Locked(q, k) => ~ Locked(q, k)'
  BY <1>1 DEF Locked
<1>3. /\ pending' = [q \in Proc |-> pending'[q]]
      /\ \A q \in Proc : pending'[q] = [k \in Key |-> pending'[q][k]]
  BY DEF PendInv, Nothing
<1>. QED
  BY <1>1, <1>2, <1>3 DEF PendInv

(* The rows of a dossier are made and deleted together.                    *)
LEMMA RowsTogether ==
  ASSUME db' = [k \in Key |-> db'[k]],
         \A k \in Key : db'[k] \in RowsOf(k) \cup {None, Gone},
         \A d \in Dossier, part \in Part :
           /\ db'[<<d, part>>] = None <=> db'[<<d, "sinistre">>] = None
           /\ db'[<<d, part>>] = Gone <=> db'[<<d, "sinistre">>] = Gone
  PROVE  RowInv'
BY DEF RowInv, Row

LEMMA Together ==
  ASSUME RowInv, NEW d \in Dossier, NEW part \in Part
  PROVE  /\ db[<<d, part>>] = None <=> db[<<d, "sinistre">>] = None
         /\ db[<<d, part>>] = Gone <=> db[<<d, "sinistre">>] = Gone
BY DEF RowInv, Row

LEMMA DbKept == ASSUME RowInv, PendInv, DbStep PROVE RowInv' /\ PendInv'
<1>1. CASE UNCHANGED <<db, pending>>
  <2>1. RowInv'
    BY <1>1 DEF RowInv, Row
  <2>2. PendInv'
    BY <1>1 DEF PendInv, Locked
  <2>. QED
    BY <2>1, <2>2
<1>2. ASSUME NEW p \in Proc, Rollback(p) PROVE RowInv' /\ PendInv'
  <2>1. RowInv' /\ db' = db
    BY <1>2 DEF Rollback, RowInv, Row
  <2>2. \A q \in Proc \ {p}, k \in Key : pending[q][k] # None => IsRow(db'[k])
    BY <2>1 DEF PendInv
  <2>3. PendInv'
    BY <1>2, <2>2, Loosened DEF Rollback
  <2>. QED
    BY <2>1, <2>3
<1>3. ASSUME NEW p, NEW k, NEW row, Puts(p, k, row) PROVE RowInv' /\ PendInv'
  <2>1. RowInv' /\ db' = db
    BY <1>3 DEF Puts, Write, RowInv, Row
  <2>2. \A q \in Proc, j \in Key :
          pending'[q][j] = IF q = p /\ j = k THEN row ELSE pending[q][j]
    BY <1>3 DEF Puts, Write, PendInv
  <2>3. /\ pending' = [q \in Proc |-> pending'[q]]
        /\ \A q \in Proc : pending'[q] = [j \in Key |-> pending'[q][j]]
    BY <1>3 DEF Puts, Write, PendInv
  <2>4. \A q \in Proc, j \in Key : pending'[q][j] # None => ~ Locked(q, j)'
    BY <1>3, <2>2 DEF Puts, PendInv, Locked
  <2>5. \A q \in Proc, j \in Key :
          /\ pending'[q][j] \in RowsOf(j) \cup {None, Gone}
          /\ pending'[q][j] # None => IsRow(db[j])
    BY <1>3, <2>2 DEF Puts, PendInv
  <2>6. PendInv'
    BY <2>1, <2>3, <2>4, <2>5 DEF PendInv, IsRow
  <2>. QED
    BY <2>1, <2>6
<1>4. ASSUME NEW p, NEW writes, Saves(p, writes) PROVE RowInv' /\ PendInv'
  <2>1. db' = [k \in Key |-> db'[k]]
    BY <1>4 DEF Saves, Commit
  <2>2. \A k \in Key : \/ db'[k] = db[k]
                       \/ db'[k] \in RowsOf(k) /\ IsRow(db[k])
    BY <1>4 DEF Saves, Commit
  <2>3. \A k \in Key : db'[k] \in RowsOf(k) \cup {None, Gone}
    BY <2>2 DEF RowInv
  <2>4. \A k \in Key : (db'[k] = None <=> db[k] = None) /\ (db'[k] = Gone <=> db[k] = Gone)
    BY <2>2, Keys DEF IsRow
  <2>5. \A d \in Dossier, part \in Part :
          /\ db'[<<d, part>>] = None <=> db'[<<d, "sinistre">>] = None
          /\ db'[<<d, part>>] = Gone <=> db'[<<d, "sinistre">>] = Gone
    BY <2>4, Keys DEF RowInv, Row
  <2>6. RowInv'
    BY <2>1, <2>3, <2>5, RowsTogether
  <2>7. \A q \in Proc \ {p}, k \in Key : pending[q][k] # None => IsRow(db'[k])
    BY <2>4 DEF PendInv, IsRow
  <2>. QED
    BY <1>4, <2>6, <2>7, Loosened DEF Saves, Commit
<1>5. ASSUME NEW p, NEW d, Deletes(p, d) PROVE RowInv' /\ PendInv'
  <2>0. db' = [k \in Key |-> IF k[1] = d THEN Gone ELSE db[k]]
    BY <1>5, Keys DEF Deletes, Commit
  <2>1. RowInv'
    <3>1. \A j \in Dossier, part \in Part :
            db'[<<j, part>>] = IF j = d THEN Gone ELSE db[<<j, part>>]
      BY <2>0, Keys
    <3>2. /\ db' = [k \in Key |-> db'[k]]
          /\ \A k \in Key : db'[k] \in RowsOf(k) \cup {None, Gone}
      BY <2>0 DEF RowInv
    <3>3. ASSUME NEW j \in Dossier, NEW part \in Part
          PROVE  /\ db'[<<j, part>>] = None <=> db'[<<j, "sinistre">>] = None
                 /\ db'[<<j, part>>] = Gone <=> db'[<<j, "sinistre">>] = Gone
      <4>1. /\ db'[<<j, part>>] = IF j = d THEN Gone ELSE db[<<j, part>>]
            /\ db'[<<j, "sinistre">>] = IF j = d THEN Gone ELSE db[<<j, "sinistre">>]
        BY <3>1 DEF Part
      <4>. QED
        BY <4>1, Together
    <3>. QED
      BY <3>2, <3>3, RowsTogether
  <2>2. \A k \in Key : k[1] # d => db'[k] = db[k]
    BY <2>0
  <2>3. \A k \in Key : k[1] = d => pending[p][k] # None
    BY <1>5, Keys DEF Deletes
  <2>4. \A q \in Proc \ {p}, k \in Key : pending[q][k] # None => IsRow(db'[k])
    BY <1>5, <2>2, <2>3 DEF Deletes, PendInv, Locked
  <2>. QED
    BY <1>5, <2>1, <2>4, Loosened DEF Deletes, Commit
<1>6. ASSUME NEW p, NEW d, NEW rows, Inserts(p, d, rows) PROVE RowInv' /\ PendInv'
  <2>0. \A k \in Key : db'[k] = IF k[1] = d THEN rows[k] ELSE db[k]
    BY <1>6, Keys DEF Inserts, Commit
  <2>1. RowInv'
    <3>1. \A j \in Dossier, part \in Part :
            db'[<<j, part>>] = IF j = d THEN rows[<<j, part>>] ELSE db[<<j, part>>]
      BY <2>0, Keys
    <3>2. db' = [k \in Key |-> db'[k]]
      BY <1>6 DEF Inserts, Commit
    <3>3. \A k \in Key : db'[k] \in RowsOf(k) \cup {None, Gone}
      BY <1>6, <2>0 DEF Inserts, RowInv
    <3>4. ASSUME NEW part \in Part PROVE rows[<<d, part>>] # None /\ rows[<<d, part>>] # Gone
      <4> DEFINE k == <<d, part>>
      <4>1. d \in Dossier /\ k \in Key /\ k[1] = d
        BY <1>6, Keys DEF Inserts
      <4>2. rows[k] \in RowsOf(k)
        BY <1>6, <4>1 DEF Inserts
      <4>. QED
        BY <4>1, <4>2, Keys
    <3>5. ASSUME NEW j \in Dossier, NEW part \in Part
          PROVE  /\ db'[<<j, part>>] = None <=> db'[<<j, "sinistre">>] = None
                 /\ db'[<<j, part>>] = Gone <=> db'[<<j, "sinistre">>] = Gone
      <4>1. /\ "sinistre" \in Part
            /\ db'[<<j, part>>] = IF j = d THEN rows[<<j, part>>] ELSE db[<<j, part>>]
            /\ db'[<<j, "sinistre">>] = IF j = d THEN rows[<<j, "sinistre">>] ELSE db[<<j, "sinistre">>]
        BY <3>1 DEF Part
      <4>. QED
        BY <4>1, <3>4, Together
    <3>. QED
      BY <3>2, <3>3, <3>5, RowsTogether
  <2>2. \A k \in Key : k[1] # d => db'[k] = db[k]
    BY <2>0
  <2>3. \A k \in Key : k[1] = d => ~ IsRow(db[k])
    BY <1>6, Keys DEF Inserts, RowInv, Row, IsRow
  <2>4. \A q \in Proc \ {p}, k \in Key : pending[q][k] # None => IsRow(db'[k])
    BY <2>2, <2>3 DEF PendInv
  <2>. QED
    BY <1>6, <2>1, <2>4, Loosened DEF Inserts, Commit
<1>. QED
  BY <1>1, <1>2, <1>3, <1>4, <1>5, <1>6 DEF DbStep

-----------------------------------------------------------------------------
(* The pure functions.                                                     *)
LEMMA StatusType == \A outcome, declared : SinistreStatus(outcome, declared) \in Statuses
BY DEF SinistreStatus, Statuses

LEMMA AnchorType == \A x \in Day, y \in Day : InsurerAnchor(x, y) \in Day
BY DayAssumption DEF InsurerAnchor, Day

LEMMA LinkTypes ==
  ASSUME ArreteInv, NEW e, Stands(e)
  PROVE  OutcomeOf(e) \in Outcomes \cup {None} /\ PublishedOf(e) \in Day
BY EntryAssumption DEF ArreteInv, Stands, OutcomeOf, PublishedOf, Day

(* What matching answers is a line that is stored, or none.                *)
LEMMA WinnersStand == \A among, to, damage : \A e \in Winners(among, to, damage) : e \in among /\ entry[e] # None
BY DEF Winners, Covers

LEMMA MatchStands == \A damage : \A e \in MatchArreteFor(damage) : Stands(e)
<1> SUFFICES ASSUME NEW damage, NEW e \in MatchArreteFor(damage), e # None
             PROVE  e \in Entry /\ entry[e] # None
  BY DEF Stands
<1> DEFINE read == {f \in Entry : entry[f] # None /\ entry[f].start <= damage.date
                                             /\ damage.date <= entry[f].end}
<1>1. e \in Winners(read, succ, damage)
  BY DEF MatchArreteFor
<1>. QED
  BY <1>1, WinnersStand

LEMMA PlannedType ==
  ASSUME ArreteInv, NEW e, Stands(e)
  PROVE  /\ Planned(e) \in Plan /\ Planned(e).link = e /\ Planned(e).at = ingested
         /\ Planned(e).status = SinistreStatus(OutcomeOf(e), None)
<1>1. Planned(e).planned \in Day
  BY LinkTypes DEF Planned, Day
<1>. QED
  BY <1>1, StatusType DEF Planned, Plan, Stands, ArreteInv

-----------------------------------------------------------------------------
(* A request moves to where it may be.                                     *)
LEMMA RequestMoves ==
  ASSUME IInv, NEW r \in Req, Sends(r) \/ Handles(r)
  PROVE  \E q : req' = [req EXCEPT ![r] = q] /\ RequestInv(q)
<1> DEFINE Good == \E q : req' = [req EXCEPT ![r] = q] /\ RequestInv(q)
<1> USE DEF Steps, Creating, Updating
<1>1. RequestInv(req[r]) /\ req[r] \in Request(req[r].codes)
  BY DEF IInv, ReqInv, RequestInv
<1>2. RequestInv(Rest)
  <2>1. Rest \in Request(Rest.codes)
    BY DEF Rest, Request, Day
  <2>. QED
    BY <2>1 DEF RequestInv, Rest
<1>3. ASSUME Done(r) PROVE Good
  BY <1>2, <1>3 DEF Done
<1>4. ASSUME NEW q, Steps(r, q), RequestInv(q) PROVE Good
  BY <1>4
<1>5. ASSUME NEW damage \in Damage, NEW confirmed \in BOOLEAN, NEW outer \in BOOLEAN,
             Create(r, damage, confirmed, outer)
      PROVE  Good
  <2> DEFINE q == [Rest EXCEPT !.pc = IF outer THEN "outer" ELSE "look", !.kind = "create",
                               !.damage = damage, !.confirmed = confirmed]
  <2>1. q \in Request(q.codes)
    BY DEF Request, Rest, Day
  <2>2. RequestInv(q)
    BY <2>1 DEF RequestInv, Rest
  <2>. QED
    BY <1>4, <1>5, <2>2 DEF Create
<1>6. ASSUME NEW d \in Dossier, Row(d) # None, NEW date \in Declaration \cup {None},
             Send(r, [Rest EXCEPT !.pc = "read", !.kind = "update", !.d = d, !.date = date])
      PROVE  Good
  <2> DEFINE q == [Rest EXCEPT !.pc = "read", !.kind = "update", !.d = d, !.date = date]
  <2>1. q \in Request(q.codes)
    BY DEF Request, Rest, Day
  <2>2. RequestInv(q)
    BY <1>6, <2>1 DEF RequestInv, Rest
  <2>. QED
    BY <1>4, <1>6, <2>2 DEF Send
<1>7. ASSUME NEW d \in Dossier, Row(d) # None, NEW mark \in Declaration \cup {None},
             NEW part \in Part \ {"sinistre"},
             Send(r, [Rest EXCEPT !.pc = "read", !.kind = "step", !.d = d, !.part = part, !.date = mark])
      PROVE  Good
  <2> DEFINE q == [Rest EXCEPT !.pc = "read", !.kind = "step", !.d = d, !.part = part, !.date = mark]
  <2>1. q \in Request(q.codes)
    BY DEF Request, Rest, Day
  <2>2. RequestInv(q)
    BY <1>7, <2>1 DEF RequestInv, Rest, Part
  <2>. QED
    BY <1>4, <1>7, <2>2 DEF Send
<1>8. ASSUME NEW d \in Dossier, Row(d) # None,
             Send(r, [Rest EXCEPT !.pc = "read", !.kind = "remove", !.d = d])
      PROVE  Good
  <2> DEFINE q == [Rest EXCEPT !.pc = "read", !.kind = "remove", !.d = d]
  <2>1. q \in Request(q.codes)
    BY DEF Request, Rest, Day
  <2>2. RequestInv(q)
    BY <1>8, <2>1 DEF RequestInv, Rest
  <2>. QED
    BY <1>4, <1>8, <2>2 DEF Send
<1>9. CASE Look(r)
  <2> DEFINE codes == Codes(req[r].damage)
             q == [req[r] EXCEPT !.pc = "plan", !.codes = codes]
  <2>1. ASSUME req[r].pc = "look" PROVE q \in Request(q.codes)
    BY <1>1, <2>1 DEF Request
  <2>2. ASSUME req[r].pc = "look" PROVE RequestInv(q)
    BY <1>1, <2>1, <2>2 DEF RequestInv, Request
  <2>. QED
    BY <1>3, <1>4, <1>9, <2>2 DEF Look
<1>10. CASE PlanDossier(r)
  <2>1. ASSUME req[r].pc = "plan", NEW e, Stands(e)
        PROVE  RequestInv([req[r] EXCEPT !.pc = "lock", !.plan = Planned(e)])
    <3> DEFINE q == [req[r] EXCEPT !.pc = "lock", !.plan = Planned(e)]
    <3>1. /\ Planned(e) \in Plan /\ Planned(e).link = e /\ Planned(e).at = ingested
          /\ Planned(e).status = SinistreStatus(OutcomeOf(e), None) /\ ingested \in Nat
      BY <2>1, PlannedType, TextCount DEF IInv, ArreteInv
    <3>2. q \in Request(q.codes)
      BY <1>1, <2>1, <3>1 DEF Request
    <3>3. q.plan = Planned(e) /\ q.pc = "lock" /\ q.damage = req[r].damage
      BY <1>1 DEF Request
    <3>. QED
      BY <1>1, <2>1, <3>1, <3>2, <3>3 DEF RequestInv
  <2>. QED
    BY <1>3, <1>4, <1>10, <2>1, MatchStands DEF PlanDossier
<1>11. CASE Recheck(r)
  <2>1. ASSUME req[r].pc = "lock" PROVE RequestInv([req[r] EXCEPT !.pc = "insert"])
    <3> DEFINE q == [req[r] EXCEPT !.pc = "insert"]
    <3>1. q \in Request(q.codes)
      BY <1>1, <2>1 DEF Request
    <3>. QED
      BY <1>1, <2>1, <3>1 DEF RequestInv, Request
  <2>. QED
    BY <1>3, <1>4, <1>11, <2>1 DEF Recheck
<1>12. CASE Drain(r)
  <2>1. ASSUME req[r].pc = "outer", NEW e, Stands(e), NEW codes
        PROVE  RequestInv([req[r] EXCEPT !.pc = "insert", !.codes = codes, !.plan = Planned(e)])
    <3> DEFINE q == [req[r] EXCEPT !.pc = "insert", !.codes = codes, !.plan = Planned(e)]
    <3>1. /\ Planned(e) \in Plan /\ Planned(e).link = e /\ Planned(e).at = ingested
          /\ Planned(e).status = SinistreStatus(OutcomeOf(e), None) /\ ingested \in Nat
      BY <2>1, PlannedType, TextCount DEF IInv, ArreteInv
    <3>2. q \in Request(q.codes)
      BY <1>1, <2>1, <3>1 DEF Request
    <3>3. q.plan = Planned(e) /\ q.pc = "insert" /\ q.damage = req[r].damage
      BY <1>1 DEF Request
    <3>. QED
      BY <1>1, <2>1, <3>1, <3>2, <3>3 DEF RequestInv
  <2>. QED
    BY <1>3, <1>4, <1>12, <2>1, MatchStands DEF Drain
<1>13. CASE \E d \in Dossier : Insert(r, d)
  BY <1>3, <1>13 DEF Insert
<1>14. CASE UpdateRead(r)
  <2> DEFINE e == Row(req[r].d).link
             q == [req[r] EXCEPT !.pc = "status", !.outcome = OutcomeOf(e), !.published = PublishedOf(e)]
  <2>1. ASSUME req[r].pc = "read", req[r].kind = "update", Open(req[r].d) PROVE RequestInv(q)
    <3>1. req[r].d \in Dossier /\ Row(req[r].d) # None
      BY <1>1, <2>1 DEF RequestInv
    <3>2. OutcomeOf(e) \in Outcomes \cup {None} /\ PublishedOf(e) \in Day
      BY <2>1, <3>1, LinkTypes DEF IInv, LinkInv
    <3>3. q \in Request(q.codes) /\ q.d = req[r].d /\ q.pc = "status" /\ q.kind = "update"
      BY <1>1, <2>1, <3>2, ZenonT(60) DEF Request
    <3>. QED
      BY <3>1, <3>3 DEF RequestInv
  <2>. QED
    BY <1>3, <1>4, <1>14, <2>1 DEF UpdateRead, Open
<1>15. ASSUME NEW pc \in {"mark", "insurer"}, req[r].pc \in Updating,
              Steps(r, [req[r] EXCEPT !.pc = pc])
       PROVE  Good
  <2> DEFINE q == [req[r] EXCEPT !.pc = pc]
  <2>1. q \in Request(q.codes)
    BY <1>1 DEF Request
  <2>2. RequestInv(q)
    BY <1>1, <1>15, <2>1 DEF RequestInv, Request
  <2>. QED
    BY <1>4, <1>15, <2>2
<1>16. CASE UpdateStatus(r) \/ UpdateMark(r)
  BY <1>3, <1>15, <1>16 DEF UpdateStatus, UpdateMark
<1>17. CASE UpdateInsurer(r) \/ StepWrite(r) \/ RemoveCommits(r) \/ VictimRequest(r)
  BY <1>3, <1>17 DEF UpdateInsurer, StepWrite, RemoveCommits, VictimRequest
<1>18. CASE StepRead(r)
  BY <1>1, <1>3, <1>18 DEF StepRead, RequestInv, Request
<1>19. CASE RemoveParent(r)
  BY <1>1, <1>3, <1>19 DEF RemoveParent, RequestInv, Request
<1>20. CASE \E part \in Part : Cascade(r, part)
  <2>1. req' = req
    BY <1>20 DEF Cascade
  <2>2. req' = [req EXCEPT ![r] = req[r]]
    BY <2>1 DEF IInv, ReqInv
  <2>. QED
    BY <1>1, <2>2
<1>. QED
  BY <1>5, <1>6, <1>7, <1>8, <1>9, <1>10, <1>11, <1>12, <1>13, <1>14, <1>15, <1>16, <1>17, <1>18,
     <1>19, <1>20 DEF Sends, Handles

-----------------------------------------------------------------------------
(* What the requests write.                                                *)
LEMMA Holding ==
  ASSUME IInv, NEW r \in Req, req[r].pc \in {"mark", "insurer", "cascade"}
  PROVE  /\ req[r].d \in Dossier /\ Open(req[r].d)
         /\ \A part \in Part : IsRow(db[<<req[r].d, part>>])
<1>1. req[r].d \in Dossier
  BY DEF IInv, ReqInv, RequestInv, Creating
<1>2. pending[r][<<req[r].d, "sinistre">>] # None /\ r \in Proc
  BY DEF IInv, HoldInv, HoldOf, Proc
<1>3. Open(req[r].d)
  BY <1>1, <1>2, Keys DEF IInv, PendInv, Open, Row
<1>. QED
  BY <1>1, <1>3 DEF IInv, RowInv, Open, IsRow

LEMMA StatusWrites ==
  ASSUME IInv, NEW r \in Req, UpdateStatus(r)
  PROVE  LET d   == req[r].d
             row == [Row(d) EXCEPT !.declared = req[r].date,
                                   !.status = SinistreStatus(req[r].outcome, req[r].date)]
         IN \/ ~ Open(d) /\ Rollback(r)
            \/ Open(d) /\ row \in SinistreRow /\ Puts(r, <<d, "sinistre">>, row)
<1> DEFINE d   == req[r].d
           k   == <<d, "sinistre">>
           row == [Row(d) EXCEPT !.declared = req[r].date,
                                 !.status = SinistreStatus(req[r].outcome, req[r].date)]
<1>1. req[r] \in Request(req[r].codes) /\ d \in Dossier
  BY DEF IInv, ReqInv, RequestInv, UpdateStatus, Creating
<1>2. k \in Key /\ RowsOf(k) = SinistreRow
  BY <1>1, Keys DEF RowsOf
<1>3. ASSUME Open(d) PROVE row \in SinistreRow
  <2>1. Row(d) \in SinistreRow
    BY <1>2, <1>3 DEF IInv, RowInv, Open, Row, IsRow
  <2>2. req[r].date \in Declaration \cup {None}
    BY <1>1 DEF Request
  <2>. QED
    BY <2>1, <2>2, StatusType DEF SinistreRow, Statuses
<1>. QED
  BY <1>2, <1>3 DEF UpdateStatus, Puts, Open, Row, Proc

LEMMA MarkWrites ==
  ASSUME IInv, NEW r \in Req, UpdateMark(r)
  PROVE  LET k   == <<req[r].d, "declaration">>
             row == [db[k] EXCEPT !.mark = req[r].date]
         IN row \in StepRow /\ Puts(r, k, row)
<1> DEFINE k   == <<req[r].d, "declaration">>
           row == [db[k] EXCEPT !.mark = req[r].date]
<1>1. req[r].d \in Dossier /\ IsRow(db[k])
  BY Holding, Keys DEF UpdateMark
<1>2. k \in Key /\ RowsOf(k) = StepRow
  BY <1>1, Keys DEF RowsOf
<1>3. db[k] \in StepRow
  BY <1>1, <1>2 DEF IInv, RowInv, IsRow
<1>4. req[r].date \in Declaration \cup {None}
  BY DEF IInv, ReqInv, RequestInv, Request
<1>5. row \in StepRow
  BY <1>3, <1>4 DEF StepRow
<1>. QED
  BY <1>1, <1>2, <1>5 DEF UpdateMark, Puts, Proc

LEMMA InsurerWrites ==
  ASSUME IInv, NEW r \in Req, UpdateInsurer(r)
  PROVE  LET k   == <<req[r].d, "insurer">>
             row == [db[k] EXCEPT !.planned = InsurerAnchor(req[r].date, req[r].published)]
         IN row \in StepRow /\ Saves(r, [pending[r] EXCEPT ![k] = row])
<1> DEFINE k   == <<req[r].d, "insurer">>
           row == [db[k] EXCEPT !.planned = InsurerAnchor(req[r].date, req[r].published)]
           writes == [pending[r] EXCEPT ![k] = row]
<1>1. req[r].d \in Dossier /\ IsRow(db[k])
  BY Holding, Keys DEF UpdateInsurer
<1>2. k \in Key /\ RowsOf(k) = StepRow
  BY <1>1, Keys DEF RowsOf
<1>3. db[k] \in StepRow
  BY <1>1, <1>2 DEF IInv, RowInv, IsRow
<1>4. req[r].date \in Day /\ req[r].published \in Day
  BY DayAssumption DEF IInv, ReqInv, RequestInv, Request, Day
<1>5. row \in StepRow
  BY <1>3, <1>4, AnchorType DEF StepRow, Day
<1>6. \A j \in Key : writes[j] = IF j = k THEN row ELSE pending[r][j]
  BY DEF IInv, PendInv, Proc
<1>7. \A j \in Key : pending[r][j] # None =>
        pending[r][j] \in RowsOf(j) /\ IsRow(db[j]) /\ ~ Locked(r, j)
  <2>1. \A j \in Key : pending[r][j] # None => pending[r][j] # Gone
    BY DEF UpdateInsurer, IInv, HoldInv, HoldOf
  <2>2. \A j \in Key : /\ pending[r][j] \in RowsOf(j) \cup {None, Gone}
                       /\ pending[r][j] # None => IsRow(db[j]) /\ ~ Locked(r, j)
    BY DEF IInv, PendInv, Proc
  <2>. QED
    BY <2>1, <2>2
<1>8. ~ Locked(r, k) /\ Commit(r, writes)
  BY DEF UpdateInsurer, WriteAndCommit
<1>. QED
  BY <1>1, <1>2, <1>5, <1>6, <1>7, <1>8 DEF Saves, Proc

LEMMA StepWrites ==
  ASSUME IInv, NEW r \in Req, StepWrite(r)
  PROVE  LET k   == <<req[r].d, "insurer">>
             row == [db[k] EXCEPT !.mark = req[r].date]
         IN \/ Rollback(r)
            \/ row \in StepRow /\ Saves(r, [Nothing EXCEPT ![k] = row])
<1> DEFINE k   == <<req[r].d, "insurer">>
           row == [db[k] EXCEPT !.mark = req[r].date]
           writes == [Nothing EXCEPT ![k] = row]
<1>1. req[r].d \in Dossier /\ req[r].part = "insurer" /\ req[r].date \in Declaration \cup {None}
  BY DEF StepWrite, IInv, ReqInv, RequestInv, Request, Creating
<1>2. k \in Key /\ RowsOf(k) = StepRow
  BY <1>1, Keys DEF RowsOf
<1>3. CASE ~ IsRow(db[k])
  BY <1>1, <1>3 DEF StepWrite
<1>4. CASE IsRow(db[k])
  <2>1. row \in StepRow
    <3>1. db[k] \in StepRow
      BY <1>2, <1>4 DEF IInv, RowInv, IsRow
    <3>. QED
      BY <1>1, <3>1 DEF StepRow
  <2>2. pending[r] = Nothing
    <3>1. \A j \in Key : pending[r][j] = None
      BY DEF StepWrite, IInv, HoldInv, HoldOf
    <3>. QED
      BY <3>1 DEF Nothing, IInv, PendInv, Proc
  <2>3. \A j \in Key : writes[j] = IF j = k THEN row ELSE None
    BY DEF Nothing
  <2>4. ~ Locked(r, k) /\ Commit(r, writes)
    BY <1>1, <1>4, <2>2 DEF StepWrite, WriteAndCommit
  <2>. QED
    BY <1>2, <1>4, <2>1, <2>3, <2>4 DEF Saves, Proc
<1>. QED
  BY <1>3, <1>4

LEMMA RemoveWrites ==
  ASSUME IInv, NEW r \in Req, RemoveParent(r)
  PROVE  Rollback(r) \/ Puts(r, <<req[r].d, "sinistre">>, Gone)
<1>1. req[r].d \in Dossier
  BY DEF RemoveParent, IInv, ReqInv, RequestInv, Creating
<1>. QED
  BY <1>1, Keys DEF RemoveParent, Puts, Proc

LEMMA CascadeWrites ==
  ASSUME IInv, NEW r \in Req, NEW part \in Part, Cascade(r, part)
  PROVE  Puts(r, <<req[r].d, part>>, Gone)
BY Holding, Keys DEF Cascade, Puts, Proc

LEMMA RemoveDeletes ==
  ASSUME IInv, NEW r \in Req, RemoveCommits(r)
  PROVE  Deletes(r, req[r].d)
<1>1. req[r].d \in Dossier
  BY Holding DEF RemoveCommits
<1>2. \A k \in Key : k[1] # req[r].d => pending[r][k] = None
  BY DEF IInv, HoldInv, HoldOf
<1>3. \A k \in Key : k[1] = req[r].d => pending[r][k] = Gone
  BY Keys DEF RemoveCommits
<1>. QED
  BY <1>1, <1>2, <1>3 DEF RemoveCommits, Deletes, Proc

Created(q, d) ==
  [k \in Key |->
     CASE k[1] # d -> None
       [] k = <<d, "sinistre">> ->
            [code |-> q.damage.code, risk |-> q.damage.risk, event |-> q.damage.date,
             declared |-> None, link |-> q.plan.link, status |-> q.plan.status]
       [] k = <<d, "declaration">> -> [Unplanned EXCEPT !.planned = q.plan.planned]
       [] OTHER -> Unplanned]

LEMMA InsertWrites ==
  ASSUME IInv, NEW r \in Req, NEW d \in Dossier, Insert(r, d)
  PROVE  /\ Inserts(r, d, Created(req[r], d))
         /\ Created(req[r], d)[<<d, "declaration">>].mark = None
         /\ Created(req[r], d)[<<d, "sinistre">>] =
              [code |-> req[r].damage.code, risk |-> req[r].damage.risk,
               event |-> req[r].damage.date, declared |-> None, link |-> req[r].plan.link,
               status |-> req[r].plan.status]
<1> DEFINE rows == Created(req[r], d)
<1>1. req[r].damage \in Damage /\ req[r].plan \in Plan
  BY DEF Insert, IInv, ReqInv, RequestInv, Creating
<1>2. pending[r] = Nothing
  <2>1. \A j \in Key : pending[r][j] = None
    BY DEF Insert, IInv, HoldInv, HoldOf
  <2>. QED
    BY <2>1 DEF Nothing, IInv, PendInv, Proc
<1>3. <<d, "sinistre">> \in Key /\ <<d, "declaration">> \in Key
  BY Keys
<1>4. rows[<<d, "sinistre">>] =
        [code |-> req[r].damage.code, risk |-> req[r].damage.risk, event |-> req[r].damage.date,
         declared |-> None, link |-> req[r].plan.link, status |-> req[r].plan.status]
  BY <1>3 DEF Created
<1>5. rows[<<d, "declaration">>] = [Unplanned EXCEPT !.planned = req[r].plan.planned]
  BY <1>3 DEF Created
<1>6. \A k \in Key : k[1] # d => rows[k] = None
  BY DEF Created
<1>7. \A k \in Key : k[1] = d /\ k[2] = "insurer" => rows[k] = Unplanned
  BY DEF Created
<1>8. \A k \in Key : k[1] = d => rows[k] \in RowsOf(k)
  <2>1. rows[<<d, "sinistre">>] \in SinistreRow
    BY <1>1, <1>4 DEF SinistreRow, Plan, Statuses
  <2>2. rows[<<d, "declaration">>] \in StepRow /\ Unplanned \in StepRow
    BY <1>1, <1>5 DEF StepRow, Unplanned, Plan, Day
  <2>. QED
    BY <2>1, <2>2, <1>7, Keys DEF RowsOf
<1>9. rows[<<d, "declaration">>].mark = None
  BY <1>5 DEF Unplanned
<1>10. Row(d) = None /\ Commit(r, rows)
  BY DEF Insert, Created
<1>. QED
  BY <1>2, <1>4, <1>6, <1>8, <1>9, <1>10 DEF Inserts, Proc

-----------------------------------------------------------------------------
(* The monitor.                                                            *)
LEMMA NextTyped ==
  ASSUME ArreteInv, ingested < Len(texts)
  PROVE  /\ NextText.arrete \in Arrete /\ NextText.date \in Int
         /\ \A e \in Entry : NextText.lines[e] # None =>
              /\ arreteOf[e] = NextText.arrete /\ NextText.lines[e].outcome \in Outcomes
              /\ NextText.lines[e].start \in Int /\ NextText.lines[e].end \in Int
<1>1. ingested + 1 \in 1 .. Len(texts)
  BY TextCount DEF ArreteInv
<1>. QED
  BY <1>1, TextAssumption DEF NextText, Outcomes

LEMMA Rewriting == Revising <=> mon.pc \in RevisingPcs
BY DEF Revising, RevisingPcs

LEMMA ChangeType ==
  ASSUME IInv, Revising, NEW d \in mon.todo, Open(d)
  PROVE  /\ Change(d) \in Changes /\ Change(d).status = Becomes(d)
         /\ "status" \in Change(d).writes <=> Row(d).status # Becomes(d)
<1>1. /\ d \in Dossier /\ Printed(d) /\ ingested < Len(texts)
  BY Rewriting DEF IInv, MonInv, RunInv
<1>2. NextText.date \in Day /\ NextText.arrete \in Arrete
  BY <1>1, NextTyped DEF IInv, Day
<1>3. <<d, "sinistre">> \in Key /\ <<d, "declaration">> \in Key
  BY <1>1, Keys
<1>4. Row(d) \in SinistreRow /\ db[<<d, "declaration">>] \in StepRow
  <2>1. "declaration" \in Part /\ db[<<d, "declaration">>] \notin {None, Gone}
    BY <1>1 DEF IInv, RowInv, Open, IsRow, Part
  <2>. QED
    BY <1>1, <1>3, <2>1 DEF IInv, RowInv, Open, IsRow, Row, RowsOf
<1>5. Row(d).declared \in Day /\ db[<<d, "declaration">>].planned \in Day
  BY <1>4, DayAssumption DEF SinistreRow, StepRow, Day
<1>6. InsurerAnchor(Row(d).declared, NextText.date) \in Day
  BY <1>2, <1>5, AnchorType
<1>7. Change(d).planned \in Day /\ Change(d).insurer \in Day
  <2>1. Change(d).planned \in {None, NextText.date, db[<<d, "declaration">>].planned}
    BY DEF Change
  <2>2. Change(d).insurer = InsurerAnchor(Row(d).declared, NextText.date)
    BY DEF Change
  <2>3. None \in Day
    BY DEF Day
  <2>. QED
    BY <1>2, <1>5, <1>6, <2>1, <2>2, <2>3
<1>8. Change(d).status = Becomes(d) /\ Change(d).status \in Statuses
  BY StatusType DEF Change, Becomes, GivenBy
<1>9. /\ Change(d).appears \in BOOLEAN /\ Change(d).writes \subseteq Edits
      /\ "status" \in Change(d).writes <=> Row(d).status # Becomes(d)
  BY DEF Change, Edits, Becomes, GivenBy
<1>10. Change(d) = [status |-> Change(d).status, insurer |-> Change(d).insurer,
                    planned |-> Change(d).planned, appears |-> Change(d).appears,
                    writes |-> Change(d).writes]
  BY DEF Change
<1>. QED
  BY <1>7, <1>8, <1>9, <1>10 DEF Changes

LEMMA NextWrites ==
  \A change, left :
    /\ NextWrite(change, left) \in (left \cap Edits) \cup {"revise"}
    /\ NextWrite(change, left) = "status" <=> "status" \in left \cap change.writes
BY DEF NextWrite, Edits

LEMMA MonHolding ==
  ASSUME IInv, mon.pc \in (RevisingPcs \ {"revise"}) \cup LinkingPcs
  PROVE  /\ mon.d \in Dossier /\ mon.d \in mon.held /\ Row(mon.d) # None
         /\ \A part \in Part : <<mon.d, part>> \in Key
<1>1. mon.held \subseteq Dossier
  BY DEF IInv, MonInv, RunInv, Run
<1>. QED
  BY <1>1, Keys DEF IInv, MonInv, RunInv

LEMMA ReviseStatusWrites ==
  ASSUME IInv, ReviseStatus
  PROVE  LET row == [Row(mon.d) EXCEPT !.status = mon.change.status]
         IN \/ ~ Open(mon.d) /\ UNCHANGED <<db, pending>>
            \/ Open(mon.d) /\ row \in SinistreRow /\ Puts(Monitor, <<mon.d, "sinistre">>, row)
<1> DEFINE k   == <<mon.d, "sinistre">>
           row == [Row(mon.d) EXCEPT !.status = mon.change.status]
<1>1. k \in Key /\ RowsOf(k) = SinistreRow /\ mon.change \in Changes
  BY MonHolding, Keys DEF ReviseStatus, RevisingPcs, IInv, MonInv, RunInv, RowsOf
<1>2. ASSUME Open(mon.d) PROVE row \in SinistreRow
  <2>1. Row(mon.d) \in SinistreRow
    BY <1>1, <1>2 DEF IInv, RowInv, Open, Row, IsRow
  <2>. QED
    BY <1>1, <2>1 DEF SinistreRow, Changes, Statuses
<1>. QED
  BY <1>1, <1>2 DEF ReviseStatus, Puts, Open, Row, Proc

LEMMA ReviseInsurerWrites ==
  ASSUME IInv, ReviseInsurerWrite
  PROVE  LET k   == <<mon.d, "insurer">>
             row == [db[k] EXCEPT !.planned = mon.change.insurer]
         IN \/ IsRow(db[k]) /\ row \in StepRow /\ Puts(Monitor, k, row)
            \/ Abort /\ Rollback(Monitor)
<1> DEFINE k   == <<mon.d, "insurer">>
           row == [db[k] EXCEPT !.planned = mon.change.insurer]
<1>1. k \in Key /\ RowsOf(k) = StepRow /\ mon.change \in Changes
  BY MonHolding, Keys DEF ReviseInsurerWrite, RevisingPcs, IInv, MonInv, RunInv, RowsOf
<1>2. ASSUME IsRow(db[k]) PROVE row \in StepRow
  <2>1. db[k] \in StepRow
    BY <1>1, <1>2 DEF IInv, RowInv, IsRow
  <2>. QED
    BY <1>1, <2>1 DEF StepRow, Changes, Day
<1>. QED
  BY <1>1, <1>2 DEF ReviseInsurerWrite, Puts, Proc

LEMMA ReviseDeclarationWrites ==
  ASSUME IInv, ReviseDeclaration
  PROVE  LET k   == <<mon.d, "declaration">>
             row == [db[k] EXCEPT !.planned = mon.change.planned]
         IN \/ IsRow(db[k]) /\ row \in StepRow /\ Puts(Monitor, k, row)
            \/ UNCHANGED <<db, pending>>
<1> DEFINE k   == <<mon.d, "declaration">>
           row == [db[k] EXCEPT !.planned = mon.change.planned]
<1>1. k \in Key /\ RowsOf(k) = StepRow /\ mon.change \in Changes
  BY MonHolding, Keys DEF ReviseDeclaration, RevisingPcs, IInv, MonInv, RunInv, RowsOf
<1>2. ASSUME IsRow(db[k]) PROVE row \in StepRow
  <2>1. db[k] \in StepRow
    BY <1>1, <1>2 DEF IInv, RowInv, IsRow
  <2>. QED
    BY <1>1, <2>1 DEF StepRow, Changes, Day
<1>. QED
  BY <1>1, <1>2 DEF ReviseDeclaration, Puts, Proc

LEMMA ReviseSaves == ASSUME IInv, ReviseCommits PROVE Saves(Monitor, pending[Monitor])
BY DEF IInv, PendInv, MonHold, ReviseCommits, Saves, Proc

LinkedRow == [Row(mon.d) EXCEPT !.link = mon.link, !.status = mon.status]

LEMMA LinkWrites ==
  ASSUME IInv, LinkWrite
  PROVE  LET k == <<mon.d, "sinistre">>
         IN \/ ~ Open(mon.d) /\ mon' = MonRest /\ Rollback(Monitor)
            \/ /\ Open(mon.d) /\ LinkedRow \in SinistreRow
               /\ mon' = [mon EXCEPT !.pc = "date"] /\ Puts(Monitor, k, LinkedRow)
            \/ /\ Open(mon.d) /\ LinkedRow \in SinistreRow
               /\ mon' = [mon EXCEPT !.pc = "apply", !.held = {}]
               /\ Saves(Monitor, [Nothing EXCEPT ![k] = LinkedRow])
<1> DEFINE k == <<mon.d, "sinistre">>
           writes == [Nothing EXCEPT ![k] = LinkedRow]
           dates == OutcomeOf(mon.link) = "RECONNU" /\ PublishedOf(mon.link) \in Ruled
<1>1. k \in Key /\ RowsOf(k) = SinistreRow /\ mon.link \in Entry /\ mon.status \in Statuses
  BY MonHolding, Keys DEF LinkWrite, LinkingPcs, IInv, MonInv, RunInv, RowsOf
<1>2. ASSUME Open(mon.d) PROVE LinkedRow \in SinistreRow
  <2>1. Row(mon.d) \in SinistreRow
    BY <1>1, <1>2 DEF IInv, RowInv, Open, Row, IsRow
  <2>. QED
    BY <1>1, <2>1 DEF LinkedRow, SinistreRow, Statuses
<1>3. CASE ~ Open(mon.d)
  BY <1>3 DEF LinkWrite, Open, Row, Monitors
<1>4. CASE Open(mon.d) /\ dates
  BY <1>1, <1>2, <1>4 DEF LinkWrite, Open, Row, Goes, Monitors, LinkedRow, Puts, Proc
<1>5. CASE Open(mon.d) /\ ~ dates
  <2>1. pending[Monitor] = Nothing
    <3>1. \A j \in Key : pending[Monitor][j] = None
      BY DEF LinkWrite, IInv, MonHold, Revising
    <3>. QED
      BY <3>1 DEF Nothing, IInv, PendInv, Proc
  <2>2. /\ mon' = [mon EXCEPT !.pc = "apply", !.held = {}] /\ ~ Locked(Monitor, k)
        /\ Commit(Monitor, writes)
    BY <1>5, <2>1 DEF LinkWrite, Open, Row, Monitors, LinkedRow, WriteAndCommit
  <2>3. \A j \in Key : writes[j] = IF j = k THEN LinkedRow ELSE None
    BY DEF Nothing
  <2>. QED
    BY <1>1, <1>2, <1>5, <2>2, <2>3 DEF Saves, Proc, Open, Row
<1>. QED
  BY <1>3, <1>4, <1>5

LEMMA LinkDates ==
  ASSUME IInv, LinkDate
  PROVE  LET k   == <<mon.d, "declaration">>
             row == [db[k] EXCEPT !.planned = PublishedOf(mon.link)]
         IN row \in StepRow /\ Saves(Monitor, [pending[Monitor] EXCEPT ![k] = row])
<1> DEFINE k   == <<mon.d, "declaration">>
           row == [db[k] EXCEPT !.planned = PublishedOf(mon.link)]
           writes == [pending[Monitor] EXCEPT ![k] = row]
<1>1. /\ k \in Key /\ RowsOf(k) = StepRow /\ <<mon.d, "sinistre">> \in Key /\ mon.d \in Dossier
      /\ Stands(mon.link)
  BY MonHolding, Keys DEF LinkDate, LinkingPcs, IInv, MonInv, RunInv, RowsOf, Stands
<1>2. pending[Monitor][<<mon.d, "sinistre">>] # None
  BY DEF LinkDate, IInv, MonHold
<1>3. IsRow(db[k])
  <2>1. Open(mon.d)
    BY <1>1, <1>2 DEF IInv, PendInv, Proc, Open, Row
  <2>. QED
    BY <1>1, <2>1 DEF IInv, RowInv, Open, IsRow, Part
<1>4. row \in StepRow
  <2>1. db[k] \in StepRow /\ PublishedOf(mon.link) \in Day
    BY <1>1, <1>3, LinkTypes DEF IInv, RowInv, IsRow
  <2>. QED
    BY <2>1 DEF StepRow, Day
<1>5. \A j \in Key : writes[j] = IF j = k THEN row ELSE pending[Monitor][j]
  BY DEF IInv, PendInv, Proc
<1>6. \A j \in Key : pending[Monitor][j] # None =>
        pending[Monitor][j] \in RowsOf(j) /\ IsRow(db[j]) /\ ~ Locked(Monitor, j)
  BY DEF IInv, PendInv, MonHold, Proc
<1>7. ~ Locked(Monitor, k) /\ Commit(Monitor, writes)
  BY DEF LinkDate, WriteAndCommit
<1>. QED
  BY <1>1, <1>3, <1>4, <1>5, <1>6, <1>7 DEF Saves, Proc

(* The run moves to where it may be.                                       *)
LEMMA RunMoves == ASSUME IInv, Runs PROVE \E m : mon' = m /\ RunInv(m)
<1> DEFINE Good == \E m : mon' = m /\ RunInv(m)
<1> USE DEF Monitors, Goes, RevisingPcs, LinkingPcs
<1>1. RunInv(mon) /\ mon \in Run(mon.succ, mon.todo, mon.letters)
  BY DEF IInv, MonInv, RunInv
<1>2. ASSUME NEW m, mon' = m, RunInv(m) PROVE Good
  BY <1>2
<1>3. RunInv(MonRest)
  <2>1. MonRest \in Run(MonRest.succ, MonRest.todo, MonRest.letters)
    BY DEF MonRest, Run
  <2>. QED
    BY <2>1 DEF RunInv, MonRest
<1>4. CASE mon' = MonRest
  BY <1>2, <1>3, <1>4
<1>5. CASE Tick
  <2> DEFINE m == [MonRest EXCEPT !.pc = "next", !.succ = succ]
  <2>1. m \in Run(m.succ, m.todo, m.letters)
    BY DEF MonRest, Run
  <2>2. RunInv(m)
    BY <2>1 DEF RunInv, MonRest
  <2>. QED
    BY <1>2, <1>5, <2>2 DEF Tick
<1>6. CASE NoText \/ Publish
  <2> DEFINE m == [mon EXCEPT !.pc = "link"]
  <2>1. m \in Run(m.succ, m.todo, m.letters)
    BY <1>1 DEF Run
  <2>2. mon.pc = "next" /\ mon' = m
    BY <1>6 DEF NoText, Publish
  <2>3. RunInv(m)
    BY <1>1, <2>1, <2>2 DEF RunInv, Run
  <2>. QED
    BY <1>2, <2>2, <2>3
<1>7. CASE Revise
  <2> DEFINE touched == {e \in Entry : NextText.lines[e] # None /\
                    (NextText.lines[e] # entry[e] \/ NextText.date # publishedAt[NextText.arrete])}
             todo == {d \in Dossier : Open(d) /\ Row(d).link \in touched}
             m == [mon EXCEPT !.pc = "revise", !.todo = todo]
  <2>1. m \in Run(m.succ, m.todo, m.letters)
    BY <1>1 DEF Run
  <2>2. mon.pc = "next" /\ mon' = m /\ ingested < Len(texts) /\ publishedAt[NextText.arrete] # None
    BY <1>7 DEF Revise
  <2>3. m.pc = "revise" /\ m.todo = todo /\ m.held = mon.held
    BY <1>1 DEF Run
  <2>4. mon.held = {}
    BY <1>1, <2>2 DEF RunInv
  <2>5. \A d \in todo : d \in Dossier /\ Row(d) # None /\ Printed(d)
    BY DEF Open, IsRow, Printed
  <2>6. RunInv(m)
    BY <2>1, <2>2, <2>3, <2>4, <2>5 DEF RunInv
  <2>. QED
    BY <1>2, <2>2, <2>6
<1>8. ASSUME NEW d \in Dossier, Recompute(d) PROVE Good
  <2>1. mon.pc = "revise" /\ d \in mon.todo
    BY <1>8 DEF Recompute
  <2>2. CASE ~ Open(d)
    <3> DEFINE m == [mon EXCEPT !.todo = @ \ {d}]
    <3>1. m \in Run(m.succ, m.todo, m.letters)
      BY <1>1 DEF Run
    <3>2. m.pc = "revise" /\ m.todo = mon.todo \ {d} /\ m.held = mon.held
      BY <1>1, <2>1 DEF Run
    <3>3. RunInv(m)
      BY <1>1, <2>1, <3>1, <3>2 DEF RunInv
    <3>. QED
      BY <1>2, <1>8, <2>2, <3>3 DEF Recompute
  <2>3. CASE Open(d)
    <3> DEFINE pc == NextWrite(Change(d), {"status", "insurer", "declaration"})
               m == [mon EXCEPT !.todo = @ \ {d}, !.held = @ \cup {d}, !.d = d,
                                !.change = Change(d), !.pc = pc]
    <3>1. pc \in Edits \cup {"revise"} /\ Change(d) \in Changes
      BY <2>1, <2>3, NextWrites, ChangeType, Rewriting DEF Edits
    <3> HIDE DEF pc
    <3>2. m \in Run(m.succ, m.todo, m.letters)
      BY <1>1, <3>1, ZenonT(60) DEF Run, Edits
    <3>3. /\ m.pc = pc /\ m.todo = mon.todo \ {d} /\ m.held = mon.held \cup {d} /\ m.d = d
          /\ m.change = Change(d)
      BY <1>1 DEF Run
    <3>4. RunInv(m)
      BY <1>1, <2>1, <3>1, <3>2, <3>3 DEF RunInv, Edits
    <3>. QED
      BY <1>2, <1>8, <2>3, <3>4 DEF Recompute, pc
  <2>. QED
    BY <2>2, <2>3
<1>9. ASSUME NEW pc \in (RevisingPcs \ {"status"}), mon.pc \in RevisingPcs \ {"revise"},
             mon.pc = "letter" => pc = "revise",
             mon' = [mon EXCEPT !.pc = pc]
      PROVE  Good
  <2> DEFINE m == [mon EXCEPT !.pc = pc]
  <2>1. m \in Run(m.succ, m.todo, m.letters)
    BY <1>1 DEF Run
  <2>2. m.pc = pc /\ m.todo = mon.todo /\ m.held = mon.held /\ m.d = mon.d /\ m.change = mon.change
    BY <1>1 DEF Run
  <2>3. RunInv(m)
    BY <1>1, <1>9, <2>1, <2>2 DEF RunInv
  <2>. QED
    BY <1>2, <1>9, <2>3
<1>10. CASE ReviseStatus \/ ReviseInsurer \/ ReviseDeclaration
  BY <1>9, <1>10, NextWrites DEF ReviseStatus, ReviseInsurer, ReviseDeclaration, Edits
<1>11. CASE Abort
  <2> DEFINE m == [mon EXCEPT !.pc = "link", !.todo = {}, !.held = {}, !.letters = {}]
  <2>1. m \in Run(m.succ, m.todo, m.letters)
    BY <1>1 DEF Run
  <2>2. m.pc = "link" /\ m.held = {}
    BY <1>1 DEF Run
  <2>3. RunInv(m)
    BY <2>1, <2>2 DEF RunInv
  <2>. QED
    BY <1>2, <1>11, <2>3 DEF Abort
<1>12. CASE ReviseInsurerWrite
  BY <1>9, <1>11, <1>12, NextWrites DEF ReviseInsurerWrite, Edits
<1>13. CASE ReviseLetter
  <2>1. CASE mon' = [mon EXCEPT !.pc = "revise", !.letters = @ \cup {<<mon.d, NextText.arrete>>}]
    <3> DEFINE m == [mon EXCEPT !.pc = "revise", !.letters = @ \cup {<<mon.d, NextText.arrete>>}]
    <3>1. m \in Run(m.succ, m.todo, m.letters)
      BY <1>1 DEF Run
    <3>2. m.pc = "revise" /\ m.todo = mon.todo /\ m.held = mon.held
      BY <1>1 DEF Run
    <3>3. RunInv(m)
      BY <1>1, <1>13, <3>1, <3>2 DEF RunInv, ReviseLetter
    <3>. QED
      BY <1>2, <2>1, <3>3
  <2>. QED
    BY <1>11, <1>13, <2>1 DEF ReviseLetter
<1>14. CASE ReviseCommits
  <2> DEFINE m == [mon EXCEPT !.pc = "link", !.held = {}, !.letters = {}]
  <2>1. m \in Run(m.succ, m.todo, m.letters)
    BY <1>1 DEF Run
  <2>2. m.pc = "link" /\ m.held = {}
    BY <1>1 DEF Run
  <2>3. RunInv(m)
    BY <2>1, <2>2 DEF RunInv
  <2>. QED
    BY <1>2, <1>14, <2>3 DEF ReviseCommits
<1>15. CASE DecideLinks
  <2>1. mon.pc = "link"
    BY <1>15 DEF DecideLinks
  <2>2. ASSUME NEW todo, \A l \in todo : /\ l.d \in Dossier /\ Row(l.d) # None
                                         /\ l.e \in Entry /\ entry[l.e] # None
        PROVE  RunInv([mon EXCEPT !.pc = "apply", !.todo = todo])
    <3> DEFINE m == [mon EXCEPT !.pc = "apply", !.todo = todo]
    <3>1. m \in Run(m.succ, m.todo, m.letters)
      BY <1>1 DEF Run
    <3>2. m.pc = "apply" /\ m.todo = todo /\ m.held = mon.held
      BY <1>1 DEF Run
    <3>. QED
      BY <1>1, <2>1, <2>2, <3>1, <3>2 DEF RunInv
  <2> DEFINE read == IF Candidates = {} THEN {} ELSE Window(Candidates)
             matched == {d \in Candidates : Winners(read, mon.succ, DamageOf(d)) # {}}
  <2>3. PICK won \in [matched -> Entry] :
          /\ \A d \in matched : won[d] \in Winners(read, mon.succ, DamageOf(d))
          /\ mon' = [mon EXCEPT !.pc = "apply",
               !.todo = {[d |-> d, e |-> won[d], declared |-> Row(d).declared] : d \in matched}]
    BY <1>15 DEF DecideLinks
  <2> DEFINE todo == {[d |-> d, e |-> won[d], declared |-> Row(d).declared] : d \in matched}
  <2>4. \A d \in matched : /\ d \in Dossier /\ Row(d) # None
                           /\ won[d] \in Entry /\ entry[won[d]] # None
    BY <2>3, WinnersStand DEF Candidates, Open, IsRow
  <2>5. \A l \in todo : /\ l.d \in Dossier /\ Row(l.d) # None
                        /\ l.e \in Entry /\ entry[l.e] # None
    BY <2>4
  <2>6. RunInv([mon EXCEPT !.pc = "apply", !.todo = todo])
    BY <2>2, <2>5
  <2>. QED
    BY <1>2, <2>3, <2>6
<1>16. ASSUME NEW l \in mon.todo, ApplyRead(l) PROVE Good
  <2>1. mon.pc = "apply"
    BY <1>16 DEF ApplyRead
  <2>2. CASE ~ Open(l.d)
    <3> DEFINE m == [mon EXCEPT !.todo = @ \ {l}]
    <3>1. m \in Run(m.succ, m.todo, m.letters)
      BY <1>1 DEF Run
    <3>2. m.pc = "apply" /\ m.todo = mon.todo \ {l} /\ m.held = mon.held
      BY <1>1, <2>1 DEF Run
    <3>3. RunInv(m)
      BY <1>1, <2>1, <3>1, <3>2 DEF RunInv
    <3>. QED
      BY <1>2, <1>16, <2>2, <3>3 DEF ApplyRead
  <2>3. CASE Open(l.d)
    <3> DEFINE m == [mon EXCEPT !.pc = "linkWrite", !.todo = @ \ {l}, !.held = {l.d}, !.d = l.d,
                              !.link = l.e, !.status = StatusFresh(l)]
    <3>1. /\ StatusFresh(l) \in Statuses
          /\ l.d \in Dossier /\ Row(l.d) # None /\ l.e \in Entry /\ entry[l.e] # None
      BY <1>1, <2>1, StatusType DEF StatusFresh, RunInv
    <3>2. m \in Run(m.succ, m.todo, m.letters)
      BY <1>1, <3>1, ZenonT(60) DEF Run
    <3>3. /\ m.pc = "linkWrite" /\ m.todo = mon.todo \ {l} /\ m.held = {l.d} /\ m.d = l.d
          /\ m.link = l.e /\ m.status = StatusFresh(l)
      BY <1>1 DEF Run
    <3>4. RunInv(m)
      BY <1>1, <2>1, <3>1, <3>2, <3>3 DEF RunInv
    <3>. QED
      BY <1>2, <1>16, <2>3, <3>4 DEF ApplyRead
  <2>. QED
    BY <2>2, <2>3
<1>17. CASE LinkWrite \/ LinkDate
  <2>1. CASE mon' = [mon EXCEPT !.pc = "date"]
    <3> DEFINE m == [mon EXCEPT !.pc = "date"]
    <3>1. m \in Run(m.succ, m.todo, m.letters)
      BY <1>1 DEF Run
    <3>2. /\ m.pc = "date" /\ m.todo = mon.todo /\ m.held = mon.held /\ m.d = mon.d
          /\ m.link = mon.link /\ m.status = mon.status
      BY <1>1 DEF Run
    <3>3. RunInv(m)
      BY <1>1, <1>17, <3>1, <3>2 DEF RunInv, LinkWrite, LinkDate
    <3>. QED
      BY <1>2, <2>1, <3>3
  <2>2. CASE mon' = [mon EXCEPT !.pc = "apply", !.held = {}]
    <3> DEFINE m == [mon EXCEPT !.pc = "apply", !.held = {}]
    <3>1. m \in Run(m.succ, m.todo, m.letters)
      BY <1>1 DEF Run
    <3>2. m.pc = "apply" /\ m.todo = mon.todo /\ m.held = {}
      BY <1>1 DEF Run
    <3>3. RunInv(m)
      BY <1>1, <1>17, <3>1, <3>2 DEF RunInv, LinkWrite, LinkDate
    <3>. QED
      BY <1>2, <2>2, <3>3
  <2>. QED
    BY <1>4, <1>17, <2>1, <2>2, LinkWrites DEF LinkDate
<1>18. CASE LinksDone
  BY <1>4, <1>18 DEF LinksDone
<1>19. CASE VictimMonitor
  BY <1>4, <1>11, <1>19 DEF VictimMonitor
<1>. QED
  BY <1>5, <1>6, <1>7, <1>8, <1>10, <1>12, <1>13, <1>14, <1>15, <1>16, <1>17, <1>18, <1>19 DEF Runs

-----------------------------------------------------------------------------
(* Every step of the program is a step of the rows.                        *)
LEMMA StepDb == ASSUME IInv, [Next]_vars PROVE DbStep
<1>1. ASSUME NEW r \in Req, Sends(r) PROVE DbStep
  BY <1>1 DEF Sends, Create, Send, DbStep
<1>2. ASSUME NEW r \in Req, Handles(r) PROVE DbStep
  <2>1. CASE UNCHANGED <<db, pending>>
    BY <2>1 DEF DbStep
  <2>2. CASE Rollback(r)
    BY <2>2 DEF DbStep, Proc
  <2>3. CASE UpdateStatus(r)
    BY <2>2, <2>3, StatusWrites DEF DbStep
  <2>4. CASE UpdateMark(r)
    BY <2>4, MarkWrites DEF DbStep
  <2>5. CASE UpdateInsurer(r)
    BY <2>5, InsurerWrites DEF DbStep
  <2>6. CASE StepWrite(r)
    BY <2>2, <2>6, StepWrites DEF DbStep
  <2>7. CASE RemoveParent(r)
    BY <2>2, <2>7, RemoveWrites DEF DbStep
  <2>8. ASSUME NEW part \in Part, Cascade(r, part) PROVE DbStep
    BY <2>8, CascadeWrites DEF DbStep
  <2>9. CASE RemoveCommits(r)
    BY <2>9, RemoveDeletes DEF DbStep
  <2>10. ASSUME NEW d \in Dossier, Insert(r, d) PROVE DbStep
    BY <2>10, InsertWrites DEF DbStep
  <2>. QED
    BY <1>2, <2>1, <2>2, <2>3, <2>4, <2>5, <2>6, <2>7, <2>8, <2>9, <2>10
    DEF Handles, Look, PlanDossier, Recheck, Drain, UpdateRead, StepRead, VictimRequest
<1>3. ASSUME Runs PROVE DbStep
  <2>1. CASE UNCHANGED <<db, pending>>
    BY <2>1 DEF DbStep
  <2>2. CASE Rollback(Monitor)
    BY <2>2 DEF DbStep, Proc
  <2>3. CASE ReviseStatus
    BY <2>1, <2>3, ReviseStatusWrites DEF DbStep
  <2>4. CASE ReviseInsurerWrite
    BY <2>2, <2>4, ReviseInsurerWrites DEF DbStep
  <2>5. CASE ReviseDeclaration
    BY <2>1, <2>5, ReviseDeclarationWrites DEF DbStep
  <2>6. CASE ReviseLetter
    BY <2>1, <2>2, <2>6 DEF ReviseLetter
  <2>7. CASE ReviseCommits
    BY <2>7, ReviseSaves DEF DbStep
  <2>8. CASE LinkWrite
    BY <2>2, <2>8, LinkWrites DEF DbStep
  <2>9. CASE LinkDate
    BY <2>9, LinkDates DEF DbStep
  <2>. QED
    BY <1>3, <2>1, <2>2, <2>3, <2>4, <2>5, <2>6, <2>7, <2>8, <2>9
    DEF Runs, Tick, NoText, Publish, Revise, ReviseInsurer, Recompute, DecideLinks, ApplyRead,
        LinksDone, VictimMonitor
<1>4. CASE UNCHANGED vars
  BY <1>4 DEF vars, DbStep
<1>5. ASSUME NEW c \in DOMAIN Merger, Merge(c) PROVE DbStep
  BY <1>5 DEF Merge, DbStep
<1>. QED
  BY <1>1, <1>2, <1>3, <1>4, <1>5 DEF Next

(* A request works for itself.                                             *)
LEMMA RequestAlone ==
  ASSUME NEW r \in Req, Sends(r) \/ Handles(r)
  PROVE  UNCHANGED <<arretes, succ, mon>> /\ raced \subseteq raced'
<1> USE DEF RestOfWorld, Overlap
<1>1. CASE Sends(r)
  BY <1>1 DEF Sends, Create, Send
<1>2. ASSUME NEW d \in Dossier, Insert(r, d) PROVE UNCHANGED <<arretes, succ, mon>> /\ raced \subseteq raced'
  BY <1>2 DEF Insert
<1>3. CASE UpdateRead(r)
  BY <1>3 DEF UpdateRead
<1>4. ASSUME ~ \E d \in Dossier : Insert(r, d), ~ UpdateRead(r), Handles(r)
      PROVE  UNCHANGED <<arretes, succ, mon, raced>>
  BY <1>4 DEF Handles, Look, PlanDossier, Recheck, Drain, UpdateStatus, UpdateMark, UpdateInsurer,
     StepRead, StepWrite, RemoveParent, RemoveCommits, Cascade, VictimRequest
<1>. QED
  BY <1>1, <1>2, <1>3, <1>4

LEMMA RunAlone == ASSUME Runs PROVE UNCHANGED <<succ, req>> /\ raced \subseteq raced'
BY DEF Runs, Tick, NoText, Publish, Revise, ReviseStatus, ReviseInsurer, ReviseInsurerWrite,
   ReviseDeclaration, ReviseLetter, ReviseCommits, Recompute, DecideLinks, LinkWrite, LinkDate,
   LinksDone, ApplyRead, VictimMonitor, Alone, Held

-----------------------------------------------------------------------------
(* Who holds what.                                                         *)
LEMMA NothingHeld == \A q : q.pc \notin {"mark", "insurer", "cascade"} => HoldOf(q, Nothing)
BY Keys DEF HoldOf, Nothing

LEMMA RequestHolds ==
  ASSUME IInv, NEW r \in Req, Sends(r) \/ Handles(r)
  PROVE  \E q, rows : /\ req' = [req EXCEPT ![r] = q] /\ pending' = [pending EXCEPT ![r] = rows]
                      /\ HoldOf(q, rows)
<1> DEFINE Good == \E q, rows : /\ req' = [req EXCEPT ![r] = q]
                                /\ pending' = [pending EXCEPT ![r] = rows] /\ HoldOf(q, rows)
<1> USE DEF Steps
<1>1. /\ HoldOf(req[r], pending[r]) /\ pending = [pending EXCEPT ![r] = pending[r]]
      /\ pending[r] = [k \in Key |-> pending[r][k]] /\ req[r] \in Request(req[r].codes)
  BY DEF IInv, HoldInv, PendInv, ReqInv, RequestInv, Proc
<1>2. ASSUME NEW q, Steps(r, q), q.pc \notin {"mark", "insurer", "cascade"},
             pending' = [pending EXCEPT ![r] = Nothing]
      PROVE  Good
  BY <1>2, NothingHeld
<1>3. ASSUME req[r].pc \notin {"mark", "insurer", "cascade"} PROVE pending[r] = Nothing
  <2>1. \A k \in Key : pending[r][k] = None
    BY <1>1, <1>3 DEF HoldOf
  <2>. QED
    BY <1>1, <2>1 DEF Nothing
<1>4. ASSUME NEW q, Steps(r, q), q.pc \notin {"mark", "insurer", "cascade"},
             req[r].pc \notin {"mark", "insurer", "cascade"}, UNCHANGED pending
      PROVE  Good
  BY <1>1, <1>2, <1>3, <1>4
<1>5. Rest.pc = "idle"
  BY DEF Rest
<1>6. CASE Sends(r)
  <2>1. ASSUME NEW q, Send(r, q), q.pc = "read" PROVE Good
    BY <1>4, <1>5, <2>1 DEF Send
  <2>2. ASSUME NEW damage, NEW confirmed, NEW outer, Create(r, damage, confirmed, outer) PROVE Good
    <3> DEFINE q == [Rest EXCEPT !.pc = IF outer THEN "outer" ELSE "look", !.kind = "create",
                                 !.damage = damage, !.confirmed = confirmed]
    <3>1. q.pc \in {"outer", "look"}
      BY DEF Rest
    <3>2. Steps(r, q) /\ req[r] = Rest /\ UNCHANGED pending
      BY <2>2 DEF Create
    <3>. QED
      BY <1>4, <1>5, <3>1, <3>2
  <2>3. \A d, date : [Rest EXCEPT !.pc = "read", !.kind = "update", !.d = d, !.date = date].pc = "read"
    BY DEF Rest
  <2>4. \A d, mark, part : [Rest EXCEPT !.pc = "read", !.kind = "step", !.d = d, !.part = part,
                                        !.date = mark].pc = "read"
    BY DEF Rest
  <2>5. \A d : [Rest EXCEPT !.pc = "read", !.kind = "remove", !.d = d].pc = "read"
    BY DEF Rest
  <2>. QED
    BY <1>6, <2>1, <2>2, <2>3, <2>4, <2>5 DEF Sends
<1>7. CASE Look(r)
  <2>1. ASSUME NEW codes PROVE [req[r] EXCEPT !.pc = "plan", !.codes = codes].pc = "plan"
    BY <1>1 DEF Request
  <2>. QED
    BY <1>4, <1>5, <1>7, <2>1 DEF Look, Done
<1>8. CASE PlanDossier(r)
  <2>1. ASSUME NEW plan PROVE [req[r] EXCEPT !.pc = "lock", !.plan = plan].pc = "lock"
    BY <1>1 DEF Request
  <2>. QED
    BY <1>4, <1>5, <1>8, <2>1 DEF PlanDossier, Done
<1>9. CASE Recheck(r)
  <2>1. [req[r] EXCEPT !.pc = "insert"].pc = "insert"
    BY <1>1 DEF Request
  <2>. QED
    BY <1>4, <1>5, <1>9, <2>1 DEF Recheck, Done
<1>10. CASE Drain(r)
  <2>1. ASSUME NEW codes, NEW plan
        PROVE  [req[r] EXCEPT !.pc = "insert", !.codes = codes, !.plan = plan].pc = "insert"
    BY <1>1 DEF Request
  <2>. QED
    BY <1>4, <1>5, <1>10, <2>1 DEF Drain, Done
<1>11. CASE UpdateRead(r)
  <2>1. ASSUME NEW outcome, NEW published
        PROVE  [req[r] EXCEPT !.pc = "status", !.outcome = outcome, !.published = published].pc = "status"
    BY <1>1 DEF Request
  <2>2. req[r].pc = "read" /\ UNCHANGED pending
    BY <1>11 DEF UpdateRead
  <2>3. \/ Done(r)
        \/ \E outcome, published :
             Steps(r, [req[r] EXCEPT !.pc = "status", !.outcome = outcome, !.published = published])
    BY <1>11 DEF UpdateRead
  <2>. QED
    BY <1>4, <1>5, <2>1, <2>2, <2>3 DEF Done
<1>12. CASE StepRead(r)
  <2>1. [req[r] EXCEPT !.pc = "write"].pc = "write"
    BY <1>1 DEF Request
  <2>. QED
    BY <1>4, <1>5, <1>12, <2>1 DEF StepRead, Done
<1>13. ASSUME NEW d \in Dossier, Insert(r, d) PROVE Good
  BY <1>2, <1>5, <1>13 DEF Insert, Commit, Done
<1>14. CASE UpdateInsurer(r) \/ StepWrite(r) \/ RemoveCommits(r) \/ VictimRequest(r)
  BY <1>2, <1>5, <1>14 DEF UpdateInsurer, StepWrite, RemoveCommits, VictimRequest, WriteAndCommit,
     Commit, Rollback, Done
<1>15. CASE UpdateStatus(r)
  <2>1. CASE Done(r) /\ Rollback(r)
    BY <1>2, <1>5, <2>1 DEF Rollback, Done
  <2> DEFINE d    == req[r].d
             row  == [Row(d) EXCEPT !.declared = req[r].date,
                                    !.status = SinistreStatus(req[r].outcome, req[r].date)]
             rows == [pending[r] EXCEPT ![<<d, "sinistre">>] = row]
             q    == [req[r] EXCEPT !.pc = "mark"]
  <2>2. CASE ~ (Done(r) /\ Rollback(r))
    <3>1. /\ Open(d) /\ Steps(r, q) /\ pending' = [pending EXCEPT ![r] = rows]
          /\ req[r].pc = "status"
      BY <1>1, <1>15, <2>2 DEF UpdateStatus, Write, Open, Row
    <3>2. row \notin {None, Gone} /\ <<d, "sinistre">> \in Key
      <4>1. (row \in SinistreRow /\ Puts(r, <<d, "sinistre">>, row)) \/ ~ Open(d)
        BY <1>15, StatusWrites
      <4>. QED
        BY <3>1, <4>1, RowAssumption DEF Puts
    <3>3. \A k \in Key : rows[k] = IF k = <<d, "sinistre">> THEN row ELSE None
      BY <1>3, <3>1 DEF Nothing
    <3>4. q.pc = "mark" /\ q.d = d
      BY <1>1 DEF Request
    <3>5. HoldOf(q, rows)
      BY <3>2, <3>3, <3>4 DEF HoldOf
    <3>. QED
      BY <3>1, <3>5
  <2>. QED
    BY <2>1, <2>2
<1>16. CASE UpdateMark(r)
  <2> DEFINE d    == req[r].d
             k    == <<d, "declaration">>
             row  == [db[k] EXCEPT !.mark = req[r].date]
             rows == [pending[r] EXCEPT ![k] = row]
             q    == [req[r] EXCEPT !.pc = "insurer"]
  <2>1. Steps(r, q) /\ pending' = [pending EXCEPT ![r] = rows] /\ req[r].pc = "mark"
    BY <1>1, <1>16 DEF UpdateMark, Write
  <2>2. row \notin {None, Gone} /\ k \in Key
    BY <1>16, MarkWrites, RowAssumption DEF Puts
  <2>3. \A j \in Key : rows[j] = IF j = k THEN row ELSE pending[r][j]
    BY <1>1
  <2>4. q.pc = "insurer" /\ q.d = d
    BY <1>1 DEF Request
  <2>5. <<d, "sinistre">> \in Key /\ d \in Dossier
    BY <2>1, Holding, Keys
  <2>6. HoldOf(q, rows)
    BY <1>1, <2>1, <2>2, <2>3, <2>4, <2>5 DEF HoldOf
  <2>. QED
    BY <2>1, <2>6
<1>17. ASSUME NEW part \in Part, NEW q, pending[r][<<req[r].d, part>>] = None,
              Write(r, <<req[r].d, part>>, Gone), Steps(r, q), q.pc = "cascade", q.d = req[r].d,
              (part = "sinistre" /\ req[r].pc = "read") \/ req[r].pc = "cascade",
              <<req[r].d, part>> \in Key, <<req[r].d, "sinistre">> \in Key
       PROVE  Good
  <2> DEFINE rows == [pending[r] EXCEPT ![<<req[r].d, part>>] = Gone]
  <2>1. \A j \in Key : rows[j] = IF j = <<req[r].d, part>> THEN Gone ELSE pending[r][j]
    BY <1>1
  <2>2. HoldOf(q, rows)
    BY <1>1, <1>17, <2>1, Keys DEF HoldOf
  <2>. QED
    BY <1>17, <2>2 DEF Write
<1>18. CASE RemoveParent(r)
  <2>1. CASE Done(r) /\ Rollback(r)
    BY <1>2, <1>5, <2>1 DEF Rollback, Done
  <2>2. CASE ~ (Done(r) /\ Rollback(r))
    <3> DEFINE q == [req[r] EXCEPT !.pc = "cascade"]
    <3>1. /\ Write(r, <<req[r].d, "sinistre">>, Gone) /\ Steps(r, q) /\ req[r].pc = "read"
      BY <1>18, <2>2 DEF RemoveParent
    <3>2. q.pc = "cascade" /\ q.d = req[r].d
      BY <1>1 DEF Request
    <3>3. req[r].d \in Dossier
      BY <3>1 DEF IInv, ReqInv, RequestInv, Creating
    <3>4. <<req[r].d, "sinistre">> \in Key /\ "sinistre" \in Part
      BY <3>3, Keys
    <3>5. pending[r][<<req[r].d, "sinistre">>] = None
      BY <1>3, <3>1, <3>4 DEF Nothing
    <3>. QED
      BY <1>17, <3>1, <3>2, <3>4, <3>5
  <2>. QED
    BY <2>1, <2>2
<1>19. ASSUME NEW part \in Part, Cascade(r, part) PROVE Good
  <2>1. req[r].pc = "cascade" /\ pending[r][<<req[r].d, part>>] = None
        /\ Write(r, <<req[r].d, part>>, Gone) /\ req' = req
    BY <1>19 DEF Cascade
  <2>2. <<req[r].d, part>> \in Key /\ <<req[r].d, "sinistre">> \in Key
    BY <2>1, Holding, Keys
  <2>3. Steps(r, req[r])
    BY <2>1 DEF IInv, ReqInv
  <2>. QED
    BY <1>17, <2>1, <2>2, <2>3
<1>. QED
  BY <1>6, <1>7, <1>8, <1>9, <1>10, <1>11, <1>12, <1>13, <1>14, <1>15, <1>16, <1>18, <1>19 DEF Handles

(* What the monitor holds once it takes a step.                            *)
MonHolds(m, rows) ==
  /\ \A k \in Key : rows[k] # None =>
       /\ rows[k] # Gone
       /\ m.pc \in RevisingPcs \/ (m.pc = "date" /\ k = <<m.d, "sinistre">>)
  /\ m.pc = "date" => rows[<<m.d, "sinistre">>] # None

LEMMA NothingRevised == \A m : m.pc # "date" => MonHolds(m, Nothing)
BY Keys DEF MonHolds, Nothing

LEMMA RunHolds ==
  ASSUME IInv, Runs
  PROVE  /\ \E rows : pending' = [pending EXCEPT ![Monitor] = rows]
         /\ MonHolds(mon', pending'[Monitor])
<1> DEFINE Good == /\ \E rows : pending' = [pending EXCEPT ![Monitor] = rows]
                   /\ MonHolds(mon', pending'[Monitor])
<1> USE DEF Monitors, Goes, RevisingPcs
<1>1. /\ MonHolds(mon, pending[Monitor]) /\ pending = [pending EXCEPT ![Monitor] = pending[Monitor]]
      /\ pending[Monitor] = [k \in Key |-> pending[Monitor][k]]
      /\ mon \in Run(mon.succ, mon.todo, mon.letters) /\ Monitor \in Proc
      /\ pending = [p \in Proc |-> pending[p]]
  BY Rewriting DEF IInv, MonHold, MonHolds, PendInv, MonInv, RunInv, Proc
<1>2. ASSUME mon'.pc # "date", Rollback(Monitor) \/ (\E writes : Commit(Monitor, writes))
      PROVE  Good
  <2>1. pending' = [pending EXCEPT ![Monitor] = Nothing]
    BY <1>2 DEF Rollback, Commit
  <2>2. pending'[Monitor] = Nothing
    BY <1>1, <2>1
  <2>. QED
    BY <1>2, <2>1, <2>2, NothingRevised
<1>3. ASSUME UNCHANGED pending, mon'.pc \in RevisingPcs PROVE Good
  <2>1. MonHolds(mon', pending[Monitor])
    BY <1>1, <1>3 DEF MonHolds
  <2>. QED
    BY <1>1, <1>3, <2>1
<1>4. ASSUME UNCHANGED pending, mon.pc \notin RevisingPcs \cup {"date"}, mon'.pc # "date"
      PROVE  Good
  <2>1. MonHolds(mon', pending[Monitor])
    BY <1>1, <1>4 DEF MonHolds
  <2>. QED
    BY <1>1, <1>4, <2>1
<1>5. ASSUME NEW k, NEW row, Puts(Monitor, k, row), row # Gone,
             mon'.pc \in RevisingPcs \/ (/\ mon'.pc = "date" /\ k = <<mon'.d, "sinistre">>
                                         /\ mon.pc \notin RevisingPcs \cup {"date"})
      PROVE  Good
  <2>1. \A j \in Key : pending'[Monitor][j] = IF j = k THEN row ELSE pending[Monitor][j]
    BY <1>1, <1>5 DEF Puts, Write
  <2>2. row # None
    BY <1>5, Keys DEF Puts
  <2>3. \A j \in Key : pending[Monitor][j] # None =>
          pending[Monitor][j] # Gone /\ mon.pc \in RevisingPcs \cup {"date"}
    BY <1>1 DEF MonHolds
  <2>4. MonHolds(mon', pending'[Monitor])
    BY <1>5, <2>1, <2>2, <2>3 DEF MonHolds, Puts
  <2>5. \E rows : pending' = [pending EXCEPT ![Monitor] = rows]
    BY <1>5 DEF Puts, Write
  <2>. QED
    BY <2>4, <2>5
<1>6. CASE Tick
  BY <1>4, <1>6 DEF Tick, MonRest
<1>7. CASE NoText \/ Publish
  <2>1. mon'.pc = "link"
    BY <1>1, <1>7 DEF NoText, Publish, Run
  <2>. QED
    BY <1>4, <1>7, <2>1 DEF NoText, Publish
<1>8. CASE Revise
  <2>1. mon'.pc = "revise"
    BY <1>1, <1>8 DEF Revise, Run
  <2>. QED
    BY <1>3, <1>8, <2>1 DEF Revise
<1>9. ASSUME NEW d \in Dossier, Recompute(d) PROVE Good
  <2>1. mon.pc = "revise" /\ UNCHANGED pending
    BY <1>9 DEF Recompute
  <2>2. CASE ~ Open(d)
    <3>1. mon' = [mon EXCEPT !.todo = @ \ {d}]
      BY <1>9, <2>2 DEF Recompute
    <3>. QED
      BY <1>1, <1>3, <2>1, <3>1 DEF Run
  <2>3. CASE Open(d)
    <3> DEFINE pc == NextWrite(Change(d), {"status", "insurer", "declaration"})
    <3>1. pc \in Edits \cup {"revise"}
      BY NextWrites
    <3>2. mon' = [mon EXCEPT !.todo = @ \ {d}, !.held = @ \cup {d}, !.d = d, !.change = Change(d),
                             !.pc = pc]
      BY <1>9, <2>3 DEF Recompute
    <3> HIDE DEF pc
    <3>3. mon'.pc = pc
      BY <1>1, <3>2 DEF Run
    <3>. QED
      BY <1>3, <2>1, <3>1, <3>3 DEF Edits
  <2>. QED
    BY <2>2, <2>3
<1>10. ASSUME NEW pc \in RevisingPcs, mon' = [mon EXCEPT !.pc = pc] PROVE mon'.pc \in RevisingPcs
  BY <1>1, <1>10 DEF Run
<1>11. CASE ReviseStatus
  <2>1. mon'.pc \in RevisingPcs
    BY <1>10, <1>11, NextWrites DEF ReviseStatus, Edits
  <2>. QED
    BY <1>3, <1>5, <1>11, <2>1, ReviseStatusWrites, RowAssumption
<1>12. CASE ReviseInsurer
  BY <1>3, <1>10, <1>12, NextWrites DEF ReviseInsurer, Edits
<1>13. ASSUME Abort PROVE mon'.pc = "link"
  BY <1>1, <1>13 DEF Abort, Run
<1>14. CASE ReviseInsurerWrite
  <2>1. CASE Abort /\ Rollback(Monitor)
    BY <1>2, <1>13, <2>1
  <2>2. CASE ~ (Abort /\ Rollback(Monitor))
    <3>1. mon'.pc \in RevisingPcs
      BY <1>10, <1>14, <2>2, NextWrites DEF ReviseInsurerWrite, Edits
    <3>. QED
      BY <1>5, <1>14, <2>2, <3>1, ReviseInsurerWrites, RowAssumption
  <2>. QED
    BY <2>1, <2>2
<1>15. CASE ReviseDeclaration
  <2>1. mon'.pc \in RevisingPcs
    BY <1>10, <1>15 DEF ReviseDeclaration
  <2>. QED
    BY <1>3, <1>5, <1>15, <2>1, ReviseDeclarationWrites, RowAssumption
<1>16. CASE ReviseLetter
  <2>1. ASSUME mon' = [mon EXCEPT !.pc = "revise", !.letters = @ \cup {<<mon.d, NextText.arrete>>}]
        PROVE  mon'.pc = "revise"
    BY <1>1, <2>1 DEF Run
  <2>. QED
    BY <1>2, <1>3, <1>13, <1>16, <2>1 DEF ReviseLetter
<1>17. CASE ReviseCommits
  <2>1. mon'.pc = "link"
    BY <1>1, <1>17 DEF ReviseCommits, Run
  <2>. QED
    BY <1>2, <1>17, <2>1 DEF ReviseCommits
<1>18. CASE DecideLinks
  <2>1. mon'.pc = "apply"
    BY <1>1, <1>18 DEF DecideLinks, Run
  <2>. QED
    BY <1>4, <1>18, <2>1 DEF DecideLinks
<1>19. ASSUME NEW l \in mon.todo, ApplyRead(l) PROVE Good
  <2>1. mon.pc = "apply" /\ UNCHANGED pending
    BY <1>19 DEF ApplyRead
  <2>2. mon'.pc \in {"apply", "linkWrite"}
    BY <1>1, <1>19 DEF ApplyRead, Run
  <2>. QED
    BY <1>4, <2>1, <2>2
<1>20. CASE LinkWrite
  <2>1. CASE mon' = MonRest /\ Rollback(Monitor)
    BY <1>2, <2>1 DEF MonRest
  <2>2. CASE mon' = [mon EXCEPT !.pc = "date"] /\ Puts(Monitor, <<mon.d, "sinistre">>, LinkedRow)
             /\ LinkedRow \in SinistreRow
    <3>1. mon'.pc = "date" /\ mon'.d = mon.d /\ mon.pc = "linkWrite"
      BY <1>1, <1>20, <2>2 DEF Run, LinkWrite
    <3>. QED
      BY <1>5, <2>2, <3>1, RowAssumption
  <2>3. CASE /\ mon' = [mon EXCEPT !.pc = "apply", !.held = {}]
             /\ Saves(Monitor, [Nothing EXCEPT ![<<mon.d, "sinistre">>] = LinkedRow])
    <3>1. mon'.pc = "apply"
      BY <1>1, <2>3 DEF Run
    <3>. QED
      BY <1>2, <2>3, <3>1 DEF Saves
  <2>. QED
    BY <1>20, <2>1, <2>2, <2>3, LinkWrites
<1>21. CASE LinkDate
  <2>1. mon'.pc = "apply"
    BY <1>1, <1>21 DEF LinkDate, Run
  <2>. QED
    BY <1>2, <1>21, <2>1 DEF LinkDate, WriteAndCommit
<1>22. CASE LinksDone
  BY <1>4, <1>22 DEF LinksDone, MonRest
<1>23. CASE VictimMonitor
  BY <1>2, <1>13, <1>23 DEF VictimMonitor, MonRest
<1>. QED
  BY <1>6, <1>7, <1>8, <1>9, <1>11, <1>12, <1>14, <1>15, <1>16, <1>17, <1>18, <1>19, <1>20, <1>21,
     <1>22, <1>23 DEF Runs

LEMMA HoldKept == ASSUME IInv, [Next]_vars PROVE HoldInv' /\ MonHold'
<1>1. /\ pending = [p \in Proc |-> pending[p]] /\ req = [r \in Req |-> req[r]]
      /\ Monitor \in Proc /\ \A r \in Req : r \in Proc /\ r # Monitor
  BY ProcAssumption DEF IInv, PendInv, ReqInv, Proc
<1>2. ASSUME NEW r \in Req, Sends(r) \/ Handles(r) PROVE HoldInv' /\ MonHold'
  <2>1. PICK q, rows : /\ req' = [req EXCEPT ![r] = q] /\ pending' = [pending EXCEPT ![r] = rows]
                       /\ HoldOf(q, rows)
    BY <1>2, RequestHolds
  <2>2. \A s \in Req : IF s = r THEN req'[s] = q /\ pending'[s] = rows
                       ELSE req'[s] = req[s] /\ pending'[s] = pending[s]
    BY <1>1, <2>1
  <2>3. ASSUME NEW s \in Req PROVE HoldOf(req'[s], pending'[s])
    BY <2>1, <2>2 DEF IInv, HoldInv
  <2>4. pending'[Monitor] = pending[Monitor] /\ mon' = mon
    BY <1>1, <1>2, <2>1, RequestAlone
  <2>. QED
    BY <2>3, <2>4 DEF HoldInv, HoldOf, IInv, MonHold, Revising
<1>3. CASE Runs
  <2>1. \A s \in Req : req'[s] = req[s] /\ pending'[s] = pending[s]
    BY <1>1, <1>3, RunHolds, RunAlone
  <2>2. HoldInv'
    BY <2>1 DEF IInv, HoldInv, HoldOf
  <2>3. MonHolds(mon', pending'[Monitor])
    BY <1>3, RunHolds
  <2>. QED
    BY <2>2, <2>3 DEF MonHold, MonHolds, Revising, RevisingPcs
<1>4. CASE UNCHANGED <<pending, req, mon>>
  BY <1>4 DEF IInv, HoldInv, HoldOf, MonHold, Revising
<1>. QED
  BY <1>2, <1>3, <1>4 DEF Next, vars, Merge

-----------------------------------------------------------------------------
(* What becomes of a dossier in a step.                                    *)
Mark(d) == db[<<d, "declaration">>].mark

Steady(d) == Row(d)' = Row(d) /\ Mark(d)' = Mark(d)

Starts(d) ==
  \E r \in Req : LET q == req[r] IN
    /\ Insert(r, d) /\ Mark(d)' = None
    /\ Row(d)' = [code |-> q.damage.code, risk |-> q.damage.risk, event |-> q.damage.date,
                  declared |-> None, link |-> q.plan.link, status |-> q.plan.status]

Declares(d) ==
  \E r \in Req : LET q == req[r] IN
    /\ UpdateInsurer(r) /\ q.d = d /\ Open(d) /\ Mark(d)' = q.date
    /\ Row(d)' = [Row(d) EXCEPT !.declared = q.date, !.status = SinistreStatus(q.outcome, q.date)]

Links(d) ==
  /\ LinkWrite \/ LinkDate
  /\ d = mon.d /\ Open(d) /\ Row(d)' = LinkedRow /\ Mark(d)' = Mark(d)

Revises(d) ==
  /\ ReviseCommits /\ Open(d) /\ Mark(d)' = Mark(d)
  /\ LET row == pending[Monitor][<<d, "sinistre">>] IN
     row # None /\ Row(d)' = row /\ row = [Row(d) EXCEPT !.status = row.status]

Ends(d) == Open(d) /\ Row(d)' = Gone

DossierStep(d) == Steady(d) \/ Starts(d) \/ Declares(d) \/ Links(d) \/ Revises(d) \/ Ends(d)

LEMMA OtherRows ==
  ASSUME NEW p, NEW writes, Commit(p, writes), NEW d \in Dossier, RowInv,
         \A part \in {"sinistre", "declaration"} : writes[<<d, part>>] = None
  PROVE  Steady(d)
BY Keys DEF Commit, Steady, Row, Mark, RowInv

LEMMA InsurerSteps ==
  ASSUME IInv, NEW r \in Req, UpdateInsurer(r), NEW d \in Dossier
  PROVE  DossierStep(d)
<1> DEFINE q    == req[r]
           s    == <<q.d, "sinistre">>
           m    == <<q.d, "declaration">>
           k    == <<q.d, "insurer">>
           row  == [db[k] EXCEPT !.planned = InsurerAnchor(q.date, q.published)]
           writes == [pending[r] EXCEPT ![k] = row]
<1>1. /\ q.d \in Dossier /\ Open(q.d) /\ \A part \in Part : IsRow(db[<<q.d, part>>])
      /\ q.pc = "insurer" /\ Commit(r, writes)
  BY Holding, InsurerWrites DEF UpdateInsurer, Saves
<1>2. s \in Key /\ m \in Key /\ k \in Key /\ RowsOf(m) = StepRow
  BY <1>1, Keys DEF RowsOf
<1>3. \A j \in Key : j # k => writes[j] = pending[r][j]
  BY DEF IInv, PendInv, Proc
<1>4. CASE d # q.d
  <2>1. \A part \in {"sinistre", "declaration"} : <<d, part>> \in Key /\ <<d, part>> # k
    BY <1>4, Keys
  <2>2. \A part \in {"sinistre", "declaration"} : pending[r][<<d, part>>] = None
    BY <1>4, <2>1 DEF IInv, HoldInv, HoldOf
  <2>. QED
    BY <1>1, <1>3, <2>1, <2>2, OtherRows DEF IInv, DossierStep
<1>5. CASE d = q.d
  <2>1. pending[r][s] # None /\ pending[r][m] = [db[m] EXCEPT !.mark = q.date]
        /\ pending[r][s] = [Row(q.d) EXCEPT !.declared = q.date, !.status = SinistreStatus(q.outcome, q.date)]
    BY <1>1 DEF IInv, HoldInv, HoldOf, WroteInv
  <2>2. db[m] \in StepRow
    BY <1>1, <1>2, Keys DEF IInv, RowInv, IsRow
  <2>3. q.date \in Declaration \cup {None}
    BY DEF IInv, ReqInv, RequestInv, Request
  <2>4. [db[m] EXCEPT !.mark = q.date] \in StepRow /\ [db[m] EXCEPT !.mark = q.date].mark = q.date
    BY <2>2, <2>3 DEF StepRow
  <2>5. pending[r][m] # None /\ pending[r][m].mark = q.date
    BY <2>1, <2>4, RowAssumption
  <2>6. db'[s] = pending[r][s] /\ db'[m] = pending[r][m]
    BY <1>1, <1>2, <1>3, <2>1, <2>5 DEF Commit
  <2>. QED
    BY <1>1, <1>5, <2>1, <2>5, <2>6 DEF DossierStep, Declares, Row, Mark
<1>. QED
  BY <1>4, <1>5

LEMMA ReviseSteps == ASSUME IInv, ReviseCommits, NEW d \in Dossier PROVE DossierStep(d)
<1> DEFINE s == <<d, "sinistre">>
           m == <<d, "declaration">>
           w == pending[Monitor]
<1>1. Commit(Monitor, w) /\ Revising /\ s \in Key /\ m \in Key /\ Monitor \in Proc
  BY Keys DEF ReviseCommits, Revising, Proc
<1>2. Mark(d)' = Mark(d)
  <2>1. w[m] # None => w[m].mark = Mark(d)
    BY <1>1 DEF IInv, WroteInv, Mark
  <2>. QED
    BY <1>1, <2>1 DEF Commit, Mark
<1>3. CASE w[s] = None
  BY <1>1, <1>2, <1>3 DEF Commit, Row, DossierStep, Steady
<1>4. CASE w[s] # None
  <2>1. Open(d) /\ w[s] = [Row(d) EXCEPT !.status = w[s].status]
    BY <1>1, <1>4 DEF IInv, WroteInv, PendInv, Open, Row
  <2>2. Row(d)' = w[s]
    BY <1>1, <1>4 DEF Commit, Row
  <2>. QED
    BY <1>2, <1>4, <2>1, <2>2 DEF DossierStep, Revises
<1>. QED
  BY <1>3, <1>4

LEMMA LinkSteps == ASSUME IInv, LinkWrite \/ LinkDate, NEW d \in Dossier PROVE DossierStep(d)
<1> DEFINE s == <<mon.d, "sinistre">>
           m == <<mon.d, "declaration">>
<1>1. mon.d \in Dossier /\ s \in Key /\ m \in Key /\ Monitor \in Proc
  BY MonHolding, Keys DEF LinkWrite, LinkDate, LinkingPcs, Proc
<1>2. CASE UNCHANGED db
  BY <1>2 DEF DossierStep, Steady, Row, Mark
<1>3. CASE LinkWrite /\ ~ UNCHANGED db
  <2> DEFINE writes == [Nothing EXCEPT ![s] = LinkedRow]
  <2>1. Open(mon.d) /\ LinkedRow \in SinistreRow /\ Commit(Monitor, writes)
    BY <1>3, LinkWrites DEF Puts, Write, Rollback, Saves
  <2>2. \A j \in Key : writes[j] = IF j = s THEN LinkedRow ELSE None
    BY DEF Nothing
  <2>3. CASE d = mon.d
    <3>1. Row(d)' = LinkedRow /\ db'[m] = db[m]
      BY <1>1, <2>1, <2>2, <2>3, RowAssumption DEF Commit, Row
    <3>2. Links(d)
      BY <1>3, <2>1, <2>3, <3>1 DEF Links, Mark
    <3>. QED
      BY <3>2 DEF DossierStep
  <2>4. CASE d # mon.d
    <3>1. \A part \in {"sinistre", "declaration"} : <<d, part>> \in Key /\ <<d, part>> # s
      BY <2>4, Keys
    <3>2. \A part \in {"sinistre", "declaration"} : writes[<<d, part>>] = None
      BY <2>2, <3>1
    <3>3. Steady(d)
      BY <2>1, <3>2, OtherRows DEF IInv
    <3>. QED
      BY <3>3 DEF DossierStep
  <2>. QED
    BY <2>3, <2>4
<1>4. CASE LinkDate
  <2> DEFINE row == [db[m] EXCEPT !.planned = PublishedOf(mon.link)]
             writes == [pending[Monitor] EXCEPT ![m] = row]
  <2>1. row \in StepRow /\ Commit(Monitor, writes) /\ mon.pc = "date"
    BY <1>4, LinkDates DEF Saves, LinkDate
  <2>2. \A j \in Key : writes[j] = IF j = m THEN row ELSE pending[Monitor][j]
    BY DEF IInv, PendInv, Proc
  <2>3. CASE d = mon.d
    <3>1. pending[Monitor][s] # None /\ pending[Monitor][s] = LinkedRow
      BY <2>1 DEF IInv, MonHold, WroteInv, LinkedRow
    <3>2. Open(d)
      BY <1>1, <2>3, <3>1 DEF IInv, PendInv, Open, Row
    <3>3. db[m] \in StepRow
      <4>1. IsRow(db[m])
        BY <2>3, <3>2, Keys, <1>1 DEF IInv, RowInv, Open, IsRow
      <4>. QED
        BY <1>1, <4>1, Keys DEF IInv, RowInv, IsRow, RowsOf
    <3>4. row.mark = db[m].mark
      BY <3>3 DEF StepRow
    <3>5. Row(d)' = LinkedRow /\ db'[m] = row
      BY <1>1, <2>1, <2>2, <2>3, <3>1, RowAssumption DEF Commit, Row
    <3>. QED
      BY <1>4, <2>3, <3>2, <3>4, <3>5 DEF DossierStep, Links, Mark
  <2>4. CASE d # mon.d
    <3>1. \A part \in {"sinistre", "declaration"} : <<d, part>> \in Key /\ <<d, part>> # m /\ <<d, part>> # s
      BY <2>4, Keys
    <3>2. \A part \in {"sinistre", "declaration"} : pending[Monitor][<<d, part>>] = None
      BY <2>1, <3>1 DEF IInv, MonHold, Revising
    <3>. QED
      BY <2>1, <2>2, <3>1, <3>2, OtherRows DEF IInv, DossierStep
  <2>. QED
    BY <2>3, <2>4
<1>. QED
  BY <1>2, <1>3, <1>4

LEMMA DossierSteps == ASSUME IInv, [Next]_vars, NEW d \in Dossier PROVE DossierStep(d)
<1> USE DEF DossierStep
<1>1. CASE UNCHANGED db
  BY <1>1 DEF Steady, Row, Mark
<1>2. ASSUME NEW r \in Req, StepWrite(r) PROVE DossierStep(d)
  <2>1. CASE Rollback(r)
    BY <1>1, <2>1 DEF Rollback
  <2> DEFINE row == [db[<<req[r].d, "insurer">>] EXCEPT !.mark = req[r].date]
             writes == [Nothing EXCEPT ![<<req[r].d, "insurer">>] = row]
  <2>2. CASE Saves(r, writes)
    <3>1. \A part \in {"sinistre", "declaration"} : writes[<<d, part>>] = None
      BY Keys DEF Nothing
    <3>. QED
      BY <2>2, <3>1, OtherRows DEF Saves, IInv
  <2>. QED
    BY <1>2, <2>1, <2>2, StepWrites
<1>3. ASSUME NEW r \in Req, RemoveCommits(r) PROVE DossierStep(d)
  <2>1. Deletes(r, req[r].d)
    BY <1>3, RemoveDeletes
  <2>2. \A part \in Part : <<d, part>> \in Key
    BY Keys
  <2>3. CASE d = req[r].d
    BY <1>3, <2>1, <2>2, <2>3, Holding, Keys DEF Deletes, Commit, Ends, Row, RemoveCommits
  <2>4. CASE d # req[r].d
    BY <2>1, <2>2, <2>4, OtherRows, Keys DEF Deletes, IInv
  <2>. QED
    BY <2>3, <2>4
<1>4. ASSUME NEW r \in Req, NEW e \in Dossier, Insert(r, e) PROVE DossierStep(d)
  <2> DEFINE rows == Created(req[r], e)
  <2>1. /\ Inserts(r, e, rows) /\ rows[<<e, "declaration">>].mark = None
        /\ rows[<<e, "sinistre">>] =
              [code |-> req[r].damage.code, risk |-> req[r].damage.risk,
               event |-> req[r].damage.date, declared |-> None, link |-> req[r].plan.link,
               status |-> req[r].plan.status]
    BY <1>4, InsertWrites
  <2> HIDE DEF rows
  <2>2. \A part \in Part : <<d, part>> \in Key
    BY Keys
  <2>3. CASE d = e
    <3>1. rows[<<d, "sinistre">>] # None /\ rows[<<d, "declaration">>] # None
      BY <2>1, <2>2, <2>3, Keys DEF Inserts
    <3>2. db'[<<d, "sinistre">>] = rows[<<d, "sinistre">>] /\ db'[<<d, "declaration">>] = rows[<<d, "declaration">>]
      BY <2>1, <2>2, <3>1, Keys DEF Inserts, Commit
    <3>. QED
      BY <1>4, <2>1, <2>3, <3>2 DEF Starts, Row, Mark
  <2>4. CASE d # e
    BY <2>1, <2>2, <2>4, OtherRows, Keys DEF Inserts, IInv
  <2>. QED
    BY <2>3, <2>4
<1>5. ASSUME NEW r \in Req, Sends(r) \/ Handles(r) PROVE DossierStep(d)
  BY <1>1, <1>2, <1>3, <1>4, <1>5, InsurerSteps
  DEF Sends, Create, Send, Handles, Look, PlanDossier, Recheck, Drain, UpdateRead, UpdateStatus,
      UpdateMark, StepRead, RemoveParent, Cascade, VictimRequest, Write, Rollback
<1>6. CASE Runs
  BY <1>1, <1>6, ReviseSteps, LinkSteps
  DEF Runs, Tick, NoText, Publish, Revise, ReviseStatus, ReviseInsurer, ReviseInsurerWrite,
      ReviseDeclaration, ReviseLetter, Recompute, DecideLinks, ApplyRead, LinksDone, VictimMonitor,
      Write, Rollback
<1>. QED
  BY <1>1, <1>5, <1>6 DEF Next, vars, Merge

(* A dossier keeps what it is about: its link moves only with the link     *)
(* pass.                                                                   *)
LEMMA Lasting ==
  ASSUME IInv, [Next]_vars, NEW d \in Dossier
  PROVE  /\ Row(d) # None => Row(d)' # None
         /\ Open(d)' => Row(d) # Gone
         /\ Open(d)' /\ Row(d) # None =>
              /\ Open(d) /\ Row(d)'.code = Row(d).code /\ Row(d)'.risk = Row(d).risk
              /\ Row(d)'.event = Row(d).event
              /\ Row(d)'.link # Row(d).link => mon.pc \in LinkingPcs /\ d = mon.d /\ Row(d)'.link = mon.link
<1>1. DossierStep(d)
  BY DossierSteps
<1>2. RowInv'
  BY StepDb, DbKept DEF IInv
<1>3. ASSUME Open(d) PROVE Row(d) \in SinistreRow
  BY <1>3, Keys DEF IInv, RowInv, Open, Row, IsRow, RowsOf
<1>4. CASE Steady(d)
  BY <1>4 DEF Steady, Open, IsRow
<1>5. CASE Starts(d)
  <2>1. Row(d) = None
    BY <1>5 DEF Starts, Insert
  <2>. QED
    BY <2>1, RowAssumption
<1>6. CASE Declares(d)
  <2>1. PICK r \in Req : /\ Open(d)
           /\ Row(d)' = [Row(d) EXCEPT !.declared = req[r].date,
                                       !.status = SinistreStatus(req[r].outcome, req[r].date)]
           /\ req[r] \in Request(req[r].codes)
    BY <1>6 DEF Declares, IInv, ReqInv, RequestInv
  <2>2. Row(d)' \in SinistreRow
    BY <1>3, <2>1, StatusType DEF SinistreRow, Request, Statuses
  <2>. QED
    BY <1>3, <2>1, <2>2, RowAssumption DEF SinistreRow, Open, IsRow
<1>7. CASE Links(d)
  <2>1. Row(d)' = [Row(d) EXCEPT !.link = mon.link, !.status = mon.status] /\ Open(d) /\ d = mon.d
    BY <1>7 DEF Links, LinkedRow
  <2>2. mon.pc \in LinkingPcs
    BY <1>7 DEF Links, LinkWrite, LinkDate, LinkingPcs
  <2>3. mon.link \in Entry /\ mon.status \in Statuses
    BY <2>2 DEF IInv, MonInv, RunInv
  <2>4. Row(d)' \in SinistreRow
    BY <1>3, <2>1, <2>3 DEF SinistreRow, Statuses
  <2>. QED
    BY <1>3, <2>1, <2>2, <2>4, RowAssumption DEF SinistreRow, Open, IsRow
<1>8. CASE Revises(d)
  <2>1. PICK status : Row(d)' = [Row(d) EXCEPT !.status = status] /\ Open(d)
    BY <1>8 DEF Revises
  <2>2. Row(d)' # None
    BY <1>8 DEF Revises
  <2>. QED
    BY <1>3, <2>1, <2>2 DEF SinistreRow, Open, IsRow
<1>9. CASE Ends(d)
  BY <1>9, RowAssumption DEF Ends, Open, IsRow
<1>. QED
  BY <1>1, <1>4, <1>5, <1>6, <1>7, <1>8, <1>9 DEF DossierStep

LEMMA Appears ==
  ASSUME IInv, [Next]_vars, NEW d \in Dossier, Row(d) = None, Row(d)' # None
  PROVE  Starts(d)
<1>1. DossierStep(d)
  BY DossierSteps
<1>2. ~ Open(d)
  BY DEF Open, IsRow
<1>3. ~ Steady(d)
  BY DEF Steady
<1>4. ~ Declares(d) /\ ~ Links(d) /\ ~ Revises(d) /\ ~ Ends(d)
  BY <1>2 DEF Declares, Links, Revises, Ends
<1>. QED
  BY <1>1, <1>3, <1>4 DEF DossierStep

-----------------------------------------------------------------------------
(* The store of the JO only grows.                                         *)
LEMMA ArreteSteps ==
  ASSUME IInv, [Next]_vars
  PROVE  \/ UNCHANGED arretes
         \/ Stored /\ ingested < Len(texts) /\ (Publish \/ ReviseCommits)
<1>1. CASE UNCHANGED vars
  BY <1>1 DEF vars, arretes
<1>2. ASSUME NEW r \in Req, Sends(r) \/ Handles(r) PROVE UNCHANGED arretes
  BY <1>2, RequestAlone
<1>3. ASSUME Runs, ~ Publish, ~ ReviseCommits PROVE UNCHANGED arretes
  BY <1>3 DEF Runs, Tick, NoText, Revise, ReviseStatus, ReviseInsurer, ReviseInsurerWrite,
     ReviseDeclaration, ReviseLetter, Recompute, DecideLinks, LinkWrite, LinkDate,
     LinksDone, ApplyRead, VictimMonitor, Alone
<1>4. ASSUME NEW c, Merge(c) PROVE UNCHANGED arretes
  BY <1>4 DEF Merge
<1>5. CASE ReviseCommits
  <2>1. ingested < Len(texts)
    BY <1>5 DEF ReviseCommits, IInv, MonInv, RunInv, RevisingPcs
  <2>. QED
    BY <1>5, <2>1 DEF ReviseCommits
<1>6. CASE Publish
  BY <1>6 DEF Publish
<1>. QED
  BY <1>1, <1>2, <1>3, <1>4, <1>5, <1>6 DEF Next

LEMMA StoredLines ==
  ASSUME IInv, Stored, ingested < Len(texts)
  PROVE  /\ ingested' = ingested + 1 /\ entry' = [e \in Entry |-> entry'[e]]
         /\ \A e \in Entry : entry'[e] = IF NextText.lines[e] # None THEN NextText.lines[e] ELSE entry[e]
         /\ ArreteInv'
<1>1. /\ ingested' = ingested + 1 /\ entry' = [e \in Entry |-> entry'[e]]
      /\ \A e \in Entry : entry'[e] = IF NextText.lines[e] # None THEN NextText.lines[e] ELSE entry[e]
  BY DEF Stored
<1>2. /\ NextText.arrete \in Arrete /\ NextText.date \in Int
      /\ \A e \in Entry : NextText.lines[e] # None =>
           /\ arreteOf[e] = NextText.arrete /\ NextText.lines[e].outcome \in Outcomes
           /\ NextText.lines[e].start \in Int /\ NextText.lines[e].end \in Int
  BY NextTyped DEF IInv
<1>3. publishedAt' = [publishedAt EXCEPT ![NextText.arrete] = NextText.date]
  BY DEF Stored
<1>4. publishedAt' \in [Arrete -> Day]
  BY <1>2, <1>3 DEF IInv, ArreteInv, Day
<1>5. \A a \in Arrete : publishedAt'[a] = IF a = NextText.arrete THEN NextText.date ELSE publishedAt[a]
  BY <1>3 DEF IInv, ArreteInv
<1>6. \A e \in Entry : entry'[e] # None => publishedAt'[arreteOf[e]] # None
  BY <1>1, <1>2, <1>5, EntryAssumption, DayAssumption DEF IInv, ArreteInv
<1>7. \A e \in Entry : entry'[e] # None =>
        entry'[e].outcome \in Outcomes /\ entry'[e].start \in Int /\ entry'[e].end \in Int
  BY <1>1, <1>2 DEF IInv, ArreteInv
<1>8. ingested' \in 0 .. Len(texts)
  BY <1>1, TextCount DEF IInv, ArreteInv
<1>. QED
  BY <1>1, <1>4, <1>6, <1>7, <1>8 DEF ArreteInv

LEMMA Growing ==
  ASSUME IInv, [Next]_vars
  PROVE  /\ ArreteInv'
         /\ \A e \in Entry : entry[e] # None => entry'[e] # None
         /\ ingested <= ingested'
         /\ ingested' = ingested => UNCHANGED entry
<1>1. ingested \in Nat
  BY TextCount DEF IInv, ArreteInv
<1>2. CASE UNCHANGED arretes
  BY <1>1, <1>2 DEF arretes, IInv, ArreteInv
<1>3. CASE Stored /\ ingested < Len(texts)
  BY <1>1, <1>3, StoredLines
<1>. QED
  BY <1>2, <1>3, ArreteSteps

LEMMA RequestLasts ==
  ASSUME IInv, [Next]_vars, NEW q, RequestInv(q)
  PROVE  RequestInv(q)'
<1>1. ingested \in Nat /\ ingested' \in Nat /\ \A p \in Plan : p.at \in Nat
  BY TextCount, Growing DEF IInv, ArreteInv, Plan
<1>2. q \in Request(q.codes)
  BY DEF RequestInv
<1>3. ASSUME q.pc \in {"lock", "insert"}
      PROVE  /\ q.plan \in Plan /\ Stands(q.plan.link)' /\ q.plan.at <= ingested'
             /\ q.plan.at = ingested' =>
                  q.plan.status = SinistreStatus(OutcomeOf(q.plan.link)', None)
  <2>1. /\ q.plan \in Plan /\ Stands(q.plan.link) /\ q.plan.at <= ingested
        /\ q.plan.at = ingested => q.plan.status = SinistreStatus(OutcomeOf(q.plan.link), None)
    BY <1>3 DEF RequestInv
  <2>2. Stands(q.plan.link)' /\ q.plan.at <= ingested'
    BY <1>1, <2>1, Growing DEF Stands
  <2>3. ASSUME q.plan.at = ingested'
        PROVE  q.plan.status = SinistreStatus(OutcomeOf(q.plan.link)', None)
    <3>1. q.plan.at = ingested /\ entry' = entry
      BY <1>1, <2>1, <2>3, Growing
    <3>. QED
      BY <2>1, <3>1 DEF OutcomeOf
  <2>. QED
    BY <2>1, <2>2, <2>3
<1>4. ASSUME q.pc \notin Creating \cup {"idle"} PROVE q.d \in Dossier /\ Row(q.d)' # None
  BY <1>4, Lasting DEF RequestInv
<1>. QED
  BY <1>2, <1>3, <1>4 DEF RequestInv

LEMMA ReqKept == ASSUME IInv, [Next]_vars PROVE ReqInv'
<1>1. req = [r \in Req |-> req[r]] /\ \A r \in Req : RequestInv(req[r])
  BY DEF IInv, ReqInv
<1>2. ASSUME NEW r \in Req, Sends(r) \/ Handles(r) PROVE ReqInv'
  <2>1. PICK q : req' = [req EXCEPT ![r] = q] /\ RequestInv(q)
    BY <1>2, RequestMoves
  <2>2. ASSUME NEW s \in Req PROVE \A x : x = req'[s] => RequestInv(x)'
    BY <1>1, <2>1, RequestLasts
  <2>3. \A s \in Req : RequestInv(req[s])'
    BY <2>2
  <2>. QED
    BY <1>1, <2>1, <2>3 DEF ReqInv
<1>3. CASE UNCHANGED req
  <2>1. ASSUME NEW s \in Req PROVE \A x : x = req'[s] => RequestInv(x)'
    BY <1>1, <1>3, RequestLasts
  <2>2. \A s \in Req : RequestInv(req[s])'
    BY <2>1
  <2>. QED
    BY <1>1, <1>3, <2>2 DEF ReqInv
<1>. QED
  BY <1>2, <1>3, RunAlone DEF Next, vars, Merge

(* While the monitor revises, the store stays as it was read.              *)
LEMMA RevisingStays ==
  ASSUME IInv, [Next]_vars, mon'.pc \in RevisingPcs
  PROVE  UNCHANGED arretes /\ mon.pc \notin LinkingPcs
<1> USE DEF RevisingPcs, LinkingPcs, Monitors, Goes
<1>1. mon \in Run(mon.succ, mon.todo, mon.letters)
  BY DEF IInv, MonInv, RunInv
<1>2. ASSUME NEW pc, mon' = [mon EXCEPT !.pc = pc] PROVE mon'.pc = pc
  BY <1>1, <1>2 DEF Run
<1>3. ~ Publish /\ ~ ReviseCommits
  <2>1. ASSUME ReviseCommits PROVE FALSE
    <3>1. mon'.pc = "link"
      BY <1>1, <2>1 DEF ReviseCommits, Run
    <3>. QED
      BY <3>1
  <2>. QED
    BY <1>2, <2>1 DEF Publish
<1>4. UNCHANGED arretes
  BY <1>3, ArreteSteps
<1>5. CASE UNCHANGED mon
  BY <1>4, <1>5
<1>6. CASE Runs
  <2>1. ASSUME LinkWrite PROVE mon'.pc \in {"date", "apply", "idle"}
    <3>1. \/ mon' = MonRest \/ mon' = [mon EXCEPT !.pc = "date"]
          \/ mon' = [mon EXCEPT !.pc = "apply", !.held = {}]
      BY <2>1, LinkWrites
    <3>2. MonRest.pc = "idle"
      BY DEF MonRest
    <3>3. [mon EXCEPT !.pc = "apply", !.held = {}].pc = "apply"
      BY <1>1 DEF Run
    <3>. QED
      BY <1>2, <3>1, <3>2, <3>3
  <2>2. ASSUME LinkDate PROVE mon'.pc = "apply"
    BY <1>1, <2>2 DEF LinkDate, Run
  <2>3. ASSUME VictimMonitor, mon.pc \in LinkingPcs PROVE mon'.pc = "idle"
    BY <2>3 DEF VictimMonitor, Revising, MonRest
  <2>4. ASSUME mon.pc \in LinkingPcs PROVE LinkWrite \/ LinkDate \/ VictimMonitor
    <3>1. ~ Tick /\ ~ NoText /\ ~ Publish /\ ~ Revise
      BY <2>4 DEF Tick, NoText, Publish, Revise
    <3>4. ~ LinksDone
      BY <2>4 DEF LinksDone
    <3>5. ~ DecideLinks
      <4>1. DecideLinks => mon.pc = "link"
        BY Zenon DEF DecideLinks
      <4>. QED
        BY <2>4, <4>1
    <3>2. /\ ~ ReviseStatus /\ ~ ReviseInsurer /\ ~ ReviseInsurerWrite /\ ~ ReviseDeclaration
          /\ ~ ReviseLetter /\ ~ ReviseCommits
      BY <2>4 DEF ReviseStatus, ReviseInsurer, ReviseInsurerWrite, ReviseDeclaration, ReviseLetter,
         ReviseCommits
    <3>3. ASSUME NEW d, Recompute(d) PROVE FALSE
      BY <2>4, <3>3 DEF Recompute
    <3>6. ASSUME NEW l, ApplyRead(l) PROVE FALSE
      BY <2>4, <3>6 DEF ApplyRead
    <3>. QED
      BY <1>6, <3>1, <3>2, <3>3, <3>4, <3>5, <3>6 DEF Runs
  <2>5. mon.pc \notin LinkingPcs
    BY <2>1, <2>2, <2>3, <2>4
  <2>. QED
    BY <1>4, <2>5
<1>. QED
  BY <1>5, <1>6, RequestAlone DEF Next, vars, Merge

LEMMA MonKept == ASSUME IInv, [Next]_vars PROVE MonInv'
<1>1. PICK m : mon' = m /\ RunInv(m)
  <2>1. CASE Runs
    BY <2>1, RunMoves
  <2>2. CASE UNCHANGED mon
    BY <2>2 DEF IInv, MonInv
  <2>. QED
    BY <2>1, <2>2, RequestAlone DEF Next, vars, Merge
<1>2. m \in Run(m.succ, m.todo, m.letters) /\ m.held \subseteq Dossier
  BY <1>1 DEF RunInv, Run
<1>3. ASSUME m.pc \in RevisingPcs
      PROVE  /\ (ingested < Len(texts))' /\ (publishedAt[NextText.arrete] # None)'
             /\ m.todo \subseteq Dossier
             /\ \A d \in m.todo \cup m.held : (Row(d) # None /\ (Open(d) => Printed(d)))'
  <2>1. UNCHANGED arretes /\ mon.pc \notin LinkingPcs
    BY <1>1, <1>3, RevisingStays
  <2>2. /\ ingested < Len(texts) /\ publishedAt[NextText.arrete] # None
        /\ m.todo \subseteq Dossier
        /\ \A d \in m.todo \cup m.held : Row(d) # None /\ (Open(d) => Printed(d))
    BY <1>1, <1>3 DEF RunInv
  <2>3. (ingested < Len(texts))' /\ (publishedAt[NextText.arrete] # None)'
    BY <2>1, <2>2 DEF arretes, NextText
  <2>4. ASSUME NEW d \in m.todo \cup m.held PROVE (Row(d) # None /\ (Open(d) => Printed(d)))'
    <3>1. d \in Dossier /\ Row(d) # None /\ (Open(d) => Printed(d))
      BY <1>2, <2>2
    <3>2. Row(d)' # None /\ (Open(d)' => Open(d) /\ Row(d)'.link = Row(d).link)
      BY <2>1, <3>1, Lasting
    <3>. QED
      BY <2>1, <3>1, <3>2 DEF Printed, NextText, arretes
  <2>. QED
    BY <2>2, <2>3, <2>4
<1>4. \A d \in m.held : (Row(d) # None)'
  BY <1>1, <1>2, Lasting DEF RunInv
<1>5. ASSUME m.pc \in {"apply"} \cup LinkingPcs, NEW l \in m.todo
      PROVE  /\ l.d \in Dossier /\ (Row(l.d) # None)'
             /\ l.e \in Entry /\ (entry[l.e] # None)'
  <2>1. l.d \in Dossier /\ Row(l.d) # None /\ l.e \in Entry /\ entry[l.e] # None
    BY <1>1, <1>5 DEF RunInv
  <2>. QED
    BY <2>1, Lasting, Growing
<1>6. ASSUME m.pc \in LinkingPcs PROVE (entry[m.link] # None)'
  BY <1>1, <1>6, Growing DEF RunInv
<1>7. RunInv(m)'
  BY <1>1, <1>2, <1>3, <1>4, <1>5, <1>6 DEF RunInv
<1>. QED
  BY <1>1, <1>7 DEF MonInv

LEMMA LinkKept == ASSUME IInv, [Next]_vars PROVE LinkInv'
<1> SUFFICES ASSUME NEW d \in Dossier, Open(d)' PROVE Stands(Row(d).link)'
  BY DEF LinkInv
<1>1. ASSUME NEW e, Stands(e) PROVE Stands(e)'
  BY <1>1, Growing DEF Stands
<1>2. CASE Row(d) # None
  <2>1. Open(d) /\ (Row(d)'.link # Row(d).link => mon.pc \in LinkingPcs /\ Row(d)'.link = mon.link)
    BY <1>2, Lasting
  <2>2. Stands(Row(d)'.link)
    BY <2>1 DEF IInv, LinkInv, MonInv, RunInv, Stands
  <2>3. \A e : e = Row(d)'.link => Stands(e)'
    BY <1>1, <2>2
  <2>. QED
    BY <2>3
<1>3. CASE Row(d) = None
  <2>1. Starts(d)
    BY <1>3, Appears DEF Open, IsRow
  <2>2. PICK r \in Req : req[r].pc = "insert" /\ Row(d)'.link = req[r].plan.link
    BY <2>1 DEF Starts, Insert
  <2>3. Stands(Row(d)'.link)
    BY <2>2 DEF IInv, ReqInv, RequestInv
  <2>4. \A e : e = Row(d)'.link => Stands(e)'
    BY <1>1, <2>3
  <2>. QED
    BY <2>4
<1>. QED
  BY <1>2, <1>3

-----------------------------------------------------------------------------
(* The steps after which a request is about to insert, or is updating.     *)
LEMMA Arrives ==
  ASSUME IInv, NEW r \in Req, Sends(r) \/ Handles(r), req'[r].pc \in Updating \cup {"insert"}
  PROVE  Recheck(r) \/ Drain(r) \/ UpdateRead(r) \/ UpdateStatus(r) \/ UpdateMark(r)
<1> SUFFICES ASSUME ~ Recheck(r), ~ Drain(r), ~ UpdateRead(r), ~ UpdateStatus(r), ~ UpdateMark(r)
             PROVE  FALSE
  OBVIOUS
<1> USE DEF Updating
<1>1. req[r] \in Request(req[r].codes) /\ req = [s \in Req |-> req[s]] /\ Rest.pc = "idle"
  BY DEF IInv, ReqInv, RequestInv, Rest
<1>2. \A q : Steps(r, q) => req'[r] = q
  BY <1>1 DEF Steps
<1>3. ~ Done(r)
  BY <1>1, <1>2 DEF Done
<1>4. \A pc : [req[r] EXCEPT !.pc = pc].pc = pc
  BY <1>1 DEF Request
<1>5. CASE Sends(r)
  <2>1. ASSUME NEW q, Send(r, q), q.pc = "read" PROVE FALSE
    BY <1>2, <2>1 DEF Send
  <2>2. ASSUME NEW damage, NEW confirmed, NEW outer, Create(r, damage, confirmed, outer) PROVE FALSE
    <3> DEFINE q == [Rest EXCEPT !.pc = IF outer THEN "outer" ELSE "look", !.kind = "create",
                                 !.damage = damage, !.confirmed = confirmed]
    <3>1. q.pc \in {"outer", "look"}
      BY DEF Rest
    <3>2. Steps(r, q)
      BY <2>2 DEF Create
    <3> HIDE DEF q
    <3>. QED
      BY <1>2, <3>1, <3>2
  <2>3. ASSUME NEW d, NEW date,
               Send(r, [Rest EXCEPT !.pc = "read", !.kind = "update", !.d = d, !.date = date])
        PROVE  FALSE
    BY <2>1, <2>3 DEF Rest
  <2>4. ASSUME NEW d, NEW mark, NEW part,
               Send(r, [Rest EXCEPT !.pc = "read", !.kind = "step", !.d = d, !.part = part, !.date = mark])
        PROVE  FALSE
    BY <2>1, <2>4 DEF Rest
  <2>5. ASSUME NEW d, Send(r, [Rest EXCEPT !.pc = "read", !.kind = "remove", !.d = d]) PROVE FALSE
    BY <2>1, <2>5 DEF Rest
  <2>. QED
    BY <1>5, <2>2, <2>3, <2>4, <2>5 DEF Sends
<1>6. CASE Look(r)
  <2>1. \A codes : [req[r] EXCEPT !.pc = "plan", !.codes = codes].pc = "plan"
    BY <1>1 DEF Request
  <2>. QED
    BY <1>2, <1>3, <1>6, <2>1 DEF Look
<1>7. CASE PlanDossier(r)
  <2>1. \A plan : [req[r] EXCEPT !.pc = "lock", !.plan = plan].pc = "lock"
    BY <1>1 DEF Request
  <2>. QED
    BY <1>2, <1>3, <1>7, <2>1 DEF PlanDossier
<1>8. CASE UpdateInsurer(r) \/ StepRead(r) \/ StepWrite(r)
  BY <1>2, <1>3, <1>4, <1>8 DEF UpdateInsurer, StepRead, StepWrite
<1>9. CASE RemoveParent(r) \/ RemoveCommits(r)
  BY <1>2, <1>3, <1>4, <1>9 DEF RemoveParent, RemoveCommits
<1>10. ASSUME NEW part \in Part, Cascade(r, part) PROVE FALSE
  <2>1. req'[r] = req[r] /\ req[r].pc = "cascade"
    BY <1>10 DEF Cascade
  <2>. QED
    BY <2>1
<1>11. CASE VictimRequest(r) \/ \E d \in Dossier : Insert(r, d)
  BY <1>3, <1>11 DEF VictimRequest, Insert
<1>. QED
  BY <1>5, <1>6, <1>7, <1>8, <1>9, <1>10, <1>11 DEF Handles

(* Twins: one request at a time has looked for a twin and not yet written. *)
LEMMA Inserters ==
  ASSUME IInv, NEW r \in Req, Sends(r) \/ Handles(r), req'[r].pc = "insert"
  PROVE  /\ Inserting = {} /\ UNCHANGED db
         /\ ~ StandsInTheWay(req'[r].codes, req'[r].damage, req'[r].confirmed)
<1>1. req[r] \in Request(req[r].codes) /\ req = [s \in Req |-> req[s]] /\ Rest.pc = "idle"
  BY DEF IInv, ReqInv, RequestInv, Rest
<1>2. \A q : Steps(r, q) => req'[r] = q
  BY <1>1 DEF Steps
<1>3. ~ Done(r)
  BY <1>1, <1>2 DEF Done
<1>4. \A pc : [req[r] EXCEPT !.pc = pc].pc = pc
  BY <1>1 DEF Request
<1>5. CASE Recheck(r)
  <2> DEFINE q == [req[r] EXCEPT !.pc = "insert"]
  <2>1. /\ Inserting = {} /\ Steps(r, q) /\ UNCHANGED db
        /\ ~ StandsInTheWay(req[r].codes, req[r].damage, req[r].confirmed)
    BY <1>3, <1>5 DEF Recheck
  <2>2. q.codes = req[r].codes /\ q.damage = req[r].damage /\ q.confirmed = req[r].confirmed
    BY <1>1 DEF Request
  <2>. QED
    BY <1>2, <2>1, <2>2
<1>6. CASE Drain(r)
  <2>1. PICK e : /\ Inserting = {} /\ UNCHANGED db
                 /\ Steps(r, [req[r] EXCEPT !.pc = "insert", !.codes = Codes(req[r].damage),
                                            !.plan = Planned(e)])
                 /\ ~ StandsInTheWay(Codes(req[r].damage), req[r].damage, req[r].confirmed)
    BY <1>3, <1>6 DEF Drain
  <2> DEFINE q == [req[r] EXCEPT !.pc = "insert", !.codes = Codes(req[r].damage), !.plan = Planned(e)]
  <2>2. /\ q.codes = Codes(req[r].damage) /\ q.damage = req[r].damage
        /\ q.confirmed = req[r].confirmed
    BY <1>1 DEF Request
  <2>3. req'[r] = q
    BY <1>2, <2>1
  <2> HIDE DEF q
  <2>. QED
    BY <2>1, <2>2, <2>3
<1>7. CASE UpdateRead(r)
  <2>1. \A x, y : [req[r] EXCEPT !.pc = "status", !.outcome = x, !.published = y].pc = "status"
    BY <1>1 DEF Request
  <2>2. \E x, y : Steps(r, [req[r] EXCEPT !.pc = "status", !.outcome = x, !.published = y])
    BY <1>3, <1>7 DEF UpdateRead
  <2>. QED
    BY <1>2, <2>1, <2>2
<1>8. CASE UpdateStatus(r) \/ UpdateMark(r)
  BY <1>2, <1>3, <1>4, <1>8 DEF UpdateStatus, UpdateMark
<1>. QED
  BY <1>5, <1>6, <1>7, <1>8, Arrives

LEMMA Inserted ==
  ASSUME IInv, NEW r \in Req, NEW d \in Dossier, Insert(r, d)
  PROVE  req[r].pc = "insert" /\ req'[r].pc = "idle" /\ \A s \in Req \ {r} : req'[s] = req[s]
BY DEF IInv, ReqInv, Insert, Done, Steps, Rest

(* The rows that stand in the way are there, or have just been written by  *)
(* the request that was inserting.                                         *)
LEMMA StillStands ==
  ASSUME IInv, [Next]_vars, NEW codes, NEW damage, NEW confirmed,
         ~ StandsInTheWay(codes, damage, confirmed),
         \A d \in Dossier : ~ Starts(d)
  PROVE  ~ StandsInTheWay(codes, damage, confirmed)'
<1> SUFFICES ASSUME NEW d \in Dossier, Open(d)', Row(d)'.code \in codes, Row(d)'.risk = damage.risk,
                    Row(d)'.event = damage.date \/ ~ confirmed
             PROVE  FALSE
  BY DEF StandsInTheWay, Others
<1>1. Row(d) # None
  BY Appears DEF Open, IsRow
<1>2. /\ Open(d) /\ Row(d)'.code = Row(d).code /\ Row(d)'.risk = Row(d).risk
      /\ Row(d)'.event = Row(d).event
  BY <1>1, Lasting
<1>. QED
  BY <1>2 DEF StandsInTheWay, Others

LEMMA TwinKept == ASSUME IInv, [Next]_vars PROVE TwinInv'
<1>1. \A r, s \in Inserting : r = s
  BY DEF IInv, TwinInv
<1>2. \A r \in Inserting : ~ StandsInTheWay(req[r].codes, req[r].damage, req[r].confirmed)
  BY DEF IInv, TwinInv
<1>3. ASSUME NEW r \in Req, Sends(r) \/ Handles(r) PROVE TwinInv'
  <2>1. \A s \in Req \ {r} : req'[s] = req[s]
    <3>1. PICK q : req' = [req EXCEPT ![r] = q]
      BY <1>3, RequestMoves
    <3>. QED
      BY <3>1 DEF IInv, ReqInv
  <2>2. CASE req'[r].pc = "insert"
    <3>1. /\ Inserting = {} /\ UNCHANGED db
          /\ ~ StandsInTheWay(req'[r].codes, req'[r].damage, req'[r].confirmed)
      BY <1>3, <2>2, Inserters
    <3>2. \A s \in Inserting' : s = r
      BY <2>1, <3>1 DEF Inserting
    <3>3. \A codes, damage, confirmed :
            StandsInTheWay(codes, damage, confirmed)' = StandsInTheWay(codes, damage, confirmed)
      BY <3>1 DEF StandsInTheWay, Others, Open, Row
    <3>4. \A codes, damage, confirmed :
            codes = req'[r].codes /\ damage = req'[r].damage /\ confirmed = req'[r].confirmed
              => ~ StandsInTheWay(codes, damage, confirmed)'
      BY <3>1, <3>3
    <3>. QED
      BY <3>2, <3>4 DEF TwinInv
  <2>3. CASE req'[r].pc # "insert"
    <3>1. Inserting' \subseteq Inserting
      BY <2>1, <2>3 DEF Inserting
    <3>2. ASSUME NEW s \in Inserting'
          PROVE  \A codes, damage, confirmed :
                   codes = req'[s].codes /\ damage = req'[s].damage /\ confirmed = req'[s].confirmed
                     => ~ StandsInTheWay(codes, damage, confirmed)'
      <4>1. s \in Inserting /\ s # r /\ req'[s] = req[s]
        BY <2>1, <2>3, <3>1 DEF Inserting
      <4>2. ASSUME NEW d \in Dossier PROVE ~ Starts(d)
        <5>1. ASSUME NEW t \in Req, Insert(t, d) PROVE FALSE
          <6>1. t \in Inserting /\ req'[t].pc = "idle"
            BY <5>1, Inserted DEF Inserting
          <6>2. t = s
            BY <1>1, <4>1, <6>1
          <6>. QED
            BY <6>1, <6>2 DEF Inserting
        <5>. QED
          BY <5>1 DEF Starts
      <4>. QED
        BY <1>2, <4>1, <4>2, StillStands
    <3>. QED
      BY <1>1, <3>1, <3>2 DEF TwinInv
  <2>. QED
    BY <2>2, <2>3
<1>4. CASE UNCHANGED req
  <2>1. ASSUME NEW d \in Dossier PROVE ~ Starts(d)
    BY <1>4, Inserted DEF Starts
  <2>2. ASSUME NEW s \in Inserting'
        PROVE  \A codes, damage, confirmed :
                 codes = req'[s].codes /\ damage = req'[s].damage /\ confirmed = req'[s].confirmed
                   => ~ StandsInTheWay(codes, damage, confirmed)'
    BY <1>2, <1>4, <2>1, StillStands DEF Inserting
  <2>. QED
    BY <1>1, <1>4, <2>2 DEF TwinInv, Inserting
<1>. QED
  BY <1>3, <1>4, RunAlone DEF Next, vars, Merge

-----------------------------------------------------------------------------
(* What is written stays as written until its transaction ends.            *)
LEMMA LockedStays ==
  ASSUME IInv, [Next]_vars, NEW p \in Proc, NEW k \in Key, pending[p][k] # None, pending'[p] = pending[p]
  PROVE  db'[k] = db[k]
<1>1. IsRow(db[k]) /\ \A q \in Proc \ {p} : pending[q][k] = None
  BY DEF IInv, PendInv, Locked
<1>2. ASSUME NEW q, pending' = [pending EXCEPT ![q] = Nothing], q \in Proc PROVE q # p
  <2>1. pending'[q] = Nothing
    BY <1>2 DEF IInv, PendInv
  <2>. QED
    BY <2>1 DEF Nothing
<1>3. CASE UNCHANGED db
  BY <1>3
<1>4. ASSUME NEW q, NEW writes, Saves(q, writes) PROVE db'[k] = db[k]
  <2>1. q # p /\ q \in Proc
    BY <1>2, <1>4 DEF Saves, Commit
  <2>2. writes[k] = None
    BY <1>4, <2>1 DEF Saves, Locked
  <2>. QED
    BY <1>4, <2>2 DEF Saves, Commit
<1>5. ASSUME NEW q, NEW d, Deletes(q, d) PROVE db'[k] = db[k]
  <2>1. q # p /\ q \in Proc
    BY <1>2, <1>5 DEF Deletes, Commit
  <2>. QED
    BY <1>1, <1>5, <2>1 DEF Deletes, Commit
<1>6. ASSUME NEW q, NEW d, NEW rows, Inserts(q, d, rows) PROVE db'[k] = db[k]
  <2>1. Row(k[1]) # None
    BY <1>1, Keys DEF IInv, RowInv, IsRow
  <2>2. k[1] # d
    BY <1>6, <2>1 DEF Inserts
  <2>. QED
    BY <1>1, <1>6, <2>2 DEF Inserts, Commit
<1>. QED
  BY <1>3, <1>4, <1>5, <1>6, StepDb DEF DbStep, Rollback, Puts, Write

RequestWrote(q, rows) ==
  /\ q.pc \in {"mark", "insurer"} =>
       rows[<<q.d, "sinistre">>] =
         [Row(q.d) EXCEPT !.declared = q.date, !.status = SinistreStatus(q.outcome, q.date)]
  /\ q.pc = "insurer" =>
       rows[<<q.d, "declaration">>] = [db[<<q.d, "declaration">>] EXCEPT !.mark = q.date]

LEMMA RequestWrites ==
  ASSUME IInv, NEW r \in Req, Sends(r) \/ Handles(r), req'[r].pc \in {"mark", "insurer"}
  PROVE  UNCHANGED db /\ RequestWrote(req'[r], pending'[r])
<1>1. /\ req[r] \in Request(req[r].codes) /\ req = [s \in Req |-> req[s]] /\ Rest.pc = "idle"
      /\ pending = [p \in Proc |-> pending[p]] /\ pending[r] = [k \in Key |-> pending[r][k]]
      /\ RequestWrote(req[r], pending[r])
  BY DEF IInv, ReqInv, RequestInv, Rest, PendInv, Proc, WroteInv, RequestWrote
<1>2. \A q : Steps(r, q) => req'[r] = q
  BY <1>1 DEF Steps
<1>3. ~ Done(r)
  BY <1>1, <1>2 DEF Done
<1>4. \A pc : LET q == [req[r] EXCEPT !.pc = pc]
              IN q.pc = pc /\ q.d = req[r].d /\ q.date = req[r].date /\ q.outcome = req[r].outcome
  BY <1>1 DEF Request
<1>5. CASE UpdateStatus(r)
  <2> DEFINE d   == req[r].d
             k   == <<d, "sinistre">>
             row == [Row(d) EXCEPT !.declared = req[r].date,
                                   !.status = SinistreStatus(req[r].outcome, req[r].date)]
  <2>1. Puts(r, k, row) /\ Steps(r, [req[r] EXCEPT !.pc = "mark"])
    BY <1>3, <1>5, StatusWrites DEF UpdateStatus, Open, Row
  <2>2. pending'[r][k] = row /\ UNCHANGED db
    BY <1>1, <2>1 DEF Puts, Write
  <2> DEFINE q == [req[r] EXCEPT !.pc = "mark"]
  <2>3. req'[r] = q /\ q.pc = "mark" /\ q.d = d /\ q.date = req[r].date /\ q.outcome = req[r].outcome
    BY <1>2, <1>4, <2>1
  <2> HIDE DEF q
  <2>4. RequestWrote(q, pending'[r])
    BY <2>2, <2>3 DEF RequestWrote
  <2>. QED
    BY <2>2, <2>3, <2>4
<1>6. CASE UpdateMark(r)
  <2> DEFINE d   == req[r].d
             k   == <<d, "declaration">>
             row == [db[k] EXCEPT !.mark = req[r].date]
  <2>1. Puts(r, k, row) /\ Steps(r, [req[r] EXCEPT !.pc = "insurer"]) /\ req[r].pc = "mark"
    BY <1>6, MarkWrites DEF UpdateMark
  <2>2. pending'[r][k] = row /\ UNCHANGED db /\ pending'[r][<<d, "sinistre">>] = pending[r][<<d, "sinistre">>]
    BY <1>1, <2>1, Keys DEF Puts, Write
  <2> DEFINE q == [req[r] EXCEPT !.pc = "insurer"]
  <2>3. /\ req'[r] = q /\ q.pc = "insurer" /\ q.d = d /\ q.date = req[r].date
        /\ q.outcome = req[r].outcome
    BY <1>2, <1>4, <2>1
  <2> HIDE DEF q
  <2>4. RequestWrote(q, pending'[r])
    BY <1>1, <2>1, <2>2, <2>3 DEF RequestWrote
  <2>. QED
    BY <2>2, <2>3, <2>4
<1>7. CASE UpdateRead(r)
  <2>1. \A x, y : [req[r] EXCEPT !.pc = "status", !.outcome = x, !.published = y].pc = "status"
    BY <1>1 DEF Request
  <2>2. \E x, y : Steps(r, [req[r] EXCEPT !.pc = "status", !.outcome = x, !.published = y])
    BY <1>3, <1>7 DEF UpdateRead
  <2>. QED
    BY <1>2, <2>1, <2>2
<1>8. CASE Recheck(r)
  BY <1>2, <1>3, <1>4, <1>8 DEF Recheck
<1>9. CASE Drain(r)
  <2>1. \A x, y : [req[r] EXCEPT !.pc = "insert", !.codes = x, !.plan = y].pc = "insert"
    BY <1>1 DEF Request
  <2>2. \E x, y : Steps(r, [req[r] EXCEPT !.pc = "insert", !.codes = x, !.plan = y])
    BY <1>3, <1>9 DEF Drain
  <2>. QED
    BY <1>2, <2>1, <2>2
<1>. QED
  BY <1>5, <1>6, <1>7, <1>8, <1>9, Arrives DEF Updating

(* The steps after which the monitor revises, and after which it links.    *)
LEMMA RunArrives ==
  ASSUME IInv, Runs
  PROVE  /\ mon'.pc \in RevisingPcs =>
              \/ Revise \/ ReviseStatus \/ ReviseInsurer \/ ReviseInsurerWrite \/ ReviseDeclaration
              \/ ReviseLetter \/ \E d \in Dossier : Recompute(d)
         /\ mon'.pc \in LinkingPcs => LinkWrite \/ \E l \in mon.todo : ApplyRead(l)
<1> DEFINE Good == /\ mon'.pc \in RevisingPcs =>
                        \/ Revise \/ ReviseStatus \/ ReviseInsurer \/ ReviseInsurerWrite
                        \/ ReviseDeclaration \/ ReviseLetter \/ \E d \in Dossier : Recompute(d)
                   /\ mon'.pc \in LinkingPcs => LinkWrite \/ \E l \in mon.todo : ApplyRead(l)
<1> USE DEF Monitors, Goes
<1>1. mon \in Run(mon.succ, mon.todo, mon.letters)
  BY DEF IInv, MonInv, RunInv
<1>2. ASSUME mon'.pc \in {"idle", "next", "link", "apply"} PROVE Good
  BY <1>2 DEF RevisingPcs, LinkingPcs
<1>3. CASE Tick
  <2>1. mon'.pc = "next"
    BY <1>3 DEF Tick, MonRest
  <2>. QED
    BY <1>2, <2>1
<1>4. CASE NoText \/ Publish
  <2>1. mon'.pc = "link"
    BY <1>1, <1>4 DEF NoText, Publish, Run
  <2>. QED
    BY <1>2, <2>1
<1>5. CASE ReviseCommits
  <2>1. mon'.pc = "link"
    BY <1>1, <1>5 DEF ReviseCommits, Run
  <2>. QED
    BY <1>2, <2>1
<1>6. CASE DecideLinks
  <2>1. mon'.pc = "apply"
    BY <1>1, <1>6 DEF DecideLinks, Run
  <2>. QED
    BY <1>2, <2>1
<1>7. CASE LinkDate
  <2>1. mon'.pc = "apply"
    BY <1>1, <1>7 DEF LinkDate, Run
  <2>. QED
    BY <1>2, <2>1
<1>8. CASE LinksDone
  <2>1. mon'.pc = "idle"
    BY <1>8 DEF LinksDone, MonRest
  <2>. QED
    BY <1>2, <2>1
<1>9. CASE VictimMonitor
  <2>1. mon'.pc \in {"idle", "link"}
    <3>1. mon' = MonRest \/ mon' = [mon EXCEPT !.pc = "link", !.todo = {}, !.held = {}, !.letters = {}]
      BY <1>9 DEF VictimMonitor, Abort
    <3>2. MonRest.pc = "idle" /\ [mon EXCEPT !.pc = "link", !.todo = {}, !.held = {}, !.letters = {}].pc = "link"
      BY <1>1 DEF MonRest, Run
    <3>. QED
      BY <3>1, <3>2
  <2>. QED
    BY <1>2, <2>1
<1>10. CASE LinkWrite
  <2>1. mon' = MonRest \/ mon' = [mon EXCEPT !.pc = "date"] \/ mon' = [mon EXCEPT !.pc = "apply", !.held = {}]
    BY <1>10, LinkWrites
  <2>2. /\ MonRest.pc = "idle" /\ [mon EXCEPT !.pc = "date"].pc = "date"
        /\ [mon EXCEPT !.pc = "apply", !.held = {}].pc = "apply"
    BY <1>1 DEF MonRest, Run
  <2>3. mon'.pc \notin RevisingPcs
    BY <2>1, <2>2 DEF RevisingPcs
  <2>. QED
    BY <1>10, <2>3
<1>11. ASSUME NEW l \in mon.todo, ApplyRead(l) PROVE Good
  <2>1. mon'.pc \in {"apply", "linkWrite"}
    BY <1>1, <1>11 DEF ApplyRead, Run
  <2>2. mon'.pc \notin RevisingPcs
    BY <2>1 DEF RevisingPcs
  <2>. QED
    BY <1>11, <2>2
<1>12. ASSUME mon'.pc \notin LinkingPcs,
              \/ Revise \/ ReviseStatus \/ ReviseInsurer \/ ReviseInsurerWrite \/ ReviseDeclaration
              \/ ReviseLetter \/ \E d \in Dossier : Recompute(d)
       PROVE  Good
  BY <1>12
<1>20. \A change, left : NextWrite(change, left) \in Edits \cup {"revise"}
  BY NextWrites
<1>13. CASE Revise
  <2>1. mon'.pc = "revise"
    BY <1>1, <1>13 DEF Revise, Run
  <2>. QED
    BY <1>12, <1>13, <2>1 DEF LinkingPcs
<1>14. ASSUME NEW d \in Dossier, Recompute(d) PROVE Good
  <2>1. mon'.pc \in Edits \cup {"revise"}
    <3>1. \A x, y, z, c, pc : [mon EXCEPT !.todo = x, !.held = y, !.d = z, !.change = c, !.pc = pc].pc = pc
      BY <1>1 DEF Run
    <3>2. \A x : [mon EXCEPT !.todo = x].pc = mon.pc
      BY <1>1 DEF Run
    <3>3. mon.pc = "revise"
      BY <1>14 DEF Recompute
    <3>4. \/ \E x : mon' = [mon EXCEPT !.todo = x]
          \/ \E x, y, z, c : mon' = [mon EXCEPT !.todo = x, !.held = y, !.d = z, !.change = c,
                     !.pc = NextWrite(Change(d), {"status", "insurer", "declaration"})]
      BY <1>14 DEF Recompute
    <3>. QED
      <4>1. ASSUME NEW x, mon' = [mon EXCEPT !.todo = x] PROVE mon'.pc = "revise"
        BY <3>2, <3>3, <4>1
      <4>2. ASSUME NEW x, NEW y, NEW z, NEW c,
                   mon' = [mon EXCEPT !.todo = x, !.held = y, !.d = z, !.change = c,
                             !.pc = NextWrite(Change(d), {"status", "insurer", "declaration"})]
            PROVE  mon'.pc = NextWrite(Change(d), {"status", "insurer", "declaration"})
        BY <3>1, <4>2
      <4>. QED
        BY <1>20, <3>4, <4>1, <4>2
  <2>. QED
    BY <1>12, <1>14, <2>1 DEF LinkingPcs, Edits
<1>15. \A pc : [mon EXCEPT !.pc = pc].pc = pc
  BY <1>1 DEF Run
<1>16. CASE ReviseStatus \/ ReviseInsurer \/ ReviseDeclaration
  <2>1. mon'.pc \in Edits \cup {"revise", "letter", "insurerWrite"}
    <3>1. \E pc \in Edits \cup {"revise", "letter", "insurerWrite"} : mon' = [mon EXCEPT !.pc = pc]
      BY <1>16, <1>20 DEF ReviseStatus, ReviseInsurer, ReviseDeclaration
    <3>. QED
      BY <1>15, <3>1
  <2>. QED
    BY <1>12, <1>16, <2>1 DEF LinkingPcs, Edits
<1>17. ASSUME Abort PROVE Good
  <2>1. mon'.pc = "link"
    BY <1>1, <1>17 DEF Abort, Run
  <2>. QED
    BY <1>2, <2>1
<1>18. CASE ReviseInsurerWrite
  <2>1. mon'.pc \in Edits \cup {"revise"} \/ Abort
    <3>1. (\E pc \in Edits \cup {"revise"} : mon' = [mon EXCEPT !.pc = pc]) \/ Abort
      BY <1>18, <1>20 DEF ReviseInsurerWrite
    <3>. QED
      BY <1>15, <3>1
  <2>. QED
    BY <1>12, <1>17, <1>18, <2>1 DEF LinkingPcs, Edits
<1>19. CASE ReviseLetter
  <2>1. mon'.pc = "revise" \/ Abort
    <3>1. \A x : [mon EXCEPT !.pc = "revise", !.letters = x].pc = "revise"
      BY <1>1 DEF Run
    <3>. QED
      BY <1>19, <3>1 DEF ReviseLetter
  <2>. QED
    BY <1>12, <1>17, <1>19, <2>1 DEF LinkingPcs
<1>. QED
  BY <1>3, <1>4, <1>5, <1>6, <1>7, <1>8, <1>9, <1>10, <1>11, <1>13, <1>14, <1>16, <1>18, <1>19 DEF Runs

(* A step of the revision: it begins, takes a dossier in hand, rewrites    *)
(* its row, or leaves the dossiers as they are.                            *)
Begins == Revise /\ UNCHANGED pending /\ mon'.held = {} /\ mon'.pc = "revise"

Passes(d) ==
  /\ d \in mon.todo /\ mon.pc = "revise" /\ ~ Open(d) /\ UNCHANGED pending
  /\ mon'.todo = mon.todo \ {d} /\ mon'.held = mon.held /\ mon'.pc = "revise"

Takes(d) ==
  /\ d \in mon.todo /\ mon.pc = "revise" /\ Open(d) /\ UNCHANGED pending
  /\ mon'.todo = mon.todo \ {d} /\ mon'.held = mon.held \cup {d}
  /\ mon'.d = d /\ mon'.change = Change(d) /\ Held(d)
  /\ mon'.pc = NextWrite(Change(d), {"status", "insurer", "declaration"})

SameHands == mon'.todo = mon.todo /\ mon'.held = mon.held /\ mon'.pc # "status"

Rewrites ==
  /\ SameHands /\ mon.pc = "status"
  /\ \/ ~ Open(mon.d) /\ UNCHANGED pending
     \/ LET row == [Row(mon.d) EXCEPT !.status = mon.change.status]
        IN Open(mon.d) /\ row \in SinistreRow /\ Puts(Monitor, <<mon.d, "sinistre">>, row)

GoesOn ==
  /\ SameHands /\ mon.pc \in RevisingPcs \ {"status"}
  /\ \A d \in Dossier : pending'[Monitor][<<d, "sinistre">>] = pending[Monitor][<<d, "sinistre">>]
  /\ \A d \in Dossier : LET row == pending'[Monitor][<<d, "declaration">>]
                        IN row = pending[Monitor][<<d, "declaration">>] \/ row.mark = Mark(d)

LEMMA RevisingMoves ==
  ASSUME IInv, Runs, mon'.pc \in RevisingPcs
  PROVE  /\ UNCHANGED db
         /\ Begins \/ Rewrites \/ GoesOn \/ \E d \in Dossier : Passes(d) \/ Takes(d)
<1> DEFINE Good == /\ UNCHANGED db
                   /\ Begins \/ Rewrites \/ GoesOn \/ \E d \in Dossier : Passes(d) \/ Takes(d)
<1> USE DEF Monitors, Goes
<1>1. /\ mon \in Run(mon.succ, mon.todo, mon.letters) /\ Monitor \in Proc
      /\ pending = [p \in Proc |-> pending[p]] /\ pending[Monitor] = [k \in Key |-> pending[Monitor][k]]
  BY DEF IInv, MonInv, RunInv, PendInv, Proc
<1>2. \A pc : LET m == [mon EXCEPT !.pc = pc]
              IN m.pc = pc /\ m.held = mon.held /\ m.todo = mon.todo
  BY <1>1 DEF Run
<1>3. ~ Abort
  <2>1. [mon EXCEPT !.pc = "link", !.todo = {}, !.held = {}, !.letters = {}].pc = "link"
    BY <1>1 DEF Run
  <2>. QED
    BY <2>1 DEF Abort, RevisingPcs
<1>4. CASE Revise
  <2>1. mon'.held = mon.held /\ mon'.pc = "revise"
    BY <1>1, <1>4 DEF Revise, Run
  <2>2. mon.held = {} /\ UNCHANGED <<db, pending>>
    BY <1>4 DEF Revise, IInv, MonInv, RunInv
  <2>. QED
    BY <1>4, <2>1, <2>2 DEF Begins
<1>5. ASSUME NEW d \in Dossier, Recompute(d) PROVE Good
  <2>1. mon.pc = "revise" /\ d \in mon.todo /\ UNCHANGED <<db, pending>>
    BY <1>5 DEF Recompute
  <2>2. CASE Open(d)
    <3> DEFINE m == [mon EXCEPT !.todo = @ \ {d}, !.held = @ \cup {d}, !.d = d, !.change = Change(d),
                                !.pc = NextWrite(Change(d), {"status", "insurer", "declaration"})]
    <3>1. mon' = m /\ Held(d)
      BY <1>5, <2>2 DEF Recompute
    <3>2. /\ m.todo = mon.todo \ {d} /\ m.held = mon.held \cup {d} /\ m.d = d /\ m.change = Change(d)
          /\ m.pc = NextWrite(Change(d), {"status", "insurer", "declaration"})
      BY <1>1 DEF Run
    <3> HIDE DEF m
    <3>. QED
      BY <2>1, <2>2, <3>1, <3>2 DEF Takes
  <2>3. CASE ~ Open(d)
    <3>1. mon' = [mon EXCEPT !.todo = @ \ {d}]
      BY <1>5, <2>3 DEF Recompute
    <3>2. mon'.todo = mon.todo \ {d} /\ mon'.held = mon.held /\ mon'.pc = "revise"
      BY <1>1, <2>1, <3>1 DEF Run
    <3>. QED
      BY <2>1, <2>3, <3>2 DEF Passes
  <2>. QED
    BY <2>2, <2>3
<1>6. CASE ReviseStatus
  <2>1. PICK pc : mon' = [mon EXCEPT !.pc = pc] /\ pc # "status"
    BY <1>6, NextWrites DEF ReviseStatus
  <2>2. SameHands /\ mon.pc = "status"
    BY <1>2, <1>6, <2>1 DEF SameHands, ReviseStatus
  <2>. QED
    BY <1>6, <2>2, ReviseStatusWrites DEF Rewrites, Puts, Write
<1>7. ASSUME UNCHANGED <<db, pending>>, mon.pc \in RevisingPcs \ {"status"}, SameHands PROVE Good
  BY <1>7 DEF GoesOn
<1>8. CASE ReviseInsurer
  <2>1. PICK pc : mon' = [mon EXCEPT !.pc = pc] /\ pc # "status"
    BY <1>8, NextWrites DEF ReviseInsurer
  <2>. QED
    BY <1>2, <1>7, <1>8, <2>1 DEF ReviseInsurer, SameHands, RevisingPcs
<1>9. CASE ReviseInsurerWrite
  <2> DEFINE k   == <<mon.d, "insurer">>
             row == [db[k] EXCEPT !.planned = mon.change.insurer]
  <2>1. IsRow(db[k]) /\ Puts(Monitor, k, row) /\ mon.pc = "insurerWrite"
    BY <1>3, <1>9, ReviseInsurerWrites DEF ReviseInsurerWrite
  <2>2. PICK pc : mon' = [mon EXCEPT !.pc = pc] /\ pc # "status"
    BY <1>9, <2>1, NextWrites DEF ReviseInsurerWrite
  <2>3. UNCHANGED db /\ \A j \in Key : j # k => pending'[Monitor][j] = pending[Monitor][j]
    BY <1>1, <2>1 DEF Puts, Write
  <2>4. \A d \in Dossier, part \in {"sinistre", "declaration"} :
          pending'[Monitor][<<d, part>>] = pending[Monitor][<<d, part>>]
    BY <2>3, Keys
  <2>. QED
    BY <1>2, <2>1, <2>2, <2>3, <2>4 DEF GoesOn, SameHands, RevisingPcs
<1>10. CASE ReviseDeclaration
  <2> DEFINE k   == <<mon.d, "declaration">>
             row == [db[k] EXCEPT !.planned = mon.change.planned]
  <2>1. PICK pc : mon' = [mon EXCEPT !.pc = pc] /\ pc # "status"
    BY <1>10 DEF ReviseDeclaration
  <2>2. SameHands /\ mon.pc = "declaration"
    BY <1>2, <1>10, <2>1 DEF SameHands, ReviseDeclaration
  <2>3. CASE UNCHANGED <<db, pending>>
    BY <1>7, <2>2, <2>3 DEF RevisingPcs
  <2>4. CASE IsRow(db[k]) /\ row \in StepRow /\ Puts(Monitor, k, row)
    <3>1. UNCHANGED db /\ \A j \in Key : pending'[Monitor][j] = IF j = k THEN row ELSE pending[Monitor][j]
      BY <1>1, <2>4 DEF Puts, Write
    <3>2. row.mark = db[k].mark
      <4>1. db[k] \in StepRow
        BY <2>4, Keys DEF Puts, IInv, RowInv, IsRow, RowsOf
      <4>. QED
        BY <4>1 DEF StepRow
    <3>3. \A d \in Dossier : pending'[Monitor][<<d, "sinistre">>] = pending[Monitor][<<d, "sinistre">>]
      BY <3>1, Keys
    <3>4. ASSUME NEW d \in Dossier
          PROVE  LET w == pending'[Monitor][<<d, "declaration">>]
                 IN w = pending[Monitor][<<d, "declaration">>] \/ w.mark = Mark(d)
      BY <3>1, <3>2, Keys DEF Mark
    <3>. QED
      BY <2>2, <3>1, <3>3, <3>4 DEF GoesOn, RevisingPcs
  <2>. QED
    BY <1>10, <2>3, <2>4, ReviseDeclarationWrites
<1>11. CASE ReviseLetter
  <2>1. PICK x : mon' = [mon EXCEPT !.pc = "revise", !.letters = x]
    BY <1>3, <1>11 DEF ReviseLetter
  <2>2. SameHands /\ mon.pc = "letter" /\ UNCHANGED <<db, pending>>
    BY <1>1, <1>3, <1>11, <2>1 DEF SameHands, ReviseLetter, Run
  <2>. QED
    BY <1>7, <2>2 DEF RevisingPcs
<1>. QED
  BY <1>4, <1>5, <1>6, <1>8, <1>9, <1>10, <1>11, RunArrives

(* One process at a time moves.                                            *)
LEMMA WhoActs ==
  ASSUME IInv, [Next]_vars
  PROVE  \/ \E r \in Req : /\ Sends(r) \/ Handles(r)
                           /\ \A s \in Req \ {r} : req'[s] = req[s] /\ pending'[s] = pending[s]
                           /\ pending'[Monitor] = pending[Monitor] /\ UNCHANGED <<mon, arretes>>
         \/ Runs /\ UNCHANGED req /\ \A s \in Req : pending'[s] = pending[s]
         \/ UNCHANGED <<db, pending, req, mon, arretes, raced>>
<1>1. /\ pending = [p \in Proc |-> pending[p]] /\ req = [r \in Req |-> req[r]]
      /\ Monitor \in Proc /\ \A r \in Req : r \in Proc /\ r # Monitor
  BY ProcAssumption DEF IInv, PendInv, ReqInv, Proc
<1>2. ASSUME NEW r \in Req, Sends(r) \/ Handles(r)
      PROVE  /\ \A s \in Req \ {r} : req'[s] = req[s] /\ pending'[s] = pending[s]
             /\ pending'[Monitor] = pending[Monitor] /\ UNCHANGED <<mon, arretes>>
  <2>1. PICK q, rows : req' = [req EXCEPT ![r] = q] /\ pending' = [pending EXCEPT ![r] = rows]
    BY <1>2, RequestHolds
  <2>2. UNCHANGED <<mon, arretes>>
    BY <1>2, RequestAlone
  <2>. QED
    BY <1>1, <2>1, <2>2
<1>3. ASSUME Runs PROVE UNCHANGED req /\ \A s \in Req : pending'[s] = pending[s]
  BY <1>1, <1>3, RunHolds, RunAlone
<1>. QED
  BY <1>2, <1>3 DEF Next, vars, arretes, Merge

LEMMA OwnWritesKept ==
  ASSUME IInv, [Next]_vars, NEW s \in Req
  PROVE  \A q, rows : q = req'[s] /\ rows = pending'[s] => RequestWrote(q, rows)'
<1>1. ASSUME Sends(s) \/ Handles(s)
      PROVE  \A q, rows : q = req'[s] /\ rows = pending'[s] => RequestWrote(q, rows)'
  <2>1. CASE req'[s].pc \in {"mark", "insurer"}
    <3>1. UNCHANGED db /\ RequestWrote(req'[s], pending'[s])
      BY <1>1, <2>1, RequestWrites
    <3>. QED
      BY <3>1 DEF RequestWrote, Row
  <2>2. CASE req'[s].pc \notin {"mark", "insurer"}
    BY <2>2 DEF RequestWrote
  <2>. QED
    BY <2>1, <2>2
<1>2. ASSUME req'[s] = req[s], pending'[s] = pending[s]
      PROVE  \A q, rows : q = req'[s] /\ rows = pending'[s] => RequestWrote(q, rows)'
  <2> SUFFICES ASSUME NEW q, NEW rows, q = req[s], rows = pending[s] PROVE RequestWrote(q, rows)'
    BY <1>2
  <2> DEFINE k == <<q.d, "declaration">>
  <2>1. RequestWrote(q, rows) /\ s \in Proc
    BY DEF IInv, WroteInv, RequestWrote, Proc
  <2>2. ASSUME q.pc \in {"mark", "insurer"} PROVE Row(q.d)' = Row(q.d)
    <3>1. <<q.d, "sinistre">> \in Key /\ rows[<<q.d, "sinistre">>] # None
      BY <2>2, Holding, Keys DEF IInv, HoldInv, HoldOf
    <3>. QED
      BY <1>2, <2>1, <3>1, LockedStays DEF Row
  <2>3. ASSUME q.pc = "insurer" PROVE db'[k] = db[k]
    <3>1. k \in Key /\ IsRow(db[k]) /\ RowsOf(k) = StepRow
      BY <2>3, Holding, Keys DEF RowsOf
    <3>2. db[k] \in StepRow /\ q.date \in Declaration \cup {None}
      BY <3>1 DEF IInv, RowInv, IsRow, ReqInv, RequestInv, Request
    <3>3. [db[k] EXCEPT !.mark = q.date] \in StepRow
      BY <3>2 DEF StepRow
    <3>4. rows[k] # None
      BY <2>1, <2>3, <3>3, RowAssumption DEF RequestWrote
    <3>. QED
      BY <1>2, <2>1, <3>1, <3>4, LockedStays
  <2>. QED
    BY <2>1, <2>2, <2>3 DEF RequestWrote
<1>. QED
  BY <1>1, <1>2, WhoActs

LEMMA MonWritesKept ==
  ASSUME IInv, [Next]_vars, NEW d \in Dossier, mon'.pc \in RevisingPcs
  PROVE  /\ LET row == pending'[Monitor][<<d, "sinistre">>] IN
            row # None => d \in mon'.held /\ row = [Row(d)' EXCEPT !.status = row.status]
         /\ LET row == pending'[Monitor][<<d, "declaration">>] IN
            row # None => row.mark = Mark(d)'
<1> DEFINE s == <<d, "sinistre">>
           m == <<d, "declaration">>
           w == pending[Monitor]
           Good == /\ pending'[Monitor][s] # None =>
                        /\ d \in mon'.held
                        /\ pending'[Monitor][s] = [Row(d)' EXCEPT !.status = pending'[Monitor][s].status]
                   /\ pending'[Monitor][m] # None => pending'[Monitor][m].mark = Mark(d)'
<1>1. s \in Key /\ m \in Key /\ Monitor \in Proc
  BY Keys DEF Proc
<1>2. ASSUME mon.pc \in RevisingPcs
      PROVE  /\ w[s] # None => d \in mon.held /\ w[s] = [Row(d) EXCEPT !.status = w[s].status]
             /\ w[m] # None => w[m].mark = Mark(d)
  BY <1>2, Rewriting DEF IInv, WroteInv, Mark
<1>3. ASSUME UNCHANGED mon, pending'[Monitor] = pending[Monitor] PROVE Good
  <2>1. mon.pc \in RevisingPcs
    BY <1>3
  <2>2. w[s] # None => Row(d)' = Row(d)
    BY <1>1, <1>3, LockedStays DEF Row
  <2>3. w[m] # None => Mark(d)' = Mark(d)
    BY <1>1, <1>3, LockedStays DEF Mark
  <2>. QED
    BY <1>2, <1>3, <2>1, <2>2, <2>3
<1>4. CASE Runs
  <2>1. Row(d)' = Row(d) /\ Mark(d)' = Mark(d)
    BY <1>4, RevisingMoves DEF Row, Mark
  <2>2. CASE Begins
    <3>1. w[s] = None /\ w[m] = None
      BY <1>1, <2>2 DEF Begins, Revise, IInv, MonHold, Revising
    <3>. QED
      BY <2>2, <3>1 DEF Begins
  <2>3. ASSUME NEW x, Passes(x) \/ Takes(x) PROVE Good
    <3>1. UNCHANGED pending /\ mon.held \subseteq mon'.held /\ mon.pc \in RevisingPcs
      BY <2>3 DEF Passes, Takes, RevisingPcs
    <3>. QED
      BY <1>2, <2>1, <3>1
  <2>4. CASE Rewrites
    <3>1. mon'.held = mon.held /\ mon.pc \in RevisingPcs /\ mon.pc = "status"
      BY <2>4 DEF Rewrites, SameHands, RevisingPcs
    <3>2. CASE UNCHANGED pending
      BY <1>2, <2>1, <3>1, <3>2
    <3> DEFINE k   == <<mon.d, "sinistre">>
               row == [Row(mon.d) EXCEPT !.status = mon.change.status]
    <3>3. CASE Open(mon.d) /\ row \in SinistreRow /\ Puts(Monitor, k, row)
      <4>1. \A j \in Key : pending'[Monitor][j] = IF j = k THEN row ELSE w[j]
        BY <1>1, <3>3 DEF Puts, Write, IInv, PendInv
      <4>2. mon.d \in mon.held /\ mon.d \in Dossier
        BY <3>1, MonHolding
      <4>3. Row(mon.d) \in SinistreRow
        BY <3>3, <4>2, Keys DEF IInv, RowInv, Open, IsRow, Row, RowsOf
      <4>4. row = [Row(mon.d) EXCEPT !.status = row.status]
        BY <4>3 DEF SinistreRow
      <4>5. CASE d = mon.d
        <5>1. pending'[Monitor][s] = row /\ pending'[Monitor][m] = w[m]
          BY <1>1, <4>1, <4>5
        <5>. QED
          BY <1>2, <2>1, <3>1, <4>2, <4>4, <4>5, <5>1
      <4>6. CASE d # mon.d
        <5>1. pending'[Monitor][s] = w[s] /\ pending'[Monitor][m] = w[m]
          BY <1>1, <4>1, <4>6, Keys
        <5>. QED
          BY <1>2, <2>1, <3>1, <5>1
      <4>. QED
        BY <4>5, <4>6
    <3>. QED
      BY <2>4, <3>2, <3>3 DEF Rewrites
  <2>5. CASE GoesOn
    <3>1. /\ mon'.held = mon.held /\ mon.pc \in RevisingPcs /\ pending'[Monitor][s] = w[s]
          /\ pending'[Monitor][m] = w[m] \/ pending'[Monitor][m].mark = Mark(d)
      BY <2>5 DEF GoesOn, SameHands
    <3>. QED
      BY <1>2, <2>1, <3>1
  <2>. QED
    BY <1>4, <2>2, <2>3, <2>4, <2>5, RevisingMoves
<1>5. Good
  BY <1>3, <1>4, WhoActs
<1>. QED
  BY <1>5

LEMMA LinkedRowKept ==
  ASSUME IInv, [Next]_vars, mon'.pc = "date"
  PROVE  /\ mon'.d = mon.d /\ mon'.link = mon.link /\ mon'.status = mon.status
         /\ pending'[Monitor][<<mon.d, "sinistre">>] =
              [Row(mon.d)' EXCEPT !.link = mon.link, !.status = mon.status]
<1> DEFINE k == <<mon.d, "sinistre">>
           Good == /\ mon'.d = mon.d /\ mon'.link = mon.link /\ mon'.status = mon.status
                   /\ pending'[Monitor][k] = [Row(mon.d)' EXCEPT !.link = mon.link, !.status = mon.status]
<1>1. Monitor \in Proc /\ mon \in Run(mon.succ, mon.todo, mon.letters)
  BY DEF IInv, MonInv, RunInv, Proc
<1>2. CASE Runs
  <2>1. LinkWrite
    <3>1. ASSUME NEW l \in mon.todo, ApplyRead(l) PROVE FALSE
      <4>1. mon'.pc \in {"apply", "linkWrite"}
        BY <1>1, <3>1 DEF ApplyRead, Monitors, Run
      <4>. QED
        BY <4>1
    <3>. QED
      BY <1>2, <3>1, RunArrives DEF LinkingPcs
  <2>2. mon' = [mon EXCEPT !.pc = "date"] /\ Puts(Monitor, k, LinkedRow)
    <3>1. MonRest.pc = "idle" /\ [mon EXCEPT !.pc = "apply", !.held = {}].pc = "apply"
      BY <1>1 DEF MonRest, Run
    <3>. QED
      BY <2>1, <3>1, LinkWrites
  <2>3. pending'[Monitor][k] = LinkedRow /\ UNCHANGED db
    BY <1>1, <2>2 DEF Puts, Write, IInv, PendInv
  <2>4. mon'.d = mon.d /\ mon'.link = mon.link /\ mon'.status = mon.status
    BY <1>1, <2>2 DEF Run
  <2>. QED
    BY <2>3, <2>4 DEF LinkedRow, Row
<1>3. ASSUME UNCHANGED mon, pending'[Monitor] = pending[Monitor] PROVE Good
  <2>1. /\ pending[Monitor][k] # None
        /\ pending[Monitor][k] = [Row(mon.d) EXCEPT !.link = mon.link, !.status = mon.status]
    BY <1>3 DEF IInv, MonHold, WroteInv
  <2>2. k \in Key
    BY <1>3, MonHolding, Keys DEF LinkingPcs
  <2>3. Row(mon.d)' = Row(mon.d)
    BY <1>1, <1>3, <2>1, <2>2, LockedStays DEF Row
  <2>. QED
    BY <1>3, <2>1, <2>3
<1>. QED
  BY <1>2, <1>3, WhoActs

LEMMA WroteKept == ASSUME IInv, [Next]_vars PROVE WroteInv'
<1>1. ASSUME NEW r \in Req
      PROVE  (LET q == req[r] IN
              /\ q.pc \in {"mark", "insurer"} =>
                   pending[r][<<q.d, "sinistre">>] =
                     [Row(q.d) EXCEPT !.declared = q.date, !.status = SinistreStatus(q.outcome, q.date)]
              /\ q.pc = "insurer" =>
                   pending[r][<<q.d, "declaration">>] =
                     [db[<<q.d, "declaration">>] EXCEPT !.mark = q.date])'
  <2>1. \A q, rows : q = req'[r] /\ rows = pending'[r] => RequestWrote(q, rows)'
    BY OwnWritesKept
  <2>. QED
    BY <2>1 DEF RequestWrote
<1>2. ASSUME NEW d \in Dossier, Revising'
      PROVE  (/\ LET row == pending[Monitor][<<d, "sinistre">>] IN
                 row # None => d \in mon.held /\ row = [Row(d) EXCEPT !.status = row.status]
              /\ LET row == pending[Monitor][<<d, "declaration">>] IN
                 row # None => row.mark = db[<<d, "declaration">>].mark)'
  <2>1. mon'.pc \in RevisingPcs
    BY <1>2 DEF Revising, RevisingPcs
  <2>. QED
    BY <2>1, MonWritesKept DEF Mark
<1>3. ASSUME mon'.pc = "date"
      PROVE  (pending[Monitor][<<mon.d, "sinistre">>] =
                [Row(mon.d) EXCEPT !.link = mon.link, !.status = mon.status])'
  <2>1. \A d : d = mon'.d => Row(d)' = Row(mon.d)'
    BY <1>3, LinkedRowKept
  <2>. QED
    BY <1>3, <2>1, LinkedRowKept
<1>. QED
  BY <1>1, <1>2, <1>3 DEF WroteInv

-----------------------------------------------------------------------------
(* The rows agree.                                                         *)
LEMMA RacedGrows == ASSUME [Next]_vars PROVE raced \subseteq raced'
BY RequestAlone, RunAlone DEF Next, vars, Merge

LEMMA MonitorWrites == ASSUME IInv, LinkWrite \/ LinkDate \/ ReviseCommits PROVE mon' # mon
<1>1. mon \in Run(mon.succ, mon.todo, mon.letters)
  BY DEF IInv, MonInv, RunInv
<1>2. ASSUME LinkWrite PROVE mon'.pc \in {"idle", "date", "apply"}
  <2>1. mon' = MonRest \/ mon' = [mon EXCEPT !.pc = "date"] \/ mon' = [mon EXCEPT !.pc = "apply", !.held = {}]
    BY <1>2, LinkWrites
  <2>2. /\ MonRest.pc = "idle" /\ [mon EXCEPT !.pc = "date"].pc = "date"
        /\ [mon EXCEPT !.pc = "apply", !.held = {}].pc = "apply"
    BY <1>1 DEF MonRest, Run
  <2>. QED
    BY <2>1, <2>2
<1>3. ASSUME LinkDate \/ ReviseCommits PROVE mon'.pc \in {"apply", "link"}
  BY <1>1, <1>3 DEF LinkDate, ReviseCommits, Monitors, Run
<1>. QED
  BY <1>2, <1>3 DEF LinkWrite, LinkDate, ReviseCommits

(* A line a dossier is linked to keeps its outcome, unless the text being  *)
(* stored is the one its dossiers were revised for.                        *)
LEMMA OutcomeKept ==
  ASSUME IInv, [Next]_vars, NEW d \in Dossier, Open(d), d \notin raced,
         ~ (ReviseCommits /\ d \in mon.held), NEW e, e = Row(d).link
  PROVE  OutcomeOf(e)' = OutcomeOf(e)
<1>1. CASE UNCHANGED arretes
  BY <1>1 DEF arretes, OutcomeOf
<1>2. CASE Stored /\ ingested < Len(texts) /\ (Publish \/ ReviseCommits) /\ e # None
  <2>1. e \in Entry /\ entry[e] # None /\ publishedAt[arreteOf[e]] # None
    BY <1>2 DEF IInv, LinkInv, Stands, ArreteInv
  <2>2. entry'[e] = IF NextText.lines[e] # None THEN NextText.lines[e] ELSE entry[e]
    BY <1>2, <2>1, StoredLines
  <2>3. CASE NextText.lines[e] = None
    BY <2>2, <2>3 DEF OutcomeOf
  <2>4. CASE NextText.lines[e] # None /\ Publish
    <3>1. arreteOf[e] = NextText.arrete
      BY <1>2, <2>1, <2>4, NextTyped DEF IInv
    <3>. QED
      BY <2>1, <2>4, <3>1 DEF Publish
  <2>5. CASE NextText.lines[e] # None /\ ReviseCommits
    <3>1. Revising /\ mon.todo = {} /\ d \notin mon.held /\ Printed(d)
      BY <2>1, <2>5 DEF ReviseCommits, Revising, Printed
    <3>2. NextText.lines[e].outcome = entry[e].outcome
      BY <3>1 DEF IInv, AgreeInv
    <3>. QED
      BY <2>2, <2>5, <3>2 DEF OutcomeOf
  <2>. QED
    BY <1>2, <2>3, <2>4, <2>5
<1>3. CASE e = None
  BY <1>3 DEF OutcomeOf
<1>. QED
  BY <1>1, <1>2, <1>3, ArreteSteps

LEMMA RowTyped == ASSUME RowInv, NEW d \in Dossier, Open(d) PROVE Row(d) \in SinistreRow
BY Keys DEF RowInv, Open, Row, IsRow, RowsOf

Agrees(d) == Row(d).status = GivenBy(OutcomeOf(Row(d).link), d)

LEMMA AgreedBefore ==
  ASSUME IInv, NEW d \in Dossier, Open(d)
  PROVE  Mark(d) = Row(d).declared /\ (d \notin raced => Agrees(d))
BY DEF IInv, AgreeInv, RowsAgree, Mark, Agrees, GivenBy

LEMMA MarksKept ==
  ASSUME IInv, [Next]_vars, NEW d \in Dossier, Open(d)'
  PROVE  Mark(d)' = Row(d)'.declared
<1>1. DossierStep(d)
  BY DossierSteps
<1>2. ASSUME Open(d) PROVE Row(d) \in SinistreRow /\ Mark(d) = Row(d).declared
  BY <1>2, RowTyped, AgreedBefore DEF IInv
<1>3. CASE Steady(d)
  BY <1>2, <1>3 DEF Steady, Open
<1>4. CASE Starts(d)
  BY <1>4 DEF Starts
<1>5. CASE Declares(d)
  BY <1>2, <1>5 DEF Declares, SinistreRow
<1>6. CASE Links(d)
  BY <1>2, <1>6 DEF Links, LinkedRow, SinistreRow
<1>7. CASE Revises(d)
  BY <1>2, <1>7 DEF Revises, SinistreRow
<1>8. CASE Ends(d)
  BY <1>8 DEF Ends, Open, IsRow
<1>. QED
  BY <1>1, <1>3, <1>4, <1>5, <1>6, <1>7, <1>8 DEF DossierStep

(* What the revision stores for a dossier is what the text says of it.     *)
LEMMA RevisedAgrees ==
  ASSUME IInv, ReviseCommits, NEW d \in Dossier, Open(d), d \notin raced
  PROVE  /\ Row(d)'.link = Row(d).link /\ Row(d)'.declared = Row(d).declared
         /\ d \in mon.held => Row(d)'.status = Becomes(d)
         /\ d \notin mon.held => Row(d)' = Row(d)
<1> DEFINE s == <<d, "sinistre">>
           row == pending[Monitor][s]
<1>1. Revising /\ mon.pc = "revise" /\ s \in Key /\ Commit(Monitor, pending[Monitor])
  BY Keys DEF ReviseCommits, Revising
<1>2. row # None => d \in mon.held /\ row = [Row(d) EXCEPT !.status = row.status]
  BY <1>1 DEF IInv, WroteInv
<1>3. Row(d)' = IF row # None THEN row ELSE Row(d)
  BY <1>1 DEF Commit, Row
<1>4. d \in mon.held => \/ row # None /\ row.status = Becomes(d)
                        \/ row = None /\ Row(d).status = Becomes(d)
  BY <1>1 DEF IInv, AgreeInv
<1>5. Row(d) \in SinistreRow
  BY RowTyped DEF IInv
<1>6. row # None => row.link = Row(d).link /\ row.declared = Row(d).declared
  BY <1>2, <1>5 DEF SinistreRow
<1>. QED
  BY <1>2, <1>3, <1>4, <1>6

LEMMA StatusKept ==
  ASSUME IInv, [Next]_vars, NEW d \in Dossier, Open(d)', d \notin raced'
  PROVE  Agrees(d)'
<1> SUFFICES ASSUME NEW e, e = Row(d)'.link
             PROVE  Row(d)'.status = SinistreStatus(OutcomeOf(e)', Row(d)'.declared)
  BY DEF Agrees, GivenBy
<1>1. DossierStep(d) /\ d \notin raced
  BY DossierSteps, RacedGrows
<1>2. ASSUME Open(d) PROVE Row(d) \in SinistreRow /\ Row(d).status = GivenBy(OutcomeOf(Row(d).link), d)
  BY <1>1, <1>2, RowTyped, AgreedBefore DEF IInv, Agrees
<1>3. CASE ReviseCommits
  <2>1. CASE Open(d)
    <3>1. /\ e = Row(d).link /\ Row(d)'.declared = Row(d).declared
          /\ d \in mon.held => Row(d)'.status = Becomes(d)
          /\ d \notin mon.held => Row(d)' = Row(d)
      BY <1>1, <1>3, <2>1, RevisedAgrees
    <3>2. CASE d \in mon.held
      <4>1. Printed(d)
        BY <1>3, <2>1, <3>2 DEF IInv, MonInv, RunInv, ReviseCommits, RevisingPcs
      <4>2. Stored /\ ingested < Len(texts)
        BY <1>3 DEF ReviseCommits, IInv, MonInv, RunInv, RevisingPcs
      <4>3. e \in Entry /\ entry'[e] = NextText.lines[e]
        BY <3>1, <4>1, <4>2, StoredLines DEF Printed
      <4>. QED
        BY <3>1, <3>2, <4>3, EntryAssumption DEF Becomes, GivenBy, OutcomeOf
    <3>3. CASE d \notin mon.held
      <4>1. OutcomeOf(e)' = OutcomeOf(e)
        BY <1>1, <2>1, <3>1, <3>3, OutcomeKept
      <4>. QED
        BY <1>2, <2>1, <3>1, <3>3, <4>1 DEF GivenBy
    <3>. QED
      BY <3>2, <3>3
  <2>2. CASE ~ Open(d)
    <3>1. Row(d) = None /\ Row(d)' # None
      BY <2>2, Lasting DEF Open, IsRow
    <3>2. PICK r \in Req : Insert(r, d)
      BY <3>1, Appears DEF Starts
    <3>. QED
      BY <1>3, <3>2, MonitorWrites DEF Insert, RestOfWorld
  <2>. QED
    BY <2>1, <2>2
<1>4. ASSUME Open(d), ~ ReviseCommits, e = Row(d).link PROVE OutcomeOf(e)' = OutcomeOf(e)
  BY <1>1, <1>4, OutcomeKept
<1>5. CASE Steady(d) /\ ~ ReviseCommits
  <2>1. Open(d) /\ Row(d)' = Row(d)
    BY <1>5 DEF Steady, Open
  <2>. QED
    BY <1>2, <1>4, <1>5, <2>1 DEF GivenBy
<1>6. CASE Starts(d)
  <2>1. PICK r \in Req :
          /\ Insert(r, d) /\ e = req[r].plan.link /\ Row(d)'.declared = None
          /\ Row(d)'.status = req[r].plan.status
    BY <1>6 DEF Starts
  <2>2. req[r].plan.at = ingested /\ req[r].pc = "insert" /\ UNCHANGED entry
    BY <1>1, <2>1 DEF Insert, RestOfWorld, arretes
  <2>3. req[r].plan.status = SinistreStatus(OutcomeOf(req[r].plan.link), None)
    BY <2>2 DEF IInv, ReqInv, RequestInv
  <2>. QED
    BY <2>1, <2>2, <2>3 DEF OutcomeOf
<1>7. CASE Declares(d) /\ ~ ReviseCommits
  <2>1. PICK r \in Req :
          /\ UpdateInsurer(r) /\ req[r].d = d /\ Open(d)
          /\ Row(d)' = [Row(d) EXCEPT !.declared = req[r].date,
                                      !.status = SinistreStatus(req[r].outcome, req[r].date)]
    BY <1>7 DEF Declares
  <2>2. req[r].outcome = OutcomeOf(Row(d).link)
    BY <1>1, <2>1 DEF UpdateInsurer, IInv, AgreeInv, Updating
  <2>3. /\ Row(d)'.declared = req[r].date /\ e = Row(d).link
        /\ Row(d)'.status = SinistreStatus(req[r].outcome, req[r].date)
    BY <1>2, <2>1 DEF SinistreRow
  <2>. QED
    BY <1>4, <1>7, <2>1, <2>2, <2>3
<1>8. CASE Links(d)
  <2>1. /\ d = mon.d /\ Open(d) /\ Row(d)' = LinkedRow /\ mon.pc \in LinkingPcs
        /\ UNCHANGED entry
    BY <1>8 DEF Links, LinkWrite, LinkDate, LinkingPcs, Alone, arretes
  <2>2. mon.status = GivenBy(OutcomeOf(mon.link), d)
    BY <1>1, <2>1 DEF IInv, AgreeInv
  <2>3. Row(d)'.status = mon.status /\ e = mon.link /\ Row(d)'.declared = Row(d).declared
    BY <1>2, <2>1 DEF LinkedRow, SinistreRow
  <2>. QED
    BY <2>1, <2>2, <2>3 DEF GivenBy, OutcomeOf
<1>9. CASE Revises(d)
  BY <1>3, <1>9 DEF Revises
<1>10. CASE Ends(d)
  BY <1>10 DEF Ends, Open, IsRow
<1>. QED
  BY <1>1, <1>3, <1>5, <1>6, <1>7, <1>8, <1>9, <1>10 DEF DossierStep

LEMMA UpdateMoves ==
  ASSUME IInv, NEW r \in Req, Sends(r) \/ Handles(r), req'[r].pc \in Updating
  PROVE  /\ UNCHANGED db /\ req'[r].d = req[r].d
         /\ \/ req'[r].outcome = OutcomeOf(Row(req[r].d).link) /\ raced' = Overlap(req[r].d)
            \/ req[r].pc \in Updating /\ req'[r].outcome = req[r].outcome
<1> USE DEF Updating
<1>1. req[r] \in Request(req[r].codes) /\ req = [s \in Req |-> req[s]] /\ Rest.pc = "idle"
  BY DEF IInv, ReqInv, RequestInv, Rest
<1>2. \A q : Steps(r, q) => req'[r] = q
  BY <1>1 DEF Steps
<1>3. ~ Done(r)
  BY <1>1, <1>2 DEF Done
<1>4. \A pc : LET q == [req[r] EXCEPT !.pc = pc]
              IN q.pc = pc /\ q.d = req[r].d /\ q.outcome = req[r].outcome
  BY <1>1 DEF Request
<1>5. CASE UpdateRead(r)
  <2> DEFINE q == [req[r] EXCEPT !.pc = "status", !.outcome = OutcomeOf(Row(req[r].d).link),
                                 !.published = PublishedOf(Row(req[r].d).link)]
  <2>1. q.d = req[r].d /\ q.outcome = OutcomeOf(Row(req[r].d).link)
    BY <1>1 DEF Request
  <2>2. Steps(r, q) /\ raced' = Overlap(req[r].d) /\ UNCHANGED db
    BY <1>3, <1>5 DEF UpdateRead
  <2> HIDE DEF q
  <2>. QED
    BY <1>2, <2>1, <2>2
<1>6. CASE UpdateStatus(r)
  <2> DEFINE q == [req[r] EXCEPT !.pc = "mark"]
  <2>1. Steps(r, q) /\ req[r].pc = "status" /\ UNCHANGED db
    BY <1>3, <1>6 DEF UpdateStatus, Write
  <2>2. q.d = req[r].d /\ q.outcome = req[r].outcome
    BY <1>4
  <2> HIDE DEF q
  <2>. QED
    BY <1>2, <2>1, <2>2
<1>7. CASE UpdateMark(r)
  <2> DEFINE q == [req[r] EXCEPT !.pc = "insurer"]
  <2>1. Steps(r, q) /\ req[r].pc = "mark" /\ UNCHANGED db
    BY <1>7 DEF UpdateMark, Write
  <2>2. q.d = req[r].d /\ q.outcome = req[r].outcome
    BY <1>4
  <2> HIDE DEF q
  <2>. QED
    BY <1>2, <2>1, <2>2
<1>8. CASE Recheck(r)
  BY <1>2, <1>3, <1>4, <1>8 DEF Recheck
<1>9. CASE Drain(r)
  <2>1. \A x, y : [req[r] EXCEPT !.pc = "insert", !.codes = x, !.plan = y].pc = "insert"
    BY <1>1 DEF Request
  <2>2. PICK x, y : Steps(r, [req[r] EXCEPT !.pc = "insert", !.codes = x, !.plan = y])
    BY <1>3, <1>9 DEF Drain
  <2>3. req'[r].pc = "insert"
    BY <1>2, <2>1, <2>2
  <2>. QED
    BY <2>3
<1>. QED
  BY <1>5, <1>6, <1>7, <1>8, <1>9, Arrives

LEMMA UpdatesKept ==
  ASSUME IInv, [Next]_vars, NEW r \in Req, req'[r].pc \in Updating,
         NEW d, d = req'[r].d, Open(d)', d \notin raced', NEW e, e = Row(d)'.link
  PROVE  req'[r].outcome = OutcomeOf(e)'
<1>1. \A s \in Req : req[s].pc \in Updating => req[s].d \in Dossier /\ req[s].kind = "update" /\ Row(req[s].d) # None
  BY DEF IInv, ReqInv, RequestInv, Updating, Creating
<1>2. \A s \in Req : req[s].pc \in Updating /\ Open(req[s].d) /\ req[s].d \notin raced =>
        req[s].outcome = OutcomeOf(Row(req[s].d).link)
  BY DEF IInv, AgreeInv
<1>3. d \notin raced
  BY RacedGrows
<1>4. CASE Sends(r) \/ Handles(r)
  <2>1. UNCHANGED <<db, entry>> /\ d = req[r].d
    BY <1>4, UpdateMoves, RequestAlone DEF arretes
  <2>2. Open(d) /\ e = Row(d).link /\ OutcomeOf(e)' = OutcomeOf(e)
    BY <2>1 DEF Open, Row, OutcomeOf
  <2>. QED
    BY <1>2, <1>3, <1>4, <2>1, <2>2, UpdateMoves
<1>5. CASE req'[r] = req[r]
  <2>1. d \in Dossier /\ d = req[r].d /\ Row(d) # None
    BY <1>1, <1>5
  <2>2. Open(d) /\ (e # Row(d).link => mon.pc \in LinkingPcs /\ d = mon.d)
    BY <2>1, Lasting
  <2>3. Patched(d)
    BY <1>1, <1>5, <2>1 DEF Patched, Updating
  <2>4. d \notin mon.held
    BY <1>3, <2>3 DEF IInv, AgreeInv
  <2>5. e = Row(d).link
    BY <2>2, <2>4 DEF IInv, MonInv, RunInv
  <2>6. OutcomeOf(e)' = OutcomeOf(e)
    BY <1>3, <2>1, <2>2, <2>4, <2>5, OutcomeKept
  <2>. QED
    BY <1>2, <1>3, <1>5, <2>1, <2>2, <2>5, <2>6
<1>. QED
  BY <1>4, <1>5, WhoActs

(* A dossier in the hands of the monitor while a PATCH is under way raced. *)
LEMMA TakenInHand ==
  ASSUME IInv, Runs, NEW d \in mon'.held, d \notin mon.held
  PROVE  Held(d)
<1>1. mon \in Run(mon.succ, mon.todo, mon.letters)
  BY DEF IInv, MonInv, RunInv
<1>2. mon'.pc \in RevisingPcs \cup LinkingPcs
  <2>1. MonInv'
    BY MonKept DEF Next
  <2>. QED
    BY <2>1 DEF MonInv, RunInv, Run
<1>3. CASE mon'.pc \in RevisingPcs
  BY <1>3, RevisingMoves DEF Begins, Rewrites, GoesOn, SameHands, Passes, Takes
<1>4. CASE LinkWrite /\ mon'.pc \in LinkingPcs
  <2>1. mon' = MonRest \/ mon' = [mon EXCEPT !.pc = "date"] \/ mon' = [mon EXCEPT !.pc = "apply", !.held = {}]
    BY <1>4, LinkWrites
  <2>2. /\ MonRest.held = {} /\ [mon EXCEPT !.pc = "date"].held = mon.held
        /\ [mon EXCEPT !.pc = "apply", !.held = {}].held = {}
    BY <1>1 DEF MonRest, Run
  <2>. QED
    BY <2>1, <2>2
<1>5. ASSUME NEW l \in mon.todo, ApplyRead(l) PROVE Held(d)
  <2>1. CASE ~ Open(l.d)
    <3>1. mon' = [mon EXCEPT !.todo = @ \ {l}]
      BY <1>5, <2>1 DEF ApplyRead, Monitors
    <3>2. mon'.held = mon.held
      BY <1>1, <3>1 DEF Run
    <3>. QED
      BY <3>2
  <2>2. CASE Open(l.d)
    <3>1. Held(l.d) /\ mon' = [mon EXCEPT !.pc = "linkWrite", !.todo = @ \ {l}, !.held = {l.d}, !.d = l.d,
                                 !.link = l.e, !.status = StatusFresh(l)]
      BY <1>5, <2>2 DEF ApplyRead, Monitors
    <3>2. mon'.held = {l.d}
      BY <1>1, <3>1 DEF Run
    <3>. QED
      BY <3>1, <3>2
  <2>. QED
    BY <2>1, <2>2
<1>. QED
  BY <1>2, <1>3, <1>4, <1>5, RunArrives

LEMMA PatchesKept ==
  ASSUME IInv, [Next]_vars, NEW d \in mon'.held, Patched(d)'
  PROVE  d \in raced'
<1>1. d \in mon.held /\ Patched(d) => d \in raced'
  BY RacedGrows DEF IInv, AgreeInv
<1>2. ASSUME NEW r \in Req, Sends(r) \/ Handles(r), \A s \in Req \ {r} : req'[s] = req[s], UNCHANGED mon
      PROVE  d \in raced'
  <2>1. PICK s \in Req : req'[s].kind = "update" /\ req'[s].d = d /\ req'[s].pc \in Updating
    BY DEF Patched, Updating
  <2>2. CASE s # r
    BY <1>1, <1>2, <2>1, <2>2 DEF Patched, Updating
  <2>3. CASE s = r
    <3>1. req[r].d = d /\ (raced' = Overlap(d) \/ req[r].pc \in Updating)
      BY <1>2, <2>1, <2>3, UpdateMoves
    <3>2. req[r].pc \in Updating => Patched(d)
      BY <3>1 DEF IInv, ReqInv, RequestInv, Patched, Updating
    <3>. QED
      BY <1>1, <1>2, <3>1, <3>2 DEF Overlap
  <2>. QED
    BY <2>2, <2>3
<1>3. ASSUME UNCHANGED req PROVE Patched(d)
  BY <1>3 DEF Patched
<1>4. CASE Runs /\ UNCHANGED req
  <2>1. CASE d \in mon.held
    BY <1>1, <1>3, <1>4, <2>1
  <2>2. CASE d \notin mon.held
    BY <1>3, <1>4, <2>2, TakenInHand DEF Held
  <2>. QED
    BY <2>1, <2>2
<1>5. CASE UNCHANGED <<req, mon>>
  BY <1>1, <1>3, <1>5
<1>. QED
  BY <1>2, <1>4, <1>5, WhoActs

(* The link in hand carries the status its dossier will have.              *)
LEMMA LinksAgree ==
  ASSUME IInv, [Next]_vars, mon'.pc \in LinkingPcs, NEW d, d = mon'.d, Open(d)', d \notin raced',
         NEW e, e = mon'.link
  PROVE  mon'.status = SinistreStatus(OutcomeOf(e)', Row(d)'.declared)
<1>1. mon \in Run(mon.succ, mon.todo, mon.letters) /\ d \notin raced
  BY RacedGrows DEF IInv, MonInv, RunInv
<1>2. ASSUME mon.pc \in LinkingPcs
      PROVE  /\ mon.d \in Dossier /\ mon.held = {mon.d} /\ Row(mon.d) # None
             /\ Open(mon.d) /\ mon.d \notin raced => mon.status = GivenBy(OutcomeOf(mon.link), mon.d)
  BY <1>2, MonHolding DEF IInv, MonInv, RunInv, AgreeInv
<1>3. CASE LinkWrite
  <2>1. mon' = [mon EXCEPT !.pc = "date"] /\ UNCHANGED db
    <3>1. MonRest.pc = "idle" /\ [mon EXCEPT !.pc = "apply", !.held = {}].pc = "apply"
      BY <1>1 DEF MonRest, Run
    <3>. QED
      BY <1>3, <3>1, LinkWrites DEF LinkingPcs, Puts, Write
  <2>2. mon'.d = mon.d /\ mon'.link = mon.link /\ mon'.status = mon.status
    BY <1>1, <2>1 DEF Run
  <2>3. UNCHANGED entry /\ mon.pc \in LinkingPcs
    BY <1>3 DEF LinkWrite, Alone, arretes, LinkingPcs
  <2>4. Row(d)' = Row(d) /\ Open(d) /\ OutcomeOf(e)' = OutcomeOf(e)
    BY <2>1, <2>3 DEF Row, Open, OutcomeOf
  <2>. QED
    BY <1>1, <1>2, <2>2, <2>3, <2>4 DEF GivenBy
<1>4. ASSUME NEW l \in mon.todo, ApplyRead(l) PROVE mon'.status = SinistreStatus(OutcomeOf(e)', Row(d)'.declared)
  <2>1. mon.pc = "apply" /\ UNCHANGED <<db, entry>>
    BY <1>4 DEF ApplyRead, Alone, arretes
  <2>2. CASE ~ Open(l.d)
    <3>1. mon' = [mon EXCEPT !.todo = @ \ {l}]
      BY <1>4, <2>2 DEF ApplyRead, Monitors
    <3>2. mon'.pc = "apply"
      BY <1>1, <2>1, <3>1 DEF Run
    <3>. QED
      BY <3>2 DEF LinkingPcs
  <2>3. CASE Open(l.d)
    <3>1. mon' = [mon EXCEPT !.pc = "linkWrite", !.todo = @ \ {l}, !.held = {l.d}, !.d = l.d,
                              !.link = l.e, !.status = StatusFresh(l)]
      BY <1>4, <2>3 DEF ApplyRead, Monitors
    <3>2. mon'.d = l.d /\ mon'.link = l.e /\ mon'.status = StatusFresh(l)
      BY <1>1, <3>1 DEF Run
    <3>3. Row(d)' = Row(d) /\ OutcomeOf(e)' = OutcomeOf(e)
      BY <2>1 DEF Row, OutcomeOf
    <3>. QED
      BY <3>2, <3>3 DEF StatusFresh
  <2>. QED
    BY <2>2, <2>3
<1>5. CASE UNCHANGED mon
  <2>1. mon.pc \in LinkingPcs /\ d = mon.d /\ e = mon.link /\ d \in Dossier /\ Row(d) # None
    BY <1>2, <1>5
  <2>2. Open(d) /\ mon.status = GivenBy(OutcomeOf(e), d)
    BY <1>1, <1>2, <2>1, Lasting
  <2>3. ~ LinkWrite /\ ~ LinkDate /\ ~ ReviseCommits /\ ~ Publish
    <3>1. Publish => mon'.pc = "link"
      BY <1>1 DEF Publish, Goes, Monitors, Run
    <3>. QED
      BY <1>5, <2>1, <3>1, MonitorWrites DEF LinkingPcs
  <2>4. UNCHANGED entry
    BY <2>3, ArreteSteps DEF arretes
  <2>5. Row(d)'.declared = Row(d).declared
    <3>1. ~ Declares(d)
      <4>1. d \notin mon.held => FALSE
        BY <1>2, <2>1
      <4>2. Patched(d) => d \in raced
        BY <4>1 DEF IInv, AgreeInv
      <4>. QED
        BY <1>1, <4>2 DEF Declares, UpdateInsurer, Patched, IInv, ReqInv, RequestInv, Updating
    <3>2. ~ Starts(d)
      BY <2>1 DEF Starts, Insert
    <3>3. ~ Ends(d)
      BY DEF Ends, Open, IsRow
    <3>4. ~ Links(d) /\ ~ Revises(d)
      BY <2>3 DEF Links, Revises
    <3>. QED
      BY <2>1, <3>1, <3>2, <3>3, <3>4, DossierSteps DEF DossierStep, Steady
  <2>. QED
    BY <1>5, <2>2, <2>4, <2>5 DEF GivenBy, OutcomeOf
<1>. QED
  BY <1>3, <1>4, <1>5, RunArrives, WhoActs

(* The dossiers the revision has passed, or has to pass.                   *)
InHand(d) ==
  /\ d \in mon.held =>
       LET row == pending[Monitor][<<d, "sinistre">>] IN
       \/ row # None /\ row.status = Becomes(d)
       \/ row = None /\ Row(d).status = Becomes(d)
       \/ mon.d = d /\ mon.pc = "status"
  /\ mon.d = d /\ mon.pc = "status" => mon.change.status = Becomes(d)
  /\ d \notin mon.todo \cup mon.held /\ Printed(d) =>
       NextText.lines[Row(d).link].outcome = entry[Row(d).link].outcome

LEMMA SameText ==
  ASSUME UNCHANGED arretes, NEW d, Row(d)'.link = Row(d).link, Row(d)'.declared = Row(d).declared
  PROVE  /\ Becomes(d)' = Becomes(d) /\ Printed(d)' = Printed(d)
         /\ NextText' = NextText /\ UNCHANGED entry
BY DEF Becomes, GivenBy, Printed, NextText, arretes

LEMMA InHandKept ==
  ASSUME IInv, [Next]_vars, mon'.pc \in RevisingPcs, NEW d \in Dossier, Open(d)', d \notin raced'
  PROVE  InHand(d)'
<1> DEFINE s == <<d, "sinistre">>
           w == pending[Monitor][s]
<1>1. UNCHANGED arretes /\ mon \in Run(mon.succ, mon.todo, mon.letters) /\ d \notin raced
  BY RevisingStays, RacedGrows DEF IInv, MonInv, RunInv
<1>2. ASSUME mon.pc \in RevisingPcs, Open(d) PROVE InHand(d)
  BY <1>1, <1>2, Rewriting DEF IInv, AgreeInv, InHand
<1>3. CASE Runs
  <2>1. UNCHANGED db /\ Row(d)' = Row(d) /\ Open(d)
    BY <1>3, RevisingMoves DEF Row, Open
  <2>2. /\ Becomes(d)' = Becomes(d) /\ Printed(d)' = Printed(d)
        /\ NextText' = NextText /\ UNCHANGED entry
    BY <1>1, <2>1, SameText
  <2>3. CASE Begins
    <3>1. mon' = [mon EXCEPT !.pc = "revise",
             !.todo = {x \in Dossier : Open(x) /\ Row(x).link \in
                         {e \in Entry : NextText.lines[e] # None /\
                            (NextText.lines[e] # entry[e]
                               \/ NextText.date # publishedAt[NextText.arrete])}}]
      BY <2>3 DEF Begins, Revise, Monitors
    <3>2. mon'.todo = {x \in Dossier : Open(x) /\ Row(x).link \in
                         {e \in Entry : NextText.lines[e] # None /\
                            (NextText.lines[e] # entry[e]
                               \/ NextText.date # publishedAt[NextText.arrete])}}
      BY <1>1, <3>1 DEF Run
    <3>3. d \notin mon'.todo /\ Printed(d) => NextText.lines[Row(d).link] = entry[Row(d).link]
      BY <2>1, <3>2 DEF Printed
    <3>. QED
      BY <2>1, <2>2, <2>3, <3>3 DEF Begins, InHand
  <2>4. ASSUME NEW x \in Dossier, Passes(x) PROVE InHand(d)'
    <3>1. InHand(d) /\ x # d
      BY <1>2, <2>1, <2>4 DEF Passes, RevisingPcs
    <3>. QED
      BY <2>1, <2>2, <2>4, <3>1 DEF Passes, InHand
  <2>5. ASSUME NEW x \in Dossier, Takes(x) PROVE InHand(d)'
    <3>1. /\ InHand(d) /\ mon.pc = "revise" /\ UNCHANGED pending /\ Revising
          /\ mon'.todo = mon.todo \ {x} /\ mon'.held = mon.held \cup {x}
          /\ mon'.d = x /\ mon'.change = Change(x)
          /\ mon'.pc = NextWrite(Change(x), {"status", "insurer", "declaration"})
      BY <1>2, <2>1, <2>5 DEF Takes, RevisingPcs, Revising
    <3>2. CASE x # d
      BY <2>1, <2>2, <3>1, <3>2 DEF InHand
    <3>3. CASE x = d
      <4>1. /\ Change(d).status = Becomes(d)
            /\ "status" \in Change(d).writes <=> Row(d).status # Becomes(d)
        BY <2>1, <2>5, <3>1, <3>3, ChangeType DEF Takes
      <4>2. mon'.pc = "status" <=> Row(d).status # Becomes(d)
        BY <3>1, <3>3, <4>1, NextWrites
      <4>3. w # None => w.status = Becomes(d)
        <5>1. w # None => d \in mon.held
          BY <3>1 DEF IInv, WroteInv
        <5>. QED
          BY <3>1, <5>1 DEF InHand
      <4>. QED
        BY <2>1, <2>2, <3>1, <3>3, <4>1, <4>2, <4>3 DEF InHand
    <3>. QED
      BY <3>2, <3>3
  <2>6. CASE Rewrites
    <3>1. InHand(d) /\ mon.pc = "status" /\ SameHands
      BY <1>2, <2>1, <2>6 DEF Rewrites, RevisingPcs
    <3>2. CASE UNCHANGED pending /\ d # mon.d
      BY <2>1, <2>2, <3>1, <3>2 DEF InHand, SameHands
    <3> DEFINE k   == <<mon.d, "sinistre">>
               row == [Row(mon.d) EXCEPT !.status = mon.change.status]
    <3>3. CASE Open(mon.d) /\ row \in SinistreRow /\ Puts(Monitor, k, row)
      <4>1. \A j \in Key : pending'[Monitor][j] = IF j = k THEN row ELSE pending[Monitor][j]
        BY <3>3 DEF Puts, Write, IInv, PendInv
      <4>2. s \in Key
        BY Keys
      <4>3. CASE d = mon.d
        <5>1. Row(d) \in SinistreRow
          BY <2>1, RowTyped DEF IInv
        <5>2. row.status = mon.change.status
          BY <4>3, <5>1 DEF SinistreRow
        <5>3. pending'[Monitor][s] = row /\ row # None
          BY <3>3, <4>1, <4>2, <4>3, RowAssumption
        <5>. QED
          BY <2>1, <2>2, <3>1, <4>3, <5>2, <5>3 DEF InHand, SameHands
      <4>4. CASE d # mon.d
        <5>1. pending'[Monitor][s] = w
          BY <4>1, <4>2, <4>4
        <5>. QED
          BY <2>1, <2>2, <3>1, <4>4, <5>1 DEF InHand, SameHands
      <4>. QED
        BY <4>3, <4>4
    <3>. QED
      BY <2>1, <2>6, <3>2, <3>3 DEF Rewrites
  <2>7. CASE GoesOn
    <3>1. InHand(d) /\ mon.pc # "status" /\ SameHands /\ pending'[Monitor][s] = w
      BY <1>2, <2>1, <2>7 DEF GoesOn
    <3>. QED
      BY <2>1, <2>2, <3>1 DEF InHand, SameHands
  <2>. QED
    BY <1>3, <2>3, <2>4, <2>5, <2>6, <2>7, RevisingMoves
<1>4. CASE UNCHANGED mon /\ pending'[Monitor] = pending[Monitor]
  <2>1. ~ LinkWrite /\ ~ LinkDate /\ ~ ReviseCommits
    BY <1>4, MonitorWrites
  <2>2. ~ Starts(d)
    <3>1. Revising
      BY <1>4, Rewriting
    <3>. QED
      BY <3>1 DEF Starts, Insert
  <2>3. ~ Ends(d)
    BY DEF Ends, Open, IsRow
  <2>4. CASE Steady(d)
    <3>1. Row(d)' = Row(d) /\ Open(d)
      BY <2>4 DEF Steady, Open
    <3>2. /\ Becomes(d)' = Becomes(d) /\ Printed(d)' = Printed(d)
          /\ NextText' = NextText /\ UNCHANGED entry
      BY <1>1, <3>1, SameText
    <3>. QED
      BY <1>2, <1>4, <3>1, <3>2 DEF InHand
  <2>5. CASE Declares(d)
    <3>1. PICK r \in Req : /\ UpdateInsurer(r) /\ req[r].d = d /\ Open(d)
              /\ Row(d)' = [Row(d) EXCEPT !.declared = req[r].date,
                                          !.status = SinistreStatus(req[r].outcome, req[r].date)]
      BY <2>5 DEF Declares
    <3>2. Patched(d)
      BY <3>1 DEF UpdateInsurer, Patched, IInv, ReqInv, RequestInv, Updating
    <3>3. d \notin mon.held
      BY <1>1, <3>2 DEF IInv, AgreeInv
    <3>4. mon.d = d => mon.pc # "status"
      BY <1>4, <3>3, MonHolding DEF RevisingPcs
    <3>5. Row(d)'.link = Row(d).link
      BY <3>1, RowTyped DEF IInv, SinistreRow
    <3>6. Printed(d)' = Printed(d) /\ NextText' = NextText /\ UNCHANGED entry
      BY <1>1, <3>5 DEF Printed, NextText, arretes
    <3>. QED
      BY <1>2, <1>4, <3>1, <3>3, <3>4, <3>5, <3>6 DEF InHand
  <2>. QED
    BY <2>1, <2>2, <2>3, <2>4, <2>5, DossierSteps DEF DossierStep, Links, Revises
<1>. QED
  BY <1>3, <1>4, WhoActs

LEMMA AgreeKept == ASSUME IInv, [Next]_vars PROVE AgreeInv'
<1>1. RowsAgree'
  <2>1. ASSUME NEW d \in Dossier, Open(d)'
        PROVE  /\ Mark(d)' = Row(d)'.declared
               /\ d \notin raced' => Agrees(d)'
    BY <2>1, MarksKept, StatusKept
  <2>. QED
    BY <2>1 DEF RowsAgree, Mark, Agrees, GivenBy
<1>2. ASSUME NEW r \in Req, req'[r].pc \in Updating, Open(req[r].d)', req'[r].d \notin raced'
      PROVE  req'[r].outcome = OutcomeOf(Row(req[r].d).link)'
  <2>1. \A d, e : d = req'[r].d /\ Open(d)' /\ d \notin raced' /\ e = Row(d)'.link
                    => req'[r].outcome = OutcomeOf(e)'
    BY <1>2, UpdatesKept
  <2>. QED
    BY <1>2, <2>1
<1>3. \A d \in mon'.held : Patched(d)' => d \in raced'
  BY PatchesKept
<1>4. ASSUME mon'.pc \in LinkingPcs, Open(mon.d)', mon'.d \notin raced'
      PROVE  mon'.status = GivenBy(OutcomeOf(mon.link), mon.d)'
  <2>1. \A d, e : d = mon'.d /\ Open(d)' /\ d \notin raced' /\ e = mon'.link
                    => mon'.status = SinistreStatus(OutcomeOf(e)', Row(d)'.declared)
    BY <1>4, LinksAgree
  <2>. QED
    BY <1>4, <2>1 DEF GivenBy
<1>5. ASSUME Revising', NEW d \in Dossier, Open(d)', d \notin raced' PROVE InHand(d)'
  <2>1. mon'.pc \in RevisingPcs
    BY <1>5 DEF Revising, RevisingPcs
  <2>. QED
    BY <1>5, <2>1, InHandKept
<1>. QED
  BY <1>1, <1>2, <1>3, <1>4, <1>5 DEF AgreeInv, InHand

-----------------------------------------------------------------------------
LEMMA IInvKept == ASSUME IInv, [Next]_vars PROVE IInv'
<1>1. RowInv' /\ PendInv'
  BY StepDb, DbKept DEF IInv
<1>. QED
  BY <1>1, Growing, LinkKept, ReqKept, MonKept, HoldKept, TwinKept, WroteKept, AgreeKept DEF IInv

(* Every reachable state has the invariant: rows of their types, present   *)
(* together and locked by one transaction at a time, what each request and *)
(* the monitor hold and have written, and what they know of the dossier.   *)
THEOREM DossiersInvariant == Spec => []IInv
<1>1. Init => IInv
  BY InitIInv
<1>2. IInv /\ [Next]_vars => IInv'
  BY IInvKept
<1>. QED
  BY <1>1, <1>2, PTL DEF Spec

(* A dossier's status and its declaration step are the ones its link and   *)
(* its date give, whatever update, updateStep, remove, applyRectificatif   *)
(* and linkSinistres do to it at once, but for the races the property      *)
(* names.                                                                  *)
THEOREM RowsAlwaysAgree == Spec => []RowsAgree
<1>1. IInv => RowsAgree
  BY DEF IInv, AgreeInv
<1>. QED
  BY <1>1, DossiersInvariant, PTL

(* create makes no second dossier of the same commune, risk and date, nor  *)
(* an unconfirmed one beside another, for any number of requests at once.  *)
THEOREM NoTwins == Spec => NoTwin
<1> DEFINE NoneBeside(r) == req[r].pc = "insert" =>
                          \A o \in Others(req[r].codes, req[r].damage) :
                            req[r].confirmed /\ Row(o).event # req[r].damage.date
<1>1. IInv => \A r \in Req : NoneBeside(r)
  BY DEF IInv, TwinInv, Inserting, StandsInTheWay
<1>2. IInv /\ [Next]_vars =>
        [\A r \in Req, d \in Dossier :
           req[r].pc = "insert" /\ ~ Open(d) /\ IsRow(Row(d)') =>
             \A o \in Others(req[r].codes, req[r].damage) :
               req[r].confirmed /\ Row(o).event # req[r].damage.date]_vars
  BY <1>1
<1>. QED
  BY <1>2, DossiersInvariant, PTL DEF Spec, NoTwin

-----------------------------------------------------------------------------
(* Who waits for whom.                                                     *)
LEMMA WantedKeys == ASSUME IInv, NEW p \in Proc PROVE Wanted(p) \subseteq Key
<1>1. CASE p = Monitor
  BY <1>1, MonHolding DEF Wanted, RevisingPcs, LinkingPcs, Part
<1>2. CASE p \in Req /\ p # Monitor
  <2>1. /\ req[p].pc \notin Creating \cup {"idle"} => req[p].d \in Dossier
        /\ req[p].pc = "write" => req[p].part = "insurer"
    BY <1>2 DEF IInv, ReqInv, RequestInv
  <2>2. req[p].pc \in {"status", "mark", "insurer", "write", "cascade", "read"} => req[p].d \in Dossier
    BY <2>1 DEF Creating
  <2>. QED
    BY <1>2, <2>1, <2>2, Keys DEF Wanted, Key
<1>. QED
  BY <1>1, <1>2 DEF Proc

(* A request that is waited for holds its dossier, and what it waits for   *)
(* in turn is of that dossier: only the revision can hold that.            *)
LEMMA WaitedFor ==
  ASSUME IInv, NEW p \in Proc, NEW q \in Req, WaitsFor(p, q), NEW u \in Proc, WaitsFor(q, u)
  PROVE  u = Monitor /\ Revising
<1>1. q \in Proc /\ q # Monitor /\ Monitor \in Proc
  BY ProcAssumption DEF Proc
<1>2. PICK k \in Key : pending[q][k] # None
  <2>1. p = Monitor /\ mon.pc = "letter" => <<mon.d, "sinistre">> \in Key
    BY MonHolding, Keys DEF RevisingPcs
  <2>. QED
    BY <2>1, WantedKeys, Keys DEF WaitsFor
<1>3. /\ req[q].pc \in {"mark", "insurer", "cascade"} /\ req[q].d \in Dossier
      /\ pending[q][<<req[q].d, "sinistre">>] # None
  BY <1>2, Holding DEF IInv, HoldInv, HoldOf
<1>4. PICK j \in Wanted(q) : pending[u][j] # None
  BY <1>1 DEF WaitsFor
<1>5. j \in Key /\ j[1] = req[q].d
  <2>1. j \in Key
    BY <1>1, <1>4, WantedKeys
  <2>. QED
    BY <1>1, <1>3, <1>4, <2>1 DEF Wanted
<1>6. pending[u][<<req[q].d, "sinistre">>] = None
  BY <1>1, <1>3, Keys DEF WaitsFor, IInv, PendInv, Locked
<1>7. u \notin Req
  BY <1>4, <1>5, <1>6 DEF IInv, HoldInv, HoldOf
<1>8. u = Monitor
  BY <1>7 DEF Proc
<1>. QED
  BY <1>4, <1>5, <1>6, <1>8, Keys DEF IInv, MonHold

(* Only the revision of an arrete can close a circle of waiting            *)
(* transactions: update, updateStep, remove and the link pass lock the     *)
(* dossier before its steps.                                               *)
THEOREM LocksInOrder == Spec => []LockOrder
<1>1. ASSUME IInv PROVE LockOrder
  <2> SUFFICES ASSUME NEW S \in SUBSET Proc, Circle(S) PROVE Monitor \in S /\ Revising
    BY DEF LockOrder
  <2>1. PICK p \in S : TRUE
    BY DEF Circle
  <2>2. PICK q \in S : WaitsFor(p, q)
    BY <2>1 DEF Circle
  <2>3. PICK u \in S : WaitsFor(q, u)
    BY <2>2 DEF Circle
  <2>4. PICK x \in S : WaitsFor(u, x)
    BY <2>3 DEF Circle
  <2>5. CASE q \in Req
    BY <1>1, <2>1, <2>2, <2>3, <2>5, WaitedFor
  <2>6. CASE q = Monitor
    <3>1. u \in Req
      BY <2>3, <2>6 DEF WaitsFor, Proc
    <3>. QED
      BY <1>1, <2>2, <2>3, <2>4, <2>6, <3>1, WaitedFor
  <2>. QED
    BY <2>5, <2>6 DEF Proc
<1>. QED
  BY <1>1, DossiersInvariant, PTL

-----------------------------------------------------------------------------
(* The window of a batch.  A finite set has a point where a function is    *)
(* highest: a least subset without one would lose nothing by losing any    *)
(* of its members.                                                         *)
LEMMA Highest ==
  ASSUME NEW S, IsFiniteSet(S), NEW f \in [S -> Int]
  PROVE  \A U \in SUBSET S : U # {} => \E x \in U : \A y \in U : f[y] <= f[x]
<1> DEFINE Has(U) == \E x \in U : \A y \in U : f[y] <= f[x]
           T == {U \in SUBSET S : U # {} /\ ~ Has(U)}
<1>1. SUFFICES ASSUME T # {} PROVE FALSE
  OBVIOUS
<1>2. IsWellFoundedOn(StrictSubsetOrdering(S), SUBSET S)
  BY FS_StrictSubsetOrderingWellFounded, FS_FiniteSubsetsOfFinite
<1>3. T \subseteq SUBSET S
  OBVIOUS
<1> HIDE DEF T
<1>4. PICK U \in T : \A V \in T : <<V, U>> \notin StrictSubsetOrdering(S)
  BY <1>1, <1>2, <1>3, WFMin
<1>5. U \in SUBSET S /\ U # {} /\ ~ Has(U)
  BY DEF T
<1>6. PICK x \in U : TRUE
  BY <1>5
<1>7. U \ {x} # {}
  <2>1. f[x] \in Int
    BY <1>5, <1>6
  <2>. QED
    BY <1>5, <1>6, <2>1
<1>8. Has(U \ {x})
  <2>1. <<U \ {x}, U>> \in StrictSubsetOrdering(S)
    BY <1>5, <1>6 DEF StrictSubsetOrdering
  <2>2. U \ {x} \notin T
    BY <1>4, <2>1
  <2>. QED
    BY <1>5, <1>7, <2>2 DEF T
<1>9. PICK m \in U \ {x} : \A y \in U \ {x} : f[y] <= f[m]
  BY <1>8
<1>10. \A y \in U : f[y] \in Int
  BY <1>5
<1>. QED
  BY <1>5, <1>6, <1>9, <1>10

LEMMA Extremes ==
  ASSUME NEW S, IsFiniteSet(S), S # {}, NEW f \in [S -> Int]
  PROVE  LET values == {f[x] : x \in S} IN
         \A x \in S : Max(values) \in Int /\ Min(values) \in Int
                      /\ f[x] <= Max(values) /\ Min(values) <= f[x]
<1> DEFINE values == {f[x] : x \in S}
<1>1. \A x \in S : f[x] \in Int
  OBVIOUS
<1>2. PICK h \in S : \A y \in S : f[y] <= f[h]
  BY Highest
<1>3. PICK l \in S : \A y \in S : f[l] <= f[y]
  <2> DEFINE g == [x \in S |-> - f[x]]
  <2>1. g \in [S -> Int]
    BY <1>1
  <2>2. PICK l \in S : \A y \in S : g[y] <= g[l]
    <3> HIDE DEF g
    <3>. QED
      BY <2>1, Highest
  <2>3. \A y \in S : f[l] <= f[y]
    <3> SUFFICES ASSUME NEW y \in S PROVE f[l] <= f[y]
      OBVIOUS
    <3>1. g[y] = - f[y] /\ g[l] = - f[l] /\ g[y] <= g[l]
      BY <2>2
    <3>. QED
      BY <1>1, <2>2, <3>1
  <2>. QED
    BY <2>2, <2>3
<1>4. Max(values) \in values /\ \A v \in values : Max(values) >= v
  <2>1. \E v \in values : \A w \in values : v >= w
    <3>1. f[h] \in values /\ \A w \in values : f[h] >= w
      BY <1>1, <1>2
    <3>. QED
      BY <3>1
  <2>. QED
    BY <2>1 DEF Max
<1>5. Min(values) \in values /\ \A v \in values : Min(values) =< v
  <2>1. \E v \in values : \A w \in values : v =< w
    <3>1. f[l] \in values /\ \A w \in values : f[l] =< w
      BY <1>1, <1>3
    <3>. QED
      BY <3>1
  <2>. QED
    BY <2>1 DEF Min
<1> SUFFICES ASSUME NEW x \in S
             PROVE  Max(values) \in Int /\ Min(values) \in Int
                    /\ f[x] <= Max(values) /\ Min(values) <= f[x]
  OBVIOUS
<1>6. f[x] \in values /\ values \subseteq Int
  BY <1>1
<1> HIDE DEF values
<1>. QED
  BY <1>1, <1>4, <1>5, <1>6

(* What covers a candidate's date is in the window of its batch.           *)
LEMMA WindowMissesNone ==
  ASSUME IInv, NEW d \in Candidates, NEW e \in Entry, NEW to, Covers(e, to, DamageOf(d))
  PROVE  e \in Window(Candidates)
<1> DEFINE f == [c \in Candidates |-> Row(c).event]
           dates == {Row(c).event : c \in Candidates}
<1>1. Candidates \subseteq Dossier /\ IsFiniteSet(Candidates)
  BY DossierAssumption, FS_Subset DEF Candidates
<1>2. f \in [Candidates -> Int]
  <2>1. \A c \in Candidates : c \in Dossier /\ Open(c)
    BY DEF Candidates
  <2>2. \A c \in Candidates : Row(c).event \in Int
    BY <2>1, RowTyped, DayAssumption DEF IInv, SinistreRow
  <2>. QED
    BY <2>2
<1>3. dates = {f[c] : c \in Candidates}
  OBVIOUS
<1>4. /\ Max(dates) \in Int /\ Min(dates) \in Int
      /\ Row(d).event <= Max(dates) /\ Min(dates) <= Row(d).event
  <2>1. f[d] = Row(d).event
    OBVIOUS
  <2>. QED
    <3> HIDE DEF f
    <3>. QED
      BY <1>1, <1>2, <1>3, <2>1, Extremes
<1>5. /\ entry[e] # None /\ entry[e].start \in Int /\ entry[e].end \in Int
      /\ entry[e].start <= Row(d).event /\ Row(d).event <= entry[e].end
  BY DEF IInv, ArreteInv, Covers, DamageOf
<1>6. Row(d).event \in Int
  BY <1>2
<1> HIDE DEF dates
<1>7. entry[e].start <= Max(dates) /\ entry[e].end >= Min(dates)
  BY <1>4, <1>5, <1>6
<1>. QED
  BY <1>5, <1>7 DEF Window, dates

(* Over the window or over every entry, a candidate's winners are the same. *)
LEMMA SameWinners ==
  ASSUME IInv, NEW d \in Candidates, NEW to
  PROVE  Winners(Window(Candidates), to, DamageOf(d)) = Winners(Entry, to, DamageOf(d))
<1>1. {e \in Window(Candidates) : Covers(e, to, DamageOf(d))} = {e \in Entry : Covers(e, to, DamageOf(d))}
  BY WindowMissesNone DEF Window
<1>. QED
  BY <1>1 DEF Winners

LEMMA OnlyDecides ==
  ASSUME IInv, [Next]_vars, mon.pc = "link", mon'.pc = "apply"
  PROVE  DecideLinks
<1>1. mon' # mon
  OBVIOUS
<1>2. ~ UNCHANGED vars
  BY <1>1 DEF vars
<1>3. Runs
  <2>1. \A r \in Req : ~ Sends(r) /\ ~ Handles(r)
    BY <1>1, RequestAlone
  <2>2. \A c \in DOMAIN Merger : ~ Merge(c)
    BY <1>1 DEF Merge
  <2>. QED
    BY <1>2, <2>1, <2>2 DEF Next
<1>4. ~ VictimMonitor
  <2>1. mon = [f \in DOMAIN mon |-> mon[f]] /\ "pc" \in DOMAIN mon
    BY DEF IInv, MonInv, RunInv, Run
  <2>2. Abort => mon'.pc = "link"
    BY <2>1 DEF Abort, Monitors
  <2>3. Monitors(MonRest) => mon'.pc = "idle"
    BY DEF Monitors, MonRest
  <2>. QED
    BY <2>2, <2>3 DEF VictimMonitor
<1>. QED
  BY <1>3, <1>4 DEF Runs, Tick, NoText, Publish, Revise, ReviseStatus, ReviseInsurer, ReviseInsurerWrite,
     ReviseDeclaration, ReviseLetter, ReviseCommits, Recompute, LinkWrite, LinkDate, LinksDone, ApplyRead

(* linkSinistres, which reads one window of entries for all the dossiers   *)
(* of the pass, links each of them to a winner among every entry stored,   *)
(* and leaves none out that has one.                                       *)
THEOREM BatchMatchesAlone == Spec => SameMatchAlone
<1> DEFINE AsAlone == mon.pc = "link" /\ mon'.pc = "apply" =>
             \A d \in Candidates :
               LET best == Winners(Entry, mon.succ, DamageOf(d)) IN
               {l.e : l \in {l \in mon'.todo : l.d = d}} \subseteq best
               /\ (best # {} => \E l \in mon'.todo : l.d = d)
<1>1. ASSUME IInv, [Next]_vars PROVE AsAlone
  <2> SUFFICES ASSUME mon.pc = "link", mon'.pc = "apply", NEW d \in Candidates
               PROVE  LET best == Winners(Entry, mon.succ, DamageOf(d)) IN
                      {l.e : l \in {l \in mon'.todo : l.d = d}} \subseteq best
                      /\ (best # {} => \E l \in mon'.todo : l.d = d)
    OBVIOUS
  <2> DEFINE best(c) == Winners(Window(Candidates), mon.succ, DamageOf(c))
             matched == {c \in Candidates : best(c) # {}}
  <2>1. DecideLinks
    BY <1>1, OnlyDecides
  <2>2. PICK won \in [matched -> Entry] :
          /\ \A c \in matched : won[c] \in best(c)
          /\ mon'.todo = {[d |-> c, e |-> won[c], declared |-> Row(c).declared] : c \in matched}
    <3>1. mon = [f \in DOMAIN mon |-> mon[f]] /\ "todo" \in DOMAIN mon
      BY <1>1 DEF IInv, MonInv, RunInv, Run
    <3>2. Candidates # {}
      OBVIOUS
    <3>3. PICK won \in [matched -> Entry] :
            /\ \A c \in matched : won[c] \in best(c)
            /\ Monitors([mon EXCEPT !.pc = "apply",
                 !.todo = {[d |-> c, e |-> won[c], declared |-> Row(c).declared] : c \in matched}])
      BY <2>1, <3>2 DEF DecideLinks
    <3> HIDE DEF matched
    <3>4. mon'.todo = {[d |-> c, e |-> won[c], declared |-> Row(c).declared] : c \in matched}
      BY <3>1, <3>3 DEF Monitors
    <3>. QED
      BY <3>3, <3>4
  <2>3. best(d) = Winners(Entry, mon.succ, DamageOf(d))
    BY <1>1, SameWinners
  <2> HIDE DEF best
  <2>4. \A l \in mon'.todo : l.d = d => l.e \in best(d)
    BY <2>2
  <2>5. best(d) # {} => \E l \in mon'.todo : l.d = d
    <3> SUFFICES ASSUME best(d) # {} PROVE \E l \in mon'.todo : l.d = d
      OBVIOUS
    <3>1. [d |-> d, e |-> won[d], declared |-> Row(d).declared] \in mon'.todo
      BY <2>2
    <3>. QED
      BY <3>1
  <2>. QED
    BY <2>3, <2>4, <2>5
<1>2. IInv /\ [Next]_vars => [AsAlone]_vars
  BY <1>1
<1>. QED
  BY <1>2, DossiersInvariant, PTL DEF Spec, SameMatchAlone
=============================================================================
