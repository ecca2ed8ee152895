------------------------------ MODULE Dossiers ------------------------------
(* One person's dossiers, statement by statement: what SinistresService    *)
(* (create, update, updateStep, remove) and the monitor's two writers      *)
(* (applyRectificatif, linkSinistres) do to the same rows under READ       *)
(* COMMITTED.                                                              *)
(*                                                                         *)
(* A statement reads what is committed and its own transaction's writes.   *)
(* A write locks its row until its transaction ends; another writer of     *)
(* the row waits and then works on the row as committed.  A commune may    *)
(* be merged into another at any moment.  A legal date is its anchor.      *)
(***************************************************************************)
EXTENDS Referential, DossierPlan, Sequences, FiniteSetsExt

CONSTANTS
  Dossier,      \* ids a dossier may get
  Req,          \* requests in flight at once
  Damage,       \* [code, risk, date] a request may name
  Declaration,  \* days an owner may declare on
  Entry, Arrete,
  arreteOf,     \* arreteOf[e]
  texts,        \* texts the JO delivers, in order: [arrete, date, lines],
                \* lines[e] is None or [code, risks, start, end, outcome]
  Merger,       \* merger[c]: communes that may merge, and into which
  Ruled,        \* publication dates a declaration rule is in force on
  MaxRequests,  \* bound: requests ever sent
  Gone,         \* a row that was deleted
  Monitor

(* The columns of a Sinistre and of a Step.                                *)
SinistreRow ==
  [code : {damage.code : damage \in Damage}, risk : {damage.risk : damage \in Damage},
   event : {damage.date : damage \in Damage}, declared : Declaration \cup {None},
   link : Entry \cup {None},
   status : {"DECLARE", "AVANT_ARRETE", "ARRETE_PUBLIE", "ARRETE_REFUSE"}]
StepRow == [planned : Int \cup {None}, mark : Declaration \cup {None}]

ASSUME ProcAssumption == Monitor \notin Req
ASSUME DossierAssumption == IsFiniteSet(Dossier)    \* ids are UUIDs
ASSUME RowAssumption  == Gone # None /\ \A x \in {None, Gone} : x \notin SinistreRow /\ x \notin StepRow
ASSUME DayAssumption  ==
  None \notin Int /\ Declaration \subseteq Int /\ \A damage \in Damage : damage.date \in Int
ASSUME EntryAssumption ==
  None \notin Entry \cup {"RECONNU", "REFUSE"} /\ arreteOf \in [Entry -> Arrete]
ASSUME TextAssumption ==
  /\ Len(texts) \in Nat
  /\ \A i \in 1 .. Len(texts) : LET text == texts[i] IN
       /\ text.arrete \in Arrete /\ text.date \in Int
       /\ \A e \in Entry : LET line == text.lines[e] IN line # None =>
            /\ arreteOf[e] = text.arrete /\ line.outcome \in {"RECONNU", "REFUSE"}
            /\ line.start \in Int /\ line.end \in Int

VARIABLES
  db,        \* committed rows: one of Sinistre and two of Step per dossier
  pending,   \* what each transaction has written and not committed
  letter,    \* SinistreNotification
  entry, publishedAt,  \* ArreteEntry rows and Arrete.publishedAt
  succ,      \* Commune.successorCodeInsee
  req, mon,  \* the requests and the monitor's run
  ingested,  \* texts stored so far
  sent,      \* requests sent so far
  raced      \* dossiers on which a PATCH and the monitor overlapped

arretes == <<entry, publishedAt, ingested>>
vars == <<db, pending, letter, arretes, succ, req, mon, sent, raced>>

Part == {"sinistre", "declaration", "insurer"}
Key  == Dossier \X Part
Proc == Req \cup {Monitor}

Rest == [pc |-> "idle", kind |-> None, damage |-> None, confirmed |-> FALSE, codes |-> {},
         plan |-> None, d |-> None, part |-> None, date |-> None, outcome |-> None,
         published |-> None]
MonRest == [pc |-> "idle", succ |-> <<>>, todo |-> {}, held |-> {}, d |-> None,
            status |-> None, link |-> None, change |-> None, letters |-> {}]
Unplanned == [planned |-> None, mark |-> None]

-----------------------------------------------------------------------------
(* Rows, locks and transactions.                                           *)

Nothing      == [k \in Key |-> None]     \* a transaction that wrote nothing
Locked(p, k) == \E q \in Proc \ {p} : pending[q][k] # None
IsRow(row)   == row \notin {None, Gone}
Row(d)       == db[<<d, "sinistre">>]
Open(d)      == IsRow(Row(d))

Write(p, k, row)  == pending' = [pending EXCEPT ![p] = [@ EXCEPT ![k] = row]] /\ UNCHANGED db
Commit(p, writes) ==
  /\ db' = [k \in Key |-> IF writes[k] # None THEN writes[k] ELSE db[k]]
  /\ pending' = [pending EXCEPT ![p] = Nothing]
WriteAndCommit(p, k, row) == Commit(p, [pending[p] EXCEPT ![k] = row])
Rollback(p)       == pending' = [pending EXCEPT ![p] = Nothing] /\ UNCHANGED db

-----------------------------------------------------------------------------
(* matchSinistres.                                                         *)

Candidate(e) == [outcome |-> entry[e].outcome, publishedAt |-> publishedAt[arreteOf[e]]]

Covers(e, to, damage) ==
  LET line == entry[e]  code == ResolveCurrentCode(damage.code, to) IN
  /\ line # None /\ code # Unresolved
  /\ line.code # None /\ ResolveCurrentCode(line.code, to) = code
  /\ damage.risk \in line.risks
  /\ line.start <= damage.date /\ damage.date <= line.end

(* Any of the best of these entries, a tie going to the order of the rows. *)
Winners(among, to, damage) ==
  LET covering == {e \in among : Covers(e, to, damage)} IN
  {e \in covering : \A f \in covering : ~ BeatsCurrentWinner(Candidate(f), Candidate(e))}

(* matchArreteFor reads the entries whose period holds the one date.       *)
MatchArreteFor(damage) ==
  LET read == {e \in Entry : entry[e] # None /\ entry[e].start <= damage.date
                                             /\ damage.date <= entry[e].end}
      best == Winners(read, succ, damage)
  IN IF best = {} THEN {None} ELSE best

OutcomeOf(e)   == IF e = None THEN None ELSE entry[e].outcome
PublishedOf(e) == IF e = None THEN None ELSE publishedAt[arreteOf[e]]

-----------------------------------------------------------------------------
(* SinistresService.create.                                                *)

Steps(r, next) == req' = [req EXCEPT ![r] = next]
Done(r)        == Steps(r, Rest)
RestOfWorld    == UNCHANGED <<letter, arretes, succ, mon, sent>>

Codes(damage)  == CodesMergedInto(damage.code, succ)
Others(codes, damage) ==
  {d \in Dossier : Open(d) /\ Row(d).code \in codes /\ Row(d).risk = damage.risk}

(* findTwin answers the dossier of the same date, or asks about another.   *)
StandsInTheWay(codes, damage, confirmed) ==
  \E d \in Others(codes, damage) : Row(d).event = damage.date \/ ~ confirmed

Create(r, damage, confirmed, outer) ==
  /\ sent < MaxRequests /\ sent' = sent + 1 /\ req[r] = Rest
  /\ Steps(r, [Rest EXCEPT !.pc = IF outer THEN "outer" ELSE "look", !.kind = "create",
                           !.damage = damage, !.confirmed = confirmed])
  /\ UNCHANGED <<db, pending, letter, arretes, succ, mon, raced>>

Look(r) ==
  LET q == req[r]  codes == Codes(q.damage) IN
  /\ q.pc = "look"
  /\ IF StandsInTheWay(codes, q.damage, q.confirmed) THEN Done(r)
     ELSE Steps(r, [q EXCEPT !.pc = "plan", !.codes = codes])
  /\ UNCHANGED <<db, pending, raced>> /\ RestOfWorld

(* planDossier: a commune in force, its match, and the dated plan.         *)
Planned(e) ==
  [link |-> e, status |-> SinistreStatus(OutcomeOf(e), None),
   planned |-> IF OutcomeOf(e) = "RECONNU" /\ PublishedOf(e) \in Ruled
               THEN PublishedOf(e) ELSE None,
   at |-> ingested]

PlanDossier(r) ==
  LET q == req[r] IN
  /\ q.pc = "plan"
  /\ IF q.damage.code \in DOMAIN succ THEN Done(r)
     ELSE \E e \in MatchArreteFor(q.damage) :
            Steps(r, [q EXCEPT !.pc = "lock", !.plan = Planned(e)])
  /\ UNCHANGED <<db, pending, raced>> /\ RestOfWorld

Inserting == {r \in Req : req[r].pc = "insert"}

(* Mutant: the second look is taken without the lock.                      *)
RecheckUnlocked(r) ==
  LET q == req[r] IN
  /\ q.pc = "lock"
  /\ IF StandsInTheWay(q.codes, q.damage, q.confirmed) THEN Done(r)
     ELSE Steps(r, [q EXCEPT !.pc = "insert"])
  /\ UNCHANGED <<db, pending, raced>> /\ RestOfWorld

(* The advisory lock, then a second look for a twin.                       *)
Recheck(r) ==
  LET q == req[r] IN
  /\ q.pc = "lock" /\ Inserting = {}
  /\ IF StandsInTheWay(q.codes, q.damage, q.confirmed) THEN Done(r)
     ELSE Steps(r, [q EXCEPT !.pc = "insert"])
  /\ UNCHANGED <<db, pending, raced>> /\ RestOfWorld

(* drainPendingDossier hands its transaction in: all of it under the lock. *)
Drain(r) ==
  LET q == req[r]  codes == Codes(q.damage) IN
  /\ q.pc = "outer" /\ Inserting = {}
  /\ IF q.damage.code \in DOMAIN succ \/ StandsInTheWay(codes, q.damage, q.confirmed)
     THEN Done(r)
     ELSE \E e \in MatchArreteFor(q.damage) :
            Steps(r, [q EXCEPT !.pc = "insert", !.codes = codes, !.plan = Planned(e)])
  /\ UNCHANGED <<db, pending, raced>> /\ RestOfWorld

Revising == mon.pc \in {"revise", "status", "insurer", "insurerWrite", "declaration", "letter"}

(* A plan older than a text, or drawn while one is being stored.           *)
Insert(r, d) ==
  LET q == req[r]  plan == q.plan IN
  /\ q.pc = "insert" /\ Row(d) = None
  /\ Commit(r, [k \in Key |->
       CASE k[1] # d -> None
         [] k = <<d, "sinistre">> ->
              [code |-> q.damage.code, risk |-> q.damage.risk, event |-> q.damage.date,
               declared |-> None, link |-> plan.link, status |-> plan.status]
         [] k = <<d, "declaration">> -> [Unplanned EXCEPT !.planned = plan.planned]
         [] OTHER -> Unplanned])
  /\ raced' = IF plan.at # ingested \/ Revising THEN raced \cup {d} ELSE raced
  /\ Done(r) /\ RestOfWorld

-----------------------------------------------------------------------------
(* update, updateStep and remove.                                          *)

Send(r, q) ==
  /\ sent < MaxRequests /\ sent' = sent + 1 /\ req[r] = Rest
  /\ Steps(r, q)
  /\ UNCHANGED <<db, pending, letter, arretes, succ, mon, raced>>

Overlap(d) == IF d \in mon.held THEN raced \cup {d} ELSE raced

UpdateRead(r) ==
  LET q == req[r]  row == Row(q.d) IN
  /\ q.pc = "read" /\ q.kind = "update"
  /\ IF ~ IsRow(row) THEN Done(r) /\ UNCHANGED raced
     ELSE IF q.date # None /\ q.date < row.event THEN Done(r) /\ UNCHANGED raced
     ELSE /\ Steps(r, [q EXCEPT !.pc = "status", !.outcome = OutcomeOf(row.link),
                                !.published = PublishedOf(row.link)])
          /\ raced' = Overlap(q.d)
  /\ UNCHANGED <<db, pending>> /\ RestOfWorld

(* The row may be gone by the time it is written: the request fails.       *)
UpdateStatus(r) ==
  LET q == req[r]  k == <<q.d, "sinistre">> IN
  /\ q.pc = "status" /\ ~ Locked(r, k)
  /\ IF ~ IsRow(db[k]) THEN Done(r) /\ Rollback(r)
     ELSE /\ Write(r, k, [db[k] EXCEPT !.declared = q.date,
                                       !.status = SinistreStatus(q.outcome, q.date)])
          /\ Steps(r, [q EXCEPT !.pc = "mark"])
  /\ UNCHANGED raced /\ RestOfWorld

(* The declaration step is marked by the date itself.                      *)
UpdateMark(r) ==
  LET q == req[r]  k == <<q.d, "declaration">> IN
  /\ q.pc = "mark" /\ ~ Locked(r, k)
  /\ Write(r, k, [db[k] EXCEPT !.mark = q.date])
  /\ Steps(r, [q EXCEPT !.pc = "insurer"])
  /\ UNCHANGED raced /\ RestOfWorld

(* recomputeDeclarationSteps, and the commit.                              *)
UpdateInsurer(r) ==
  LET q == req[r]  k == <<q.d, "insurer">> IN
  /\ q.pc = "insurer" /\ ~ Locked(r, k)
  /\ WriteAndCommit(r, k, [db[k] EXCEPT !.planned = InsurerAnchor(q.date, q.published)])
  /\ Done(r) /\ UNCHANGED raced /\ RestOfWorld

(* The declaration step has no mark of its own to set.                     *)
StepRead(r) ==
  LET q == req[r] IN
  /\ q.pc = "read" /\ q.kind = "step"
  /\ IF \/ ~ IsRow(db[<<q.d, q.part>>]) \/ q.part = "declaration"
        \/ db[<<q.d, q.part>>].mark = q.date
     THEN Done(r) ELSE Steps(r, [q EXCEPT !.pc = "write"])
  /\ UNCHANGED <<db, pending, raced>> /\ RestOfWorld

StepWrite(r) ==
  LET q == req[r]  k == <<q.d, q.part>> IN
  /\ q.pc = "write" /\ ~ Locked(r, k)
  /\ IF IsRow(db[k]) THEN WriteAndCommit(r, k, [db[k] EXCEPT !.mark = q.date])
     ELSE Rollback(r)
  /\ Done(r) /\ UNCHANGED raced /\ RestOfWorld

(* Mutant: the steps are deleted before the dossier.                       *)
RemoveStepsFirst(r) ==
  LET q == req[r] IN
  /\ q.pc = "read" /\ q.kind = "remove"
  /\ IF Open(q.d) THEN Steps(r, [q EXCEPT !.pc = "cascade"]) ELSE Done(r)
  /\ UNCHANGED <<db, pending, raced>> /\ RestOfWorld

(* The delete locks the dossier, then its cascade takes the steps.         *)
RemoveParent(r) ==
  LET q == req[r]  k == <<q.d, "sinistre">> IN
  /\ q.pc = "read" /\ q.kind = "remove" /\ ~ Locked(r, k)
  /\ IF IsRow(db[k]) THEN Write(r, k, Gone) /\ Steps(r, [q EXCEPT !.pc = "cascade"])
     ELSE Done(r) /\ Rollback(r)
  /\ UNCHANGED raced /\ RestOfWorld

Cascade(r, part) ==
  LET q == req[r]  k == <<q.d, part>> IN
  /\ q.pc = "cascade" /\ pending[r][k] = None /\ ~ Locked(r, k)
  /\ Write(r, k, Gone)
  /\ UNCHANGED <<req, raced>> /\ RestOfWorld

RemoveCommits(r) ==
  LET q == req[r] IN
  /\ q.pc = "cascade" /\ \A part \in Part : pending[r][<<q.d, part>>] = Gone
  /\ Commit(r, pending[r]) /\ Done(r)
  /\ letter' = {n \in letter : n[1] # q.d}
  /\ UNCHANGED <<arretes, succ, mon, sent, raced>>

-----------------------------------------------------------------------------
(* The monitor: one text at most, then the link pass.                      *)

Monitors(next) == mon' = next
Alone          == UNCHANGED <<letter, arretes, succ, req, sent>>
Goes(pc)       == Monitors([mon EXCEPT !.pc = pc])
NextText       == texts[ingested + 1]
Patched(d)     == \E r \in Req : req[r].kind = "update" /\ req[r].d = d
                                /\ req[r].pc \in {"status", "mark", "insurer"}
Held(d)        == raced' = IF Patched(d) THEN raced \cup {d} ELSE raced

Tick ==
  /\ mon.pc = "idle"
  /\ Monitors([MonRest EXCEPT !.pc = "next", !.succ = succ])
  /\ UNCHANGED <<db, pending, raced>> /\ Alone

NoText == mon.pc = "next" /\ Goes("link") /\ UNCHANGED <<db, pending, raced>> /\ Alone

Stored ==
  LET text == NextText IN
  /\ entry' = [e \in Entry |-> IF text.lines[e] # None THEN text.lines[e] ELSE entry[e]]
  /\ publishedAt' = [publishedAt EXCEPT ![text.arrete] = text.date]
  /\ ingested' = ingested + 1

Publish ==
  /\ mon.pc = "next" /\ ingested < Len(texts) /\ publishedAt[NextText.arrete] = None
  /\ Stored /\ Goes("link")
  /\ UNCHANGED <<db, pending, letter, succ, req, sent, raced>>

(* applyRectificatif: loadLinkedSinistres for the lines it changes, or all *)
(* the lines it prints when the publication moves.                         *)
Revise ==
  LET text == NextText
      touched == {e \in Entry : text.lines[e] # None /\
                    (text.lines[e] # entry[e] \/ text.date # publishedAt[text.arrete])} IN
  /\ mon.pc = "next" /\ ingested < Len(texts) /\ publishedAt[text.arrete] # None
  /\ Monitors([mon EXCEPT !.pc = "revise",
       !.todo = {d \in Dossier : Open(d) /\ Row(d).link \in touched}])
  /\ UNCHANGED <<db, pending, raced>> /\ Alone

(* What recomputeLinkedSinistres finds for one dossier, read fresh.        *)
Change(d) ==
  LET row     == Row(d)
      line    == NextText.lines[row.link]
      old     == db[<<d, "declaration">>].planned
      new     == CASE line.outcome = "REFUSE" -> None
                   [] line.outcome # "REFUSE" /\ NextText.date \in Ruled -> NextText.date
                   [] OTHER -> old
      insurer == InsurerAnchor(row.declared, NextText.date)
  IN [status  |-> SinistreStatus(line.outcome, row.declared),
      insurer |-> insurer, planned |-> new, appears |-> old = None /\ new # None,
      writes  |-> {w \in {"status", "insurer", "declaration"} :
                     CASE w = "status" -> row.status # SinistreStatus(line.outcome, row.declared)
                       [] w = "insurer" ->
                            InsurerAnchor(row.declared, publishedAt[NextText.arrete]) # insurer
                       [] OTHER -> old # new}]

(* The writes come in this order, those that change nothing left out.      *)
NextWrite(change, left) ==
  CASE "status" \in left \cap change.writes -> "status"
    [] "status" \notin left \cap change.writes /\ "insurer" \in left \cap change.writes -> "insurer"
    [] left \cap change.writes = {"declaration"} -> "declaration"
    [] OTHER -> "revise"

Recompute(d) ==
  /\ mon.pc = "revise" /\ d \in mon.todo
  /\ IF ~ Open(d) THEN Monitors([mon EXCEPT !.todo = @ \ {d}]) /\ UNCHANGED raced
     ELSE /\ Monitors([mon EXCEPT !.todo = @ \ {d}, !.held = @ \cup {d}, !.d = d,
                      !.change = Change(d),
                      !.pc = NextWrite(Change(d), {"status", "insurer", "declaration"})])
          /\ Held(d)
  /\ UNCHANGED <<db, pending>> /\ Alone

(* A dossier deleted since is passed over.                                 *)
ReviseStatus ==
  LET k == <<mon.d, "sinistre">> IN
  /\ mon.pc = "status" /\ ~ Locked(Monitor, k)
  /\ IF IsRow(db[k])
     THEN /\ Write(Monitor, k, [db[k] EXCEPT !.status = mon.change.status])
          /\ Goes(NextWrite(mon.change, {"insurer", "declaration"}))
     ELSE Goes("revise") /\ UNCHANGED <<db, pending>>
  /\ UNCHANGED raced /\ Alone

(* recomputeDeclarationSteps reads the steps and then writes each by id:   *)
(* one deleted in between throws.                                          *)
ReviseInsurer ==
  /\ mon.pc = "insurer"
  /\ Goes(IF IsRow(db[<<mon.d, "insurer">>]) THEN "insurerWrite"
          ELSE NextWrite(mon.change, {"declaration"}))
  /\ UNCHANGED <<db, pending, raced>> /\ Alone

(* The transaction of the text throws: it is left for a later tick.        *)
Abort == Monitors([mon EXCEPT !.pc = "link", !.todo = {}, !.held = {}, !.letters = {}])

ReviseInsurerWrite ==
  LET k == <<mon.d, "insurer">> IN
  /\ mon.pc = "insurerWrite" /\ ~ Locked(Monitor, k)
  /\ IF IsRow(db[k])
     THEN /\ Write(Monitor, k, [db[k] EXCEPT !.planned = mon.change.insurer])
          /\ Goes(NextWrite(mon.change, {"declaration"}))
     ELSE Abort /\ Rollback(Monitor)
  /\ UNCHANGED raced /\ Alone

ReviseDeclaration ==
  LET k == <<mon.d, "declaration">> IN
  /\ mon.pc = "declaration" /\ ~ Locked(Monitor, k)
  /\ IF IsRow(db[k])
     THEN /\ Write(Monitor, k, [db[k] EXCEPT !.planned = mon.change.planned])
          /\ Goes(IF mon.change.appears THEN "letter" ELSE "revise")
     ELSE Goes("revise") /\ UNCHANGED <<db, pending>>
  /\ UNCHANGED raced /\ Alone

BeingDeleted(d) == \E r \in Req : pending[r][<<d, "sinistre">>] = Gone

(* The foreign key waits for a delete of the dossier in flight.            *)
ReviseLetter ==
  /\ mon.pc = "letter" /\ ~ BeingDeleted(mon.d)
  /\ IF Open(mon.d)
     THEN /\ Monitors([mon EXCEPT !.pc = "revise", !.letters = @ \cup {<<mon.d, NextText.arrete>>}])
          /\ UNCHANGED <<db, pending>>
     ELSE Abort /\ Rollback(Monitor)
  /\ UNCHANGED raced /\ Alone

ReviseCommits ==
  /\ mon.pc = "revise" /\ mon.todo = {}
  /\ Commit(Monitor, pending[Monitor])
  /\ letter' = letter \cup mon.letters
  /\ Stored
  /\ Monitors([mon EXCEPT !.pc = "link", !.held = {}, !.letters = {}])
  /\ UNCHANGED <<succ, req, sent, raced>>

(* linkSinistres: the dossiers whose declaration is undated ...            *)
Candidates == {d \in Dossier : Open(d) /\ db[<<d, "declaration">>].planned = None}
DamageOf(d) == [code |-> Row(d).code, risk |-> Row(d).risk, date |-> Row(d).event]

(* Mutant: the period must hold all the dates of the batch.                *)
WindowHoldsAll(candidates) ==
  LET dates == {Row(d).event : d \in candidates} IN
  {e \in Entry : entry[e] # None /\ entry[e].start <= Min(dates) /\ entry[e].end >= Max(dates)}

(* ... and the entries whose period meets the range of their dates.        *)
Window(candidates) ==
  LET dates == {Row(d).event : d \in candidates} IN
  {e \in Entry : entry[e] # None /\ entry[e].start <= Max(dates) /\ entry[e].end >= Min(dates)}

DecideLinks ==
  /\ mon.pc = "link"
  /\ LET read == IF Candidates = {} THEN {} ELSE Window(Candidates)
         matched == {d \in Candidates : Winners(read, mon.succ, DamageOf(d)) # {}} IN
     \E won \in [matched -> Entry] :
       /\ \A d \in matched : won[d] \in Winners(read, mon.succ, DamageOf(d))
       /\ Monitors([mon EXCEPT !.pc = "apply",
            !.todo = {[d |-> d, e |-> won[d], declared |-> Row(d).declared] : d \in matched}])
  /\ UNCHANGED <<db, pending, raced>> /\ Alone

(* Mutant: the status is decided on the batch's read of the dossier.       *)
StatusOfBatch(l) == SinistreStatus(OutcomeOf(l.e), l.declared)

(* applyLink, a transaction per link: the status off a fresh read ...      *)
StatusFresh(l) == SinistreStatus(OutcomeOf(l.e), Row(l.d).declared)

ApplyRead(l) ==
  /\ mon.pc = "apply" /\ l \in mon.todo
  /\ IF ~ Open(l.d) THEN Monitors([mon EXCEPT !.todo = @ \ {l}]) /\ UNCHANGED raced
     ELSE /\ Monitors([mon EXCEPT !.pc = "linkWrite", !.todo = @ \ {l}, !.held = {l.d}, !.d = l.d,
                              !.link = l.e, !.status = StatusFresh(l)])
          /\ Held(l.d)
  /\ UNCHANGED <<db, pending>> /\ Alone

(* ... then the link; a dossier deleted in between throws, and the guard   *)
(* of the pass gives up the links that are left.                           *)
LinkWrite ==
  LET k     == <<mon.d, "sinistre">>
      row   == [db[k] EXCEPT !.link = mon.link, !.status = mon.status]
      dates == OutcomeOf(mon.link) = "RECONNU" /\ PublishedOf(mon.link) \in Ruled
  IN /\ mon.pc = "linkWrite" /\ ~ Locked(Monitor, k)
     /\ CASE ~ IsRow(db[k]) -> Monitors(MonRest) /\ Rollback(Monitor)
          [] IsRow(db[k]) /\ dates -> Goes("date") /\ Write(Monitor, k, row)
          [] OTHER -> /\ Monitors([mon EXCEPT !.pc = "apply", !.held = {}])
                      /\ WriteAndCommit(Monitor, k, row)
     /\ UNCHANGED raced /\ Alone

(* A recognition under a rule dates the declaration and queues its letter. *)
LinkDate ==
  LET k == <<mon.d, "declaration">> IN
  /\ mon.pc = "date" /\ ~ Locked(Monitor, k)
  /\ WriteAndCommit(Monitor, k, [db[k] EXCEPT !.planned = PublishedOf(mon.link)])
  /\ letter' = letter \cup {<<mon.d, arreteOf[mon.link]>>}
  /\ Monitors([mon EXCEPT !.pc = "apply", !.held = {}])
  /\ UNCHANGED <<arretes, succ, req, sent, raced>>

LinksDone ==
  /\ mon.pc = "apply" /\ mon.todo = {}
  /\ Monitors(MonRest)
  /\ UNCHANGED <<db, pending, raced>> /\ Alone

-----------------------------------------------------------------------------
(* Who waits for whom, and the detector of PostgreSQL, which ends one of   *)
(* those that wait in a circle.                                            *)

Wanted(p) ==
  IF p = Monitor
  THEN CASE mon.pc \in {"status", "linkWrite"} -> {<<mon.d, "sinistre">>}
         [] mon.pc = "insurerWrite" -> {<<mon.d, "insurer">>}
         [] mon.pc \in {"declaration", "date"} -> {<<mon.d, "declaration">>}
         [] OTHER -> {}
  ELSE CASE req[p].pc = "status" -> {<<req[p].d, "sinistre">>}
         [] req[p].pc = "mark" -> {<<req[p].d, "declaration">>}
         [] req[p].pc = "insurer" -> {<<req[p].d, "insurer">>}
         [] req[p].pc = "write" -> {<<req[p].d, req[p].part>>}
         [] req[p].pc = "cascade" ->
              {k \in {req[p].d} \X Part : pending[p][k] = None}
         [] req[p].pc = "read" /\ req[p].kind = "remove" -> {<<req[p].d, "sinistre">>}
         [] OTHER -> {}

WaitsFor(p, q) ==
  /\ p # q
  /\ \/ \E k \in Wanted(p) : pending[q][k] # None
     \/ p = Monitor /\ mon.pc = "letter" /\ pending[q][<<mon.d, "sinistre">>] = Gone

Circle(S) == S # {} /\ \A p \in S : \E q \in S : WaitsFor(p, q)
InCircle(p) == \E S \in SUBSET Proc : p \in S /\ Circle(S) /\ \A T \in SUBSET S : T # S => ~ Circle(T)

VictimRequest(r) ==
  /\ InCircle(r)
  /\ Rollback(r) /\ Done(r) /\ UNCHANGED raced /\ RestOfWorld

VictimMonitor ==
  /\ InCircle(Monitor)
  /\ Rollback(Monitor)
  /\ IF Revising THEN Abort ELSE Monitors(MonRest)
  /\ UNCHANGED raced /\ Alone

(* A commune is merged in the referential.                                 *)
Merge(c) ==
  /\ c \in DOMAIN Merger \ DOMAIN succ
  /\ succ' = [x \in DOMAIN succ \cup {c} |-> Merger[x]]
  /\ UNCHANGED <<db, pending, letter, arretes, req, mon, sent, raced>>

-----------------------------------------------------------------------------
Init ==
  /\ db = Nothing /\ pending = [p \in Proc |-> Nothing]
  /\ letter = {} /\ entry = [e \in Entry |-> None] /\ publishedAt = [a \in Arrete |-> None]
  /\ succ = <<>> /\ req = [r \in Req |-> Rest] /\ mon = MonRest
  /\ ingested = 0 /\ sent = 0 /\ raced = {}

Sends(r) ==
  \/ \E damage \in Damage, confirmed \in BOOLEAN, outer \in BOOLEAN :
       (outer => ~ confirmed) /\ Create(r, damage, confirmed, outer)
  \/ \E d \in Dossier : Row(d) # None /\
       \/ \E date \in Declaration \cup {None} :
            Send(r, [Rest EXCEPT !.pc = "read", !.kind = "update", !.d = d, !.date = date])
       \/ \E mark \in Declaration \cup {None}, part \in Part \ {"sinistre"} :
            Send(r, [Rest EXCEPT !.pc = "read", !.kind = "step", !.d = d, !.part = part, !.date = mark])
       \/ Send(r, [Rest EXCEPT !.pc = "read", !.kind = "remove", !.d = d])

Handles(r) ==
  \/ Look(r) \/ PlanDossier(r) \/ Recheck(r) \/ Drain(r) \/ \E d \in Dossier : Insert(r, d)
  \/ UpdateRead(r) \/ UpdateStatus(r) \/ UpdateMark(r) \/ UpdateInsurer(r)
  \/ StepRead(r) \/ StepWrite(r)
  \/ RemoveParent(r) \/ RemoveCommits(r) \/ \E part \in Part : Cascade(r, part)
  \/ VictimRequest(r)

Runs ==
  \/ Tick \/ NoText \/ Publish \/ Revise \/ ReviseStatus \/ ReviseInsurer \/ ReviseInsurerWrite
  \/ ReviseDeclaration \/ ReviseLetter \/ ReviseCommits \/ \E d \in Dossier : Recompute(d)
  \/ DecideLinks \/ LinkWrite \/ LinkDate \/ LinksDone \/ \E l \in mon.todo : ApplyRead(l)
  \/ VictimMonitor

Next == (\E r \in Req : Sends(r) \/ Handles(r)) \/ Runs \/ \E c \in DOMAIN Merger : Merge(c)

Spec == Init /\ [][Next]_vars

(* No second dossier for the same three parameters, and none beside        *)
(* another of the commune and risk unless the person confirmed it, however *)
(* many requests race and whether or not the confirmation of the account   *)
(* creates one too: communes merged before the request count as one        *)
(* (SinistresService.create, findTwin).                                    *)
NoTwin ==
  [][\A r \in Req, d \in Dossier :
       req[r].pc = "insert" /\ ~ Open(d) /\ IsRow(Row(d)') =>
         \A o \in Others(req[r].codes, req[r].damage) :
           req[r].confirmed /\ Row(o).event # req[r].damage.date]_vars

(* A dossier's rows agree: the declaration step is marked with the date    *)
(* declared, and the status is the one its link and declaration give,      *)
(* unless a request to change the date and a transaction of the monitor    *)
(* read the same dossier at the same time, or a text was stored while it   *)
(* was being created.                                                      *)
RowsAgree ==
  \A d \in Dossier : Open(d) =>
    LET row == Row(d) IN
    /\ db[<<d, "declaration">>].mark = row.declared
    /\ d \notin raced => row.status = SinistreStatus(OutcomeOf(row.link), row.declared)

(* The link pass over many dossiers decides for each what it would decide  *)
(* for that dossier alone, over every entry stored.                        *)
SameMatchAlone ==
  [][mon.pc = "link" /\ mon'.pc = "apply" =>
       \A d \in Candidates :
         LET best == Winners(Entry, mon.succ, DamageOf(d)) IN
         {l.e : l \in {l \in mon'.todo : l.d = d}} \subseteq best
         /\ (best # {} => \E l \in mon'.todo : l.d = d)]_vars

(* Requests and links never wait in a circle: the dossier is locked before *)
(* its steps.  Only the revision of an arrete, which may leave the dossier *)
(* unlocked, can be part of one.                                           *)
LockOrder ==
  \A S \in SUBSET Proc : Circle(S) => Monitor \in S /\ Revising

=============================================================================
