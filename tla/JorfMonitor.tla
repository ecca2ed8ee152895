----------------------------- MODULE JorfMonitor -----------------------------
(***************************************************************************)
(* What one run of the monitor does to the database (JorfMonitorService.   *)
(* runOnce): it drains the two outboxes, takes the oldest deltas it has    *)
(* not recorded, ingests their texts (first publications and               *)
(* rectificatifs), links the dossiers whose declaration is still undated,  *)
(* and drains again; while owners create, declare and delete dossiers and  *)
(* watchers confirm and unsubscribe.                                       *)
(*                                                                         *)
(* A text is one revision of an arrete, parsed; a line of its annexe names *)
(* a place, which stands for a commune, a risk and a period as far as      *)
(* matching tells them apart, and an outcome; watchers look only at the    *)
(* commune.  A transaction is one step.                                    *)
(* One run at a time (IngestLease); a drain settles some of the pending    *)
(* rows (OutboxDrain).  A deadline is its anchor date: the rule's duration *)
(* is added to it and nothing else depends on it.                          *)
(***************************************************************************)
EXTENDS Naturals, FiniteSets, DossierPlan

CONSTANTS
  Nor,              \* arretes
  Line,             \* lines of an annexe: what pairEntries pairs
  Place,            \* places a line or a dossier can be about
  Commune, communeOf, \* communes and the one of each place
  Text,             \* texts of the JO: revisions of the arretes
  norOf,            \* norOf[t]: the arrete t is a revision of
  dateOf,           \* dateOf[t]: its publishedAt
  linesOf,          \* linesOf[t][l]: the entry t prints on line l, or None
  Unreadable,       \* texts whose annexe cannot be parsed
  LastDelta,        \* deltas are 1 .. LastDelta, oldest first
  textsIn,          \* textsIn[d]: the texts delta d delivers
  Broken,           \* deltas whose download never succeeds
  Ruled,            \* publication dates a declaration rule is in force on
  Floor,            \* BACKFILL_MIN_PUBLISHED_AT
  MaxDeltasPerRun,  \* MAX_DELTAS_PER_RUN
  Dossier, homeOf,  \* dossiers and the place each is about
  Veille, watched,  \* subscriptions and the communes each watches
  DeclarationDate,  \* bound: the dates an owner may declare on
  MaxFaults,        \* bound: failed steps
  Deleted           \* the value of a dossier its owner deleted

Delta    == 1 .. LastDelta
Entry    == Nor \X Line
Outcomes == {"RECONNU", "REFUSE"}
Kinds    == {"PUBLICATION", "RECTIFICATIF_RECONNU"}
Printed  == [place : Place \cup {None}, outcome : Outcomes]
Date     == {dateOf[t] : t \in Text} \cup DeclarationDate

ASSUME TextAssumption ==
  /\ norOf \in [Text -> Nor]
  /\ dateOf \in [Text -> Nat]
  /\ linesOf \in [Text -> [Line -> Printed \cup {None}]]
  /\ textsIn \in [Delta -> SUBSET Text]
  /\ communeOf \in [Place -> Commune]
  /\ watched \in [Veille -> SUBSET Commune]
ASSUME NoneAssumption ==
  None \notin Nor \cup Line \cup Entry \cup Place \cup Commune \cup Text \cup Printed \cup Outcomes \cup Nat
ASSUME BoundAssumption ==
  /\ LastDelta \in Nat /\ MaxDeltasPerRun \in Nat \ {0}
  /\ Floor \in Nat /\ MaxFaults \in Nat

VARIABLES
  listed,     \* how far the DILA catalogue goes
  marked,     \* JorfDelta: deltas fully dealt with
  stored,     \* the text each arrete row holds: its contentHash and publishedAt
  entry,      \* the ArreteEntry rows
  dossier,    \* the Sinistre rows with their declaration and insurer steps
  letter,     \* SinistreNotification rows by dossier, arrete and kind
  notice,     \* VeilleNotification rows by veille and arrete
  veille,     \* the subscriptions
  pc, notify, \* where the run stands, and RunOptions.notify
  batch,      \* its deltas still to take, oldest first
  delta,      \* the delta in hand
  todo,       \* its texts still to ingest
  complete,   \* ingestDelta's answer so far
  rectified,  \* rectifiedEntryIds
  links,      \* links decided and still to apply
  draft,      \* the plan of a dossier about to be inserted
  quiet,      \* dossiers dated without a letter: at creation or by a backfill
  behind,     \* dossiers a revision passed over: see Insert and Rectificatif
  ingested,   \* texts that have been the stored revision of their arrete
  faults

dbVars  == <<marked, stored, entry, dossier, letter, notice, veille>>
runVars == <<pc, notify, batch, delta, todo, complete, rectified, links>>
history == <<quiet, behind, ingested>>
owners  == <<draft, history>>
hands   == <<batch, delta, todo, complete>>
vars    == <<listed, dbVars, runVars, owners, faults>>

Rows    == {"none", "pending", "sent"}
Statuses == {"AVANT_ARRETE", "ARRETE_PUBLIE", "ARRETE_REFUSE", "DECLARE"}
Sinistre ==
  [link : Entry \cup {None}, status : Statuses, declared : DeclarationDate \cup {None},
   planned : Date \cup {None}, insurer : Date \cup {None}]
ASSUME SinistreAssumption == None # Deleted /\ {None, Deleted} \cap Sinistre = {}

Draft ==
  [link : Entry \cup {None}, outcome : Outcomes \cup {None}, date : Date \cup {None}]
Link ==
  [d : Dossier, e : Entry, outcome : Outcomes, date : Date, ruled : BOOLEAN, kind : Kinds]

Steps == {"idle", "sinistre1", "veille1", "list", "batch", "texts", "link", "apply",
          "sinistre2", "veille2"}

TypeOK ==
  /\ listed \in 0 .. LastDelta /\ marked \subseteq 1 .. listed
  /\ stored \in [Nor -> Text \cup {None}]
  /\ \A n \in Nor : stored[n] # None => norOf[stored[n]] = n
  /\ entry \in [Entry -> Printed \cup {None}]
  /\ \A e \in Entry : entry[e] # None => stored[e[1]] # None
  /\ dossier \in [Dossier -> Sinistre \cup {None, Deleted}]
  /\ letter \in [Dossier \X Nor \X Kinds -> Rows]
  /\ notice \in [Veille \X Nor -> Rows]
  /\ veille \in [Veille -> {"unconfirmed", "confirmed", "deleted"}]
  /\ pc \in Steps /\ notify \in BOOLEAN /\ complete \in BOOLEAN
  /\ batch \subseteq 1 .. listed /\ delta \in Delta \cup {None} /\ todo \subseteq Text
  /\ batch \cap marked = {}
  /\ rectified \subseteq Entry /\ links \subseteq Link
  /\ links # {} => pc = "apply"
  /\ draft \in [Dossier -> Draft \cup {None}]
  /\ quiet \subseteq Dossier /\ behind \subseteq Dossier /\ ingested \subseteq Text
  /\ faults \in 0 .. MaxFaults

Init ==
  /\ listed = 0 /\ marked = {}
  /\ stored = [n \in Nor |-> None]
  /\ entry = [e \in Entry |-> None]
  /\ dossier = [d \in Dossier |-> None]
  /\ letter = [row \in Dossier \X Nor \X Kinds |-> "none"]
  /\ notice = [row \in Veille \X Nor |-> "none"]
  /\ veille = [v \in Veille |-> "unconfirmed"]
  /\ pc = "idle" /\ notify = TRUE /\ complete = TRUE
  /\ batch = {} /\ delta = None /\ todo = {}
  /\ rectified = {} /\ links = {}
  /\ draft = [d \in Dossier |-> None]
  /\ quiet = {} /\ behind = {} /\ ingested = {}
  /\ faults = 0

Fault   == faults < MaxFaults /\ faults' = faults + 1
NoFault == UNCHANGED faults

Open(d) == dossier[d] \notin {None, Deleted}

(* The run is over, or its process died; nothing of it is kept.            *)
Forget ==
  /\ pc' = "idle" /\ notify' = TRUE /\ complete' = TRUE
  /\ batch' = {} /\ delta' = None /\ todo' = {}
  /\ rectified' = {} /\ links' = {}

-----------------------------------------------------------------------------
(* Pure functions of the plan.                                             *)

PublishedAt(e) == IF e = None THEN None ELSE dateOf[stored[e[1]]]
OutcomeOf(e)   == IF e = None THEN None ELSE entry[e].outcome

Beats(e, f) ==
  BeatsCurrentWinner([outcome |-> OutcomeOf(e), publishedAt |-> PublishedAt(e)],
                     [outcome |-> OutcomeOf(f), publishedAt |-> PublishedAt(f)])

Matching(place) == {e \in Entry : entry[e] # None /\ entry[e].place = place}

(* matchSinistres: any of the best entries, a tie going to the row order.  *)
Winners(place) ==
  {e \in Matching(place) : \A f \in Matching(place) : ~Beats(f, e)}

-----------------------------------------------------------------------------
(* The owners' and the watchers' requests.                                 *)

Publish ==
  /\ listed < LastDelta
  /\ listed' = listed + 1
  /\ UNCHANGED <<dbVars, runVars, owners>> /\ NoFault

(* SinistresService.create reads the arretes and draws the plan first ...  *)
PlanDossier(d) ==
  /\ dossier[d] = None /\ draft[d] = None
  /\ \E e \in IF Matching(homeOf[d]) = {} THEN {None} ELSE Winners(homeOf[d]) :
       draft' = [draft EXCEPT ![d] =
         [link |-> e, outcome |-> OutcomeOf(e), date |-> PublishedAt(e)]]
  /\ UNCHANGED <<listed, dbVars, runVars, history>> /\ NoFault

(* ... and inserts the dossier in a later transaction, without a letter:   *)
(* a revision of its line ingested in between is not in the plan.          *)
Insert(d) ==
  /\ draft[d] # None
  /\ LET plan  == draft[d]
         dates == plan.outcome = "RECONNU" /\ plan.date \in Ruled IN
     /\ dossier' = [dossier EXCEPT ![d] =
          [link |-> plan.link, status |-> SinistreStatus(plan.outcome, None), declared |-> None,
           planned |-> IF dates THEN plan.date ELSE None, insurer |-> None]]
     /\ quiet' = IF dates THEN quiet \cup {d} ELSE quiet
     /\ behind' = IF plan.outcome = OutcomeOf(plan.link) /\ plan.date = PublishedAt(plan.link)
                  THEN behind ELSE behind \cup {d}
  /\ draft' = [draft EXCEPT ![d] = None]
  /\ UNCHANGED <<listed, marked, stored, entry, letter, notice, veille, runVars, ingested>>
  /\ NoFault

(* SinistresService.update: the declaration date is set or cleared.        *)
Declare(d, date) ==
  /\ Open(d)
  /\ dossier' = [dossier EXCEPT
       ![d].declared = date,
       ![d].status   = SinistreStatus(OutcomeOf(dossier[d].link), date),
       ![d].insurer  = InsurerAnchor(date, PublishedAt(dossier[d].link))]
  /\ UNCHANGED <<listed, marked, stored, entry, letter, notice, veille, runVars, owners>>
  /\ NoFault

(* SinistresService.remove: the outbox rows are cascaded away.             *)
Remove(d) ==
  /\ Open(d)
  /\ dossier' = [dossier EXCEPT ![d] = Deleted]
  /\ letter' = [row \in DOMAIN letter |-> IF row[1] = d THEN "none" ELSE letter[row]]
  /\ quiet' = quiet \ {d} /\ behind' = behind \ {d}
  /\ UNCHANGED <<listed, marked, stored, entry, notice, veille, runVars, draft, ingested>>
  /\ NoFault

Confirm(v) ==
  /\ veille[v] = "unconfirmed"
  /\ veille' = [veille EXCEPT ![v] = "confirmed"]
  /\ UNCHANGED <<listed, marked, stored, entry, dossier, letter, notice, runVars, owners>>
  /\ NoFault

Unsubscribe(v) ==
  /\ veille[v] = "confirmed"
  /\ veille' = [veille EXCEPT ![v] = "deleted"]
  /\ notice' = [row \in DOMAIN notice |-> IF row[1] = v THEN "none" ELSE notice[row]]
  /\ UNCHANGED <<listed, marked, stored, entry, dossier, letter, runVars, owners>>
  /\ NoFault

-----------------------------------------------------------------------------
(* The run.                                                                *)

(* A tick notifies; a run of the backfill does not.                        *)
StartRun(notifies) ==
  /\ pc = "idle"
  /\ pc' = "sinistre1" /\ notify' = notifies
  /\ UNCHANGED <<listed, dbVars, hands, rectified, links, owners>>
  /\ NoFault

(* The letters about dossiers go out first; the rows that fail stay.       *)
Drained(outbox) ==
  LET pending == {row \in DOMAIN outbox : outbox[row] = "pending"} IN
  {[row \in DOMAIN outbox |-> IF row \in settled THEN "sent" ELSE outbox[row]] :
     settled \in SUBSET pending}

DrainSinistres ==
  /\ pc \in {"sinistre1", "sinistre2"}
  /\ letter' \in Drained(letter)
  /\ pc' = IF pc = "sinistre1" THEN "veille1" ELSE "veille2"
  /\ UNCHANGED <<listed, marked, stored, entry, dossier, notice, veille, notify, hands,
                 rectified, links, owners>> /\ NoFault

DrainVeilles ==
  /\ pc \in {"veille1", "veille2"}
  /\ notice' \in Drained(notice)
  /\ IF pc = "veille1"
       THEN pc' = "list" /\ UNCHANGED <<notify, hands, rectified, links>>
       ELSE Forget
  /\ UNCHANGED <<listed, marked, stored, entry, dossier, letter, veille, owners>> /\ NoFault

PendingDeltas == 1 .. listed \ marked

Oldest(deltas) ==
  {d \in deltas : Cardinality({c \in deltas : c <= d}) <= MaxDeltasPerRun}

ListDeltas ==
  /\ pc = "list"
  /\ batch' = Oldest(PendingDeltas)
  /\ pc' = "batch"
  /\ UNCHANGED <<listed, dbVars, notify, delta, todo, complete, rectified, links, owners>>
  /\ NoFault

First(deltas) == CHOOSE d \in deltas : \A c \in deltas : d <= c

Download ==
  /\ pc = "batch" /\ batch # {}
  /\ First(batch) \notin Broken
  /\ delta' = First(batch)
  /\ batch' = batch \ {delta'}
  /\ todo' = textsIn[delta'] /\ complete' = TRUE
  /\ pc' = "texts"
  /\ UNCHANGED <<listed, dbVars, notify, rectified, links, owners>> /\ NoFault

(* Mutant: the first delta that fails ends the batch.                      *)
DownloadFailsStops ==
  /\ pc = "batch" /\ batch # {}
  /\ IF First(batch) \in Broken THEN NoFault ELSE Fault
  /\ batch' = {}
  /\ UNCHANGED <<listed, dbVars, pc, notify, delta, todo, complete, rectified, links, owners>>

(* The delta stays unmarked and the newer ones are still processed.        *)
DownloadFails ==
  /\ pc = "batch" /\ batch # {}
  /\ IF First(batch) \in Broken THEN NoFault ELSE Fault
  /\ batch' = batch \ {First(batch)}
  /\ UNCHANGED <<listed, dbVars, pc, notify, delta, todo, complete, rectified, links, owners>>

(* Mutant: a delta is recorded though one of its texts failed.             *)
MarkDeltaRegardless ==
  /\ pc = "texts" /\ todo = {}
  /\ marked' = marked \cup {delta}
  /\ pc' = "batch" /\ delta' = None
  /\ UNCHANGED <<listed, stored, entry, dossier, letter, notice, veille, notify, batch,
                 todo, complete, rectified, links, owners>> /\ NoFault

MarkDelta ==
  /\ pc = "texts" /\ todo = {}
  /\ marked' = IF complete THEN marked \cup {delta} ELSE marked
  /\ pc' = "batch" /\ delta' = None
  /\ UNCHANGED <<listed, stored, entry, dossier, letter, notice, veille, notify, batch,
                 todo, complete, rectified, links, owners>> /\ NoFault

-----------------------------------------------------------------------------
(* ingestArrete.                                                           *)

Take(t) ==
  /\ pc = "texts" /\ t \in todo
  /\ todo' = todo \ {t}
  /\ UNCHANGED <<listed, marked, veille, pc, notify, batch, delta, links, draft>>

IngestFails(t) ==
  /\ Take(t)
  /\ complete' = FALSE
  /\ UNCHANGED <<stored, entry, dossier, letter, notice, rectified, history>> /\ Fault

BelowFloor(t) == ~notify /\ dateOf[t] < Floor

(* An unparseable text is alerted and skipped, one seen before only bumps  *)
(* lastSeenAt, and a backfill does not create what predates its floor.     *)
NothingToIngest(t) ==
  /\ Take(t)
  /\ \/ t \in Unreadable
     \/ stored[norOf[t]] = t
     \/ stored[norOf[t]] = None /\ BelowFloor(t)
  /\ UNCHANGED <<stored, entry, dossier, letter, notice, complete, rectified, history>>
  /\ NoFault

CommuneOf(line) == IF line = None \/ line.place = None THEN None ELSE communeOf[line.place]

Communes(t, lines) == {CommuneOf(linesOf[t][l]) : l \in lines} \ {None}

(* queueNotifications: the confirmed watchers of these communes, as read   *)
(* inside the ingest transaction; a row that exists is left alone.         *)
QueueNotices(n, communes) ==
  notice' = [row \in DOMAIN notice |->
    IF /\ notify /\ row[2] = n /\ notice[row] = "none"
       /\ veille[row[1]] = "confirmed"
       /\ watched[row[1]] \cap communes # {}
    THEN "pending" ELSE notice[row]]

LinesOf(t) == {l \in Line : linesOf[t][l] # None}

(* A text's lines over the rows of its arrete; a line it no longer prints  *)
(* is left as it was.                                                      *)
Upsert(t) ==
  entry' = [e \in Entry |->
    IF e[1] = norOf[t] /\ e[2] \in LinesOf(t) THEN linesOf[t][e[2]] ELSE entry[e]]

FirstPublication(t) ==
  /\ Take(t) /\ t \notin Unreadable
  /\ stored[norOf[t]] = None /\ ~BelowFloor(t)
  /\ stored' = [stored EXCEPT ![norOf[t]] = t]
  /\ Upsert(t)
  /\ QueueNotices(norOf[t], Communes(t, LinesOf(t)))
  /\ ingested' = ingested \cup {t}
  /\ UNCHANGED <<dossier, letter, complete, rectified, quiet, behind>> /\ NoFault

Created(t, l) == entry[<<norOf[t], l>>] = None
Changed(t, l) == entry[<<norOf[t], l>>] # linesOf[t][l]
Moved(t)      == dateOf[t] # dateOf[stored[norOf[t]]]

(* Mutant: a line whose commune the referential resolves at last is not    *)
(* an addition.                                                            *)
AddedLinesCreated(t) == {l \in LinesOf(t) : Created(t, l)}

(* The lines that reach their watchers for the first time; one of which    *)
(* the outcome, the risk or the period is corrected does not again.        *)
AddedLines(t) ==
  {l \in LinesOf(t) :
     \/ Created(t, l)
     \/ CommuneOf(linesOf[t][l]) \notin {CommuneOf(entry[<<norOf[t], l>>]), None}}

(* Mutant: a moved publication alone touches nobody.                       *)
TouchedByLine(t, d) ==
  /\ Open(d) /\ dossier[d].link # None /\ dossier[d].link[1] = norOf[t]
  /\ LET l == dossier[d].link[2] IN l \in LinesOf(t) /\ Changed(t, l)

(* The dossiers linked to a line the revision changes, or moves.           *)
Touched(t, d) ==
  /\ Open(d) /\ dossier[d].link # None /\ dossier[d].link[1] = norOf[t]
  /\ LET l == dossier[d].link[2] IN l \in LinesOf(t) /\ (Changed(t, l) \/ Moved(t))

(* The new declaration anchor: a refusal has none, and a rule gap leaves   *)
(* the step as it is.                                                      *)
Replanned(t, d) ==
  LET outcome == linesOf[t][dossier[d].link[2]].outcome IN
  CASE outcome = "REFUSE" -> None
    [] outcome = "RECONNU" /\ dateOf[t] \in Ruled -> dateOf[t]
    [] OTHER -> dossier[d].planned

(* Mutant: the status is left to the owner's next request.                 *)
RecomputedKeepsStatus(t, d) ==
  LET row    == dossier[d]
      before == InsurerAnchor(row.declared, dateOf[stored[norOf[t]]])
      after  == InsurerAnchor(row.declared, dateOf[t])
  IN [row EXCEPT !.planned = Replanned(t, d),
                 !.insurer = IF before # after THEN after ELSE @]

(* recomputeLinkedSinistres, for one dossier.                              *)
Recomputed(t, d) ==
  LET row    == dossier[d]
      before == InsurerAnchor(row.declared, dateOf[stored[norOf[t]]])
      after  == InsurerAnchor(row.declared, dateOf[t])
  IN [row EXCEPT
        !.status  = SinistreStatus(linesOf[t][row.link[2]].outcome, row.declared),
        !.planned = Replanned(t, d),
        !.insurer = IF before # after THEN after ELSE @]

(* The owner is told where a deadline appears, whatever notify says.       *)
NewlyDated(t) ==
  {d \in Dossier : Touched(t, d) /\ dossier[d].planned = None /\ Replanned(t, d) # None}

(* A moved publication reaches only the dossiers of the lines it prints.   *)
Dropped(t) ==
  {d \in Dossier : /\ Open(d) /\ dossier[d].link # None /\ dossier[d].link[1] = norOf[t]
                   /\ dossier[d].link[2] \notin LinesOf(t) /\ Moved(t)}

Rectificatif(t) ==
  /\ Take(t) /\ t \notin Unreadable
  /\ stored[norOf[t]] \notin {None, t}
  /\ Upsert(t)
  /\ LET changed == {l \in LinesOf(t) : Changed(t, l)} IN
       rectified' = rectified \cup {<<norOf[t], l>> : l \in changed}
  /\ dossier' = [d \in Dossier |->
       IF Touched(t, d) THEN Recomputed(t, d) ELSE dossier[d]]
  /\ letter' = [row \in DOMAIN letter |->
       IF /\ row[1] \in NewlyDated(t) /\ row[2] = norOf[t]
          /\ row[3] = "RECTIFICATIF_RECONNU" /\ letter[row] = "none"
       THEN "pending" ELSE letter[row]]
  /\ quiet' = {d \in quiet \ NewlyDated(t) : dossier'[d].planned # None}
  /\ behind' = (behind \ {d \in Dossier : Touched(t, d)}) \cup Dropped(t)
  /\ QueueNotices(norOf[t], Communes(t, AddedLines(t)))
  /\ stored' = [stored EXCEPT ![norOf[t]] = t]
  /\ ingested' = ingested \cup {t}
  /\ UNCHANGED complete /\ NoFault

-----------------------------------------------------------------------------
(* linkSinistres.                                                          *)

(* Mutant: the candidates are a list of statuses.                          *)
CandidatesByStatus ==
  {d \in Dossier : Open(d) /\ dossier[d].status \in {"AVANT_ARRETE", "ARRETE_REFUSE"}
                           /\ dossier[d].planned = None}

(* UNDATED_DECLARATION_STEP: a link can still help them.                   *)
Candidates == {d \in Dossier : Open(d) /\ dossier[d].planned = None}

(* The decisions are taken on one read of dossiers and entries.            *)
DecideLinks ==
  /\ pc = "link"
  /\ LET matched == {d \in Candidates : Matching(homeOf[d]) # {}} IN
       \E winner \in [matched -> Entry] :
         /\ \A d \in matched : winner[d] \in Winners(homeOf[d])
         /\ links' = {[d |-> d, e |-> winner[d], outcome |-> OutcomeOf(winner[d]),
                       date |-> PublishedAt(winner[d]),
                       ruled |-> PublishedAt(winner[d]) \in Ruled,
                       kind |-> IF winner[d] \in rectified
                                THEN "RECTIFICATIF_RECONNU" ELSE "PUBLICATION"] : d \in matched}
  /\ pc' = "apply"
  /\ UNCHANGED <<listed, dbVars, notify, hands, rectified, owners>>
  /\ NoFault

(* Mutant: only a publication queues a letter.                             *)
QueueLetterPublications(k) ==
  letter' = [row \in DOMAIN letter |->
    IF notify /\ row = <<k.d, k.e[1], "PUBLICATION">> /\ k.kind = "PUBLICATION"
       /\ letter[row] = "none"
    THEN "pending" ELSE letter[row]]

QueueLetter(k) ==
  letter' = [row \in DOMAIN letter |->
    IF notify /\ row = <<k.d, k.e[1], k.kind>> /\ letter[row] = "none"
    THEN "pending" ELSE letter[row]]

(* applyLink: link and status, and with a recognition under a rule the     *)
(* date and its letter; a dossier deleted meanwhile is passed over.        *)
ApplyLink(k) ==
  /\ pc = "apply" /\ k \in links
  /\ links' = links \ {k}
  /\ IF ~Open(k.d) THEN UNCHANGED <<dossier, letter, quiet, behind>>
     ELSE LET dates == k.outcome = "RECONNU" /\ k.ruled IN
       /\ dossier' = [dossier EXCEPT
            ![k.d].link    = k.e,
            ![k.d].status  = SinistreStatus(k.outcome, dossier[k.d].declared),
            ![k.d].planned = IF dates THEN k.date ELSE @]
       /\ IF dates THEN QueueLetter(k) ELSE UNCHANGED letter
       /\ quiet' = IF ~dates THEN quiet
                   ELSE IF notify THEN quiet \ {k.d} ELSE quiet \cup {k.d}
       /\ behind' = behind \ {k.d}
  /\ UNCHANGED <<listed, marked, stored, entry, notice, veille, pc, notify, hands,
                 rectified, draft, ingested>> /\ NoFault

(* One link fails: its guard gives up the rest of the pass.                *)
LinksThrow ==
  /\ pc \in {"link", "apply"}
  /\ links' = {} /\ pc' = "sinistre2"
  /\ UNCHANGED <<listed, dbVars, notify, hands, rectified, owners>>
  /\ Fault

BatchDone ==
  /\ pc = "batch" /\ batch = {}
  /\ pc' = "link"
  /\ UNCHANGED <<listed, dbVars, notify, hands, rectified, links, owners>>
  /\ NoFault

LinksDone ==
  /\ pc = "apply" /\ links = {}
  /\ pc' = "sinistre2"
  /\ UNCHANGED <<listed, dbVars, notify, hands, rectified, links, owners>>
  /\ NoFault

(* The process stops, or a step outside every guard throws: the catalogue, *)
(* the referential, the mark of a delta.                                   *)
RunDies ==
  /\ pc # "idle"
  /\ Forget
  /\ UNCHANGED <<listed, dbVars, owners>> /\ Fault

-----------------------------------------------------------------------------
RunStep ==
  \/ StartRun(TRUE) \/ DrainSinistres \/ DrainVeilles
  \/ ListDeltas \/ Download \/ MarkDelta \/ BatchDone
  \/ DownloadFails /\ UNCHANGED faults
  \/ \E t \in Text : NothingToIngest(t) \/ FirstPublication(t) \/ Rectificatif(t)
  \/ DecideLinks \/ LinksDone
  \/ \E k \in links : ApplyLink(k)

FaultStep ==
  \/ DownloadFails \/ LinksThrow \/ RunDies
  \/ \E t \in Text : IngestFails(t)

Request ==
  \/ \E d \in Dossier : PlanDossier(d) \/ Insert(d) \/ Remove(d)
  \/ \E d \in Dossier, date \in DeclarationDate \cup {None} : Declare(d, date)
  \/ \E v \in Veille : Confirm(v) \/ Unsubscribe(v)

Next == RunStep \/ FaultStep \/ StartRun(FALSE) \/ Publish \/ Request

Spec == Init /\ [][Next]_vars

(* The scheduler ticks for ever and a run takes its next step.             *)
FairSpec == Spec /\ WF_vars(RunStep)

-----------------------------------------------------------------------------
(* The status of a dossier never disagrees with its link and its           *)
(* declaration: whatever order publications, refusals turned recognitions, *)
(* declarations and link passes come in, it is what sinistreStatus answers *)
(* for the line as now stored, unless a revision passed the dossier over.  *)
StatusFollowsLink ==
  \A d \in Dossier : Open(d) /\ d \notin behind =>
    dossier[d].status = SinistreStatus(OutcomeOf(dossier[d].link), dossier[d].declared)

(* No deadline outlives the publication it ran from: a dated dossier is    *)
(* linked to a recognition, and dated from that text as now stored where a *)
(* rule is in force, whichever of link pass, owner and rectificatif wrote  *)
(* last, unless a revision passed the dossier over.                        *)
DatedByLink ==
  \A d \in Dossier : (Open(d) /\ d \notin behind /\ dossier[d].planned # None) =>
    LET link == dossier[d].link IN
    /\ OutcomeOf(link) = "RECONNU"
    /\ PublishedAt(link) \in Ruled => dossier[d].planned = PublishedAt(link)

(* A deadline never appears in silence: a dated dossier has a letter about *)
(* the very arrete it is linked to, queued or sent, unless it was dated    *)
(* when it was created or by a backfill.                                   *)
DatedHasLetter ==
  \A d \in Dossier :
    Open(d) /\ dossier[d].planned # None /\ d \notin quiet =>
      \E kind \in Kinds : letter[<<d, dossier[d].link[1], kind>>] # "none"

CommuneAt(n, l) == CommuneOf(entry[<<n, l>>])

(* A line of the arrete comes to be about a commune v watches.             *)
ComesToCover(v, n) ==
  \E l \in Line : CommuneAt(n, l)' # CommuneAt(n, l) /\ CommuneAt(n, l)' \in watched[v]

(* A watcher is told of every arrete that comes to cover a commune of      *)
(* theirs while they are confirmed: at its publication, with a line a      *)
(* rectificatif adds, or when a line that named no known commune is        *)
(* resolved; and a letter has no other cause: a line whose outcome, risk   *)
(* or period is corrected writes to nobody, nor does a backfill.           *)
WatcherTold ==
  [][\A v \in Veille, n \in Nor :
       LET due == notify /\ veille[v] = "confirmed" /\ ComesToCover(v, n)
       IN /\ due => notice'[<<v, n>>] # "none"
          /\ notice[<<v, n>>] = "none" /\ notice'[<<v, n>>] # "none" => due]_vars

(* A recorded delta is never opened again, so every readable text it       *)
(* delivered above the floor of the backfill, first publication or         *)
(* rectificatif, must have been the stored revision of its arrete.         *)
MarkedIsStored ==
  \A m \in marked : \A t \in textsIn[m] \ Unreadable :
    dateOf[t] >= Floor => t \in ingested

(* Every delta the catalogue lists and DILA can deliver is recorded in the *)
(* end, whatever failed on the way and whatever older delta never          *)
(* downloads.                                                              *)
EventuallyIngested ==
  \A m \in Delta \ Broken : (m <= listed) ~> (m \in marked)

Recognised(d) ==
  \E e \in Winners(homeOf[d]) : OutcomeOf(e) = "RECONNU" /\ PublishedAt(e) \in Ruled

(* An undated dossier that a stored recognition covers gets its date, be   *)
(* it unlinked, refused before or already declared, unless the owner       *)
(* deletes it or the recognition is withdrawn.                             *)
EventuallyDated ==
  \A d \in Dossier :
    (Open(d) /\ dossier[d].planned = None /\ Recognised(d))
      ~> (~Open(d) \/ dossier[d].planned # None \/ ~Recognised(d))

(* RunOptions.notify: "no SinistreNotification row is created for anything *)
(* the run ingests or links".  It does not hold: see Rectificatif.         *)
BackfillIsQuiet ==
  [][~notify => \A row \in DOMAIN letter :
                  letter[row] = "none" => letter'[row] = "none"]_vars

LatestDelivery(t) == CHOOSE m \in Delta : t \in textsIn[m] /\
                       \A n \in Delta : t \in textsIn[n] => n <= m

(* Replaying a delta is safe: what a newer delta delivered is not put back *)
(* to what an older one had.  It does not hold: the content hash tells a   *)
(* revision from the stored one, not an older one from a newer.            *)
ReplayIsSafe ==
  [][\A n \in Nor : stored[n] # None /\ stored'[n] # None =>
       LatestDelivery(stored'[n]) >= LatestDelivery(stored[n])]_vars

(* The insurer's deadlines of a recognised dossier get their date as soon  *)
(* as the declaration and the publication are both known.  It does not     *)
(* hold: ApplyLink links a declared dossier and leaves them undated.       *)
InsurerStepsDated ==
  \A d \in Dossier :
    Open(d) /\ dossier[d].declared # None /\ OutcomeOf(dossier[d].link) = "RECONNU"
      => dossier[d].insurer # None
=============================================================================
