------------------------- MODULE JorfMonitor_proofs -------------------------
(***************************************************************************)
(* The safety of the monitor run and of the requests it meets, for every   *)
(* catalogue, every set of texts, dossiers and watchers, and every number  *)
(* of faults: status, deadline and letter of a dossier follow the line it  *)
(* is linked to, a recorded delta has lost no text, and a watcher is told  *)
(* of every commune that comes to be covered and of nothing else.  The     *)
(* first part shows that the state stays well-formed, cut into the parts   *)
(* an action touches or leaves alone.                                      *)
(***************************************************************************)
EXTENDS JorfMonitor, WellFoundedInduction, TLAPS

(* The parts of the state, and what each keeps to itself.  The run: the    *)
(* delta in hand is listed and no longer in the batch.                     *)
runPart == <<listed, marked, pc, notify, complete, batch, delta, todo, rectified, faults>>

RunInv ==
  /\ listed \in 0 .. LastDelta /\ marked \subseteq 1 .. listed
  /\ pc \in Steps /\ notify \in BOOLEAN /\ complete \in BOOLEAN
  /\ batch \subseteq 1 .. listed /\ delta \in Delta \cup {None} /\ todo \subseteq Text
  /\ batch \cap marked = {}
  /\ pc = "texts" => delta \in 1 .. listed \ batch
  /\ rectified \subseteq Entry
  /\ faults \in 0 .. MaxFaults

(* The arretes: a row holds a text of its own, a line a stored arrete.     *)
storePart == <<stored, entry, ingested>>

StoreInv ==
  /\ stored \in [Nor -> Text \cup {None}]
  /\ \A n \in Nor : stored[n] # None => norOf[stored[n]] = n
  /\ entry \in [Entry -> Printed \cup {None}]
  /\ \A e \in Entry : entry[e] # None => stored[e[1]] # None
  /\ ingested \subseteq Text /\ \A n \in Nor : stored[n] # None => stored[n] \in ingested

(* The dossiers and the plans: they are linked to stored lines only.       *)
dossierPart == <<dossier, draft, quiet, behind>>

DossierInv ==
  /\ dossier \in [Dossier -> Sinistre \cup {None, Deleted}]
  /\ draft \in [Dossier -> Draft \cup {None}]
  /\ quiet \subseteq Dossier /\ behind \subseteq Dossier
  /\ \A d \in Dossier : Open(d) /\ dossier[d].link # None => entry[dossier[d].link] # None
  /\ \A d \in Dossier :
       draft[d] # None /\ draft[d].link # None => entry[draft[d].link] # None

outboxPart == <<letter, notice, veille>>

OutboxInv ==
  /\ letter \in [Dossier \X Nor \X Kinds -> Rows]
  /\ notice \in [Veille \X Nor -> Rows]
  /\ veille \in [Veille -> {"unconfirmed", "confirmed", "deleted"}]

(* The links decided and not applied yet: to stored lines, in a link pass. *)
LinksInv ==
  /\ links \subseteq Link
  /\ links # {} => pc = "apply"
  /\ \A k \in links : entry[k.e] # None

TypeInv == RunInv /\ StoreInv /\ DossierInv /\ OutboxInv /\ LinksInv

-----------------------------------------------------------------------------
(* A nonempty set of deltas has an oldest one, so First names a member.    *)
LEMMA FirstIsMember ==
  ASSUME NEW deltas \in SUBSET Nat, deltas # {}
  PROVE  First(deltas) \in deltas
<1>1. IsWellFoundedOn(OpToRel(<, Nat), Nat)
  BY NatLessThanWellFounded
<1>2. PICK d \in deltas : \A c \in deltas : ~ (<<c, d>> \in OpToRel(<, Nat))
  BY <1>1, WFMin
<1>3. \A c, e \in Nat : c < e => <<c, e>> \in OpToRel(<, Nat)
  BY DEF OpToRel
<1>4. ASSUME NEW c \in deltas PROVE d <= c
  <2>1. ~(c < d)
    BY <1>2, <1>3
  <2>. QED
    BY <2>1
<1>. QED
  BY <1>4 DEF First

(* A part keeps its invariant in a step that leaves it alone.              *)
LEMMA Untouched ==
  /\ RunInv /\ UNCHANGED runPart => RunInv'
  /\ StoreInv /\ UNCHANGED storePart => StoreInv'
  /\ DossierInv /\ UNCHANGED <<dossierPart, entry>> => DossierInv'
  /\ OutboxInv /\ UNCHANGED outboxPart => OutboxInv'
  /\ LinksInv /\ UNCHANGED <<links, pc, entry>> => LinksInv'
<1>1. RunInv /\ UNCHANGED runPart => RunInv'
  BY DEF RunInv, runPart
<1>2. StoreInv /\ UNCHANGED storePart => StoreInv'
  BY DEF StoreInv, storePart
<1>3. DossierInv /\ UNCHANGED <<dossierPart, entry>> => DossierInv'
  BY DEF DossierInv, dossierPart, Open
<1>4. OutboxInv /\ UNCHANGED outboxPart => OutboxInv'
  BY DEF OutboxInv, outboxPart
<1>5. LinksInv /\ UNCHANGED <<links, pc, entry>> => LinksInv'
  BY DEF LinksInv
<1>. QED
  BY <1>1, <1>2, <1>3, <1>4, <1>5

(* A stored line belongs to an arrete whose text is stored.                *)
LEMMA EntryStored ==
  ASSUME StoreInv, NEW e \in Entry, entry[e] # None
  PROVE  /\ e[1] \in Nor /\ e[2] \in Line
         /\ stored[e[1]] \in Text /\ entry[e] \in Printed
         /\ PublishedAt(e) \in Date
<1>1. e[1] \in Nor /\ e[2] \in Line /\ entry[e] \in Printed /\ e # None
  BY NoneAssumption DEF StoreInv, Entry
<1>2. stored[e[1]] \in Text
  BY <1>1 DEF StoreInv
<1>. QED
  BY <1>1, <1>2 DEF PublishedAt, Date

LEMMA StatusTyped ==
  ASSUME NEW outcome, NEW declared
  PROVE  SinistreStatus(outcome, declared) \in Statuses
  BY DEF SinistreStatus, Statuses

LEMMA AnchorTyped ==
  ASSUME NEW declared \in Date \cup {None}, NEW published \in Date \cup {None}
  PROVE  InsurerAnchor(declared, published) \in Date \cup {None}
  BY DEF InsurerAnchor

(* One dossier is written, with a link to a stored line or none.           *)
LEMMA DossierWritten ==
  ASSUME DossierInv, NEW d \in Dossier, NEW row \in Sinistre,
         dossier' = [dossier EXCEPT ![d] = row],
         row.link # None => entry[row.link] # None,
         quiet' \subseteq Dossier, behind' \subseteq Dossier,
         UNCHANGED <<draft, entry>>
  PROVE  DossierInv'
  BY DEF DossierInv, Open

LEMMA DraftWritten ==
  ASSUME DossierInv, NEW d \in Dossier, NEW plan \in Draft \cup {None},
         draft' = [draft EXCEPT ![d] = plan],
         plan # None /\ plan.link # None => entry[plan.link] # None,
         UNCHANGED <<dossier, quiet, behind, entry>>
  PROVE  DossierInv'
  BY DEF DossierInv, Open

(* The row an owner's declaration leaves.                                  *)
Declared(d, date) ==
  [dossier[d] EXCEPT
     !.declared = date,
     !.status   = SinistreStatus(OutcomeOf(dossier[d].link), date),
     !.insurer  = InsurerAnchor(date, PublishedAt(dossier[d].link))]

LEMMA DeclaredTyped ==
  ASSUME StoreInv, DossierInv, NEW d \in Dossier, NEW date \in DeclarationDate \cup {None},
         Declare(d, date)
  PROVE  /\ dossier' = [dossier EXCEPT ![d] = Declared(d, date)]
         /\ Declared(d, date) \in Sinistre
         /\ dossier[d].link # None => entry[dossier[d].link] # None
         /\ Declared(d, date).link = dossier[d].link
         /\ Declared(d, date).planned = dossier[d].planned
         /\ Declared(d, date).declared = date
         /\ Declared(d, date).status = SinistreStatus(OutcomeOf(dossier[d].link), date)
<1>1. /\ dossier[d] \in Sinistre /\ dossier[d].link \in Entry \cup {None}
      /\ dossier[d].link # None => entry[dossier[d].link] # None
  BY DEF Declare, DossierInv, Open, Sinistre
<1>2. PublishedAt(dossier[d].link) \in Date \cup {None}
  BY <1>1, EntryStored DEF PublishedAt
<1>3. InsurerAnchor(date, PublishedAt(dossier[d].link)) \in Date \cup {None}
  BY <1>2, AnchorTyped DEF Date
<1>4. dossier' = [dossier EXCEPT ![d] = Declared(d, date)]
  BY DEF Declare, Declared, DossierInv
<1>. QED
  BY <1>1, <1>3, <1>4, StatusTyped DEF Declared, Sinistre

(* The owners' and the watchers' requests.                                 *)
LEMMA RequestKeepsTypeInv ==
  ASSUME TypeInv, Request
  PROVE  TypeInv'
<1> USE DEF TypeInv
<1>1. ASSUME NEW d \in Dossier, PlanDossier(d) PROVE TypeInv'
  <2>1. PICK e \in Entry \cup {None} :
          /\ e # None => entry[e] # None
          /\ draft' = [draft EXCEPT ![d] =
               [link |-> e, outcome |-> OutcomeOf(e), date |-> PublishedAt(e)]]
    BY <1>1 DEF PlanDossier, Winners, Matching
  <2>2. OutcomeOf(e) \in Outcomes \cup {None} /\ PublishedAt(e) \in Date \cup {None}
    BY <2>1, EntryStored DEF OutcomeOf, PublishedAt, Printed
  <2>3. [link |-> e, outcome |-> OutcomeOf(e), date |-> PublishedAt(e)] \in Draft
    BY <2>2 DEF Draft
  <2>4. UNCHANGED <<runPart, storePart, outboxPart, links, dossier, quiet, behind>>
    BY <1>1 DEF PlanDossier, dbVars, runVars, history, NoFault, runPart, storePart, outboxPart
  <2>5. DossierInv'
    BY <2>1, <2>3, <2>4, DraftWritten DEF storePart
  <2>. QED
    BY <2>4, <2>5, Untouched DEF storePart, runPart
<1>2. ASSUME NEW d \in Dossier, Insert(d) PROVE TypeInv'
  <2>1. UNCHANGED <<runPart, storePart, outboxPart, links>>
    BY <1>2 DEF Insert, runVars, NoFault, runPart, storePart, outboxPart
  <2>2. draft[d] \in Draft /\ (draft[d].link # None => entry[draft[d].link] # None)
    BY <1>2 DEF Insert, DossierInv
  <2>3. PICK row \in Sinistre :
          row.link = draft[d].link /\ dossier' = [dossier EXCEPT ![d] = row]
    <3> DEFINE dates == draft[d].outcome = "RECONNU" /\ draft[d].date \in Ruled
               row == [link |-> draft[d].link,
                       status |-> SinistreStatus(draft[d].outcome, None), declared |-> None,
                       planned |-> IF dates THEN draft[d].date ELSE None, insurer |-> None]
    <3>1. row \in Sinistre
      BY <2>2, StatusTyped DEF Draft, Sinistre
    <3>2. dossier' = [dossier EXCEPT ![d] = row]
      BY <1>2 DEF Insert
    <3>. QED
      BY <3>1, <3>2
  <2>4. /\ draft' = [draft EXCEPT ![d] = None]
        /\ quiet' \subseteq Dossier /\ behind' \subseteq Dossier
    BY <1>2 DEF Insert, DossierInv
  <2>5. DossierInv'
    BY <2>1, <2>2, <2>3, <2>4 DEF DossierInv, Open, storePart
  <2>. QED
    BY <2>1, <2>5, Untouched DEF storePart, runPart
<1>3. ASSUME NEW d \in Dossier, Remove(d) PROVE TypeInv'
  <2>1. UNCHANGED <<runPart, storePart, links>>
    BY <1>3 DEF Remove, runVars, NoFault, runPart, storePart
  <2>2. DossierInv'
    BY <1>3 DEF Remove, DossierInv, Open
  <2>3. OutboxInv'
    BY <1>3 DEF Remove, OutboxInv, Rows
  <2>. QED
    BY <2>1, <2>2, <2>3, Untouched DEF storePart, runPart
<1>4. ASSUME NEW d \in Dossier, NEW date \in DeclarationDate \cup {None}, Declare(d, date)
      PROVE  TypeInv'
  <2>1. UNCHANGED <<runPart, storePart, outboxPart, links, draft, quiet, behind>>
    BY <1>4 DEF Declare, runVars, owners, history, NoFault, runPart, storePart, outboxPart
  <2>2. DossierInv'
    BY <1>4, <2>1, DeclaredTyped, DossierWritten DEF DossierInv, storePart
  <2>. QED
    BY <2>1, <2>2, Untouched DEF storePart, runPart
<1>5. ASSUME NEW v \in Veille, Confirm(v) \/ Unsubscribe(v) PROVE TypeInv'
  <2>1. UNCHANGED <<runPart, storePart, dossierPart, links>>
    BY <1>5 DEF Confirm, Unsubscribe, runVars, owners, history, NoFault, runPart, storePart,
       dossierPart
  <2>2. OutboxInv'
    BY <1>5 DEF Confirm, Unsubscribe, OutboxInv, Rows
  <2>. QED
    BY <2>1, <2>2, Untouched DEF storePart, runPart
<1>. QED
  BY <1>1, <1>2, <1>3, <1>4, <1>5 DEF Request

LEMMA ListedIsDelta ==
  ASSUME listed \in 0 .. LastDelta, NEW d \in 1 .. listed
  PROVE  d \in Delta
  BY BoundAssumption DEF Delta

LEMMA FaultTyped ==
  ASSUME faults \in 0 .. MaxFaults, Fault
  PROVE  faults' \in 0 .. MaxFaults
  BY BoundAssumption DEF Fault

(* The run's steps that write no row but marks and outbox rows.            *)
LEMMA ControlKeepsTypeInv ==
  ASSUME TypeInv,
         \/ Publish \/ RunDies \/ LinksThrow \/ DownloadFails
         \/ \E notifies \in BOOLEAN : StartRun(notifies)
         \/ DrainSinistres \/ DrainVeilles
         \/ ListDeltas \/ Download \/ MarkDelta \/ BatchDone \/ LinksDone
  PROVE  TypeInv'
<1> USE BoundAssumption DEF TypeInv
<1>1. ASSUME Publish PROVE TypeInv'
  <2>1. UNCHANGED <<storePart, dossierPart, outboxPart, links, pc>>
    BY <1>1 DEF Publish, dbVars, runVars, owners, history, storePart, dossierPart, outboxPart
  <2>2. RunInv'
    BY <1>1 DEF Publish, dbVars, runVars, RunInv, NoFault
  <2>. QED
    BY <2>1, <2>2, Untouched DEF storePart
<1>2. ASSUME DrainSinistres PROVE TypeInv'
  <2>1. UNCHANGED <<storePart, dossierPart>>
    BY <1>2 DEF DrainSinistres, owners, history, storePart, dossierPart
  <2>2. RunInv' /\ LinksInv'
    BY <1>2 DEF DrainSinistres, hands, NoFault, RunInv, LinksInv, Steps
  <2>3. OutboxInv'
    BY <1>2 DEF DrainSinistres, Drained, OutboxInv, Rows
  <2>. QED
    BY <2>1, <2>2, <2>3, Untouched DEF storePart
<1>3. ASSUME DrainVeilles PROVE TypeInv'
  <2>1. UNCHANGED <<storePart, dossierPart>>
    BY <1>3 DEF DrainVeilles, owners, history, storePart, dossierPart
  <2>2. RunInv' /\ LinksInv'
    BY <1>3 DEF DrainVeilles, Forget, hands, NoFault, RunInv, LinksInv, Steps
  <2>3. OutboxInv'
    BY <1>3 DEF DrainVeilles, Drained, OutboxInv, Rows
  <2>. QED
    BY <2>1, <2>2, <2>3, Untouched DEF storePart
<1>4. ASSUME Download PROVE TypeInv'
  <2>1. UNCHANGED <<storePart, dossierPart, outboxPart>>
    BY <1>4 DEF Download, dbVars, owners, history, storePart, dossierPart, outboxPart
  <2>2. batch \in SUBSET Nat /\ batch # {}
    BY <1>4 DEF Download, RunInv
  <2>3. First(batch) \in batch
    BY <2>2, FirstIsMember
  <2>4. First(batch) \in Delta
    BY <2>3, ListedIsDelta DEF RunInv
  <2>5. textsIn[First(batch)] \subseteq Text
    BY <2>4, TextAssumption
  <2>6. RunInv' /\ LinksInv'
    BY <1>4, <2>3, <2>4, <2>5 DEF Download, dbVars, NoFault, RunInv, LinksInv, Steps
  <2>. QED
    BY <2>1, <2>6, Untouched DEF storePart
<1>5. ASSUME \/ RunDies \/ LinksThrow \/ DownloadFails
             \/ \E notifies \in BOOLEAN : StartRun(notifies)
             \/ ListDeltas \/ MarkDelta \/ BatchDone \/ LinksDone
      PROVE  TypeInv'
  <2>1. UNCHANGED <<storePart, dossierPart, outboxPart>>
    BY <1>5 DEF RunDies, LinksThrow, DownloadFails, StartRun, ListDeltas, MarkDelta, BatchDone,
       LinksDone, dbVars, owners, history, storePart, dossierPart, outboxPart
  <2>2. LinksInv'
    BY <1>5 DEF RunDies, LinksThrow, DownloadFails, StartRun, ListDeltas, MarkDelta, BatchDone,
       LinksDone, Forget, dbVars, LinksInv
  <2>3. CASE MarkDelta \/ BatchDone \/ LinksDone
    <3>1. RunInv'
      BY <2>3 DEF MarkDelta, BatchDone, LinksDone, dbVars, hands, NoFault, RunInv, Steps
    <3>. QED
      BY <2>1, <2>2, <3>1, Untouched DEF storePart
  <2>4. CASE ListDeltas \/ \E notifies \in BOOLEAN : StartRun(notifies)
    <3>1. RunInv'
      BY <2>4 DEF StartRun, ListDeltas, Oldest, PendingDeltas, dbVars, hands, NoFault, RunInv,
         Steps
    <3>. QED
      BY <2>1, <2>2, <3>1, Untouched DEF storePart
  <2>5. CASE RunDies \/ LinksThrow \/ DownloadFails
    <3>1. faults' \in 0 .. MaxFaults
      BY <2>5 DEF RunDies, LinksThrow, DownloadFails, Fault, NoFault, RunInv
    <3>2. RunInv'
      BY <2>5, <3>1 DEF RunDies, LinksThrow, DownloadFails, Forget, dbVars, hands, RunInv, Steps
    <3>. QED
      BY <2>1, <2>2, <3>2, Untouched DEF storePart
  <2>. QED
    BY <1>5, <2>3, <2>4, <2>5
<1>. QED
  BY <1>1, <1>2, <1>3, <1>4, <1>5

(* A text's lines are written over the rows of its arrete.                 *)
LEMMA Upserted ==
  ASSUME StoreInv, NEW t \in Text, Upsert(t), stored' = [stored EXCEPT ![norOf[t]] = t],
         ingested' = ingested \cup {t}
  PROVE  /\ StoreInv'
         /\ \A e \in Entry : entry[e] # None => entry'[e] # None
<1>1. \A e \in Entry : e[1] \in Nor /\ e[2] \in Line
  BY DEF Entry
<1>2. entry' \in [Entry -> Printed \cup {None}]
  <2>1. \A l \in Line : linesOf[t][l] \in Printed \cup {None}
    BY TextAssumption
  <2>. QED
    BY <1>1, <2>1 DEF Upsert, StoreInv
<1>3. \A e \in Entry : entry[e] # None => entry'[e] # None
  BY DEF Upsert, LinesOf
<1>4. /\ stored' \in [Nor -> Text \cup {None}]
      /\ \A n \in Nor : stored'[n] # None => norOf[stored'[n]] = n
      /\ stored'[norOf[t]] # None
      /\ \A n \in Nor : stored[n] # None => stored'[n] # None
  BY TextAssumption, NoneAssumption DEF StoreInv
<1>5. \A e \in Entry : entry'[e] # None => stored'[e[1]] # None
  BY <1>1, <1>4 DEF Upsert, StoreInv
<1>6. ingested' \subseteq Text /\ \A n \in Nor : stored'[n] # None => stored'[n] \in ingested'
  BY TextAssumption DEF StoreInv
<1>. QED
  BY <1>2, <1>3, <1>4, <1>5, <1>6 DEF StoreInv

LEMMA NoticesTyped ==
  ASSUME NEW n, NEW places, QueueNotices(n, places), notice \in [Veille \X Nor -> Rows]
  PROVE  notice' \in [Veille \X Nor -> Rows]
  BY DEF QueueNotices, Rows

(* The plan of a dossier as a revision of its arrete redraws it.           *)
LEMMA RecomputedTyped ==
  ASSUME StoreInv, NEW t \in Text, NEW d \in Dossier, stored[norOf[t]] # None,
         dossier[d] \in Sinistre, dossier[d].link # None, dossier[d].link[2] \in LinesOf(t)
  PROVE  Recomputed(t, d) \in Sinistre /\ Recomputed(t, d).link = dossier[d].link
<1>1. dateOf[t] \in Date /\ dateOf[stored[norOf[t]]] \in Date
  BY TextAssumption DEF StoreInv, Date
<1>2. dossier[d].declared \in Date \cup {None}
  BY DEF Sinistre, Date
<1>3. Replanned(t, d) \in Date \cup {None}
  BY <1>1 DEF Replanned, Sinistre
<1>4. InsurerAnchor(dossier[d].declared, dateOf[t]) \in Date \cup {None}
  BY <1>1, <1>2, AnchorTyped
<1>5. SinistreStatus(linesOf[t][dossier[d].link[2]].outcome, dossier[d].declared) \in Statuses
  BY StatusTyped
<1>. QED
  BY <1>3, <1>4, <1>5 DEF Recomputed, Sinistre

(* The texts of the delta in hand.                                         *)
LEMMA IngestKeepsTypeInv ==
  ASSUME TypeInv, NEW t \in Text,
         NothingToIngest(t) \/ IngestFails(t) \/ FirstPublication(t) \/ Rectificatif(t)
  PROVE  TypeInv'
<1> USE DEF TypeInv
<1>1. Take(t)
  BY DEF NothingToIngest, IngestFails, FirstPublication, Rectificatif
<1>2. complete' \in BOOLEAN /\ faults' \in 0 .. MaxFaults
  <2>1. CASE IngestFails(t)
    BY <2>1, FaultTyped DEF IngestFails, RunInv
  <2>2. CASE NothingToIngest(t) \/ FirstPublication(t) \/ Rectificatif(t)
    BY <2>2 DEF NothingToIngest, FirstPublication, Rectificatif, NoFault, RunInv
  <2>. QED
    BY <2>1, <2>2
<1>3. ASSUME rectified' \subseteq Entry PROVE RunInv'
  BY <1>1, <1>2, <1>3 DEF Take, RunInv
<1>4. UNCHANGED <<links, pc, draft, veille>>
  BY <1>1 DEF Take
<1>5. ASSUME \A e \in Entry : entry[e] # None => entry'[e] # None PROVE LinksInv'
  BY <1>4, <1>5 DEF LinksInv, Link
<1>6. CASE NothingToIngest(t) \/ IngestFails(t)
  <2>1. UNCHANGED <<storePart, dossierPart, outboxPart, rectified>>
    BY <1>4, <1>6
    DEF NothingToIngest, IngestFails, history, storePart, dossierPart, outboxPart
  <2>2. RunInv'
    BY <1>3, <2>1 DEF RunInv
  <2>. QED
    BY <1>4, <2>1, <2>2, Untouched DEF storePart
<1>7. CASE FirstPublication(t)
  <2>1. StoreInv' /\ \A e \in Entry : entry[e] # None => entry'[e] # None
    BY <1>7, Upserted DEF FirstPublication
  <2>2. RunInv'
    BY <1>3, <1>7 DEF FirstPublication, RunInv
  <2>3. DossierInv'
    BY <1>4, <1>7, <2>1 DEF FirstPublication, history, DossierInv, Open, Sinistre, Draft
  <2>4. OutboxInv'
    BY <1>4, <1>7, NoticesTyped DEF FirstPublication, OutboxInv
  <2>. QED
    BY <1>5, <2>1, <2>2, <2>3, <2>4
<1>8. CASE Rectificatif(t)
  <2>1. StoreInv' /\ \A e \in Entry : entry[e] # None => entry'[e] # None
    BY <1>8, Upserted DEF Rectificatif
  <2>2. RunInv'
    <3>1. \A l \in LinesOf(t) : <<norOf[t], l>> \in Entry
      BY TextAssumption DEF LinesOf, Entry
    <3>2. rectified' \subseteq Entry
      BY <1>8, <3>1 DEF Rectificatif, RunInv
    <3>. QED
      BY <1>3, <3>2
  <2>3. DossierInv'
    <3>1. ASSUME NEW d \in Dossier, Touched(t, d)
          PROVE  /\ Recomputed(t, d) \in Sinistre
                 /\ Recomputed(t, d).link = dossier[d].link
      BY <1>8, <3>1, RecomputedTyped DEF Rectificatif, Touched, DossierInv, Open
    <3>2. dossier' \in [Dossier -> Sinistre \cup {None, Deleted}]
      BY <1>8, <3>1 DEF Rectificatif, DossierInv
    <3>3. \A d \in Dossier : \/ dossier'[d] = dossier[d]
                             \/ Open(d) /\ dossier'[d].link = dossier[d].link
      BY <1>8, <3>1 DEF Rectificatif, Touched
    <3>4. quiet' \subseteq Dossier /\ behind' \subseteq Dossier
      BY <1>8 DEF Rectificatif, Dropped, DossierInv
    <3>. QED
      BY <1>4, <2>1, <3>2, <3>3, <3>4 DEF DossierInv, Open, Sinistre, Draft
  <2>4. OutboxInv'
    <3>1. letter' \in [Dossier \X Nor \X Kinds -> Rows]
      BY <1>8 DEF Rectificatif, OutboxInv, Rows
    <3>. QED
      BY <1>4, <1>8, <3>1, NoticesTyped DEF Rectificatif, OutboxInv
  <2>. QED
    BY <1>5, <2>1, <2>2, <2>3, <2>4
<1>. QED
  BY <1>6, <1>7, <1>8

(* The link pass decides on stored lines ...                               *)
LEMMA DecideKeepsTypeInv ==
  ASSUME TypeInv, DecideLinks
  PROVE  TypeInv'
<1> USE DEF TypeInv
<1> DEFINE matched == {d \in Candidates : Matching(homeOf[d]) # {}}
<1>1. UNCHANGED <<storePart, dossierPart, outboxPart>> /\ RunInv'
  BY DEF DecideLinks, dbVars, hands, owners, history, NoFault, storePart, dossierPart,
     outboxPart, RunInv, Steps
<1>2. PICK winner \in [matched -> Entry] :
        /\ \A d \in matched : winner[d] \in Winners(homeOf[d])
        /\ links' = {[d |-> d, e |-> winner[d], outcome |-> OutcomeOf(winner[d]),
                      date |-> PublishedAt(winner[d]),
                      ruled |-> PublishedAt(winner[d]) \in Ruled,
                      kind |-> IF winner[d] \in rectified
                               THEN "RECTIFICATIF_RECONNU" ELSE "PUBLICATION"] : d \in matched}
  BY DEF DecideLinks
<1>3. matched \subseteq Dossier
  BY DEF Candidates
<1> HIDE DEF matched
<1>4. ASSUME NEW d \in matched
      PROVE  /\ winner[d] \in Entry /\ entry[winner[d]] # None
             /\ OutcomeOf(winner[d]) \in Outcomes /\ PublishedAt(winner[d]) \in Date
  <2>1. winner[d] \in Entry /\ entry[winner[d]] # None
    BY <1>2 DEF Winners, Matching
  <2>2. winner[d] # None
    BY <2>1, NoneAssumption
  <2>. QED
    BY <2>1, <2>2, EntryStored DEF OutcomeOf, Printed
<1>5. \A k \in links' : k \in Link /\ entry[k.e] # None
  <2> TAKE k \in links'
  <2>1. PICK d \in matched :
          k = [d |-> d, e |-> winner[d], outcome |-> OutcomeOf(winner[d]),
               date |-> PublishedAt(winner[d]),
               ruled |-> PublishedAt(winner[d]) \in Ruled,
               kind |-> IF winner[d] \in rectified
                        THEN "RECTIFICATIF_RECONNU" ELSE "PUBLICATION"]
    BY <1>2
  <2>2. (IF winner[d] \in rectified THEN "RECTIFICATIF_RECONNU" ELSE "PUBLICATION") \in Kinds
    BY DEF Kinds
  <2>3. d \in Dossier
    BY <1>3
  <2>4. (PublishedAt(winner[d]) \in Ruled) \in BOOLEAN
    OBVIOUS
  <2>. QED
    BY <1>4, <2>1, <2>2, <2>3, <2>4 DEF Link
<1>6. LinksInv'
  BY <1>1, <1>5 DEF DecideLinks, dbVars, LinksInv
<1>. QED
  BY <1>1, <1>6, Untouched DEF storePart

(* The row a link leaves.                                                  *)
Linked(k) ==
  [dossier[k.d] EXCEPT
     !.link    = k.e,
     !.status  = SinistreStatus(k.outcome, dossier[k.d].declared),
     !.planned = IF k.outcome = "RECONNU" /\ k.ruled THEN k.date ELSE @]

LEMMA LinkedTyped ==
  ASSUME DossierInv, NEW k \in Link, ApplyLink(k), Open(k.d)
  PROVE  /\ dossier' = [dossier EXCEPT ![k.d] = Linked(k)]
         /\ Linked(k) \in Sinistre
         /\ Linked(k).link = k.e /\ Linked(k).declared = dossier[k.d].declared
         /\ Linked(k).status = SinistreStatus(k.outcome, dossier[k.d].declared)
         /\ Linked(k).planned =
              IF k.outcome = "RECONNU" /\ k.ruled THEN k.date ELSE dossier[k.d].planned
<1>1. k.d \in Dossier /\ k.e \in Entry /\ k.date \in Date
  BY DEF Link
<1>2. dossier[k.d] \in Sinistre
  BY <1>1 DEF DossierInv, Open
<1>3. dossier' = [dossier EXCEPT ![k.d] = Linked(k)]
  BY <1>1 DEF ApplyLink, Linked, DossierInv
<1>. QED
  BY <1>1, <1>2, <1>3, StatusTyped DEF Linked, Sinistre

(* ... and applies its decisions one dossier at a time.                    *)
LEMMA ApplyKeepsTypeInv ==
  ASSUME TypeInv, NEW k \in links, ApplyLink(k)
  PROVE  TypeInv'
<1> USE DEF TypeInv
<1>1. UNCHANGED <<runPart, storePart, notice, veille, draft>>
  BY DEF ApplyLink, hands, NoFault, runPart, storePart
<1>2. k \in Link /\ entry[k.e] # None
  BY DEF LinksInv
<1>3. k.d \in Dossier /\ k.e \in Entry /\ k.date \in Date
  BY <1>2 DEF Link
<1>4. LinksInv'
  BY <1>1 DEF ApplyLink, LinksInv, runPart, storePart
<1>5. OutboxInv'
  <2>1. UNCHANGED letter \/ QueueLetter(k)
    BY DEF ApplyLink
  <2>2. letter' \in [Dossier \X Nor \X Kinds -> Rows]
    BY <2>1 DEF QueueLetter, OutboxInv, Rows
  <2>. QED
    BY <1>1, <2>2 DEF OutboxInv
<1>6. CASE ~Open(k.d)
  <2>1. UNCHANGED <<dossier, quiet, behind>>
    BY <1>6 DEF ApplyLink, history
  <2>. QED
    BY <1>1, <1>4, <1>5, <2>1, Untouched DEF dossierPart, storePart
<1>7. CASE Open(k.d)
  <2>1. dossier' = [dossier EXCEPT ![k.d] = Linked(k)] /\ Linked(k) \in Sinistre
        /\ Linked(k).link = k.e
    BY <1>2, <1>7, LinkedTyped
  <2>2. quiet' \in {quiet, quiet \ {k.d}, quiet \cup {k.d}} /\ behind' = behind \ {k.d}
    BY <1>7 DEF ApplyLink
  <2>3. quiet' \subseteq Dossier /\ behind' \subseteq Dossier
    BY <1>3, <2>2 DEF DossierInv
  <2>4. DossierInv'
    BY <1>1, <1>2, <1>3, <2>1, <2>3, DossierWritten DEF storePart
  <2>. QED
    BY <1>1, <1>4, <1>5, <2>4, Untouched DEF storePart
<1>. QED
  BY <1>6, <1>7

(* An empty database is well-formed ...                                    *)
LEMMA InitTypeInv == Init => TypeInv
  BY BoundAssumption
  DEF Init, TypeInv, RunInv, StoreInv, DossierInv, OutboxInv, LinksInv, Steps, Rows, Open

(* ... and stays so in every step.                                         *)
LEMMA NextKeepsTypeInv == TypeInv /\ [Next]_vars => TypeInv'
<1> SUFFICES ASSUME TypeInv, [Next]_vars PROVE TypeInv'
  OBVIOUS
<1>1. CASE UNCHANGED vars
  BY <1>1, Untouched
  DEF TypeInv, vars, dbVars, runVars, owners, history, runPart, storePart, dossierPart, outboxPart
<1>2. CASE Request
  BY <1>2, RequestKeepsTypeInv
<1>3. CASE RunStep
  BY <1>3, ControlKeepsTypeInv, IngestKeepsTypeInv, DecideKeepsTypeInv,
     ApplyKeepsTypeInv DEF RunStep
<1>4. CASE FaultStep
  BY <1>4, ControlKeepsTypeInv, IngestKeepsTypeInv DEF FaultStep
<1>5. CASE StartRun(FALSE) \/ Publish
  BY <1>5, ControlKeepsTypeInv
<1>. QED
  BY <1>1, <1>2, <1>3, <1>4, <1>5 DEF Next

LEMMA TypeInvGivesTypeOK == TypeInv => TypeOK
  BY DEF TypeInv, RunInv, StoreInv, DossierInv, OutboxInv, LinksInv, TypeOK

(* The rows, the run's hands and the links keep their shape, and rows only *)
(* refer to rows that exist.                                               *)
THEOREM TypeCorrect == Spec => []TypeOK
  BY InitTypeInv, NextKeepsTypeInv, TypeInvGivesTypeOK, PTL DEF Spec

-----------------------------------------------------------------------------
(* What the plans say.  A link waiting to be applied tells the line as it  *)
(* is stored, is the only one for its dossier, and that dossier is undated *)
(* or was deleted; a plan not inserted yet is of a dossier not there yet.  *)
LinksExact ==
  /\ \A k \in links :
       /\ k.outcome = OutcomeOf(k.e) /\ k.date = PublishedAt(k.e)
       /\ dossier[k.d] # None
       /\ Open(k.d) => dossier[k.d].planned = None
  /\ \A j, k \in links : j.d = k.d => j = k
  /\ \A d \in Dossier : draft[d] # None =>
       /\ dossier[d] = None
       /\ draft[d].outcome # None => draft[d].link # None

(* A dated dossier is a linked one, passed over by a revision or not.      *)
DatedIsLinked ==
  \A d \in Dossier : Open(d) /\ dossier[d].planned # None => dossier[d].link # None

PlanInv == StatusFollowsLink /\ DatedByLink /\ DatedHasLetter /\ LinksExact /\ DatedIsLinked

LEMMA InitPlanInv == Init => PlanInv
  BY DEF Init, PlanInv, StatusFollowsLink, DatedByLink, DatedHasLetter, LinksExact, DatedIsLinked, Open

(* Steps that write neither lines, dossiers nor letters; the ones that     *)
(* give links up are among them.                                           *)
LEMMA PlanUntouched ==
  ASSUME PlanInv, UNCHANGED <<stored, entry, dossier, letter, quiet, behind, draft>>,
         links' \subseteq links
  PROVE  PlanInv'
<1>1. StatusFollowsLink' /\ DatedByLink' /\ DatedHasLetter'
  BY DEF PlanInv, StatusFollowsLink, DatedByLink, DatedHasLetter, OutcomeOf, PublishedAt, Open
<1>2. LinksExact' /\ DatedIsLinked'
  BY DEF PlanInv, LinksExact, DatedIsLinked, OutcomeOf, PublishedAt, Open
<1>. QED
  BY <1>1, <1>2 DEF PlanInv

(* One dossier is written; the lines stay.  It is enough to look at it.    *)
LEMMA PlanWritten ==
  ASSUME TypeInv, PlanInv, NEW d \in Dossier, NEW row \in Sinistre,
         dossier' = [dossier EXCEPT ![d] = row],
         UNCHANGED <<stored, entry>>,
         \A c \in Dossier \ {d} : c \notin behind' => c \notin behind,
         \A c \in Dossier \ {d} : c \notin quiet' => c \notin quiet,
         letter' \in [Dossier \X Nor \X Kinds -> Rows],
         \A r \in Dossier \X Nor \X Kinds : letter[r] # "none" => letter'[r] # "none",
         d \notin behind' => row.status = SinistreStatus(OutcomeOf(row.link), row.declared),
         d \notin behind' /\ row.planned # None =>
           /\ OutcomeOf(row.link) = "RECONNU"
           /\ PublishedAt(row.link) \in Ruled => row.planned = PublishedAt(row.link),
         row.planned # None /\ d \notin quiet' =>
           \E kind \in Kinds : letter'[<<d, row.link[1], kind>>] # "none",
         row.planned # None => row.link # None
  PROVE  StatusFollowsLink' /\ DatedByLink' /\ DatedHasLetter' /\ DatedIsLinked'
<1> USE DEF PlanInv
<1>1. /\ dossier \in [Dossier -> Sinistre \cup {None, Deleted}]
      /\ dossier'[d] = row /\ \A c \in Dossier \ {d} : dossier'[c] = dossier[c]
  BY DEF TypeInv, DossierInv
<1>2. StatusFollowsLink'
  BY <1>1 DEF StatusFollowsLink, OutcomeOf, Open
<1>3. DatedByLink'
  BY <1>1 DEF DatedByLink, OutcomeOf, PublishedAt, Open
<1>4. DatedHasLetter'
  <2> SUFFICES ASSUME NEW c \in Dossier, Open(c)', dossier'[c].planned # None, c \notin quiet'
               PROVE  \E kind \in Kinds : letter'[<<c, dossier'[c].link[1], kind>>] # "none"
    BY DEF DatedHasLetter
  <2>1. CASE c = d
    BY <1>1, <2>1
  <2>2. CASE c # d
    <3>1. dossier'[c] = dossier[c] /\ Open(c) /\ c \notin quiet
      BY <1>1, <2>2 DEF Open
    <3>2. PICK kind \in Kinds : letter[<<c, dossier[c].link[1], kind>>] # "none"
      BY <3>1 DEF DatedHasLetter
    <3>3. dossier[c].link \in Entry
      BY <1>1, <3>1 DEF DatedIsLinked, Open, Sinistre
    <3>. QED
      BY <3>1, <3>2, <3>3 DEF Entry
  <2>. QED
    BY <2>1, <2>2
<1>5. DatedIsLinked'
  BY <1>1 DEF DatedIsLinked, Open
<1>. QED
  BY <1>2, <1>3, <1>4, <1>5

(* Requests.                                                               *)
LEMMA RequestKeepsPlanInv ==
  ASSUME TypeInv, TypeInv', PlanInv, Request
  PROVE  PlanInv'
<1>1. ASSUME NEW d \in Dossier, PlanDossier(d) PROVE PlanInv'
  <2>1. UNCHANGED <<stored, entry, dossier, letter, quiet, behind, links>>
    BY <1>1 DEF PlanDossier, dbVars, runVars, history
  <2>2. StatusFollowsLink' /\ DatedByLink' /\ DatedHasLetter' /\ DatedIsLinked'
    BY <2>1
    DEF PlanInv, StatusFollowsLink, DatedByLink, DatedHasLetter, DatedIsLinked, OutcomeOf,
        PublishedAt, Open
  <2>3. PICK e \in Entry \cup {None} : draft' = [draft EXCEPT ![d] =
          [link |-> e, outcome |-> OutcomeOf(e), date |-> PublishedAt(e)]]
    BY <1>1 DEF PlanDossier, Winners, Matching
  <2>4. \A c \in Dossier : draft'[c] # None =>
          /\ dossier'[c] = None
          /\ draft'[c].outcome # None => draft'[c].link # None
    BY <1>1, <2>1, <2>3 DEF PlanDossier, PlanInv, LinksExact, TypeInv, DossierInv, OutcomeOf
  <2>5. LinksExact'
    BY <2>1, <2>4 DEF PlanInv, LinksExact, OutcomeOf, PublishedAt, Open
  <2>. QED
    BY <2>2, <2>5 DEF PlanInv
<1>2. ASSUME NEW d \in Dossier, Insert(d) PROVE PlanInv'
  <2> DEFINE dates == draft[d].outcome = "RECONNU" /\ draft[d].date \in Ruled
             row == [link |-> draft[d].link,
                     status |-> SinistreStatus(draft[d].outcome, None), declared |-> None,
                     planned |-> IF dates THEN draft[d].date ELSE None, insurer |-> None]
  <2>1. draft[d] \in Draft /\ dossier[d] = None
        /\ (draft[d].outcome # None => draft[d].link # None)
    BY <1>2 DEF Insert, TypeInv, DossierInv, PlanInv, LinksExact
  <2>2. /\ dossier' = [dossier EXCEPT ![d] = row] /\ draft' = [draft EXCEPT ![d] = None]
        /\ quiet' = IF dates THEN quiet \cup {d} ELSE quiet
        /\ behind' = IF /\ draft[d].outcome = OutcomeOf(draft[d].link)
                        /\ draft[d].date = PublishedAt(draft[d].link)
                     THEN behind ELSE behind \cup {d}
        /\ UNCHANGED <<stored, entry, letter, links>>
    BY <1>2 DEF Insert, runVars
  <2>3. row \in Sinistre
    BY <2>1, StatusTyped DEF Draft, Sinistre
  <2>4. row.planned # None => dates /\ d \in quiet' /\ row.link # None
    BY <2>1, <2>2, NoneAssumption DEF Outcomes
  <2>5. d \notin behind' => /\ row.status = SinistreStatus(OutcomeOf(row.link), row.declared)
                            /\ row.planned # None =>
                                 /\ OutcomeOf(row.link) = "RECONNU"
                                 /\ row.planned = PublishedAt(row.link)
    BY <2>2
  <2>6. StatusFollowsLink' /\ DatedByLink' /\ DatedHasLetter' /\ DatedIsLinked'
    <3>1. /\ \A c \in Dossier \ {d} : c \notin behind' => c \notin behind
          /\ \A c \in Dossier \ {d} : c \notin quiet' => c \notin quiet
          /\ letter' \in [Dossier \X Nor \X Kinds -> Rows]
      BY <2>2 DEF TypeInv, OutboxInv
    <3> HIDE DEF row, dates
    <3>. QED
      BY <2>2, <2>3, <2>4, <2>5, <3>1, PlanWritten
  <2>7. LinksExact'
    <3>1. \A k \in links : k.d # d
      BY <2>1 DEF PlanInv, LinksExact
    <3>2. \A c \in Dossier \ {d} : dossier'[c] = dossier[c] /\ draft'[c] = draft[c]
      BY <2>2 DEF TypeInv, DossierInv
    <3>3. \A k \in links : k.d \in Dossier
      BY DEF TypeInv, LinksInv, Link
    <3>4. draft'[d] = None
      BY <2>2 DEF TypeInv, DossierInv
    <3> HIDE DEF row, dates
    <3>. QED
      BY <2>2, <3>1, <3>2, <3>3, <3>4 DEF PlanInv, LinksExact, OutcomeOf, PublishedAt, Open
  <2>. QED
    BY <2>6, <2>7 DEF PlanInv
<1>3. ASSUME NEW d \in Dossier, Remove(d) PROVE PlanInv'
  <2>1. /\ Open(d) /\ dossier' = [dossier EXCEPT ![d] = Deleted]
        /\ letter' = [row \in DOMAIN letter |-> IF row[1] = d THEN "none" ELSE letter[row]]
        /\ quiet' = quiet \ {d} /\ behind' = behind \ {d}
        /\ UNCHANGED <<stored, entry, links, draft>>
    BY <1>3 DEF Remove, runVars
  <2>2. /\ \A c \in Dossier \ {d} : dossier'[c] = dossier[c]
        /\ dossier'[d] = Deleted /\ ~Open(d)'
    BY <2>1 DEF TypeInv, DossierInv, Open
  <2>3. StatusFollowsLink' /\ DatedByLink' /\ DatedIsLinked'
    BY <2>1, <2>2
    DEF PlanInv, StatusFollowsLink, DatedByLink, DatedIsLinked, OutcomeOf, PublishedAt, Open
  <2>4. DatedHasLetter'
    <3> SUFFICES ASSUME NEW c \in Dossier, Open(c)', dossier'[c].planned # None, c \notin quiet'
                 PROVE  \E kind \in Kinds : letter'[<<c, dossier'[c].link[1], kind>>] # "none"
      BY DEF DatedHasLetter
    <3>1. c # d /\ dossier'[c] = dossier[c] /\ Open(c) /\ c \notin quiet
      BY <2>1, <2>2 DEF Open
    <3>2. PICK kind \in Kinds : letter[<<c, dossier[c].link[1], kind>>] # "none"
      BY <3>1 DEF PlanInv, DatedHasLetter
    <3>3. dossier[c].link[1] \in Nor
      BY <3>1 DEF PlanInv, DatedIsLinked, TypeInv, DossierInv, Open, Sinistre, Entry
    <3>. QED
      BY <2>1, <3>1, <3>2, <3>3 DEF TypeInv, OutboxInv
  <2>5. LinksExact'
    <3>1. \A k \in links : k.d \in Dossier
      BY DEF TypeInv, LinksInv, Link
    <3>2. draft[d] = None
      BY <2>1 DEF PlanInv, LinksExact, Open
    <3>. QED
      BY <2>1, <2>2, <3>1, <3>2, SinistreAssumption
      DEF PlanInv, LinksExact, OutcomeOf, PublishedAt, Open
  <2>. QED
    BY <2>3, <2>4, <2>5 DEF PlanInv
<1>4. ASSUME NEW d \in Dossier, NEW date \in DeclarationDate \cup {None}, Declare(d, date)
      PROVE  PlanInv'
  <2> DEFINE row == Declared(d, date)
  <2>1. /\ Open(d) /\ dossier[d] \in Sinistre
        /\ UNCHANGED <<stored, entry, letter, links, draft, quiet, behind>>
    BY <1>4 DEF Declare, TypeInv, DossierInv, Open, runVars, owners, history
  <2>2. /\ dossier' = [dossier EXCEPT ![d] = row] /\ row \in Sinistre
        /\ row.link = dossier[d].link /\ row.planned = dossier[d].planned
        /\ row.status = SinistreStatus(OutcomeOf(row.link), row.declared)
    BY <1>4, DeclaredTyped DEF TypeInv
  <2> HIDE DEF row
  <2>3. StatusFollowsLink' /\ DatedByLink' /\ DatedHasLetter' /\ DatedIsLinked'
    <3>1. letter' \in [Dossier \X Nor \X Kinds -> Rows]
      BY <2>1 DEF TypeInv, OutboxInv
    <3>2. row.planned # None =>
            /\ row.link # None
            /\ d \notin behind => /\ OutcomeOf(row.link) = "RECONNU"
                                  /\ PublishedAt(row.link) \in Ruled =>
                                       row.planned = PublishedAt(row.link)
            /\ d \notin quiet => \E kind \in Kinds : letter[<<d, row.link[1], kind>>] # "none"
      BY <2>1, <2>2 DEF PlanInv, DatedByLink, DatedHasLetter, DatedIsLinked
    <3>. QED
      BY <2>1, <2>2, <3>1, <3>2, PlanWritten
  <2>4. LinksExact'
    <3>1. /\ \A c \in Dossier \ {d} : dossier'[c] = dossier[c]
          /\ dossier'[d] = row /\ row # None
      BY <2>2, SinistreAssumption DEF TypeInv, DossierInv
    <3>2. \A k \in links : k.d \in Dossier
      BY DEF TypeInv, LinksInv, Link
    <3>3. draft[d] = None
      BY <2>1 DEF PlanInv, LinksExact, Open
    <3>. QED
      BY <2>1, <2>2, <3>1, <3>2, <3>3 DEF PlanInv, LinksExact, OutcomeOf, PublishedAt, Open
  <2>. QED
    BY <2>3, <2>4 DEF PlanInv
<1>5. ASSUME NEW v \in Veille, Confirm(v) \/ Unsubscribe(v) PROVE PlanInv'
  <2>1. UNCHANGED <<stored, entry, dossier, letter, quiet, behind, draft, links>>
    BY <1>5 DEF Confirm, Unsubscribe, runVars, owners, history
  <2>. QED
    BY <2>1, PlanUntouched
<1>. QED
  BY <1>1, <1>2, <1>3, <1>4, <1>5 DEF Request

(* The steps of the run that write no line and no dossier: a drain only    *)
(* turns queued letters into sent ones.                                    *)
LEMMA ControlKeepsPlanInv ==
  ASSUME TypeInv, PlanInv,
         \/ Publish \/ RunDies \/ LinksThrow \/ DownloadFails
         \/ \E notifies \in BOOLEAN : StartRun(notifies)
         \/ DrainSinistres \/ DrainVeilles
         \/ ListDeltas \/ Download \/ MarkDelta \/ BatchDone \/ LinksDone
         \/ \E t \in Text : NothingToIngest(t) \/ IngestFails(t)
  PROVE  PlanInv'
<1>1. ASSUME DrainSinistres PROVE PlanInv'
  <2>1. UNCHANGED <<stored, entry, dossier, quiet, behind, draft, links>>
    BY <1>1 DEF DrainSinistres, owners, history
  <2>2. \A row \in Dossier \X Nor \X Kinds : letter[row] # "none" => letter'[row] # "none"
    BY <1>1 DEF DrainSinistres, Drained, TypeInv, OutboxInv
  <2>3. StatusFollowsLink' /\ DatedByLink' /\ DatedIsLinked' /\ LinksExact'
    BY <2>1
    DEF PlanInv, StatusFollowsLink, DatedByLink, DatedIsLinked, LinksExact, OutcomeOf,
        PublishedAt, Open
  <2>4. DatedHasLetter'
    <3> SUFFICES ASSUME NEW d \in Dossier, Open(d), dossier[d].planned # None, d \notin quiet
                 PROVE  \E kind \in Kinds : letter'[<<d, dossier[d].link[1], kind>>] # "none"
      BY <2>1 DEF DatedHasLetter, Open
    <3>1. PICK kind \in Kinds : letter[<<d, dossier[d].link[1], kind>>] # "none"
      BY DEF PlanInv, DatedHasLetter
    <3>2. dossier[d].link[1] \in Nor
      BY DEF PlanInv, DatedIsLinked, TypeInv, DossierInv, Open, Sinistre, Entry
    <3>. QED
      BY <2>2, <3>1, <3>2
  <2>. QED
    BY <2>3, <2>4 DEF PlanInv
<1>2. ASSUME \/ Publish \/ RunDies \/ LinksThrow \/ DownloadFails
             \/ \E notifies \in BOOLEAN : StartRun(notifies)
             \/ DrainVeilles
             \/ ListDeltas \/ Download \/ MarkDelta \/ BatchDone \/ LinksDone
             \/ \E t \in Text : NothingToIngest(t) \/ IngestFails(t)
      PROVE  PlanInv'
  <2>1. UNCHANGED <<stored, entry, dossier, letter, quiet, behind, draft>>
    BY <1>2 DEF Publish, RunDies, LinksThrow, DownloadFails, StartRun, DrainVeilles, ListDeltas,
       Download, MarkDelta, BatchDone, LinksDone, NothingToIngest, IngestFails, Take, dbVars,
       runVars, owners, history
  <2>2. links' \subseteq links
    BY <1>2 DEF Publish, RunDies, LinksThrow, DownloadFails, StartRun, DrainVeilles, ListDeltas,
       Download, MarkDelta, BatchDone, LinksDone, NothingToIngest, IngestFails, Take, Forget,
       runVars
  <2>. QED
    BY <2>1, <2>2, PlanUntouched
<1>. QED
  BY <1>1, <1>2

(* The link pass decides on what is stored ...                             *)
LEMMA DecideKeepsPlanInv ==
  ASSUME TypeInv, PlanInv, DecideLinks
  PROVE  PlanInv'
<1> DEFINE matched == {d \in Candidates : Matching(homeOf[d]) # {}}
<1>1. UNCHANGED <<stored, entry, dossier, letter, quiet, behind, draft>>
  BY DEF DecideLinks, dbVars, owners, history
<1>2. StatusFollowsLink' /\ DatedByLink' /\ DatedHasLetter' /\ DatedIsLinked'
  BY <1>1
  DEF PlanInv, StatusFollowsLink, DatedByLink, DatedHasLetter, DatedIsLinked, OutcomeOf,
      PublishedAt, Open
<1>3. PICK winner \in [matched -> Entry] :
        links' = {[d |-> d, e |-> winner[d], outcome |-> OutcomeOf(winner[d]),
                   date |-> PublishedAt(winner[d]),
                   ruled |-> PublishedAt(winner[d]) \in Ruled,
                   kind |-> IF winner[d] \in rectified
                            THEN "RECTIFICATIF_RECONNU" ELSE "PUBLICATION"] : d \in matched}
  BY DEF DecideLinks
<1>4. \A d \in matched : Open(d) /\ dossier[d].planned = None
  BY DEF Candidates
<1> HIDE DEF matched
<1>5. \A k \in links' : /\ k.outcome = OutcomeOf(k.e) /\ k.date = PublishedAt(k.e)
                        /\ Open(k.d) /\ dossier[k.d].planned = None
  BY <1>3, <1>4
<1>6. \A j, k \in links' : j.d = k.d => j = k
  BY <1>3
<1>7. LinksExact'
  BY <1>1, <1>5, <1>6 DEF PlanInv, LinksExact, OutcomeOf, PublishedAt, Open
<1>. QED
  BY <1>2, <1>7 DEF PlanInv

(* ... and what it decided is still so when it is applied.                 *)
LEMMA ApplyKeepsPlanInv ==
  ASSUME TypeInv, TypeInv', PlanInv, NEW k \in links, ApplyLink(k)
  PROVE  PlanInv'
<1>1. UNCHANGED <<stored, entry, notify, draft>> /\ links' = links \ {k}
  BY DEF ApplyLink
<1>2. /\ k \in Link /\ k.d \in Dossier /\ k.e \in Entry
      /\ k.outcome = OutcomeOf(k.e) /\ k.date = PublishedAt(k.e)
      /\ Open(k.d) => dossier[k.d].planned = None
      /\ dossier[k.d] # None /\ k.kind \in Kinds
  BY DEF TypeInv, LinksInv, Link, PlanInv, LinksExact
<1>3. CASE ~Open(k.d)
  <2>1. UNCHANGED <<dossier, letter, quiet, behind>>
    BY <1>3 DEF ApplyLink, history
  <2>. QED
    BY <1>1, <2>1, PlanUntouched
<1>4. CASE Open(k.d)
  <2> DEFINE dates == k.outcome = "RECONNU" /\ k.ruled
  <2>1. /\ dossier' = [dossier EXCEPT ![k.d] = Linked(k)] /\ Linked(k) \in Sinistre
        /\ Linked(k).link = k.e /\ Linked(k).declared = dossier[k.d].declared
        /\ Linked(k).status = SinistreStatus(k.outcome, dossier[k.d].declared)
        /\ Linked(k).planned = IF dates THEN k.date ELSE None
    BY <1>2, <1>4, LinkedTyped DEF TypeInv
  <2>2. /\ IF dates THEN QueueLetter(k) ELSE UNCHANGED letter
        /\ quiet' = IF ~dates THEN quiet
                    ELSE IF notify THEN quiet \ {k.d} ELSE quiet \cup {k.d}
        /\ behind' = behind \ {k.d}
    BY <1>4 DEF ApplyLink
  <2>3. letter' \in [Dossier \X Nor \X Kinds -> Rows]
    BY DEF TypeInv, OutboxInv
  <2>4. \A row \in Dossier \X Nor \X Kinds : letter[row] # "none" => letter'[row] # "none"
    BY <2>2 DEF QueueLetter, TypeInv, OutboxInv
  <2>5. dates /\ notify => letter'[<<k.d, k.e[1], k.kind>>] # "none"
    BY <1>2, <2>2 DEF QueueLetter, TypeInv, OutboxInv, Entry
  <2>6. Linked(k).planned # None => dates /\ Linked(k).planned = k.date
    BY <2>1
  <2>7. k.e # None
    BY <1>2, NoneAssumption
  <2>8. StatusFollowsLink' /\ DatedByLink' /\ DatedHasLetter' /\ DatedIsLinked'
    <3>1. Linked(k).planned # None /\ k.d \notin quiet' =>
            \E kind \in Kinds : letter'[<<k.d, Linked(k).link[1], kind>>] # "none"
      BY <1>2, <2>1, <2>2, <2>5, <2>6
    <3>2. /\ \A c \in Dossier \ {k.d} : c \notin behind' => c \notin behind
          /\ \A c \in Dossier \ {k.d} : c \notin quiet' => c \notin quiet
      BY <2>2
    <3>3. Linked(k).status = SinistreStatus(OutcomeOf(Linked(k).link), Linked(k).declared)
      BY <1>2, <2>1
    <3>4. Linked(k).planned # None =>
            /\ Linked(k).link # None
            /\ OutcomeOf(Linked(k).link) = "RECONNU"
            /\ Linked(k).planned = PublishedAt(Linked(k).link)
      BY <1>2, <2>1, <2>6, <2>7
    <3> HIDE DEF dates
    <3>. QED
      BY <1>1, <1>2, <2>1, <2>3, <2>4, <3>1, <3>2, <3>3, <3>4, PlanWritten
  <2>9. LinksExact'
    <3>1. \A c \in Dossier \ {k.d} : dossier'[c] = dossier[c]
      BY <2>1 DEF TypeInv, DossierInv
    <3>2. \A j \in links' : j \in links /\ j.d \in Dossier
      BY <1>1 DEF TypeInv, LinksInv, Link
    <3>3. \A j \in links' : j.d # k.d
      BY <1>1 DEF PlanInv, LinksExact
    <3>4. draft[k.d] = None
      BY <1>2 DEF PlanInv, LinksExact
    <3>. QED
      BY <1>1, <1>2, <3>1, <3>2, <3>3, <3>4 DEF PlanInv, LinksExact, OutcomeOf, PublishedAt, Open
  <2>. QED
    BY <2>8, <2>9 DEF PlanInv
<1>. QED
  BY <1>3, <1>4

(* What a text does to a line: it prints it over what was stored, or       *)
(* leaves it as it was.                                                    *)
LEMMA RevisedLine ==
  ASSUME StoreInv, NEW t \in Text, Upsert(t), stored' = [stored EXCEPT ![norOf[t]] = t],
         NEW e \in Entry
  PROVE  /\ e[1] # norOf[t] => OutcomeOf(e)' = OutcomeOf(e) /\ PublishedAt(e)' = PublishedAt(e)
         /\ e[1] = norOf[t] => PublishedAt(e)' = dateOf[t]
         /\ e[1] = norOf[t] /\ e[2] \in LinesOf(t) =>
              entry'[e] = linesOf[t][e[2]] /\ OutcomeOf(e)' = linesOf[t][e[2]].outcome
         /\ e[1] = norOf[t] /\ e[2] \notin LinesOf(t) => OutcomeOf(e)' = OutcomeOf(e)
<1>1. e # None /\ e[1] \in Nor /\ norOf[t] \in Nor
  BY NoneAssumption, TextAssumption DEF Entry
<1>2. entry'[e] = IF e[1] = norOf[t] /\ e[2] \in LinesOf(t) THEN linesOf[t][e[2]] ELSE entry[e]
  BY DEF Upsert
<1>3. stored'[e[1]] = IF e[1] = norOf[t] THEN t ELSE stored[e[1]]
  BY <1>1 DEF StoreInv
<1>. QED
  BY <1>1, <1>2, <1>3 DEF OutcomeOf, PublishedAt

(* A first publication changes no line a dossier is linked to: they belong *)
(* to arretes that are stored.                                             *)
LEMMA PublicationKeepsPlanInv ==
  ASSUME TypeInv, PlanInv, NEW t \in Text, FirstPublication(t)
  PROVE  PlanInv'
<1>1. /\ UNCHANGED <<dossier, letter, quiet, behind, draft, links>>
      /\ pc = "texts" /\ stored[norOf[t]] = None
      /\ Upsert(t) /\ stored' = [stored EXCEPT ![norOf[t]] = t]
  BY DEF FirstPublication, Take, history
<1>2. ASSUME NEW d \in Dossier, Open(d)
      PROVE  /\ OutcomeOf(dossier[d].link)' = OutcomeOf(dossier[d].link)
             /\ PublishedAt(dossier[d].link)' = PublishedAt(dossier[d].link)
  <2>1. CASE dossier[d].link = None
    BY <1>1, <2>1 DEF OutcomeOf, PublishedAt
  <2>2. CASE dossier[d].link # None
    <3>1. PICK e \in Entry : e = dossier[d].link /\ entry[e] # None
      BY <1>2, <2>2 DEF TypeInv, DossierInv, Open, Sinistre
    <3>2. e[1] # norOf[t]
      BY <1>1, <3>1 DEF TypeInv, StoreInv
    <3>3. OutcomeOf(e)' = OutcomeOf(e) /\ PublishedAt(e)' = PublishedAt(e)
      BY <1>1, <3>2, RevisedLine DEF TypeInv
    <3>. QED
      BY <1>1, <3>1, <3>3 DEF OutcomeOf, PublishedAt
  <2>. QED
    BY <2>1, <2>2
<1>3. StatusFollowsLink' /\ DatedByLink'
  BY <1>1, <1>2 DEF PlanInv, StatusFollowsLink, DatedByLink, Open
<1>4. DatedHasLetter' /\ DatedIsLinked'
  BY <1>1 DEF PlanInv, DatedHasLetter, DatedIsLinked, Open
<1>5. links = {}
  BY <1>1 DEF TypeInv, LinksInv
<1>6. LinksExact'
  BY <1>1, <1>5 DEF PlanInv, LinksExact
<1>. QED
  BY <1>3, <1>4, <1>6 DEF PlanInv

(* A revision redraws the plan of every dossier linked to a line it        *)
(* changes or moves; it passes over those of a line it no longer prints.   *)
LEMMA RevisionKeepsPlanInv ==
  ASSUME TypeInv, TypeInv', PlanInv, NEW t \in Text, Rectificatif(t)
  PROVE  PlanInv'
<1>1. /\ pc = "texts" /\ stored[norOf[t]] # None /\ UNCHANGED <<draft, links>>
      /\ Upsert(t) /\ stored' = [stored EXCEPT ![norOf[t]] = t]
  BY DEF Rectificatif, Take
<1>2. dossier' = [d \in Dossier |-> IF Touched(t, d) THEN Recomputed(t, d) ELSE dossier[d]]
  BY DEF Rectificatif
<1>3. letter' = [row \in DOMAIN letter |->
        IF /\ row[1] \in NewlyDated(t) /\ row[2] = norOf[t]
           /\ row[3] = "RECTIFICATIF_RECONNU" /\ letter[row] = "none"
        THEN "pending" ELSE letter[row]]
  BY DEF Rectificatif
<1>4. /\ quiet' = {d \in quiet \ NewlyDated(t) : dossier'[d].planned # None}
      /\ behind' = (behind \ {d \in Dossier : Touched(t, d)}) \cup Dropped(t)
  BY DEF Rectificatif
<1>5. ASSUME NEW d \in Dossier, Touched(t, d)
      PROVE  \E e \in Entry :
               /\ Open(d) /\ dossier[d].link = e /\ e # None /\ e[1] = norOf[t]
               /\ dossier'[d] = Recomputed(t, d)
               /\ dossier'[d].link = e /\ dossier'[d].declared = dossier[d].declared
               /\ dossier'[d].status = SinistreStatus(OutcomeOf(e)', dossier[d].declared)
               /\ dossier'[d].planned = Replanned(t, d)
               /\ OutcomeOf(e)' \in Outcomes /\ PublishedAt(e)' = dateOf[t]
               /\ OutcomeOf(e)' = linesOf[t][e[2]].outcome
  <2>1. PICK e \in Entry : /\ e = dossier[d].link /\ Open(d) /\ dossier[d] \in Sinistre
                           /\ e # None /\ e[1] = norOf[t] /\ e[2] \in LinesOf(t)
    BY <1>5 DEF Touched, TypeInv, DossierInv, Open, Sinistre
  <2>2. PublishedAt(e)' = dateOf[t] /\ OutcomeOf(e)' = linesOf[t][e[2]].outcome
    BY <1>1, <2>1, RevisedLine DEF TypeInv
  <2>3. linesOf[t][e[2]].outcome \in Outcomes
    BY <2>1, TextAssumption DEF LinesOf, Printed
  <2>4. dossier'[d] = Recomputed(t, d)
    BY <1>2, <1>5
  <2>5. /\ Recomputed(t, d).link = e /\ Recomputed(t, d).declared = dossier[d].declared
        /\ Recomputed(t, d).status = SinistreStatus(linesOf[t][e[2]].outcome, dossier[d].declared)
        /\ Recomputed(t, d).planned = Replanned(t, d)
    BY <2>1 DEF Recomputed, Sinistre
  <2>. QED
    BY <2>1, <2>2, <2>3, <2>4, <2>5
<1>6. ASSUME NEW d \in Dossier, Open(d), ~Touched(t, d), d \notin behind'
      PROVE  /\ dossier'[d] = dossier[d] /\ d \notin behind
             /\ \/ dossier[d].link = None
                \/ \E e \in Entry :
                     /\ dossier[d].link = e /\ e # None
                     /\ OutcomeOf(e)' = OutcomeOf(e) /\ PublishedAt(e)' = PublishedAt(e)
  <2>1. dossier'[d] = dossier[d] /\ d \notin behind /\ d \notin Dropped(t)
    BY <1>2, <1>4, <1>6
  <2>2. ASSUME NEW e \in Entry, dossier[d].link = e, e # None
        PROVE  OutcomeOf(e)' = OutcomeOf(e) /\ PublishedAt(e)' = PublishedAt(e)
    <3>1. CASE e[1] # norOf[t]
      BY <1>1, <3>1, RevisedLine DEF TypeInv
    <3>2. CASE e[1] = norOf[t] /\ e[2] \notin LinesOf(t)
      <4>1. ~Moved(t)
        BY <1>6, <2>1, <2>2, <3>2 DEF Dropped
      <4>2. PublishedAt(e) = dateOf[t]
        BY <2>2, <3>2, <4>1 DEF Moved, PublishedAt
      <4>. QED
        BY <1>1, <3>2, <4>2, RevisedLine DEF TypeInv
    <3>3. CASE e[1] = norOf[t] /\ e[2] \in LinesOf(t)
      <4>1. ~Moved(t) /\ ~Changed(t, e[2])
        BY <1>6, <2>2, <3>3 DEF Touched
      <4>2. PublishedAt(e) = dateOf[t]
        BY <2>2, <3>3, <4>1 DEF Moved, PublishedAt
      <4>3. entry[e] = linesOf[t][e[2]]
        BY <3>3, <4>1 DEF Changed, Entry
      <4>4. OutcomeOf(e) = linesOf[t][e[2]].outcome
        BY <2>2, <4>3 DEF OutcomeOf
      <4>. QED
        BY <1>1, <3>3, <4>2, <4>4, RevisedLine DEF TypeInv
    <3>. QED
      BY <3>1, <3>2, <3>3
  <2>3. dossier[d].link \in Entry \cup {None}
    BY <1>6 DEF TypeInv, DossierInv, Open, Sinistre
  <2>. QED
    BY <2>1, <2>2, <2>3
<1>7. \A d \in Dossier : Open(d)' => Open(d)
  BY <1>2, <1>5 DEF Open
<1>8. StatusFollowsLink'
  <2> SUFFICES ASSUME NEW d \in Dossier, Open(d)', d \notin behind'
               PROVE  dossier'[d].status =
                        SinistreStatus(OutcomeOf(dossier[d].link)', dossier'[d].declared)
    BY DEF StatusFollowsLink
  <2>1. CASE Touched(t, d)
    BY <1>5, <2>1 DEF OutcomeOf
  <2>2. CASE ~Touched(t, d)
    BY <1>6, <1>7, <2>2 DEF PlanInv, StatusFollowsLink, OutcomeOf
  <2>. QED
    BY <2>1, <2>2
<1>9. DatedByLink'
  <2> SUFFICES ASSUME NEW d \in Dossier, Open(d)', d \notin behind', dossier'[d].planned # None
               PROVE  /\ OutcomeOf(dossier[d].link)' = "RECONNU"
                      /\ PublishedAt(dossier[d].link)' \in Ruled =>
                           dossier'[d].planned = PublishedAt(dossier[d].link)'
    BY DEF DatedByLink
  <2>1. CASE Touched(t, d)
    <3>1. PICK e \in Entry :
            /\ dossier[d].link = e /\ dossier'[d].link = e /\ e # None
            /\ dossier'[d].planned = Replanned(t, d)
            /\ OutcomeOf(e)' \in Outcomes /\ PublishedAt(e)' = dateOf[t]
            /\ OutcomeOf(e)' = linesOf[t][e[2]].outcome
      BY <1>5, <2>1
    <3>2. OutcomeOf(e)' = "RECONNU" /\ (dateOf[t] \in Ruled => dossier'[d].planned = dateOf[t])
      BY <3>1 DEF Replanned, Outcomes
    <3>. QED
      BY <3>1, <3>2 DEF OutcomeOf, PublishedAt
  <2>2. CASE ~Touched(t, d)
    BY <1>6, <1>7, <2>2 DEF PlanInv, DatedByLink, OutcomeOf, PublishedAt
  <2>. QED
    BY <2>1, <2>2
<1>10. DatedHasLetter'
  <2> SUFFICES ASSUME NEW d \in Dossier, Open(d)', dossier'[d].planned # None, d \notin quiet'
               PROVE  \E kind \in Kinds : letter'[<<d, dossier'[d].link[1], kind>>] # "none"
    BY DEF DatedHasLetter
  <2>1. \A row \in Dossier \X Nor \X Kinds : letter[row] # "none" => letter'[row] # "none"
    BY <1>3 DEF TypeInv, OutboxInv
  <2>2. CASE d \in NewlyDated(t)
    <3>1. dossier'[d].link[1] = norOf[t] /\ norOf[t] \in Nor
      BY <1>5, <2>2, TextAssumption DEF NewlyDated
    <3>2. letter'[<<d, norOf[t], "RECTIFICATIF_RECONNU">>] # "none"
      BY <1>3, <2>2, <3>1 DEF TypeInv, OutboxInv, Kinds
    <3>. QED
      BY <3>1, <3>2 DEF Kinds
  <2>3. CASE d \notin NewlyDated(t)
    <3>1. /\ Open(d) /\ dossier[d].planned # None /\ d \notin quiet
          /\ dossier'[d].link = dossier[d].link
      <4>1. CASE Touched(t, d)
        BY <1>4, <1>5, <2>3, <4>1 DEF NewlyDated
      <4>2. CASE ~Touched(t, d)
        BY <1>2, <1>4, <1>7, <2>3, <4>2
      <4>. QED
        BY <4>1, <4>2
    <3>2. PICK kind \in Kinds : letter[<<d, dossier[d].link[1], kind>>] # "none"
      BY <3>1 DEF PlanInv, DatedHasLetter
    <3>3. dossier[d].link[1] \in Nor
      BY <3>1 DEF PlanInv, DatedIsLinked, TypeInv, DossierInv, Open, Sinistre, Entry
    <3>. QED
      BY <2>1, <3>1, <3>2, <3>3
  <2>. QED
    BY <2>2, <2>3
<1>11. DatedIsLinked'
  <2> SUFFICES ASSUME NEW d \in Dossier, Open(d)', dossier'[d].planned # None
               PROVE  dossier'[d].link # None
    BY DEF DatedIsLinked
  <2>1. CASE Touched(t, d)
    BY <1>5, <2>1
  <2>2. CASE ~Touched(t, d)
    BY <1>2, <1>7, <2>2 DEF PlanInv, DatedIsLinked
  <2>. QED
    BY <2>1, <2>2
<1>12. LinksExact'
  <2>1. links' = {}
    BY <1>1 DEF TypeInv, LinksInv
  <2>2. \A d \in Dossier : draft[d] # None => dossier'[d] = None
    BY <1>2 DEF PlanInv, LinksExact, Touched, Open
  <2>. QED
    BY <1>1, <2>1, <2>2 DEF PlanInv, LinksExact
<1>. QED
  BY <1>8, <1>9, <1>10, <1>11, <1>12 DEF PlanInv

LEMMA NextKeepsPlanInv == TypeInv /\ TypeInv' /\ PlanInv /\ [Next]_vars => PlanInv'
<1> SUFFICES ASSUME TypeInv, TypeInv', PlanInv, [Next]_vars PROVE PlanInv'
  OBVIOUS
<1>1. CASE UNCHANGED vars
  BY <1>1, PlanUntouched DEF vars, dbVars, runVars, owners, history
<1>2. CASE Request
  BY <1>2, RequestKeepsPlanInv
<1>3. CASE RunStep
  BY <1>3, ControlKeepsPlanInv, DecideKeepsPlanInv, ApplyKeepsPlanInv,
     PublicationKeepsPlanInv, RevisionKeepsPlanInv DEF RunStep
<1>4. CASE FaultStep
  BY <1>4, ControlKeepsPlanInv DEF FaultStep
<1>5. CASE StartRun(FALSE) \/ Publish
  BY <1>5, ControlKeepsPlanInv
<1>. QED
  BY <1>1, <1>2, <1>3, <1>4, <1>5 DEF Next

-----------------------------------------------------------------------------
(* What was ingested.                                                      *)

(* The text was dealt with and, if it had to be, it has been stored.       *)
Kept(t) ==
  (t \notin Unreadable /\ dateOf[t] >= Floor) => t \in ingested

(* While no text of the delta in hand failed, those already taken from     *)
(* `todo' are kept: this is what recording the delta relies on.            *)
TakenInv ==
  pc = "texts" /\ complete => \A t \in textsIn[delta] \ todo : Kept(t)

IngestInv == TakenInv /\ MarkedIsStored

LEMMA InitIngestInv == Init => IngestInv
  BY DEF Init, IngestInv, TakenInv, MarkedIsStored

(* A step that leaves the texts in hand alone, or drops them.              *)
LEMMA IngestUntouched ==
  ASSUME IngestInv, UNCHANGED <<ingested, marked>>,
         pc' # "texts" \/ UNCHANGED <<pc, delta, todo, complete>>
  PROVE  IngestInv'
  BY DEF IngestInv, TakenInv, Kept, MarkedIsStored

(* A text taken from `todo' without failing is unreadable, below the floor *)
(* of a backfill, or was stored.                                           *)
LEMMA TakeKeepsIngestInv ==
  ASSUME TypeInv, IngestInv, NEW t \in Text, Take(t),
         ingested \subseteq ingested',
         complete' => complete /\ Kept(t)'
  PROVE  IngestInv'
<1>1. /\ delta' = delta /\ todo' = todo \ {t} /\ pc = "texts"
      /\ marked' = marked /\ delta \in 1 .. listed /\ listed \in 0 .. LastDelta
  BY DEF Take, TypeInv, RunInv
<1>2. delta \in Delta
  BY <1>1, ListedIsDelta
<1>3. \A u \in Text : Kept(u) => Kept(u)'
  BY DEF Kept
<1>4. TakenInv'
  <2> SUFFICES ASSUME complete', NEW u \in textsIn[delta] \ (todo \ {t})
               PROVE  Kept(u)'
    BY <1>1 DEF TakenInv
  <2>1. u \in Text
    BY <1>2, TextAssumption
  <2>2. CASE u = t
    BY <2>2
  <2>3. CASE u # t
    BY <1>1, <1>3, <2>1, <2>3 DEF IngestInv, TakenInv
  <2>. QED
    BY <2>2, <2>3
<1>5. MarkedIsStored'
  <2> SUFFICES ASSUME NEW m \in marked, NEW u \in textsIn[m] \ Unreadable, dateOf[u] >= Floor
               PROVE  u \in ingested'
    BY <1>1 DEF MarkedIsStored
  <2>. QED
    BY DEF IngestInv, MarkedIsStored
<1>. QED
  BY <1>4, <1>5 DEF IngestInv

LEMMA NextKeepsIngestInv == TypeInv /\ IngestInv /\ [Next]_vars => IngestInv'
<1> SUFFICES ASSUME TypeInv, IngestInv, [Next]_vars PROVE IngestInv'
  OBVIOUS
<1>1. ASSUME UNCHANGED vars \/ Request \/ Publish PROVE IngestInv'
  <2>1. UNCHANGED <<ingested, marked, pc, delta, todo, complete>>
    BY <1>1 DEF vars, dbVars, runVars, owners, history, Publish, Request, PlanDossier, Insert, Remove, Declare,
       Confirm, Unsubscribe
  <2>. QED
    BY <2>1, IngestUntouched
<1>2. ASSUME \/ \E notifies \in BOOLEAN : StartRun(notifies)
             \/ DrainSinistres \/ DrainVeilles \/ ListDeltas \/ BatchDone
             \/ DownloadFails \/ DecideLinks \/ LinksDone \/ LinksThrow \/ RunDies
             \/ \E k \in links : ApplyLink(k)
      PROVE  IngestInv'
  <2>1. UNCHANGED <<ingested, marked>>
    BY <1>2 DEF StartRun, DrainSinistres, DrainVeilles, ListDeltas, BatchDone, DownloadFails,
       DecideLinks, LinksDone, LinksThrow, RunDies, ApplyLink, dbVars, owners, history
  <2>2. pc' # "texts"
    BY <1>2 DEF StartRun, DrainSinistres, DrainVeilles, ListDeltas, BatchDone, DownloadFails,
       DecideLinks, LinksDone, LinksThrow, RunDies, ApplyLink, Forget
  <2>. QED
    BY <2>1, <2>2, IngestUntouched
<1>3. ASSUME Download PROVE IngestInv'
  BY <1>3 DEF Download, dbVars, owners, history, IngestInv, TakenInv, MarkedIsStored
<1>4. ASSUME MarkDelta PROVE IngestInv'
  <2>1. complete => \A t \in textsIn[delta] : Kept(t)
    BY <1>4 DEF MarkDelta, IngestInv, TakenInv
  <2>2. MarkedIsStored'
    BY <1>4, <2>1 DEF MarkDelta, owners, history, IngestInv, MarkedIsStored, Kept
  <2>3. TakenInv'
    BY <1>4 DEF MarkDelta, TakenInv
  <2>. QED
    BY <2>2, <2>3 DEF IngestInv
<1>5. ASSUME NEW t \in Text, NothingToIngest(t) PROVE IngestInv'
  <2>1. Take(t) /\ UNCHANGED <<ingested, complete>>
    BY <1>5 DEF NothingToIngest, history
  <2>2. stored[norOf[t]] = t => t \in ingested
    BY TextAssumption, NoneAssumption DEF TypeInv, StoreInv
  <2>3. BelowFloor(t) => ~(dateOf[t] >= Floor)
    BY TextAssumption, BoundAssumption DEF BelowFloor
  <2>4. Kept(t)'
    BY <1>5, <2>1, <2>2, <2>3 DEF NothingToIngest, Kept
  <2>. QED
    BY <2>1, <2>4, TakeKeepsIngestInv
<1>6. ASSUME NEW t \in Text, FirstPublication(t) \/ Rectificatif(t) PROVE IngestInv'
  <2>1. Take(t) /\ UNCHANGED complete /\ ingested' = ingested \cup {t}
    BY <1>6 DEF FirstPublication, Rectificatif
  <2>2. Kept(t)' /\ ingested \subseteq ingested'
    BY <2>1 DEF Kept
  <2>. QED
    BY <2>1, <2>2, TakeKeepsIngestInv
<1>7. ASSUME NEW t \in Text, IngestFails(t) PROVE IngestInv'
  BY <1>7, TakeKeepsIngestInv DEF IngestFails, history
<1>. QED
  BY <1>1, <1>2, <1>3, <1>4, <1>5, <1>6, <1>7 DEF Next, RunStep, FaultStep

-----------------------------------------------------------------------------
(* The watchers.                                                           *)

(* Whom the communes of a text reach.                                      *)
LEMMA NoticesQueued ==
  ASSUME TypeInv, NEW n \in Nor, NEW communes, QueueNotices(n, communes),
         NEW v \in Veille, NEW m \in Nor
  PROVE  LET due == notify /\ veille[v] = "confirmed" /\ m = n /\ watched[v] \cap communes # {}
         IN /\ due => notice'[<<v, m>>] # "none"
            /\ notice[<<v, m>>] = "none" /\ notice'[<<v, m>>] # "none" => due
  BY DEF QueueNotices, TypeInv, OutboxInv

(* The rows of a text that is stored, line by line.                        *)
LEMMA CommuneStored ==
  ASSUME NEW t \in Text, NEW n \in Nor, NEW l \in Line, Upsert(t)
  PROVE  CommuneAt(n, l)' = IF n = norOf[t] /\ l \in LinesOf(t)
                            THEN CommuneOf(linesOf[t][l]) ELSE CommuneAt(n, l)
<1>1. <<n, l>> \in Entry
  BY DEF Entry
<1>2. entry'[<<n, l>>] =
        IF n = norOf[t] /\ l \in LinesOf(t) THEN linesOf[t][l] ELSE entry[<<n, l>>]
  BY <1>1 DEF Upsert
<1>. QED
  BY <1>2 DEF CommuneAt, CommuneOf

(* The lines a text is announced for are those that come to be about a     *)
(* commune.                                                                *)
LEMMA AnnouncedLines ==
  ASSUME TypeInv, NEW t \in Text, FirstPublication(t) \/ Rectificatif(t), NEW l \in Line,
         NEW lines, lines = IF FirstPublication(t) THEN LinesOf(t) ELSE AddedLines(t),
         NEW n \in Nor
  PROVE  CommuneAt(n, l)' # CommuneAt(n, l) /\ CommuneAt(n, l)' # None
           <=> n = norOf[t] /\ l \in lines /\ CommuneOf(linesOf[t][l]) # None
<1>1. CommuneAt(n, l)' = IF n = norOf[t] /\ l \in LinesOf(t)
                         THEN CommuneOf(linesOf[t][l]) ELSE CommuneAt(n, l)
  BY CommuneStored DEF FirstPublication, Rectificatif
<1>2. CASE FirstPublication(t)
  <2>1. stored[norOf[t]] = None /\ <<norOf[t], l>> \in Entry
    BY <1>2, TextAssumption DEF FirstPublication, Entry
  <2>2. entry[<<norOf[t], l>>] = None
    BY <2>1 DEF TypeInv, StoreInv
  <2>3. CommuneAt(norOf[t], l) = None
    BY <2>2 DEF CommuneAt, CommuneOf
  <2>. QED
    BY <1>1, <1>2, <2>3
<1>3. CASE ~FirstPublication(t)
  <2>1. l \in AddedLines(t) <=>
          /\ l \in LinesOf(t)
          /\ \/ entry[<<norOf[t], l>>] = None
             \/ CommuneOf(linesOf[t][l]) \notin {CommuneAt(norOf[t], l), None}
    BY DEF AddedLines, Created, CommuneAt
  <2>2. entry[<<norOf[t], l>>] = None => CommuneAt(norOf[t], l) = None
    BY DEF CommuneAt, CommuneOf
  <2>. QED
    BY <1>1, <1>3, <2>1, <2>2
<1>. QED
  BY <1>2, <1>3

(* A watcher is due a letter in such a step as queueNotifications says.    *)
LEMMA ComesToCoverIs ==
  ASSUME TypeInv, NEW t \in Text, FirstPublication(t) \/ Rectificatif(t),
         NEW lines, lines = IF FirstPublication(t) THEN LinesOf(t) ELSE AddedLines(t),
         NEW v \in Veille, NEW n \in Nor
  PROVE  ComesToCover(v, n) <=> n = norOf[t] /\ watched[v] \cap Communes(t, lines) # {}
<1>1. lines \subseteq Line
  BY DEF LinesOf, AddedLines
<1>2. None \notin watched[v]
  BY TextAssumption, NoneAssumption
<1>3. \A l \in Line : CommuneAt(n, l)' # CommuneAt(n, l) /\ CommuneAt(n, l)' # None
                        <=> n = norOf[t] /\ l \in lines /\ CommuneOf(linesOf[t][l]) # None
  BY AnnouncedLines
<1>4. \A l \in lines : n = norOf[t] => CommuneAt(n, l)' = CommuneOf(linesOf[t][l])
  BY <1>1, CommuneStored DEF FirstPublication, Rectificatif, LinesOf, AddedLines
<1>5. ASSUME ComesToCover(v, n) PROVE n = norOf[t] /\ watched[v] \cap Communes(t, lines) # {}
  <2>1. PICK l \in Line : CommuneAt(n, l)' # CommuneAt(n, l) /\ CommuneAt(n, l)' \in watched[v]
    BY <1>5 DEF ComesToCover
  <2>2. n = norOf[t] /\ l \in lines /\ CommuneOf(linesOf[t][l]) # None
    BY <1>2, <1>3, <2>1
  <2>3. CommuneOf(linesOf[t][l]) \in watched[v] \cap Communes(t, lines)
    BY <1>4, <2>1, <2>2 DEF Communes
  <2>. QED
    BY <2>2, <2>3
<1>6. ASSUME n = norOf[t], watched[v] \cap Communes(t, lines) # {} PROVE ComesToCover(v, n)
  <2>1. PICK l \in lines : CommuneOf(linesOf[t][l]) \in watched[v]
    BY <1>6 DEF Communes
  <2>2. CommuneOf(linesOf[t][l]) # None
    BY <1>2, <2>1
  <2>3. l \in Line /\ CommuneAt(n, l)' # CommuneAt(n, l) /\ CommuneAt(n, l)' \in watched[v]
    BY <1>1, <1>3, <1>4, <1>6, <2>1, <2>2
  <2>. QED
    BY <2>3 DEF ComesToCover
<1>. QED
  BY <1>5, <1>6

(* Every other step leaves the lines alone and queues nothing.             *)
LEMMA QuietStep ==
  ASSUME TypeInv, [Next]_vars, \A t \in Text : ~(FirstPublication(t) \/ Rectificatif(t)),
         NEW v \in Veille, NEW n \in Nor
  PROVE  /\ entry' = entry
         /\ notice[<<v, n>>] = "none" => notice'[<<v, n>>] = "none"
<1>1. <<v, n>> \in DOMAIN notice
  BY DEF TypeInv, OutboxInv
<1>2. CASE UNCHANGED vars \/ Publish
  BY <1>2 DEF vars, dbVars, Publish
<1>3. CASE Request
  BY <1>1, <1>3 DEF Request, dbVars, PlanDossier, Insert, Remove, Declare, Confirm, Unsubscribe
<1>4. CASE RunStep
  <2>1. CASE DrainVeilles
    BY <1>1, <2>1 DEF DrainVeilles, Drained
  <2>2. CASE ~DrainVeilles
    BY <1>4, <2>2 DEF RunStep, dbVars, StartRun, DrainSinistres, ListDeltas, Download, MarkDelta,
       BatchDone, DownloadFails, NothingToIngest, DecideLinks, LinksDone, ApplyLink
  <2>. QED
    BY <2>1, <2>2
<1>5. CASE FaultStep \/ StartRun(FALSE)
  BY <1>5 DEF FaultStep, dbVars, StartRun, DownloadFails, LinksThrow, RunDies, IngestFails
<1>. QED
  BY <1>2, <1>3, <1>4, <1>5 DEF Next

(* A letter is queued when, and only when, a commune comes to be covered.  *)
LEMMA WatcherToldInStep ==
  ASSUME TypeInv, [Next]_vars, NEW v \in Veille, NEW n \in Nor
  PROVE  LET due == notify /\ veille[v] = "confirmed" /\ ComesToCover(v, n)
         IN /\ due => notice'[<<v, n>>] # "none"
            /\ notice[<<v, n>>] = "none" /\ notice'[<<v, n>>] # "none" => due
<1>1. CASE \A t \in Text : ~(FirstPublication(t) \/ Rectificatif(t))
  <2>1. entry' = entry /\ (notice[<<v, n>>] = "none" => notice'[<<v, n>>] = "none")
    BY <1>1, QuietStep
  <2>2. ~ComesToCover(v, n)
    BY <2>1 DEF ComesToCover, CommuneAt
  <2>. QED
    BY <2>1, <2>2
<1>2. ASSUME NEW t \in Text, FirstPublication(t) \/ Rectificatif(t)
      PROVE  LET due == notify /\ veille[v] = "confirmed" /\ ComesToCover(v, n)
             IN /\ due => notice'[<<v, n>>] # "none"
                /\ notice[<<v, n>>] = "none" /\ notice'[<<v, n>>] # "none" => due
  <2> DEFINE lines == IF FirstPublication(t) THEN LinesOf(t) ELSE AddedLines(t)
  <2>1. QueueNotices(norOf[t], Communes(t, lines)) /\ norOf[t] \in Nor
    BY <1>2, TextAssumption DEF FirstPublication, Rectificatif
  <2>2. ComesToCover(v, n) <=> n = norOf[t] /\ watched[v] \cap Communes(t, lines) # {}
    BY <1>2, ComesToCoverIs
  <2> HIDE DEF lines
  <2>. QED
    BY <2>1, <2>2, NoticesQueued
<1>. QED
  BY <1>1, <1>2

-----------------------------------------------------------------------------
(* The theorems.                                                           *)

LEMMA SpecKeepsInv == Spec => [](TypeInv /\ PlanInv /\ IngestInv)
<1>1. Init => TypeInv /\ PlanInv /\ IngestInv
  BY InitTypeInv, InitPlanInv, InitIngestInv
<1>2. TypeInv /\ PlanInv /\ IngestInv /\ [Next]_vars => (TypeInv /\ PlanInv /\ IngestInv)'
  BY NextKeepsTypeInv, NextKeepsPlanInv, NextKeepsIngestInv
<1>. QED
  BY <1>1, <1>2, PTL DEF Spec

(* The status of a dossier is what sinistreStatus answers for the line it  *)
(* is linked to as now stored, in whatever order requests, link passes and *)
(* rectificatifs come, unless a revision passed the dossier over.          *)
THEOREM StatusIsCurrent == Spec => []StatusFollowsLink
<1>1. PlanInv => StatusFollowsLink
  BY DEF PlanInv
<1>. QED
  BY SpecKeepsInv, <1>1, PTL

(* No deadline outlives the publication it ran from, whichever writer came *)
(* last.                                                                   *)
THEOREM DatesAreCurrent == Spec => []DatedByLink
<1>1. PlanInv => DatedByLink
  BY DEF PlanInv
<1>. QED
  BY SpecKeepsInv, <1>1, PTL

(* A deadline never appears in silence.                                    *)
THEOREM DatesAreTold == Spec => []DatedHasLetter
<1>1. PlanInv => DatedHasLetter
  BY DEF PlanInv
<1>. QED
  BY SpecKeepsInv, <1>1, PTL

(* A recorded delta is never opened again, and every readable text it      *)
(* delivered above the floor of the backfill has been stored.              *)
THEOREM RecordedIsStored == Spec => []MarkedIsStored
<1>1. IngestInv => MarkedIsStored
  BY DEF IngestInv
<1>. QED
  BY SpecKeepsInv, <1>1, PTL

(* A confirmed watcher is told of every arrete that comes to cover a       *)
(* commune of theirs, except by a backfill, and of no correction that adds *)
(* none.                                                                   *)
THEOREM WatchersAreTold == Spec => WatcherTold
<1>1. TypeInv /\ [Next]_vars =>
        [\A v \in Veille, n \in Nor :
           LET due == notify /\ veille[v] = "confirmed" /\ ComesToCover(v, n)
           IN /\ due => notice'[<<v, n>>] # "none"
              /\ notice[<<v, n>>] = "none" /\ notice'[<<v, n>>] # "none" => due]_vars
  BY WatcherToldInStep
<1>. QED
  BY SpecKeepsInv, <1>1, PTL DEF Spec, WatcherTold
=============================================================================
