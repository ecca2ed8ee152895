------------------------------- MODULE Veille -------------------------------
(* The subscription one address may hold (VeilleService): the public form, *)
(* the letters it mails, the pages behind their links, desinscription, the *)
(* hourly cleanup, and the monitor's letters to a confirmed watcher.       *)
(*                                                                         *)
(* A request is in flight between two statements or transactions; a number *)
(* stands for the links of one letter (confirm or change token, and the    *)
(* unsubscribe token mailed with it).  A deadline is a flag its passing    *)
(* sets, and a counter row leaves the model with its 24 hours.             *)
(***************************************************************************)
EXTENDS Naturals, FiniteSets, Referential

CONSTANTS
  Handler,            \* slots for requests in flight, numbered
  Code, mergesInto,   \* commune codes, and the one a merger takes each into
  Chosen,             \* the sets of communes a form may name
  Arrete, names,      \* arretes, and the codes of their matched entries
  Limit,              \* VEILLE_FORM_EMAIL_DAILY_LIMIT
  MaxToken,           \* bound: letters ever given links
  MaxId,              \* bound: Veille rows ever created
  MaxEvents,          \* bound: forms, openings, ends of a deadline, mergers
  MaxRuns,            \* bound: runs of the monitor
  None

ASSUME ChosenAssumption == Chosen \subseteq SUBSET Code /\ {} \notin Chosen
ASSUME ArreteAssumption ==
  /\ names \in [Arrete -> SUBSET Code]
  /\ mergesInto \in [Code -> Code \cup {None}]
ASSUME HandlerAssumption == Handler \subseteq Nat \ {0} /\ IsFiniteSet(Handler) /\ Limit \in Nat
ASSUME BoundAssumption   == {MaxToken, MaxId} \subseteq Nat \ {0} /\ {MaxEvents, MaxRuns} \subseteq Nat
ASSUME NoneAssumption    ==
  None \notin {"create", "resend", "confirm", "change", "pending", "active", "applied", "invalid"}

Token == 1 .. MaxToken
Id    == 1 .. MaxId

VARIABLES
  veille,      \* the Veille row with its VeilleCommune rows
  unsubscribe, \* VeilleUnsubscribeToken: the row each token deletes
  change,      \* the VeilleChange row
  notice,      \* VeilleNotification rows by arrete
  charged,     \* VeilleFormEmail rows of the last 24 hours
  merged,      \* communes that were merged into another
  published,   \* arretes ingested
  handler,     \* the requests in flight
  page,        \* the page a link of a letter opened
  monitor,     \* the drain of the monitor, with SendPass.recipients
  letters,     \* letters that reached the mailbox
  lost,        \* links of letters whose delivery failed, or was cut short
  fresh, ids,  \* the next links; the Veille rows created so far
  events, runs

rows  == <<veille, unsubscribe, change, notice>>
trail == <<letters, lost>>
vars  == <<rows, charged, merged, published, handler, page, monitor, trail, fresh, ids, events, runs>>

NoVeille == [id |-> 0, confirmed |-> FALSE, lapsed |-> FALSE, token |-> 0, communes |-> {}]
NoChange == [id |-> 0, lapsed |-> FALSE, token |-> 0, communes |-> {}]
NoPage   == [kind |-> None, token |-> 0, read |-> "loading", shown |-> {}, asks |-> 0,
             answer |-> None, rewritten |-> FALSE]
Idle     == [pc |-> "idle", kind |-> None, id |-> 0, token |-> 0, communes |-> {}, retry |-> FALSE]
Asleep   == [pc |-> "idle", arrete |-> None, id |-> 0, codes |-> {}, memo |-> [i \in Id |-> 0]]

Pcs      == {"idle", "claim", "look", "create", "upsert", "count", "compose", "charge", "send",
             "apply", "capture"}
Statuses == {"pending", "active", "applied", "invalid"}

TypeOK ==
  /\ veille \in [id : Id \cup {0}, confirmed : BOOLEAN, lapsed : BOOLEAN,
                 token : Token \cup {0}, communes : SUBSET Code]
  /\ unsubscribe \in [Token -> {0, veille.id}]
  /\ change \in [id : {0, veille.id}, lapsed : BOOLEAN, token : Token \cup {0},
                 communes : SUBSET Code]
  /\ change.id # 0 => veille.confirmed
  /\ veille.id # 0 <=> veille.communes # {}
  /\ notice \in [Arrete -> {"none", "pending", "sent"}]
  /\ charged \in 0 .. Limit + Cardinality(Handler)
  /\ merged \in SUBSET Code /\ published \in SUBSET Arrete
  /\ \A h \in Handler : handler[h].pc \in Pcs /\ handler[h].token \in Token \cup {0}
  /\ page.read \in Statuses \cup {"loading"} /\ page.asks \in Handler \cup {0}
  /\ monitor.pc \in {"idle", "on", "mint", "send", "mark"}
  /\ letters \in SUBSET [kind : {"confirm", "change", "arrete"}, id : Id, token : Token]
  /\ lost \in SUBSET Token
  /\ fresh \in 1 .. MaxToken + 1 /\ ids \in 0 .. MaxId /\ events \in 0 .. MaxEvents

(* The letters and the links they carry.                                   *)
ConfirmLetter(id, t) == [kind |-> "confirm", id |-> id, token |-> t]
ChangeLetter(id, t)  == [kind |-> "change", id |-> id, token |-> t]
ArreteLetter(id, t)  == [kind |-> "arrete", id |-> id, token |-> t]

(* An address nobody knows, or one that was confirmed earlier.             *)
Init ==
  /\ \/ /\ veille = NoVeille /\ unsubscribe = [t \in Token |-> 0]
        /\ letters = {} /\ fresh = 1 /\ ids = 0
     \/ /\ \E communes \in Chosen :
             veille = [id |-> 1, confirmed |-> TRUE, lapsed |-> FALSE, token |-> 1,
                       communes |-> communes]
        /\ unsubscribe = [t \in Token |-> IF t = 1 THEN 1 ELSE 0]
        /\ letters = {ConfirmLetter(1, 1)} /\ fresh = 2 /\ ids = 1
  /\ change = NoChange
  /\ notice = [n \in Arrete |-> "none"]
  /\ charged = 0 /\ merged = {} /\ published = {}
  /\ handler = [h \in Handler |-> Idle]
  /\ page = NoPage /\ monitor = Asleep
  /\ lost = {} /\ events = 0 /\ runs = 0

Happens    == events < MaxEvents /\ events' = events + 1
FreeSlot(h) == handler[h].pc = "idle" /\ \A g \in Handler : g < h => handler[g].pc # "idle"
Goto(h, pc) == handler' = [handler EXCEPT ![h].pc = pc]
Answer(h)   == handler' = [handler EXCEPT ![h] = Idle]
Successors  == [c \in merged |-> mergesInto[c]]

-----------------------------------------------------------------------------
(* subscribe and upsertSubscription.                                       *)

Subscribe(h, communes) ==
  /\ Happens /\ FreeSlot(h)
  /\ communes \cap merged = {}
  /\ handler' = [handler EXCEPT ![h] = [Idle EXCEPT !.pc = "claim", !.communes = communes]]
  /\ UNCHANGED <<rows, charged, merged, published, page, monitor, trail, fresh, ids, runs>>

(* Mutant: the claim does not ask that the row is unconfirmed.             *)
ClaimAny(h) ==
  LET r == handler[h] IN
  /\ r.pc = "claim"
  /\ IF veille.id # 0
     THEN /\ veille' = [veille EXCEPT !.lapsed = FALSE, !.communes = r.communes]
          /\ handler' = [handler EXCEPT ![h].pc = "count", ![h].kind = "resend", ![h].id = veille.id]
     ELSE Goto(h, "look") /\ UNCHANGED veille
  /\ UNCHANGED <<unsubscribe, change, notice, charged, merged, published, page, monitor, trail, fresh, ids,
                 events, runs>>

(* The conditional updateMany, and on a match the new set of communes.     *)
ClaimUnconfirmed(h) ==
  LET r == handler[h] IN
  /\ r.pc = "claim"
  /\ IF veille.id # 0 /\ ~ veille.confirmed
     THEN /\ veille' = [veille EXCEPT !.lapsed = FALSE, !.communes = r.communes]
          /\ handler' = [handler EXCEPT ![h].pc = "count", ![h].kind = "resend", ![h].id = veille.id]
     ELSE Goto(h, "look") /\ UNCHANGED veille
  /\ UNCHANGED <<unsubscribe, change, notice, charged, merged, published, page, monitor, trail, fresh, ids,
                 events, runs>>

(* The read that names what the claim missed.                              *)
LookUp(h) ==
  /\ handler[h].pc = "look"
  /\ IF veille.confirmed
     THEN handler' = [handler EXCEPT ![h].pc = "upsert", ![h].id = veille.id]
     ELSE Goto(h, "create")
  /\ UNCHANGED <<rows, charged, merged, published, page, monitor, trail, fresh, ids, events, runs>>

(* A row that exists by now: the race is retried once, then dropped.       *)
Create(h) ==
  LET r == handler[h] IN
  /\ r.pc = "create"
  /\ IF veille.id # 0
     THEN /\ IF r.retry THEN Answer(h)
             ELSE handler' = [handler EXCEPT ![h].pc = "claim", ![h].retry = TRUE]
          /\ UNCHANGED <<veille, unsubscribe, fresh, ids>>
     ELSE /\ fresh <= MaxToken /\ ids < MaxId
          /\ veille' = [NoVeille EXCEPT !.id = ids + 1, !.token = fresh, !.communes = r.communes]
          /\ unsubscribe' = [unsubscribe EXCEPT ![fresh] = ids + 1]
          /\ handler' = [handler EXCEPT ![h].pc = "count", ![h].kind = "create",
                                        ![h].id = ids + 1, ![h].token = fresh]
          /\ fresh' = fresh + 1 /\ ids' = ids + 1
  /\ UNCHANGED <<change, notice, charged, merged, published, page, monitor, trail, events, runs>>

(* The request of a confirmed address is rewritten under the hash it has;  *)
(* a new one starts with a hash nobody holds the token of.                 *)
UpsertChange(h) ==
  LET r == handler[h] IN
  /\ r.pc = "upsert"
  /\ IF veille.id = r.id
     THEN /\ change' = IF change.id = r.id
                       THEN [change EXCEPT !.communes = r.communes, !.lapsed = FALSE]
                       ELSE [NoChange EXCEPT !.id = r.id, !.communes = r.communes]
          /\ handler' = [handler EXCEPT ![h].pc = "count", ![h].kind = "change"]
          /\ page' = [page EXCEPT !.rewritten = TRUE]
     ELSE Answer(h) /\ UNCHANGED <<change, page>>          \* isForeignKeyViolation
  /\ UNCHANGED <<veille, unsubscribe, notice, charged, merged, published, monitor, trail, fresh, ids,
                 events, runs>>

-----------------------------------------------------------------------------
(* sendFormMail: the count, the composition, the charge, the delivery.     *)

(* Mutant: a suppressed resend has rotated the link already.               *)
CountAfterRotation(h) ==
  LET r == handler[h] IN
  /\ r.pc = "count"
  /\ IF charged < Limit THEN Goto(h, "compose") /\ UNCHANGED <<veille, fresh>>
     ELSE /\ Answer(h)
          /\ fresh <= MaxToken /\ fresh' = fresh + 1
          /\ veille' = IF r.kind = "resend" /\ veille.id = r.id /\ ~ veille.confirmed
                       THEN [veille EXCEPT !.token = fresh] ELSE veille
  /\ UNCHANGED <<unsubscribe, change, notice, charged, merged, published, page, monitor, trail, ids,
                 events, runs>>

(* A new row whose first letter is suppressed keeps a link nobody was sent. *)
CountMails(h) ==
  LET r == handler[h] IN
  /\ r.pc = "count"
  /\ IF charged >= Limit THEN Answer(h) ELSE Goto(h, "compose")
  /\ lost' = IF charged >= Limit /\ r.kind = "create" THEN lost \cup {r.token} ELSE lost
  /\ UNCHANGED <<rows, charged, merged, published, page, monitor, letters, fresh, ids, events, runs>>

KeepsToken(h) ==
  /\ handler[h].pc = "compose" /\ handler[h].kind = "create"
  /\ Goto(h, "charge")
  /\ UNCHANGED <<rows, charged, merged, published, page, monitor, trail, fresh, ids, events, runs>>

(* Mutant: the unsubscribe token of the new letter replaces the others.    *)
MintReplaces(t, id) == unsubscribe' = [u \in Token |-> IF u = t THEN id ELSE 0]

Minted(t, id) == unsubscribe' = [unsubscribe EXCEPT ![t] = id]

(* resendConfirmationMail: nothing for a row confirmed or gone since.      *)
RotateConfirm(h) ==
  LET r == handler[h] IN
  /\ r.pc = "compose" /\ r.kind = "resend"
  /\ IF veille.id = r.id /\ ~ veille.confirmed
     THEN /\ fresh <= MaxToken /\ fresh' = fresh + 1
          /\ veille' = [veille EXCEPT !.token = fresh]
          /\ Minted(fresh, r.id)
          /\ handler' = [handler EXCEPT ![h].pc = "charge", ![h].token = fresh]
     ELSE Answer(h) /\ UNCHANGED <<veille, unsubscribe, fresh>>
  /\ UNCHANGED <<change, notice, charged, merged, published, page, monitor, trail, ids, events, runs>>

(* rotateAndSendChangeMail: one transaction, undone when the request or    *)
(* the subscription is gone.                                               *)
RotateChange(h) ==
  LET r == handler[h] IN
  /\ r.pc = "compose" /\ r.kind = "change"
  /\ IF change.id = r.id
     THEN /\ fresh <= MaxToken /\ fresh' = fresh + 1
          /\ change' = [change EXCEPT !.token = fresh]
          /\ Minted(fresh, r.id)
          /\ handler' = [handler EXCEPT ![h].pc = "charge", ![h].token = fresh]
     ELSE Answer(h) /\ UNCHANGED <<change, unsubscribe, fresh>>
  /\ UNCHANGED <<veille, notice, charged, merged, published, page, monitor, trail, ids, events, runs>>

Charge(h) ==
  /\ handler[h].pc = "charge"
  /\ charged' = charged + 1
  /\ Goto(h, "send")
  /\ UNCHANGED <<rows, merged, published, page, monitor, trail, fresh, ids, events, runs>>

(* Delivered; refused by the transport, which costs the attempt; or not    *)
(* composed at all, which is refunded.                                     *)
SendFormMail(h) ==
  LET r == handler[h] IN
  /\ r.pc = "send"
  /\ \/ letters' = letters \cup {IF r.kind = "change" THEN ChangeLetter(r.id, r.token)
                               ELSE ConfirmLetter(r.id, r.token)}
        /\ UNCHANGED <<charged, lost>>
     \/ lost' = lost \cup {r.token} /\ UNCHANGED <<charged, letters>>
     \/ /\ charged > 0 /\ charged' = charged - 1
        /\ lost' = lost \cup {r.token} /\ UNCHANGED letters
  /\ Answer(h)
  /\ UNCHANGED <<rows, merged, published, page, monitor, fresh, ids, events, runs>>

-----------------------------------------------------------------------------
(* The pages behind the links (veille-confirmation, veille-changement).    *)

ConfirmationStatus(t) ==                              \* classifyConfirmation
  IF veille.token # t THEN "invalid"
  ELSE IF veille.confirmed THEN "active"
  ELSE IF veille.lapsed THEN "invalid" ELSE "pending"

ChangeStatus(t) == IF change.token = t /\ ~ change.lapsed THEN "pending" ELSE "invalid"

(* What the page tells: an answer before what it has read.                 *)
Verdict == IF page.answer \in Statuses THEN page.answer ELSE page.read

Open(l) ==
  /\ Happens
  /\ l.kind \in {"confirm", "change"}
  /\ page' = [NoPage EXCEPT !.kind = l.kind, !.token = l.token]
  /\ UNCHANGED <<rows, charged, merged, published, handler, monitor, trail, fresh, ids, runs>>

(* The status query, run again whenever the window is focused; a read that *)
(* fails leaves what was read before.                                      *)
ReadStatus ==
  /\ page.kind # None
  /\ page' = IF page.kind = "confirm"
             THEN [page EXCEPT !.read = ConfirmationStatus(page.token)]
             ELSE [page EXCEPT !.read = ChangeStatus(page.token),
                     !.rewritten = @ /\ page.asks # 0,
                     !.shown = IF ChangeStatus(page.token) = "pending" THEN change.communes
                               ELSE {}]
  /\ UNCHANGED <<rows, charged, merged, published, handler, monitor, trail, fresh, ids, events, runs>>

(* confirm is one conditional updateMany; its answer may be lost.          *)
Confirm ==
  /\ page.kind = "confirm" /\ Verdict = "pending"
  /\ veille' = [veille EXCEPT !.confirmed = @ \/ ConfirmationStatus(page.token) = "pending"]
  /\ page' \in {page, [page EXCEPT !.answer = IF ConfirmationStatus(page.token) = "invalid"
                                             THEN "invalid" ELSE "active"]}
  /\ UNCHANGED <<unsubscribe, change, notice, charged, merged, published, handler, monitor, trail, fresh, ids,
                 events, runs>>

(* An empty list is never offered for confirmation.                        *)
PressApply(h) ==
  /\ FreeSlot(h)
  /\ page.kind = "change" /\ Verdict = "pending" /\ page.shown # {} /\ page.asks = 0
  /\ handler' = [handler EXCEPT ![h] = [Idle EXCEPT !.pc = "apply", !.token = page.token]]
  /\ page' = [page EXCEPT !.asks = h]
  /\ UNCHANGED <<rows, charged, merged, published, monitor, trail, fresh, ids, events, runs>>

(* The page that asked is answered, if it is still the one open.           *)
Tell(h, status) ==
  page' = IF page.asks = h THEN [page EXCEPT !.asks = 0, !.answer = status] ELSE page

(* applyChange: the set is read before the conditional delete takes the    *)
(* request; under read committed the request may be rewritten between.     *)
ReadChange(h) ==
  LET r == handler[h] IN
  /\ r.pc = "apply"
  /\ IF change.token = r.token
     THEN /\ handler' = [handler EXCEPT ![h].pc = "capture", ![h].id = change.id,
                                        ![h].communes = change.communes]
          /\ UNCHANGED page
     ELSE Answer(h) /\ Tell(h, "invalid")
  /\ UNCHANGED <<rows, charged, merged, published, monitor, trail, fresh, ids, events, runs>>

(* Mutant: the new communes are added to the old ones.                     *)
CaptureMerges(h) ==
  LET r == handler[h] IN
  /\ r.pc = "capture" /\ change.token = r.token /\ ~ change.lapsed
  /\ change' = NoChange
  /\ veille' = [veille EXCEPT !.communes = @ \cup r.communes]
  /\ Tell(h, "applied") /\ Answer(h)
  /\ UNCHANGED <<unsubscribe, notice, charged, merged, published, monitor, trail, fresh, ids, events, runs>>

CaptureChange(h) ==
  LET r == handler[h] IN
  /\ r.pc = "capture"
  /\ IF change.token = r.token /\ ~ change.lapsed
     THEN /\ change' = NoChange
          /\ veille' = [veille EXCEPT !.communes = r.communes]
          /\ Tell(h, "applied")
     ELSE UNCHANGED <<change, veille>> /\ Tell(h, "invalid")
  /\ Answer(h)
  /\ UNCHANGED <<unsubscribe, notice, charged, merged, published, monitor, trail, fresh, ids, events, runs>>

(* The process dies, a statement throws, a deadlock picks its victim: what *)
(* committed stays, what the request held is gone, the page sees an error. *)
Abandon(h) ==
  LET r == handler[h] IN
  /\ r.pc # "idle"
  /\ Answer(h)
  /\ lost' = lost \cup (IF r.pc \in {"apply", "capture"} THEN {} ELSE {r.token} \ {0})
  /\ page' = IF page.asks = h THEN [page EXCEPT !.asks = 0] ELSE page
  /\ UNCHANGED <<rows, charged, merged, published, monitor, letters, fresh, ids, events, runs>>

-----------------------------------------------------------------------------
(* Desinscription, the hourly cleanup and the ends of the deadlines.       *)

(* The row and what hangs off it: onDelete Cascade.                        *)
DeleteVeille ==
  /\ veille' = NoVeille /\ change' = NoChange
  /\ unsubscribe' = [t \in Token |-> 0]
  /\ notice' = [n \in Arrete |-> "none"]

Unsubscribe(l) ==
  /\ unsubscribe[l.token] # 0
  /\ DeleteVeille
  /\ UNCHANGED <<charged, merged, published, handler, page, monitor, trail, fresh, ids, events, runs>>

DeleteExpiredUnconfirmed ==
  /\ veille.id # 0 /\ ~ veille.confirmed /\ veille.lapsed
  /\ DeleteVeille
  /\ UNCHANGED <<charged, merged, published, handler, page, monitor, trail, fresh, ids, events, runs>>

DeleteExpiredChanges ==
  /\ change.id # 0 /\ change.lapsed
  /\ change' = NoChange
  /\ UNCHANGED <<veille, unsubscribe, notice, charged, merged, published, handler, page, monitor, trail, fresh,
                 ids, events, runs>>

ConfirmWindowEnds ==
  /\ Happens
  /\ veille.id # 0 /\ ~ veille.confirmed /\ ~ veille.lapsed
  /\ veille' = [veille EXCEPT !.lapsed = TRUE]
  /\ UNCHANGED <<unsubscribe, change, notice, charged, merged, published, handler, page, monitor, trail, fresh,
                 ids, runs>>

ChangeWindowEnds ==
  /\ Happens
  /\ change.id # 0 /\ ~ change.lapsed
  /\ change' = [change EXCEPT !.lapsed = TRUE]
  /\ UNCHANGED <<veille, unsubscribe, notice, charged, merged, published, handler, page, monitor, trail, fresh,
                 ids, runs>>

DayPasses ==
  /\ Happens
  /\ charged > 0 /\ charged' = 0
  /\ UNCHANGED <<rows, merged, published, handler, page, monitor, trail, fresh, ids, runs>>

Merge(c) ==
  /\ Happens
  /\ c \notin merged /\ mergesInto[c] # None
  /\ merged' = merged \cup {c}
  /\ UNCHANGED <<rows, charged, published, handler, page, monitor, trail, fresh, ids, runs>>

-----------------------------------------------------------------------------
(* The monitor: the rows an arrete queues, and the letters of a run.       *)

Watched(n) ==                                         \* resolveRecipients
  IF veille.confirmed
  THEN {ResolveCurrentCode(c, Successors) : c \in veille.communes} \cap names[n]
  ELSE {}

(* An ingest: queueNotifications reads the confirmed watchers inside its   *)
(* transaction.                                                            *)
Publish(n) ==
  /\ monitor.pc = "on" /\ n \notin published
  /\ published' = published \cup {n}
  /\ notice' = IF Watched(n) = {} THEN notice ELSE [notice EXCEPT ![n] = "pending"]
  /\ UNCHANGED <<veille, unsubscribe, change, charged, merged, handler, page, monitor, trail, fresh,
                 ids, events, runs>>

StartRun ==
  /\ runs < MaxRuns /\ runs' = runs + 1
  /\ monitor.pc = "idle"
  /\ monitor' = [Asleep EXCEPT !.pc = "on"]
  /\ UNCHANGED <<rows, charged, merged, published, handler, page, trail, fresh, ids, events>>

(* The end of a run, or the death of its process.                          *)
EndRun ==
  /\ monitor.pc # "idle"
  /\ monitor' = Asleep
  /\ UNCHANGED <<rows, charged, merged, published, handler, page, trail, fresh, ids, events, runs>>

(* loadVeilleMails: the communes still watched, read again, less the       *)
(* entries the letters about dossiers of the same address have covered.    *)
LoadMail(n) ==
  /\ monitor.pc = "on" /\ notice[n] = "pending"
  /\ \E codes \in SUBSET Watched(n) :
       monitor' = [monitor EXCEPT !.pc = "mint", !.arrete = n, !.id = veille.id, !.codes = codes]
  /\ UNCHANGED <<rows, charged, merged, published, handler, page, trail, fresh, ids, events, runs>>

(* recipientFor: one token per run; nothing to tell mints none, and a row  *)
(* whose subscription is gone is left alone.                               *)
Mint ==
  LET id == monitor.id IN
  /\ monitor.pc = "mint"
  /\ IF monitor.codes = {} \/ monitor.memo[id] # 0
     THEN /\ monitor' = [monitor EXCEPT !.pc = IF monitor.codes = {} THEN "mark" ELSE "send"]
          /\ UNCHANGED <<unsubscribe, fresh>>
     ELSE IF veille.id = id
     THEN /\ fresh <= MaxToken /\ fresh' = fresh + 1
          /\ Minted(fresh, id)
          /\ monitor' = [monitor EXCEPT !.pc = "send", !.memo[id] = fresh]
     ELSE monitor' = [monitor EXCEPT !.pc = "on"] /\ UNCHANGED <<unsubscribe, fresh>>
  /\ UNCHANGED <<veille, change, notice, charged, merged, published, handler, page, trail, ids,
                 events, runs>>

SendLetter ==
  /\ monitor.pc = "send"
  /\ \/ /\ letters' = letters \cup {ArreteLetter(monitor.id, monitor.memo[monitor.id])}
        /\ monitor' = [monitor EXCEPT !.pc = "mark"]
     \/ monitor' = [monitor EXCEPT !.pc = "on"] /\ UNCHANGED letters
  /\ UNCHANGED <<rows, charged, merged, published, handler, page, lost, fresh, ids, events, runs>>

MarkSent ==
  /\ monitor.pc = "mark"
  /\ notice' = IF veille.id = monitor.id THEN [notice EXCEPT ![monitor.arrete] = "sent"] ELSE notice
  /\ monitor' = [monitor EXCEPT !.pc = "on"]
  /\ UNCHANGED <<veille, unsubscribe, change, charged, merged, published, handler, page, trail, fresh,
                 ids, events, runs>>

-----------------------------------------------------------------------------
Form(h) ==
  \/ ClaimUnconfirmed(h) \/ LookUp(h) \/ Create(h) \/ UpsertChange(h)
  \/ CountMails(h) \/ KeepsToken(h) \/ RotateConfirm(h) \/ RotateChange(h)
  \/ Charge(h) \/ SendFormMail(h)

Monitor ==
  \/ StartRun \/ EndRun \/ Mint \/ SendLetter \/ MarkSent
  \/ \E n \in Arrete : Publish(n) \/ LoadMail(n)

Next ==
  \/ \E h \in Handler :
       \/ \E communes \in Chosen : Subscribe(h, communes)
       \/ Form(h) \/ PressApply(h) \/ ReadChange(h) \/ CaptureChange(h) \/ Abandon(h)
  \/ \E l \in letters : Open(l) \/ Unsubscribe(l)
  \/ ReadStatus \/ Confirm
  \/ DeleteExpiredUnconfirmed \/ DeleteExpiredChanges
  \/ ConfirmWindowEnds \/ ChangeWindowEnds \/ DayPasses
  \/ \E c \in Code : Merge(c)
  \/ Monitor

Spec == Init /\ [][Next]_vars

-----------------------------------------------------------------------------
(* Anybody may type the address into the form, so a form alone decides     *)
(* nothing: a subscription becomes active, and an active one changes its   *)
(* communes, only by a link that a letter of that same subscription        *)
(* brought to the mailbox (claimUnconfirmed, confirm, applyChange).        *)
OnlyLinksDecide ==
  [][veille'.id = veille.id =>
       /\ (~ veille.confirmed /\ veille'.confirmed) => ConfirmLetter(veille.id, veille.token) \in letters
       /\ (veille.confirmed /\ veille'.communes # veille.communes)
            => \E h \in Handler :
                  ChangeLetter(veille.id, handler[h].token) \in letters]_vars

(* The link a row answers to is in the mailbox, on its way, or was lost    *)
(* with the letter it was made for: a first letter the daily limit         *)
(* suppressed, one that could not be composed or sent, or whose request    *)
(* was cut short.  What cannot happen is a rotation for a letter the limit *)
(* then suppresses: it would kill a link already delivered (sendFormMail,  *)
(* resendConfirmationMail, rotateAndSendChangeMail).                       *)
InHand == lost \cup {l.token : l \in letters} \cup {handler[h].token : h \in Handler}

StoredLinkIsMailed ==
  /\ (veille.id # 0 /\ ~ veille.confirmed) => veille.token \in InHand
  /\ change.token # 0 => change.token \in InHand

(* Every letter ever delivered for the subscription the address holds can  *)
(* still end it, whatever was resent, confirmed or rotated since           *)
(* (VeilleUnsubscribeToken, SendPass.recipients).                          *)
EveryLetterCanEndIt ==
  \A l \in letters : l.id = veille.id => unsubscribe[l.token] = veille.id

(* The change page applies what it shows, unless a form rewrote the        *)
(* request after the page read it (veille-changement, applyChange).        *)
AppliedAsShown ==
  [][\A h \in Handler :
       (page.asks = h /\ page'.answer = "applied" /\ ~ page.rewritten)
         => veille'.communes = page.shown]_vars
=============================================================================
