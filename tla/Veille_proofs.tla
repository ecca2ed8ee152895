---------------------------- MODULE Veille_proofs ----------------------------
(***************************************************************************)
(* The subscription of an address, for every set of communes, every number *)
(* of requests in flight, of letters and of runs: the links of the letters *)
(* keep working, and nothing but a link changes a confirmed subscription.  *)
(*                                                                         *)
(* The argument is about who holds a link.  A link is in a letter, in the  *)
(* request that will mail it, or in the memory of the monitor's run; a     *)
(* holder knows the row the link was made for.  Rows come with a new id    *)
(* and links with a new number, so a link that still opens the stored row  *)
(* was made for that row (Sound).                                          *)
(***************************************************************************)
EXTENDS Veille, FiniteSetTheorems, TLAPS

CountInv == ids \in 0 .. MaxId /\ fresh \in 1 .. MaxToken + 1

(* The rows: what hangs off the subscription goes with it.                 *)
RowInv ==
  /\ veille \in [id : 0 .. ids, confirmed : BOOLEAN, lapsed : BOOLEAN, token : 0 .. fresh - 1,
                 communes : SUBSET Code]
  /\ veille.id = 0 => veille = NoVeille
  /\ unsubscribe \in [Token -> {0, veille.id}]
  /\ change \in [id : {0, veille.id}, lapsed : BOOLEAN, token : 0 .. fresh - 1,
                 communes : SUBSET Code]
  /\ change.id = 0 => change = NoChange
  /\ notice \in [Arrete -> {"none", "pending", "sent"}]
  /\ veille.id = 0 => notice = [n \in Arrete |-> "none"]

(* A request to change hangs off a confirmed subscription; neither watches *)
(* nothing, and a subscription answers to a link.                          *)
ActiveInv ==
  /\ veille.id # 0 => veille.communes # {} /\ veille.token # 0
  /\ change.id # 0 => veille.confirmed /\ change.communes # {}

(* Link t was made for row id: while that row stands it can end it, and a  *)
(* row that answers to the link is that row.                               *)
Sound(id, t) ==
  /\ id \in 1 .. ids /\ t \in 1 .. fresh - 1
  /\ id = veille.id => unsubscribe[t] = id
  /\ t \in {veille.token, change.token} => id = veille.id

LetterInv ==
  /\ letters \subseteq [kind : {"confirm", "change", "arrete"}, id : Id, token : Token]
  /\ \A l \in letters : Sound(l.id, l.token)
  /\ lost \subseteq Token

(* A request holds the link it will mail, or the link its page was opened  *)
(* with.                                                                   *)
Mailing(r)  == r.pc \in {"charge", "send"} \/ r.kind = "create"
Applying(r) == r.pc \in {"apply", "capture"}

OpenedBy(kind, t) == \E l \in letters : l.kind = kind /\ l.token = t

Request == [pc : Pcs, kind : {None, "resend", "create", "change"}, id : 0 .. ids,
            token : 0 .. fresh - 1, communes : SUBSET Code, retry : BOOLEAN]

RequestInv(r) ==
  /\ r.pc = "idle" => r.kind = None
  /\ r.pc \in {"claim", "look", "create", "upsert"} => r.kind = None /\ r.communes # {}
  /\ r.pc \in {"count", "compose", "charge", "send"} => r.kind # None /\ r.id # 0
  /\ Applying(r) => r.kind = None /\ OpenedBy("change", r.token)
  /\ r.pc = "capture" => r.communes # {}
  /\ Mailing(r) => Sound(r.id, r.token)
  /\ ~ Mailing(r) /\ ~ Applying(r) => r.token = 0
  /\ r.pc = "upsert" => r.id # 0 /\ (r.id = veille.id => veille.confirmed)

HandlerInv == handler \in [Handler -> Request] /\ \A h \in Handler : RequestInv(handler[h])

(* The page was opened with a link of a letter; while it asks, the request *)
(* that will answer it carries the same link.                              *)
PageType ==
  page \in [kind : {None, "confirm", "change"}, token : 0 .. fresh - 1,
            read : Statuses \cup {"loading"}, shown : SUBSET Code, asks : Handler \cup {0},
            answer : {None, "active", "applied", "invalid"}, rewritten : BOOLEAN]

PageInv ==
  /\ PageType
  /\ page.kind # None => OpenedBy(page.kind, page.token)
  /\ page.asks # 0 =>
       /\ page.kind = "change" /\ page.answer = None
       /\ Applying(handler[page.asks]) /\ handler[page.asks].token = page.token

(* The request the page shows is still to be decided, as the page read it. *)
Standing == ~ page.rewritten /\ change.token = page.token /\ ~ change.lapsed

ShownInv ==
  page.kind = "change" /\ Standing =>
    /\ page.read = "pending" => page.shown = change.communes
    /\ page.asks # 0 =>
         /\ page.read = "pending"
         /\ handler[page.asks].pc = "capture" => handler[page.asks].communes = change.communes

(* The run of the monitor remembers one link per row.                      *)
MonitorInv ==
  /\ monitor \in [pc : {"idle", "on", "mint", "send", "mark"}, arrete : Arrete \cup {None},
                  id : 0 .. ids, codes : SUBSET Code, memo : [Id -> 0 .. fresh - 1]]
  /\ monitor.pc \notin {"idle", "on"} => monitor.id # 0 /\ monitor.arrete \in Arrete
  /\ monitor.pc = "send" => monitor.memo[monitor.id] # 0
  /\ \A id \in Id : monitor.memo[id] # 0 => Sound(id, monitor.memo[id])

IInv ==
  CountInv /\ RowInv /\ ActiveInv /\ LetterInv /\ HandlerInv /\ PageInv /\ ShownInv /\ MonitorInv
  /\ StoredLinkIsMailed

-----------------------------------------------------------------------------
(* The bounds are naturals, and an address nobody knows has nothing.       *)
LEMMA Bounds ==
  /\ MaxToken \in Nat \ {0} /\ MaxId \in Nat \ {0} /\ Limit \in Nat
  /\ \A h \in Handler : h \in Nat \ {0}
  /\ \A communes \in Chosen : communes \subseteq Code /\ communes # {}
BY BoundAssumption, HandlerAssumption, ChosenAssumption

LEMMA InitIInv == Init => IInv
<1> SUFFICES ASSUME Init PROVE IInv
  OBVIOUS
<1>1. CountInv /\ RowInv /\ ActiveInv
  <2>1. CountInv
    BY Bounds DEF Init, CountInv
  <2>2. CASE veille = NoVeille
    <3>1. unsubscribe = [t \in Token |-> 0] /\ fresh = 1 /\ ids = 0
      BY <2>2 DEF Init, NoVeille
    <3>. QED
      BY <2>1, <2>2, <3>1 DEF Init, RowInv, ActiveInv, NoVeille, NoChange
  <2>3. CASE veille # NoVeille
    <3>1. /\ unsubscribe = [t \in Token |-> IF t = 1 THEN 1 ELSE 0] /\ fresh = 2 /\ ids = 1
          /\ \E communes \in Chosen :
               veille = [id |-> 1, confirmed |-> TRUE, lapsed |-> FALSE, token |-> 1,
                         communes |-> communes]
      BY <2>3 DEF Init
    <3>. QED
      BY <2>1, <3>1, Bounds DEF Init, RowInv, ActiveInv, NoVeille, NoChange
  <2>. QED
    BY <2>2, <2>3
<1>2. LetterInv
  BY Bounds DEF Init, LetterInv, Sound, ConfirmLetter, NoChange, NoVeille, Id, Token
<1>3. HandlerInv
  <2>1. Idle \in Request
    BY Bounds DEF Init, Idle, Pcs, Request
  <2>2. handler \in [Handler -> Request]
    BY <2>1 DEF Init
  <2>3. RequestInv(Idle)
    <3>1. ~ Mailing(Idle) /\ ~ Applying(Idle)
      BY NoneAssumption DEF Idle, Mailing, Applying
    <3>. QED
      BY <3>1 DEF RequestInv, Idle
  <2>. QED
    BY <2>2, <2>3 DEF Init, HandlerInv
<1>4. PageInv /\ ShownInv
  BY Bounds, NoneAssumption DEF Init, PageInv, PageType, ShownInv, NoPage, Statuses
<1>5. MonitorInv
  BY Bounds DEF Init, MonitorInv, Asleep
<1>6. StoredLinkIsMailed
  BY DEF Init, StoredLinkIsMailed, InHand, NoVeille, NoChange, ConfirmLetter
<1>. QED
  BY <1>1, <1>2, <1>3, <1>4, <1>5, <1>6 DEF IInv

-----------------------------------------------------------------------------
(* The rows.                                                               *)

(* A link stays the link of its row, whatever the step does.               *)
KeepsSound ==
  /\ ids' \in Nat /\ fresh' \in Nat /\ ids <= ids' /\ fresh <= fresh'
  /\ \A id, t : Sound(id, t) => Sound(id, t)'

RowsWell == CountInv' /\ RowInv' /\ ActiveInv' /\ KeepsSound

(* A link is made for the stored row, and may become the one it, or the    *)
(* request that hangs off it, answers to.                                  *)
LEMMA Minting ==
  ASSUME CountInv, RowInv, ActiveInv, fresh <= MaxToken, fresh' = fresh + 1, ids' = ids,
         veille.id # 0, Minted(fresh, veille.id), UNCHANGED notice,
         veille' = veille \/ veille' = [veille EXCEPT !.token = fresh],
         change' = change \/ (change.id # 0 /\ change' = [change EXCEPT !.token = fresh])
  PROVE  RowsWell /\ \A id, t : id = veille.id /\ t = fresh => Sound(id, t)'
<1>1. fresh \in Token /\ MaxToken \in Nat /\ fresh' \in 1 .. MaxToken + 1 /\ fresh' - 1 = fresh
  BY Bounds DEF CountInv, Token
<1>2. unsubscribe' \in [Token -> {0, veille.id}] /\ unsubscribe'[fresh] = veille.id
  BY <1>1 DEF RowInv, Minted
<1>3. /\ veille' \in [id : 0 .. ids, confirmed : BOOLEAN, lapsed : BOOLEAN, token : 0 .. fresh,
                      communes : SUBSET Code]
      /\ veille'.id = veille.id /\ veille'.confirmed = veille.confirmed
      /\ veille'.communes = veille.communes
  BY <1>1 DEF RowInv
<1>4. /\ change' \in [id : {0, veille.id}, lapsed : BOOLEAN, token : 0 .. fresh,
                      communes : SUBSET Code]
      /\ change'.id = change.id /\ change'.communes = change.communes
      /\ change.id = 0 => change' = change
  BY <1>1 DEF RowInv
<1>5. CountInv' /\ RowInv' /\ ActiveInv'
  BY <1>1, <1>2, <1>3, <1>4 DEF CountInv, RowInv, ActiveInv
<1>6. ASSUME NEW id, NEW t, Sound(id, t) PROVE Sound(id, t)'
  <2>1. t \in 1 .. fresh - 1 /\ t \in Token /\ t # fresh
    BY <1>6, <1>1, Bounds DEF Sound, Token
  <2>2. unsubscribe'[t] = unsubscribe[t]
    BY <2>1 DEF RowInv, Minted
  <2>3. t \in 1 .. fresh' - 1
    BY <2>1, <1>1
  <2>4. t \in {veille'.token, change'.token} => t \in {veille.token, change.token}
    BY <2>1 DEF RowInv
  <2>. QED
    BY <1>6, <1>3, <2>2, <2>3, <2>4 DEF Sound
<1>7. ASSUME NEW id, NEW t, id = veille.id, t = fresh PROVE Sound(id, t)'
  <2>1. t \in 1 .. fresh' - 1 /\ id \in 1 .. ids'
    BY <1>1, <1>7, Bounds DEF RowInv, CountInv, Token
  <2>. QED
    BY <2>1, <1>2, <1>3, <1>7 DEF Sound
<1>. QED
  BY <1>1, <1>5, <1>6, <1>7 DEF RowsWell, KeepsSound, CountInv

(* A step that mints no link and keeps the row's own disturbs no holder.   *)
LEMMA Editing ==
  ASSUME CountInv, UNCHANGED <<unsubscribe, fresh, ids>>,
         veille'.id = veille.id, veille'.token = veille.token,
         change'.token \in {0, change.token}
  PROVE  CountInv' /\ KeepsSound
<1>1. ASSUME NEW id, NEW t, Sound(id, t) PROVE Sound(id, t)'
  <2>1. t \in 1 .. fresh - 1 /\ t # 0
    BY <1>1 DEF Sound, CountInv
  <2>. QED
    BY <1>1, <2>1 DEF Sound
<1>. QED
  BY <1>1, Bounds DEF CountInv, KeepsSound

(* The subscription goes, and every link made for it with it.              *)
LEMMA Deleting ==
  ASSUME CountInv, RowInv, DeleteVeille, UNCHANGED <<fresh, ids>>
  PROVE  RowsWell
<1>1. veille' = NoVeille /\ change' = NoChange /\ CountInv'
  BY DEF DeleteVeille, CountInv
<1>2. RowInv' /\ ActiveInv'
  BY <1>1, Bounds DEF DeleteVeille, RowInv, ActiveInv, CountInv, NoVeille, NoChange
<1>3. ASSUME NEW id, NEW t, Sound(id, t) PROVE Sound(id, t)'
  <2>1. t \in 1 .. fresh - 1 /\ t # 0 /\ id \in 1 .. ids /\ id # 0
    BY <1>3 DEF Sound, CountInv
  <2>. QED
    BY <1>1, <2>1 DEF Sound, NoVeille, NoChange
<1>. QED
  BY <1>1, <1>2, <1>3, Bounds DEF RowsWell, KeepsSound, CountInv

LEMMA FormRows ==
  ASSUME IInv, NEW h \in Handler,
         ClaimUnconfirmed(h) \/ Create(h) \/ UpsertChange(h) \/ RotateConfirm(h) \/ RotateChange(h)
  PROVE  RowsWell
<1>. USE DEF IInv
<1>r. /\ handler[h].communes \subseteq Code /\ handler[h].id \in 0 .. ids /\ ids \in Nat
      /\ fresh \in Nat /\ RequestInv(handler[h])
  BY Bounds DEF HandlerInv, Request, CountInv
<1>1. CASE ClaimUnconfirmed(h)
  <2>1. handler[h].communes # {}
    BY <1>1, <1>r DEF ClaimUnconfirmed, RequestInv
  <2>2. CASE veille' = veille
    BY <1>1, <2>2, Editing DEF ClaimUnconfirmed, RowsWell, RowInv, ActiveInv
  <2>3. CASE veille.id # 0 /\ ~ veille.confirmed
    <3>1. veille' = [veille EXCEPT !.lapsed = FALSE, !.communes = handler[h].communes]
      BY <1>1, <2>3 DEF ClaimUnconfirmed
    <3>2. RowInv' /\ ActiveInv'
      BY <1>1, <1>r, <2>1, <2>3, <3>1 DEF ClaimUnconfirmed, RowInv, ActiveInv
    <3>. QED
      BY <1>1, <3>1, <3>2, Editing DEF ClaimUnconfirmed, RowsWell, RowInv
  <2>. QED
    BY <1>1, <2>2, <2>3 DEF ClaimUnconfirmed
<1>2. CASE Create(h)
  <2>1. CASE veille.id # 0
    BY <1>2, <2>1, Editing DEF Create, RowsWell, RowInv, ActiveInv
  <2>2. CASE veille.id = 0
    <3>1. /\ veille = NoVeille /\ change.id = 0 /\ change = NoChange
          /\ notice = [n \in Arrete |-> "none"]
      BY <2>2 DEF RowInv
    <3>0. fresh <= MaxToken /\ ids < MaxId
      BY <1>2, <2>2 DEF Create
    <3>9. fresh \in Token /\ ids + 1 \in Id
      BY <3>0, Bounds DEF CountInv, Token, Id
    <3>2. /\ fresh \in Token /\ ids + 1 \in Id /\ fresh' = fresh + 1 /\ ids' = ids + 1
          /\ unsubscribe' = [unsubscribe EXCEPT ![fresh] = ids + 1]
          /\ veille' = [id |-> ids + 1, confirmed |-> FALSE, lapsed |-> FALSE, token |-> fresh,
                        communes |-> handler[h].communes]
          /\ UNCHANGED <<change, notice>>
      BY <1>2, <2>2, <3>9 DEF Create, NoVeille
    <3>3. CountInv'
      BY <3>2, Bounds DEF CountInv, Token, Id
    <3>4. handler[h].communes # {}
      BY <1>2, <1>r DEF Create, RequestInv
    <3>5. unsubscribe \in [Token -> {0}]
      BY <2>2 DEF RowInv
    <3>6. unsubscribe' \in [Token -> {0, ids + 1}]
      BY <3>2, <3>5
    <3>7. RowInv' /\ ActiveInv'
      BY <1>r, <3>1, <3>2, <3>4, <3>6, Bounds DEF RowInv, ActiveInv, NoChange, NoVeille, Token, Id
    <3>8. ASSUME NEW id, NEW t, Sound(id, t) PROVE Sound(id, t)'
      <4>1. t \in 1 .. fresh - 1 /\ t # fresh /\ id \in 1 .. ids /\ id # ids + 1 /\ t # 0
        BY <3>8, <1>r DEF Sound
      <4>2. t \in 1 .. fresh' - 1 /\ id \in 1 .. ids'
        BY <4>1, <3>2, <1>r
      <4>. QED
        BY <4>1, <4>2, <3>1, <3>2 DEF Sound, NoChange
    <3>. QED
      BY <1>r, <3>2, <3>3, <3>7, <3>8 DEF RowsWell, KeepsSound
  <2>. QED
    BY <2>1, <2>2
<1>3. CASE UpsertChange(h)
  <2>1. CASE veille.id # handler[h].id
    BY <1>3, <2>1, Editing DEF UpsertChange, RowsWell, RowInv, ActiveInv
  <2>2. CASE veille.id = handler[h].id
    <3>1. handler[h].communes # {} /\ veille.id # 0 /\ veille.confirmed
      BY <1>3, <2>2, <1>r DEF UpsertChange, RequestInv
    <3>2. /\ change' \in [id : {veille.id}, lapsed : BOOLEAN, token : {0, change.token},
                          communes : {handler[h].communes}]
          /\ UNCHANGED <<veille, unsubscribe, notice, fresh, ids>>
      <4>1. /\ UNCHANGED <<veille, unsubscribe, notice, fresh, ids>>
            /\ change' = IF change.id = handler[h].id
                         THEN [change EXCEPT !.communes = handler[h].communes, !.lapsed = FALSE]
                         ELSE [NoChange EXCEPT !.id = handler[h].id,
                                               !.communes = handler[h].communes]
        BY <1>3, <2>2 DEF UpsertChange
      <4>2. CASE change.id = handler[h].id
        BY <2>2, <4>1, <4>2 DEF RowInv
      <4>3. CASE change.id # handler[h].id
        <5>1. change.id = 0 /\ change.token = 0
          BY <2>2, <4>3 DEF RowInv, NoChange
        <5>. QED
          BY <2>2, <4>1, <4>3, <5>1 DEF NoChange
      <4>. QED
        BY <4>2, <4>3
    <3>3. RowInv' /\ ActiveInv'
      BY <1>r, <3>1, <3>2 DEF RowInv, ActiveInv
    <3>. QED
      BY <3>2, <3>3, Editing DEF RowsWell
  <2>. QED
    BY <2>1, <2>2
<1>4. CASE RotateConfirm(h)
  <2>1. CASE veille.id = handler[h].id /\ ~ veille.confirmed
    <3>1. veille.id # 0
      BY <1>4, <1>r, <2>1 DEF RotateConfirm, RequestInv
    <3>. QED
      BY <1>4, <2>1, <3>1, Minting DEF RotateConfirm
  <2>2. CASE ~ (veille.id = handler[h].id /\ ~ veille.confirmed)
    BY <1>4, <2>2, Editing DEF RotateConfirm, RowsWell, RowInv, ActiveInv
  <2>. QED
    BY <2>1, <2>2
<1>5. CASE RotateChange(h)
  <2>1. CASE change.id = handler[h].id
    <3>1. change.id # 0 /\ veille.id = change.id /\ veille.id # 0
      BY <1>5, <1>r, <2>1 DEF RotateChange, RequestInv, RowInv
    <3>. QED
      BY <1>5, <2>1, <3>1, Minting DEF RotateChange
  <2>2. CASE change.id # handler[h].id
    BY <1>5, <2>2, Editing DEF RotateChange, RowsWell, RowInv, ActiveInv
  <2>. QED
    BY <2>1, <2>2
<1>. QED
  BY <1>1, <1>2, <1>3, <1>4, <1>5

LEMMA PageRows ==
  ASSUME IInv, Confirm \/ \E h \in Handler : CaptureChange(h)
  PROVE  RowsWell
<1>. USE DEF IInv
<1>1. CASE Confirm
  <2>1. page.token # 0
    <3>1. PICK l \in letters : l.token = page.token
      BY <1>1, NoneAssumption DEF Confirm, PageInv, OpenedBy
    <3>. QED
      BY <3>1 DEF LetterInv, Sound
  <2>2. CASE ConfirmationStatus(page.token) = "pending"
    <3>1. veille.token # 0 /\ veille.id # 0
      BY <2>1, <2>2 DEF ConfirmationStatus, RowInv, NoVeille
    <3>2. veille' = [veille EXCEPT !.confirmed = TRUE]
      BY <1>1, <2>2 DEF Confirm
    <3>. QED
      BY <1>1, <3>1, <3>2, Editing DEF Confirm, RowsWell, RowInv, ActiveInv
  <2>3. CASE ConfirmationStatus(page.token) # "pending"
    <3>1. veille' = veille
      BY <1>1, <2>3 DEF Confirm, RowInv
    <3>. QED
      BY <1>1, <3>1, Editing DEF Confirm, RowsWell, RowInv, ActiveInv
  <2>. QED
    BY <2>2, <2>3
<1>2. ASSUME NEW h \in Handler, CaptureChange(h) PROVE RowsWell
  <2>1. /\ handler[h].communes \subseteq Code /\ handler[h].communes # {}
        /\ OpenedBy("change", handler[h].token)
    BY <1>2 DEF HandlerInv, Request, RequestInv, CaptureChange, Applying
  <2>2. handler[h].token # 0
    BY <2>1 DEF OpenedBy, LetterInv, Sound
  <2>3. CASE change.token = handler[h].token /\ ~ change.lapsed
    <3>1. change.id # 0 /\ veille.id # 0
      BY <2>2, <2>3 DEF RowInv, NoChange
    <3>2. /\ veille' = [veille EXCEPT !.communes = handler[h].communes] /\ change' = NoChange
          /\ UNCHANGED <<unsubscribe, notice, fresh, ids>>
      BY <1>2, <2>3 DEF CaptureChange
    <3>3. RowInv' /\ ActiveInv'
      BY <2>1, <3>1, <3>2, Bounds DEF RowInv, ActiveInv, NoChange, CountInv
    <3>. QED
      BY <3>2, <3>3, Editing DEF RowsWell, RowInv, NoChange
  <2>4. CASE ~ (change.token = handler[h].token /\ ~ change.lapsed)
    BY <1>2, <2>4, Editing DEF CaptureChange, RowsWell, RowInv, ActiveInv
  <2>. QED
    BY <2>3, <2>4
<1>. QED
  BY <1>1, <1>2

LEMMA ClockRows ==
  ASSUME IInv,
         \/ DeleteExpiredUnconfirmed \/ DeleteExpiredChanges
         \/ ConfirmWindowEnds \/ ChangeWindowEnds
         \/ \E l \in letters : Unsubscribe(l)
  PROVE  RowsWell
<1>. USE DEF IInv
<1>1. CASE DeleteExpiredUnconfirmed
  BY <1>1, Deleting DEF DeleteExpiredUnconfirmed
<1>2. CASE \E l \in letters : Unsubscribe(l)
  BY <1>2, Deleting DEF Unsubscribe
<1>3. CASE DeleteExpiredChanges
  <2>1. RowInv' /\ ActiveInv'
    BY <1>3, Bounds DEF DeleteExpiredChanges, RowInv, ActiveInv, NoChange, CountInv
  <2>. QED
    BY <1>3, <2>1, Editing DEF DeleteExpiredChanges, RowsWell, NoChange
<1>4. CASE ConfirmWindowEnds
  <2>1. RowInv' /\ ActiveInv'
    BY <1>4 DEF ConfirmWindowEnds, RowInv, ActiveInv
  <2>. QED
    BY <1>4, <2>1, Editing DEF ConfirmWindowEnds, RowsWell, RowInv
<1>5. CASE ChangeWindowEnds
  <2>1. RowInv' /\ ActiveInv'
    BY <1>5 DEF ChangeWindowEnds, RowInv, ActiveInv
  <2>. QED
    BY <1>5, <2>1, Editing DEF ChangeWindowEnds, RowsWell, RowInv
<1>. QED
  BY <1>1, <1>2, <1>3, <1>4, <1>5

LEMMA MonitorRows ==
  ASSUME IInv, Mint \/ MarkSent \/ \E n \in Arrete : Publish(n)
  PROVE  RowsWell
<1>. USE DEF IInv
<1>1. CASE Mint
  <2>1. CASE monitor.codes # {} /\ monitor.memo[monitor.id] = 0 /\ veille.id = monitor.id
    <3>1. /\ fresh <= MaxToken /\ fresh' = fresh + 1 /\ Minted(fresh, veille.id)
          /\ UNCHANGED <<veille, change, notice, ids>>
      BY <1>1, <2>1 DEF Mint
    <3>2. veille.id # 0
      BY <1>1, <2>1 DEF Mint, MonitorInv
    <3>. QED
      BY <3>1, <3>2, Minting
  <2>2. CASE ~ (monitor.codes # {} /\ monitor.memo[monitor.id] = 0 /\ veille.id = monitor.id)
    <3>1. UNCHANGED <<veille, unsubscribe, change, notice, fresh, ids>>
      BY <1>1, <2>2 DEF Mint
    <3>. QED
      BY <3>1, Editing DEF RowsWell, RowInv, ActiveInv
  <2>. QED
    BY <2>1, <2>2
<1>2. CASE MarkSent
  <2>1. veille.id = monitor.id => veille.id # 0
    BY <1>2 DEF MarkSent, MonitorInv
  <2>2. RowInv' /\ ActiveInv'
    BY <1>2, <2>1 DEF MarkSent, RowInv, ActiveInv
  <2>. QED
    BY <1>2, <2>2, Editing DEF MarkSent, RowsWell
<1>3. ASSUME NEW n \in Arrete, Publish(n) PROVE RowsWell
  <2>1. Watched(n) # {} => veille.id # 0
    BY DEF Watched, RowInv, NoVeille
  <2>2. RowInv' /\ ActiveInv'
    BY <1>3, <2>1 DEF Publish, RowInv, ActiveInv
  <2>. QED
    BY <1>3, <2>2, Editing DEF Publish, RowsWell
<1>. QED
  BY <1>1, <1>2, <1>3

(* The other steps leave the rows alone.                                   *)
LEMMA RowStep == ASSUME IInv, [Next]_vars PROVE RowsWell
<1>1. CASE UNCHANGED <<rows, fresh, ids>>
  <2>1. UNCHANGED <<veille, unsubscribe, change, notice, fresh, ids>>
    BY <1>1 DEF rows
  <2>. QED
    BY <2>1, Editing DEF IInv, RowsWell, RowInv, ActiveInv
<1>2. ASSUME NEW h \in Handler,
             \/ \E communes \in Chosen : Subscribe(h, communes)
             \/ LookUp(h) \/ CountMails(h) \/ KeepsToken(h) \/ Charge(h) \/ SendFormMail(h)
             \/ PressApply(h) \/ ReadChange(h) \/ Abandon(h)
      PROVE  UNCHANGED <<rows, fresh, ids>>
  BY <1>2 DEF Subscribe, LookUp, CountMails, KeepsToken, Charge, SendFormMail, PressApply,
              ReadChange, Abandon
<1>3. ASSUME \/ \E l \in letters : Open(l)
             \/ ReadStatus \/ DayPasses \/ StartRun \/ EndRun \/ SendLetter
             \/ \E c \in Code : Merge(c)
             \/ \E n \in Arrete : LoadMail(n)
      PROVE  UNCHANGED <<rows, fresh, ids>>
  BY <1>3 DEF Open, ReadStatus, DayPasses, StartRun, EndRun, SendLetter, Merge, LoadMail
<1>. QED
  BY <1>1, <1>2, <1>3, FormRows, PageRows, ClockRows, MonitorRows DEF Next, Form, Monitor, vars

-----------------------------------------------------------------------------
(* The steps that write a letter, or lose a link.                          *)
LEMMA TrailMoves ==
  ASSUME [Next]_vars
  PROVE  \/ UNCHANGED trail
         \/ \E h \in Handler : CountMails(h) \/ SendFormMail(h) \/ Abandon(h)
         \/ SendLetter
<1>1. ASSUME NEW h \in Handler,
             \/ \E communes \in Chosen : Subscribe(h, communes)
             \/ ClaimUnconfirmed(h) \/ LookUp(h) \/ Create(h) \/ UpsertChange(h)
             \/ KeepsToken(h) \/ RotateConfirm(h) \/ RotateChange(h) \/ Charge(h)
             \/ PressApply(h) \/ ReadChange(h) \/ CaptureChange(h)
      PROVE  UNCHANGED trail
  BY <1>1 DEF Subscribe, ClaimUnconfirmed, LookUp, Create, UpsertChange, KeepsToken,
              RotateConfirm, RotateChange, Charge, PressApply, ReadChange, CaptureChange, trail
<1>2. ASSUME \/ \E l \in letters : Open(l) \/ Unsubscribe(l)
             \/ ReadStatus \/ Confirm \/ DeleteExpiredUnconfirmed \/ DeleteExpiredChanges
             \/ ConfirmWindowEnds \/ ChangeWindowEnds \/ DayPasses \/ StartRun \/ EndRun
             \/ Mint \/ MarkSent \/ (\E c \in Code : Merge(c))
             \/ \E n \in Arrete : Publish(n) \/ LoadMail(n)
      PROVE  UNCHANGED trail
  BY <1>2 DEF Open, Unsubscribe, ReadStatus, Confirm, DeleteExpiredUnconfirmed,
              DeleteExpiredChanges, ConfirmWindowEnds, ChangeWindowEnds, DayPasses, StartRun,
              EndRun, Mint, MarkSent, Merge, Publish, LoadMail, trail
<1>. QED
  BY <1>1, <1>2 DEF Next, Form, Monitor, vars, trail

(* The steps that write the subscription, and its request to change.       *)
LEMMA VeilleMoves ==
  ASSUME [Next]_vars
  PROVE  \/ veille' = veille
         \/ \E h \in Handler : ClaimUnconfirmed(h) \/ Create(h) \/ RotateConfirm(h) \/ CaptureChange(h)
         \/ Confirm \/ ConfirmWindowEnds \/ DeleteVeille
<1>1. ASSUME NEW h \in Handler,
             \/ \E communes \in Chosen : Subscribe(h, communes)
             \/ LookUp(h) \/ UpsertChange(h) \/ CountMails(h) \/ KeepsToken(h)
             \/ RotateChange(h) \/ Charge(h) \/ SendFormMail(h)
             \/ PressApply(h) \/ ReadChange(h) \/ Abandon(h)
      PROVE  veille' = veille
  BY <1>1 DEF Subscribe, LookUp, UpsertChange, CountMails, KeepsToken, RotateChange, Charge,
              SendFormMail, PressApply, ReadChange, Abandon, rows
<1>2. ASSUME \/ \E l \in letters : Open(l)
             \/ ReadStatus \/ DeleteExpiredChanges \/ ChangeWindowEnds \/ DayPasses
             \/ StartRun \/ EndRun \/ Mint \/ SendLetter \/ MarkSent
             \/ (\E c \in Code : Merge(c))
             \/ \E n \in Arrete : Publish(n) \/ LoadMail(n)
      PROVE  veille' = veille
  BY <1>2 DEF Open, ReadStatus, DeleteExpiredChanges, ChangeWindowEnds, DayPasses, StartRun,
              EndRun, Mint, SendLetter, MarkSent, Merge, Publish, LoadMail, rows
<1>. QED
  BY <1>1, <1>2 DEF Next, Form, Monitor, vars, rows, Unsubscribe, DeleteExpiredUnconfirmed

LEMMA ChangeIsWritten ==
  ASSUME [Next]_vars
  PROVE  \/ change' = change
         \/ \E h \in Handler : UpsertChange(h) \/ RotateChange(h) \/ CaptureChange(h)
         \/ DeleteVeille \/ DeleteExpiredChanges \/ ChangeWindowEnds
<1>1. ASSUME NEW h \in Handler,
             \/ \E communes \in Chosen : Subscribe(h, communes)
             \/ ClaimUnconfirmed(h) \/ LookUp(h) \/ Create(h) \/ CountMails(h) \/ KeepsToken(h)
             \/ RotateConfirm(h) \/ Charge(h) \/ SendFormMail(h)
             \/ PressApply(h) \/ ReadChange(h) \/ Abandon(h)
      PROVE  change' = change
  BY <1>1 DEF Subscribe, ClaimUnconfirmed, LookUp, Create, CountMails, KeepsToken,
              RotateConfirm, Charge, SendFormMail, PressApply, ReadChange, Abandon, rows
<1>2. ASSUME \/ \E l \in letters : Open(l)
             \/ ReadStatus \/ Confirm \/ ConfirmWindowEnds \/ DayPasses \/ StartRun \/ EndRun
             \/ Mint \/ SendLetter \/ MarkSent \/ (\E c \in Code : Merge(c))
             \/ \E n \in Arrete : Publish(n) \/ LoadMail(n)
      PROVE  change' = change
  BY <1>2 DEF Open, ReadStatus, Confirm, ConfirmWindowEnds, DayPasses, StartRun, EndRun, Mint,
              SendLetter, MarkSent, Merge, Publish, LoadMail, rows
<1>. QED
  BY <1>1, <1>2 DEF Next, Form, Monitor, vars, rows, Unsubscribe, DeleteExpiredUnconfirmed

(* What any step leaves as it was: letters are not taken back, a confirmed *)
(* row is not unconfirmed, and a new one has an id of its own.             *)
KeepsConfirmed ==
  \A id \in 1 .. ids : (id = veille.id => veille.confirmed) => (id = veille'.id => veille'.confirmed)

LEMMA Kept ==
  ASSUME IInv, [Next]_vars
  PROVE  KeepsConfirmed /\ letters \subseteq letters' /\ lost \subseteq lost'
<1>1. letters \subseteq letters' /\ lost \subseteq lost'
  BY TrailMoves DEF trail, CountMails, SendFormMail, Abandon, SendLetter
<1>2. KeepsConfirmed
  <2>0. veille.id \in 0 .. ids /\ ids \in Nat /\ DOMAIN veille = {"id", "confirmed", "lapsed", "token", "communes"}
    BY Bounds DEF IInv, RowInv, CountInv
  <2>1. CASE veille'.id = veille.id /\ (veille.confirmed => veille'.confirmed)
    BY <2>1 DEF KeepsConfirmed
  <2>2. CASE veille'.id \in {0, ids + 1}
    BY <2>0, <2>2 DEF KeepsConfirmed
  <2>3. CASE UNCHANGED veille
    BY <2>1, <2>3
  <2>4. ASSUME NEW h \in Handler, \/ ClaimUnconfirmed(h) \/ RotateConfirm(h) \/ CaptureChange(h)
        PROVE  KeepsConfirmed
    <3>1. veille'.id = veille.id /\ veille'.confirmed = veille.confirmed
      BY <2>0, <2>4 DEF ClaimUnconfirmed, RotateConfirm, CaptureChange
    <3>. QED
      BY <3>1, <2>1
  <2>5. ASSUME NEW h \in Handler, Create(h) PROVE KeepsConfirmed
    BY <2>2, <2>3, <2>5 DEF Create, NoVeille
  <2>6. CASE Confirm
    BY <2>0, <2>1, <2>6 DEF Confirm
  <2>7. CASE ConfirmWindowEnds
    BY <2>0, <2>1, <2>7 DEF ConfirmWindowEnds
  <2>8. CASE DeleteVeille
    BY <2>2, <2>8 DEF DeleteVeille, NoVeille
  <2>. QED
    BY <2>3, <2>4, <2>5, <2>6, <2>7, <2>8, VeilleMoves
<1>. QED
  BY <1>1, <1>2

-----------------------------------------------------------------------------
(* The requests.                                                           *)
Steady == RowsWell /\ KeepsConfirmed /\ letters \subseteq letters'

(* A request that does not move stays what it was.                         *)
LEMMA RequestStays ==
  ASSUME CountInv, Steady, NEW r, r \in Request, RequestInv(r)
  PROVE  (r \in Request)' /\ RequestInv(r)'
<1>1. r.id \in 0 .. ids' /\ r.token \in 0 .. fresh' - 1
  BY Bounds DEF CountInv, Steady, RowsWell, KeepsSound, Request
<1>2. (r \in Request)'
  BY <1>1 DEF Request
<1>3. Applying(r) => OpenedBy("change", r.token)'
  BY DEF RequestInv, OpenedBy, Steady
<1>4. Mailing(r) => Sound(r.id, r.token)'
  BY DEF RequestInv, Steady, RowsWell, KeepsSound
<1>5. r.pc = "upsert" => r.id # 0 /\ (r.id = veille'.id => veille'.confirmed)
  BY Bounds DEF RequestInv, Steady, KeepsConfirmed, Request, CountInv
<1>. QED
  BY <1>2, <1>3, <1>4, <1>5 DEF RequestInv, Mailing, Applying

LEMMA RequestsStay ==
  ASSUME CountInv, Steady, HandlerInv, UNCHANGED handler PROVE HandlerInv'
<1>1. ASSUME NEW h \in Handler PROVE (handler[h] \in Request)' /\ RequestInv(handler[h])'
  <2>1. PICK r : r = handler[h]
    OBVIOUS
  <2>2. r \in Request /\ RequestInv(r)
    BY <2>1 DEF HandlerInv
  <2>3. (r \in Request)' /\ RequestInv(r)'
    BY <2>2, RequestStays
  <2>. QED
    BY <2>1, <2>3
<1>. QED
  BY <1>1 DEF HandlerInv

LEMMA OneRequestMoves ==
  ASSUME CountInv, Steady, HandlerInv, NEW h \in Handler,
         NEW r, (r \in Request)', RequestInv(r)', handler' = [handler EXCEPT ![h] = r]
  PROVE  HandlerInv'
<1>1. ASSUME NEW g \in Handler PROVE (handler[g] \in Request)' /\ RequestInv(handler[g])'
  <2>1. CASE g = h
    <3>1. handler'[g] = r
      BY <2>1 DEF HandlerInv
    <3>. QED
      BY <3>1
  <2>2. CASE g # h
    <3>1. PICK q : q = handler[g]
      OBVIOUS
    <3>2. q \in Request /\ RequestInv(q) /\ handler'[g] = q
      BY <2>2, <3>1 DEF HandlerInv
    <3>3. (q \in Request)' /\ RequestInv(q)'
      BY <3>2, RequestStays
    <3>. QED
      BY <3>2, <3>3
  <2>. QED
    BY <2>1, <2>2
<1>2. DOMAIN handler' = Handler /\ handler' = [g \in Handler |-> handler'[g]]
  BY DEF HandlerInv
<1>. QED
  BY <1>1, <1>2 DEF HandlerInv

LEMMA FromZero == \A n \in Nat : 0 \in 0 .. n /\ (n >= 1 => 0 \in 0 .. n - 1)
OBVIOUS

LEMMA Zeros == ASSUME Steady PROVE 0 \in 0 .. ids' /\ 0 \in 0 .. fresh' - 1
<1>1. ids' \in 0 .. MaxId /\ fresh' \in 1 .. MaxToken + 1
  BY DEF Steady, RowsWell, CountInv
<1>2. ids' \in Nat /\ fresh' \in Nat /\ fresh' >= 1
  BY <1>1, Bounds
<1>. QED
  BY <1>2, FromZero, Zenon

(* A request that was answered, and one that just begins.                  *)
LEMMA Answered ==
  ASSUME CountInv, Steady, HandlerInv, NEW h \in Handler, Answer(h) PROVE HandlerInv'
<1>1. PICK r : r = Idle
  OBVIOUS
<1>0. 0 \in 0 .. ids' /\ 0 \in 0 .. fresh' - 1
  BY Zeros
<1>2. (r \in Request)'
  BY <1>0, <1>1, Bounds DEF Idle, Request, Pcs
<1>3. RequestInv(r)'
  BY <1>1, NoneAssumption DEF Idle, RequestInv, Mailing, Applying
<1>. QED
  BY <1>1, <1>2, <1>3, OneRequestMoves DEF Answer

LEMMA Begun ==
  ASSUME CountInv, Steady, HandlerInv, NEW h \in Handler, NEW communes \in Chosen,
         handler' = [handler EXCEPT ![h] = [Idle EXCEPT !.pc = "claim", !.communes = communes]]
  PROVE  HandlerInv'
<1>1. PICK r : r = [Idle EXCEPT !.pc = "claim", !.communes = communes]
  OBVIOUS
<1>0. 0 \in 0 .. ids' /\ 0 \in 0 .. fresh' - 1
  BY Zeros
<1>2. (r \in Request)'
  BY <1>0, <1>1, Bounds DEF Idle, Request, Pcs
<1>3. RequestInv(r)'
  BY <1>1, Bounds, NoneAssumption DEF Idle, RequestInv, Mailing, Applying
<1>. QED
  BY <1>1, <1>2, <1>3, OneRequestMoves

LEMMA ClaimedRequest ==
  ASSUME IInv, Steady, NEW h \in Handler, ClaimUnconfirmed(h) \/ LookUp(h) \/ UpsertChange(h)
  PROVE  HandlerInv'
<1>. USE DEF IInv
<1>1. PICK q : q = handler[h]
  OBVIOUS
<1>2. q \in Request /\ RequestInv(q)
  BY <1>1 DEF HandlerInv
<1>3. (q \in Request)' /\ RequestInv(q)'
  BY <1>2, RequestStays
<1>4. CASE Answer(h)
  BY <1>4, Answered
<1>5. ASSUME q.pc \in {"claim", "look"}, NEW r,
             r \in {[q EXCEPT !.pc = "look"], [q EXCEPT !.pc = "create"]},
             handler' = [handler EXCEPT ![h] = r]
      PROVE  HandlerInv'
  <2>1. q.kind = None /\ q.communes # {} /\ q.token = 0
    BY <1>2, <1>5, NoneAssumption DEF RequestInv, Mailing, Applying
  <2>2. (r \in Request)'
    BY <1>3, <1>5 DEF Request, Pcs
  <2>3. RequestInv(r)'
    BY <1>2, <1>5, <2>1, NoneAssumption DEF Request, RequestInv, Mailing, Applying
  <2>. QED
    BY <1>5, <2>2, <2>3, OneRequestMoves
<1>6. CASE ClaimUnconfirmed(h)
  <2>1. CASE veille.id # 0 /\ ~ veille.confirmed
    <3>1. PICK r : r = [q EXCEPT !.pc = "count", !.kind = "resend", !.id = veille.id]
      OBVIOUS
    <3>2. handler' = [handler EXCEPT ![h] = r]
      BY <1>1, <1>6, <2>1, <3>1 DEF ClaimUnconfirmed, HandlerInv
    <3>3. q.pc = "claim" /\ q.token = 0
      BY <1>1, <1>2, <1>6, NoneAssumption DEF ClaimUnconfirmed, RequestInv, Mailing, Applying
    <3>4. veille.id \in 0 .. ids'
      BY Bounds DEF RowInv, CountInv, Steady, RowsWell, KeepsSound
    <3>5. (r \in Request)'
      BY <1>3, <3>1, <3>4 DEF Request, Pcs
    <3>6. RequestInv(r)'
      BY <1>2, <2>1, <3>1, <3>3, NoneAssumption DEF Request, RequestInv, Mailing, Applying
    <3>. QED
      BY <3>2, <3>5, <3>6, OneRequestMoves
  <2>2. CASE ~ (veille.id # 0 /\ ~ veille.confirmed)
    <3>1. PICK r : r = [q EXCEPT !.pc = "look"]
      OBVIOUS
    <3>2. handler' = [handler EXCEPT ![h] = r] /\ q.pc = "claim"
      BY <1>1, <1>6, <2>2, <3>1 DEF ClaimUnconfirmed, HandlerInv, Goto
    <3>. QED
      BY <1>5, <3>1, <3>2
  <2>. QED
    BY <2>1, <2>2
<1>7. CASE LookUp(h)
  <2>1. CASE veille.confirmed
    <3>1. PICK r : r = [q EXCEPT !.pc = "upsert", !.id = veille.id]
      OBVIOUS
    <3>2. handler' = [handler EXCEPT ![h] = r]
      BY <1>1, <1>7, <2>1, <3>1 DEF LookUp, HandlerInv
    <3>3. q.pc = "look" /\ q.token = 0 /\ q.kind = None /\ q.communes # {}
      BY <1>1, <1>2, <1>7, NoneAssumption DEF LookUp, RequestInv, Mailing, Applying
    <3>4. veille.id \in 0 .. ids' /\ veille.id # 0 /\ veille.id \in 1 .. ids
      BY <2>1, Bounds DEF RowInv, CountInv, Steady, RowsWell, KeepsSound, NoVeille
    <3>5. (r \in Request)'
      BY <1>3, <3>1, <3>4 DEF Request, Pcs
    <3>6. r.id = veille'.id => veille'.confirmed
      BY <1>2, <2>1, <3>1, <3>4 DEF Steady, KeepsConfirmed, Request
    <3>7. RequestInv(r)'
      BY <1>2, <3>1, <3>3, <3>4, <3>6, NoneAssumption DEF Request, RequestInv, Mailing, Applying
    <3>. QED
      BY <3>2, <3>5, <3>7, OneRequestMoves
  <2>2. CASE ~ veille.confirmed
    <3>1. PICK r : r = [q EXCEPT !.pc = "create"]
      OBVIOUS
    <3>2. handler' = [handler EXCEPT ![h] = r] /\ q.pc = "look"
      BY <1>1, <1>7, <2>2, <3>1 DEF LookUp, HandlerInv, Goto
    <3>. QED
      BY <1>5, <3>1, <3>2
  <2>. QED
    BY <2>1, <2>2
<1>8. CASE UpsertChange(h) /\ veille.id = q.id
  <2>1. PICK r : r = [q EXCEPT !.pc = "count", !.kind = "change"]
    OBVIOUS
  <2>2. handler' = [handler EXCEPT ![h] = r]
    BY <1>1, <1>8, <2>1 DEF UpsertChange, HandlerInv
  <2>3. q.pc = "upsert" /\ q.token = 0 /\ q.id # 0
    BY <1>1, <1>2, <1>8, NoneAssumption DEF UpsertChange, RequestInv, Mailing, Applying
  <2>4. (r \in Request)'
    BY <1>3, <2>1 DEF Request, Pcs
  <2>5. RequestInv(r)'
    BY <1>2, <2>1, <2>3, NoneAssumption DEF Request, RequestInv, Mailing, Applying
  <2>. QED
    BY <2>2, <2>4, <2>5, OneRequestMoves
<1>9. CASE UpsertChange(h) /\ veille.id # q.id
  BY <1>1, <1>4, <1>9 DEF UpsertChange
<1>. QED
  BY <1>6, <1>7, <1>8, <1>9

LEMMA CreatedRequest ==
  ASSUME IInv, Steady, NEW h \in Handler, Create(h) PROVE HandlerInv'
<1>. USE DEF IInv
<1>1. PICK q : q = handler[h]
  OBVIOUS
<1>2. q \in Request /\ RequestInv(q) /\ q.pc = "create"
  BY <1>1 DEF HandlerInv, Create
<1>3. (q \in Request)' /\ RequestInv(q)'
  BY <1>2, RequestStays
<1>4. q.token = 0 /\ q.kind = None /\ q.communes # {}
  BY <1>2, NoneAssumption DEF RequestInv, Mailing, Applying
<1>5. CASE veille.id # 0 /\ q.retry
  BY <1>1, <1>5, Answered DEF Create
<1>6. CASE veille.id # 0 /\ ~ q.retry
  <2>1. PICK r : r = [q EXCEPT !.pc = "claim", !.retry = TRUE]
    OBVIOUS
  <2>2. handler' = [handler EXCEPT ![h] = r]
    BY <1>1, <1>6, <2>1 DEF Create, HandlerInv
  <2>3. (r \in Request)'
    BY <1>3, <2>1 DEF Request, Pcs
  <2>4. RequestInv(r)'
    BY <1>2, <1>4, <2>1, NoneAssumption DEF Request, RequestInv, Mailing, Applying
  <2>. QED
    BY <2>2, <2>3, <2>4, OneRequestMoves
<1>7. CASE veille.id = 0
  <2>1. PICK id, t : id = ids + 1 /\ t = fresh
    OBVIOUS
  <2>2. /\ fresh <= MaxToken /\ ids < MaxId /\ fresh' = t + 1 /\ ids' = id
        /\ unsubscribe' = [unsubscribe EXCEPT ![t] = id]
        /\ veille'.id = id /\ UNCHANGED change
        /\ handler' = [handler EXCEPT ![h].pc = "count", ![h].kind = "create", ![h].id = id,
                                      ![h].token = t]
    BY <1>7, <2>1 DEF Create, NoVeille
  <2>3. t \in Token /\ id \in Nat \ {0} /\ t \in Nat \ {0}
    BY <2>1, <2>2, Bounds DEF CountInv, Token
  <2>4. t \in 1 .. fresh' - 1 /\ t \in 0 .. fresh' - 1 /\ id \in 1 .. ids' /\ id \in 0 .. ids'
    <3>1. t + 1 - 1 = t
      BY <2>3
    <3>. QED
      BY <2>2, <2>3, <3>1
  <2>5. unsubscribe'[t] = id
    BY <2>2, <2>3 DEF RowInv
  <2>6. change'.token # t
    <3>1. change.id = 0 /\ change.token = 0
      BY <1>7 DEF RowInv, NoChange
    <3>. QED
      BY <2>2, <2>3, <3>1
  <2>7. Sound(id, t)'
    BY <2>2, <2>4, <2>5, <2>6 DEF Sound
  <2>8. PICK r : r = [q EXCEPT !.pc = "count", !.kind = "create", !.id = id, !.token = t]
    OBVIOUS
  <2>9. handler' = [handler EXCEPT ![h] = r]
    BY <1>1, <2>2, <2>8 DEF HandlerInv
  <2>10. (r \in Request)'
    BY <1>3, <2>4, <2>8 DEF Request, Pcs
  <2>11. RequestInv(r)'
    BY <1>2, <2>3, <2>7, <2>8, NoneAssumption DEF Request, RequestInv, Mailing, Applying
  <2>. QED
    BY <2>9, <2>10, <2>11, OneRequestMoves
<1>. QED
  BY <1>5, <1>6, <1>7

(* The letter of a form is composed with a link of its own.                *)
LEMMA RotatedRequest ==
  ASSUME IInv, Steady, NEW h \in Handler, RotateConfirm(h) \/ RotateChange(h)
  PROVE  HandlerInv'
<1>. USE DEF IInv
<1>1. PICK q : q = handler[h]
  OBVIOUS
<1>2. q \in Request /\ RequestInv(q)
  BY <1>1 DEF HandlerInv
<1>3. (q \in Request)' /\ RequestInv(q)'
  BY <1>2, RequestStays
<1>4. CASE Answer(h)
  BY <1>4, Answered
<1>5. q.pc = "compose" /\ q.kind \in {"resend", "change"} /\ q.id # 0
  BY <1>1, <1>2 DEF RotateConfirm, RotateChange, RequestInv
<1>6. ASSUME NEW t, t = fresh, fresh \in Token, fresh' = t + 1,
             Sound(q.id, t)',
             handler' = [handler EXCEPT ![h].pc = "charge", ![h].token = t]
      PROVE  HandlerInv'
  <2>1. PICK r : r = [q EXCEPT !.pc = "charge", !.token = t]
    OBVIOUS
  <2>2. handler' = [handler EXCEPT ![h] = r]
    BY <1>1, <1>6, <2>1 DEF HandlerInv
  <2>3. t \in 0 .. fresh' - 1
    <3>1. t \in Nat /\ t + 1 - 1 = t
      BY <1>6, Bounds DEF Token
    <3>. QED
      BY <1>6, <3>1
  <2>4. (r \in Request)'
    BY <1>3, <2>1, <2>3 DEF Request, Pcs
  <2>5. RequestInv(r)'
    BY <1>2, <1>5, <1>6, <2>1, NoneAssumption DEF Request, RequestInv, Mailing, Applying
  <2>. QED
    BY <2>2, <2>4, <2>5, OneRequestMoves
<1>7. fresh <= MaxToken => fresh \in Token
  BY Bounds DEF CountInv, Token
<1>8. CASE RotateConfirm(h) /\ veille.id = q.id /\ ~ veille.confirmed
  <2>1. PICK t : t = fresh
    OBVIOUS
  <2>2. Sound(q.id, t)'
    BY <1>1, <1>5, <1>8, <2>1, Minting DEF RotateConfirm
  <2>. QED
    BY <1>1, <1>6, <1>7, <1>8, <2>1, <2>2 DEF RotateConfirm
<1>9. CASE RotateChange(h) /\ change.id = q.id
  <2>1. PICK t : t = fresh
    OBVIOUS
  <2>2. veille.id = q.id
    BY <1>5, <1>9 DEF RowInv
  <2>3. Sound(q.id, t)'
    BY <1>1, <1>5, <1>9, <2>1, <2>2, Minting DEF RotateChange
  <2>. QED
    BY <1>1, <1>6, <1>7, <1>9, <2>1, <2>3 DEF RotateChange
<1>. QED
  BY <1>1, <1>4, <1>8, <1>9 DEF RotateConfirm, RotateChange

LEMMA MailedRequest ==
  ASSUME IInv, Steady, NEW h \in Handler,
         CountMails(h) \/ KeepsToken(h) \/ Charge(h) \/ SendFormMail(h)
  PROVE  HandlerInv'
<1>. USE DEF IInv
<1>1. PICK q : q = handler[h]
  OBVIOUS
<1>2. q \in Request /\ RequestInv(q)
  BY <1>1 DEF HandlerInv
<1>3. (q \in Request)' /\ RequestInv(q)'
  BY <1>2, RequestStays
<1>4. CASE Answer(h)
  BY <1>4, Answered
<1>5. ASSUME NEW pc, Goto(h, pc),
             \/ q.pc = "count" /\ pc = "compose"
             \/ q.pc = "compose" /\ q.kind = "create" /\ pc = "charge"
             \/ q.pc = "charge" /\ pc = "send"
      PROVE  HandlerInv'
  <2>1. PICK r : r = [q EXCEPT !.pc = pc]
    OBVIOUS
  <2>2. handler' = [handler EXCEPT ![h] = r]
    BY <1>1, <1>5, <2>1 DEF HandlerInv, Goto
  <2>3. (r \in Request)'
    BY <1>3, <1>5, <2>1 DEF Request, Pcs
  <2>4. RequestInv(r)'
    BY <1>2, <1>3, <1>5, <2>1, NoneAssumption DEF Request, RequestInv, Mailing, Applying
  <2>. QED
    BY <2>2, <2>3, <2>4, OneRequestMoves
<1>. QED
  BY <1>1, <1>4, <1>5 DEF CountMails, KeepsToken, Charge, SendFormMail

LEMMA ApplyingRequest ==
  ASSUME IInv, Steady, NEW h \in Handler, PressApply(h) \/ ReadChange(h)
  PROVE  HandlerInv'
<1>. USE DEF IInv
<1>1. CASE PressApply(h)
  <2>1. PICK r : r = [Idle EXCEPT !.pc = "apply", !.token = page.token]
    OBVIOUS
  <2>2. handler' = [handler EXCEPT ![h] = r]
    BY <1>1, <2>1 DEF PressApply
  <2>3. OpenedBy("change", page.token)
    BY <1>1, NoneAssumption DEF PressApply, PageInv
  <2>4. page.token \in 0 .. fresh' - 1
    BY Bounds DEF PageInv, PageType, Steady, RowsWell, KeepsSound, CountInv
  <2>5. (r \in Request)'
    BY <2>1, <2>4, Zeros DEF Idle, Request, Pcs
  <2>6. OpenedBy("change", r.token)'
    BY <2>1, <2>3 DEF Idle, OpenedBy, Steady
  <2>7. RequestInv(r)'
    BY <2>1, <2>6, NoneAssumption DEF Idle, RequestInv, Mailing, Applying
  <2>. QED
    BY <2>2, <2>5, <2>7, OneRequestMoves
<1>2. CASE ReadChange(h)
  <2>1. PICK q : q = handler[h]
    OBVIOUS
  <2>2. q \in Request /\ RequestInv(q) /\ q.pc = "apply"
    BY <1>2, <2>1 DEF HandlerInv, ReadChange
  <2>3. (q \in Request)' /\ RequestInv(q)'
    BY <2>2, RequestStays
  <2>4. CASE change.token = q.token
    <3>1. PICK r : r = [q EXCEPT !.pc = "capture", !.id = change.id, !.communes = change.communes]
      OBVIOUS
    <3>2. handler' = [handler EXCEPT ![h] = r]
      BY <1>2, <2>1, <2>4, <3>1 DEF ReadChange, HandlerInv
    <3>3. q.token # 0
      BY <2>2 DEF RequestInv, Applying, OpenedBy, LetterInv, Sound
    <3>4. change.communes # {} /\ change.communes \subseteq Code /\ change.id \in 0 .. ids'
      BY <2>4, <3>3, Bounds
      DEF RowInv, ActiveInv, NoChange, CountInv, Steady, RowsWell, KeepsSound
    <3>5. (r \in Request)'
      BY <2>3, <3>1, <3>4 DEF Request, Pcs
    <3>6. RequestInv(r)'
      BY <2>2, <2>3, <3>1, <3>4, NoneAssumption DEF Request, RequestInv, Mailing, Applying
    <3>. QED
      BY <3>2, <3>5, <3>6, OneRequestMoves
  <2>5. CASE change.token # q.token
    BY <1>2, <2>1, <2>5, Answered DEF ReadChange
  <2>. QED
    BY <2>4, <2>5
<1>. QED
  BY <1>1, <1>2

LEMMA HandlerKept == ASSUME IInv, [Next]_vars, Steady PROVE HandlerInv'
<1>. USE DEF IInv
<1>1. CASE UNCHANGED handler
  BY <1>1, RequestsStay
<1>2. ASSUME NEW h \in Handler, CaptureChange(h) \/ Abandon(h) PROVE HandlerInv'
  BY <1>2, Answered DEF CaptureChange, Abandon
<1>3. ASSUME NEW h \in Handler, NEW communes \in Chosen, Subscribe(h, communes)
      PROVE  HandlerInv'
  BY <1>3, Begun DEF Subscribe
<1>4. ASSUME \/ \E l \in letters : Open(l) \/ Unsubscribe(l)
             \/ ReadStatus \/ Confirm
             \/ DeleteExpiredUnconfirmed \/ DeleteExpiredChanges
             \/ ConfirmWindowEnds \/ ChangeWindowEnds \/ DayPasses
             \/ \E c \in Code : Merge(c)
             \/ Monitor
      PROVE  UNCHANGED handler
  BY <1>4 DEF Open, Unsubscribe, ReadStatus, Confirm, DeleteExpiredUnconfirmed,
              DeleteExpiredChanges, ConfirmWindowEnds, ChangeWindowEnds, DayPasses, Merge,
              Monitor, StartRun, EndRun, Mint, SendLetter, MarkSent, Publish, LoadMail
<1>. QED
  BY <1>1, <1>2, <1>3, <1>4, ClaimedRequest, CreatedRequest, RotatedRequest, MailedRequest,
     ApplyingRequest
  DEF Next, Form, vars

-----------------------------------------------------------------------------
(* The letters.                                                            *)
LEMMA LetterKept == ASSUME IInv, [Next]_vars, Steady PROVE LetterInv'
<1>. USE DEF IInv
<1>1. ids' \in 0 .. MaxId /\ fresh' \in 1 .. MaxToken + 1
  BY DEF Steady, RowsWell, CountInv
<1>2. ASSUME NEW l \in letters PROVE Sound(l.id, l.token)'
  BY DEF LetterInv, Steady, RowsWell, KeepsSound
<1>3. CASE UNCHANGED trail
  BY <1>2, <1>3 DEF LetterInv, trail
<1>4. \A t \in 0 .. fresh - 1 : t # 0 => t \in Token
  BY Bounds DEF CountInv, Token
<1>5. \A h \in Handler : handler[h].token \in 0 .. fresh - 1 /\ handler[h].id \in 0 .. ids
  BY DEF HandlerInv, Request
<1>6. ASSUME NEW h \in Handler, CountMails(h) \/ Abandon(h) PROVE LetterInv'
  <2>1. handler[h].token # 0 => handler[h].token \in Token
    BY <1>4, <1>5
  <2>2. handler[h].kind = "create" => handler[h].token # 0
    BY DEF HandlerInv, RequestInv, Mailing, Sound
  <2>3. letters' = letters /\ lost' \subseteq lost \cup ({handler[h].token} \ {0})
    BY <1>6, <2>2 DEF CountMails, Abandon
  <2>. QED
    BY <1>2, <2>1, <2>3 DEF LetterInv
<1>7. ASSUME NEW l, l.kind \in {"confirm", "change", "arrete"},
             l = [kind |-> l.kind, id |-> l.id, token |-> l.token], Sound(l.id, l.token),
             letters' = letters \cup {l}, lost' = lost
      PROVE  LetterInv'
  <2>1. Sound(l.id, l.token)'
    BY <1>7 DEF Steady, RowsWell, KeepsSound
  <2>2. l.id \in Id /\ l.token \in Token
    BY <1>7, Bounds DEF Sound, CountInv, Id, Token
  <2>3. l \in [kind : {"confirm", "change", "arrete"}, id : Id, token : Token]
    BY <1>7, <2>2
  <2>. QED
    BY <1>2, <1>7, <2>1, <2>3 DEF LetterInv
<1>8. ASSUME NEW h \in Handler, SendFormMail(h) PROVE LetterInv'
  <2>1. Sound(handler[h].id, handler[h].token) /\ handler[h].token # 0
    BY <1>8 DEF HandlerInv, RequestInv, Mailing, SendFormMail, Sound
  <2>2. CASE letters' = letters /\ lost' = lost \cup {handler[h].token}
    BY <1>2, <1>4, <1>5, <2>1, <2>2 DEF LetterInv
  <2>3. PICK l : l = IF handler[h].kind = "change" THEN ChangeLetter(handler[h].id, handler[h].token)
                     ELSE ConfirmLetter(handler[h].id, handler[h].token)
    OBVIOUS
  <2>4. /\ l.kind \in {"confirm", "change", "arrete"}
        /\ l = [kind |-> l.kind, id |-> l.id, token |-> l.token]
        /\ l.id = handler[h].id /\ l.token = handler[h].token
    BY <2>3 DEF ChangeLetter, ConfirmLetter
  <2>5. CASE letters' = letters \cup {l} /\ lost' = lost
    BY <1>7, <2>1, <2>4, <2>5
  <2>. QED
    BY <1>8, <2>2, <2>3, <2>5 DEF SendFormMail
<1>9. CASE SendLetter
  <2>1. PICK l : l = ArreteLetter(monitor.id, monitor.memo[monitor.id])
    OBVIOUS
  <2>2. /\ l.kind \in {"confirm", "change", "arrete"}
        /\ l = [kind |-> l.kind, id |-> l.id, token |-> l.token]
        /\ l.id = monitor.id /\ l.token = monitor.memo[monitor.id]
    BY <2>1 DEF ArreteLetter
  <2>3. monitor.id \in Id
    BY <1>9, Bounds DEF SendLetter, MonitorInv, CountInv, Id
  <2>4. Sound(l.id, l.token)
    BY <1>9, <2>2, <2>3 DEF SendLetter, MonitorInv
  <2>5. lost' = lost /\ (letters' = letters \/ letters' = letters \cup {l})
    BY <1>9, <2>1 DEF SendLetter
  <2>. QED
    BY <1>2, <1>7, <2>2, <2>4, <2>5 DEF LetterInv
<1>. QED
  BY <1>3, <1>6, <1>8, <1>9, TrailMoves

-----------------------------------------------------------------------------
(* The page.                                                               *)

(* The steps that touch it; any other leaves the request it waits for.     *)
LEMMA PageMoves ==
  ASSUME IInv, [Next]_vars
  PROVE  \/ page' = page /\ \A g \in Handler : Applying(handler[g]) => handler'[g] = handler[g]
         \/ \E h \in Handler : UpsertChange(h) \/ PressApply(h) \/ ReadChange(h) \/ CaptureChange(h)
                               \/ Abandon(h)
         \/ \E l \in letters : Open(l)
         \/ ReadStatus \/ Confirm
<1>1. ASSUME NEW h \in Handler,
             \/ \E communes \in Chosen : Subscribe(h, communes)
             \/ ClaimUnconfirmed(h) \/ LookUp(h) \/ Create(h)
             \/ CountMails(h) \/ KeepsToken(h) \/ RotateConfirm(h) \/ RotateChange(h)
             \/ Charge(h) \/ SendFormMail(h)
      PROVE  page' = page /\ \A g \in Handler : Applying(handler[g]) => handler'[g] = handler[g]
  <2>1. page' = page /\ handler[h].pc \notin {"apply", "capture"}
    BY <1>1 DEF Subscribe, FreeSlot, ClaimUnconfirmed, LookUp, Create, CountMails, KeepsToken,
                RotateConfirm, RotateChange, Charge, SendFormMail
  <2>2. \A g \in Handler : g # h => handler'[g] = handler[g]
    BY <1>1 DEF Subscribe, ClaimUnconfirmed, LookUp, Create, CountMails, KeepsToken,
                RotateConfirm, RotateChange, Charge, SendFormMail, Goto, Answer, IInv, HandlerInv
  <2>. QED
    BY <2>1, <2>2 DEF Applying
<1>2. ASSUME \/ \E l \in letters : Unsubscribe(l)
             \/ DeleteExpiredUnconfirmed \/ DeleteExpiredChanges
             \/ ConfirmWindowEnds \/ ChangeWindowEnds \/ DayPasses \/ StartRun \/ EndRun
             \/ Mint \/ SendLetter \/ MarkSent \/ (\E c \in Code : Merge(c))
             \/ \E n \in Arrete : Publish(n) \/ LoadMail(n)
      PROVE  page' = page /\ handler' = handler
  BY <1>2 DEF Unsubscribe, DeleteExpiredUnconfirmed, DeleteExpiredChanges, ConfirmWindowEnds,
              ChangeWindowEnds, DayPasses, StartRun, EndRun, Mint, SendLetter, MarkSent, Merge,
              Publish, LoadMail
<1>. QED
  BY <1>1, <1>2 DEF Next, Form, Monitor, vars

(* What happens to a request to change while nobody reads it: it stays,    *)
(* its link is replaced, or it lapses.                                     *)
LEMMA ChangeMoves ==
  ASSUME IInv, [Next]_vars
  PROVE  \/ change' = change
         \/ change'.token \notin 1 .. fresh - 1
         \/ change'.lapsed
         \/ \E h \in Handler : UpsertChange(h)
<1>. USE DEF IInv
<1>0. /\ DOMAIN change = {"id", "lapsed", "token", "communes"}
      /\ fresh \notin 1 .. fresh - 1 /\ 0 \notin 1 .. fresh - 1
  <2>1. fresh \in Nat
    BY Bounds DEF CountInv
  <2>. QED
    BY <2>1 DEF RowInv
<1>1. ASSUME NEW h \in Handler, CaptureChange(h) \/ RotateChange(h)
      PROVE  change' = change \/ change'.token \notin 1 .. fresh - 1
  BY <1>0, <1>1 DEF CaptureChange, RotateChange, NoChange
<1>2. ASSUME DeleteVeille \/ DeleteExpiredChanges
      PROVE  change' = change \/ change'.token \notin 1 .. fresh - 1
  BY <1>0, <1>2 DEF DeleteVeille, DeleteExpiredChanges, NoChange
<1>3. CASE ChangeWindowEnds
  BY <1>0, <1>3 DEF ChangeWindowEnds
<1>. QED
  BY <1>1, <1>2, <1>3, ChangeIsWritten

LEMMA Widening == \A m, n \in Nat : m <= n => 0 .. m - 1 \subseteq 0 .. n - 1
OBVIOUS

LEMMA FewerLinks == ASSUME IInv, Steady PROVE 0 .. fresh - 1 \subseteq 0 .. fresh' - 1
<1>1. fresh \in Nat /\ fresh' \in Nat /\ fresh <= fresh'
  BY Bounds DEF IInv, CountInv, Steady, RowsWell, KeepsSound
<1>. QED
  BY <1>1, Widening, Zenon

(* A link that opened a page is not a row's default.                       *)
LEMMA OpenedLink ==
  ASSUME IInv, page.kind # None PROVE page.token \in 1 .. fresh - 1 /\ page.token # 0
<1>1. PICK l \in letters : l.token = page.token
  BY DEF IInv, PageInv, OpenedBy
<1>2. page.token \in 1 .. fresh - 1
  BY <1>1 DEF IInv, LetterInv, Sound
<1>. QED
  BY <1>2, Bounds DEF IInv, CountInv

(* The request that answers the page, or another, is over.                 *)
LEMMA Told ==
  ASSUME IInv, Steady, NEW h \in Handler, Answer(h),
         \/ page' = page /\ page.asks # h
         \/ page.asks = h /\ page' = [page EXCEPT !.asks = 0]
         \/ \E status \in {"applied", "invalid"} :
              page.asks = h /\ page' = [page EXCEPT !.asks = 0, !.answer = status]
  PROVE  PageInv'
<1>. USE DEF IInv
<1>1. PageType'
  BY FewerLinks DEF PageInv, PageType
<1>2. page'.kind = page.kind /\ page'.token = page.token
  BY DEF PageInv, PageType
<1>3. page'.kind # None => OpenedBy(page.kind, page.token)'
  BY <1>2 DEF PageInv, OpenedBy, Steady
<1>4. page'.asks # 0 => page' = page /\ page.asks # h /\ page.asks \in Handler
  BY DEF PageInv, PageType
<1>5. page'.asks # 0 => handler'[page.asks] = handler[page.asks]
  BY <1>4 DEF Answer, HandlerInv
<1>. QED
  BY <1>1, <1>2, <1>3, <1>4, <1>5 DEF PageInv, OpenedBy, Applying

LEMMA PageKept == ASSUME IInv, [Next]_vars, Steady PROVE PageInv'
<1>. USE DEF IInv
<1>0. 0 .. fresh - 1 \subseteq 0 .. fresh' - 1
  BY FewerLinks
<1>1. CASE page' = page /\ \A g \in Handler : Applying(handler[g]) => handler'[g] = handler[g]
  <2>1. PageType'
    BY <1>0, <1>1 DEF PageInv, PageType
  <2>2. page.kind # None => OpenedBy(page.kind, page.token)'
    BY <1>1 DEF PageInv, OpenedBy, Steady
  <2>3. page.asks # 0 => handler'[page.asks] = handler[page.asks]
    BY <1>1 DEF PageInv, PageType
  <2>. QED
    BY <1>1, <2>1, <2>2, <2>3 DEF PageInv, OpenedBy, Applying
<1>2. ASSUME NEW h \in Handler, UpsertChange(h) PROVE PageInv'
  <2>1. page' = page \/ page' = [page EXCEPT !.rewritten = TRUE]
    BY <1>2 DEF UpsertChange
  <2>2. PageType'
    BY <1>0, <2>1 DEF PageInv, PageType
  <2>3. page'.kind = page.kind /\ page'.token = page.token /\ page'.asks = page.asks
        /\ page'.answer = page.answer
    BY <2>1 DEF PageInv, PageType
  <2>4. page.kind # None => OpenedBy(page.kind, page.token)'
    BY <2>3 DEF PageInv, OpenedBy, Steady
  <2>5. page.asks # 0 => handler'[page.asks] = handler[page.asks]
    <3>1. handler[h].pc = "upsert" /\ \A g \in Handler : g # h => handler'[g] = handler[g]
      BY <1>2 DEF UpsertChange, Answer, HandlerInv
    <3>. QED
      BY <3>1 DEF PageInv, PageType, Applying
  <2>. QED
    BY <2>2, <2>3, <2>4, <2>5 DEF PageInv, OpenedBy, Applying
<1>3. ASSUME NEW h \in Handler, PressApply(h) PROVE PageInv'
  <2>1. page' = [page EXCEPT !.asks = h] /\ page.kind = "change" /\ page.answer = None
    BY <1>3 DEF PressApply, Verdict, Statuses, PageInv, PageType
  <2>2. PageType'
    BY <1>0, <2>1 DEF PageInv, PageType
  <2>3. OpenedBy(page.kind, page.token)'
    BY <2>1, NoneAssumption DEF PageInv, PageType, OpenedBy, Steady
  <2>4. handler'[h].pc = "apply" /\ handler'[h].token = page.token
    BY <1>3 DEF PressApply, HandlerInv, Idle
  <2>. QED
    BY <2>1, <2>2, <2>3, <2>4 DEF PageInv, PageType, OpenedBy, Applying
<1>4. ASSUME NEW h \in Handler, ReadChange(h) PROVE PageInv'
  <2>1. CASE change.token = handler[h].token
    <3>1. /\ page' = page /\ Applying(handler[h])'
          /\ handler'[h].token = handler[h].token
          /\ \A g \in Handler : g # h => handler'[g] = handler[g]
      BY <1>4, <2>1 DEF ReadChange, HandlerInv, Request, Applying
    <3>2. PageType'
      BY <1>0, <3>1 DEF PageInv, PageType
    <3>3. page.kind # None => OpenedBy(page.kind, page.token)'
      BY <3>1 DEF PageInv, OpenedBy, Steady
    <3>4. page.asks # 0 => page.asks \in Handler
      BY DEF PageInv, PageType
    <3>. QED
      BY <3>1, <3>2, <3>3, <3>4 DEF PageInv, OpenedBy, Applying
  <2>2. CASE change.token # handler[h].token
    BY <1>4, <2>2, Told DEF ReadChange, Tell
  <2>. QED
    BY <2>1, <2>2
<1>5. ASSUME NEW h \in Handler, CaptureChange(h) PROVE PageInv'
  BY <1>5, Told DEF CaptureChange, Tell
<1>6. ASSUME NEW h \in Handler, Abandon(h) PROVE PageInv'
  BY <1>6, Told DEF Abandon
<1>7. ASSUME NEW l \in letters, Open(l) PROVE PageInv'
  <2>1. page' = [NoPage EXCEPT !.kind = l.kind, !.token = l.token] /\ l.kind \in {"confirm", "change"}
    BY <1>7 DEF Open
  <2>2. l.token \in 0 .. fresh' - 1
    BY <1>0, Bounds DEF LetterInv, Sound, CountInv
  <2>3. PageType'
    BY <2>1, <2>2 DEF NoPage, PageType
  <2>4. OpenedBy(l.kind, l.token)'
    BY DEF OpenedBy, Steady
  <2>. QED
    BY <2>1, <2>3, <2>4 DEF NoPage, PageInv, OpenedBy
<1>8. CASE ReadStatus
  <2>1. handler' = handler
    BY <1>8 DEF ReadStatus
  <2>2. /\ page'.kind = page.kind /\ page'.token = page.token /\ page'.asks = page.asks
        /\ page'.answer = page.answer
    BY <1>8 DEF ReadStatus, PageInv, PageType
  <2>3. PageType'
    <3>1. CASE page.kind = "confirm"
      BY <1>0, <1>8, <3>1 DEF ReadStatus, PageInv, PageType, ConfirmationStatus, Statuses
    <3>2. CASE page.kind # "confirm"
      BY <1>0, <1>8, <3>2 DEF ReadStatus, PageInv, PageType, ChangeStatus, Statuses, RowInv
    <3>. QED
      BY <3>1, <3>2
  <2>4. page'.kind # None => OpenedBy(page.kind, page.token)'
    BY <2>2 DEF PageInv, OpenedBy, Steady
  <2>. QED
    BY <2>1, <2>2, <2>3, <2>4 DEF PageInv, OpenedBy, Applying
<1>9. CASE Confirm
  <2>1. handler' = handler /\ page.kind = "confirm" /\ page.asks = 0
    BY <1>9 DEF Confirm, PageInv
  <2>2. page' = page \/ \E a \in {"active", "invalid"} : page' = [page EXCEPT !.answer = a]
    BY <1>9 DEF Confirm
  <2>3. page'.kind = page.kind /\ page'.token = page.token /\ page'.asks = page.asks
    BY <2>2 DEF PageInv, PageType
  <2>4. PageType'
    BY <1>0, <2>2 DEF PageInv, PageType
  <2>5. page'.kind # None => OpenedBy(page.kind, page.token)'
    BY <2>3 DEF PageInv, OpenedBy, Steady
  <2>. QED
    BY <2>1, <2>3, <2>4, <2>5 DEF PageInv, OpenedBy
<1>. QED
  BY <1>1, <1>2, <1>3, <1>4, <1>5, <1>6, <1>7, <1>8, <1>9, PageMoves

(* A request to change that the page has read is decided as it was read.   *)
LEMMA ShownKept == ASSUME IInv, [Next]_vars, Steady PROVE ShownInv'
<1>. USE DEF IInv
<1>. SUFFICES ASSUME page'.kind = "change", Standing'
              PROVE  /\ page'.read = "pending" => page'.shown = change'.communes
                     /\ page'.asks # 0 =>
                          /\ page'.read = "pending"
                          /\ handler'[page'.asks].pc = "capture" =>
                               handler'[page'.asks].communes = change'.communes
  BY DEF ShownInv
<1>0. page.kind = "change" => page.token \in 1 .. fresh - 1 /\ page.token # 0
  BY OpenedLink, NoneAssumption
<1>1. CASE page' = page /\ \A g \in Handler : Applying(handler[g]) => handler'[g] = handler[g]
  <2>1. page.kind = "change" /\ ~ page.rewritten /\ change'.token = page.token /\ ~ change'.lapsed
    BY <1>1 DEF Standing
  <2>2. ASSUME NEW h \in Handler, UpsertChange(h) PROVE UNCHANGED change
    BY <1>1, <2>1, <2>2 DEF UpsertChange, PageInv, PageType
  <2>3. change' = change
    BY <1>0, <2>1, <2>2, ChangeMoves
  <2>4. Standing
    BY <2>1, <2>3 DEF Standing
  <2>5. page.asks # 0 => handler'[page.asks] = handler[page.asks]
    BY <1>1 DEF PageInv, PageType
  <2>. QED
    BY <1>1, <2>1, <2>3, <2>4, <2>5 DEF ShownInv
<1>2. ASSUME NEW h \in Handler, UpsertChange(h)
      PROVE  UNCHANGED <<change, page>> /\ Answer(h) /\ handler[h].pc = "upsert"
  BY <1>2 DEF UpsertChange, Standing, PageInv, PageType
<1>3. ASSUME NEW h \in Handler, UpsertChange(h)
      PROVE  page' = page /\ \A g \in Handler : Applying(handler[g]) => handler'[g] = handler[g]
  BY <1>2, <1>3 DEF Answer, Applying, HandlerInv
<1>4. ASSUME NEW h \in Handler, PressApply(h) PROVE ShownInv'
  <2>1. /\ page' = [page EXCEPT !.asks = h] /\ page.kind = "change" /\ page.read = "pending"
        /\ change' = change
    BY <1>4, NoneAssumption DEF PressApply, Verdict, Statuses, PageInv, PageType, rows
  <2>2. handler'[h].pc = "apply"
    BY <1>4 DEF PressApply, HandlerInv, Idle
  <2>3. /\ page'.kind = page.kind /\ page'.token = page.token /\ page'.asks = h
        /\ page'.read = page.read /\ page'.shown = page.shown /\ page'.rewritten = page.rewritten
    BY <2>1 DEF PageInv, PageType
  <2>. QED
    BY <2>1, <2>2, <2>3 DEF ShownInv, Standing
<1>5. ASSUME NEW h \in Handler, ReadChange(h) PROVE ShownInv'
  <2>0. change' = change
    BY <1>5 DEF ReadChange, rows
  <2>1. CASE change.token = handler[h].token
    <3>1. /\ page' = page /\ handler'[h].communes = change.communes
          /\ \A g \in Handler : g # h => handler'[g] = handler[g]
      BY <1>5, <2>1 DEF ReadChange, HandlerInv, Request
    <3>2. page.asks # 0 => page.asks \in Handler
      BY DEF PageInv, PageType
    <3>. QED
      BY <2>0, <3>1, <3>2 DEF ShownInv, Standing
  <2>2. CASE change.token # handler[h].token
    <3>1. Answer(h) /\ Tell(h, "invalid")
      BY <1>5, <2>2 DEF ReadChange
    <3>2. CASE page.asks = h
      <4>1. /\ page'.kind = page.kind /\ page'.token = page.token /\ page'.asks = 0
            /\ page'.read = page.read /\ page'.shown = page.shown
            /\ page'.rewritten = page.rewritten
        BY <3>1, <3>2 DEF Tell, PageInv, PageType
      <4>. QED
        BY <2>0, <4>1 DEF ShownInv, Standing
    <3>3. CASE page.asks # h
      <4>1. page' = page /\ (page.asks # 0 => handler'[page.asks] = handler[page.asks])
        BY <3>1, <3>3 DEF Answer, Tell, HandlerInv, PageInv, PageType
      <4>. QED
        BY <2>0, <4>1 DEF ShownInv, Standing
    <3>. QED
      BY <3>2, <3>3
  <2>. QED
    BY <2>1, <2>2
<1>6. ASSUME NEW h \in Handler, CaptureChange(h) \/ Abandon(h) PROVE ShownInv'
  <2>1. page'.kind = page.kind /\ page'.token = page.token /\ page'.read = page.read
        /\ page'.shown = page.shown /\ page'.rewritten = page.rewritten
    BY <1>6 DEF CaptureChange, Abandon, Tell, PageInv, PageType
  <2>2. change' = change
    <3>1. ASSUME NEW g \in Handler, UpsertChange(g) PROVE change' = change
      BY <1>2, <3>1
    <3>. QED
      BY <1>0, <2>1, <3>1, ChangeMoves DEF Standing
  <2>3. page'.asks # 0 => page'.asks = page.asks /\ handler'[page.asks] = handler[page.asks]
    BY <1>6 DEF CaptureChange, Abandon, Tell, Answer, HandlerInv, PageInv, PageType
  <2>. QED
    BY <2>1, <2>2, <2>3 DEF ShownInv, Standing
<1>7. ASSUME NEW l \in letters, Open(l) PROVE ShownInv'
  BY <1>7 DEF Open, NoPage, ShownInv
<1>8. CASE ReadStatus
  <2>1. change' = change /\ handler' = handler
    BY <1>8 DEF ReadStatus, rows
  <2>2. page'.kind = page.kind /\ page'.token = page.token /\ page'.asks = page.asks
    BY <1>8 DEF ReadStatus, PageInv, PageType
  <2>3. /\ page'.read = ChangeStatus(page.token)
        /\ page'.rewritten = (page.rewritten /\ page.asks # 0)
        /\ page'.shown = IF ChangeStatus(page.token) = "pending" THEN change.communes ELSE {}
    BY <1>8, <2>2 DEF ReadStatus, PageInv, PageType
  <2>4. ChangeStatus(page.token) = "pending"
    BY <2>1, <2>2 DEF ChangeStatus, Standing
  <2>5. page.asks # 0 => ~ page.rewritten
    BY <2>3 DEF Standing
  <2>. QED
    BY <2>1, <2>2, <2>3, <2>4, <2>5 DEF ShownInv, Standing
<1>9. CASE Confirm
  BY <1>9 DEF Confirm, PageInv, PageType
<1>. QED
  BY <1>1, <1>3, <1>4, <1>5, <1>6, <1>7, <1>8, <1>9, PageMoves DEF ShownInv

-----------------------------------------------------------------------------
(* The monitor's run, and the links nobody lost.                           *)
LEMMA MonitorKept == ASSUME IInv, [Next]_vars, Steady PROVE MonitorInv'
<1>. USE DEF IInv
<1>0. 0 .. fresh - 1 \subseteq 0 .. fresh' - 1
  BY FewerLinks
<1>1. monitor.id \in 0 .. ids' /\ monitor.memo \in [Id -> 0 .. fresh' - 1]
  <2>1. monitor.memo \in [Id -> 0 .. fresh - 1]
    BY DEF MonitorInv
  <2>2. monitor.memo \in [Id -> 0 .. fresh' - 1]
    BY <1>0, <2>1, Zenon
  <2>. QED
    BY <2>2, Bounds DEF MonitorInv, Steady, RowsWell, KeepsSound, CountInv
<1>2. ASSUME NEW id \in Id, NEW t, t = monitor.memo[id], t # 0 PROVE Sound(id, t)'
  BY <1>2 DEF MonitorInv, Steady, RowsWell, KeepsSound
<1>3. ASSUME monitor'.memo = monitor.memo,
             monitor'.pc \in {"idle", "on", "mint", "send", "mark"},
             monitor' = [pc |-> monitor'.pc, arrete |-> monitor'.arrete, id |-> monitor'.id,
                         codes |-> monitor'.codes, memo |-> monitor'.memo],
             monitor'.arrete \in Arrete \cup {None}, monitor'.id \in 0 .. ids',
             monitor'.codes \subseteq Code,
             monitor'.pc \notin {"idle", "on"} => monitor'.id # 0 /\ monitor'.arrete \in Arrete,
             monitor'.pc = "send" => monitor'.memo[monitor'.id] # 0
      PROVE  MonitorInv'
  <2>1. \A id \in Id : \A t : t = monitor'.memo[id] /\ t # 0 => Sound(id, t)'
    BY <1>2, <1>3
  <2>2. monitor' \in [pc : {"idle", "on", "mint", "send", "mark"}, arrete : Arrete \cup {None},
                      id : 0 .. ids', codes : SUBSET Code, memo : [Id -> 0 .. fresh' - 1]]
    BY <1>1, <1>3
  <2>. QED
    BY <1>3, <2>1, <2>2 DEF MonitorInv
<1>4. CASE UNCHANGED monitor
  BY <1>1, <1>3, <1>4 DEF MonitorInv
<1>5. CASE monitor' = [Asleep EXCEPT !.pc = "on"] \/ monitor' = Asleep
  <2>1. /\ monitor'.pc \in {"idle", "on"} /\ monitor'.arrete = None /\ monitor'.id = 0
        /\ monitor'.codes = {} /\ monitor'.memo = [i \in Id |-> 0]
        /\ monitor' = [pc |-> monitor'.pc, arrete |-> monitor'.arrete, id |-> monitor'.id,
                       codes |-> monitor'.codes, memo |-> monitor'.memo]
    BY <1>5 DEF Asleep
  <2>2. monitor'.memo \in [Id -> 0 .. fresh' - 1]
    BY <2>1, Zeros
  <2>3. monitor' \in [pc : {"idle", "on", "mint", "send", "mark"}, arrete : Arrete \cup {None},
                      id : 0 .. ids', codes : SUBSET Code, memo : [Id -> 0 .. fresh' - 1]]
    BY <2>1, <2>2, Zeros
  <2>. QED
    BY <2>1, <2>3 DEF MonitorInv
<1>6. ASSUME NEW n \in Arrete, LoadMail(n) PROVE MonitorInv'
  <2>1. PICK codes \in SUBSET Watched(n) :
          monitor' = [monitor EXCEPT !.pc = "mint", !.arrete = n, !.id = veille.id, !.codes = codes]
    BY <1>6 DEF LoadMail
  <2>2. codes \subseteq Code
    BY ArreteAssumption DEF Watched
  <2>3. veille.id # 0 /\ veille.id \in 0 .. ids'
    <3>1. notice[n] # "none"
      BY <1>6 DEF LoadMail
    <3>2. veille.id # 0
      BY <3>1 DEF RowInv
    <3>. QED
      BY <3>2, Bounds DEF RowInv, Steady, RowsWell, KeepsSound, CountInv
  <2>. QED
    BY <1>3, <2>1, <2>2, <2>3 DEF MonitorInv
<1>7. CASE SendLetter \/ MarkSent
  <2>1. monitor' = [monitor EXCEPT !.pc = "on"]
        \/ (monitor.pc = "send" /\ monitor' = [monitor EXCEPT !.pc = "mark"])
    BY <1>7 DEF SendLetter, MarkSent
  <2>. QED
    BY <1>1, <1>3, <2>1 DEF MonitorInv
<1>8. CASE Mint /\ monitor'.memo = monitor.memo
  <2>1. monitor.id \in Id
    BY <1>8, Bounds DEF Mint, MonitorInv, CountInv, Id
  <2>2. \/ monitor' = [monitor EXCEPT !.pc = "on"]
        \/ monitor' = [monitor EXCEPT !.pc = "mark"]
        \/ monitor.memo[monitor.id] # 0 /\ monitor' = [monitor EXCEPT !.pc = "send"]
        \/ fresh \in Nat \ {0} /\ monitor' = [monitor EXCEPT !.pc = "send", !.memo[monitor.id] = fresh]
    BY <1>8, Bounds DEF Mint, CountInv
  <2>3. CASE fresh \in Nat \ {0} /\ monitor' = [monitor EXCEPT !.pc = "send", !.memo[monitor.id] = fresh]
    <3>1. monitor'.memo[monitor.id] = fresh
      BY <2>1, <2>3 DEF MonitorInv
    <3>. QED
      BY <1>1, <1>3, <1>8, <2>3, <3>1 DEF MonitorInv, Mint
  <2>. QED
    BY <1>1, <1>3, <1>8, <2>2, <2>3 DEF MonitorInv, Mint
<1>9. CASE Mint /\ monitor'.memo # monitor.memo
  <2>1. PICK m, t : m = monitor.id /\ t = fresh
    OBVIOUS
  <2>2. /\ veille.id = m /\ t <= MaxToken /\ fresh' = t + 1 /\ Minted(fresh, veille.id)
        /\ monitor' = [monitor EXCEPT !.pc = "send", !.memo[m] = t]
        /\ UNCHANGED <<veille, change, notice, ids>> /\ m # 0 /\ monitor.arrete \in Arrete
    BY <1>9, <2>1 DEF Mint, MonitorInv
  <2>3. m \in Id /\ t \in Nat \ {0}
    BY <2>1, <2>2, Bounds DEF MonitorInv, CountInv, Id
  <2>4. Sound(m, t)'
    BY <2>1, <2>2, Minting
  <2>5. t \in 0 .. fresh' - 1
    <3>1. t + 1 - 1 = t
      BY <2>3
    <3>. QED
      BY <2>2, <2>3, <3>1
  <2>6. /\ monitor'.memo = [monitor.memo EXCEPT ![m] = t] /\ monitor'.pc = "send"
        /\ monitor'.id = m /\ monitor'.arrete = monitor.arrete /\ monitor'.codes = monitor.codes
        /\ monitor' = [pc |-> monitor'.pc, arrete |-> monitor'.arrete, id |-> monitor'.id,
                       codes |-> monitor'.codes, memo |-> monitor'.memo]
    BY <2>1, <2>2, <2>3 DEF MonitorInv
  <2>7. monitor'.memo \in [Id -> 0 .. fresh' - 1] /\ monitor'.memo[m] = t
    BY <1>1, <2>3, <2>5, <2>6, Zenon
  <2>8. \A id \in Id : \A u : u = monitor'.memo[id] /\ u # 0 => Sound(id, u)'
    <3>1. ASSUME NEW id \in Id, id # m PROVE monitor'.memo[id] = monitor.memo[id]
      BY <2>3, <2>6, <3>1 DEF MonitorInv
    <3>. QED
      BY <1>2, <2>4, <2>7, <3>1
  <2>9. monitor' \in [pc : {"idle", "on", "mint", "send", "mark"}, arrete : Arrete \cup {None},
                      id : 0 .. ids', codes : SUBSET Code, memo : [Id -> 0 .. fresh' - 1]]
    BY <1>1, <2>1, <2>2, <2>6, <2>7 DEF MonitorInv
  <2>. QED
    BY <2>2, <2>3, <2>6, <2>7, <2>8, <2>9 DEF MonitorInv
<1>10. ASSUME NEW h \in Handler,
              \/ \E communes \in Chosen : Subscribe(h, communes)
              \/ Form(h) \/ PressApply(h) \/ ReadChange(h) \/ CaptureChange(h) \/ Abandon(h)
       PROVE  UNCHANGED monitor
  BY <1>10 DEF Subscribe, Form, ClaimUnconfirmed, LookUp, Create, UpsertChange, CountMails,
               KeepsToken, RotateConfirm, RotateChange, Charge, SendFormMail, PressApply,
               ReadChange, CaptureChange, Abandon
<1>11. ASSUME \/ \E l \in letters : Open(l) \/ Unsubscribe(l)
              \/ ReadStatus \/ Confirm \/ DeleteExpiredUnconfirmed \/ DeleteExpiredChanges
              \/ ConfirmWindowEnds \/ ChangeWindowEnds \/ DayPasses
              \/ (\E c \in Code : Merge(c)) \/ \E n \in Arrete : Publish(n)
       PROVE  UNCHANGED monitor
  BY <1>11 DEF Open, Unsubscribe, ReadStatus, Confirm, DeleteExpiredUnconfirmed,
               DeleteExpiredChanges, ConfirmWindowEnds, ChangeWindowEnds, DayPasses, Merge, Publish
<1>. QED
  BY <1>4, <1>5, <1>6, <1>7, <1>8, <1>9, <1>10, <1>11 DEF Next, Monitor, StartRun, EndRun, vars

(* A link that may still be needed is not dropped on the way.              *)
LEMMA HandKept ==
  ASSUME IInv, [Next]_vars, NEW t, t \in InHand, t # 0
  PROVE  (t \in InHand)'
<1>. USE DEF IInv
<1>0. letters \subseteq letters' /\ lost \subseteq lost'
  BY Kept
<1>1. CASE t \in lost \cup {l.token : l \in letters}
  BY <1>0, <1>1 DEF InHand
<1>2. ASSUME NEW h \in Handler, t = handler[h].token PROVE (t \in InHand)'
  <2>1. CASE handler'[h].token = t
    BY <2>1 DEF InHand
  <2>2. CASE t \in lost' \/ \E l \in letters' : l.token = t
    BY <2>2 DEF InHand
  <2>3. CASE Applying(handler[h])
    <3>1. OpenedBy("change", t)
      BY <1>2, <2>3 DEF HandlerInv, RequestInv
    <3>. QED
      BY <1>0, <2>2, <3>1 DEF OpenedBy
  <2>4. CASE Mailing(handler[h])
    <3>1. handler[h].pc \in {"count", "compose", "charge", "send"}
      BY <2>4, NoneAssumption DEF HandlerInv, Request, RequestInv, Mailing, Applying, Pcs
    <3>2. ASSUME NEW g \in Handler, g # h,
                 \/ \E communes \in Chosen : Subscribe(g, communes)
                 \/ Form(g) \/ PressApply(g) \/ ReadChange(g) \/ CaptureChange(g) \/ Abandon(g)
          PROVE  handler'[h] = handler[h]
      BY <3>2 DEF Subscribe, Form, ClaimUnconfirmed, LookUp, Create, UpsertChange, CountMails,
                  KeepsToken, RotateConfirm, RotateChange, Charge, SendFormMail, PressApply,
                  ReadChange, CaptureChange, Abandon, Goto, Answer, HandlerInv
    <3>3. ASSUME CountMails(h) \/ KeepsToken(h) \/ Charge(h) \/ SendFormMail(h) \/ Abandon(h)
          PROVE  (t \in InHand)'
      <4>1. CASE \E pc : Goto(h, pc)
        BY <1>2, <2>1, <4>1 DEF Goto, HandlerInv, Request
      <4>2. CASE CountMails(h)
        <5>1. handler[h].kind = "create"
          BY <2>4, <4>2 DEF CountMails, Mailing
        <5>. QED
          BY <1>2, <2>2, <4>1, <4>2, <5>1 DEF CountMails
      <4>3. CASE SendFormMail(h)
        <5>1. \/ t \in lost'
              \/ ChangeLetter(handler[h].id, t) \in letters'
              \/ ConfirmLetter(handler[h].id, t) \in letters'
          BY <1>2, <4>3 DEF SendFormMail
        <5>. QED
          BY <2>2, <5>1 DEF ChangeLetter, ConfirmLetter
      <4>4. CASE Abandon(h)
        BY <1>2, <2>2, <3>1, <4>4 DEF Abandon
      <4>. QED
        BY <3>3, <4>1, <4>2, <4>3, <4>4 DEF KeepsToken, Charge
    <3>4. ASSUME RotateConfirm(h) \/ RotateChange(h) PROVE FALSE
      BY <1>2, <2>4, <3>4, NoneAssumption
      DEF RotateConfirm, RotateChange, HandlerInv, RequestInv, Mailing
    <3>5. ~ ClaimUnconfirmed(h) /\ ~ LookUp(h) /\ ~ Create(h) /\ ~ UpsertChange(h)
          /\ ~ PressApply(h) /\ ~ ReadChange(h) /\ ~ CaptureChange(h)
          /\ \A communes \in Chosen : ~ Subscribe(h, communes)
      BY <3>1 DEF ClaimUnconfirmed, LookUp, Create, UpsertChange, PressApply, ReadChange,
                  CaptureChange, Subscribe, FreeSlot
    <3>6. CASE UNCHANGED handler
      BY <1>2, <2>1, <3>6
    <3>7. ASSUME \/ \E l \in letters : Open(l) \/ Unsubscribe(l)
                 \/ ReadStatus \/ Confirm
                 \/ DeleteExpiredUnconfirmed \/ DeleteExpiredChanges
                 \/ ConfirmWindowEnds \/ ChangeWindowEnds \/ DayPasses
                 \/ \E c \in Code : Merge(c)
                 \/ Monitor
          PROVE  UNCHANGED handler
      BY <3>7 DEF Open, Unsubscribe, ReadStatus, Confirm, DeleteExpiredUnconfirmed,
                  DeleteExpiredChanges, ConfirmWindowEnds, ChangeWindowEnds, DayPasses, Merge,
                  Monitor, StartRun, EndRun, Mint, SendLetter, MarkSent, Publish, LoadMail
    <3>8. CASE handler'[h] = handler[h]
      BY <1>2, <2>1, <3>8
    <3>. QED
      BY <3>2, <3>3, <3>4, <3>5, <3>6, <3>7, <3>8 DEF Next, Form, vars
  <2>. QED
    BY <1>2, <2>3, <2>4 DEF HandlerInv, RequestInv
<1>. QED
  BY <1>1, <1>2 DEF InHand

SameLink(row) == row.id = veille.id /\ row.token = veille.token

(* The links the rows answer to change with the letter that is composed.   *)
LEMMA StoredKept == ASSUME IInv, [Next]_vars, Steady PROVE StoredLinkIsMailed'
<1>. USE DEF IInv
<1>1. ASSUME veille'.id # 0, ~ veille'.confirmed, veille'.token # veille.token \/ veille'.id # veille.id
      PROVE  \E h \in Handler : handler'[h].token = veille'.token
  <2>1. ASSUME NEW h \in Handler, Create(h) \/ RotateConfirm(h) PROVE handler'[h].token = veille'.token
    BY <1>1, <2>1 DEF Create, RotateConfirm, HandlerInv, Request, RowInv, NoVeille
  <2>2. ASSUME DeleteVeille PROVE FALSE
    BY <1>1, <2>2 DEF DeleteVeille, NoVeille
  <2>3. ASSUME \/ \E h \in Handler : ClaimUnconfirmed(h) \/ CaptureChange(h)
               \/ Confirm \/ ConfirmWindowEnds
        PROVE  FALSE
    <3>1. veille'.id = veille.id /\ veille'.token = veille.token
      <4>2. CASE \E h \in Handler : ClaimUnconfirmed(h)
        <5>1. PICK h \in Handler : ClaimUnconfirmed(h)
          BY <4>2
        <5>2. SameLink([veille EXCEPT !.lapsed = FALSE, !.communes = handler[h].communes])
          BY DEF RowInv, SameLink
        <5>. QED
          BY <5>1, <5>2 DEF ClaimUnconfirmed, SameLink
      <4>3. CASE \E h \in Handler : CaptureChange(h)
        <5>1. PICK h \in Handler : CaptureChange(h)
          BY <4>3
        <5>2. SameLink([veille EXCEPT !.communes = handler[h].communes])
          BY DEF RowInv, SameLink
        <5>. QED
          BY <5>1, <5>2 DEF CaptureChange, SameLink
      <4>4. CASE Confirm
        <5>1. \A yes : SameLink([veille EXCEPT !.confirmed = yes])
          BY DEF RowInv, SameLink
        <5>. QED
          BY <4>4, <5>1 DEF Confirm, SameLink
      <4>5. CASE ConfirmWindowEnds
        <5>1. SameLink([veille EXCEPT !.lapsed = TRUE])
          BY DEF RowInv, SameLink
        <5>. QED
          BY <4>5, <5>1 DEF ConfirmWindowEnds, SameLink
      <4>. QED
        BY <2>3, <4>2, <4>3, <4>4, <4>5
    <3>. QED
      BY <1>1, <3>1
  <2>4. ASSUME \/ \E l \in letters : Open(l)
               \/ ReadStatus \/ DeleteExpiredChanges
               \/ ChangeWindowEnds \/ DayPasses \/ StartRun \/ EndRun \/ Mint \/ SendLetter
               \/ MarkSent \/ (\E c \in Code : Merge(c))
               \/ \E n \in Arrete : Publish(n) \/ LoadMail(n)
        PROVE  UNCHANGED veille
    BY <2>4 DEF Open, ReadStatus, DeleteExpiredChanges, ChangeWindowEnds, DayPasses, StartRun,
       EndRun, Mint, SendLetter, MarkSent, Merge, Publish, LoadMail, rows
  <2>. QED
    BY <1>1, <2>1, <2>2, <2>3, VeilleMoves
<1>2. ASSUME change'.token # 0, change'.token # change.token
      PROVE  \E h \in Handler : handler'[h].token = change'.token
  <2>1. ASSUME NEW h \in Handler, RotateChange(h) PROVE handler'[h].token = change'.token
    BY <1>2, <2>1 DEF RotateChange, HandlerInv, Request, RowInv
  <2>2. ASSUME DeleteVeille PROVE FALSE
    BY <1>2, <2>2 DEF DeleteVeille, NoChange
  <2>3. ASSUME \/ \E h \in Handler : UpsertChange(h) \/ CaptureChange(h)
               \/ DeleteExpiredChanges \/ ChangeWindowEnds
        PROVE  FALSE
    <3>1. ASSUME NEW h \in Handler, UpsertChange(h) PROVE change'.token \in {0, change.token}
      <4>1. \/ change' = change
            \/ change' = [change EXCEPT !.communes = handler[h].communes, !.lapsed = FALSE]
            \/ change' = [NoChange EXCEPT !.id = handler[h].id, !.communes = handler[h].communes]
        BY <3>1 DEF UpsertChange
      <4>. QED
        BY <4>1 DEF RowInv, NoChange
    <3>2. ASSUME \/ \E h \in Handler : CaptureChange(h)
                 \/ DeleteExpiredChanges \/ ChangeWindowEnds
          PROVE  change'.token \in {0, change.token}
      BY <3>2 DEF CaptureChange, DeleteExpiredChanges, ChangeWindowEnds, RowInv, NoChange
    <3>. QED
      BY <1>2, <2>3, <3>1, <3>2
  <2>4. ASSUME \/ \E l \in letters : Open(l)
               \/ ReadStatus \/ Confirm \/ ConfirmWindowEnds \/ DayPasses \/ StartRun \/ EndRun \/ Mint \/ SendLetter
               \/ MarkSent \/ (\E c \in Code : Merge(c))
               \/ \E n \in Arrete : Publish(n) \/ LoadMail(n)
        PROVE  UNCHANGED change
    BY <2>4 DEF Open, ReadStatus, Confirm, ConfirmWindowEnds, DayPasses, StartRun, EndRun, Mint,
       SendLetter, MarkSent, Merge, Publish, LoadMail, rows
  <2>. QED
    BY <1>2, <2>1, <2>2, <2>3, ChangeIsWritten
<1>3. ASSUME veille'.id # 0, ~ veille'.confirmed PROVE veille'.token \in InHand'
  <2>1. CASE veille'.token = veille.token /\ veille'.id = veille.id
    <3>1. PICK t : t = veille.token
      OBVIOUS
    <3>2. ~ veille.confirmed
      BY <1>3, <2>1, Bounds DEF Steady, KeepsConfirmed, RowInv, CountInv
    <3>3. t # 0 /\ t \in InHand
      BY <1>3, <2>1, <3>1, <3>2 DEF StoredLinkIsMailed, ActiveInv
    <3>. QED
      BY <2>1, <3>1, <3>3, HandKept
  <2>2. CASE ~ (veille'.token = veille.token /\ veille'.id = veille.id)
    BY <1>1, <1>3, <2>2 DEF InHand
  <2>. QED
    BY <2>1, <2>2
<1>4. ASSUME change'.token # 0 PROVE change'.token \in InHand'
  <2>1. CASE change'.token = change.token
    <3>1. PICK t : t = change.token
      OBVIOUS
    <3>. QED
      BY <1>4, <2>1, <3>1, HandKept DEF StoredLinkIsMailed
  <2>2. CASE change'.token # change.token
    BY <1>2, <1>4, <2>2 DEF InHand
  <2>. QED
    BY <2>1, <2>2
<1>. QED
  BY <1>3, <1>4 DEF StoredLinkIsMailed

-----------------------------------------------------------------------------
(* The results.                                                            *)
LEMMA NextKeepsIInv == IInv /\ [Next]_vars => IInv'
<1>. SUFFICES ASSUME IInv, [Next]_vars PROVE IInv'
  OBVIOUS
<1>1. Steady
  BY RowStep, Kept DEF Steady
<1>2. CountInv' /\ RowInv' /\ ActiveInv'
  BY RowStep DEF RowsWell
<1>3. LetterInv' /\ HandlerInv' /\ PageInv' /\ ShownInv'
  BY <1>1, LetterKept, HandlerKept, PageKept, ShownKept
<1>4. MonitorInv' /\ StoredLinkIsMailed'
  BY <1>1, MonitorKept, StoredKept
<1>. QED
  BY <1>2, <1>3, <1>4 DEF IInv

(* Whatever the forms, the pages, the monitor, the clock and the crashes   *)
(* do, holders and rows agree.                                             *)
THEOREM VeilleInvariant == Spec => []IInv
<1>. QED
  BY InitIInv, NextKeepsIInv, PTL DEF Spec

(* Every letter delivered for the subscription an address holds still ends *)
(* it.                                                                     *)
THEOREM LettersCanEndIt == Spec => []EveryLetterCanEndIt
<1>1. IInv => EveryLetterCanEndIt
  BY DEF IInv, LetterInv, Sound, EveryLetterCanEndIt
<1>. QED
  BY <1>1, VeilleInvariant, PTL

(* The links of the rows are mailed, on their way, or lost with a letter.  *)
THEOREM LinksAreMailed == Spec => []StoredLinkIsMailed
<1>1. IInv => StoredLinkIsMailed
  BY DEF IInv
<1>. QED
  BY <1>1, VeilleInvariant, PTL

(* The row an address holds is never replaced by another of the same id.   *)
LEMMA Recreated ==
  ASSUME IInv, veille'.id = veille.id, (\E h \in Handler : Create(h)) \/ DeleteVeille
  PROVE  veille' = veille
<1>. USE DEF IInv
<1>1. ASSUME NEW h \in Handler, Create(h) PROVE veille' = veille
  <2>1. CASE veille.id # 0
    BY <1>1, <2>1 DEF Create
  <2>2. CASE veille.id = 0
    <3>1. veille'.id = ids + 1
      BY <1>1, <2>2 DEF Create, NoVeille
    <3>. QED
      BY <2>2, <3>1, Bounds DEF CountInv
  <2>. QED
    BY <2>1, <2>2
<1>2. CASE DeleteVeille
  BY <1>2 DEF DeleteVeille, NoVeille, RowInv
<1>. QED
  BY <1>1, <1>2

(* A form alone decides nothing: a subscription becomes active, and an     *)
(* active one changes, only by the link of a letter made for it.           *)
LEMMA ConfirmedByLink ==
  ASSUME IInv, [Next]_vars, veille'.id = veille.id, ~ veille.confirmed, veille'.confirmed
  PROVE  ConfirmLetter(veille.id, veille.token) \in letters
<1>. USE DEF IInv
<1>1. ASSUME \/ \E h \in Handler : ClaimUnconfirmed(h) \/ RotateConfirm(h) \/ CaptureChange(h)
             \/ ConfirmWindowEnds
      PROVE  veille'.confirmed = veille.confirmed
  BY <1>1 DEF ClaimUnconfirmed, RotateConfirm, CaptureChange, ConfirmWindowEnds, RowInv
<1>2. ASSUME (\E h \in Handler : Create(h)) \/ DeleteVeille PROVE veille' = veille
  BY <1>2, Recreated
<1>3. CASE Confirm
  <2>1. page.kind = "confirm" /\ ConfirmationStatus(page.token) = "pending"
    BY <1>3 DEF Confirm, RowInv
  <2>2. veille.token = page.token
    BY <2>1 DEF ConfirmationStatus
  <2>3. PICK l \in letters : l.kind = "confirm" /\ l.token = veille.token
    BY <2>1, <2>2, NoneAssumption DEF PageInv, OpenedBy
  <2>4. l.id = veille.id /\ l = [kind |-> l.kind, id |-> l.id, token |-> l.token]
    BY <2>3 DEF LetterInv, Sound
  <2>. QED
    BY <2>3, <2>4 DEF ConfirmLetter
<1>. QED
  BY <1>1, <1>2, <1>3, VeilleMoves

LEMMA ChangedByLink ==
  ASSUME IInv, [Next]_vars, veille'.id = veille.id, veille.confirmed,
         veille'.communes # veille.communes
  PROVE  \E h \in Handler : ChangeLetter(veille.id, handler[h].token) \in letters
<1>. USE DEF IInv
<1>1. ASSUME \/ \E h \in Handler : ClaimUnconfirmed(h) \/ RotateConfirm(h)
             \/ Confirm \/ ConfirmWindowEnds
      PROVE  veille'.communes = veille.communes
  BY <1>1 DEF ClaimUnconfirmed, RotateConfirm, Confirm, ConfirmWindowEnds, RowInv
<1>2. ASSUME (\E h \in Handler : Create(h)) \/ DeleteVeille PROVE veille' = veille
  BY <1>2, Recreated
<1>3. ASSUME NEW h \in Handler, CaptureChange(h)
      PROVE  ChangeLetter(veille.id, handler[h].token) \in letters
  <2>1. change.token = handler[h].token /\ handler[h].pc = "capture"
    BY <1>3 DEF CaptureChange
  <2>2. PICK l \in letters : l.kind = "change" /\ l.token = handler[h].token
    BY <2>1 DEF HandlerInv, RequestInv, Applying, OpenedBy
  <2>3. l.id = veille.id /\ l = [kind |-> l.kind, id |-> l.id, token |-> l.token]
    BY <2>1, <2>2 DEF LetterInv, Sound
  <2>. QED
    BY <2>2, <2>3 DEF ChangeLetter
<1>. QED
  BY <1>1, <1>2, <1>3, VeilleMoves

THEOREM LinksDecide == Spec => OnlyLinksDecide
<1>1. IInv /\ [Next]_vars =>
        (veille'.id = veille.id =>
           /\ (~ veille.confirmed /\ veille'.confirmed)
                => ConfirmLetter(veille.id, veille.token) \in letters
           /\ (veille.confirmed /\ veille'.communes # veille.communes)
                => \E h \in Handler : ChangeLetter(veille.id, handler[h].token) \in letters)
  BY ConfirmedByLink, ChangedByLink
<1>. QED
  BY <1>1, VeilleInvariant, PTL DEF Spec, OnlyLinksDecide

(* The page applies what it shows, unless a form rewrote the request.      *)
LEMMA AppliedWasShown ==
  ASSUME IInv, [Next]_vars, NEW h \in Handler, page.asks = h, page'.answer = "applied",
         ~ page.rewritten
  PROVE  veille'.communes = page.shown
<1>. USE DEF IInv
<1>1. /\ page.asks # 0 /\ page.kind = "change" /\ page.answer = None
      /\ Applying(handler[h]) /\ handler[h].token = page.token
  BY Bounds DEF PageInv
<1>2. page' # page
  BY <1>1, NoneAssumption
<1>3. ASSUME \/ \E g \in Handler : UpsertChange(g) \/ PressApply(g) \/ Abandon(g)
             \/ ReadStatus \/ \E l \in letters : Open(l)
      PROVE  page'.answer = None
  BY <1>1, <1>3 DEF UpsertChange, PressApply, Abandon, ReadStatus, Open, NoPage, PageInv, PageType
<1>4. ASSUME NEW g \in Handler, ReadChange(g) PROVE page'.answer \in {None, "invalid"}
  BY <1>1, <1>4 DEF ReadChange, Tell, PageInv, PageType
<1>5. ~ Confirm
  BY <1>1 DEF Confirm
<1>6. ASSUME NEW g \in Handler, CaptureChange(g) PROVE veille'.communes = page.shown
  <2>1. g = h
    BY <1>2, <1>6 DEF CaptureChange, Tell
  <2>2. change.token = handler[h].token /\ ~ change.lapsed /\ handler[h].pc = "capture"
    <3>1. CASE ~ (change.token = handler[h].token /\ ~ change.lapsed)
      BY <1>6, <2>1, <3>1 DEF CaptureChange, Tell, PageInv, PageType
    <3>. QED
      BY <1>6, <2>1, <3>1 DEF CaptureChange
  <2>3. veille' = [veille EXCEPT !.communes = handler[h].communes]
    BY <1>6, <2>1, <2>2 DEF CaptureChange
  <2>4. veille'.communes = handler[h].communes
    BY <2>3 DEF RowInv
  <2>. QED
    BY <1>1, <2>2, <2>4 DEF ShownInv, Standing
<1>. QED
  BY <1>2, <1>3, <1>4, <1>5, <1>6, PageMoves, NoneAssumption

THEOREM ShownIsApplied == Spec => AppliedAsShown
<1>1. IInv /\ [Next]_vars =>
        \A h \in Handler :
          (page.asks = h /\ page'.answer = "applied" /\ ~ page.rewritten)
            => veille'.communes = page.shown
  BY AppliedWasShown
<1>. QED
  BY <1>1, VeilleInvariant, PTL DEF Spec, AppliedAsShown
=============================================================================
