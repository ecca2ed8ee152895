--------------------------- MODULE Account_proofs ---------------------------
(***************************************************************************)
(* The accounts, for every number of addresses, of requests in flight and  *)
(* of letters: no confirmed account leaves a dossier waiting, a person who *)
(* was sent a link to confirm holds one that works, and a confirmed        *)
(* account's password changes only by a link that was good.                *)
(*                                                                         *)
(* A request works on what it read of a row that may be gone since, or     *)
(* replaced by another account of the same address.  The argument is that  *)
(* user ids and link tokens are never handed out twice: what a request or  *)
(* a letter carries is about the row it was made for, or about none.       *)
(***************************************************************************)
EXTENDS Account, FiniteSetTheorems, TLAPS

CountInv == uids \in 0 .. MaxUid /\ fresh \in 1 .. MaxToken + 1 /\ events \in 0 .. MaxEvents

(* The User rows: an id is one account's, and an address without an        *)
(* account has nothing.                                                    *)
UserRow == [id : Uid \cup {0}, password : Password \cup {None}, confirmed : BOOLEAN,
            token : Token \cup {0}, lapsed : BOOLEAN]

UserInv ==
  /\ user \in [Email -> UserRow]
  /\ \A e \in Email : IF user[e].id = 0 THEN user[e] = NoUser
                      ELSE user[e].id <= uids /\ user[e].password \in Password
  /\ \A e, f \in Email : user[e].id = user[f].id => user[e].id = 0 \/ e = f

(* What waits, or was opened, is an account's: it waits for one that is    *)
(* not confirmed, and was opened for one that is.                          *)
DossierInv ==
  /\ pending \in [Uid -> Code \cup {None}]
  /\ \A i \in Uid : pending[i] # None => \E e \in Email : user[e].id = i /\ ~ user[e].confirmed
  /\ sinistre \subseteq Uid \X Code
  /\ \A s \in sinistre : \E e \in Email : user[e].id = s[1] /\ user[e].confirmed

(* The rows of the links to a new password.                                *)
ResetInv ==
  /\ reset \in [Token -> [uid : Uid \cup {0}, used : BOOLEAN, lapsed : BOOLEAN]]
  /\ \A t \in Token : reset[t].uid # 0 => t < fresh /\ \E e \in Email : user[e].id = reset[t].uid

(* The requests in flight.                                                 *)
Request ==
  [pc : Pcs, kind : Kinds \cup {None}, email : Email \cup {None}, password : Password \cup {None},
   token : Token \cup {0}, uid : Uid \cup {0}, code : Code \cup {None}]

Mails == {"new", "send", "resetMail"}

RequestInv(r) ==
  /\ r.pc \notin {"idle", "activate", "spend"} => r.email \in Email
  /\ r.pc \in {"claim", "create", "spend"} => r.password \in Password
  /\ r.pc = "activate" => r.token # 0
  /\ r.pc \in Mails => (r.token # 0 => r.uid \in 1 .. uids) /\ r.token < fresh
  /\ r.pc \in {"new", "resetMail"} => r.token # 0
  /\ r.pc = "row" => r.uid # 0
  /\ r.pc = "send" => r.kind \in Kinds /\ (r.token # 0 => r.token \in composed)
  /\ r.pc = "spend" =>
       r.uid # 0 /\ r.token # 0 /\ r.token < fresh /\ reset[r.token].uid \in {0, r.uid}

HandlerInv == handler \in [Handler -> Request] /\ \A h \in Handler : RequestInv(handler[h])

LetterInv ==
  letters \subseteq Letter /\ composed \subseteq Token /\ \A l \in letters : l.uid <= uids

(* A link the account was sent, or is being sent, is followed by another   *)
(* only in a letter that was charged.                                      *)
Carries(r, i) == r.pc = "send" /\ r.kind = "registration" /\ r.token # 0 /\ r.uid = i

Unsent(i, t) ==
  /\ \A l \in letters : l.kind = "confirm" => l.uid # i
  /\ \A h \in Handler : ~ Carries(handler[h], i)
  /\ \A h \in Handler : handler[h].pc = "new" /\ handler[h].uid = i => handler[h].token = t

LinkInv ==
  \A e \in Email : user[e].id # 0 => user[e].token \in composed \/ Unsent(user[e].id, user[e].token)

(* What is being sent is still counted.                                    *)
InFlight(e, k) == {h \in Handler : handler[h].pc = "send" /\ handler[h].email = e
                                     /\ handler[h].kind = k}

ChargeInv ==
  /\ charged \in [Email -> [Kinds -> Nat]]
  /\ \A e \in Email :
       /\ charged[e]["registration"] <= RegistrationLimit
       /\ charged[e]["registration"] + charged[e]["reset"] <= EmailLimit
  /\ \A e \in Email, k \in Kinds : Cardinality(InFlight(e, k)) <= charged[e][k]

RestInv ==
  /\ session \in Sessions(Session, Uid)
  /\ failures \in [Email -> 0 .. LoginLimit]
  /\ commune \in [Code -> {"active", "merged", "closed"}]

IInv ==
  CountInv /\ UserInv /\ DossierInv /\ ResetInv /\ HandlerInv /\ LetterInv /\ LinkInv /\ ChargeInv
  /\ RestInv

-----------------------------------------------------------------------------
(* The bounds are naturals.                                                *)
LEMMA Bounds ==
  /\ MaxToken \in Nat \ {0} /\ MaxUid \in Nat \ {0} /\ MaxSession \in Nat \ {0} /\ MaxEvents \in Nat
  /\ RegistrationLimit \in Nat /\ EmailLimit \in Nat /\ LoginLimit \in Nat
  /\ RegistrationLimit <= EmailLimit /\ IsFiniteSet(Handler)
BY BoundAssumption, LimitAssumption, HandlerAssumption

LEMMA InitIInv == Init => IInv
<1> SUFFICES ASSUME Init PROVE IInv
  OBVIOUS
<1> USE Bounds
<1>1. CountInv
  BY DEF Init, CountInv
<1>2. UserInv
  BY DEF Init, UserInv, UserRow, NoUser
<1>3. DossierInv
  BY DEF Init, DossierInv
<1>4. ResetInv
  BY DEF Init, ResetInv, NoReset
<1>5. HandlerInv
  <2>1. Idle \in Request
    BY DEF Idle, Request, Pcs
  <2>2. RequestInv(Idle)
    BY DEF Idle, RequestInv, Mails
  <2>. QED
    BY <2>1, <2>2 DEF Init, HandlerInv
<1>6. LetterInv /\ LinkInv
  BY DEF Init, LetterInv, LinkInv, NoUser
<1>7. ChargeInv
  <2>1. \A e \in Email, k \in Kinds : charged[e][k] = 0
    BY DEF Init
  <2>2. \A e \in Email, k \in Kinds : InFlight(e, k) = {}
    BY DEF Init, InFlight, Idle
  <2>3. Cardinality({}) = 0
    BY FS_EmptySet
  <2>4. charged \in [Email -> [Kinds -> Nat]]
    BY DEF Init
  <2>. QED
    BY <2>1, <2>2, <2>3, <2>4 DEF ChargeInv, Kinds
<1>8. RestInv
  BY DEF Init, RestInv, NoSessions, Sessions, Gone, RowStates
<1>. QED
  BY <1>1, <1>2, <1>3, <1>4, <1>5, <1>6, <1>7, <1>8 DEF IInv

-----------------------------------------------------------------------------
(* The rows of the accounts and what hangs off them.  A step leaves them   *)
(* alone, rewrites one account, creates one, or removes some.              *)

LEMMA OneOfAnId ==
  ASSUME UserInv, DossierInv, NEW e \in Email, user[e].confirmed, user[e].id # 0
  PROVE  user[e].id \in Uid /\ pending[user[e].id] = None
BY DEF UserInv, UserRow, DossierInv

RowsStay == UNCHANGED <<user, pending, sinistre, uids>>

Rewrites(e, r) ==
  /\ user[e].id # 0 /\ r \in UserRow /\ r.id = user[e].id /\ r.password \in Password
  /\ user[e].confirmed => r.confirmed
  /\ user' = [user EXCEPT ![e] = r] /\ uids' = uids
  /\ pending' \in [Uid -> Code \cup {None}]
  /\ \A i \in Uid : i # r.id => pending'[i] = pending[i]
  /\ r.confirmed => pending'[r.id] = None
  /\ sinistre' \subseteq Uid \X Code
  /\ \A s \in sinistre' : s \in sinistre \/ (s[1] = r.id /\ r.confirmed)

Creates(e, r) ==
  /\ user[e].id = 0 /\ r \in UserRow /\ r.id = uids + 1 /\ r.password \in Password
  /\ ~ r.confirmed
  /\ user' = [user EXCEPT ![e] = r] /\ uids < MaxUid /\ uids' = uids + 1
  /\ pending' \in [Uid -> Code \cup {None}]
  /\ \A i \in Uid : i # r.id => pending'[i] = pending[i]
  /\ sinistre' = sinistre

Removes(ids) == DeleteUsers(ids) /\ 0 \notin ids /\ uids' = uids

RowsMove ==
  \/ RowsStay
  \/ \E e \in Email, r \in UserRow : Rewrites(e, r) \/ Creates(e, r)
  \/ \E ids \in SUBSET Uid : Removes(ids)

(* A dossier that waits is opened for its account, or dropped.             *)
LEMMA Draining ==
  ASSUME DossierInv, NEW i \in Uid, DrainPendingDossier(i)
  PROVE  /\ pending' = [pending EXCEPT ![i] = None]
         /\ sinistre' \subseteq Uid \X Code
         /\ \A s \in sinistre' : s \in sinistre \/ s[1] = i
<1> DEFINE resolved == ResolveCurrentCode(pending[i], Successors)
           code     == IF resolved = Unresolved THEN pending[i] ELSE resolved
<1>1. /\ pending' = [pending EXCEPT ![i] = None]
      /\ sinistre' = IF pending[i] # None /\ InForce(code) THEN sinistre \cup {<<i, code>>}
                     ELSE sinistre
  BY DEF DrainPendingDossier
<1>2. InForce(code) => code \in Code
  BY DEF InForce
<1> HIDE DEF code
<1>. QED
  BY <1>1, <1>2 DEF DossierInv

LEMMA ClaimRows ==
  ASSUME IInv, NEW h \in Handler, ClaimUnconfirmedAccount(h)
  PROVE  RowsMove
<1> USE DEF IInv
<1> DEFINE e == handler[h].email
<1>1. CASE Exists(e) /\ ~ user[e].confirmed
  <2>1. e \in Email /\ handler[h].password \in Password /\ handler[h].code \in Code \cup {None}
    BY DEF ClaimUnconfirmedAccount, HandlerInv, RequestInv, Request
  <2>2. user[e] \in UserRow /\ user[e].id # 0 /\ user[e].id \in Uid
    BY <1>1, <2>1 DEF Exists, UserInv, UserRow
  <2>3. PICK r : r = [user[e] EXCEPT !.password = handler[h].password, !.lapsed = FALSE]
    OBVIOUS
  <2>4. user' = [user EXCEPT ![e] = r] /\ UNCHANGED <<sinistre, uids>>
    BY <1>1, <2>1, <2>3 DEF ClaimUnconfirmedAccount, UserInv
  <2>5. /\ r \in UserRow /\ r.id = user[e].id /\ r.password \in Password
        /\ r.confirmed = user[e].confirmed
    BY <2>1, <2>2, <2>3 DEF UserRow
  <2>6. /\ pending' \in [Uid -> Code \cup {None}]
        /\ \A i \in Uid : i # r.id => pending'[i] = pending[i]
    BY <1>1, <2>1, <2>2, <2>5 DEF ClaimUnconfirmedAccount, StoreDossier, DossierInv
  <2>7. Rewrites(e, r)
    BY <1>1, <2>2, <2>4, <2>5, <2>6 DEF Rewrites, DossierInv
  <2>. QED
    BY <2>1, <2>5, <2>7 DEF RowsMove
<1>2. CASE ~ (Exists(e) /\ ~ user[e].confirmed)
  BY <1>2 DEF ClaimUnconfirmedAccount, RowsMove, RowsStay
<1>. QED
  BY <1>1, <1>2

LEMMA CreateRows ==
  ASSUME IInv, NEW h \in Handler, CreateAccount(h)
  PROVE  RowsMove
<1> USE DEF IInv
<1> DEFINE e == handler[h].email
<1>1. CASE ~ Exists(e)
  <2>1. e \in Email /\ handler[h].password \in Password /\ handler[h].code \in Code \cup {None}
    BY DEF CreateAccount, HandlerInv, RequestInv, Request
  <2>2. fresh <= MaxToken /\ uids < MaxUid /\ fresh \in Token /\ uids + 1 \in Uid
    <3>1. fresh <= MaxToken /\ uids < MaxUid
      BY <1>1 DEF CreateAccount
    <3>. QED
      BY <3>1, Bounds DEF CountInv, Token, Uid
  <2>3. PICK r : r = [id |-> uids + 1, password |-> handler[h].password, confirmed |-> FALSE,
                      token |-> fresh, lapsed |-> FALSE]
    OBVIOUS
  <2>4. user' = [user EXCEPT ![e] = r] /\ uids' = uids + 1 /\ sinistre' = sinistre
    BY <1>1, <2>3 DEF CreateAccount
  <2>5. r \in UserRow /\ r.id = uids + 1 /\ r.password \in Password /\ ~ r.confirmed
    BY <2>1, <2>2, <2>3 DEF UserRow
  <2>6. /\ pending' \in [Uid -> Code \cup {None}]
        /\ \A i \in Uid : i # r.id => pending'[i] = pending[i]
    BY <1>1, <2>1, <2>2, <2>5 DEF CreateAccount, StoreDossier, DossierInv
  <2>7. Creates(e, r)
    BY <1>1, <2>2, <2>4, <2>5, <2>6 DEF Creates, Exists
  <2>. QED
    BY <2>1, <2>5, <2>7 DEF RowsMove
<1>2. CASE Exists(e)
  BY <1>2 DEF CreateAccount, RowsMove, RowsStay
<1>. QED
  BY <1>1, <1>2

LEMMA MailRows ==
  ASSUME IInv, NEW h \in Handler, MailRewritten(h)
  PROVE  RowsMove
<1> USE DEF IInv
<1>1. PICK e : e = handler[h].email
  OBVIOUS
<1>2. e \in Email /\ user[e].id # 0 /\ ~ user[e].confirmed /\ fresh <= MaxToken
  BY <1>1 DEF MailRewritten, HandlerInv, RequestInv, Exists
<1>3. user[e] \in UserRow /\ user[e].password \in Password /\ fresh \in Token
  BY <1>2, Bounds DEF UserInv, CountInv, Token
<1>4. PICK r : r = [user[e] EXCEPT !.token = fresh]
  OBVIOUS
<1>5. r \in UserRow /\ r.id = user[e].id /\ r.password \in Password /\ ~ r.confirmed
  BY <1>2, <1>3, <1>4 DEF UserRow
<1>6. user' = [user EXCEPT ![e] = r] /\ UNCHANGED <<pending, sinistre, uids>>
  BY <1>1, <1>2, <1>4 DEF MailRewritten, UserInv
<1>7. Rewrites(e, r)
  BY <1>2, <1>5, <1>6 DEF Rewrites, DossierInv
<1>. QED
  BY <1>2, <1>5, <1>7 DEF RowsMove

LEMMA ActivateRows ==
  ASSUME IInv, NEW h \in Handler, Activate(h)
  PROVE  RowsMove
<1> USE DEF IInv
<1> DEFINE t   == handler[h].token
           hit == {e \in Email : user[e].token = t /\ Awaiting(e)}
<1>1. CASE hit = {}
  BY <1>1 DEF Activate, RowsMove, RowsStay
<1>2. CASE hit # {}
  <2>1. PICK e \in hit : /\ user' = [user EXCEPT ![e].confirmed = TRUE]
                         /\ DrainPendingDossier(user[e].id)
    BY <1>2 DEF Activate
  <2>2. e \in Email /\ user[e].token # 0 /\ uids' = uids
    BY <2>1 DEF Activate, HandlerInv, RequestInv
  <2>3. user[e] \in UserRow /\ user[e].id # 0 /\ user[e].id \in Uid /\ user[e].password \in Password
    BY <2>2 DEF UserInv, UserRow, NoUser
  <2>4. PICK r : r = [user[e] EXCEPT !.confirmed = TRUE]
    OBVIOUS
  <2>5. r \in UserRow /\ r.id = user[e].id /\ r.password \in Password /\ r.confirmed
    BY <2>3, <2>4 DEF UserRow
  <2>6. user' = [user EXCEPT ![e] = r]
    BY <2>1, <2>2, <2>4 DEF UserInv
  <2>7. /\ pending' = [pending EXCEPT ![r.id] = None]
        /\ sinistre' \subseteq Uid \X Code
        /\ \A s \in sinistre' : s \in sinistre \/ s[1] = r.id
    BY <2>1, <2>3, <2>5, Draining
  <2>8. Rewrites(e, r)
    BY <2>2, <2>3, <2>5, <2>6, <2>7 DEF Rewrites, DossierInv
  <2>. QED
    BY <2>2, <2>5, <2>8 DEF RowsMove
<1>. QED
  BY <1>1, <1>2

(* A link to a new password that can still be spent is for the account the *)
(* request read it for, and that account stands.                           *)
LEMMA SpentFor ==
  ASSUME IInv, NEW h \in Handler, handler[h].pc = "spend", ClaimToken(handler[h].token)
  PROVE  LET r == handler[h]  e == EmailOf(r.uid) IN
         /\ r.token \in Token /\ r.uid \in Uid /\ r.password \in Password /\ e \in Email
         /\ user[e].id = r.uid /\ reset[r.token].uid = r.uid
<1> USE DEF IInv
<1>1. /\ handler[h].token \in Token /\ handler[h].uid \in Uid /\ handler[h].password \in Password
      /\ reset[handler[h].token].uid \in {0, handler[h].uid}
  BY DEF HandlerInv, RequestInv, Request
<1>2. reset[handler[h].token].uid # 0
  BY DEF ClaimToken, Spendable
<1>3. \E e \in Email : user[e].id = handler[h].uid
  BY <1>1, <1>2 DEF ResetInv
<1>. QED
  BY <1>1, <1>2, <1>3 DEF EmailOf

LEMMA SpendRows ==
  ASSUME IInv, NEW h \in Handler, SpendReset(h)
  PROVE  RowsMove
<1> USE DEF IInv
<1>1. CASE ~ ClaimToken(handler[h].token)
  BY <1>1 DEF SpendReset, RowsMove, RowsStay
<1>2. CASE ClaimToken(handler[h].token)
  <2>1. PICK e : e = EmailOf(handler[h].uid)
    OBVIOUS
  <2>2. /\ e \in Email /\ user[e].id = handler[h].uid /\ handler[h].uid \in Uid
        /\ handler[h].password \in Password
    BY <1>2, <2>1, SpentFor DEF SpendReset
  <2>3. /\ user' = [user EXCEPT ![e].password = handler[h].password, ![e].confirmed = TRUE]
        /\ IF user[e].confirmed THEN UNCHANGED <<pending, sinistre>>
           ELSE DrainPendingDossier(handler[h].uid)
        /\ uids' = uids
    BY <1>2, <2>1 DEF SpendReset
  <2>4. user[e] \in UserRow /\ user[e].id # 0
    BY <2>2 DEF UserInv, Uid
  <2>5. PICK r : r = [user[e] EXCEPT !.password = handler[h].password, !.confirmed = TRUE]
    OBVIOUS
  <2>6. r \in UserRow /\ r.id = user[e].id /\ r.password \in Password /\ r.confirmed
    BY <2>2, <2>4, <2>5 DEF UserRow
  <2>7. user' = [user EXCEPT ![e] = r]
    BY <2>2, <2>3, <2>5 DEF UserInv
  <2>8. /\ pending' = [pending EXCEPT ![r.id] = None]
        /\ sinistre' \subseteq Uid \X Code
        /\ \A s \in sinistre' : s \in sinistre \/ s[1] = r.id
    <3>1. CASE user[e].confirmed
      <4>1. pending[r.id] = None
        BY <2>2, <2>4, <2>6, <3>1, OneOfAnId
      <4>2. pending' = pending /\ sinistre' = sinistre
        BY <2>3, <3>1
      <4>. QED
        BY <4>1, <4>2 DEF DossierInv
    <3>2. CASE ~ user[e].confirmed
      BY <2>2, <2>3, <2>6, <3>2, Draining
    <3>. QED
      BY <3>1, <3>2
  <2>9. Rewrites(e, r)
    BY <2>2, <2>4, <2>6, <2>7, <2>8, <2>3 DEF Rewrites, DossierInv
  <2>. QED
    BY <2>2, <2>6, <2>9 DEF RowsMove
<1>. QED
  BY <1>1, <1>2

LEMMA OtherRows ==
  ASSUME IInv, Next,
         \A h \in Handler : ~ (ClaimUnconfirmedAccount(h) \/ CreateAccount(h) \/ MailRewritten(h)
                               \/ Activate(h) \/ SpendReset(h))
  PROVE  RowsMove
<1> USE DEF IInv
<1>1. ASSUME NEW h \in Handler, Requests(h) \/ Work(h) \/ Abandon(h) PROVE RowsStay
  BY <1>1 DEF Requests, Work, RowsStay, Register, Confirm, RequestPasswordReset, ResetPassword,
     ValidateCredentials, Abandon, Suppress, MailComposed, SendAccountMail, CreateReset,
     ChargeFailedLogin, ClearFailures, Login
<1>2. ASSUME NEW e \in Email, DeleteAccount(e) PROVE RowsMove
  <2>1. Removes({user[e].id}) /\ {user[e].id} \subseteq Uid
    BY <1>2 DEF DeleteAccount, Bearer, Exists, Removes, UserInv, UserRow
  <2>. QED
    BY <2>1 DEF RowsMove
<1>3. CASE DeleteExpiredUnconfirmedUsers
  <2>1. ExpiredUnconfirmed \subseteq Uid
    BY DEF ExpiredUnconfirmed, UserInv, UserRow, NoUser
  <2>2. Removes(ExpiredUnconfirmed)
    BY <1>3, <2>1 DEF DeleteExpiredUnconfirmedUsers, Removes, Uid
  <2>. QED
    BY <2>1, <2>2 DEF RowsMove
<1>4. ASSUME NEW e \in Email, ConfirmWindowEnds(e) PROVE RowsMove
  <2>1. user[e] \in UserRow /\ user[e].id # 0 /\ user[e].password \in Password
    BY <1>4 DEF ConfirmWindowEnds, Exists, UserInv
  <2>2. PICK r : r = [user[e] EXCEPT !.lapsed = TRUE]
    OBVIOUS
  <2>3. /\ r \in UserRow /\ r.id = user[e].id /\ r.password \in Password
        /\ r.confirmed = user[e].confirmed
    BY <2>1, <2>2 DEF UserRow
  <2>4. user' = [user EXCEPT ![e] = r] /\ UNCHANGED <<pending, sinistre, uids>>
    BY <1>4, <2>2 DEF ConfirmWindowEnds, UserInv
  <2>5. r.confirmed => pending[r.id] = None
    BY <2>1, <2>3, OneOfAnId
  <2>6. Rewrites(e, r)
    BY <2>1, <2>3, <2>4, <2>5 DEF Rewrites, DossierInv
  <2>. QED
    BY <2>3, <2>6 DEF RowsMove
<1>5. CASE DeleteExpiredPasswordResets \/ (Time /\ ~ \E e \in Email : ConfirmWindowEnds(e))
  BY <1>5 DEF DeleteExpiredPasswordResets, Time, LoginHourPasses, ResetWindowEnds, MailDayPasses,
     CommuneChanges, RowsStay, RowsMove
<1>. QED
  BY <1>1, <1>2, <1>3, <1>4, <1>5 DEF Next, RowsMove

LEMMA RowsMoveSo == ASSUME IInv, [Next]_vars PROVE RowsMove
<1>1. CASE UNCHANGED vars
  BY <1>1 DEF vars, RowsMove, RowsStay
<1>2. CASE Next
  BY <1>2, ClaimRows, CreateRows, MailRows, ActivateRows, SpendRows, OtherRows
<1>. QED
  BY <1>1, <1>2

LEMMA UserKept == ASSUME IInv, RowsMove PROVE UserInv'
<1> USE DEF IInv
<1>1. CASE RowsStay
  BY <1>1 DEF RowsStay, UserInv, UserRow
<1>2. ASSUME NEW e \in Email, NEW r \in UserRow, Rewrites(e, r) PROVE UserInv'
  <2>1. user' \in [Email -> UserRow] /\ \A f \in Email : user'[f] = IF f = e THEN r ELSE user[f]
    BY <1>2 DEF Rewrites, UserInv
  <2>2. UserRow' = UserRow
    BY DEF UserRow
  <2>. QED
    BY <1>2, <2>1, <2>2 DEF Rewrites, UserInv
<1>3. ASSUME NEW e \in Email, NEW r \in UserRow, Creates(e, r) PROVE UserInv'
  <2>1. user' \in [Email -> UserRow] /\ \A f \in Email : user'[f] = IF f = e THEN r ELSE user[f]
    BY <1>3 DEF Creates, UserInv
  <2>2. uids \in Nat /\ r.id = uids + 1 /\ uids' = uids + 1 /\ r.password \in Password
    BY <1>3, Bounds DEF Creates, CountInv
  <2>3. \A f \in Email : user[f].id \in Nat /\ user[f].id <= uids
    BY <2>2 DEF UserInv, UserRow, Uid
  <2>4. UserRow' = UserRow
    BY DEF UserRow
  <2>5. \A f \in Email : IF user'[f].id = 0 THEN user'[f] = NoUser
                         ELSE user'[f].id <= uids' /\ user'[f].password \in Password
    BY <2>1, <2>2, <2>3 DEF UserInv
  <2>6. ASSUME NEW f \in Email, NEW g \in Email, user'[f].id = user'[g].id
        PROVE  user'[f].id = 0 \/ f = g
    BY <2>1, <2>2, <2>3, <2>6 DEF UserInv
  <2>. QED
    BY <2>1, <2>4, <2>5, <2>6 DEF UserInv
<1>4. ASSUME NEW gone \in SUBSET Uid, Removes(gone) PROVE UserInv'
  <2>1. NoUser \in UserRow /\ UserRow' = UserRow /\ uids' = uids
    BY <1>4 DEF NoUser, UserRow, Removes
  <2>2. \A f \in Email : user'[f] = user[f] \/ user'[f] = NoUser
    BY <1>4 DEF Removes, DeleteUsers
  <2>3. user' \in [Email -> UserRow]
    BY <1>4, <2>1 DEF Removes, DeleteUsers, UserInv
  <2>4. NoUser.id = 0
    BY DEF NoUser
  <2>. QED
    BY <2>1, <2>2, <2>3, <2>4 DEF UserInv
<1>. QED
  BY <1>1, <1>2, <1>3, <1>4 DEF RowsMove

LEMMA DossierKept == ASSUME IInv, RowsMove PROVE DossierInv'
<1> USE DEF IInv
<1>1. CASE RowsStay
  BY <1>1 DEF RowsStay, DossierInv
<1>2. ASSUME NEW e \in Email, NEW r \in UserRow, Rewrites(e, r) PROVE DossierInv'
  <2>1. /\ \A f \in Email : user'[f] = IF f = e THEN r ELSE user[f]
        /\ r.id = user[e].id /\ (user[e].confirmed => r.confirmed)
    BY <1>2 DEF Rewrites, UserInv
  <2>2. ASSUME NEW i \in Uid, pending'[i] # None
        PROVE  \E f \in Email : user'[f].id = i /\ ~ user'[f].confirmed
    <3>1. CASE i = r.id
      BY <1>2, <2>1, <2>2, <3>1 DEF Rewrites, UserRow
    <3>2. CASE i # r.id
      <4>1. PICK f \in Email : user[f].id = i /\ ~ user[f].confirmed
        BY <1>2, <2>2, <3>2 DEF Rewrites, DossierInv
      <4>. QED
        BY <2>1, <3>2, <4>1
    <3>. QED
      BY <3>1, <3>2
  <2>3. ASSUME NEW s \in sinistre' PROVE \E f \in Email : user'[f].id = s[1] /\ user'[f].confirmed
    <3>1. CASE s[1] = r.id /\ r.confirmed
      BY <2>1, <3>1
    <3>2. CASE s \in sinistre
      <4>1. PICK f \in Email : user[f].id = s[1] /\ user[f].confirmed
        BY <3>2 DEF DossierInv
      <4>. QED
        BY <2>1, <4>1
    <3>. QED
      BY <1>2, <3>1, <3>2 DEF Rewrites
  <2>. QED
    BY <1>2, <2>2, <2>3 DEF Rewrites, DossierInv
<1>3. ASSUME NEW e \in Email, NEW r \in UserRow, Creates(e, r) PROVE DossierInv'
  <2>1. /\ \A f \in Email : user'[f] = IF f = e THEN r ELSE user[f]
        /\ user[e] = NoUser /\ sinistre' = sinistre /\ ~ r.confirmed
    BY <1>3 DEF Creates, UserInv
  <2>2. ASSUME NEW i \in Uid, pending'[i] # None
        PROVE  \E f \in Email : user'[f].id = i /\ ~ user'[f].confirmed
    <3>1. CASE i = r.id
      BY <2>1, <3>1
    <3>2. CASE i # r.id
      <4>1. PICK f \in Email : user[f].id = i /\ ~ user[f].confirmed
        BY <1>3, <2>2, <3>2 DEF Creates, DossierInv
      <4>2. f # e
        BY <2>1, <4>1 DEF NoUser, Uid
      <4>. QED
        BY <2>1, <4>1, <4>2
    <3>. QED
      BY <3>1, <3>2
  <2>3. ASSUME NEW s \in sinistre' PROVE \E f \in Email : user'[f].id = s[1] /\ user'[f].confirmed
    <3>1. PICK f \in Email : user[f].id = s[1] /\ user[f].confirmed
      BY <2>1 DEF DossierInv
    <3>2. f # e
      BY <2>1, <3>1 DEF NoUser
    <3>. QED
      BY <2>1, <3>1, <3>2
  <2>. QED
    BY <1>3, <2>1, <2>2, <2>3 DEF Creates, DossierInv
<1>4. ASSUME NEW gone \in SUBSET Uid, Removes(gone) PROVE DossierInv'
  <2>1. /\ \A f \in Email : user[f].id \notin gone => user'[f] = user[f]
        /\ pending' \in [Uid -> Code \cup {None}]
        /\ \A i \in Uid : pending'[i] # None => i \notin gone /\ pending[i] # None
        /\ \A s \in sinistre' : s \in sinistre /\ s[1] \notin gone
    BY <1>4 DEF Removes, DeleteUsers, DossierInv
  <2>2. ASSUME NEW i \in Uid, pending'[i] # None
        PROVE  \E f \in Email : user'[f].id = i /\ ~ user'[f].confirmed
    BY <2>1, <2>2 DEF DossierInv
  <2>3. ASSUME NEW s \in sinistre' PROVE \E f \in Email : user'[f].id = s[1] /\ user'[f].confirmed
    BY <2>1, <2>3 DEF DossierInv
  <2>. QED
    BY <2>1, <2>2, <2>3 DEF DossierInv
<1>. QED
  BY <1>1, <1>2, <1>3, <1>4 DEF RowsMove

(* An account keeps its id as long as it stands.                           *)
LEMMA IdsKept ==
  ASSUME IInv, RowsMove, NEW i \in Ids
  PROVE  i \in Ids' \/ \E gone \in SUBSET Uid : Removes(gone) /\ i \in gone
<1> USE DEF IInv
<1>1. PICK f \in Email : user[f].id = i /\ i # 0
  BY DEF Ids
<1>2. CASE RowsStay
  BY <1>1, <1>2 DEF RowsStay, Ids
<1>3. ASSUME NEW e \in Email, NEW r \in UserRow, Rewrites(e, r) \/ Creates(e, r) PROVE i \in Ids'
  <2>1. user'[f].id = i
    BY <1>1, <1>3 DEF Rewrites, Creates, UserInv
  <2>. QED
    BY <1>1, <2>1 DEF Ids
<1>4. ASSUME NEW gone \in SUBSET Uid, Removes(gone), i \notin gone PROVE i \in Ids'
  <2>1. user'[f] = user[f]
    BY <1>1, <1>4 DEF Removes, DeleteUsers
  <2>. QED
    BY <1>1, <2>1 DEF Ids
<1>. QED
  BY <1>2, <1>3, <1>4 DEF RowsMove

-----------------------------------------------------------------------------
(* The counters, and the links to a new password.                          *)
LEMMA CountKept ==
  ASSUME IInv, [Next]_vars
  PROVE  /\ CountInv' /\ {fresh, fresh', uids, uids'} \subseteq Nat
         /\ fresh <= fresh' /\ uids <= uids'
<1> DEFINE Same  == UNCHANGED <<fresh, uids>> /\ (events' = events \/ Happens)
           Grows == /\ fresh' = fresh \/ (fresh <= MaxToken /\ fresh' = fresh + 1)
                    /\ uids' = uids \/ (uids < MaxUid /\ uids' = uids + 1)
                    /\ events' = events
<1>1. ASSUME UNCHANGED vars PROVE Same
  BY <1>1 DEF vars
<1>2. ASSUME NEW h \in Handler, Requests(h) PROVE Same
  BY <1>2 DEF Requests, Register, Confirm, RequestPasswordReset, ResetPassword, ValidateCredentials,
     Begin
<1>3. ASSUME NEW h \in Handler, CreateAccount(h) \/ MailRewritten(h) \/ CreateReset(h) PROVE Grows
  BY <1>3 DEF CreateAccount, MailRewritten, CreateReset
<1>4. ASSUME NEW h \in Handler, Work(h) \/ Abandon(h), ~ CreateAccount(h), ~ MailRewritten(h),
             ~ CreateReset(h)
      PROVE  Same
  BY <1>4 DEF Work, Abandon, ClaimUnconfirmedAccount, Suppress, MailComposed, SendAccountMail,
     Activate, SpendReset, ChargeFailedLogin, ClearFailures, Login
<1>5. ASSUME \/ \E e \in Email : DeleteAccount(e)
             \/ DeleteExpiredUnconfirmedUsers \/ DeleteExpiredPasswordResets \/ Time
      PROVE  Same
  BY <1>5 DEF DeleteAccount, DeleteExpiredUnconfirmedUsers, DeleteExpiredPasswordResets, Time,
     ConfirmWindowEnds, LoginHourPasses, ResetWindowEnds, MailDayPasses, CommuneChanges
<1>6. Same \/ Grows
  BY <1>1, <1>2, <1>3, <1>4, <1>5 DEF Next, vars
<1>7. /\ MaxToken \in Nat /\ MaxUid \in Nat /\ MaxEvents \in Nat
      /\ fresh \in 1 .. MaxToken + 1 /\ uids \in 0 .. MaxUid /\ events \in 0 .. MaxEvents
  BY Bounds DEF IInv, CountInv
<1>8. CASE Same
  <2>1. events' \in 0 .. MaxEvents
    BY <1>7, <1>8 DEF Happens
  <2>. QED
    BY <1>7, <1>8, <2>1 DEF CountInv
<1>9. CASE Grows
  <2>1. fresh' \in 1 .. MaxToken + 1 /\ fresh <= fresh' /\ uids' \in 0 .. MaxUid /\ uids <= uids'
    BY <1>7, <1>9
  <2>. QED
    BY <1>7, <1>9, <2>1 DEF CountInv
<1>. QED
  BY <1>6, <1>8, <1>9

ResetRow == [uid : Uid \cup {0}, used : BOOLEAN, lapsed : BOOLEAN]

ResetsStay == reset' \in [Token -> ResetRow] /\ \A t \in Token : reset'[t].uid \in {0, reset[t].uid}

(* A link to a new password keeps its account; a new one is for an account *)
(* that stands.                                                            *)
NewReset ==
  /\ fresh \in Token /\ fresh' = fresh + 1 /\ reset' \in [Token -> ResetRow]
  /\ reset'[fresh].uid \in Ids
  /\ \A t \in Token : t # fresh => reset'[t] = reset[t]
  /\ RowsStay

LEMMA ResetsMove == ASSUME IInv, [Next]_vars PROVE ResetsStay \/ NewReset
<1> USE DEF IInv
<1>0. reset \in [Token -> ResetRow] /\ NoReset \in ResetRow
  BY DEF ResetInv, ResetRow, NoReset
<1>1. CASE UNCHANGED vars
  BY <1>0, <1>1 DEF vars, ResetsStay
<1>2. ASSUME NEW h \in Handler, CreateReset(h), handler[h].uid \in Ids PROVE NewReset
  <2>1. fresh <= MaxToken /\ fresh \in Token
    BY <1>2, Bounds DEF CreateReset, CountInv, Token
  <2>2. [uid |-> handler[h].uid, used |-> FALSE, lapsed |-> FALSE] \in ResetRow
    BY <1>2 DEF HandlerInv, Request, ResetRow
  <2>3. /\ reset' = [reset EXCEPT ![fresh] = [uid |-> handler[h].uid, used |-> FALSE,
                                              lapsed |-> FALSE]]
        /\ fresh' = fresh + 1
    BY <1>2 DEF CreateReset
  <2>4. RowsStay
    BY <1>2 DEF CreateReset, RowsStay
  <2>. QED
    BY <1>0, <1>2, <2>1, <2>2, <2>3, <2>4 DEF NewReset
<1>3. ASSUME NEW h \in Handler, SpendReset(h), reset' # reset PROVE ResetsStay
  <2>1. reset' = SpendAll(handler[h].uid)
    BY <1>3 DEF SpendReset
  <2>2. ASSUME NEW t \in Token PROVE reset'[t] \in ResetRow /\ reset'[t].uid = reset[t].uid
    BY <1>0, <2>1 DEF SpendAll, ResetRow
  <2>3. reset' = [t \in Token |-> reset'[t]]
    BY <2>1 DEF SpendAll
  <2>. QED
    BY <2>2, <2>3 DEF ResetsStay
<1>4. ASSUME NEW h \in Handler, Requests(h) \/ Work(h) \/ Abandon(h), ~ CreateReset(h), ~ SpendReset(h)
      PROVE  UNCHANGED reset
  BY <1>4 DEF Requests, Register, Confirm, RequestPasswordReset, ResetPassword, ValidateCredentials,
     Work, Abandon, ClaimUnconfirmedAccount, CreateAccount, Suppress, MailRewritten, MailComposed,
     SendAccountMail, Activate, ChargeFailedLogin, ClearFailures, Login
<1>5. ASSUME NEW gone, DeleteUsers(gone) PROVE ResetsStay
  BY <1>0, <1>5 DEF DeleteUsers, ResetsStay, NoReset
<1>6. CASE DeleteExpiredPasswordResets
  BY <1>0, <1>6 DEF DeleteExpiredPasswordResets, ResetsStay, NoReset
<1>7. ASSUME NEW t \in Token, ResetWindowEnds(t) PROVE ResetsStay
  <2>1. reset' = [reset EXCEPT ![t].lapsed = TRUE]
    BY <1>7 DEF ResetWindowEnds
  <2>2. \A u \in Token : reset'[u] \in ResetRow /\ reset'[u].uid = reset[u].uid
    BY <1>0, <2>1 DEF ResetRow
  <2>. QED
    BY <1>0, <2>1, <2>2 DEF ResetsStay
<1>8. ASSUME Time, ~ \E t \in Token : ResetWindowEnds(t) PROVE UNCHANGED reset
  BY <1>8 DEF Time, ConfirmWindowEnds, LoginHourPasses, MailDayPasses, CommuneChanges
<1>9. ASSUME NEW h \in Handler, CreateReset(h), handler[h].uid \notin Ids PROVE UNCHANGED reset
  BY <1>9 DEF CreateReset
<1>. QED
  BY <1>0, <1>1, <1>2, <1>3, <1>4, <1>5, <1>6, <1>7, <1>8, <1>9
     DEF Next, DeleteAccount, DeleteExpiredUnconfirmedUsers, ResetsStay

LEMMA ResetKept == ASSUME IInv, [Next]_vars PROVE ResetInv'
<1> USE DEF IInv
<1>0. RowsMove
  BY RowsMoveSo
<1>1. /\ {fresh, fresh'} \subseteq Nat /\ fresh <= fresh' /\ \A t \in Token : t \in Nat
      /\ ResetRow = [uid : Uid \cup {0}, used : BOOLEAN, lapsed : BOOLEAN]
  BY CountKept, Bounds DEF Token, ResetRow
<1>2. CASE ResetsStay
  <2>1. ASSUME NEW t \in Token, reset'[t].uid # 0
        PROVE  t < fresh' /\ reset'[t].uid \in Ids'
    <3>1. reset'[t].uid = reset[t].uid /\ reset[t].uid # 0
      BY <1>2, <2>1 DEF ResetsStay
    <3>2. t < fresh /\ reset[t].uid \in Ids
      BY <3>1 DEF ResetInv, Ids
    <3>3. t < fresh'
      BY <1>1, <3>2
    <3>4. ASSUME NEW gone \in SUBSET Uid, Removes(gone), reset[t].uid \in gone PROVE FALSE
      BY <2>1, <3>4 DEF Removes, DeleteUsers, NoReset
    <3>. QED
      BY <1>0, <3>1, <3>2, <3>3, <3>4, IdsKept
  <2>2. reset' \in [Token -> ResetRow]
    BY <1>2 DEF ResetsStay
  <2>. QED
    BY <1>1, <2>1, <2>2 DEF ResetInv, Ids
<1>3. CASE NewReset
  <2>1. ASSUME NEW t \in Token, reset'[t].uid # 0
        PROVE  t < fresh' /\ reset'[t].uid \in Ids
    <3>1. CASE t = fresh
      BY <1>1, <1>3, <3>1 DEF NewReset
    <3>2. CASE t # fresh
      <4>1. reset[t].uid # 0 /\ reset'[t] = reset[t]
        BY <1>3, <2>1, <3>2 DEF NewReset
      <4>2. t < fresh /\ reset[t].uid \in Ids
        BY <4>1 DEF ResetInv, Ids
      <4>. QED
        BY <1>1, <4>1, <4>2
    <3>. QED
      BY <3>1, <3>2
  <2>2. Ids' = Ids
    BY <1>3 DEF NewReset, RowsStay, Ids
  <2>. QED
    <3>1. reset' \in [Token -> ResetRow] /\ \A t \in Token : reset'[t].uid # 0 => reset'[t].uid \in Ids'
      BY <1>3, <2>1, <2>2 DEF NewReset
    <3>. QED
      BY <1>1, <2>1, <3>1 DEF ResetInv, Ids
<1>. QED
  BY <1>2, <1>3, ResetsMove

-----------------------------------------------------------------------------
(* The requests in flight.  What one of them knows stays true while others *)
(* work; so it is enough to look at the one that moves.                    *)
LEMMA ComposedGrows == ASSUME IInv, [Next]_vars PROVE composed \subseteq composed'
<1>1. ASSUME NEW h \in Handler, MailRewritten(h) \/ MailComposed(h)
      PROVE  composed \subseteq composed'
  BY <1>1 DEF MailRewritten, MailComposed, Charge
<1>2. ASSUME NEW h \in Handler, Requests(h) \/ Work(h) \/ Abandon(h), ~ MailRewritten(h),
             ~ MailComposed(h)
      PROVE  UNCHANGED composed
  BY <1>2 DEF Requests, Register, Confirm, RequestPasswordReset, ResetPassword, ValidateCredentials,
     Work, Abandon, ClaimUnconfirmedAccount, CreateAccount, Suppress, SendAccountMail, Activate,
     CreateReset, SpendReset, ChargeFailedLogin, ClearFailures, Login
<1>3. ASSUME \/ \E e \in Email : DeleteAccount(e)
             \/ DeleteExpiredUnconfirmedUsers \/ DeleteExpiredPasswordResets \/ Time
      PROVE  UNCHANGED composed
  BY <1>3 DEF DeleteAccount, DeleteExpiredUnconfirmedUsers, DeleteExpiredPasswordResets, Time,
     ConfirmWindowEnds, LoginHourPasses, ResetWindowEnds, MailDayPasses, CommuneChanges
<1>. QED
  BY <1>1, <1>2, <1>3 DEF Next, vars

LEMMA RequestStays ==
  ASSUME IInv, [Next]_vars, NEW r \in Request, RequestInv(r)
  PROVE  RequestInv(r)'
<1>1. /\ {fresh, fresh', uids, uids'} \subseteq Nat /\ fresh <= fresh' /\ uids <= uids'
      /\ composed \subseteq composed'
  BY CountKept, ComposedGrows
<1>2. r.token \in Nat /\ r.uid \in Nat
  BY Bounds DEF Request, Token, Uid
<1>3. r.pc \in Mails => (r.token # 0 => r.uid \in 1 .. uids') /\ r.token < fresh'
  BY <1>1, <1>2 DEF RequestInv
<1>4. ASSUME r.pc = "spend"
      PROVE  r.uid # 0 /\ r.token # 0 /\ r.token < fresh' /\ reset'[r.token].uid \in {0, r.uid}
  <2>1. r.token \in Token /\ r.token # fresh /\ r.token < fresh'
    BY <1>1, <1>2, <1>4 DEF RequestInv, Request
  <2>2. reset'[r.token].uid \in {0, reset[r.token].uid}
    BY <2>1, ResetsMove DEF ResetsStay, NewReset
  <2>. QED
    BY <1>4, <2>1, <2>2 DEF RequestInv
<1>. QED
  BY <1>1, <1>3, <1>4 DEF RequestInv

LEMMA OneRequestMoves ==
  ASSUME IInv, [Next]_vars, NEW h \in Handler, NEW q \in Request, RequestInv(q)',
         handler' = [handler EXCEPT ![h] = q]
  PROVE  HandlerInv'
<1>1. handler' \in [Handler -> Request] /\ \A g \in Handler : handler'[g] = IF g = h THEN q ELSE handler[g]
  BY DEF IInv, HandlerInv
<1>2. ASSUME NEW g \in Handler PROVE RequestInv(handler[g])'
  <2>1. PICK r \in Request : r = handler'[g]
    BY <1>1
  <2>2. RequestInv(r)'
    <3>1. CASE g = h
      BY <1>1, <2>1, <3>1
    <3>2. CASE g # h
      <4>1. RequestInv(r)
        BY <1>1, <2>1, <3>2 DEF IInv, HandlerInv
      <4>. QED
        BY <4>1, RequestStays
    <3>. QED
      BY <3>1, <3>2
  <2>. QED
    BY <2>1, <2>2 DEF RequestInv
<1>3. Request' = Request
  BY DEF Request
<1>. QED
  BY <1>1, <1>2, <1>3 DEF HandlerInv

LEMMA Answered ==
  ASSUME IInv, [Next]_vars, NEW h \in Handler, Answer(h)
  PROVE  HandlerInv'
<1>1. Idle \in Request
  BY DEF Idle, Request, Pcs
<1>2. RequestInv(Idle)'
  BY DEF Idle, RequestInv, Mails
<1>. QED
  BY <1>1, <1>2, OneRequestMoves DEF Answer

LEMMA Begun ==
  ASSUME IInv, [Next]_vars, NEW h \in Handler, Requests(h)
  PROVE  HandlerInv'
<1> USE DEF IInv
<1>1. ASSUME NEW e \in Email, NEW p \in Password, NEW c \in Code \cup {None}, Register(h, e, p, c)
      PROVE  HandlerInv'
  <2>1. PICK q : q = [Idle EXCEPT !.pc = "claim", !.email = e, !.password = p, !.code = c]
    OBVIOUS
  <2>2. q \in Request /\ RequestInv(q)'
    BY <2>1 DEF Idle, Request, Pcs, RequestInv, Mails
  <2>. QED
    BY <1>1, <2>1, <2>2, OneRequestMoves DEF Register, Begin
<1>2. ASSUME NEW t \in Received("confirm"), Confirm(h, t) PROVE HandlerInv'
  <2>1. t \in Token /\ t # 0
    BY DEF Received, LetterInv, Letter, Token
  <2>2. PICK q : q = [Idle EXCEPT !.pc = "activate", !.token = t]
    OBVIOUS
  <2>3. q \in Request /\ RequestInv(q)'
    BY <2>1, <2>2 DEF Idle, Request, Pcs, RequestInv, Mails
  <2>. QED
    BY <1>2, <2>2, <2>3, OneRequestMoves DEF Confirm, Begin
<1>3. ASSUME NEW e \in Email, RequestPasswordReset(h, e) PROVE HandlerInv'
  <2>1. user[e].id \in Uid /\ user[e].id # 0
    BY <1>3 DEF RequestPasswordReset, Exists, UserInv, UserRow
  <2>2. PICK q : q = [Idle EXCEPT !.pc = "row", !.email = e, !.uid = user[e].id]
    OBVIOUS
  <2>3. q \in Request /\ RequestInv(q)'
    BY <2>1, <2>2 DEF Idle, Request, Pcs, RequestInv, Mails
  <2>. QED
    BY <1>3, <2>2, <2>3, OneRequestMoves DEF RequestPasswordReset, Begin
<1>4. ASSUME NEW t \in Received("reset"), NEW p \in Password, ResetPassword(h, t, p) PROVE HandlerInv'
  <2>1. /\ t \in Token /\ t # 0 /\ reset[t].uid \in Uid /\ reset[t].uid # 0 /\ t < fresh
        /\ UNCHANGED <<reset, fresh>>
    BY <1>4 DEF Received, LetterInv, Letter, Token, ResetInv, ResetPassword, Spendable
  <2>2. PICK q : q = [Idle EXCEPT !.pc = "spend", !.token = t, !.password = p, !.uid = reset[t].uid]
    OBVIOUS
  <2>3. q \in Request /\ RequestInv(q)'
    BY <2>1, <2>2 DEF Idle, Request, Pcs, RequestInv, Mails
  <2>. QED
    BY <1>4, <2>2, <2>3, OneRequestMoves DEF ResetPassword, Begin
<1>5. ASSUME NEW e \in Email, NEW p \in Password, ValidateCredentials(h, e, p) PROVE HandlerInv'
  <2>1. user[e].id \in Uid \cup {0}
    BY DEF UserInv, UserRow
  <2>2. PICK q : q = [Idle EXCEPT !.pc = IF Accepted(e, p) THEN "clear" ELSE "charge", !.email = e,
                                  !.uid = IF Accepted(e, p) THEN user[e].id ELSE 0]
    OBVIOUS
  <2>3. q \in Request /\ RequestInv(q)'
    <3>1. /\ q.pc \in {"clear", "charge"} /\ q.email = e /\ q.uid \in Uid \cup {0} /\ q.kind = None
          /\ q.password = None /\ q.token = 0 /\ q.code = None
      BY <2>1, <2>2 DEF Idle
    <3>2. q = [pc |-> q.pc, kind |-> None, email |-> e, password |-> None, token |-> 0,
               uid |-> q.uid, code |-> None]
      BY <2>2 DEF Idle
    <3>. QED
      BY <3>1, <3>2 DEF Request, Pcs, RequestInv, Mails
  <2>. QED
    BY <1>5, <2>2, <2>3, OneRequestMoves DEF ValidateCredentials, Begin
<1>. QED
  BY <1>1, <1>2, <1>3, <1>4, <1>5 DEF Requests

LEMMA Worked ==
  ASSUME IInv, [Next]_vars, NEW h \in Handler, Work(h)
  PROVE  HandlerInv'
<1> USE DEF IInv
<1>r. handler[h] \in Request /\ RequestInv(handler[h])
  BY DEF HandlerInv
<1>1. CASE ClaimUnconfirmedAccount(h)
  <2>1. handler[h].pc = "claim" /\ handler[h].email \in Email /\ handler[h].password \in Password
    BY <1>r, <1>1 DEF ClaimUnconfirmedAccount, RequestInv
  <2>2. PICK q : q \in {Moved(handler[h], "rewritten"), Moved(handler[h], "known"),
                        [handler[h] EXCEPT !.pc = "create"]}
                 /\ handler' = [handler EXCEPT ![h] = q]
    BY <1>1, <1>r DEF ClaimUnconfirmedAccount, NotClaimed, Goto, HandlerInv
  <2>3. q \in Request /\ q.pc \in {"rewritten", "known", "create"} /\ q.email \in Email
        /\ (q.pc = "create" => q.password \in Password)
    BY <1>r, <2>1, <2>2 DEF Moved, Request, Pcs
  <2>4. RequestInv(q)'
    BY <2>3 DEF RequestInv, Mails
  <2>. QED
    BY <2>2, <2>3, <2>4, OneRequestMoves
<1>2. CASE CreateAccount(h)
  <2>1. CASE ~ Exists(handler[h].email)
    <3>1. handler[h].email \in Email /\ fresh <= MaxToken /\ uids < MaxUid
      BY <1>r, <1>2, <2>1 DEF CreateAccount, RequestInv
    <3>2. /\ fresh \in Token /\ fresh # 0 /\ uids + 1 \in Uid /\ fresh < fresh'
          /\ uids + 1 \in 1 .. uids'
      BY <1>2, <2>1, <3>1, Bounds DEF CreateAccount, CountInv, Token, Uid
    <3>3. PICK q : q = [Moved(handler[h], "new") EXCEPT !.token = fresh, !.uid = uids + 1]
      OBVIOUS
    <3>4. q \in Request /\ q.pc = "new" /\ q.email \in Email /\ q.token = fresh /\ q.uid = uids + 1
      BY <1>r, <3>1, <3>2, <3>3 DEF Moved, Request, Pcs
    <3>5. RequestInv(q)'
      BY <3>2, <3>4 DEF RequestInv, Mails
    <3>. QED
      BY <1>2, <2>1, <3>3, <3>4, <3>5, OneRequestMoves DEF CreateAccount
  <2>2. CASE Exists(handler[h].email)
    BY <1>2, <2>2, Answered DEF CreateAccount
  <2>. QED
    BY <2>1, <2>2
<1>3. CASE MailRewritten(h)
  <2>1. PICK e : e = handler[h].email
    OBVIOUS
  <2>2. /\ e \in Email /\ fresh <= MaxToken /\ user[e].id \in Uid /\ user[e].id \in 1 .. uids
        /\ uids' = uids
    BY <1>r, <1>3, <2>1, Bounds DEF MailRewritten, RequestInv, Exists, UserInv, UserRow, CountInv, Uid
  <2>3. fresh \in Token /\ fresh # 0 /\ fresh < fresh' /\ fresh \in composed'
    BY <1>3, <2>2, Bounds DEF MailRewritten, Charge, CountInv, Token
  <2>4. PICK q : q = [handler[h] EXCEPT !.pc = "send", !.kind = "registration", !.token = fresh,
                                        !.uid = user[e].id]
    OBVIOUS
  <2>5. /\ q \in Request /\ q.pc = "send" /\ q.kind = "registration" /\ q.email \in Email
        /\ q.token = fresh /\ q.uid = user[e].id
    BY <1>r, <2>1, <2>2, <2>3, <2>4 DEF Request, Pcs, Kinds
  <2>6. RequestInv(q)'
    BY <2>2, <2>3, <2>5 DEF RequestInv, Mails, Kinds
  <2>7. handler' = [handler EXCEPT ![h] = q]
    BY <1>3, <2>1, <2>4 DEF MailRewritten, Charge, HandlerInv
  <2>. QED
    BY <2>5, <2>6, <2>7, OneRequestMoves
<1>4. CASE MailComposed(h)
  <2>1. /\ handler[h].pc \in {"known", "new", "resetMail"} /\ UNCHANGED <<fresh, uids>>
        /\ \E kind \in Kinds, t \in {0, handler[h].token}, i \in {0, handler[h].uid} :
             (t # 0 => handler[h].pc # "known" /\ i = handler[h].uid) /\ Charge(h, kind, t, i)
    BY <1>4 DEF MailComposed, Kinds
  <2>2. PICK kind \in Kinds, t \in {0, handler[h].token}, i \in {0, handler[h].uid} :
             (t # 0 => handler[h].pc # "known" /\ i = handler[h].uid) /\ Charge(h, kind, t, i)
    BY <2>1
  <2>3. /\ handler[h].email \in Email /\ t \in Token \cup {0} /\ i \in Uid \cup {0}
        /\ (t # 0 => i \in 1 .. uids) /\ t < fresh /\ (t # 0 => t \in composed')
    BY <1>r, <2>1, <2>2, Bounds DEF RequestInv, Request, Mails, Charge, CountInv
  <2>4. PICK q : q = [handler[h] EXCEPT !.pc = "send", !.kind = kind, !.token = t, !.uid = i]
    OBVIOUS
  <2>5. /\ q \in Request /\ q.pc = "send" /\ q.kind \in Kinds /\ q.email \in Email
        /\ q.token = t /\ q.uid = i
    BY <1>r, <2>2, <2>3, <2>4 DEF Request, Pcs
  <2>6. RequestInv(q)'
    BY <2>1, <2>3, <2>5 DEF RequestInv, Mails
  <2>7. handler' = [handler EXCEPT ![h] = q]
    BY <2>2, <2>4 DEF Charge, HandlerInv
  <2>. QED
    BY <2>5, <2>6, <2>7, OneRequestMoves
<1>5. CASE CreateReset(h)
  <2>1. CASE handler[h].uid \in Ids
    <3>1. /\ handler[h].email \in Email /\ handler[h].uid \in 1 .. uids /\ fresh <= MaxToken
          /\ uids' = uids
      BY <1>r, <1>5, <2>1, Bounds DEF CreateReset, RequestInv, Ids, UserInv, UserRow, CountInv, Uid
    <3>2. fresh \in Token /\ fresh # 0 /\ fresh < fresh'
      BY <1>5, <2>1, <3>1, Bounds DEF CreateReset, CountInv, Token
    <3>3. PICK q : q = [handler[h] EXCEPT !.pc = "resetMail", !.token = fresh]
      OBVIOUS
    <3>4. /\ q \in Request /\ q.pc = "resetMail" /\ q.email \in Email /\ q.token = fresh
          /\ q.uid = handler[h].uid
      BY <1>r, <3>1, <3>2, <3>3 DEF Request, Pcs
    <3>5. RequestInv(q)'
      BY <3>1, <3>2, <3>4 DEF RequestInv, Mails
    <3>6. handler' = [handler EXCEPT ![h] = q]
      BY <1>5, <2>1, <3>3 DEF CreateReset, HandlerInv
    <3>. QED
      BY <3>4, <3>5, <3>6, OneRequestMoves
  <2>2. CASE handler[h].uid \notin Ids
    BY <1>5, <2>2, Answered DEF CreateReset
  <2>. QED
    BY <2>1, <2>2
<1>6. CASE ClearFailures(h)
  <2>1. PICK q : q = Moved(handler[h], "issue")
    OBVIOUS
  <2>2. q \in Request /\ q.pc = "issue" /\ q.email \in Email
    BY <1>r, <1>6, <2>1 DEF ClearFailures, Moved, Request, Pcs, RequestInv
  <2>3. RequestInv(q)'
    BY <2>2 DEF RequestInv, Mails
  <2>. QED
    BY <1>6, <2>1, <2>2, <2>3, OneRequestMoves DEF ClearFailures, Goto
<1>7. CASE \/ Suppress(h) \/ SendAccountMail(h) \/ Activate(h) \/ SpendReset(h)
           \/ ChargeFailedLogin(h) \/ Login(h)
  BY <1>7, Answered DEF Suppress, SendAccountMail, Activate, SpendReset, ChargeFailedLogin, Login
<1>. QED
  BY <1>1, <1>2, <1>3, <1>4, <1>5, <1>6, <1>7 DEF Work

LEMMA HandlersStay ==
  ASSUME IInv, [Next]_vars, UNCHANGED handler
  PROVE  HandlerInv'
<1>1. Request' = Request
  BY DEF Request
<1>2. ASSUME NEW g \in Handler PROVE RequestInv(handler[g])'
  <2>1. PICK r \in Request : r = handler[g] /\ RequestInv(r)
    BY DEF IInv, HandlerInv
  <2>2. RequestInv(r)'
    BY <2>1, RequestStays
  <2>. QED
    BY <2>1, <2>2 DEF RequestInv
<1>. QED
  BY <1>1, <1>2 DEF IInv, HandlerInv

LEMMA HandlerKept == ASSUME IInv, [Next]_vars PROVE HandlerInv'
<1>1. ASSUME NEW h \in Handler, Requests(h) \/ Work(h) \/ Abandon(h) PROVE HandlerInv'
  BY <1>1, Begun, Worked, Answered DEF Abandon
<1>2. ASSUME \/ UNCHANGED vars \/ \E e \in Email : DeleteAccount(e)
             \/ DeleteExpiredUnconfirmedUsers \/ DeleteExpiredPasswordResets \/ Time
      PROVE  UNCHANGED handler
  BY <1>2 DEF vars, DeleteAccount, DeleteExpiredUnconfirmedUsers, DeleteExpiredPasswordResets, Time,
     ConfirmWindowEnds, LoginHourPasses, ResetWindowEnds, MailDayPasses, CommuneChanges
<1>. QED
  BY <1>1, <1>2, HandlersStay DEF Next

-----------------------------------------------------------------------------
(* The letters, and the links to confirm that they carry.                  *)

LetterOf(r) == [kind |-> IF r.kind = "reset" THEN "reset" ELSE "confirm", uid |-> r.uid,
                token |-> r.token]

LEMMA LettersMove ==
  ASSUME IInv, [Next]_vars
  PROVE  \/ letters' = letters
         \/ \E h \in Handler : /\ SendAccountMail(h) /\ handler[h].token # 0
                               /\ letters' = letters \cup {LetterOf(handler[h])}
<1>1. ASSUME NEW h \in Handler, SendAccountMail(h)
      PROVE  \/ letters' = letters
             \/ handler[h].token # 0 /\ letters' = letters \cup {LetterOf(handler[h])}
  BY <1>1 DEF SendAccountMail, LetterOf
<1>2. ASSUME NEW h \in Handler, Requests(h) \/ Work(h) \/ Abandon(h), ~ SendAccountMail(h)
      PROVE  UNCHANGED letters
  BY <1>2 DEF Requests, Register, Confirm, RequestPasswordReset, ResetPassword, ValidateCredentials,
     Work, Abandon, ClaimUnconfirmedAccount, CreateAccount, Suppress, MailRewritten, MailComposed,
     Activate, CreateReset, SpendReset, ChargeFailedLogin, ClearFailures, Login
<1>3. ASSUME \/ \E e \in Email : DeleteAccount(e)
             \/ DeleteExpiredUnconfirmedUsers \/ DeleteExpiredPasswordResets \/ Time
      PROVE  UNCHANGED letters
  BY <1>3 DEF DeleteAccount, DeleteExpiredUnconfirmedUsers, DeleteExpiredPasswordResets, Time,
     ConfirmWindowEnds, LoginHourPasses, ResetWindowEnds, MailDayPasses, CommuneChanges
<1>. QED
  BY <1>1, <1>2, <1>3 DEF Next, vars

LEMMA ComposedTokens == ASSUME IInv, [Next]_vars PROVE composed' \subseteq Token
<1> USE DEF IInv
<1>1. ASSUME NEW h \in Handler, MailRewritten(h) PROVE composed' \subseteq Token
  <2>1. fresh \in Token
    BY <1>1, Bounds DEF MailRewritten, CountInv, Token
  <2>. QED
    BY <1>1, <2>1 DEF MailRewritten, Charge, LetterInv
<1>2. ASSUME NEW h \in Handler, MailComposed(h) PROVE composed' \subseteq Token
  <2>1. handler[h].token \in Token \cup {0}
    BY DEF HandlerInv, Request
  <2>. QED
    BY <1>2, <2>1 DEF MailComposed, Charge, LetterInv
<1>3. ASSUME NEW h \in Handler, Requests(h) \/ Work(h) \/ Abandon(h), ~ MailRewritten(h),
             ~ MailComposed(h)
      PROVE  UNCHANGED composed
  BY <1>3 DEF Requests, Register, Confirm, RequestPasswordReset, ResetPassword, ValidateCredentials,
     Work, Abandon, ClaimUnconfirmedAccount, CreateAccount, Suppress, SendAccountMail, Activate,
     CreateReset, SpendReset, ChargeFailedLogin, ClearFailures, Login
<1>4. ASSUME \/ \E e \in Email : DeleteAccount(e)
             \/ DeleteExpiredUnconfirmedUsers \/ DeleteExpiredPasswordResets \/ Time
      PROVE  UNCHANGED composed
  BY <1>4 DEF DeleteAccount, DeleteExpiredUnconfirmedUsers, DeleteExpiredPasswordResets, Time,
     ConfirmWindowEnds, LoginHourPasses, ResetWindowEnds, MailDayPasses, CommuneChanges
<1>. QED
  BY <1>1, <1>2, <1>3, <1>4 DEF Next, vars, LetterInv

LEMMA LetterKept == ASSUME IInv, [Next]_vars PROVE LetterInv'
<1>1. {uids, uids'} \subseteq Nat /\ uids <= uids' /\ Letter' = Letter
  BY CountKept DEF Letter
<1>2. letters \subseteq Letter /\ \A l \in letters : l.uid \in Nat /\ l.uid <= uids
  BY DEF IInv, LetterInv, Letter, Uid
<1>3. ASSUME NEW h \in Handler, SendAccountMail(h), handler[h].token # 0
      PROVE  LetterOf(handler[h]) \in Letter /\ LetterOf(handler[h]).uid \in 1 .. uids
  <2>1. handler[h].token \in Token /\ handler[h].uid \in Uid /\ handler[h].uid \in 1 .. uids
    BY <1>1, <1>3 DEF SendAccountMail, IInv, HandlerInv, Request, RequestInv, Mails, Uid
  <2>. QED
    BY <2>1 DEF LetterOf, Letter
<1>4. letters' \subseteq Letter /\ \A l \in letters' : l.uid \in Nat /\ l.uid <= uids
  BY <1>1, <1>2, <1>3, LettersMove
<1>. QED
  BY <1>1, <1>4, ComposedTokens DEF LetterInv

(* Only three steps make a request the holder of a letter, or of a link to *)
(* mail.                                                                   *)
LEMMA SendersMove ==
  ASSUME IInv, [Next]_vars, NEW h \in Handler, handler'[h] # handler[h],
         handler'[h].pc \in {"send", "new"}
  PROVE  MailRewritten(h) \/ MailComposed(h) \/ (CreateAccount(h) /\ ~ Exists(handler[h].email))
<1> USE DEF IInv
<1>0. handler \in [Handler -> Request]
  BY DEF HandlerInv
<1>1. ASSUME NEW g \in Handler, NEW q, handler' = [handler EXCEPT ![g] = q], q.pc \notin {"send", "new"}
      PROVE  FALSE
  BY <1>0, <1>1
<1>2. ASSUME NEW g \in Handler, Answer(g) PROVE FALSE
  <2>1. Idle.pc \notin {"send", "new"}
    BY DEF Idle
  <2>. QED
    BY <1>1, <1>2, <2>1 DEF Answer
<1>3. ASSUME NEW g \in Handler, NEW pc, Goto(g, pc), pc \notin {"send", "new"} PROVE FALSE
  <2>1. PICK q : q = Moved(handler[g], pc)
    OBVIOUS
  <2>2. q.pc = pc
    BY <1>0, <2>1 DEF Moved, Request
  <2>. QED
    BY <1>1, <1>3, <2>1, <2>2 DEF Goto
<1>4. ASSUME NEW g \in Handler, Requests(g) PROVE FALSE
  <2>1. ASSUME NEW q, Begin(g, q), q.pc \notin {"send", "new"} PROVE FALSE
    BY <1>1, <2>1 DEF Begin
  <2>. QED
    BY <1>4, <2>1 DEF Requests, Register, Confirm, RequestPasswordReset, ResetPassword,
       ValidateCredentials, Idle
<1>5. ASSUME NEW g \in Handler, ClaimUnconfirmedAccount(g) PROVE FALSE
  <2>1. ASSUME handler' = [handler EXCEPT ![g].pc = "create"] PROVE FALSE
    BY <1>0, <2>1 DEF Request
  <2>. QED
    BY <1>3, <1>5, <2>1 DEF ClaimUnconfirmedAccount, NotClaimed
<1>6. ASSUME NEW g \in Handler, CreateReset(g) PROVE FALSE
  <2>1. ASSUME handler' = [handler EXCEPT ![g].pc = "resetMail", ![g].token = fresh] PROVE FALSE
    BY <1>0, <2>1 DEF Request
  <2>. QED
    BY <1>2, <1>6, <2>1 DEF CreateReset
<1>7. ASSUME NEW g \in Handler,
             \/ Suppress(g) \/ SendAccountMail(g) \/ Activate(g) \/ SpendReset(g)
             \/ ChargeFailedLogin(g) \/ Login(g) \/ Abandon(g) \/ ClearFailures(g)
      PROVE  FALSE
  BY <1>2, <1>3, <1>7 DEF Suppress, SendAccountMail, Activate, SpendReset, ChargeFailedLogin, Login,
     Abandon, ClearFailures
<1>8. ASSUME NEW g \in Handler, CreateAccount(g) PROVE g = h /\ ~ Exists(handler[g].email)
  BY <1>0, <1>2, <1>8 DEF CreateAccount
<1>9. ASSUME NEW g \in Handler, MailRewritten(g) \/ MailComposed(g) PROVE g = h
  BY <1>0, <1>9 DEF MailRewritten, MailComposed, Charge
<1>10. ASSUME \/ UNCHANGED vars \/ \E e \in Email : DeleteAccount(e)
             \/ DeleteExpiredUnconfirmedUsers \/ DeleteExpiredPasswordResets \/ Time
      PROVE  FALSE
  BY <1>10 DEF vars, DeleteAccount, DeleteExpiredUnconfirmedUsers, DeleteExpiredPasswordResets, Time,
     ConfirmWindowEnds, LoginHourPasses, ResetWindowEnds, MailDayPasses, CommuneChanges
<1>. QED
  BY <1>4, <1>5, <1>6, <1>7, <1>8, <1>9, <1>10 DEF Next, Work

(* A link nobody was sent is still not sent to anybody, unless its letter  *)
(* is charged now.                                                         *)
LEMMA LinkStays ==
  ASSUME IInv, [Next]_vars, NEW e \in Email, NEW i \in 1 .. uids, NEW t, Unsent(i, t),
         t \notin composed', user[e].id = i, user'[e].token = t
  PROVE  Unsent(i, t)'
<1> USE DEF IInv
<1>0. handler \in [Handler -> Request] /\ i # 0 /\ i # uids + 1
  BY CountKept DEF HandlerInv
<1>1. ASSUME NEW l \in letters', l.kind = "confirm" PROVE l.uid # i
  <2>1. CASE l \in letters
    BY <1>1, <2>1 DEF Unsent
  <2>2. ASSUME NEW h \in Handler, SendAccountMail(h), handler[h].token # 0, l = LetterOf(handler[h])
        PROVE  l.uid # i
    <3>1. handler[h].kind = "registration" /\ handler[h].pc = "send"
      BY <1>1, <2>2 DEF SendAccountMail, LetterOf, HandlerInv, RequestInv, Kinds
    <3>. QED
      BY <2>2, <3>1 DEF Unsent, Carries, LetterOf
  <2>. QED
    BY <2>1, <2>2, LettersMove
<1>2. ASSUME NEW h \in Handler
      PROVE  /\ ~ Carries(handler[h], i)'
             /\ handler'[h].pc = "new" /\ handler'[h].uid = i => handler'[h].token = t
  <2>1. CASE handler'[h] = handler[h]
    BY <2>1 DEF Unsent, Carries
  <2>2. CASE handler'[h].pc \notin {"send", "new"}
    BY <2>2 DEF Carries
  <2>3. CASE CreateAccount(h) /\ ~ Exists(handler[h].email)
    <3>1. handler'[h] = [Moved(handler[h], "new") EXCEPT !.token = fresh, !.uid = uids + 1]
      BY <1>0, <2>3 DEF CreateAccount
    <3>2. handler'[h].uid = uids + 1 /\ handler'[h].pc = "new"
      BY <1>0, <3>1 DEF Request, Moved
    <3>. QED
      BY <1>0, <3>2 DEF Carries
  <2>4. CASE MailRewritten(h)
    <3>1. PICK f : f = handler[h].email
      OBVIOUS
    <3>2. f \in Email /\ user[f].id # 0 /\ fresh \in composed' /\ fresh # 0
      BY <2>4, <3>1, Bounds DEF MailRewritten, Charge, HandlerInv, RequestInv, Exists, CountInv
    <3>3. handler' = [handler EXCEPT ![h].pc = "send", ![h].kind = "registration",
                                     ![h].token = fresh, ![h].uid = user[f].id]
      BY <2>4, <3>1 DEF MailRewritten, Charge
    <3>4. handler'[h].pc = "send" /\ handler'[h].uid = user[f].id
      BY <1>0, <3>3 DEF Request
    <3>5. f # e
      <4>1. user' = [user EXCEPT ![f].token = fresh]
        BY <2>4, <3>1 DEF MailRewritten
      <4>2. f = e => user'[e].token = fresh
        BY <3>2, <4>1 DEF UserInv, UserRow
      <4>. QED
        BY <3>2, <4>2
    <3>6. user[f].id # i
      BY <1>0, <3>2, <3>5 DEF UserInv
    <3>. QED
      BY <3>4, <3>6 DEF Carries
  <2>5. CASE MailComposed(h)
    <3>1. PICK kind \in Kinds, u \in Token \cup {0}, j \in Uid \cup {0} :
            /\ Charge(h, kind, u, j)
            /\ \/ handler[h].pc = "known" /\ u = 0
               \/ handler[h].pc = "new" /\ u = handler[h].token /\ j = handler[h].uid
               \/ handler[h].pc = "resetMail" /\ kind = "reset"
      <4>1. handler[h].token \in Token \cup {0} /\ handler[h].uid \in Uid \cup {0}
        BY <1>0 DEF Request
      <4>. QED
        BY <2>5, <4>1 DEF MailComposed, Kinds
    <3>2. handler' = [handler EXCEPT ![h].pc = "send", ![h].kind = kind, ![h].token = u, ![h].uid = j]
      BY <3>1 DEF Charge
    <3>3. handler'[h].pc = "send" /\ handler'[h].kind = kind /\ handler'[h].token = u
          /\ handler'[h].uid = j
      BY <1>0, <3>2 DEF Request
    <3>4. u # 0 => u \in composed'
      BY <3>1 DEF Charge
    <3>. QED
      BY <3>1, <3>3, <3>4 DEF Carries, Unsent
  <2>. QED
    BY <2>1, <2>2, <2>3, <2>4, <2>5, SendersMove
<1>. QED
  BY <1>1, <1>2 DEF Unsent

(* An account that is created gets an id no letter was ever about.         *)
LEMMA LinkCreated ==
  ASSUME IInv, [Next]_vars, NEW g \in Handler, CreateAccount(g), ~ Exists(handler[g].email)
  PROVE  \A i, t : i = uids + 1 /\ t = fresh => Unsent(i, t)'
<1> USE DEF IInv
<1>0. handler \in [Handler -> Request] /\ uids \in Nat /\ letters' = letters
  BY CountKept DEF HandlerInv, CreateAccount
<1> SUFFICES ASSUME NEW i, NEW t, i = uids + 1, t = fresh PROVE Unsent(i, t)'
  OBVIOUS
<1>1. \A l \in letters : l.uid # i
  BY <1>0 DEF LetterInv, Letter, Uid
<1>2. ASSUME NEW h \in Handler
      PROVE  /\ ~ Carries(handler[h], i)'
             /\ handler'[h].pc = "new" /\ handler'[h].uid = i => handler'[h].token = t
  <2>1. CASE h = g
    <3>1. handler'[h] = [Moved(handler[h], "new") EXCEPT !.token = fresh, !.uid = uids + 1]
      BY <1>0, <2>1 DEF CreateAccount
    <3>2. handler'[h].pc = "new" /\ handler'[h].token = t
      BY <1>0, <3>1 DEF Request, Moved
    <3>. QED
      BY <3>2 DEF Carries
  <2>2. CASE h # g
    <3>1. handler'[h] = handler[h]
      BY <1>0, <2>2 DEF CreateAccount
    <3>2. handler[h].pc \in {"send", "new"} /\ handler[h].token # 0 => handler[h].uid # i
      BY <1>0 DEF HandlerInv, RequestInv, Mails
    <3>3. handler[h].pc = "new" => handler[h].token # 0
      BY DEF HandlerInv, RequestInv
    <3>. QED
      BY <3>1, <3>2, <3>3 DEF Carries
  <2>. QED
    BY <2>1, <2>2
<1>. QED
  BY <1>0, <1>1, <1>2 DEF Unsent

(* The link of an account changes with its letter, or with the account.    *)
LEMMA TokensMove ==
  ASSUME IInv, [Next]_vars, NEW e \in Email, user'[e].id # 0
  PROVE  \/ user'[e].id = user[e].id /\ user'[e].token = user[e].token
         \/ user'[e].token \in composed'
         \/ \E h \in Handler : /\ CreateAccount(h) /\ ~ Exists(handler[h].email)
                               /\ user'[e].id = uids + 1 /\ user'[e].token = fresh
<1> USE DEF IInv
<1> DEFINE Kept == user'[e].id = user[e].id /\ user'[e].token = user[e].token
<1>0. user \in [Email -> UserRow]
  BY DEF UserInv
<1>1. ASSUME NEW h \in Handler, ClaimUnconfirmedAccount(h) PROVE Kept
  BY <1>0, <1>1 DEF ClaimUnconfirmedAccount, UserRow
<1>2. ASSUME NEW h \in Handler, Activate(h) PROVE Kept
  BY <1>0, <1>2 DEF Activate, UserRow
<1>3. ASSUME NEW h \in Handler, SpendReset(h) PROVE Kept
  <2>1. CASE user' = user
    BY <2>1
  <2>2. ASSUME NEW f, user' = [user EXCEPT ![f].password = handler[h].password, ![f].confirmed = TRUE]
        PROVE  Kept
    BY <1>0, <2>2 DEF UserRow
  <2>. QED
    BY <1>3, <2>1, <2>2 DEF SpendReset
<1>4. ASSUME NEW h \in Handler, MailRewritten(h) PROVE Kept \/ user'[e].token \in composed'
  <2>1. /\ user' = [user EXCEPT ![handler[h].email].token = fresh]
        /\ fresh \in composed'
    BY <1>4, Bounds DEF MailRewritten, Charge, CountInv
  <2>. QED
    BY <1>0, <2>1 DEF UserRow
<1>5. ASSUME NEW h \in Handler, CreateAccount(h)
      PROVE  Kept \/ (~ Exists(handler[h].email) /\ user'[e].id = uids + 1 /\ user'[e].token = fresh)
  BY <1>0, <1>5 DEF CreateAccount
<1>6. ASSUME NEW f \in Email, ConfirmWindowEnds(f) PROVE Kept
  BY <1>0, <1>6 DEF ConfirmWindowEnds, UserRow
<1>7. ASSUME NEW gone, DeleteUsers(gone) PROVE Kept
  BY <1>7 DEF DeleteUsers, NoUser
<1>8. ASSUME NEW h \in Handler, Requests(h) \/ Work(h) \/ Abandon(h), ~ ClaimUnconfirmedAccount(h),
             ~ Activate(h), ~ SpendReset(h), ~ MailRewritten(h), ~ CreateAccount(h)
      PROVE  UNCHANGED user
  BY <1>8 DEF Requests, Register, Confirm, RequestPasswordReset, ResetPassword, ValidateCredentials,
     Work, Abandon, Suppress, MailComposed, SendAccountMail, CreateReset, ChargeFailedLogin,
     ClearFailures, Login
<1>9. ASSUME \/ UNCHANGED vars \/ DeleteExpiredPasswordResets
             \/ (Time /\ ~ \E f \in Email : ConfirmWindowEnds(f))
      PROVE  UNCHANGED user
  BY <1>9 DEF vars, DeleteExpiredPasswordResets, Time, LoginHourPasses, ResetWindowEnds,
     MailDayPasses, CommuneChanges
<1>. QED
  BY <1>1, <1>2, <1>3, <1>4, <1>5, <1>6, <1>7, <1>8, <1>9
     DEF Next, DeleteAccount, DeleteExpiredUnconfirmedUsers

LEMMA LinkKept == ASSUME IInv, [Next]_vars PROVE LinkInv'
<1> SUFFICES ASSUME NEW e \in Email, user'[e].id # 0, user'[e].token \notin composed'
             PROVE  \E i, t : i = user'[e].id /\ t = user'[e].token /\ Unsent(i, t)'
  BY DEF LinkInv, Unsent, Carries
<1>1. PICK i, t : i = user'[e].id /\ t = user'[e].token
  OBVIOUS
<1>2. CASE user'[e].id = user[e].id /\ user'[e].token = user[e].token
  <2>1. i \in 1 .. uids
    BY <1>1, <1>2, Bounds DEF IInv, UserInv, UserRow, Uid, CountInv
  <2>2. Unsent(i, t)
    BY <1>1, <1>2, ComposedGrows DEF IInv, LinkInv
  <2>3. Unsent(i, t)'
    BY <1>1, <1>2, <2>1, <2>2, LinkStays
  <2>. QED
    BY <1>1, <2>3
<1>3. ASSUME NEW h \in Handler, CreateAccount(h), ~ Exists(handler[h].email),
             user'[e].id = uids + 1, user'[e].token = fresh
      PROVE  Unsent(i, t)'
  BY <1>1, <1>3, LinkCreated
<1>. QED
  BY <1>1, <1>2, <1>3, TokensMove

-----------------------------------------------------------------------------
(* The letters of the day.                                                 *)
LEMMA InFlightFinite ==
  ASSUME NEW e, NEW k
  PROVE  /\ IsFiniteSet(InFlight(e, k)) /\ Cardinality(InFlight(e, k)) \in Nat
         /\ IsFiniteSet(InFlight(e, k)') /\ Cardinality(InFlight(e, k)') \in Nat
<1>1. InFlight(e, k) \subseteq Handler /\ InFlight(e, k)' \subseteq Handler
  BY DEF InFlight
<1>2. IsFiniteSet(InFlight(e, k)) /\ IsFiniteSet(InFlight(e, k)')
  BY <1>1, Bounds, FS_Subset
<1>. QED
  BY <1>2, FS_CardinalityType

LEMMA FewerInFlight ==
  ASSUME NEW e, NEW k, InFlight(e, k)' \subseteq InFlight(e, k)
  PROVE  Cardinality(InFlight(e, k)') <= Cardinality(InFlight(e, k))
BY InFlightFinite, FS_Subset

(* A request that is not being charged sends no letter it did not send.    *)
LEMMA NobodyStarts ==
  ASSUME IInv, [Next]_vars, NEW e, NEW k,
         \A h \in Handler : ~ MailRewritten(h) /\ ~ MailComposed(h)
  PROVE  InFlight(e, k)' \subseteq InFlight(e, k)
<1>1. ASSUME NEW h \in Handler, handler'[h].pc = "send", handler'[h] # handler[h] PROVE FALSE
  <2>1. CreateAccount(h) /\ ~ Exists(handler[h].email)
    BY <1>1, SendersMove
  <2>2. handler'[h] = [Moved(handler[h], "new") EXCEPT !.token = fresh, !.uid = uids + 1]
    BY <2>1 DEF IInv, HandlerInv, CreateAccount
  <2>3. handler[h] \in Request
    BY DEF IInv, HandlerInv
  <2>4. handler'[h].pc = "new"
    BY <2>2, <2>3 DEF Moved, Request
  <2>. QED
    BY <1>1, <2>4
<1>. QED
  BY <1>1 DEF InFlight

Limits ==
  \A e \in Email :
    /\ charged[e]["registration"] <= RegistrationLimit
    /\ charged[e]["registration"] + charged[e]["reset"] <= EmailLimit

LEMMA Charging ==
  ASSUME IInv, NEW h \in Handler, NEW kind \in Kinds, NEW t, NEW i, Charge(h, kind, t, i),
         handler[h].email \in Email
  PROVE  ChargeInv'
<1> USE DEF IInv
<1>1. PICK e \in Email : e = handler[h].email
  OBVIOUS
<1>2. charged' = [charged EXCEPT ![e][kind] = @ + 1] /\ charged \in [Email -> [Kinds -> Nat]]
  BY <1>1 DEF Charge, ChargeInv
<1>3. charged' \in [Email -> [Kinds -> Nat]]
  BY <1>2
<1>4. \A f \in Email, k \in Kinds :
        charged'[f][k] = IF f = e /\ k = kind THEN charged[f][k] + 1 ELSE charged[f][k]
  BY <1>2
<1>5. Limits'
  <2> SUFFICES ASSUME NEW f \in Email
               PROVE  /\ charged'[f]["registration"] <= RegistrationLimit
                      /\ charged'[f]["registration"] + charged'[f]["reset"] <= EmailLimit
    BY DEF Limits
  <2>1. /\ charged[f]["registration"] \in Nat /\ charged[f]["reset"] \in Nat
        /\ charged[f]["registration"] <= RegistrationLimit
        /\ charged[f]["registration"] + charged[f]["reset"] <= EmailLimit
    BY <1>2 DEF ChargeInv, Kinds
  <2>2. charged[e]["registration"] + charged[e]["reset"] < LimitOf(kind)
    BY <1>1 DEF Charge, Day
  <2>3. CASE f # e
    BY <1>4, <2>1, <2>3 DEF Kinds
  <2>4. CASE f = e /\ kind = "reset"
    BY <1>4, <2>1, <2>2, <2>4, Bounds DEF LimitOf, Kinds
  <2>5. CASE f = e /\ kind = "registration"
    BY <1>4, <2>1, <2>2, <2>5, Bounds DEF LimitOf, Kinds
  <2>. QED
    BY <2>3, <2>4, <2>5 DEF Kinds
<1>6. /\ handler'[h].email = e /\ handler'[h].kind = kind
      /\ \A g \in Handler : g # h => handler'[g] = handler[g]
  <2>1. handler \in [Handler -> Request]
    BY DEF HandlerInv
  <2>2. handler' = [handler EXCEPT ![h].pc = "send", ![h].kind = kind, ![h].token = t, ![h].uid = i]
    BY DEF Charge
  <2>. QED
    BY <1>1, <2>1, <2>2 DEF Request
<1>7. ASSUME NEW f \in Email, NEW k \in Kinds
      PROVE  Cardinality(InFlight(f, k)') <= charged'[f][k]
  <2>1. Cardinality(InFlight(f, k)) <= charged[f][k] /\ charged[f][k] \in Nat
    BY <1>2 DEF ChargeInv
  <2>2. CASE f = e /\ k = kind
    <3>1. InFlight(f, k)' \subseteq InFlight(f, k) \cup {h}
      BY <1>6 DEF InFlight
    <3>2. /\ IsFiniteSet(InFlight(f, k) \cup {h})
          /\ Cardinality(InFlight(f, k) \cup {h}) \in {Cardinality(InFlight(f, k)),
                                                       Cardinality(InFlight(f, k)) + 1}
      BY InFlightFinite, FS_AddElement
    <3>3. Cardinality(InFlight(f, k)') <= Cardinality(InFlight(f, k) \cup {h})
      BY <3>1, <3>2, FS_Subset
    <3>. QED
      BY <1>4, <2>1, <2>2, <3>2, <3>3, InFlightFinite
  <2>3. CASE ~ (f = e /\ k = kind)
    <3>1. InFlight(f, k)' \subseteq InFlight(f, k)
      BY <1>6, <2>3 DEF InFlight
    <3>. QED
      BY <1>4, <2>1, <2>3, <3>1, FewerInFlight, InFlightFinite
  <2>. QED
    BY <2>2, <2>3
<1>. QED
  BY <1>3, <1>5, <1>7 DEF ChargeInv, Limits

(* A charge is taken back for a letter that could not be composed, or      *)
(* leaves the day; never one that is still being sent.                     *)
LEMMA Uncharging ==
  ASSUME IInv, NEW e \in Email, NEW kind \in Kinds,
         charged' = [charged EXCEPT ![e][kind] = @ - 1],
         \A f \in Email, k \in Kinds : InFlight(f, k)' \subseteq InFlight(f, k),
         Cardinality(InFlight(e, kind)') < charged[e][kind]
  PROVE  ChargeInv'
<1> USE DEF IInv
<1>1. charged \in [Email -> [Kinds -> Nat]]
  BY DEF ChargeInv
<1>2. charged[e][kind] - 1 \in Nat /\ Cardinality(InFlight(e, kind)') <= charged[e][kind] - 1
  <2>1. charged[e][kind] \in Nat /\ Cardinality(InFlight(e, kind)') \in Nat
    BY <1>1, InFlightFinite
  <2>. QED
    BY <2>1
<1>3. \A f \in Email, k \in Kinds :
        charged'[f][k] = IF f = e /\ k = kind THEN charged[f][k] - 1 ELSE charged[f][k]
  BY <1>1
<1>4. charged' \in [Email -> [Kinds -> Nat]]
  BY <1>1, <1>2
<1>5. Limits'
  <2> SUFFICES ASSUME NEW f \in Email
               PROVE  /\ charged'[f]["registration"] <= RegistrationLimit
                      /\ charged'[f]["registration"] + charged'[f]["reset"] <= EmailLimit
    BY DEF Limits
  <2>1. /\ charged[f]["registration"] \in Nat /\ charged[f]["reset"] \in Nat
        /\ charged[f]["registration"] <= RegistrationLimit
        /\ charged[f]["registration"] + charged[f]["reset"] <= EmailLimit
    BY <1>1 DEF ChargeInv, Kinds
  <2>2. /\ charged'[f]["registration"] \in Nat /\ charged'[f]["reset"] \in Nat
        /\ charged'[f]["registration"] <= charged[f]["registration"]
        /\ charged'[f]["reset"] <= charged[f]["reset"]
    BY <1>3, <1>4, <2>1 DEF Kinds
  <2>. QED
    BY <2>1, <2>2, Bounds
<1>6. ASSUME NEW f \in Email, NEW k \in Kinds
      PROVE  Cardinality(InFlight(f, k)') <= charged'[f][k]
  <2>1. CASE f = e /\ k = kind
    BY <1>2, <1>3, <2>1
  <2>2. CASE ~ (f = e /\ k = kind)
    <3>1. Cardinality(InFlight(f, k)') <= Cardinality(InFlight(f, k))
      BY FewerInFlight
    <3>2. Cardinality(InFlight(f, k)) <= charged[f][k] /\ charged'[f][k] = charged[f][k]
          /\ charged[f][k] \in Nat
      BY <1>1, <1>3, <2>2 DEF ChargeInv
    <3>. QED
      BY <3>1, <3>2, InFlightFinite
  <2>. QED
    BY <2>1, <2>2
<1>. QED
  BY <1>4, <1>5, <1>6 DEF ChargeInv, Limits

LEMMA ChargeKept == ASSUME IInv, [Next]_vars PROVE ChargeInv'
<1> USE DEF IInv
<1>1. ASSUME NEW h \in Handler, MailRewritten(h) \/ MailComposed(h) PROVE ChargeInv'
  <2>1. handler[h].email \in Email
    BY <1>1 DEF MailRewritten, MailComposed, HandlerInv, RequestInv
  <2>2. \E kind \in Kinds : \E t, i : Charge(h, kind, t, i)
    BY <1>1 DEF MailRewritten, MailComposed, Kinds
  <2>. QED
    BY <2>1, <2>2, Charging
<1>2. ASSUME \A h \in Handler : ~ MailRewritten(h) /\ ~ MailComposed(h), UNCHANGED charged
      PROVE  ChargeInv'
  <2>1. ASSUME NEW e \in Email, NEW k \in Kinds
        PROVE  Cardinality(InFlight(e, k)') <= charged[e][k]
    <3>1. Cardinality(InFlight(e, k)') <= Cardinality(InFlight(e, k))
      BY <1>2, NobodyStarts, FewerInFlight
    <3>2. Cardinality(InFlight(e, k)) <= charged[e][k] /\ charged[e][k] \in Nat
      BY DEF ChargeInv
    <3>. QED
      BY <3>1, <3>2, InFlightFinite
  <2>. QED
    BY <1>2, <2>1 DEF ChargeInv
<1>3. ASSUME NEW h \in Handler, SendAccountMail(h), charged' # charged PROVE ChargeInv'
  <2>1. PICK e \in Email, kind \in Kinds :
          /\ e = handler[h].email /\ kind = handler[h].kind
          /\ charged' = [charged EXCEPT ![e][kind] = @ - 1]
    BY <1>3 DEF SendAccountMail, HandlerInv, RequestInv
  <2>2. \A f \in Email, k \in Kinds : InFlight(f, k)' \subseteq InFlight(f, k)
    <3>1. \A g \in Handler : handler'[g] = handler[g] \/ handler'[g].pc = "idle"
      BY <1>3 DEF SendAccountMail, Answer, HandlerInv, Idle
    <3>. QED
      BY <3>1 DEF InFlight
  <2>3. h \in InFlight(e, kind) /\ h \notin InFlight(e, kind)'
    BY <1>3, <2>1 DEF SendAccountMail, Answer, HandlerInv, Idle, InFlight
  <2>4. Cardinality(InFlight(e, kind)') < Cardinality(InFlight(e, kind))
    <3>1. InFlight(e, kind)' # InFlight(e, kind) /\ InFlight(e, kind)' \subseteq InFlight(e, kind)
      BY <2>2, <2>3
    <3>2. Cardinality(InFlight(e, kind)') <= Cardinality(InFlight(e, kind))
      BY <3>1, FewerInFlight
    <3>3. Cardinality(InFlight(e, kind)') # Cardinality(InFlight(e, kind))
      BY <3>1, InFlightFinite, FS_Subset
    <3>. QED
      BY <3>2, <3>3, InFlightFinite
  <2>5. Cardinality(InFlight(e, kind)) <= charged[e][kind] /\ charged[e][kind] \in Nat
    BY DEF ChargeInv
  <2>6. Cardinality(InFlight(e, kind)') < charged[e][kind]
    BY <2>4, <2>5, InFlightFinite
  <2>. QED
    BY <2>1, <2>2, <2>6, Uncharging
<1>4. ASSUME NEW e \in Email, NEW kind \in Kinds, MailDayPasses(e, kind) PROVE ChargeInv'
  <2>1. \A f \in Email, k \in Kinds : InFlight(f, k)' = InFlight(f, k)
    BY <1>4 DEF MailDayPasses, InFlight
  <2>2. charged[e][kind] > Cardinality(InFlight(e, kind))
    BY <1>4 DEF MailDayPasses, InFlight
  <2>3. charged[e][kind] \in Nat
    BY DEF ChargeInv
  <2>4. Cardinality(InFlight(e, kind)') < charged[e][kind]
    BY <2>1, <2>2, <2>3, InFlightFinite
  <2>. QED
    BY <1>4, <2>1, <2>4, Uncharging DEF MailDayPasses
<1>5. ASSUME NEW h \in Handler, Requests(h) \/ Work(h) \/ Abandon(h), ~ MailRewritten(h),
             ~ MailComposed(h), ~ SendAccountMail(h)
      PROVE  UNCHANGED charged
  BY <1>5 DEF Requests, Register, Confirm, RequestPasswordReset, ResetPassword, ValidateCredentials,
     Work, Abandon, ClaimUnconfirmedAccount, CreateAccount, Suppress, Activate, CreateReset,
     SpendReset, ChargeFailedLogin, ClearFailures, Login
<1>6. ASSUME \/ UNCHANGED vars \/ \E e \in Email : DeleteAccount(e)
             \/ DeleteExpiredUnconfirmedUsers \/ DeleteExpiredPasswordResets
             \/ (Time /\ ~ \E e \in Email, kind \in Kinds : MailDayPasses(e, kind))
      PROVE  UNCHANGED charged
  BY <1>6 DEF vars, DeleteAccount, DeleteExpiredUnconfirmedUsers, DeleteExpiredPasswordResets, Time,
     ConfirmWindowEnds, LoginHourPasses, ResetWindowEnds, CommuneChanges
<1>. QED
  BY <1>1, <1>2, <1>3, <1>4, <1>5, <1>6 DEF Next, Time

-----------------------------------------------------------------------------
(* The remaining variables have their types.                               *)
LEMMA SessionKept == ASSUME IInv, [Next]_vars PROVE session' \in Sessions(Session, Uid)
<1> USE DEF IInv
<1>0. session \in Sessions(Session, Uid) /\ Gone \in [uid : Uid \cup {0}, state : RowStates]
  BY DEF RestInv, Gone, RowStates
<1>1. ASSUME NEW h \in Handler, SpendReset(h) PROVE session' \in Sessions(Session, Uid)
  BY <1>0, <1>1 DEF SpendReset, EndAllSessions, Sessions
<1>2. ASSUME NEW h \in Handler, Login(h) PROVE session' \in Sessions(Session, Uid)
  <2>1. ASSUME handler[h].uid \in Ids PROVE [uid |-> handler[h].uid, state |-> "live"] \in [uid : Uid \cup {0}, state : RowStates]
    BY <2>1 DEF Ids, UserInv, UserRow, RowStates
  <2>. QED
    BY <1>0, <1>2, <2>1 DEF Login, IssueTokens, Sessions
<1>3. ASSUME NEW gone, DeleteUsers(gone) PROVE session' \in Sessions(Session, Uid)
  BY <1>0, <1>3 DEF DeleteUsers, CascadeSessions, Sessions
<1>4. ASSUME NEW h \in Handler, Requests(h) \/ Work(h) \/ Abandon(h), ~ SpendReset(h), ~ Login(h)
      PROVE  UNCHANGED session
  BY <1>4 DEF Requests, Register, Confirm, RequestPasswordReset, ResetPassword, ValidateCredentials,
     Work, Abandon, ClaimUnconfirmedAccount, CreateAccount, Suppress, MailRewritten, MailComposed,
     SendAccountMail, Activate, CreateReset, ChargeFailedLogin, ClearFailures
<1>5. ASSUME UNCHANGED vars \/ DeleteExpiredPasswordResets \/ Time PROVE UNCHANGED session
  BY <1>5 DEF vars, DeleteExpiredPasswordResets, Time, ConfirmWindowEnds, LoginHourPasses,
     ResetWindowEnds, MailDayPasses, CommuneChanges
<1>. QED
  BY <1>0, <1>1, <1>2, <1>3, <1>4, <1>5 DEF Next, DeleteAccount, DeleteExpiredUnconfirmedUsers

LEMMA FailuresKept == ASSUME IInv, [Next]_vars PROVE failures' \in [Email -> 0 .. LoginLimit]
<1> USE DEF IInv
<1>0. failures \in [Email -> 0 .. LoginLimit] /\ LoginLimit \in Nat
  BY Bounds DEF RestInv
<1>1. ASSUME NEW h \in Handler, SpendReset(h) \/ ClearFailures(h)
      PROVE  failures' \in [Email -> 0 .. LoginLimit]
  BY <1>0, <1>1 DEF SpendReset, ClearFailures
<1>2. ASSUME NEW h \in Handler, ChargeFailedLogin(h) PROVE failures' \in [Email -> 0 .. LoginLimit]
  <2>1. handler[h].email \in Email
    BY <1>2 DEF ChargeFailedLogin, HandlerInv, RequestInv
  <2>. QED
    BY <1>0, <1>2, <2>1 DEF ChargeFailedLogin
<1>3. ASSUME NEW e \in Email, LoginHourPasses(e) PROVE failures' \in [Email -> 0 .. LoginLimit]
  BY <1>0, <1>3 DEF LoginHourPasses
<1>4. ASSUME NEW h \in Handler, Requests(h) \/ Work(h) \/ Abandon(h), ~ SpendReset(h),
             ~ ClearFailures(h), ~ ChargeFailedLogin(h)
      PROVE  UNCHANGED failures
  BY <1>4 DEF Requests, Register, Confirm, RequestPasswordReset, ResetPassword, ValidateCredentials,
     Work, Abandon, ClaimUnconfirmedAccount, CreateAccount, Suppress, MailRewritten, MailComposed,
     SendAccountMail, Activate, CreateReset, Login
<1>5. ASSUME \/ UNCHANGED vars \/ \E e \in Email : DeleteAccount(e)
             \/ DeleteExpiredUnconfirmedUsers \/ DeleteExpiredPasswordResets
             \/ (Time /\ ~ \E e \in Email : LoginHourPasses(e))
      PROVE  UNCHANGED failures
  BY <1>5 DEF vars, DeleteAccount, DeleteExpiredUnconfirmedUsers, DeleteExpiredPasswordResets, Time,
     ConfirmWindowEnds, ResetWindowEnds, MailDayPasses, CommuneChanges
<1>. QED
  BY <1>0, <1>1, <1>2, <1>3, <1>4, <1>5 DEF Next, Time

LEMMA CommuneKept ==
  ASSUME IInv, [Next]_vars PROVE commune' \in [Code -> {"active", "merged", "closed"}]
<1>0. commune \in [Code -> {"active", "merged", "closed"}]
  BY DEF IInv, RestInv
<1>1. ASSUME NEW c \in Code, CommuneChanges(c)
      PROVE  commune' \in [Code -> {"active", "merged", "closed"}]
  BY <1>0, <1>1 DEF CommuneChanges
<1>2. ASSUME NEW h \in Handler, Requests(h) \/ Work(h) \/ Abandon(h) PROVE UNCHANGED commune
  BY <1>2 DEF Requests, Register, Confirm, RequestPasswordReset, ResetPassword, ValidateCredentials,
     Work, Abandon, ClaimUnconfirmedAccount, CreateAccount, Suppress, MailRewritten, MailComposed,
     SendAccountMail, Activate, CreateReset, SpendReset, ChargeFailedLogin, ClearFailures, Login
<1>3. ASSUME \/ UNCHANGED vars \/ \E e \in Email : DeleteAccount(e)
             \/ DeleteExpiredUnconfirmedUsers \/ DeleteExpiredPasswordResets
             \/ (Time /\ ~ \E c \in Code : CommuneChanges(c))
      PROVE  UNCHANGED commune
  BY <1>3 DEF vars, DeleteAccount, DeleteExpiredUnconfirmedUsers, DeleteExpiredPasswordResets, Time,
     ConfirmWindowEnds, ResetWindowEnds, MailDayPasses, LoginHourPasses
<1>. QED
  BY <1>0, <1>1, <1>2, <1>3 DEF Next, Time

-----------------------------------------------------------------------------
LEMMA StepIInv == IInv /\ [Next]_vars => IInv'
<1> SUFFICES ASSUME IInv, [Next]_vars PROVE IInv'
  OBVIOUS
<1>1. CountInv' /\ UserInv' /\ DossierInv' /\ ResetInv'
  BY CountKept, RowsMoveSo, UserKept, DossierKept, ResetKept
<1>2. HandlerInv' /\ LetterInv' /\ LinkInv' /\ ChargeInv'
  BY HandlerKept, LetterKept, LinkKept, ChargeKept
<1>3. RestInv'
  BY SessionKept, FailuresKept, CommuneKept DEF RestInv
<1>. QED
  BY <1>1, <1>2, <1>3 DEF IInv

(* What the requests, the letters and the rows know of each other holds in *)
(* every reachable state.                                                  *)
THEOREM AccountInvariant == Spec => []IInv
BY InitIInv, StepIInv, PTL DEF Spec

(* Every variable keeps its type; no address is charged more letters than  *)
(* its day allows, nor is registration, and no row outlives its account.   *)
THEOREM AccountType == Spec => []TypeOK
<1>1. IInv => TypeOK
  <2> SUFFICES ASSUME IInv PROVE TypeOK
    OBVIOUS
  <2> USE DEF IInv
  <2>1. charged \in [Email -> [Kinds -> 0 .. EmailLimit]]
    <3>1. charged \in [Email -> [Kinds -> Nat]]
      BY DEF ChargeInv
    <3>2. ASSUME NEW e \in Email, NEW k \in Kinds PROVE charged[e][k] \in 0 .. EmailLimit
      <4>1. /\ charged[e]["registration"] \in Nat /\ charged[e]["reset"] \in Nat
            /\ charged[e]["registration"] + charged[e]["reset"] <= EmailLimit
        BY <3>1 DEF ChargeInv, Kinds
      <4>. QED
        BY <4>1, Bounds DEF Kinds
    <3>. QED
      BY <3>1, <3>2
  <2>2. \A h \in Handler :
          /\ handler[h].pc \in Pcs /\ handler[h].email \in Email \cup {None}
          /\ handler[h].token \in Token \cup {0} /\ handler[h].uid \in Uid \cup {0}
    BY DEF HandlerInv, Request
  <2>3. user \in [Email -> [id : Uid \cup {0}, password : Password \cup {None},
                            confirmed : BOOLEAN, token : Token \cup {0}, lapsed : BOOLEAN]]
    BY DEF UserInv, UserRow
  <2>. QED
    BY <2>1, <2>2, <2>3 DEF TypeOK, CountInv, DossierInv, ResetInv, LetterInv, ChargeInv, RestInv
<1>. QED
  BY <1>1, AccountInvariant, PTL

(* A confirmed account leaves no dossier waiting.                          *)
THEOREM NothingLeftBehind == Spec => []NoDossierLeftBehind
<1>1. IInv => NoDossierLeftBehind
  BY DEF IInv, NoDossierLeftBehind, UserInv, UserRow, DossierInv, NoUser
<1>. QED
  BY <1>1, AccountInvariant, PTL

(* A person who was sent a link to confirm an account holds one that was   *)
(* charged and works.                                                      *)
THEOREM LinkWorks == Spec => []OneLinkWorks
<1>1. IInv => OneLinkWorks
  BY DEF IInv, OneLinkWorks, LinkInv, Unsent, LetterInv, Letter, Uid
<1>. QED
  BY <1>1, AccountInvariant, PTL

-----------------------------------------------------------------------------
(* The password.                                                           *)
LEMMA SpendingALink ==
  ASSUME IInv, NEW h \in Handler, SpendReset(h), NEW e \in Email,
         user'[e].password # user[e].password
  PROVE  /\ \E t \in Token : Spendable(t) /\ reset[t].uid = user[e].id
         /\ \A t \in Token : reset[t].uid = user[e].id => reset'[t].used
<1>1. ClaimToken(handler[h].token) /\ handler[h].pc = "spend"
  BY DEF SpendReset
<1>2. PICK r, f : r = handler[h] /\ f = EmailOf(r.uid)
  OBVIOUS
<1>3. r.token \in Token /\ f \in Email /\ user[f].id = r.uid /\ reset[r.token].uid = r.uid
  BY <1>1, <1>2, SpentFor
<1>4. /\ user' = [user EXCEPT ![f].password = r.password, ![f].confirmed = TRUE]
      /\ reset' = SpendAll(r.uid)
  BY <1>1, <1>2 DEF SpendReset
<1>5. e = f
  BY <1>4 DEF IInv, UserInv
<1>6. Spendable(r.token)
  BY <1>1, <1>2 DEF ClaimToken
<1>7. \A t \in Token : reset[t].uid = r.uid => reset'[t].used
  <2>1. reset \in [Token -> ResetRow]
    BY DEF IInv, ResetInv, ResetRow
  <2>. QED
    BY <1>4, <2>1 DEF SpendAll, ResetRow
<1>. QED
  BY <1>3, <1>5, <1>6, <1>7

LEMMA OthersKeepThePassword ==
  ASSUME IInv, [Next]_vars, NEW e \in Email, user[e].confirmed, user'[e].id = user[e].id,
         \A h \in Handler : ~ SpendReset(h)
  PROVE  user'[e].password = user[e].password
<1> USE DEF IInv
<1>0. user \in [Email -> UserRow] /\ user[e].id # 0
  BY DEF UserInv, NoUser
<1>1. ASSUME NEW h \in Handler, ClaimUnconfirmedAccount(h) PROVE user'[e] = user[e]
  <2>1. CASE user' = user
    BY <2>1
  <2>2. ASSUME NEW f, f = handler[h].email, ~ user[f].confirmed,
               user' = [user EXCEPT ![f].password = handler[h].password, ![f].lapsed = FALSE]
        PROVE  user'[e] = user[e]
    BY <1>0, <2>2
  <2>. QED
    BY <1>1, <2>1, <2>2 DEF ClaimUnconfirmedAccount
<1>2. ASSUME NEW h \in Handler, CreateAccount(h) PROVE user'[e] = user[e]
  BY <1>0, <1>2 DEF CreateAccount, Exists
<1>3. ASSUME NEW h \in Handler, Activate(h) \/ MailRewritten(h)
      PROVE  user'[e].password = user[e].password
  BY <1>0, <1>3 DEF Activate, MailRewritten, UserRow
<1>4. ASSUME NEW f \in Email, ConfirmWindowEnds(f) PROVE user'[e].password = user[e].password
  BY <1>0, <1>4 DEF ConfirmWindowEnds, UserRow
<1>5. ASSUME NEW gone, DeleteUsers(gone) PROVE user'[e] = user[e]
  BY <1>0, <1>5 DEF DeleteUsers, NoUser
<1>6. ASSUME NEW h \in Handler, Requests(h) \/ Work(h) \/ Abandon(h), ~ ClaimUnconfirmedAccount(h),
             ~ Activate(h), ~ MailRewritten(h), ~ CreateAccount(h)
      PROVE  UNCHANGED user
  BY <1>6 DEF Requests, Register, Confirm, RequestPasswordReset, ResetPassword, ValidateCredentials,
     Work, Abandon, Suppress, MailComposed, SendAccountMail, CreateReset, ChargeFailedLogin,
     ClearFailures, Login
<1>7. ASSUME \/ UNCHANGED vars \/ DeleteExpiredPasswordResets
             \/ (Time /\ ~ \E f \in Email : ConfirmWindowEnds(f))
      PROVE  UNCHANGED user
  BY <1>7 DEF vars, DeleteExpiredPasswordResets, Time, LoginHourPasses, ResetWindowEnds,
     MailDayPasses, CommuneChanges
<1>. QED
  BY <1>1, <1>2, <1>3, <1>4, <1>5, <1>6, <1>7
     DEF Next, DeleteAccount, DeleteExpiredUnconfirmedUsers

(* The password of a confirmed account changes only by a link that was     *)
(* good, and no link is good after it.                                     *)
THEOREM PasswordNeedsALink == Spec => OnlyALinkChangesThePassword
<1> DEFINE Box == \A e \in Email :
       (user[e].confirmed /\ user'[e].id = user[e].id /\ user'[e].password # user[e].password)
       => /\ \E t \in Token : Spendable(t) /\ reset[t].uid = user[e].id
          /\ \A t \in Token : reset[t].uid = user[e].id => reset'[t].used
<1>1. IInv /\ [Next]_vars => Box
  BY SpendingALink, OthersKeepThePassword
<1>. QED
  BY <1>1, AccountInvariant, PTL DEF Spec, OnlyALinkChangesThePassword

-----------------------------------------------------------------------------
(* The dossier that waits.                                                 *)

(* Following the mergers ends at a commune that was not merged.            *)
LEMMA EndOfTheChain ==
  ASSUME NEW c, NEW succ
  PROVE  \/ ResolveCurrentCode(c, succ) = Unresolved
         \/ ResolveCurrentCode(c, succ) \notin DOMAIN succ
<1> DEFINE at   == Walk(c, succ)
           ends == {n \in 0 .. MaxHops - 1 : at[n] \notin DOMAIN succ}
<1>1. ResolveCurrentCode(c, succ) = IF ends = {} THEN Unresolved ELSE at[CHOOSE n \in ends : TRUE]
  BY DEF ResolveCurrentCode
<1>2. \A n \in ends : at[n] \notin DOMAIN succ
  OBVIOUS
<1>3. ends # {} => (CHOOSE n \in ends : TRUE) \in ends
  OBVIOUS
<1> HIDE DEF at, ends
<1>. QED
  BY <1>1, <1>2, <1>3

OpenedOrClosed(i) ==
  LET end == ResolveCurrentCode(pending[i], Successors)
  IN end \in Code => commune[end] = "closed" \/ <<i, end>> \in sinistre' \ sinistre

LEMMA DrainingOpens ==
  ASSUME IInv, NEW e \in Email, ~ user[e].confirmed, user[e].id # 0, pending[user[e].id] # None,
         DrainPendingDossier(user[e].id)
  PROVE  OpenedOrClosed(user[e].id)
<1> USE DEF IInv
<1>1. PICK i : i = user[e].id
  OBVIOUS
<1>2. PICK end : end = ResolveCurrentCode(pending[i], Successors)
  OBVIOUS
<1>3. \A c : <<i, c>> \notin sinistre
  <2>1. ASSUME NEW c, <<i, c>> \in sinistre PROVE FALSE
    <3>1. PICK f \in Email : user[f].id = <<i, c>>[1] /\ user[f].confirmed
      BY <2>1 DEF DossierInv
    <3>2. user[f].id = user[e].id
      BY <1>1, <3>1
    <3>3. f = e
      BY <3>2 DEF UserInv
    <3>. QED
      BY <3>1, <3>3
  <2>. QED
    BY <2>1
<1>4. CASE end \in Code
  <2>1. end # Unresolved /\ end \notin DOMAIN Successors
    BY <1>2, <1>4, CodeAssumption, EndOfTheChain
  <2>2. commune[end] \in {"active", "closed"}
    BY <1>4, <2>1 DEF Successors, RestInv
  <2>3. CASE commune[end] = "active"
    <3>1. sinistre' = sinistre \cup {<<i, end>>}
      BY <1>1, <1>2, <1>4, <2>1, <2>3 DEF DrainPendingDossier, InForce
    <3>. QED
      BY <1>1, <1>2, <1>3, <3>1 DEF OpenedOrClosed
  <2>4. CASE commune[end] = "closed"
    BY <1>1, <1>2, <2>4 DEF OpenedOrClosed
  <2>. QED
    BY <2>2, <2>3, <2>4
<1>5. CASE end \notin Code
  BY <1>1, <1>2, <1>5 DEF OpenedOrClosed
<1>. QED
  BY <1>4, <1>5

LEMMA DossierStep ==
  ASSUME IInv, [Next]_vars, NEW i \in Ids, pending[i] # None, pending'[i] = None,
         NEW f \in Email, user'[f].id = i
  PROVE  OpenedOrClosed(i)
<1> USE DEF IInv
<1>0. i \in Uid /\ i # 0 /\ pending \in [Uid -> Code \cup {None}]
  BY DEF Ids, UserInv, UserRow, DossierInv
<1>1. ASSUME NEW h \in Handler, ClaimUnconfirmedAccount(h) \/ CreateAccount(h) PROVE FALSE
  <2>1. handler[h].code \in Code \cup {None}
    BY DEF HandlerInv, Request
  <2>2. pending' = pending \/ \E j : pending' = StoreDossier(j, handler[h].code)
    BY <1>1 DEF ClaimUnconfirmedAccount, CreateAccount
  <2>. QED
    BY <1>0, <2>1, <2>2 DEF StoreDossier
<1>2. ASSUME NEW h \in Handler, Activate(h) PROVE OpenedOrClosed(i)
  <2>1. PICK e \in Email : /\ user[e].token = handler[h].token /\ Awaiting(e)
                           /\ DrainPendingDossier(user[e].id)
    BY <1>2 DEF Activate
  <2>2. user[e].id = i
    BY <1>0, <2>1 DEF DrainPendingDossier
  <2>. QED
    BY <1>0, <2>1, <2>2, DrainingOpens DEF Awaiting
<1>3. ASSUME NEW h \in Handler, SpendReset(h) PROVE OpenedOrClosed(i)
  <2>1. ClaimToken(handler[h].token) /\ handler[h].pc = "spend"
    BY <1>3 DEF SpendReset
  <2>2. PICK e : e = EmailOf(handler[h].uid)
    OBVIOUS
  <2>3. e \in Email /\ user[e].id = handler[h].uid
    BY <2>1, <2>2, SpentFor
  <2>4. ~ user[e].confirmed /\ DrainPendingDossier(user[e].id)
    BY <1>3, <2>1, <2>2, <2>3 DEF SpendReset
  <2>5. user[e].id = i
    BY <1>0, <2>4 DEF DrainPendingDossier
  <2>. QED
    BY <1>0, <2>3, <2>4, <2>5, DrainingOpens
<1>4. ASSUME NEW gone, DeleteUsers(gone), 0 \notin gone PROVE FALSE
  BY <1>0, <1>4 DEF DeleteUsers, NoUser
<1>5. ASSUME NEW e \in Email, DeleteAccount(e) PROVE FALSE
  BY <1>4, <1>5 DEF DeleteAccount, Bearer, Exists
<1>6. ASSUME DeleteExpiredUnconfirmedUsers PROVE FALSE
  <2>1. 0 \notin ExpiredUnconfirmed
    BY DEF ExpiredUnconfirmed, UserInv, NoUser
  <2>. QED
    BY <1>4, <1>6, <2>1 DEF DeleteExpiredUnconfirmedUsers
<1>7. ASSUME NEW h \in Handler, Requests(h) \/ Work(h) \/ Abandon(h), ~ ClaimUnconfirmedAccount(h),
             ~ CreateAccount(h), ~ Activate(h), ~ SpendReset(h)
      PROVE  UNCHANGED pending
  BY <1>7 DEF Requests, Register, Confirm, RequestPasswordReset, ResetPassword, ValidateCredentials,
     Work, Abandon, Suppress, MailRewritten, MailComposed, SendAccountMail, CreateReset,
     ChargeFailedLogin, ClearFailures, Login
<1>8. ASSUME UNCHANGED vars \/ DeleteExpiredPasswordResets \/ Time PROVE UNCHANGED pending
  BY <1>8 DEF vars, DeleteExpiredPasswordResets, Time, ConfirmWindowEnds, LoginHourPasses,
     ResetWindowEnds, MailDayPasses, CommuneChanges
<1>. QED
  BY <1>1, <1>2, <1>3, <1>5, <1>6, <1>7, <1>8 DEF Next

(* A dossier that waited is opened where the mergers lead, unless they     *)
(* lead to a closed commune, or nowhere.                                   *)
THEOREM DossierOpened == Spec => OnlyAClosedCommuneCosts
<1> DEFINE Box == \A i \in Ids :
       (pending[i] # None /\ pending'[i] = None /\ \E e \in Email : user'[e].id = i)
       => LET end == ResolveCurrentCode(pending[i], Successors)
          IN end \in Code => commune[end] = "closed" \/ <<i, end>> \in sinistre' \ sinistre
<1>1. IInv /\ [Next]_vars => Box
  BY DossierStep DEF OpenedOrClosed
<1>. QED
  BY <1>1, AccountInvariant, PTL DEF Spec, OnlyAClosedCommuneCosts
=============================================================================
