------------------------------- MODULE Account -------------------------------
(* The account of a person (AuthService): registration, confirmation with  *)
(* the dossier that waited for it, password reset, login, deletion and the *)
(* hourly cleanups.                                                        *)
(*                                                                         *)
(* A handler is one request in flight, and a step of it is one statement   *)
(* or one transaction: requests interleave wherever the code awaits.  A    *)
(* deadline is a flag its passing sets.  Rows of the two counters leave    *)
(* the model when they leave their window: no count sees them any more.    *)
(***************************************************************************)
EXTENDS Naturals, FiniteSets, Sessions, Referential

CONSTANTS
  Email, Password,
  Handler,            \* slots for requests in flight, numbered
  Code, mergesInto,   \* commune codes, and what a merger makes of each
  RegistrationLimit,  \* ACCOUNT_REGISTRATION_MAIL_LIMIT
  EmailLimit,         \* ACCOUNT_EMAIL_LIMIT
  LoginLimit,         \* LOGIN_ATTEMPT_LIMIT
  MaxToken,           \* bound: link tokens ever generated
  MaxUid,             \* bound: User rows ever created
  MaxSession,         \* bound: logins
  MaxEvents,          \* bound: requests begun, windows passed, communes changed
  None

ASSUME LimitAssumption ==
  /\ RegistrationLimit \in Nat /\ EmailLimit \in Nat /\ LoginLimit \in Nat
  /\ RegistrationLimit <= EmailLimit
ASSUME HandlerAssumption == Handler \subseteq Nat /\ IsFiniteSet(Handler)
ASSUME CodeAssumption ==
  mergesInto \in [Code -> Code \cup {None}] /\ None \notin Code /\ Unresolved \notin Code
ASSUME NoneAssumption ==
  None \notin Email \cup Password \cup {"registration", "reset"}
ASSUME BoundAssumption ==
  {MaxToken, MaxUid, MaxSession} \subseteq Nat \ {0} /\ MaxEvents \in Nat

Token   == 1 .. MaxToken
Uid     == 1 .. MaxUid
Session == 1 .. MaxSession

VARIABLES
  user,      \* the User row of an address
  pending,   \* DossierEnAttente by user
  reset,     \* PasswordReset by token
  session,   \* RefreshToken rows
  charged,   \* AccountFormEmail rows of the day, by address and kind of mail
  failures,  \* LoginAttempt rows of the hour
  commune,   \* the referential: in force, merged, or closed
  sinistre,  \* dossiers the drains opened
  handler,   \* the requests in flight
  letters,   \* link letters that reached the mailbox
  composed,  \* tokens a charged letter carries, delivered or not
  fresh, uids, \* the next token, the User rows created so far
  events     \* how many of these so far

vars == <<user, pending, reset, session, charged, failures, commune, sinistre, handler,
          letters, composed, fresh, uids, events>>

NoUser  == [id |-> 0, password |-> None, confirmed |-> FALSE, token |-> 0, lapsed |-> FALSE]
NoReset == [uid |-> 0, used |-> FALSE, lapsed |-> FALSE]
Idle    == [pc |-> "idle", kind |-> None, email |-> None, password |-> None, token |-> 0,
            uid |-> 0, code |-> None]

Kinds == {"registration", "reset"}
Pcs   == {"idle", "claim", "create", "known", "rewritten", "new", "activate", "row", "resetMail",
          "send", "spend", "charge", "clear", "issue"}
Letter == [kind : {"confirm", "reset"}, uid : Uid, token : Token]

TypeOK ==
  /\ user \in [Email -> [id : Uid \cup {0}, password : Password \cup {None},
                         confirmed : BOOLEAN, token : Token \cup {0}, lapsed : BOOLEAN]]
  /\ pending \in [Uid -> Code \cup {None}]
  /\ \A i \in Uid : pending[i] # None => \E e \in Email : user[e].id = i
  /\ reset \in [Token -> [uid : Uid \cup {0}, used : BOOLEAN, lapsed : BOOLEAN]]
  /\ \A t \in Token : reset[t].uid # 0 => \E e \in Email : user[e].id = reset[t].uid
  /\ session \in Sessions(Session, Uid)
  /\ charged \in [Email -> [Kinds -> 0 .. EmailLimit]]
  /\ \A e \in Email :
       /\ charged[e]["registration"] <= RegistrationLimit
       /\ charged[e]["registration"] + charged[e]["reset"] <= EmailLimit
  /\ failures \in [Email -> 0 .. LoginLimit]
  /\ commune \in [Code -> {"active", "merged", "closed"}]
  /\ sinistre \in SUBSET (Uid \X Code)
  /\ \A h \in Handler :
       /\ handler[h].pc \in Pcs /\ handler[h].email \in Email \cup {None}
       /\ handler[h].token \in Token \cup {0} /\ handler[h].uid \in Uid \cup {0}
  /\ letters \in SUBSET Letter /\ composed \in SUBSET Token
  /\ fresh \in 1 .. MaxToken + 1 /\ uids \in 0 .. MaxUid /\ events \in 0 .. MaxEvents

Init ==
  /\ user = [e \in Email |-> NoUser]
  /\ pending = [i \in Uid |-> None]
  /\ reset = [t \in Token |-> NoReset]
  /\ session = NoSessions(Session)
  /\ charged = [e \in Email |-> [k \in Kinds |-> 0]]
  /\ failures = [e \in Email |-> 0]
  /\ commune = [c \in Code |-> "active"]
  /\ sinistre = {}
  /\ handler = [h \in Handler |-> Idle]
  /\ letters = {} /\ composed = {}
  /\ fresh = 1 /\ uids = 0 /\ events = 0

(* ---- rows ---- *)
Exists(e)   == user[e].id # 0
Ids         == {user[e].id : e \in Email} \ {0}
EmailOf(i)  == CHOOSE e \in Email : user[e].id = i
Awaiting(e) == ~ user[e].confirmed /\ ~ user[e].lapsed
InForce(c)  == c \in Code /\ commune[c] = "active"  \* requireActiveCommune
Successors  == [c \in {d \in Code : commune[d] = "merged"} |-> mergesInto[c]]

Happens           == events < MaxEvents /\ events' = events + 1
Begin(h, request) ==                             \* the first slot that is free
  /\ Happens
  /\ handler[h].pc = "idle" /\ \A g \in Handler : g < h => handler[g].pc # "idle"
  /\ handler' = [handler EXCEPT ![h] = request]
Moved(r, pc)      == [r EXCEPT !.pc = pc, !.password = None, !.code = None]
Goto(h, pc)       == handler' = [handler EXCEPT ![h] = Moved(@, pc)]
Answer(h)         == handler' = [handler EXCEPT ![h] = Idle]

(* onDelete: Cascade of the User rows with these ids.                      *)
DeleteUsers(ids) ==
  /\ user' = [e \in Email |-> IF user[e].id \in ids THEN NoUser ELSE user[e]]
  /\ pending' = [i \in Uid |-> IF i \in ids THEN None ELSE pending[i]]
  /\ reset' = [t \in Token |-> IF reset[t].uid \in ids THEN NoReset ELSE reset[t]]
  /\ session' = CascadeSessions(session, ids)
  /\ sinistre' = {s \in sinistre : s[1] \notin ids}

(* ---- register ---- *)
Register(h, e, p, c) ==
  /\ c # None => InForce(c)
  /\ Begin(h, [Idle EXCEPT !.pc = "claim", !.email = e, !.password = p, !.code = c])
  /\ UNCHANGED <<user, pending, reset, session, charged, failures, commune, sinistre,
                 letters, composed, fresh, uids>>

(* Nothing unconfirmed to rewrite: a confirmed account, or none at all.    *)
NotClaimed(h) ==
  IF Exists(handler[h].email) THEN Goto(h, "known")
  ELSE handler' = [handler EXCEPT ![h].pc = "create"]

StoreDossier(i, c) == IF c = None THEN pending ELSE [pending EXCEPT ![i] = c]

RotateOutsideTheCharge(h) ==
  LET r == handler[h]  e == r.email IN
  /\ r.pc = "claim"
  /\ IF Exists(e) /\ ~ user[e].confirmed
     THEN /\ fresh <= MaxToken
          /\ user' = [user EXCEPT ![e].password = r.password, ![e].lapsed = FALSE,
                                  ![e].token = fresh]
          /\ pending' = StoreDossier(user[e].id, r.code)
          /\ fresh' = fresh + 1
          /\ Goto(h, "rewritten")
     ELSE /\ NotClaimed(h)
          /\ UNCHANGED <<user, pending, fresh>>
  /\ UNCHANGED <<reset, session, charged, failures, commune, sinistre, letters, composed,
                 uids, events>>

ClaimUnconfirmedAccount(h) ==
  LET r == handler[h]  e == r.email IN
  /\ r.pc = "claim"
  /\ IF Exists(e) /\ ~ user[e].confirmed
     THEN /\ user' = [user EXCEPT ![e].password = r.password, ![e].lapsed = FALSE]
          /\ pending' = StoreDossier(user[e].id, r.code)
          /\ Goto(h, "rewritten")
     ELSE /\ NotClaimed(h)
          /\ UNCHANGED <<user, pending>>
  /\ UNCHANGED <<reset, session, charged, failures, commune, sinistre, letters, composed,
                 fresh, uids, events>>

CreateAccount(h) ==
  LET r == handler[h]  e == r.email IN
  /\ r.pc = "create"
  /\ IF Exists(e)
     THEN /\ Answer(h)                           \* isUniqueViolationOn email
          /\ UNCHANGED <<user, pending, fresh, uids, events>>
     ELSE /\ fresh <= MaxToken /\ uids < MaxUid
          /\ user' = [user EXCEPT ![e] = [id |-> uids + 1, password |-> r.password,
                        confirmed |-> FALSE, token |-> fresh, lapsed |-> FALSE]]
          /\ pending' = StoreDossier(uids + 1, r.code)
          /\ handler' = [handler EXCEPT ![h] = [Moved(r, "new") EXCEPT !.token = fresh, !.uid = uids + 1]]
          /\ fresh' = fresh + 1 /\ uids' = uids + 1
  /\ UNCHANGED <<reset, session, charged, failures, commune, sinistre, letters, composed, events>>

(* ---- sendAccountMail: count, compose and charge in one transaction under *)
(* ---- the lock of the address; the delivery after it                      *)
Day(e)        == charged[e]["registration"] + charged[e]["reset"]
LimitOf(kind) == IF kind = "reset" THEN EmailLimit ELSE RegistrationLimit

Suppress(h) ==
  LET r == handler[h] IN
  /\ \/ r.pc \in {"known", "rewritten", "new"} /\ Day(r.email) >= RegistrationLimit
     \/ r.pc = "resetMail" /\ Day(r.email) >= EmailLimit
     \* confirmed, or gone, since the claim: nothing left to confirm
     \/ r.pc = "rewritten" /\ (~ Exists(r.email) \/ user[r.email].confirmed)
  /\ Answer(h)
  /\ UNCHANGED <<user, pending, reset, session, charged, failures, commune, sinistre,
                 letters, composed, fresh, uids, events>>

Charge(h, kind, t, i) ==
  /\ Day(handler[h].email) < LimitOf(kind)
  /\ charged' = [charged EXCEPT ![handler[h].email][kind] = @ + 1]
  /\ handler' = [handler EXCEPT ![h].pc = "send", ![h].kind = kind, ![h].token = t, ![h].uid = i]
  /\ composed' = composed \cup ({t} \ {0})

MailRewritten(h) ==
  LET e == handler[h].email IN
  /\ handler[h].pc = "rewritten" /\ fresh <= MaxToken
  /\ Exists(e) /\ ~ user[e].confirmed
  /\ Charge(h, "registration", fresh, user[e].id)
  /\ user' = [user EXCEPT ![e].token = fresh]
  /\ fresh' = fresh + 1
  /\ UNCHANGED <<pending, reset, session, failures, commune, sinistre, letters, uids, events>>

MailComposed(h) ==
  /\ \/ handler[h].pc = "known" /\ Charge(h, "registration", 0, 0)
     \/ handler[h].pc = "new" /\ Charge(h, "registration", handler[h].token, handler[h].uid)
     \/ handler[h].pc = "resetMail" /\ Charge(h, "reset", handler[h].token, handler[h].uid)
  /\ UNCHANGED <<user, pending, reset, session, failures, commune, sinistre, letters, fresh, uids, events>>

SendAccountMail(h) ==
  LET r == handler[h] IN
  /\ r.pc = "send"
  /\ \/ letters' = letters \cup                  \* delivered
          (IF r.token = 0 THEN {}
           ELSE {[kind |-> IF r.kind = "reset" THEN "reset" ELSE "confirm",
                  uid |-> r.uid, token |-> r.token]})
        /\ UNCHANGED charged
     \/ UNCHANGED <<letters, charged>>           \* the transport failed: the charge stays
     \/ charged' = [charged EXCEPT ![r.email][r.kind] = @ - 1]  \* MailCompositionError
        /\ UNCHANGED letters
  /\ Answer(h)
  /\ UNCHANGED <<user, pending, reset, session, failures, commune, sinistre, composed, fresh, uids, events>>

(* ---- confirm ---- *)
Received(kind) == {l.token : l \in {m \in letters : m.kind = kind}}

Confirm(h, t) ==
  /\ \E e \in Email : user[e].token = t /\ ~ user[e].confirmed
  /\ Begin(h, [Idle EXCEPT !.pc = "activate", !.token = t])
  /\ UNCHANGED <<user, pending, reset, session, charged, failures, commune, sinistre,
                 letters, composed, fresh, uids>>

KeepOnRefusal(i) ==
  LET resolved == ResolveCurrentCode(pending[i], Successors)
      code     == IF resolved = Unresolved THEN pending[i] ELSE resolved
  IN IF pending[i] # None /\ InForce(code)
     THEN pending' = [pending EXCEPT ![i] = None] /\ sinistre' = sinistre \cup {<<i, code>>}
     ELSE UNCHANGED <<pending, sinistre>>

WithoutSuccessor(i) ==
  /\ pending' = [pending EXCEPT ![i] = None]
  /\ sinistre' = IF pending[i] # None /\ InForce(pending[i])
                 THEN sinistre \cup {<<i, pending[i]>>} ELSE sinistre

(* create answers 400 for a commune out of force: the row is spent anyway. *)
DrainPendingDossier(i) ==
  LET resolved == ResolveCurrentCode(pending[i], Successors)
      code     == IF resolved = Unresolved THEN pending[i] ELSE resolved
  IN /\ pending' = [pending EXCEPT ![i] = None]
     /\ sinistre' = IF pending[i] # None /\ InForce(code)
                    THEN sinistre \cup {<<i, code>>} ELSE sinistre

Activate(h) ==
  LET t == handler[h].token
      hit == {e \in Email : user[e].token = t /\ Awaiting(e)} IN
  /\ handler[h].pc = "activate"
  /\ IF hit = {}                                 \* confirmed meanwhile, rotated, gone or lapsed
     THEN UNCHANGED <<user, pending, sinistre>>
     ELSE \E e \in hit :
            /\ user' = [user EXCEPT ![e].confirmed = TRUE]
            /\ DrainPendingDossier(user[e].id)
  /\ Answer(h)
  /\ UNCHANGED <<reset, session, charged, failures, commune, letters, composed, fresh, uids, events>>

(* ---- password reset ---- *)
RequestPasswordReset(h, e) ==
  /\ Exists(e)
  /\ Begin(h, [Idle EXCEPT !.pc = "row", !.email = e, !.uid = user[e].id])
  /\ UNCHANGED <<user, pending, reset, session, charged, failures, commune, sinistre,
                 letters, composed, fresh, uids>>

CreateReset(h) ==
  LET r == handler[h] IN
  /\ r.pc = "row"
  /\ IF r.uid \notin Ids
     THEN Answer(h) /\ UNCHANGED <<reset, fresh>>  \* P2003: deleted since the read
     ELSE /\ fresh <= MaxToken
          /\ reset' = [reset EXCEPT ![fresh] = [uid |-> r.uid, used |-> FALSE, lapsed |-> FALSE]]
          /\ handler' = [handler EXCEPT ![h].pc = "resetMail", ![h].token = fresh]
          /\ fresh' = fresh + 1
  /\ UNCHANGED <<user, pending, session, charged, failures, commune, sinistre, letters,
                 composed, uids, events>>

Spendable(t) == reset[t].uid # 0 /\ ~ reset[t].used /\ ~ reset[t].lapsed

ResetPassword(h, t, p) ==
  /\ Spendable(t)
  /\ Begin(h, [Idle EXCEPT !.pc = "spend", !.token = t, !.password = p, !.uid = reset[t].uid])
  /\ UNCHANGED <<user, pending, reset, session, charged, failures, commune, sinistre,
                 letters, composed, fresh, uids>>

ReadBefore(t) == reset[t].uid # 0
ClaimToken(t) == Spendable(t)

SpendAll(i) == [t \in Token |-> IF reset[t].uid = i THEN [reset[t] EXCEPT !.used = TRUE] ELSE reset[t]]

SpendReset(h) ==
  LET r == handler[h] IN
  /\ r.pc = "spend"
  /\ IF ~ ClaimToken(r.token)
     THEN UNCHANGED <<user, pending, reset, session, failures, sinistre>>
     ELSE LET e == EmailOf(r.uid) IN
          /\ reset' = SpendAll(r.uid)
          /\ user' = [user EXCEPT ![e].password = r.password, ![e].confirmed = TRUE]
          /\ IF user[e].confirmed THEN UNCHANGED <<pending, sinistre>>
             ELSE DrainPendingDossier(r.uid)
          /\ session' = EndAllSessions(session, r.uid)
          /\ failures' = [failures EXCEPT ![e] = 0]
  /\ Answer(h)
  /\ UNCHANGED <<charged, commune, letters, composed, fresh, uids, events>>

(* ---- login ---- *)

Accepted(e, p) == Exists(e) /\ user[e].confirmed /\ user[e].password = p

ValidateCredentials(h, e, p) ==
  /\ Begin(h, [Idle EXCEPT !.pc = IF Accepted(e, p) THEN "clear" ELSE "charge",
                           !.email = e, !.uid = IF Accepted(e, p) THEN user[e].id ELSE 0])
  /\ UNCHANGED <<user, pending, reset, session, charged, failures, commune, sinistre,
                 letters, composed, fresh, uids>>

(* Past the limit the answer is a 429 and nothing is recorded.             *)
ChargeFailedLogin(h) ==
  LET e == handler[h].email IN
  /\ handler[h].pc = "charge"
  /\ failures' = IF failures[e] >= LoginLimit THEN failures ELSE [failures EXCEPT ![e] = @ + 1]
  /\ Answer(h)
  /\ UNCHANGED <<user, pending, reset, session, charged, commune, sinistre, letters, composed,
                 fresh, uids, events>>

ClearFailures(h) ==
  /\ handler[h].pc = "clear"
  /\ failures' = [failures EXCEPT ![handler[h].email] = 0]
  /\ Goto(h, "issue")
  /\ UNCHANGED <<user, pending, reset, session, charged, commune, sinistre, letters, composed,
                 fresh, uids, events>>

NeverIssued == {s \in Session : session[s] = Gone}

Login(h) ==
  LET i == handler[h].uid IN
  /\ handler[h].pc = "issue"
  /\ IF i \notin Ids THEN UNCHANGED session      \* P2003: the account is gone, a 401
     ELSE \E s \in NeverIssued : session' = IssueTokens(session, s, i)
  /\ Answer(h)
  /\ UNCHANGED <<user, pending, reset, charged, failures, commune, sinistre, letters, composed,
                 fresh, uids, events>>

(* JwtStrategy asks that the account exists; only a confirmed one was ever *)
(* issued a bearer.                                                        *)
Bearer(e) == Exists(e) /\ user[e].confirmed

DeleteAccount(e) ==
  /\ Bearer(e)
  /\ DeleteUsers({user[e].id})
  /\ UNCHANGED <<charged, failures, commune, handler, letters, composed, fresh, uids, events>>

(* ---- the hourly cleanups ---- *)
ExpiredUnconfirmed == {user[e].id : e \in {f \in Email : user[f].lapsed /\ ~ user[f].confirmed}}

DeleteExpiredUnconfirmedUsers ==
  /\ ExpiredUnconfirmed # {}
  /\ DeleteUsers(ExpiredUnconfirmed)
  /\ UNCHANGED <<charged, failures, commune, handler, letters, composed, fresh, uids, events>>

DeleteExpiredPasswordResets ==
  /\ \E t \in Token : reset[t].lapsed
  /\ reset' = [t \in Token |-> IF reset[t].lapsed THEN NoReset ELSE reset[t]]
  /\ UNCHANGED <<user, pending, session, charged, failures, commune, sinistre, handler, letters,
                 composed, fresh, uids, events>>

(* ---- time, the referential, a restart ---- *)
ConfirmWindowEnds(e) ==
  /\ Happens
  /\ Exists(e) /\ ~ user[e].lapsed
  /\ user' = [user EXCEPT ![e].lapsed = TRUE]
  /\ UNCHANGED <<pending, reset, session, charged, failures, commune, sinistre, handler, letters,
                 composed, fresh, uids>>

ResetWindowEnds(t) ==
  /\ Happens
  /\ reset[t].uid # 0 /\ ~ reset[t].lapsed
  /\ reset' = [reset EXCEPT ![t].lapsed = TRUE]
  /\ UNCHANGED <<user, pending, session, charged, failures, commune, sinistre, handler, letters,
                 composed, fresh, uids>>

(* The day outlives every delivery: a charge still being sent stays.       *)
MailDayPasses(e, kind) ==
  /\ Happens
  /\ charged[e][kind] > Cardinality({h \in Handler : handler[h].pc = "send"
                                       /\ handler[h].email = e /\ handler[h].kind = kind})
  /\ charged' = [charged EXCEPT ![e][kind] = @ - 1]
  /\ UNCHANGED <<user, pending, reset, session, failures, commune, sinistre, handler, letters,
                 composed, fresh, uids>>

LoginHourPasses(e) ==
  /\ Happens
  /\ failures[e] > 0
  /\ failures' = [failures EXCEPT ![e] = @ - 1]
  /\ UNCHANGED <<user, pending, reset, session, charged, commune, sinistre, handler, letters,
                 composed, fresh, uids>>

CommuneChanges(c) ==
  /\ Happens
  /\ InForce(c)
  /\ commune' = [commune EXCEPT ![c] = IF mergesInto[c] = None THEN "closed" ELSE "merged"]
  /\ UNCHANGED <<user, pending, reset, session, charged, failures, sinistre, handler, letters,
                 composed, fresh, uids>>

(* The process dies, or a statement throws: what committed stays.          *)
Abandon(h) ==
  /\ handler[h].pc # "idle"
  /\ Answer(h)
  /\ UNCHANGED <<user, pending, reset, session, charged, failures, commune, sinistre, letters,
                 composed, fresh, uids, events>>

Work(h) ==
  \/ ClaimUnconfirmedAccount(h) \/ CreateAccount(h) \/ Suppress(h) \/ MailRewritten(h)
  \/ MailComposed(h) \/ SendAccountMail(h) \/ Activate(h) \/ CreateReset(h) \/ SpendReset(h)
  \/ ChargeFailedLogin(h) \/ ClearFailures(h) \/ Login(h)

Requests(h) ==
  \/ \E e \in Email, p \in Password, c \in Code \cup {None} : Register(h, e, p, c)
  \/ \E t \in Received("confirm") : Confirm(h, t)
  \/ \E e \in Email : RequestPasswordReset(h, e)
  \/ \E t \in Received("reset"), p \in Password : ResetPassword(h, t, p)
  \/ \E e \in Email, p \in Password : ValidateCredentials(h, e, p)

Time ==
  \/ \E e \in Email : ConfirmWindowEnds(e) \/ LoginHourPasses(e)
  \/ \E t \in Token : ResetWindowEnds(t)
  \/ \E e \in Email, kind \in Kinds : MailDayPasses(e, kind)
  \/ \E c \in Code : CommuneChanges(c)

Next ==
  \/ \E h \in Handler : Requests(h) \/ Work(h) \/ Abandon(h)
  \/ \E e \in Email : DeleteAccount(e)
  \/ DeleteExpiredUnconfirmedUsers \/ DeleteExpiredPasswordResets
  \/ Time

Spec == Init /\ [][Next]_vars

(* While an account waits for its confirmation, a person who was ever sent *)
(* a link for it holds one that works, or a delivery is to blame: register *)
(* rotates the link only inside the charge of the letter that carries the  *)
(* new one, however registrations, the daily limit and confirmations meet. *)
OneLinkWorks ==
  \A l \in letters, e \in Email :
    (l.kind = "confirm" /\ user[e].id = l.uid /\ ~ user[e].confirmed) => user[e].token \in composed

(* A confirmed account holds no waiting dossier: whichever of the two links *)
(* confirmed it took the dossier along, and a registration that comes too  *)
(* late leaves none (claimUnconfirmedAccount, drainPendingDossier).        *)
NoDossierLeftBehind ==
  \A e \in Email : user[e].confirmed => pending[user[e].id] = None

(* Once confirmed, a password changes only by spending a link that was     *)
(* still good, and that leaves no other link good: two resets racing on    *)
(* one link or on two never both succeed (resetPassword).                  *)
OnlyALinkChangesThePassword ==
  [][\A e \in Email :
       (user[e].confirmed /\ user'[e].id = user[e].id /\ user'[e].password # user[e].password)
       => /\ \E t \in Token : Spendable(t) /\ reset[t].uid = user[e].id
          /\ \A t \in Token : reset[t].uid = user[e].id => reset'[t].used]_vars

(* A dossier that waited for the confirmation is opened under the commune  *)
(* its own was merged into since the registration, the one the chain of    *)
(* mergers ends in: it is dropped only when that commune is closed, or     *)
(* with the account.  A chain of MaxHops or more ends in none, and nothing *)
(* is claimed of it (drainPendingDossier).                                 *)
OnlyAClosedCommuneCosts ==
  [][\A i \in Ids : (pending[i] # None /\ pending'[i] = None /\ \E e \in Email : user'[e].id = i)
       => LET end == ResolveCurrentCode(pending[i], Successors)
          IN end \in Code => commune[end] = "closed" \/ <<i, end>> \in sinistre' \ sinistre]_vars
=============================================================================
