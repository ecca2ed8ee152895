----------------------------- MODULE WebSession -----------------------------
(* The session of one browser: tabs that share a cookie jar and each keep  *)
(* an access token in memory (lib/api/session.ts, client.ts), the pages    *)
(* that guard it, log in, log out, delete the account and save a dossier,  *)
(* and the endpoints behind them.                                          *)
(*                                                                         *)
(* A request travels, is served, and its answer travels back; the browser  *)
(* attaches the cookie when it sends and stores one when it receives.      *)
(* An access token bears the number of the refresh token issued with it.   *)
(* A tab sends one request at a time beside its page's query, and leaving  *)
(* a page by a hard navigation gives up what it had in flight.             *)
(***************************************************************************)
EXTENDS Naturals, FiniteSets, Sessions

CONSTANTS
  Tab, Date,
  MaxToken,   \* bound: tokens ever issued
  MaxActs,    \* bound: pages loaded, links and buttons clicked
  MaxFaults,  \* bound: requests and answers the network loses
  None

ASSUME BoundAssumption == MaxToken \in Nat \ {0} /\ {MaxActs, MaxFaults} \subseteq Nat
ASSUME NoneAssumption == None \notin Date

Token == 1 .. MaxToken
Owner == 1                  \* the one account of this browser

VARIABLES
  session,    \* RefreshToken rows
  exists,     \* the account has not been deleted
  dossier,    \* dates of its dossiers, all of one commune and risk
  jar,        \* the refresh_token cookie of the browser, 0 if none
  expired,    \* access tokens past their life
  tab,        \* what each tab shows, holds and awaits
  issued, acts, faults,
  swept       \* refresh ever took a token for stolen

server == <<session, exists, dossier, issued>>
vars   == <<session, exists, dossier, jar, expired, tab, issued, acts, faults, swept>>

Guarded == {"espace", "sinistre", "nouveau"}
Page    == Guarded \cup {"home", "login", "inscription", "apercu"}
Slot    == {"query", "act"}

NoRequest == [at |-> "idle", kind |-> None, page |-> None, date |-> None, next |-> None,
              token |-> 0, cookie |-> 0, new |-> FALSE, again |-> FALSE,
              answer |-> None, got |-> 0]
Quiet     == [at |-> "idle", start |-> 0, cookie |-> 0, answer |-> None, got |-> 0]

(* ---- session.ts, on the state w of a tab ---- *)
Asked(start, cookie) == [Quiet EXCEPT !.at = "sent", !.start = start, !.cookie = cookie]

(* refreshSession: callers join the refresh in flight.                     *)
Join(w, cookie) ==
  IF w.refresh.at = "idle" THEN [w EXCEPT !.refresh = Asked(w.token, cookie)] ELSE w

(* A page loaded afresh: the module state is new, and the header asks for  *)
(* a silent refresh at once, which the page guard shares.                  *)
Loaded(page, date, next, cookie) ==
  [page |-> page, date |-> date, next |-> next, token |-> 0, answered |-> FALSE,
   guard |-> page \in Guarded, save |-> None, conflict |-> None, failed |-> FALSE,
   req |-> [k \in Slot |-> NoRequest], refresh |-> Asked(0, cookie)]

(* router.push: the module state stays, the guard of the page runs.        *)
Navigate(w, page, date, cookie) ==
  LET there  == [w EXCEPT !.page = page, !.date = date, !.next = None, !.conflict = None,
                          !.failed = FALSE]
      asking == page \in Guarded /\ w.token = 0
  IN IF asking THEN Join([there EXCEPT !.guard = TRUE], cookie)
     ELSE [there EXCEPT !.guard = FALSE]

(* The login page already says where to go next.                           *)
RedirectToLogin(w, cookie) ==
  IF w.page = "login" THEN Loaded("login", w.date, w.next, cookie)
  ELSE Loaded("login", None, [page |-> w.page, date |-> w.date], cookie)

Send(w, k, request, cookie) ==
  [w EXCEPT !.req[k] = [request EXCEPT !.at = "sent", !.token = w.token, !.cookie = cookie]]

(* onMutate: a confirming request keeps the question on screen.  What the  *)
(* hook of a page left since would show is shown to nobody; the request it *)
(* had started goes on.                                                    *)
CreateSinistre(w, page, date, new, cookie) ==
  Send([w EXCEPT !.conflict = IF new \/ w.page # page THEN @ ELSE None,
                 !.failed = @ /\ w.page # page], "act",
       [NoRequest EXCEPT !.kind = "create", !.page = page, !.date = date, !.new = new], cookie)

ClearAlways(w) == 0
ClearIfUnchanged(w) == IF w.token = w.refresh.start THEN 0 ELSE w.token

Rejoined(w) == {k \in Slot : w.req[k].at = "refresh"}

FailureIsRefusal(w, outcome, cookie) ==
  IF w.save = None THEN w
  ELSE LET done == [w EXCEPT !.save = None] IN
       IF outcome = "open" THEN CreateSinistre(done, "apercu", w.save, FALSE, cookie)
       ELSE Navigate(done, "inscription", w.save, cookie)

(* dossier-apercu save: a failed refresh says nothing about the cookie.    *)
(* The visitor may have followed a link meanwhile; save has its own date.  *)
SaveAfter(w, outcome, cookie) ==
  IF w.save = None THEN w
  ELSE LET done == [w EXCEPT !.save = None] IN
       CASE outcome = "open" -> CreateSinistre(done, "apercu", w.save, FALSE, cookie)
         [] outcome = "none" -> Navigate(done, "inscription", w.save, cookie)
         [] OTHER            -> [done EXCEPT !.failed = @ \/ w.page = "apercu"]

OnlyIfRefused(outcome) == outcome = "none"
SessionLost(outcome) == outcome # "open"

(* requestRefresh has its answer, and everyone who awaited it goes on: the *)
(* guard, the requests refused with a 401, the save of a dossier.          *)
RefreshSettled(w, outcome, got, cookie) ==
  IF SessionLost(outcome) /\ (w.guard \/ Rejoined(w) # {}) THEN RedirectToLogin(w, cookie)
  ELSE LET token == IF outcome = "open" THEN got ELSE ClearIfUnchanged(w)
           known == [w EXCEPT !.token = token, !.answered = TRUE, !.refresh = Quiet,
                              !.guard = FALSE,
                              !.req = [k \in Slot |->
                                 IF k \in Rejoined(w)
                                 THEN [w.req[k] EXCEPT !.at = "sent", !.token = got,
                                         !.cookie = cookie, !.again = TRUE]
                                 ELSE w.req[k]]]
       IN SaveAfter(known, outcome, cookie)

(* ---- the person ---- *)
Acts(t, w) ==
  /\ acts < MaxActs /\ acts' = acts + 1
  /\ tab' = [tab EXCEPT ![t] = w]
  /\ UNCHANGED <<session, exists, dossier, jar, expired, issued, faults, swept>>

Authenticated(t) == tab[t].token # 0
Free(t)          == tab[t].req["act"].at = "idle" /\ tab[t].save = None
Asking(t)        == tab[t].conflict # None

(* A reload, an address typed in, or a page restored by the back button    *)
(* whose guard runs again on pageshow.                                     *)
Load(t, page, d) ==
  /\ (page = "apercu") = (d # None)
  /\ page \in {"home", "login", "espace", "nouveau", "apercu"}
  /\ Acts(t, Loaded(page, d, None, jar))

Follow(t) ==                    \* a link of the header or of the page
  \/ Authenticated(t) /\ Acts(t, Navigate(tab[t], "espace", None, jar))
  \/ /\ ~ Authenticated(t) /\ tab[t].page # "login"
     /\ Acts(t, Navigate(tab[t], "login",
                         IF tab[t].page = "inscription" THEN tab[t].date ELSE None, jar))

Query(t) ==
  /\ tab[t].page \in Guarded /\ Authenticated(t) /\ tab[t].req["query"].at = "idle"
  /\ Acts(t, Send(tab[t], "query", [NoRequest EXCEPT !.kind = "query"], jar))

Submit(t, page, kind) ==
  /\ tab[t].page = page /\ Free(t)
  /\ Acts(t, Send(tab[t], "act",
                  [NoRequest EXCEPT !.kind = kind, !.page = page, !.date = tab[t].date,
                                    !.next = tab[t].next], jar))

SaveFailed(t)    == tab[t].page = "login" /\ tab[t].failed
Login(t)         == ~ SaveFailed(t) /\ ~ Asking(t) /\ Submit(t, "login", "login")
EndSession(t)    == Authenticated(t) /\ Submit(t, "espace", "logout")
DeleteAccount(t) == Authenticated(t) /\ Submit(t, "espace", "delete")

Save(t) ==
  LET w == tab[t] IN
  /\ w.page = "apercu" /\ Free(t) /\ ~ Asking(t)
  /\ Acts(t, IF Authenticated(t) THEN CreateSinistre(w, w.page, w.date, FALSE, jar)
             ELSE Join([w EXCEPT !.save = w.date, !.failed = FALSE], jar))

RetrySave(t) ==
  /\ SaveFailed(t) /\ Free(t) /\ ~ Asking(t)
  /\ Acts(t, CreateSinistre(tab[t], "login", tab[t].date, FALSE, jar))

SubmitNew(t, d) ==
  /\ tab[t].page = "nouveau" /\ Authenticated(t) /\ Free(t) /\ ~ Asking(t)
  /\ Acts(t, CreateSinistre([tab[t] EXCEPT !.date = d], "nouveau", d, FALSE, jar))

ConfirmNew(t) ==
  /\ Asking(t) /\ Free(t)
  /\ Acts(t, CreateSinistre(tab[t], tab[t].page, tab[t].conflict, TRUE, jar))

OpenExisting(t) ==
  /\ Asking(t) /\ Free(t)
  /\ Acts(t, Navigate(tab[t], "sinistre", None, jar))

EditInstead(t) ==
  /\ Asking(t) /\ Free(t)
  /\ Acts(t, IF tab[t].page = "login" THEN Navigate(tab[t], "apercu", tab[t].date, jar)
             ELSE [tab[t] EXCEPT !.conflict = None, !.failed = FALSE])

(* ---- the API ---- *)
Fresh == issued + 1
Serving(t, k, kind) == tab[t].req[k].at = "sent" /\ tab[t].req[k].kind = kind
Reply(t, k, answer, got) ==
  tab' = [tab EXCEPT ![t].req[k] =
                       [@ EXCEPT !.at = "back", !.answer = answer, !.got = got]]
Bearer(a) == a # 0 /\ a \notin expired /\ exists

ServeLogin(t) ==
  /\ Serving(t, "act", "login")
  /\ IF exists
     THEN /\ issued < MaxToken
          /\ session' = IssueTokens(session, Fresh, Owner) /\ issued' = Fresh
          /\ Reply(t, "act", "ok", Fresh)
     ELSE Reply(t, "act", "refused", 0) /\ UNCHANGED <<session, issued>>
  /\ UNCHANGED <<exists, dossier, jar, expired, acts, faults, swept>>

ServeLogout(t) ==
  LET c == tab[t].req["act"].cookie IN
  /\ Serving(t, "act", "logout")
  /\ session' = IF c = 0 THEN session ELSE Logout(session, c)
  /\ Reply(t, "act", "ok", 0)
  /\ UNCHANGED <<exists, dossier, issued, jar, expired, acts, faults, swept>>

ServeDelete(t) ==
  /\ Serving(t, "act", "delete")
  /\ IF Bearer(tab[t].req["act"].token)
     THEN /\ session' = CascadeSessions(session, {Owner})
          /\ exists' = FALSE /\ dossier' = {}
          /\ Reply(t, "act", "ok", 0)
     ELSE Reply(t, "act", "401", 0) /\ UNCHANGED <<session, exists, dossier>>
  /\ UNCHANGED <<issued, jar, expired, acts, faults, swept>>

(* The same three parameters give back the dossier they belong to; another *)
(* date asks back, unless the person asked for a second one.               *)
ServeCreate(t) ==
  LET r == tab[t].req["act"] IN
  /\ Serving(t, "act", "create")
  /\ IF ~ Bearer(r.token) THEN Reply(t, "act", "401", 0) /\ UNCHANGED dossier
     ELSE IF r.date \in dossier \/ dossier = {} \/ r.new
     THEN dossier' = dossier \cup {r.date} /\ Reply(t, "act", "ok", 0)
     ELSE Reply(t, "act", "409", 0) /\ UNCHANGED dossier
  /\ UNCHANGED <<session, exists, issued, jar, expired, acts, faults, swept>>

ServeQuery(t) ==
  /\ Serving(t, "query", "query")
  /\ Reply(t, "query", IF Bearer(tab[t].req["query"].token) THEN "ok" ELSE "401", 0)
  /\ UNCHANGED <<server, jar, expired, acts, faults, swept>>

Goes(t, at) == tab' = [tab EXCEPT ![t].refresh = [@ EXCEPT !.at = at]]
Refreshed(t, answer, got) ==
  tab' = [tab EXCEPT ![t].refresh = [@ EXCEPT !.at = "back", !.answer = answer, !.got = got]]
Row(t) == IF tab[t].refresh.cookie = 0 THEN Gone ELSE session[tab[t].refresh.cookie]

Grant(t, rows) ==
  /\ issued < MaxToken
  /\ session' = IssueTokens(rows, Fresh, Owner) /\ issued' = Fresh
  /\ Refreshed(t, "open", Fresh)

Rotate(t) ==
  /\ tab[t].refresh.at = "sent"
  /\ CASE tab[t].refresh.cookie = 0 -> Refreshed(t, "none", 0) /\ UNCHANGED <<session, issued>>
       [] tab[t].refresh.cookie # 0 /\ Row(t).state = "live" -> Grant(t, RotateToken(session, tab[t].refresh.cookie))
       [] OTHER                     -> Goes(t, "reused") /\ UNCHANGED <<session, issued>>
  /\ UNCHANGED <<exists, dossier, jar, expired, acts, faults, swept>>

WithoutGrace(state) == IF state = "gone" THEN "none" ELSE "sweep"
Verdict(state) == CASE state = "gone" -> "none" [] state = "graced" -> "grant" [] OTHER -> "sweep"

Reused(t) ==
  LET verdict == Verdict(Row(t).state) IN
  /\ tab[t].refresh.at = "reused"
  /\ IF verdict = "none" THEN Refreshed(t, "none", 0) ELSE Goes(t, verdict)
  /\ UNCHANGED <<server, jar, expired, acts, faults, swept>>

GrantAgain(t) ==
  /\ tab[t].refresh.at = "grant"
  /\ IF exists THEN Grant(t, session) ELSE Refreshed(t, "none", 0) /\ UNCHANGED <<session, issued>>
  /\ UNCHANGED <<exists, dossier, jar, expired, acts, faults, swept>>

Sweep(t) ==
  /\ tab[t].refresh.at = "sweep"
  /\ session' = EndAllSessions(session, Owner) /\ swept' = TRUE
  /\ Refreshed(t, "none", 0)
  /\ UNCHANGED <<exists, dossier, issued, jar, expired, acts, faults>>

(* ---- answers ---- *)
RefreshAnswered(t) ==
  LET r == tab[t].refresh  cookie == IF r.answer = "open" THEN r.got ELSE jar IN
  /\ r.at = "back"
  /\ jar' = cookie
  /\ tab' = [tab EXCEPT ![t] = RefreshSettled(tab[t], r.answer, r.got, cookie)]
  /\ UNCHANGED <<server, expired, acts, faults, swept>>

(* performFetch on a 401: one refresh, one retry, then the login page.     *)
Unauthorized(w, k, cookie) ==
  IF w.req[k].again THEN RedirectToLogin(w, cookie)
  ELSE Join([w EXCEPT !.req[k].at = "refresh"], cookie)

LoggedIn(w, r, cookie) ==
  LET in == [w EXCEPT !.token = r.got] IN
  CASE r.date # None -> CreateSinistre(in, r.page, r.date, FALSE, cookie)
    [] r.date = None /\ r.next # None -> Navigate(in, r.next.page, r.next.date, cookie)
    [] OTHER -> Navigate(in, "espace", None, cookie)

After(w, k, cookie) ==
  LET r    == w.req[k]
      done == [w EXCEPT !.req[k] = NoRequest] IN
  CASE r.answer = "401" -> Unauthorized(w, k, cookie)
    [] r.answer # "401" /\ r.kind = "logout" -> Loaded("login", None, None, cookie)
    [] r.answer # "401" /\ r.kind = "query" -> done
    [] r.answer = "ok" /\ r.kind = "login" -> LoggedIn(done, r, cookie)
    [] r.answer = "ok" /\ r.kind = "delete" -> Loaded("home", None, None, cookie)
    [] r.answer = "ok" /\ r.kind = "create" -> Navigate(done, "sinistre", None, cookie)
    [] r.answer = "409" /\ r.kind = "create" ->
         [done EXCEPT !.conflict = IF w.page = r.page THEN r.date ELSE @]
    [] OTHER -> [done EXCEPT !.failed = @ \/ (r.kind = "create" /\ w.page = r.page)]

Answered(t, k) ==
  LET r      == tab[t].req[k]
      cookie == CASE r.answer = "ok" /\ r.kind = "login" -> r.got
                  [] r.answer = "ok" /\ r.kind \in {"logout", "delete"} -> 0
                  [] OTHER -> jar
  IN /\ r.at = "back"
     /\ jar' = cookie
     /\ tab' = [tab EXCEPT ![t] = After(tab[t], k, cookie)]
     /\ UNCHANGED <<server, expired, acts, faults, swept>>

(* The network loses a request or its answer: fetch rejects.               *)
RefreshFails(t) ==
  /\ tab[t].refresh.at \in {"sent", "back"} /\ faults < MaxFaults
  /\ faults' = faults + 1
  /\ tab' = [tab EXCEPT ![t] = RefreshSettled(tab[t], "failed", 0, jar)]
  /\ UNCHANGED <<server, jar, expired, acts, swept>>

RequestFails(t, k) ==
  /\ tab[t].req[k].at \in {"sent", "back"} /\ faults < MaxFaults
  /\ faults' = faults + 1
  /\ tab' = [tab EXCEPT ![t] = After([tab[t] EXCEPT !.req[k].answer = "failed"], k, jar)]
  /\ UNCHANGED <<server, jar, expired, acts, swept>>

(* ---- time ---- *)
AccessExpires(a) ==
  /\ a \in {tab[t].token : t \in Tab} \ (expired \cup {0})
  /\ expired' = expired \cup {a}
  /\ UNCHANGED <<server, jar, tab, acts, faults, swept>>

(* A refresh takes less than the grace, unless it is lost altogether.      *)
GracePasses(s) ==
  /\ session[s].state = "graced"
  /\ \A t \in Tab : tab[t].refresh.at # "idle" => tab[t].refresh.cookie # s
  /\ session' = GraceEnds(session, s)
  /\ UNCHANGED <<exists, dossier, jar, expired, tab, issued, acts, faults, swept>>

(* The browser comes with a session of earlier, or without one and perhaps *)
(* with a tab on the login page, reached from a preview with its date.     *)
Init ==
  /\ jar \in {0, 1} /\ issued = jar
  /\ session = IF jar = 0 THEN NoSessions(Token) ELSE IssueTokens(NoSessions(Token), jar, Owner)
  /\ dossier \in {{}} \cup {{d} : d \in Date}
  /\ exists = TRUE /\ expired = {}
  /\ \E d \in Date \cup {None}, entry \in Tab :
       /\ jar # 0 => d = None
       /\ tab = [t \in Tab |->
                   [(IF t = entry /\ d # None THEN Loaded("login", d, None, 0)
                                              ELSE Loaded("home", None, None, 0))
                    EXCEPT !.answered = TRUE, !.refresh = Quiet]]
       /\ acts = IF d = None THEN 0 ELSE 1
  /\ faults = 0 /\ swept = FALSE

Person(t) ==
  \/ \E page \in Page, d \in Date \cup {None} : Load(t, page, d)
  \/ Follow(t) \/ Query(t) \/ Login(t) \/ EndSession(t) \/ DeleteAccount(t)
  \/ Save(t) \/ RetrySave(t) \/ ConfirmNew(t) \/ OpenExisting(t) \/ EditInstead(t)
  \/ \E d \in Date : SubmitNew(t, d)

Served(t) ==
  \/ ServeLogin(t) \/ ServeLogout(t) \/ ServeDelete(t) \/ ServeCreate(t) \/ ServeQuery(t)
  \/ Rotate(t) \/ Reused(t) \/ GrantAgain(t) \/ Sweep(t)

Arrives(t) == RefreshAnswered(t) \/ \E k \in Slot : Answered(t, k)

Next ==
  \/ \E t \in Tab : Person(t) \/ Served(t) \/ Arrives(t) \/ RefreshFails(t)
                    \/ \E k \in Slot : RequestFails(t, k)
  \/ \E s \in Token : AccessExpires(s) \/ GracePasses(s)

Spec == Init /\ [][Next]_vars

(* The tabs of one browser never log it out of everything: a refresh takes *)
(* a token for stolen only if the network lost a request, however tabs,    *)
(* reloads, logins and logouts interleave, as long as a refresh takes less *)
(* than the grace (REFRESH_ROTATION_GRACE_MS).                             *)
NoForcedLogout == swept => faults > 0

(* A login is never undone by the refusal of an older refresh: a tab that  *)
(* stays on its page drops its token only for a refresh that set out with  *)
(* that very token (requestRefresh, clearIfUnchanged).                     *)
LoginStands ==
  [][\A t \in Tab :
       (tab[t].token # 0 /\ tab'[t].token = 0 /\ tab'[t].answered)
       => tab[t].refresh.start = tab[t].token]_vars

(* Saving a dossier sends to the registration only a visitor whose cookie  *)
(* opens no session: a request that failed is not an answer about it       *)
(* (RefreshOutcome, dossier-apercu save).                                  *)
StrangerHasNoSession ==
  [][\A t \in Tab :
       (tab[t].save # None /\ tab'[t].save = None /\ tab'[t].page = "inscription")
       => tab[t].refresh.cookie \notin Live(session)]_vars

(* A guarded page never checks for ever: while it shows no content a       *)
(* refresh is on its way whose answer will show it or lead to the login,   *)
(* whoever asked for that refresh (useSessionGuard, refreshSession).       *)
GuardIsAwaited ==
  \A t \in Tab : (tab[t].page \in Guarded /\ tab[t].token = 0) =>
    /\ tab[t].refresh.at # "idle"
    /\ tab[t].guard \/ Rejoined(tab[t]) # {}

=============================================================================
