------------------------- MODULE WebSession_proofs -------------------------
(***************************************************************************)
(* The session of a browser, for every number of tabs, tokens and dates:   *)
(* its tabs never have it logged out of everything, a page that guards     *)
(* itself has an answer on its way, a login is not undone by an older      *)
(* refresh, and only a visitor without a session is sent to register.      *)
(*                                                                         *)
(* What a tab does to itself keeps the tab consistent (TabInv), whatever   *)
(* the others do.  Between the tabs, the argument follows the tokens: one  *)
(* on its way to the browser is nobody else's, so the cookie of the        *)
(* browser is rotated only by a refresh that carries it, and within the    *)
(* grace as long as that refresh is in flight.                             *)
(***************************************************************************)
EXTENDS WebSession, TLAPS

NextPage == {None} \cup [page : Page, date : Date \cup {None}]

Request ==
  [at : {"idle", "sent", "back", "refresh"},
   kind : {None, "query", "login", "logout", "delete", "create"},
   page : Page \cup {None}, date : Date \cup {None}, next : NextPage,
   token : Nat, cookie : Nat, new : BOOLEAN, again : BOOLEAN,
   answer : {None, "ok", "refused", "401", "409", "failed"}, got : Nat]

Refresh ==
  [at : {"idle", "sent", "reused", "grant", "sweep", "back"}, start : Nat, cookie : Nat,
   answer : {None, "open", "none"}, got : Nat]

TabRecord ==
  [page : Page, date : Date \cup {None}, next : NextPage,
   token : Nat, answered : BOOLEAN, guard : BOOLEAN, save : Date \cup {None},
   conflict : Date \cup {None}, failed : BOOLEAN,
   req : [Slot -> Request], refresh : Refresh]

(* ---- one tab ---- *)
Awaited(w) ==
  (w.page \in Guarded /\ w.token = 0) =>
    /\ w.refresh.at # "idle"
    /\ w.guard \/ Rejoined(w) # {}

TabInv(w) ==
  /\ w \in TabRecord
  /\ Awaited(w)
  /\ w.refresh.at # "idle" /\ w.refresh.start # 0 => Rejoined(w) # {}
  /\ w.save # None => w.page # "inscription" /\ w.req["act"].at = "idle"
  /\ w.refresh.at = "back" =>
       w.refresh.answer \in {"open", "none"} /\ (w.refresh.answer = "open" => w.refresh.got # 0)
  /\ w.req["query"].at # "idle" => w.req["query"].kind = "query"
  /\ w.req["act"].at # "idle" => w.req["act"].page \in Page
  /\ \A k \in Slot :
       w.req[k].at = "back" /\ w.req[k].answer = "ok" /\ w.req[k].kind = "login"
       => w.req[k].got # 0

(* ---- the rows and the cookies ---- *)
RowRecord == [uid : {0, Owner}, state : RowStates]

TypeInv ==
  /\ session \in [Token -> RowRecord]
  /\ exists \in BOOLEAN /\ swept \in BOOLEAN
  /\ jar \in Nat /\ issued \in Nat /\ faults \in Nat
  /\ jar <= issued /\ issued <= MaxToken
  /\ tab \in [Tab -> TabRecord]

RowInv ==
  /\ \A s \in Token : session[s].state # "gone" => session[s].uid = Owner /\ s <= issued
  /\ ~ exists => \A s \in Token : session[s].state = "gone"

Is(s, states) == s # 0 => session[s].state \in states

(* What a refresh found out about its cookie stays so.                     *)
CookieOK(r) ==
  /\ r.cookie <= issued
  /\ r.at = "back" /\ r.answer = "none" => Is(r.cookie, RowStates \ {"live"})
  /\ r.at \in {"reused", "grant", "sweep"} =>
       r.cookie # 0 /\ Is(r.cookie, RowStates \ {"live"})

CookieInv == \A t \in Tab : CookieOK(tab[t].refresh)

Place == Slot \cup {"refresh"}

(* The token an answer brings to a tab, by either door.                    *)
Brought(w, p) ==
  IF p = "refresh" THEN IF w.refresh.at = "back" THEN w.refresh.got ELSE 0
  ELSE IF w.req[p].at = "back" THEN w.req[p].got ELSE 0

(* It is known to nobody yet, and brought once.                            *)
BroughtInv ==
  \A t \in Tab, p \in Place : LET n == Brought(tab[t], p) IN
    n # 0 =>
      /\ n <= issued /\ n # jar
      /\ session[n].state \in {"live", "gone"}
      /\ \A u \in Tab : tab[u].refresh.cookie # n
      /\ \A u \in Tab, q \in Place : Brought(tab[u], q) = n => t = u /\ p = q

(* As long as the network loses nothing.                                   *)
Calm(r) ==
  /\ r.at # "sweep"
  /\ r.at # "idle" => Is(r.cookie, RowStates \ {"rotated"})
  /\ r.at = "back" /\ r.answer = "none" => Is(r.cookie, {"gone"})

PeaceInv ==
  faults = 0 =>
    /\ swept = FALSE
    /\ Is(jar, RowStates \ {"rotated"})
    /\ jar # 0 /\ session[jar].state = "graced" =>
         \E t \in Tab : tab[t].refresh.at # "idle" /\ tab[t].refresh.cookie = jar
    /\ \A t \in Tab : Calm(tab[t].refresh)

IInv == 
  /\ TypeInv /\ (\A t \in Tab : TabInv(tab[t]))
  /\ RowInv /\ CookieInv /\ BroughtInv /\ PeaceInv

-----------------------------------------------------------------------------
(* What a tab may make of itself: w becomes v, with cookie c in the jar.   *)
Moves(w, v, c) ==
  /\ TabInv(v)
  /\ v.refresh = w.refresh \/ \E start \in Nat : v.refresh = Asked(start, c)
  /\ \A k \in Slot : v.req[k] = w.req[k] \/ v.req[k].at # "back"
  /\ v.answered => v.token = w.token \/ v.token # 0
  /\ w.save # None /\ v.save = None => v.page # "inscription"

(* A page loaded afresh keeps nothing.                                     *)
LEMMA LoadedMoves ==
  ASSUME NEW w, NEW page \in Page \ {"inscription"}, NEW date \in Date \cup {None}, NEW next \in NextPage,
         NEW c \in Nat
  PROVE  Moves(w, Loaded(page, date, next, c), c)
<1> DEFINE v == Loaded(page, date, next, c)
<1>0. NoRequest \in Request /\ Asked(0, c) \in Refresh
  BY DEF NoRequest, Request, Asked, Quiet, Refresh, NextPage
<1>1. v \in TabRecord
  BY <1>0, NoneAssumption DEF Loaded, TabRecord, Slot
<1>2. /\ v.req = [k \in Slot |-> NoRequest] /\ v.refresh = Asked(0, c) /\ v.save = None
      /\ v.page = page /\ v.token = 0 /\ v.guard = (page \in Guarded) /\ v.answered = FALSE
  BY DEF Loaded
<1>3. /\ NoRequest.at = "idle"
      /\ Asked(0, c).at = "sent" /\ Asked(0, c).start = 0
  BY DEF NoRequest, Asked, Quiet
<1>4. TabInv(v)
  BY <1>1, <1>2, <1>3 DEF TabInv, Awaited, Slot
<1> QED BY <1>2, <1>3, <1>4 DEF Moves, Slot

(* refreshSession, for whoever has a reason to wait for it.                *)
LEMMA JoinMoves ==
  ASSUME NEW w, TabInv(w), NEW c \in Nat, w.token # 0 => Rejoined(w) # {}
  PROVE  Moves(w, Join(w, c), c) /\ Join(w, c).token = w.token
<1>0. w \in TabRecord BY DEF TabInv
<1>1. CASE w.refresh.at # "idle"
  <2>1. Join(w, c) = w
    BY <1>1 DEF Join
  <2> QED BY <2>1 DEF Moves
<1>2. CASE w.refresh.at = "idle"
  <2> DEFINE v == Join(w, c)
  <2>1. v = [w EXCEPT !.refresh = Asked(w.token, c)]
    BY <1>2 DEF Join
  <2>2. /\ Asked(w.token, c) \in Refresh /\ Asked(w.token, c).at = "sent"
        /\ Asked(w.token, c).start = w.token
    BY <1>0 DEF Asked, Quiet, Refresh, TabRecord
  <2>3. /\ v \in TabRecord /\ v.refresh = Asked(w.token, c) /\ v.req = w.req /\ v.page = w.page
        /\ v.token = w.token /\ v.guard = w.guard /\ v.save = w.save /\ v.answered = w.answered
    BY <1>0, <2>1, <2>2 DEF TabRecord
  <2>4. Rejoined(v) = Rejoined(w)
    BY <2>3 DEF Rejoined
  <2>5. TabInv(v)
    BY <1>2, <2>2, <2>3, <2>4 DEF TabInv, Awaited
  <2>6. w.token \in Nat
    BY <1>0 DEF TabRecord
  <2> HIDE DEF v
  <2>7. Moves(w, v, c) /\ v.token = w.token
    BY <2>2, <2>3, <2>5, <2>6 DEF Moves
  <2> QED BY <2>7 DEF v
<1> QED BY <1>1, <1>2

(* router.push keeps the module: a guarded page has a token or asks.       *)
LEMMA NavigateMoves ==
  ASSUME NEW w, TabInv(w), NEW page \in Page, NEW date \in Date \cup {None}, NEW c \in Nat,
         w.save # None => page # "inscription"
  PROVE  Moves(w, Navigate(w, page, date, c), c)
<1> DEFINE there(g) == [w EXCEPT !.page = page, !.date = date, !.next = None, !.conflict = None,
                                 !.failed = FALSE, !.guard = g]
           v == Navigate(w, page, date, c)
           asking == page \in Guarded /\ w.token = 0
<1>0. w \in TabRecord BY DEF TabInv
<1>1. ASSUME NEW g \in BOOLEAN
      PROVE  /\ there(g) \in TabRecord
             /\ there(g).page = page /\ there(g).guard = g /\ there(g).token = w.token
             /\ there(g).save = w.save /\ there(g).req = w.req /\ there(g).refresh = w.refresh
             /\ there(g).answered = w.answered
  BY <1>0 DEF TabRecord, NextPage
<1>2. v = IF asking THEN Join(there(TRUE), c) ELSE there(FALSE)
  BY <1>0 DEF Navigate, TabRecord
<1>3. ASSUME NEW g \in BOOLEAN PROVE Rejoined(there(g)) = Rejoined(w)
  BY <1>1 DEF Rejoined
<1>4. CASE ~ asking
  <2> DEFINE u == there(FALSE)
  <2>0. u \in TabRecord /\ u.page = page /\ u.guard = FALSE /\ u.token = w.token /\ u.save = w.save
        /\ u.req = w.req /\ u.refresh = w.refresh /\ u.answered = w.answered
        /\ Rejoined(u) = Rejoined(w)
    BY <1>1, <1>3
  <2> HIDE DEF there
  <2>1. TabInv(u)
    BY <2>0, <1>4 DEF TabInv, Awaited
  <2> QED BY <2>0, <2>1, <1>2, <1>4 DEF Moves
<1>5. CASE asking
  <2> DEFINE u == there(TRUE)
  <2>0. u \in TabRecord /\ u.page = page /\ u.guard = TRUE /\ u.token = 0 /\ u.save = w.save
        /\ u.req = w.req /\ u.refresh = w.refresh /\ u.answered = w.answered
        /\ Rejoined(u) = Rejoined(w)
    BY <1>1, <1>3, <1>5
  <2> HIDE DEF there
  <2>1. CASE w.refresh.at # "idle"
    <3>1. v = u
      BY <1>2, <1>5, <2>0, <2>1 DEF Join
    <3>2. TabInv(u)
      BY <2>0, <2>1 DEF TabInv, Awaited
    <3> QED BY <3>1, <3>2, <2>0, <1>5 DEF Moves
  <2>2. CASE w.refresh.at = "idle"
    <3>1. v = [u EXCEPT !.refresh = Asked(0, c)]
      BY <1>2, <1>5, <2>0, <2>2 DEF Join
    <3>2. /\ Asked(0, c) \in Refresh /\ Asked(0, c).at = "sent" /\ Asked(0, c).start = 0
      BY DEF Asked, Quiet, Refresh
    <3>3. /\ v \in TabRecord /\ v.refresh = Asked(0, c) /\ v.req = w.req /\ v.page = page
          /\ v.token = 0 /\ v.guard = TRUE /\ v.save = w.save /\ v.answered = w.answered
      BY <2>0, <3>1, <3>2 DEF TabRecord
    <3> HIDE DEF v
    <3>4. TabInv(v)
      BY <3>2, <3>3 DEF TabInv, Awaited
    <3>5. Moves(w, v, c)
      BY <3>3, <3>4, <1>5 DEF Moves
    <3> QED BY <3>5 DEF v
  <2> QED BY <2>1, <2>2
<1> QED BY <1>4, <1>5

(* Sending a request from a page.                                          *)
LEMMA SendMoves ==
  ASSUME NEW w, TabInv(w), NEW k \in Slot, w.req[k].at # "refresh",
         NEW r \in Request, NEW c \in Nat,
         k = "query" => r.kind = "query", k = "act" => w.save = None /\ r.page \in Page
  PROVE  Moves(w, Send(w, k, r, c), c)
<1> DEFINE v == Send(w, k, r, c)
           q == [r EXCEPT !.at = "sent", !.token = w.token, !.cookie = c]
<1>0. w \in TabRecord /\ w.token \in Nat BY DEF TabInv, TabRecord
<1>1. q \in Request /\ q.at = "sent" /\ q.kind = r.kind /\ q.page = r.page
  BY <1>0 DEF Request
<1>2. v = [w EXCEPT !.req[k] = q]
  BY DEF Send
<1> HIDE DEF q
<1>3. /\ v \in TabRecord /\ v.refresh = w.refresh /\ v.page = w.page /\ v.token = w.token
      /\ v.guard = w.guard /\ v.save = w.save /\ v.answered = w.answered
      /\ v.req = [w.req EXCEPT ![k] = q] /\ w.req \in [Slot -> Request]
  BY <1>0, <1>1, <1>2 DEF TabRecord
<1> HIDE DEF v
<1>4. Rejoined(v) = Rejoined(w)
  BY <1>1, <1>3 DEF Rejoined
<1>5. TabInv(v)
  BY <1>1, <1>3, <1>4 DEF TabInv, Awaited, Slot
<1>6. Moves(w, v, c)
  BY <1>1, <1>3, <1>5 DEF Moves
<1> QED BY <1>6 DEF v

(* The hook of the pages that create a dossier.                            *)
LEMMA CreateMoves ==
  ASSUME NEW w, TabInv(w), w.save = None, w.req["act"].at # "refresh",
         NEW page \in Page, NEW date \in Date \cup {None}, NEW new \in BOOLEAN, NEW c \in Nat
  PROVE  Moves(w, CreateSinistre(w, page, date, new, c), c)
<1> DEFINE u == [w EXCEPT !.conflict = IF new \/ w.page # page THEN @ ELSE None,
                          !.failed = @ /\ w.page # page]
           r == [NoRequest EXCEPT !.kind = "create", !.page = page, !.date = date, !.new = new]
<1>0. w \in TabRecord BY DEF TabInv
<1>1. /\ u \in TabRecord /\ u.refresh = w.refresh /\ u.page = w.page /\ u.token = w.token
      /\ u.guard = w.guard /\ u.save = w.save /\ u.answered = w.answered /\ u.req = w.req
  BY <1>0, ZenonT(60) DEF TabRecord
<1>2. r \in Request /\ r.page = page
  BY DEF NoRequest, Request, NextPage
<1>3. CreateSinistre(w, page, date, new, c) = Send(u, "act", r, c)
  BY DEF CreateSinistre
<1> HIDE DEF u, r
<1>4. Rejoined(u) = Rejoined(w)
  BY <1>1 DEF Rejoined
<1>5. TabInv(u)
  BY <1>1, <1>4 DEF TabInv, Awaited
<1>6. "act" \in Slot BY DEF Slot
<1>7. Moves(u, Send(u, "act", r, c), c)
  BY <1>1, <1>2, <1>5, <1>6, SendMoves
<1> QED BY <1>1, <1>3, <1>7 DEF Moves

(* redirectToLogin, from a page of the session.                            *)
LEMMA RedirectMoves ==
  ASSUME NEW w, w \in TabRecord, NEW c \in Nat
  PROVE  Moves(w, RedirectToLogin(w, c), c) /\ RedirectToLogin(w, c).page = "login"
         /\ RedirectToLogin(w, c).answered = FALSE /\ RedirectToLogin(w, c).refresh = Asked(0, c)
<1>1. w.date \in Date \cup {None} /\ w.next \in NextPage
      /\ [page |-> w.page, date |-> w.date] \in NextPage /\ None \in NextPage
  BY DEF TabRecord, NextPage
<1>2. \E date \in Date \cup {None}, next \in NextPage :
        RedirectToLogin(w, c) = Loaded("login", date, next, c)
  BY <1>1 DEF RedirectToLogin
<1>3. PICK date \in Date \cup {None}, next \in NextPage :
        RedirectToLogin(w, c) = Loaded("login", date, next, c)
  BY <1>2
<1>4. "login" \in Page \ {"inscription"}
  BY DEF Page
<1>5. Moves(w, Loaded("login", date, next, c), c)
  BY <1>4, LoadedMoves
<1>6. /\ Loaded("login", date, next, c).page = "login"
      /\ Loaded("login", date, next, c).answered = FALSE
      /\ Loaded("login", date, next, c).refresh = Asked(0, c)
  BY DEF Loaded
<1> QED BY <1>3, <1>5, <1>6

(* The conclusions of SaveAfter.                                           *)
LEMMA SaveMoves ==
  ASSUME NEW w, TabInv(w), NEW outcome, NEW c \in Nat
  PROVE  LET v == SaveAfter(w, outcome, c) IN
         /\ TabInv(v)
         /\ v.refresh = w.refresh \/ \E start \in Nat : v.refresh = Asked(start, c)
         /\ \A k \in Slot : v.req[k] = w.req[k] \/ v.req[k].at # "back"
         /\ v.answered => v.token = w.token \/ v.token # 0
         /\ w.save # None /\ v.save = None /\ v.page = "inscription" => outcome = "none"
<1> DEFINE done == [w EXCEPT !.save = None]
           v == SaveAfter(w, outcome, c)
<1>0. w \in TabRecord BY DEF TabInv
<1>1. CASE w.save = None
  BY <1>1 DEF SaveAfter
<1>2. CASE w.save # None
  <2>1. /\ done \in TabRecord /\ done.refresh = w.refresh /\ done.page = w.page /\ done.token = w.token
        /\ done.guard = w.guard /\ done.save = None /\ done.answered = w.answered /\ done.req = w.req
    BY <1>0 DEF TabRecord
  <2>2. v = CASE outcome = "open" -> CreateSinistre(done, "apercu", w.save, FALSE, c)
              [] outcome = "none" -> Navigate(done, "inscription", w.save, c)
              [] OTHER            -> [done EXCEPT !.failed = @ \/ w.page = "apercu"]
    BY <1>2 DEF SaveAfter
  <2> HIDE DEF done, v
  <2>3. Rejoined(done) = Rejoined(w)
    BY <2>1 DEF Rejoined
  <2>4. TabInv(done) /\ done.req["act"].at = "idle" /\ w.save \in Date \cup {None} /\ w.page # "inscription"
    BY <1>0, <1>2, <2>1, <2>3 DEF TabInv, Awaited, TabRecord
  <2>5. CASE outcome = "open"
    <3>1. Moves(done, CreateSinistre(done, "apercu", w.save, FALSE, c), c)
      BY <2>1, <2>4, CreateMoves DEF Page
    <3>2. CreateSinistre(done, "apercu", w.save, FALSE, c).page = w.page
      BY <2>1 DEF CreateSinistre, Send, TabRecord
    <3> QED BY <3>1, <3>2, <2>1, <2>2, <2>4, <2>5 DEF Moves, v
  <2>6. CASE outcome = "none"
    <3>1. Moves(done, Navigate(done, "inscription", w.save, c), c)
      BY <2>1, <2>4, NavigateMoves DEF Page
    <3> QED BY <3>1, <2>1, <2>2, <2>6 DEF Moves, v
  <2>7. CASE outcome \notin {"open", "none"}
    <3>1. v = [done EXCEPT !.failed = @ \/ w.page = "apercu"]
      BY <2>2, <2>7
    <3>2. /\ v \in TabRecord /\ v.refresh = w.refresh /\ v.page = w.page /\ v.token = w.token
          /\ v.guard = w.guard /\ v.save = None /\ v.answered = w.answered /\ v.req = w.req
      BY <2>1, <3>1 DEF TabRecord
    <3>3. Rejoined(v) = Rejoined(w)
      BY <3>2 DEF Rejoined
    <3>4. TabInv(v)
      BY <3>2, <3>3, <2>1, <2>4 DEF TabInv, Awaited
    <3> QED BY <3>2, <3>4, <2>4 DEF v
  <2> QED BY <2>5, <2>6, <2>7
<1> QED BY <1>1, <1>2

(* requestRefresh has its answer.                                          *)
Settles(w, v, outcome, c) ==
  /\ TabInv(v)
  /\ v.refresh = Quiet \/ \E start \in Nat : v.refresh = Asked(start, c)
  /\ \A k \in Slot : v.req[k] = w.req[k] \/ v.req[k].at # "back"
  /\ v.answered => v.token = w.token \/ v.token # 0 \/ w.refresh.start = w.token
  /\ w.save # None /\ v.save = None /\ v.page = "inscription" => outcome = "none"

LEMMA RefreshSettles ==
  ASSUME NEW w, TabInv(w), w.refresh.at # "idle", NEW outcome, NEW got \in Nat, NEW c \in Nat,
         outcome = "open" => got # 0
  PROVE  Settles(w, RefreshSettled(w, outcome, got, c), outcome, c)
<1> DEFINE lost == SessionLost(outcome) /\ (w.guard \/ Rejoined(w) # {})
           tk == IF outcome = "open" THEN got ELSE ClearIfUnchanged(w)
           reqs == [k \in Slot |->
                      IF k \in Rejoined(w)
                      THEN [w.req[k] EXCEPT !.at = "sent", !.token = got, !.cookie = c, !.again = TRUE]
                      ELSE w.req[k]]
           known == [w EXCEPT !.token = tk, !.answered = TRUE, !.refresh = Quiet, !.guard = FALSE,
                              !.req = reqs]
<1>0. w \in TabRecord BY DEF TabInv
<1>1. CASE lost
  <2>1. RefreshSettled(w, outcome, got, c) = RedirectToLogin(w, c)
    BY <1>1 DEF RefreshSettled
  <2>2. /\ Moves(w, RedirectToLogin(w, c), c) /\ RedirectToLogin(w, c).page = "login"
        /\ RedirectToLogin(w, c).answered = FALSE /\ RedirectToLogin(w, c).refresh = Asked(0, c)
    BY <1>0, RedirectMoves
  <2> QED BY <2>1, <2>2 DEF Moves, Settles
<1>2. CASE ~ lost
  <2>1. RefreshSettled(w, outcome, got, c) = SaveAfter(known, outcome, c)
    BY <1>2 DEF RefreshSettled
  <2>2. tk \in Nat /\ Quiet \in Refresh /\ Quiet.at = "idle"
    BY <1>0 DEF ClearIfUnchanged, TabRecord, Quiet, Refresh
  <2>3. \A k \in Slot : w.req[k] \in Request
    BY <1>0 DEF TabRecord
  <2>4. ASSUME NEW k \in Slot
        PROVE  /\ reqs[k] \in Request /\ reqs[k].kind = w.req[k].kind /\ reqs[k].page = w.req[k].page
               /\ k \in Rejoined(w) => reqs[k].at = "sent"
               /\ k \notin Rejoined(w) => reqs[k] = w.req[k]
               /\ w.req[k].at = "idle" => reqs[k].at = "idle"
    BY <2>3, ZenonT(60) DEF Request, Rejoined
  <2>5. reqs \in [Slot -> Request]
    BY <2>4
  <2>6. /\ known \in TabRecord /\ known.refresh = Quiet /\ known.page = w.page /\ known.token = tk
        /\ known.guard = FALSE /\ known.save = w.save /\ known.answered = TRUE /\ known.req = reqs
    BY <1>0, <2>2, <2>5 DEF TabRecord
  <2>7. tk = 0 => w.page \notin Guarded
    <3>1. CASE outcome = "open"
      BY <3>1
    <3>2. CASE outcome # "open"
      <4>1. ~ w.guard /\ Rejoined(w) = {}
        BY <1>2, <3>2 DEF SessionLost
      <4>2. w.refresh.start = 0
        BY <4>1 DEF TabInv
      <4> QED BY <3>2, <4>1, <4>2 DEF TabInv, Awaited, ClearIfUnchanged
    <3> QED BY <3>1, <3>2
  <2>8. tk = w.token \/ tk # 0 \/ w.refresh.start = w.token
    BY DEF ClearIfUnchanged
  <2> HIDE DEF known, reqs, tk, lost
  <2>9. /\ "query" \in Slot /\ "act" \in Slot
        /\ \A k \in Slot : reqs[k].at # "idle" => w.req[k].at # "idle"
        /\ \A k \in Slot : reqs[k].at = "back" => reqs[k] = w.req[k]
    BY <2>4 DEF Slot
  <2>10. TabInv(known)
    <3>1. known.save # None => known.page # "inscription" /\ known.req["act"].at = "idle"
      BY <2>4, <2>6, <2>9 DEF TabInv
    <3>2. known.req["query"].at # "idle" => known.req["query"].kind = "query"
      BY <2>4, <2>6, <2>9 DEF TabInv
    <3>4. known.req["act"].at # "idle" => known.req["act"].page \in Page
      BY <2>4, <2>6, <2>9 DEF TabInv
    <3>3. \A k \in Slot :
            known.req[k].at = "back" /\ known.req[k].answer = "ok" /\ known.req[k].kind = "login"
            => known.req[k].got # 0
      BY <2>6, <2>9 DEF TabInv
    <3> QED BY <2>2, <2>6, <2>7, <3>1, <3>2, <3>3, <3>4 DEF TabInv, Awaited
  <2>11. LET v == SaveAfter(known, outcome, c) IN
         /\ TabInv(v)
         /\ v.refresh = known.refresh \/ \E start \in Nat : v.refresh = Asked(start, c)
         /\ \A k \in Slot : v.req[k] = known.req[k] \/ v.req[k].at # "back"
         /\ v.answered => v.token = known.token \/ v.token # 0
         /\ known.save # None /\ v.save = None /\ v.page = "inscription" => outcome = "none"
    BY <2>10, SaveMoves
  <2> QED BY <2>1, <2>6, <2>8, <2>9, <2>11 DEF Settles
<1> QED BY <1>1, <1>2

(* performFetch: what follows an answer, or its loss.                      *)
LEMMA DoneStays ==
  ASSUME NEW w, TabInv(w), NEW k \in Slot, w.req[k].at # "refresh"
  PROVE  LET done == [w EXCEPT !.req[k] = NoRequest] IN
         /\ TabInv(done) /\ Rejoined(done) = Rejoined(w)
         /\ done.refresh = w.refresh /\ done.page = w.page /\ done.token = w.token
         /\ done.save = w.save /\ done.answered = w.answered
         /\ done.req = [w.req EXCEPT ![k] = NoRequest] /\ done.req[k] = NoRequest
<1> DEFINE done == [w EXCEPT !.req[k] = NoRequest]
<1>0. w \in TabRecord /\ w.req \in [Slot -> Request] BY DEF TabInv, TabRecord
<1>1. NoRequest \in Request /\ NoRequest.at = "idle"
  BY DEF NoRequest, Request, NextPage
<1>2. /\ done \in TabRecord /\ done.refresh = w.refresh /\ done.page = w.page
      /\ done.token = w.token /\ done.guard = w.guard /\ done.save = w.save
      /\ done.answered = w.answered
      /\ done.req = [w.req EXCEPT ![k] = NoRequest] /\ done.req[k] = NoRequest
  BY <1>0, <1>1 DEF TabRecord
<1> HIDE DEF done
<1>3. Rejoined(done) = Rejoined(w)
  BY <1>0, <1>1, <1>2 DEF Rejoined
<1>4. TabInv(done)
  BY <1>0, <1>1, <1>2, <1>3 DEF TabInv, Awaited, Slot
<1> QED BY <1>2, <1>3, <1>4 DEF done

LEMMA UnauthorizedMoves ==
  ASSUME NEW w, TabInv(w), NEW k \in Slot, w.req[k].at \in {"sent", "back"}, NEW c \in Nat
  PROVE  Moves(w, Unauthorized(w, k, c), c) /\ Unauthorized(w, k, c).req[k].at # "back"
<1>0. w \in TabRecord /\ w.req \in [Slot -> Request] BY DEF TabInv, TabRecord
<1>1. CASE w.req[k].again
  <2>1. Unauthorized(w, k, c) = RedirectToLogin(w, c)
    BY <1>1 DEF Unauthorized
  <2>2. RedirectToLogin(w, c).req = [q \in Slot |-> NoRequest]
    BY DEF RedirectToLogin, Loaded
  <2>3. RedirectToLogin(w, c).req[k].at # "back"
    BY <2>2 DEF NoRequest
  <2>4. Moves(w, RedirectToLogin(w, c), c)
    BY <1>0, RedirectMoves
  <2> QED BY <2>1, <2>3, <2>4
<1>2. CASE ~ w.req[k].again
  <2> DEFINE u == [w EXCEPT !.req[k].at = "refresh"]
  <2>1. Unauthorized(w, k, c) = Join(u, c)
    BY <1>2 DEF Unauthorized
  <2>2. w.req[k] \in Request BY <1>0
  <2>3. [w.req[k] EXCEPT !.at = "refresh"] \in Request
    BY <2>2 DEF Request
  <2>4. /\ u \in TabRecord /\ u.refresh = w.refresh /\ u.page = w.page /\ u.token = w.token
        /\ u.guard = w.guard /\ u.save = w.save /\ u.answered = w.answered
        /\ u.req = [w.req EXCEPT ![k] = [w.req[k] EXCEPT !.at = "refresh"]]
    BY <1>0, <2>3 DEF TabRecord
  <2>5. /\ u.req[k].at = "refresh" /\ u.req[k].kind = w.req[k].kind /\ u.req[k].page = w.req[k].page
        /\ \A q \in Slot : q # k => u.req[q] = w.req[q]
    BY <1>0, <2>2, <2>4 DEF Request
  <2> HIDE DEF u
  <2>6. Rejoined(w) \subseteq Rejoined(u) /\ Rejoined(u) # {}
    BY <2>5 DEF Rejoined
  <2>7. TabInv(u)
    BY <2>4, <2>5, <2>6 DEF TabInv, Awaited, Slot
  <2>8. Moves(u, Join(u, c), c)
    BY <2>6, <2>7, JoinMoves
  <2>9. Join(u, c).req[k].at # "back"
    BY <2>5, <2>8 DEF Moves
  <2> QED BY <2>1, <2>4, <2>5, <2>8, <2>9 DEF Moves
<1> QED BY <1>1, <1>2

LEMMA LoggedInMoves ==
  ASSUME NEW w, TabInv(w), w.save = None, w.req["act"].at = "idle",
         NEW r \in Request, r.got # 0, r.page \in Page, NEW c \in Nat
  PROVE  Moves(w, LoggedIn(w, r, c), c)
<1> DEFINE in == [w EXCEPT !.token = r.got]
           v == LoggedIn(w, r, c)
<1>0. w \in TabRecord /\ r.got \in Nat BY DEF TabInv, Request
<1>1. /\ in \in TabRecord /\ in.refresh = w.refresh /\ in.page = w.page /\ in.token = r.got
      /\ in.guard = w.guard /\ in.save = w.save /\ in.answered = w.answered /\ in.req = w.req
  BY <1>0 DEF TabRecord
<1>2. v = CASE r.date # None -> CreateSinistre(in, r.page, r.date, FALSE, c)
            [] r.date = None /\ r.next # None -> Navigate(in, r.next.page, r.next.date, c)
            [] OTHER -> Navigate(in, "espace", None, c)
  BY DEF LoggedIn
<1> HIDE DEF in, v
<1>3. Rejoined(in) = Rejoined(w)
  BY <1>1 DEF Rejoined
<1>4. TabInv(in)
  BY <1>1, <1>3 DEF TabInv, Awaited
<1>5. r.date \in Date \cup {None} /\ r.next \in NextPage /\ "espace" \in Page
  BY DEF Request, Page, Guarded
<1>6. ASSUME Moves(in, v, c), v.token = r.got \/ v.token # 0 PROVE Moves(w, v, c)
  BY <1>1, <1>6 DEF Moves
<1>7. CASE r.date # None
  <2>1. Moves(in, v, c)
    BY <1>1, <1>2, <1>4, <1>5, <1>7, CreateMoves
  <2>2. v.token = r.got
    BY <1>1, <1>2, <1>7 DEF CreateSinistre, Send, TabRecord
  <2> QED BY <1>6, <2>1, <2>2 DEF v
<1>8. CASE r.date = None /\ r.next # None
  <2>1. r.next.page \in Page /\ r.next.date \in Date \cup {None}
    BY <1>5, <1>8 DEF NextPage
  <2>2. Moves(in, v, c)
    BY <1>1, <1>2, <1>4, <1>8, <2>1, NavigateMoves
  <2>3. v.token = r.got
    BY <1>1, <1>2, <1>8 DEF Navigate, Join, TabRecord
  <2> QED BY <1>6, <2>2, <2>3 DEF v
<1>9. CASE r.date = None /\ r.next = None
  <2>2. Moves(in, v, c)
    BY <1>1, <1>2, <1>4, <1>5, <1>9, NavigateMoves
  <2>3. v.token = r.got
    BY <1>1, <1>2, <1>9 DEF Navigate, Join, TabRecord
  <2> QED BY <1>6, <2>2, <2>3 DEF v
<1> QED BY <1>7, <1>8, <1>9

LEMMA AfterMoves ==
  ASSUME NEW w, TabInv(w), NEW k \in Slot, w.req[k].at \in {"sent", "back"},
         w.req[k].answer = "ok" => w.req[k].at = "back", NEW c \in Nat
  PROVE  Moves(w, After(w, k, c), c) /\ After(w, k, c).req[k].at # "back"
<1> DEFINE r == w.req[k]
           done == [w EXCEPT !.req[k] = NoRequest]
           v == After(w, k, c)
<1>0. w \in TabRecord /\ r \in Request BY DEF TabInv, TabRecord
<1>1. /\ TabInv(done) /\ Rejoined(done) = Rejoined(w)
      /\ done.refresh = w.refresh /\ done.page = w.page /\ done.token = w.token
      /\ done.save = w.save /\ done.answered = w.answered
      /\ done.req = [w.req EXCEPT ![k] = NoRequest] /\ done.req[k] = NoRequest
  BY DoneStays
<1>2. w.req \in [Slot -> Request] /\ NoRequest.at = "idle"
  BY DEF TabInv, TabRecord, NoRequest
<1>3. \A q \in Slot : done.req[q] = w.req[q] \/ done.req[q].at # "back"
  BY <1>1, <1>2
<1>4. ASSUME Moves(done, v, c) PROVE Moves(w, v, c) /\ v.req[k].at # "back"
  BY <1>1, <1>2, <1>3, <1>4 DEF Moves
<1>5. ASSUME r.kind # "query" PROVE k = "act" /\ w.save = None /\ r.page \in Page /\ done.req["act"].at = "idle"
  BY <1>1, <1>2, <1>5 DEF TabInv, Slot
<1>6. ASSUME NEW conflict \in Date \cup {None}, NEW failed \in BOOLEAN,
             v = [done EXCEPT !.conflict = conflict, !.failed = failed]
      PROVE  Moves(done, v, c)
  <2>0. done \in TabRecord
    BY <1>1 DEF TabInv
  <2>1. /\ v \in TabRecord /\ v.refresh = done.refresh /\ v.page = done.page /\ v.token = done.token
        /\ v.guard = done.guard /\ v.save = done.save /\ v.answered = done.answered /\ v.req = done.req
    BY <2>0, <1>6 DEF TabRecord
  <2> HIDE DEF done, v
  <2>2. Rejoined(v) = Rejoined(done)
    BY <2>1 DEF Rejoined
  <2>3. TabInv(v)
    BY <2>1, <2>2, <1>1 DEF TabInv, Awaited
  <2> QED BY <2>1, <2>3 DEF Moves
<1>7. CASE r.answer = "401"
  BY <1>7, UnauthorizedMoves DEF After
<1>8. CASE r.answer # "401" /\ r.kind = "logout"
  <2>1. v = Loaded("login", None, None, c)
    BY <1>8 DEF After
  <2>2. "login" \in Page \ {"inscription"} /\ None \in NextPage
    BY DEF Page, NextPage
  <2>3. v.req[k] = NoRequest
    BY <2>1 DEF Loaded
  <2> QED BY <1>2, <2>1, <2>2, <2>3, LoadedMoves
<1>9. CASE r.answer # "401" /\ r.kind = "query"
  <2>1. v = done
    BY <1>9 DEF After
  <2>2. Moves(done, done, c)
    BY <1>1 DEF Moves
  <2> QED BY <1>4, <2>1, <2>2 DEF v
<1>10. CASE r.answer = "ok" /\ r.kind = "login"
  <2>1. v = LoggedIn(done, r, c)
    BY <1>10 DEF After
  <2>2. r.got # 0
    BY <1>10 DEF TabInv
  <2>3. Moves(done, v, c)
    <3>1. TabInv(done) /\ done.save = None /\ done.req["act"].at = "idle" /\ r \in Request /\ r.page \in Page
      BY <1>0, <1>1, <1>5, <1>10
    <3> HIDE DEF done, r, v
    <3>2. Moves(done, LoggedIn(done, r, c), c)
      BY <3>1, <2>2, LoggedInMoves
    <3> QED BY <3>2, <2>1
  <2> QED BY <1>4, <2>3 DEF v
<1>11. CASE r.answer = "ok" /\ r.kind = "delete"
  <2>1. v = Loaded("home", None, None, c)
    BY <1>11 DEF After
  <2>2. "home" \in Page \ {"inscription"} /\ None \in NextPage
    BY DEF Page, NextPage
  <2>3. v.req[k] = NoRequest
    BY <2>1 DEF Loaded
  <2> QED BY <1>2, <2>1, <2>2, <2>3, LoadedMoves
<1>12. CASE r.answer = "ok" /\ r.kind = "create"
  <2>1. v = Navigate(done, "sinistre", None, c)
    BY <1>12 DEF After
  <2>2. Moves(done, v, c)
    BY <1>1, <2>1, NavigateMoves DEF Page, Guarded
  <2> QED BY <1>4, <2>2 DEF v
<1>13. done \in TabRecord /\ done.conflict \in Date \cup {None} /\ done.failed \in BOOLEAN
       /\ r.date \in Date \cup {None} /\ w.page \in Page
  BY <1>0, <1>1 DEF TabInv, TabRecord, Request
<1>14. CASE r.answer = "409" /\ r.kind = "create"
  <2>1. v = [done EXCEPT !.conflict = IF w.page = r.page THEN r.date ELSE @]
    BY <1>14 DEF After
  <2> DEFINE conflict == IF w.page = r.page THEN r.date ELSE done.conflict
  <2> HIDE DEF done, v
  <2>2. v = [done EXCEPT !.conflict = conflict, !.failed = done.failed] /\ conflict \in Date \cup {None}
    BY <2>1, <1>13 DEF TabRecord
  <2>3. Moves(done, v, c)
    BY <1>6, <1>13, <2>2
  <2> QED BY <1>4, <2>3 DEF v
<1>15. CASE r.answer # "401" /\ r.kind \notin {"logout", "query"}
            /\ ~ (r.answer = "ok" /\ r.kind \in {"login", "delete", "create"})
            /\ ~ (r.answer = "409" /\ r.kind = "create")
  <2>1. v = [done EXCEPT !.failed = @ \/ (r.kind = "create" /\ w.page = r.page)]
    BY <1>15 DEF After
  <2> DEFINE failed == done.failed \/ (r.kind = "create" /\ w.page = r.page)
  <2>2. v = [done EXCEPT !.conflict = done.conflict, !.failed = failed] /\ failed \in BOOLEAN
    BY <2>1, <1>13 DEF TabRecord
  <2> HIDE DEF done, v
  <2>3. Moves(done, v, c)
    BY <1>6, <1>13, <2>2
  <2> QED BY <1>4, <2>3 DEF v
<1> QED BY <1>7, <1>8, <1>9, <1>10, <1>11, <1>12, <1>14, <1>15

-----------------------------------------------------------------------------
(* The steps of the browser.                                               *)
LEMMA PersonMoves ==
  ASSUME TypeInv, NEW t \in Tab, TabInv(tab[t]), Person(t)
  PROVE  \E v : /\ tab' = [tab EXCEPT ![t] = v] /\ Moves(tab[t], v, jar)
                /\ UNCHANGED <<session, exists, jar, issued, faults, swept>>
<1> DEFINE w == tab[t]
           Good(v) == Acts(t, v) /\ Moves(w, v, jar)
<1>0. w \in TabRecord /\ jar \in Nat
  BY DEF TypeInv
<1>1. /\ w.page \in Page /\ w.date \in Date \cup {None} /\ w.next \in NextPage
      /\ w.conflict \in Date \cup {None} /\ w.token \in Nat /\ None \in NextPage
      /\ w.req \in [Slot -> Request]
  BY <1>0 DEF TabRecord, NextPage
<1>2. ASSUME NEW v, Good(v)
      PROVE  /\ tab' = [tab EXCEPT ![t] = v] /\ Moves(tab[t], v, jar)
             /\ UNCHANGED <<session, exists, jar, issued, faults, swept>>
  BY <1>0, <1>2 DEF Acts
<1>20. SUFFICES \E v : Good(v)
  BY <1>2
<1>3. /\ {"home", "login", "espace", "nouveau", "apercu", "sinistre"} \subseteq Page \ {"inscription"}
      /\ "inscription" \notin Guarded /\ "act" \in Slot /\ "query" \in Slot
  BY DEF Page, Guarded, Slot
<1> HIDE DEF w, Good
<1>4. ASSUME Free(t) PROVE w.save = None /\ w.req["act"].at = "idle"
  BY <1>4 DEF Free, w
<1>5. TabInv(w)
  BY DEF w
<1>6. ASSUME NEW page, NEW d \in Date \cup {None}, Load(t, page, d) PROVE \E v : Good(v)
  <2>1. Acts(t, Loaded(page, d, None, jar)) /\ page \in Page \ {"inscription"}
    BY <1>3, <1>6 DEF Load
  <2>2. Moves(w, Loaded(page, d, None, jar), jar)
    BY <1>0, <1>1, <2>1, LoadedMoves
  <2> QED BY <2>1, <2>2 DEF Good
<1>7. ASSUME NEW page \in Page \ {"inscription"}, NEW d \in Date \cup {None}, Acts(t, Navigate(w, page, d, jar))
      PROVE  \E v : Good(v)
  <2>1. Moves(w, Navigate(w, page, d, jar), jar)
    BY <1>0, <1>5, NavigateMoves
  <2> QED BY <1>7, <2>1 DEF Good
<1>8. CASE Follow(t)
  <2>1. \/ Acts(t, Navigate(w, "espace", None, jar))
        \/ Acts(t, Navigate(w, "login", IF w.page = "inscription" THEN w.date ELSE None, jar))
    BY <1>8 DEF Follow, w
  <2>2. (IF w.page = "inscription" THEN w.date ELSE None) \in Date \cup {None}
    BY <1>1
  <2> QED BY <1>3, <1>7, <2>1, <2>2
<1>9. ASSUME NEW k \in Slot, NEW r \in Request, w.req[k].at = "idle",
             k = "query" => r.kind = "query", k = "act" => w.save = None /\ r.page \in Page,
             Acts(t, Send(w, k, r, jar))
      PROVE  \E v : Good(v)
  <2>1. Moves(w, Send(w, k, r, jar), jar)
    BY <1>0, <1>5, <1>9, SendMoves
  <2> QED BY <1>9, <2>1 DEF Good
<1>10. CASE Query(t)
  <2>1. [NoRequest EXCEPT !.kind = "query"] \in Request /\ [NoRequest EXCEPT !.kind = "query"].kind = "query"
    BY DEF NoRequest, Request, NextPage
  <2>2. Acts(t, Send(w, "query", [NoRequest EXCEPT !.kind = "query"], jar)) /\ w.req["query"].at = "idle"
    BY <1>10 DEF Query, w
  <2> QED BY <1>3, <1>9, <2>1, <2>2
<1>11. ASSUME NEW page \in Page, NEW kind \in {"login", "logout", "delete"}, Submit(t, page, kind)
       PROVE  \E v : Good(v)
  <2> DEFINE r == [NoRequest EXCEPT !.kind = kind, !.page = page, !.date = w.date, !.next = w.next]
  <2>1. r \in Request /\ r.page = page
    BY <1>1 DEF NoRequest, Request, NextPage
  <2>2. Acts(t, Send(w, "act", r, jar)) /\ Free(t)
    BY <1>11 DEF Submit, w
  <2> HIDE DEF r
  <2> QED BY <1>3, <1>4, <1>9, <2>1, <2>2
<1>12. CASE Login(t) \/ EndSession(t) \/ DeleteAccount(t)
  BY <1>3, <1>11, <1>12 DEF Login, EndSession, DeleteAccount
<1>13. ASSUME NEW u, TabInv(u), u.refresh = w.refresh, u.req = w.req, u.token = w.token,
              u.answered = w.answered, u.save = w.save, Free(t), NEW page \in Page,
              NEW d \in Date \cup {None}, NEW new \in BOOLEAN, Acts(t, CreateSinistre(u, page, d, new, jar))
       PROVE  \E v : Good(v)
  <2>1. Moves(u, CreateSinistre(u, page, d, new, jar), jar)
    BY <1>0, <1>4, <1>13, CreateMoves
  <2>2. Moves(w, CreateSinistre(u, page, d, new, jar), jar)
    BY <1>4, <1>13, <2>1 DEF Moves
  <2> QED BY <1>13, <2>2 DEF Good
<1>14. CASE Save(t)
  <2>1. CASE w.token # 0
    <3>1. Acts(t, CreateSinistre(w, w.page, w.date, FALSE, jar)) /\ Free(t)
      BY <1>14, <2>1 DEF Save, Authenticated, w
    <3> QED BY <1>1, <1>5, <1>13, <3>1
  <2>2. CASE w.token = 0
    <3> DEFINE u == [w EXCEPT !.save = w.date, !.failed = FALSE]
    <3>1. Acts(t, Join(u, jar)) /\ Free(t) /\ w.page = "apercu"
      BY <1>14, <2>2 DEF Save, Authenticated, w
    <3>2. /\ u \in TabRecord /\ u.refresh = w.refresh /\ u.page = w.page /\ u.token = w.token
          /\ u.guard = w.guard /\ u.save = w.date /\ u.answered = w.answered /\ u.req = w.req
      BY <1>1, <1>5 DEF TabRecord, TabInv
    <3> HIDE DEF u
    <3>3. Rejoined(u) = Rejoined(w)
      BY <3>2 DEF Rejoined
    <3>4. TabInv(u)
      BY <1>4, <1>5, <3>1, <3>2, <3>3 DEF TabInv, Awaited
    <3>5. Moves(u, Join(u, jar), jar) /\ Join(u, jar).token = u.token
      BY <1>0, <2>2, <3>2, <3>4, JoinMoves
    <3>6. Moves(w, Join(u, jar), jar)
      BY <1>4, <3>1, <3>2, <3>5 DEF Moves
    <3> QED BY <3>1, <3>6 DEF Good
  <2> QED BY <2>1, <2>2
<1>15. CASE RetrySave(t)
  <2>1. Acts(t, CreateSinistre(w, "login", w.date, FALSE, jar)) /\ Free(t)
    BY <1>15 DEF RetrySave, w
  <2> QED BY <1>1, <1>3, <1>5, <1>13, <2>1
<1>16. ASSUME NEW d \in Date, SubmitNew(t, d) PROVE \E v : Good(v)
  <2> DEFINE u == [w EXCEPT !.date = d]
  <2>1. Acts(t, CreateSinistre(u, "nouveau", d, FALSE, jar)) /\ Free(t)
    BY <1>16 DEF SubmitNew, w
  <2>2. /\ u \in TabRecord /\ u.refresh = w.refresh /\ u.page = w.page /\ u.token = w.token
        /\ u.guard = w.guard /\ u.save = w.save /\ u.answered = w.answered /\ u.req = w.req
    BY <1>5 DEF TabRecord, TabInv
  <2> HIDE DEF u
  <2>3. Rejoined(u) = Rejoined(w)
    BY <2>2 DEF Rejoined
  <2>4. TabInv(u)
    BY <1>5, <2>2, <2>3 DEF TabInv, Awaited
  <2> QED BY <1>3, <1>13, <2>1, <2>2, <2>4
<1>17. CASE ConfirmNew(t)
  <2>1. Acts(t, CreateSinistre(w, w.page, w.conflict, TRUE, jar)) /\ Free(t)
    BY <1>17 DEF ConfirmNew, w
  <2> QED BY <1>1, <1>5, <1>13, <2>1
<1>18. CASE OpenExisting(t)
  <2>1. Acts(t, Navigate(w, "sinistre", None, jar))
    BY <1>18 DEF OpenExisting, w
  <2> QED BY <1>3, <1>7, <2>1
<1>19. CASE EditInstead(t)
  <2>1. CASE w.page = "login"
    <3>1. Acts(t, Navigate(w, "apercu", w.date, jar))
      BY <1>19, <2>1 DEF EditInstead, w
    <3> QED BY <1>1, <1>3, <1>7, <3>1
  <2>2. CASE w.page # "login"
    <3> DEFINE u == [w EXCEPT !.conflict = None, !.failed = FALSE]
    <3>1. Acts(t, u)
      BY <1>19, <2>2 DEF EditInstead, w
    <3>2. /\ u \in TabRecord /\ u.refresh = w.refresh /\ u.page = w.page /\ u.token = w.token
          /\ u.guard = w.guard /\ u.save = w.save /\ u.answered = w.answered /\ u.req = w.req
      BY <1>5 DEF TabRecord, TabInv
    <3> HIDE DEF u
    <3>3. Rejoined(u) = Rejoined(w)
      BY <3>2 DEF Rejoined
    <3>4. TabInv(u)
      BY <1>5, <3>2, <3>3 DEF TabInv, Awaited
    <3>5. Moves(w, u, jar)
      BY <3>2, <3>4 DEF Moves
    <3> QED BY <3>1, <3>5 DEF Good
  <2> QED BY <2>1, <2>2
<1> QED
  BY <1>6, <1>8, <1>10, <1>12, <1>14, <1>15, <1>16, <1>17, <1>18, <1>19 DEF Person

(* A step of one tab, that leaves the server alone.                        *)
TabStep(t, v) ==
  /\ tab' = [tab EXCEPT ![t] = v] /\ TabInv(v)
  /\ UNCHANGED <<session, exists, issued, swept>>
  /\ \/ jar' = jar
     \/ jar' = 0
     \/ \E p \in Place : jar' # 0 /\ jar' = Brought(tab[t], p) /\ Brought(v, p) = 0
  /\ faults' = faults \/ faults' \in Nat \ {0}
  /\ \/ v.refresh = tab[t].refresh
     \/ \E start \in Nat : v.refresh = Asked(start, jar')
     \/ /\ v.refresh = Quiet
        /\ \/ faults' # 0 \/ jar' # jar
           \/ tab[t].refresh.at = "back" /\ tab[t].refresh.answer = "none"
  /\ \A p \in Place : Brought(v, p) \in {0, Brought(tab[t], p)}

LEMMA BroughtMoves ==
  ASSUME NEW w, NEW v, NEW c, \A k \in Slot : v.req[k] = w.req[k] \/ v.req[k].at # "back",
         v.refresh = w.refresh \/ v.refresh.at # "back"
  PROVE  \A p \in Place : Brought(v, p) \in {0, Brought(w, p)}
BY DEF Place, Brought, Slot

LEMMA AskedAt == \A start, c : Asked(start, c).at = "sent" /\ Asked(start, c).cookie = c
BY DEF Asked, Quiet

LEMMA PersonSteps ==
  ASSUME IInv, NEW t \in Tab, Person(t) PROVE \E v : TabStep(t, v)
<1>1. PICK v : /\ tab' = [tab EXCEPT ![t] = v] /\ Moves(tab[t], v, jar)
               /\ UNCHANGED <<session, exists, jar, issued, faults, swept>>
  BY PersonMoves DEF IInv
<1>2. \A p \in Place : Brought(v, p) \in {0, Brought(tab[t], p)}
  BY <1>1, AskedAt, BroughtMoves DEF Moves
<1>3. TabStep(t, v)
  BY <1>1, <1>2 DEF TabStep, Moves
<1> QED BY <1>3

LEMMA AnswerMoves ==
  ASSUME IInv, NEW t \in Tab, NEW k \in Slot, Answered(t, k)
  PROVE  LET v == After(tab[t], k, jar') IN
         /\ tab' = [tab EXCEPT ![t] = v] /\ Moves(tab[t], v, jar')
         /\ UNCHANGED <<session, exists, issued, faults, swept>>
         /\ \/ jar' = jar
            \/ jar' = 0
            \/ jar' # 0 /\ jar' = Brought(tab[t], k) /\ Brought(v, k) = 0
<1> DEFINE w == tab[t]
           r == w.req[k]
           v(c) == After(w, k, c)
           cookie == CASE r.answer = "ok" /\ r.kind = "login" -> r.got
                       [] r.answer = "ok" /\ r.kind \in {"logout", "delete"} -> 0
                       [] OTHER -> jar
<1>0. TabInv(w) /\ r \in Request /\ jar \in Nat
  BY DEF IInv, TypeInv, TabRecord, TabInv
<1>1. /\ r.at = "back" /\ jar' = cookie /\ tab' = [tab EXCEPT ![t] = v(cookie)]
      /\ UNCHANGED <<session, exists, issued, faults, swept>>
  BY DEF Answered, server
<1>2. cookie \in Nat
  BY <1>0 DEF Request
<1>3. /\ cookie = jar \/ cookie = 0 \/ cookie = r.got
      /\ k # "refresh"
  BY DEF Slot
<1> HIDE DEF cookie
<1>4. Moves(w, v(cookie), cookie) /\ v(cookie).req[k].at # "back"
  BY <1>0, <1>1, <1>2, AfterMoves
<1> QED BY <1>1, <1>3, <1>4 DEF Brought

LEMMA AnswerSteps ==
  ASSUME IInv, NEW t \in Tab, NEW k \in Slot, Answered(t, k) PROVE \E v : TabStep(t, v)
<1> DEFINE v(c) == After(tab[t], k, c)
<1>1. PICK c : c = jar' OBVIOUS
<1>2. /\ tab' = [tab EXCEPT ![t] = v(c)] /\ Moves(tab[t], v(c), c)
      /\ UNCHANGED <<session, exists, issued, faults, swept>>
      /\ \/ jar' = jar
         \/ jar' = 0
         \/ jar' # 0 /\ jar' = Brought(tab[t], k) /\ Brought(v(c), k) = 0
  BY <1>1, AnswerMoves
<1> HIDE DEF v
<1>3. \A p \in Place : Brought(v(c), p) \in {0, Brought(tab[t], p)}
  BY <1>2, AskedAt, BroughtMoves DEF Moves
<1>4. TabStep(t, v(c))
  BY <1>1, <1>2, <1>3 DEF TabStep, Moves, Place
<1> QED BY <1>4

LEMMA FailureMoves ==
  ASSUME IInv, NEW t \in Tab, NEW k \in Slot, RequestFails(t, k)
  PROVE  \E v : /\ tab' = [tab EXCEPT ![t] = v] /\ Moves(tab[t], v, jar)
                /\ UNCHANGED <<session, exists, jar, issued, swept>> /\ faults' \in Nat \ {0}
<1> DEFINE w == tab[t]
           u == [w EXCEPT !.req[k].answer = "failed"]
           v == After(u, k, jar)
<1>0. TabInv(w) /\ w \in TabRecord /\ w.req \in [Slot -> Request] /\ jar \in Nat /\ faults \in Nat
  BY DEF IInv, TypeInv, TabRecord, TabInv
<1>1. /\ w.req[k].at \in {"sent", "back"} /\ tab' = [tab EXCEPT ![t] = v]
      /\ UNCHANGED <<session, exists, jar, issued, swept>> /\ faults' \in Nat \ {0}
  BY <1>0 DEF RequestFails, server
<1>2. w.req[k] \in Request BY <1>0
<1>3. /\ [w.req[k] EXCEPT !.answer = "failed"] \in Request
      /\ [w.req[k] EXCEPT !.answer = "failed"].answer = "failed"
      /\ [w.req[k] EXCEPT !.answer = "failed"].at = w.req[k].at
      /\ [w.req[k] EXCEPT !.answer = "failed"].kind = w.req[k].kind
      /\ [w.req[k] EXCEPT !.answer = "failed"].page = w.req[k].page
  BY <1>2 DEF Request
<1>4. /\ u \in TabRecord /\ u.refresh = w.refresh /\ u.page = w.page /\ u.token = w.token
      /\ u.guard = w.guard /\ u.save = w.save /\ u.answered = w.answered
      /\ u.req = [w.req EXCEPT ![k] = [w.req[k] EXCEPT !.answer = "failed"]]
  BY <1>0, <1>3 DEF TabRecord
<1>5. /\ u.req[k].answer = "failed" /\ u.req[k].at = w.req[k].at /\ u.req[k].kind = w.req[k].kind
      /\ u.req[k].page = w.req[k].page
      /\ \A q \in Slot : q # k => u.req[q] = w.req[q]
  BY <1>0, <1>3, <1>4
<1> HIDE DEF u
<1>6. Rejoined(u) = Rejoined(w)
  BY <1>1, <1>5 DEF Rejoined
<1>7. TabInv(u)
  BY <1>0, <1>4, <1>5, <1>6 DEF TabInv, Awaited, Slot
<1>8. Moves(u, v, jar) /\ v.req[k].at # "back"
  BY <1>0, <1>1, <1>5, <1>7, AfterMoves
<1> HIDE DEF v
<1>9. Moves(w, v, jar)
  BY <1>4, <1>5, <1>8 DEF Moves
<1> QED BY <1>1, <1>9

LEMMA FailureSteps ==
  ASSUME IInv, NEW t \in Tab, NEW k \in Slot, RequestFails(t, k) PROVE \E v : TabStep(t, v)
<1>1. PICK v : /\ tab' = [tab EXCEPT ![t] = v] /\ Moves(tab[t], v, jar)
               /\ UNCHANGED <<session, exists, jar, issued, swept>> /\ faults' \in Nat \ {0}
  BY FailureMoves
<1>2. \A p \in Place : Brought(v, p) \in {0, Brought(tab[t], p)}
  BY <1>1, AskedAt, BroughtMoves DEF Moves
<1>3. TabStep(t, v)
  BY <1>1, <1>2 DEF TabStep, Moves
<1> QED BY <1>3

LEMMA SettleMoves ==
  ASSUME IInv, NEW t \in Tab, RefreshAnswered(t) \/ RefreshFails(t)
  PROVE  \E v, outcome :
           /\ tab' = [tab EXCEPT ![t] = v] /\ Settles(tab[t], v, outcome, jar')
           /\ UNCHANGED <<session, exists, issued, swept>>
           /\ outcome = "none" => tab[t].refresh.at = "back" /\ tab[t].refresh.answer = "none"
           /\ \/ jar' = jar /\ faults' \in Nat \ {0}
              \/ /\ tab[t].refresh.at = "back" /\ tab[t].refresh.answer = "none"
                 /\ jar' = jar /\ faults' = faults
              \/ /\ tab[t].refresh.at = "back" /\ faults' = faults
                 /\ jar' # 0 /\ jar' = tab[t].refresh.got
<1> DEFINE w == tab[t]
           r == w.refresh
<1>0. TabInv(w) /\ r \in Refresh /\ jar \in Nat /\ faults \in Nat
  BY DEF IInv, TypeInv, TabRecord, TabInv
<1>1. CASE RefreshAnswered(t)
  <2> DEFINE cookie == IF r.answer = "open" THEN r.got ELSE jar
             v == RefreshSettled(w, r.answer, r.got, cookie)
  <2>1. /\ r.at = "back" /\ jar' = cookie /\ tab' = [tab EXCEPT ![t] = v]
        /\ UNCHANGED <<session, exists, issued, faults, swept>>
    BY <1>1 DEF RefreshAnswered, server
  <2>2. r.answer \in {"open", "none"} /\ (r.answer = "open" => r.got # 0) /\ r.got \in Nat
    BY <1>0, <2>1 DEF TabInv, Refresh
  <2>3. cookie \in Nat
    BY <1>0, <2>2
  <2>4. Settles(w, v, r.answer, cookie)
    BY <1>0, <2>1, <2>2, <2>3, RefreshSettles
  <2> QED BY <2>1, <2>2, <2>4
<1>2. CASE RefreshFails(t)
  <2> DEFINE v == RefreshSettled(w, "failed", 0, jar)
  <2>1. /\ r.at # "idle" /\ jar' = jar /\ tab' = [tab EXCEPT ![t] = v]
        /\ UNCHANGED <<session, exists, issued, swept>> /\ faults' \in Nat \ {0}
    BY <1>0, <1>2 DEF RefreshFails, server
  <2>2. Settles(w, v, "failed", jar)
    BY <1>0, <2>1, RefreshSettles
  <2> QED BY <2>1, <2>2
<1> QED BY <1>1, <1>2

LEMMA SettleSteps ==
  ASSUME IInv, NEW t \in Tab, RefreshAnswered(t) \/ RefreshFails(t) PROVE \E v : TabStep(t, v)
<1>1. PICK v, outcome :
           /\ tab' = [tab EXCEPT ![t] = v] /\ Settles(tab[t], v, outcome, jar')
           /\ UNCHANGED <<session, exists, issued, swept>>
           /\ outcome = "none" => tab[t].refresh.at = "back" /\ tab[t].refresh.answer = "none"
           /\ \/ jar' = jar /\ faults' \in Nat \ {0}
              \/ /\ tab[t].refresh.at = "back" /\ tab[t].refresh.answer = "none"
                 /\ jar' = jar /\ faults' = faults
              \/ /\ tab[t].refresh.at = "back" /\ faults' = faults
                 /\ jar' # 0 /\ jar' = tab[t].refresh.got
  BY SettleMoves
<1>2. v.refresh.at # "back" /\ (v.refresh = Quiet \/ \E start \in Nat : v.refresh = Asked(start, jar'))
  BY <1>1, AskedAt DEF Settles, Quiet
<1>3. \A p \in Place : Brought(v, p) \in {0, Brought(tab[t], p)}
  BY <1>1, <1>2, BroughtMoves DEF Settles
<1>4. Brought(v, "refresh") = 0 /\ "refresh" \in Place
  BY <1>2 DEF Brought, Place
<1>5. tab[t].refresh.at = "back" => Brought(tab[t], "refresh") = tab[t].refresh.got
  BY DEF Brought
<1>6. Brought(tab[t], "refresh") # 0 => Brought(tab[t], "refresh") # jar
  BY <1>4 DEF IInv, BroughtInv
<1>7. TabStep(t, v)
  BY <1>1, <1>2, <1>3, <1>4, <1>5, <1>6 DEF TabStep, Settles
<1> QED BY <1>7

-----------------------------------------------------------------------------
LEMMA TabSet ==
  ASSUME TypeInv, NEW t \in Tab, NEW v, v \in TabRecord, tab' = [tab EXCEPT ![t] = v]
  PROVE  /\ tab' \in [Tab -> TabRecord] /\ tab'[t] = v
         /\ \A u \in Tab : u # t => tab'[u] = tab[u]
BY DEF TypeInv

LEMMA TabsKept ==
  ASSUME IInv, NEW t \in Tab, NEW v, TabInv(v), tab' = [tab EXCEPT ![t] = v]
  PROVE  (\A u \in Tab : TabInv(tab[u]))'
<1>0. v \in TabRecord /\ TypeInv BY DEF TabInv, IInv
<1>1. ASSUME NEW u \in Tab PROVE \A w : w = tab'[u] => TabInv(w)
  BY <1>0, TabSet DEF IInv
<1>2. SUFFICES ASSUME NEW u \in Tab PROVE TabInv(tab[u])'
  OBVIOUS
<1>3. PICK w : w = tab'[u] OBVIOUS
<1>4. TabInv(w) BY <1>1, <1>3
<1> QED BY <1>3, <1>4

LEMMA TokenOf == ASSUME TypeInv, NEW n \in Nat, n # 0, n <= issued PROVE n \in Token
BY BoundAssumption DEF TypeInv, Token

LEMMA TabStepKeeps ==
  ASSUME IInv, NEW t \in Tab, NEW v, TabStep(t, v) PROVE IInv'
<1> USE DEF TabStep
<1>0. TypeInv /\ v \in TabRecord BY DEF IInv, TabInv
<1>1. /\ tab' \in [Tab -> TabRecord] /\ tab'[t] = v /\ \A u \in Tab : u # t => tab'[u] = tab[u]
  BY <1>0, TabSet
<1>2. \A p \in Place : Brought(tab[t], p) \in Nat
  BY <1>0 DEF TypeInv, TabRecord, Brought, Place, Request, Refresh
<1>3. \A p \in Place : Brought(tab[t], p) <= issued
  BY <1>0 DEF TypeInv, IInv, BroughtInv
<1>4. TypeInv'
  BY <1>0, <1>1, <1>2, <1>3 DEF TypeInv
<1>5. (\A u \in Tab : TabInv(tab[u]))'
  BY TabsKept
<1>6. RowInv'
  BY DEF IInv, RowInv
<1>7. CookieInv'
  <2>1. CookieOK(v.refresh)'
    BY <1>0, <1>4, AskedAt DEF IInv, CookieInv, CookieOK, Is, TypeInv, Quiet
  <2>2. \A u \in Tab : u # t => CookieOK(tab[u].refresh)'
    BY DEF IInv, CookieInv, CookieOK, Is
  <2> QED BY <1>1, <2>1, <2>2 DEF CookieInv
<1>8. BroughtInv'
  <2> SUFFICES ASSUME NEW u \in Tab, NEW p \in Place, Brought(tab'[u], p) # 0
               PROVE  LET n == Brought(tab'[u], p) IN
                      /\ n <= issued /\ n # jar'
                      /\ session[n].state \in {"live", "gone"}
                      /\ \A x \in Tab : tab'[x].refresh.cookie # n
                      /\ \A x \in Tab, q \in Place : Brought(tab'[x], q) = n => u = x /\ p = q
    BY DEF BroughtInv
  <2> DEFINE n == Brought(tab[u], p)
  <2>1. ASSUME NEW x \in Tab, NEW q \in Place PROVE Brought(tab'[x], q) \in {0, Brought(tab[x], q)}
    BY <1>1
  <2>2. Brought(tab'[u], p) = n /\ n # 0
    BY <2>1
  <2>3. /\ n <= issued /\ n # jar
        /\ session[n].state \in {"live", "gone"}
        /\ \A x \in Tab : tab[x].refresh.cookie # n
        /\ \A x \in Tab, q \in Place : Brought(tab[x], q) = n => u = x /\ p = q
    BY <2>2 DEF IInv, BroughtInv
  <2>4. n # jar'
    <3>1. ASSUME NEW q \in Place, jar' # 0, jar' = Brought(tab[t], q), Brought(v, q) = 0, n = jar'
          PROVE  FALSE
      <4>1. u = t /\ p = q
        BY <2>3, <3>1
      <4> QED BY <1>1, <2>2, <3>1, <4>1
    <3> QED BY <2>2, <2>3, <3>1
  <2>5. \A x \in Tab : tab'[x].refresh.cookie # n
    <3>1. v.refresh.cookie # n
      BY <2>2, <2>3, <2>4, AskedAt DEF Quiet
    <3> QED BY <1>1, <2>3, <3>1
  <2>6. \A x \in Tab, q \in Place : Brought(tab'[x], q) = n => u = x /\ p = q
    BY <2>1, <2>2, <2>3
  <2> QED BY <2>2, <2>3, <2>4, <2>5, <2>6
<1>9. PeaceInv'
  <2> SUFFICES ASSUME faults' = 0
               PROVE  /\ swept = FALSE
                      /\ Is(jar, RowStates \ {"rotated"})'
                      /\ jar' # 0 /\ session[jar'].state = "graced" =>
                           \E u \in Tab : tab'[u].refresh.at # "idle" /\ tab'[u].refresh.cookie = jar'
                      /\ \A u \in Tab : Calm(tab[u].refresh)'
    BY DEF PeaceInv
  <2>0. faults = 0 /\ PeaceInv
    BY DEF IInv
  <2>1. ASSUME jar' # jar, jar' # 0 PROVE session[jar'].state \in {"live", "gone"}
    BY <2>1 DEF IInv, BroughtInv
  <2>2. Is(jar, RowStates \ {"rotated"})'
    <3>1. PICK j : j = jar' OBVIOUS
    <3>2. j # 0 => session[j].state \in RowStates \ {"rotated"}
      BY <2>0, <2>1, <3>1 DEF PeaceInv, Is, RowStates
    <3> QED BY <3>1, <3>2 DEF Is
  <2>3. ASSUME jar' # 0, session[jar'].state = "graced"
        PROVE  \E u \in Tab : tab'[u].refresh.at # "idle" /\ tab'[u].refresh.cookie = jar'
    <3>1. jar' = jar
      BY <2>1, <2>3
    <3>2. PICK u \in Tab : tab[u].refresh.at # "idle" /\ tab[u].refresh.cookie = jar
      BY <2>0, <2>3, <3>1 DEF PeaceInv
    <3>3. CASE u # t
      BY <1>1, <3>1, <3>2, <3>3
    <3>4. CASE u = t
      <4>1. CASE v.refresh = tab[t].refresh
        BY <1>1, <3>1, <3>2, <3>4, <4>1
      <4>2. CASE \E start \in Nat : v.refresh = Asked(start, jar')
        BY <1>1, <4>2, AskedAt
      <4>3. ASSUME tab[t].refresh.at = "back", tab[t].refresh.answer = "none" PROVE FALSE
        BY <2>0, <2>3, <3>1, <3>2, <3>4, <4>3 DEF PeaceInv, Calm, Is
      <4> QED BY <3>1, <4>1, <4>2, <4>3
    <3> QED BY <3>3, <3>4
  <2>4. Calm(v.refresh)'
    <3>1. CASE v.refresh = tab[t].refresh
      BY <2>0, <3>1 DEF PeaceInv, Calm, Is
    <3>2. CASE v.refresh = Quiet
      BY <3>2 DEF Quiet, Calm
    <3>3. CASE \E start \in Nat : v.refresh = Asked(start, jar')
      BY <2>2, <3>3, AskedAt DEF Calm, Is
    <3> QED BY <3>1, <3>2, <3>3
  <2>5. \A u \in Tab : u # t => Calm(tab[u].refresh)'
    BY <2>0, <1>1 DEF PeaceInv, Calm, Is
  <2>6. \A u \in Tab : Calm(tab[u].refresh)'
    BY <1>1, <2>4, <2>5
  <2> QED BY <2>0, <2>2, <2>3, <2>6 DEF PeaceInv
<1> QED BY <1>4, <1>5, <1>6, <1>7, <1>8, <1>9 DEF IInv

-----------------------------------------------------------------------------
(* A step of the server that hands out no token: rows go, none comes.      *)
LEMMA QuietServer ==
  ASSUME IInv, NEW t \in Tab, NEW v, TabInv(v), tab' = [tab EXCEPT ![t] = v],
         UNCHANGED <<jar, issued, faults>>, exists' \in BOOLEAN, swept' \in BOOLEAN,
         session' \in [Token -> RowRecord],
         \A s \in Token : session'[s] = session[s] \/ session'[s].state = "gone",
         exists => exists' \/ \A s \in Token : session'[s].state = "gone",
         ~ exists => ~ exists',
         \A p \in Place : Brought(v, p) \in {0, Brought(tab[t], p)},
         v.refresh.cookie = tab[t].refresh.cookie,
         tab[t].refresh.at # "idle" => v.refresh.at # "idle",
         CookieOK(v.refresh)', faults = 0 => swept' = FALSE /\ Calm(v.refresh)'
  PROVE  IInv'
<1>0. TypeInv /\ v \in TabRecord BY DEF IInv, TabInv
<1>1. /\ tab' \in [Tab -> TabRecord] /\ tab'[t] = v /\ \A u \in Tab : u # t => tab'[u] = tab[u]
  BY <1>0, TabSet
<1>2. TypeInv'
  BY <1>0, <1>1 DEF TypeInv
<1>3. (\A u \in Tab : TabInv(tab[u]))'
  BY TabsKept
<1>4. RowInv'
  BY DEF IInv, RowInv
<1>5. \A n \in Nat : n # 0 /\ n <= issued => n \in Token
  BY <1>0, TokenOf
<1>6. \A u \in Tab : tab[u].refresh.cookie \in Nat /\ tab[u].refresh.cookie <= issued
  BY <1>0 DEF IInv, TypeInv, TabRecord, Refresh, CookieInv, CookieOK
<1>7. CookieInv'
  <2>2. \A u \in Tab : u # t => CookieOK(tab[u].refresh)'
    BY <1>1, <1>5, <1>6 DEF IInv, CookieInv, CookieOK, Is, RowStates
  <2> QED BY <1>1, <2>2 DEF CookieInv
<1>8. BroughtInv'
  <2> SUFFICES ASSUME NEW u \in Tab, NEW p \in Place, Brought(tab'[u], p) # 0
               PROVE  LET n == Brought(tab'[u], p) IN
                      /\ n <= issued' /\ n # jar'
                      /\ session'[n].state \in {"live", "gone"}
                      /\ \A x \in Tab : tab'[x].refresh.cookie # n
                      /\ \A x \in Tab, q \in Place : Brought(tab'[x], q) = n => u = x /\ p = q
    BY DEF BroughtInv
  <2> DEFINE n == Brought(tab[u], p)
  <2>1. ASSUME NEW x \in Tab, NEW q \in Place PROVE Brought(tab'[x], q) \in {0, Brought(tab[x], q)}
    BY <1>1
  <2>2. Brought(tab'[u], p) = n /\ n # 0
    BY <2>1
  <2>3. /\ n <= issued /\ n # jar
        /\ session[n].state \in {"live", "gone"}
        /\ \A x \in Tab : tab[x].refresh.cookie # n
        /\ \A x \in Tab, q \in Place : Brought(tab[x], q) = n => u = x /\ p = q
    BY <2>2 DEF IInv, BroughtInv
  <2>4. n \in Nat
    BY <1>0 DEF TypeInv, TabRecord, Brought, Place, Request, Refresh
  <2>5. session'[n].state \in {"live", "gone"}
    BY <1>5, <2>2, <2>3, <2>4
  <2>6. \A x \in Tab : tab'[x].refresh.cookie # n
    BY <1>1, <2>3
  <2>7. \A x \in Tab, q \in Place : Brought(tab'[x], q) = n => u = x /\ p = q
    BY <2>1, <2>2, <2>3
  <2> QED BY <2>2, <2>3, <2>5, <2>6, <2>7
<1>9. PeaceInv'
  <2> SUFFICES ASSUME faults = 0
               PROVE  /\ swept' = FALSE
                      /\ Is(jar, RowStates \ {"rotated"})'
                      /\ jar # 0 /\ session'[jar].state = "graced" =>
                           \E u \in Tab : tab'[u].refresh.at # "idle" /\ tab'[u].refresh.cookie = jar
                      /\ \A u \in Tab : Calm(tab[u].refresh)'
    BY DEF PeaceInv
  <2>0. PeaceInv /\ jar \in Nat /\ jar <= issued
    BY <1>0 DEF IInv, TypeInv
  <2>1. jar # 0 => session'[jar] = session[jar] \/ session'[jar].state = "gone"
    BY <1>5, <2>0
  <2>2. Is(jar, RowStates \ {"rotated"})'
    BY <2>0, <2>1 DEF PeaceInv, Is, RowStates
  <2>3. ASSUME jar # 0, session'[jar].state = "graced"
        PROVE  \E u \in Tab : tab'[u].refresh.at # "idle" /\ tab'[u].refresh.cookie = jar
    <3>1. session[jar].state = "graced"
      BY <2>1, <2>3
    <3> QED BY <1>1, <2>0, <2>3, <3>1 DEF PeaceInv
  <2>4. \A u \in Tab : u # t => Calm(tab[u].refresh)'
    BY <2>0, <1>1, <1>5, <1>6 DEF PeaceInv, Calm, Is, RowStates
  <2>5. \A u \in Tab : Calm(tab[u].refresh)'
    BY <1>1, <2>4
  <2> QED BY <2>2, <2>3, <2>5
<1> QED BY <1>2, <1>3, <1>4, <1>7, <1>8, <1>9 DEF IInv

(* A step that hands out a token, perhaps for the one a refresh carries.   *)
Issues(t, v, place) ==
  /\ TabInv(v) /\ tab' = [tab EXCEPT ![t] = v]
  /\ UNCHANGED <<jar, exists, faults, swept>>
  /\ exists /\ issued < MaxToken /\ issued' = issued + 1
  /\ Brought(v, place) = issued + 1
  /\ \A p \in Place : p # place => Brought(v, p) \in {0, Brought(tab[t], p)}
  /\ session' \in [Token -> RowRecord]
  /\ session'[issued + 1].uid = Owner /\ session'[issued + 1].state = "live"
  /\ \A s \in Token :
       s # issued + 1 =>
         \/ session'[s] = session[s]
         \/ /\ s = tab[t].refresh.cookie /\ v.refresh.at # "idle"
            /\ session[s].state = "live"
            /\ session'[s].state = "graced" /\ session'[s].uid = session[s].uid
  /\ v.refresh.cookie = tab[t].refresh.cookie
  /\ tab[t].refresh.at # "idle" => v.refresh.at # "idle"
  /\ \/ v.refresh = tab[t].refresh
     \/ /\ v.refresh.at = "back" /\ v.refresh.answer = "open"
        /\ faults = 0 => Is(v.refresh.cookie, RowStates \ {"rotated"})

LEMMA IssuingServer ==
  ASSUME IInv, NEW t \in Tab, NEW v, NEW place \in Place, Issues(t, v, place)
  PROVE  IInv'
<1> USE DEF Issues
<1>0. TypeInv /\ v \in TabRecord /\ issued \in Nat /\ MaxToken \in Nat
  BY BoundAssumption DEF IInv, TabInv, TypeInv
<1>1. /\ tab' \in [Tab -> TabRecord] /\ tab'[t] = v /\ \A u \in Tab : u # t => tab'[u] = tab[u]
  BY <1>0, TabSet
<1>2. TypeInv'
  BY <1>0, <1>1 DEF TypeInv
<1>3. (\A u \in Tab : TabInv(tab[u]))'
  BY TabsKept
<1>4. RowInv'
  BY <1>0 DEF IInv, RowInv, Token
<1>5. \A n \in Nat : n # 0 /\ n <= issued => n \in Token /\ n # issued + 1
  BY <1>0, TokenOf
<1>6. \A u \in Tab : tab[u].refresh.cookie \in Nat /\ tab[u].refresh.cookie <= issued
  BY <1>0 DEF IInv, TypeInv, TabRecord, Refresh, CookieInv, CookieOK
<1>c. \A n \in Nat : n # 0 /\ n <= issued =>
        \/ session'[n] = session[n]
        \/ /\ n = tab[t].refresh.cookie /\ v.refresh.at # "idle"
           /\ session[n].state = "live" /\ session'[n].state = "graced"
  BY <1>5
<1>7. CookieInv'
  <2>1. \A u \in Tab : tab[u].refresh.cookie <= issued'
    BY <1>0, <1>6
  <2>2. ASSUME NEW u \in Tab, CookieOK(tab[u].refresh) PROVE \A r : r = tab[u].refresh => CookieOK(r)'
    BY <1>c, <1>6, <2>1, <2>2 DEF CookieOK, Is, RowStates
  <2>3. \A r : r = v.refresh => CookieOK(r)'
    <3>1. CASE v.refresh = tab[t].refresh
      BY <2>2, <3>1 DEF IInv, CookieInv
    <3>2. CASE v.refresh.at = "back" /\ v.refresh.answer = "open"
      BY <2>1, <3>2 DEF CookieOK
    <3> QED BY <3>1, <3>2
  <2>4. ASSUME NEW u \in Tab PROVE CookieOK(tab[u].refresh)'
    <3>1. PICK r : r = tab'[u].refresh OBVIOUS
    <3>2. CookieOK(r)'
      BY <1>1, <2>2, <2>3, <3>1 DEF IInv, CookieInv
    <3> QED BY <3>1, <3>2
  <2> QED BY <2>4 DEF CookieInv
<1>8. BroughtInv'
  <2> SUFFICES ASSUME NEW u \in Tab, NEW p \in Place, Brought(tab'[u], p) # 0
               PROVE  LET n == Brought(tab'[u], p) IN
                      /\ n <= issued' /\ n # jar
                      /\ session'[n].state \in {"live", "gone"}
                      /\ \A x \in Tab : tab'[x].refresh.cookie # n
                      /\ \A x \in Tab, q \in Place : Brought(tab'[x], q) = n => u = x /\ p = q
    BY DEF BroughtInv
  <2>0. \A x \in Tab, q \in Place : Brought(tab[x], q) \in Nat /\ Brought(tab[x], q) <= issued
    <3>1. \A x \in Tab, q \in Place : Brought(tab[x], q) \in Nat
      BY <1>0 DEF TypeInv, TabRecord, Brought, Place, Request, Refresh
    <3> QED BY <1>0, <3>1 DEF IInv, BroughtInv
  <2>1. ASSUME NEW x \in Tab, NEW q \in Place, ~ (x = t /\ q = place)
        PROVE  Brought(tab'[x], q) \in {0, Brought(tab[x], q)}
    BY <1>1, <2>1
  <2>2. Brought(tab'[t], place) = issued + 1
    BY <1>1
  <2>3. \A x \in Tab, q \in Place : Brought(tab'[x], q) # issued + 1 \/ (x = t /\ q = place)
    BY <1>0, <2>0, <2>1
  <2>4. \A x \in Tab : tab'[x].refresh.cookie = tab[x].refresh.cookie
    BY <1>1
  <2>5. CASE u = t /\ p = place
    <3>1. /\ issued + 1 <= issued' /\ issued + 1 # jar
          /\ \A x \in Tab : tab[x].refresh.cookie # issued + 1
      BY <1>0, <1>6 DEF TypeInv
    <3> QED BY <2>2, <2>3, <2>4, <2>5, <3>1
  <2>6. CASE ~ (u = t /\ p = place)
    <3> DEFINE n == Brought(tab[u], p)
    <3>1. Brought(tab'[u], p) = n /\ n # 0
      BY <2>1, <2>6
    <3>2. /\ n <= issued /\ n # jar
          /\ session[n].state \in {"live", "gone"}
          /\ \A x \in Tab : tab[x].refresh.cookie # n
          /\ \A x \in Tab, q \in Place : Brought(tab[x], q) = n => u = x /\ p = q
      BY <3>1 DEF IInv, BroughtInv
    <3>3. n \in Nat BY <2>0
    <3> HIDE DEF n
    <3>4. session'[n] = session[n]
      BY <1>c, <3>1, <3>2, <3>3
    <3>5. n <= issued' /\ n # issued + 1
      BY <1>0, <3>2, <3>3
    <3>6. \A x \in Tab, q \in Place : Brought(tab'[x], q) = n => u = x /\ p = q
      <4> TAKE x \in Tab, q \in Place
      <4>1. CASE x = t /\ q = place
        BY <2>2, <3>5, <4>1
      <4>2. CASE ~ (x = t /\ q = place)
        BY <2>1, <3>1, <3>2, <4>2
      <4> QED BY <4>1, <4>2
    <3> QED BY <2>4, <3>1, <3>2, <3>4, <3>5, <3>6
  <2> QED BY <2>5, <2>6
<1>9. PeaceInv'
  <2> SUFFICES ASSUME faults = 0
               PROVE  /\ swept = FALSE
                      /\ Is(jar, RowStates \ {"rotated"})'
                      /\ jar # 0 /\ session'[jar].state = "graced" =>
                           \E u \in Tab : tab'[u].refresh.at # "idle" /\ tab'[u].refresh.cookie = jar
                      /\ \A u \in Tab : Calm(tab[u].refresh)'
    BY DEF PeaceInv
  <2>0. PeaceInv /\ jar \in Nat /\ jar <= issued
    BY <1>0 DEF IInv, TypeInv
  <2>2. Is(jar, RowStates \ {"rotated"})'
    BY <1>c, <2>0 DEF PeaceInv, Is, RowStates
  <2>3. ASSUME jar # 0, session'[jar].state = "graced"
        PROVE  \E u \in Tab : tab'[u].refresh.at # "idle" /\ tab'[u].refresh.cookie = jar
    <3>1. CASE session'[jar] = session[jar]
      BY <1>1, <2>0, <2>3, <3>1 DEF PeaceInv
    <3>2. CASE jar = tab[t].refresh.cookie /\ v.refresh.at # "idle"
      BY <1>1, <3>2
    <3> QED BY <1>c, <2>0, <2>3, <3>1, <3>2
  <2>4. ASSUME NEW u \in Tab PROVE \A r : r = tab[u].refresh => Calm(r)'
    <3>1. Calm(tab[u].refresh)
      BY <2>0 DEF PeaceInv
    <3>2. /\ Is(tab[u].refresh.cookie, RowStates \ {"rotated"})
               => \A s : s = tab[u].refresh.cookie => Is(s, RowStates \ {"rotated"})'
          /\ Is(tab[u].refresh.cookie, {"gone"}) => \A s : s = tab[u].refresh.cookie => Is(s, {"gone"})'
      BY <1>c, <1>6 DEF Is, RowStates
    <3>. QED
      BY <3>1, <3>2 DEF Calm
  <2>5. \A r : r = v.refresh => Calm(r)'
    <3>1. CASE v.refresh = tab[t].refresh
      BY <2>4, <3>1
    <3>2. CASE v.refresh # tab[t].refresh /\ v.refresh.at = "back" /\ v.refresh.answer = "open"
      <4>1. PICK c : c = v.refresh.cookie OBVIOUS
      <4>2. Is(c, RowStates \ {"rotated"})'
        BY <1>c, <1>6, <3>2, <4>1 DEF Is, RowStates
      <4> QED BY <3>2, <4>1, <4>2 DEF Calm, Is
    <3> QED BY <3>1, <3>2
  <2>6. ASSUME NEW u \in Tab PROVE Calm(tab[u].refresh)'
    <3>1. PICK r : r = tab'[u].refresh OBVIOUS
    <3>2. Calm(r)'
      BY <1>1, <2>4, <2>5, <3>1
    <3> QED BY <3>1, <3>2
  <2> QED BY <2>0, <2>2, <2>3, <2>6 DEF PeaceInv
<1> QED BY <1>2, <1>3, <1>4, <1>7, <1>8, <1>9 DEF IInv

(* What the answer to a request makes of a tab.                            *)
LEMMA ReplyTab ==
  ASSUME IInv, NEW t \in Tab, NEW k \in Slot, tab[t].req[k].at = "sent",
         NEW answer \in {"ok", "refused", "401", "409"}, NEW got \in Nat, Reply(t, k, answer, got),
         answer = "ok" /\ tab[t].req[k].kind = "login" => got # 0
  PROVE  \E v : /\ tab' = [tab EXCEPT ![t] = v] /\ TabInv(v) /\ v.refresh = tab[t].refresh
                /\ Brought(v, k) = got
                /\ \A p \in Place : p # k => Brought(v, p) = Brought(tab[t], p)
<1> DEFINE w == tab[t]
           q == [w.req[k] EXCEPT !.at = "back", !.answer = answer, !.got = got]
           v == [w EXCEPT !.req[k] = q]
<1>0. TabInv(w) /\ w \in TabRecord /\ w.req \in [Slot -> Request] /\ w.req[k] \in Request
      /\ tab \in [Tab -> TabRecord]
  BY DEF IInv, TypeInv, TabInv, TabRecord
<1>1. /\ q \in Request /\ q.at = "back" /\ q.answer = answer /\ q.got = got
      /\ q.kind = w.req[k].kind /\ q.page = w.req[k].page
  BY <1>0 DEF Request
<1>2. tab' = [tab EXCEPT ![t] = v]
  BY <1>0 DEF Reply, TabRecord, Request
<1> HIDE DEF q
<1>3. /\ v \in TabRecord /\ v.refresh = w.refresh /\ v.page = w.page /\ v.token = w.token
      /\ v.guard = w.guard /\ v.save = w.save /\ v.answered = w.answered
      /\ v.req = [w.req EXCEPT ![k] = q]
  BY <1>0, <1>1 DEF TabRecord
<1> HIDE DEF v
<1>4. v.req[k] = q /\ \A p \in Slot : p # k => v.req[p] = w.req[p]
  BY <1>0, <1>3
<1>5. Rejoined(v) = Rejoined(w)
  BY <1>1, <1>4 DEF Rejoined
<1>6. TabInv(v)
  BY <1>0, <1>1, <1>3, <1>4, <1>5 DEF TabInv, Awaited, Slot
<1>7. /\ Brought(v, k) = got
      /\ \A p \in Place : p # k => Brought(v, p) = Brought(w, p)
  BY <1>1, <1>3, <1>4 DEF Brought, Place, Slot
<1> QED BY <1>2, <1>3, <1>6, <1>7

LEMMA RefreshTab ==
  ASSUME IInv, NEW t \in Tab, tab[t].refresh.at # "idle", NEW r \in Refresh, r.at # "idle",
         r.start = tab[t].refresh.start, tab' = [tab EXCEPT ![t].refresh = r],
         r.at = "back" => r.answer \in {"open", "none"} /\ (r.answer = "open" => r.got # 0)
  PROVE  \E v : /\ tab' = [tab EXCEPT ![t] = v] /\ TabInv(v) /\ v.refresh = r
                /\ Brought(v, "refresh") = IF r.at = "back" THEN r.got ELSE 0
                /\ \A p \in Place : p # "refresh" => Brought(v, p) = Brought(tab[t], p)
<1> DEFINE w == tab[t]
           v == [w EXCEPT !.refresh = r]
<1>0. TabInv(w) /\ w \in TabRecord /\ tab \in [Tab -> TabRecord]
  BY DEF IInv, TypeInv, TabInv
<1>2. tab' = [tab EXCEPT ![t] = v]
  BY <1>0
<1>3. /\ v \in TabRecord /\ v.refresh = r /\ v.page = w.page /\ v.token = w.token
      /\ v.guard = w.guard /\ v.save = w.save /\ v.answered = w.answered /\ v.req = w.req
  BY <1>0 DEF TabRecord
<1> HIDE DEF v
<1>5. Rejoined(v) = Rejoined(w)
  BY <1>3 DEF Rejoined
<1>6. TabInv(v)
  BY <1>0, <1>3, <1>5 DEF TabInv, Awaited
<1>7. /\ Brought(v, "refresh") = IF r.at = "back" THEN r.got ELSE 0
      /\ \A p \in Place : p # "refresh" => Brought(v, p) = Brought(w, p)
  BY <1>3 DEF Brought
<1> QED BY <1>2, <1>3, <1>6, <1>7

(* Answers that hand out nothing.                                          *)
LEMMA RowsShrink ==
  ASSUME IInv
  PROVE  /\ \A c \in Nat : c # 0 /\ session' = Logout(session, c) =>
              /\ session' \in [Token -> RowRecord]
              /\ \A s \in Token : session'[s] = session[s] \/ session'[s].state = "gone"
         /\ session' = CascadeSessions(session, {Owner}) =>
              /\ session' \in [Token -> RowRecord]
              /\ \A s \in Token : session'[s].state = "gone"
         /\ session' = EndAllSessions(session, Owner) =>
              /\ session' \in [Token -> RowRecord]
              /\ \A s \in Token : session'[s] = session[s] \/ session'[s].state = "gone"
<1>0. session \in [Token -> RowRecord] /\ Gone \in RowRecord /\ Gone.state = "gone"
  BY DEF IInv, TypeInv, Gone, RowRecord, RowStates
<1>1. ASSUME NEW c \in Nat, session' = Logout(session, c)
      PROVE  /\ session' \in [Token -> RowRecord]
             /\ \A s \in Token : session'[s] = session[s] \/ session'[s].state = "gone"
  BY <1>0, <1>1 DEF Logout
<1>2. ASSUME session' = CascadeSessions(session, {Owner})
      PROVE  /\ session' \in [Token -> RowRecord]
             /\ \A s \in Token : session'[s].state = "gone"
  BY <1>0, <1>2 DEF CascadeSessions, IInv, RowInv
<1>3. ASSUME session' = EndAllSessions(session, Owner)
      PROVE  /\ session' \in [Token -> RowRecord]
             /\ \A s \in Token : session'[s] = session[s] \/ session'[s].state = "gone"
  BY <1>0, <1>3 DEF EndAllSessions
<1> QED BY <1>1, <1>2, <1>3

LEMMA QuietReply ==
  ASSUME IInv, NEW t \in Tab, NEW k \in Slot, tab[t].req[k].at = "sent",
         NEW answer \in {"ok", "refused", "401", "409"}, Reply(t, k, answer, 0),
         answer = "ok" => tab[t].req[k].kind # "login",
         UNCHANGED <<jar, issued, faults, swept>>, exists' \in BOOLEAN,
         session' \in [Token -> RowRecord],
         \A s \in Token : session'[s] = session[s] \/ session'[s].state = "gone",
         exists => exists' \/ \A s \in Token : session'[s].state = "gone",
         ~ exists => ~ exists'
  PROVE  IInv'
<1>1. PICK v : /\ tab' = [tab EXCEPT ![t] = v] /\ TabInv(v) /\ v.refresh = tab[t].refresh
               /\ Brought(v, k) = 0
               /\ \A p \in Place : p # k => Brought(v, p) = Brought(tab[t], p)
  BY ReplyTab
<1>2. tab[t].refresh.cookie \in Nat /\ tab[t].refresh.cookie <= issued
  BY DEF IInv, TypeInv, TabRecord, Refresh, CookieInv, CookieOK
<1>3. tab[t].refresh.cookie # 0 => tab[t].refresh.cookie \in Token
  BY <1>2, TokenOf DEF IInv
<1>4. \A r : r = tab[t].refresh => CookieOK(r)' /\ (faults = 0 => swept' = FALSE /\ Calm(r)')
  <2>1. CookieOK(tab[t].refresh) /\ (faults = 0 => swept = FALSE /\ Calm(tab[t].refresh))
    BY DEF IInv, CookieInv, PeaceInv
  <2> QED BY <1>3, <2>1 DEF CookieOK, Calm, Is, RowStates
<1>5. CookieOK(v.refresh)' /\ (faults = 0 => swept' = FALSE /\ Calm(v.refresh)')
  BY <1>1, <1>4
<1>6. swept' \in BOOLEAN
  BY DEF IInv, TypeInv
<1>7. \A p \in Place : Brought(v, p) \in {0, Brought(tab[t], p)}
  BY <1>1
<1> QED BY <1>1, <1>5, <1>6, <1>7, QuietServer

LEMMA RequestsServed ==
  ASSUME IInv, NEW t \in Tab,
         ServeLogin(t) \/ ServeLogout(t) \/ ServeDelete(t) \/ ServeCreate(t) \/ ServeQuery(t)
  PROVE  IInv'
<1>0. /\ session \in [Token -> RowRecord] /\ exists \in BOOLEAN /\ "act" \in Slot /\ "query" \in Slot
      /\ issued \in Nat /\ \A k \in Slot : tab[t].req[k] \in Request
  BY DEF IInv, TypeInv, Slot, TabRecord
<1>1. CASE ServeLogin(t)
  <2>1. tab[t].req["act"].at = "sent" /\ UNCHANGED <<jar, exists, faults, swept>>
    BY <1>1 DEF ServeLogin, Serving
  <2>2. CASE ~ exists
    <3>1. Reply(t, "act", "refused", 0) /\ UNCHANGED <<session, issued>>
      BY <1>1, <2>2 DEF ServeLogin
    <3> QED BY <1>0, <2>1, <3>1, QuietReply
  <2>3. CASE exists
    <3>1. /\ issued < MaxToken /\ issued' = issued + 1 /\ Reply(t, "act", "ok", issued + 1)
          /\ session' = IssueTokens(session, issued + 1, Owner)
      BY <1>1, <2>3 DEF ServeLogin, Fresh
    <3>2. issued + 1 \in Nat /\ issued + 1 # 0
      BY <1>0
    <3>3. PICK v : /\ tab' = [tab EXCEPT ![t] = v] /\ TabInv(v) /\ v.refresh = tab[t].refresh
                   /\ Brought(v, "act") = issued + 1
                   /\ \A p \in Place : p # "act" => Brought(v, p) = Brought(tab[t], p)
      BY <1>0, <2>1, <3>1, <3>2, ReplyTab
    <3>4. issued + 1 \in Token
      BY <1>0, <3>1, BoundAssumption DEF Token
    <3>5. /\ session' \in [Token -> RowRecord]
          /\ session'[issued + 1].uid = Owner /\ session'[issued + 1].state = "live"
          /\ \A s \in Token : s # issued + 1 => session'[s] = session[s]
      BY <1>0, <3>1, <3>4 DEF IssueTokens, RowRecord, RowStates
    <3>6. "act" \in Place /\ \A p \in Place : p # "act" => Brought(v, p) \in {0, Brought(tab[t], p)}
      BY <3>3 DEF Place, Slot
    <3>7. \A s \in Token :
            s # issued + 1 =>
              \/ session'[s] = session[s]
              \/ /\ s = tab[t].refresh.cookie /\ v.refresh.at # "idle"
                 /\ session[s].state = "live"
                 /\ session'[s].state = "graced" /\ session'[s].uid = session[s].uid
      BY <3>5
    <3>8. UNCHANGED <<jar, exists, faults, swept>>
      BY <2>1
    <3>9. /\ v.refresh.cookie = tab[t].refresh.cookie
          /\ tab[t].refresh.at # "idle" => v.refresh.at # "idle"
          /\ v.refresh = tab[t].refresh
      BY <3>3
    <3>10. issued < MaxToken /\ issued' = issued + 1
      BY <3>1
    <3>11. /\ tab' = [tab EXCEPT ![t] = v] /\ TabInv(v) /\ Brought(v, "act") = issued + 1
      BY <3>3
    <3>12. Issues(t, v, "act")
      BY <2>3, <3>5, <3>6, <3>7, <3>8, <3>9, <3>10, <3>11 DEF Issues
    <3> QED BY <3>6, <3>12, IssuingServer
  <2> QED BY <2>2, <2>3
<1>2. CASE ServeLogout(t)
  <2> DEFINE c == tab[t].req["act"].cookie
  <2>1. /\ tab[t].req["act"].at = "sent" /\ tab[t].req["act"].kind = "logout"
        /\ Reply(t, "act", "ok", 0) /\ UNCHANGED <<jar, issued, exists, faults, swept>>
        /\ session' = IF c = 0 THEN session ELSE Logout(session, c)
    BY <1>2 DEF ServeLogout, Serving
  <2>2. c \in Nat
    BY <1>0 DEF Request
  <2>3. /\ session' \in [Token -> RowRecord]
        /\ \A s \in Token : session'[s] = session[s] \/ session'[s].state = "gone"
    BY <1>0, <2>1, <2>2, RowsShrink
  <2> QED BY <1>0, <2>1, <2>3, QuietReply
<1>3. CASE ServeDelete(t)
  <2>1. /\ tab[t].req["act"].at = "sent" /\ tab[t].req["act"].kind = "delete"
        /\ UNCHANGED <<jar, issued, faults, swept>>
    BY <1>3 DEF ServeDelete, Serving
  <2>2. CASE Bearer(tab[t].req["act"].token)
    <3>1. /\ session' = CascadeSessions(session, {Owner}) /\ exists' = FALSE /\ Reply(t, "act", "ok", 0)
      BY <1>3, <2>2 DEF ServeDelete
    <3>2. session' \in [Token -> RowRecord] /\ \A s \in Token : session'[s].state = "gone"
      BY <3>1, RowsShrink
    <3> QED BY <1>0, <2>1, <3>1, <3>2, QuietReply
  <2>3. CASE ~ Bearer(tab[t].req["act"].token)
    <3>1. Reply(t, "act", "401", 0) /\ UNCHANGED <<session, exists>>
      BY <1>3, <2>3 DEF ServeDelete
    <3> QED BY <1>0, <2>1, <3>1, QuietReply
  <2> QED BY <2>2, <2>3
<1>4. CASE ServeCreate(t)
  <2>1. /\ tab[t].req["act"].at = "sent" /\ tab[t].req["act"].kind = "create"
        /\ UNCHANGED <<session, exists, jar, issued, faults, swept>>
        /\ \/ Reply(t, "act", "401", 0) \/ Reply(t, "act", "ok", 0) \/ Reply(t, "act", "409", 0)
    BY <1>4 DEF ServeCreate, Serving
  <2> QED BY <1>0, <2>1, QuietReply
<1>5. CASE ServeQuery(t)
  <2>1. /\ tab[t].req["query"].at = "sent" /\ tab[t].req["query"].kind = "query"
        /\ UNCHANGED <<session, exists, jar, issued, faults, swept>>
        /\ \/ Reply(t, "query", "401", 0) \/ Reply(t, "query", "ok", 0)
    BY <1>5 DEF ServeQuery, Serving, server
  <2> QED BY <1>0, <2>1, QuietReply
<1> QED BY <1>1, <1>2, <1>3, <1>4, <1>5

(* The steps of a refresh on the server.                                   *)
LEMMA RefreshFacts ==
  ASSUME IInv, NEW t \in Tab
  PROVE  LET r == tab[t].refresh IN
         /\ r \in Refresh /\ r.cookie \in Nat /\ r.cookie <= issued
         /\ r.cookie # 0 => r.cookie \in Token /\ session[r.cookie] \in RowRecord
         /\ CookieOK(r) /\ (faults = 0 => swept = FALSE /\ Calm(r))
<1>1. tab[t].refresh \in Refresh /\ TypeInv
  BY DEF IInv, TypeInv, TabRecord
<1>2. tab[t].refresh.cookie \in Nat /\ tab[t].refresh.cookie <= issued
  BY <1>1 DEF IInv, CookieInv, CookieOK, Refresh
<1>3. tab[t].refresh.cookie # 0 => tab[t].refresh.cookie \in Token
  BY <1>1, <1>2, TokenOf
<1> QED BY <1>1, <1>2, <1>3 DEF IInv, TypeInv, CookieInv, PeaceInv

LEMMA RefusedRefresh ==
  ASSUME IInv, NEW t \in Tab, tab[t].refresh.at # "idle", Refreshed(t, "none", 0),
         UNCHANGED <<jar, issued, exists, faults>>, swept' \in BOOLEAN,
         session' \in [Token -> RowRecord],
         \A s \in Token : session'[s] = session[s] \/ session'[s].state = "gone",
         NEW c, c = tab[t].refresh.cookie, Is(c, RowStates \ {"live"})',
         faults = 0 => swept' = FALSE /\ Is(c, {"gone"})'
  PROVE  IInv'
<1> DEFINE r == [tab[t].refresh EXCEPT !.at = "back", !.answer = "none", !.got = 0]
<1>0. tab[t].refresh \in Refresh /\ tab \in [Tab -> TabRecord] /\ c \in Nat /\ c <= issued
  BY RefreshFacts DEF IInv, TypeInv
<1>1. /\ r \in Refresh /\ r.at = "back" /\ r.answer = "none" /\ r.got = 0 /\ r.cookie = c
      /\ r.start = tab[t].refresh.start
  BY <1>0 DEF Refresh
<1>2. tab' = [tab EXCEPT ![t].refresh = r]
  BY <1>0 DEF Refreshed
<1> HIDE DEF r
<1>3. PICK v : /\ tab' = [tab EXCEPT ![t] = v] /\ TabInv(v) /\ v.refresh = r
               /\ Brought(v, "refresh") = IF r.at = "back" THEN r.got ELSE 0
               /\ \A p \in Place : p # "refresh" => Brought(v, p) = Brought(tab[t], p)
  BY <1>1, <1>2, RefreshTab
<1>4. PICK q : q = v.refresh OBVIOUS
<1>5. CookieOK(q)' /\ (faults = 0 => swept' = FALSE /\ Calm(q)')
  BY <1>0, <1>1, <1>3, <1>4 DEF CookieOK, Calm, Is, RowStates
<1>6. \A p \in Place : Brought(v, p) \in {0, Brought(tab[t], p)}
  BY <1>1, <1>3
<1>7. v.refresh.cookie = tab[t].refresh.cookie /\ v.refresh.at # "idle" /\ exists' \in BOOLEAN
  BY <1>1, <1>3 DEF IInv, TypeInv
<1>8. (exists => exists' \/ \A s \in Token : session'[s].state = "gone") /\ (~ exists => ~ exists')
  OBVIOUS
<1>9. CookieOK(v.refresh)' /\ (faults = 0 => swept' = FALSE /\ Calm(v.refresh)')
  BY <1>4, <1>5
<1> QED BY <1>3, <1>6, <1>7, <1>8, <1>9, QuietServer

LEMMA RefreshGoesOn ==
  ASSUME IInv, NEW t \in Tab, tab[t].refresh.at # "idle",
         NEW at \in {"reused", "grant", "sweep"}, Goes(t, at),
         UNCHANGED <<session, jar, issued, exists, faults, swept>>,
         NEW c, c = tab[t].refresh.cookie, c # 0, session[c].state \in RowStates \ {"live"},
         faults = 0 => at # "sweep" /\ session[c].state # "rotated"
  PROVE  IInv'
<1> DEFINE r == [tab[t].refresh EXCEPT !.at = at]
<1>0. tab[t].refresh \in Refresh /\ tab \in [Tab -> TabRecord] /\ c \in Nat /\ c <= issued
      /\ (faults = 0 => swept = FALSE)
  BY RefreshFacts DEF IInv, TypeInv
<1>1. /\ r \in Refresh /\ r.at = at /\ r.cookie = c /\ r.start = tab[t].refresh.start
      /\ r.at # "idle" /\ r.at # "back"
  BY <1>0 DEF Refresh
<1>2. tab' = [tab EXCEPT ![t].refresh = r]
  BY <1>0 DEF Goes
<1> HIDE DEF r
<1>3. PICK v : /\ tab' = [tab EXCEPT ![t] = v] /\ TabInv(v) /\ v.refresh = r
               /\ Brought(v, "refresh") = IF r.at = "back" THEN r.got ELSE 0
               /\ \A p \in Place : p # "refresh" => Brought(v, p) = Brought(tab[t], p)
  BY <1>1, <1>2, RefreshTab
<1>4. PICK q : q = v.refresh OBVIOUS
<1>5. CookieOK(q)' /\ (faults = 0 => swept' = FALSE /\ Calm(q)')
  BY <1>0, <1>1, <1>3, <1>4 DEF CookieOK, Calm, Is
<1>6. \A p \in Place : Brought(v, p) \in {0, Brought(tab[t], p)}
  BY <1>1, <1>3
<1>7. v.refresh.cookie = tab[t].refresh.cookie /\ v.refresh.at # "idle" /\ exists' \in BOOLEAN
      /\ swept' \in BOOLEAN /\ session' \in [Token -> RowRecord]
  BY <1>1, <1>3 DEF IInv, TypeInv
<1>8. /\ (exists => exists' \/ \A s \in Token : session'[s].state = "gone") /\ (~ exists => ~ exists')
      /\ \A s \in Token : session'[s] = session[s] \/ session'[s].state = "gone"
  OBVIOUS
<1>9. CookieOK(v.refresh)' /\ (faults = 0 => swept' = FALSE /\ Calm(v.refresh)')
  BY <1>4, <1>5
<1> QED BY <1>3, <1>6, <1>7, <1>8, <1>9, QuietServer

LEMMA GrantedRefresh ==
  ASSUME IInv, NEW t \in Tab, tab[t].refresh.at # "idle", exists,
         UNCHANGED <<jar, exists, faults, swept>>, NEW c, c = tab[t].refresh.cookie,
         NEW rows, Grant(t, rows),
         rows = session \/ (rows = RotateToken(session, c) /\ c # 0 /\ session[c].state = "live"),
         faults = 0 => Is(c, RowStates \ {"rotated"})
  PROVE  IInv'
<1> DEFINE r == [tab[t].refresh EXCEPT !.at = "back", !.answer = "open", !.got = issued + 1]
<1>0. /\ tab[t].refresh \in Refresh /\ tab \in [Tab -> TabRecord] /\ c \in Nat /\ c <= issued
      /\ issued \in Nat /\ session \in [Token -> RowRecord] /\ (c # 0 => c \in Token)
  BY RefreshFacts DEF IInv, TypeInv
<1>n. PICK n \in Nat : n = issued + 1 /\ n # 0
  BY <1>0
<1>1. /\ r \in Refresh /\ r.at = "back" /\ r.answer = "open" /\ r.got = issued + 1 /\ r.cookie = c
      /\ r.start = tab[t].refresh.start /\ r.got # 0
  <2>1. r = [tab[t].refresh EXCEPT !.at = "back", !.answer = "open", !.got = n]
    BY <1>n
  <2> HIDE DEF r
  <2>2. /\ r \in Refresh /\ r.at = "back" /\ r.answer = "open" /\ r.got = n /\ r.cookie = c
        /\ r.start = tab[t].refresh.start
    BY <1>0, <2>1 DEF Refresh
  <2> QED BY <1>n, <2>2
<1>2. /\ tab' = [tab EXCEPT ![t].refresh = r] /\ issued < MaxToken /\ issued' = issued + 1
      /\ session' = IssueTokens(rows, issued + 1, Owner)
  BY <1>0 DEF Grant, Refreshed, Fresh
<1> HIDE DEF r
<1>3. PICK v : /\ tab' = [tab EXCEPT ![t] = v] /\ TabInv(v) /\ v.refresh = r
               /\ Brought(v, "refresh") = IF r.at = "back" THEN r.got ELSE 0
               /\ \A p \in Place : p # "refresh" => Brought(v, p) = Brought(tab[t], p)
  BY <1>1, <1>2, RefreshTab
<1>4. issued + 1 \in Token /\ issued + 1 # c
  BY <1>0, <1>2, BoundAssumption DEF Token
<1>5. /\ rows \in [Token -> RowRecord]
      /\ \A s \in Token : \/ rows[s] = session[s]
                          \/ /\ s = c /\ session[s].state = "live"
                             /\ rows[s].state = "graced" /\ rows[s].uid = session[s].uid
  BY <1>0 DEF RotateToken, RowRecord, RowStates
<1>6. /\ session' \in [Token -> RowRecord]
      /\ session'[issued + 1].uid = Owner /\ session'[issued + 1].state = "live"
      /\ \A s \in Token : s # issued + 1 => session'[s] = rows[s]
  BY <1>2, <1>4, <1>5 DEF IssueTokens, RowRecord, RowStates
<1>7. \A s \in Token :
        s # issued + 1 =>
          \/ session'[s] = session[s]
          \/ /\ s = tab[t].refresh.cookie /\ v.refresh.at # "idle"
             /\ session[s].state = "live"
             /\ session'[s].state = "graced" /\ session'[s].uid = session[s].uid
  BY <1>1, <1>3, <1>5, <1>6
<1>8. "refresh" \in Place /\ \A p \in Place : p # "refresh" => Brought(v, p) \in {0, Brought(tab[t], p)}
  BY <1>3 DEF Place
<1>9. Issues(t, v, "refresh")
  BY <1>1, <1>2, <1>3, <1>6, <1>7, <1>8 DEF Issues
<1> QED BY <1>8, <1>9, IssuingServer

LEMMA RefreshesServed ==
  ASSUME IInv, NEW t \in Tab, Rotate(t) \/ Reused(t) \/ GrantAgain(t) \/ Sweep(t) PROVE IInv'
<1>0. PICK c : c = tab[t].refresh.cookie OBVIOUS
<1>1. /\ tab[t].refresh \in Refresh /\ c \in Nat
      /\ c # 0 => c \in Token /\ session[c] \in RowRecord
      /\ CookieOK(tab[t].refresh) /\ (faults = 0 => swept = FALSE /\ Calm(tab[t].refresh))
      /\ session \in [Token -> RowRecord] /\ swept \in BOOLEAN /\ exists \in BOOLEAN
  BY <1>0, RefreshFacts DEF IInv, TypeInv
<1>2. c # 0 => session[c].state \in RowStates /\ Row(t) = session[c]
  BY <1>0, <1>1 DEF RowRecord, Row
<1>3. CASE Rotate(t)
  <2>1. tab[t].refresh.at = "sent" /\ UNCHANGED <<exists, jar, faults, swept>>
    BY <1>3 DEF Rotate
  <2>2. CASE c = 0
    <3>1. Refreshed(t, "none", 0) /\ UNCHANGED <<session, issued>>
      BY <1>0, <1>3, <2>2 DEF Rotate
    <3>2. Is(c, RowStates \ {"live"})' /\ Is(c, {"gone"})'
      BY <2>2 DEF Is
    <3> QED BY <1>0, <1>1, <2>1, <3>1, <3>2, RefusedRefresh
  <2>3. CASE c # 0 /\ session[c].state = "live"
    <3>1. Grant(t, RotateToken(session, c))
      BY <1>0, <1>2, <1>3, <2>3 DEF Rotate
    <3>2. exists
      BY <1>1, <2>3 DEF IInv, RowInv
    <3>3. Is(c, RowStates \ {"rotated"})
      BY <2>3 DEF Is, RowStates
    <3> QED BY <1>0, <2>1, <2>3, <3>1, <3>2, <3>3, GrantedRefresh
  <2>4. CASE c # 0 /\ session[c].state # "live"
    <3>1. Goes(t, "reused") /\ UNCHANGED <<session, issued>>
      BY <1>0, <1>2, <1>3, <2>4 DEF Rotate
    <3>2. faults = 0 => session[c].state # "rotated"
      BY <1>0, <1>1, <2>1, <2>4 DEF Calm, Is
    <3> QED BY <1>0, <1>2, <2>1, <2>4, <3>1, <3>2, RefreshGoesOn
  <2> QED BY <2>2, <2>3, <2>4
<1>4. CASE Reused(t)
  <2>1. tab[t].refresh.at = "reused" /\ UNCHANGED <<session, issued, exists, jar, faults, swept>>
    BY <1>4 DEF Reused, server
  <2>2. c # 0 /\ session[c].state \in RowStates \ {"live"}
        /\ (faults = 0 => session[c].state # "rotated")
    BY <1>0, <1>1, <2>1 DEF CookieOK, Is, Calm
  <2>3. CASE session[c].state = "gone"
    <3>1. Refreshed(t, "none", 0)
      BY <1>2, <1>4, <2>2, <2>3 DEF Reused, Verdict
    <3>2. Is(c, RowStates \ {"live"})' /\ Is(c, {"gone"})'
      BY <2>1, <2>2, <2>3 DEF Is
    <3> QED BY <1>0, <1>1, <2>1, <3>1, <3>2, RefusedRefresh
  <2>4. CASE session[c].state = "graced"
    <3>1. Goes(t, "grant")
      BY <1>2, <1>4, <2>2, <2>4 DEF Reused, Verdict
    <3> QED BY <1>0, <2>1, <2>2, <3>1, RefreshGoesOn
  <2>5. CASE session[c].state = "rotated"
    <3>1. Goes(t, "sweep")
      BY <1>2, <1>4, <2>2, <2>5 DEF Reused, Verdict
    <3> QED BY <1>0, <2>1, <2>2, <2>5, <3>1, RefreshGoesOn
  <2> QED BY <2>2, <2>3, <2>4, <2>5 DEF RowStates
<1>5. CASE GrantAgain(t)
  <2>1. tab[t].refresh.at = "grant" /\ UNCHANGED <<exists, jar, faults, swept>>
    BY <1>5 DEF GrantAgain
  <2>2. CASE exists
    <3>1. Grant(t, session)
      BY <1>5, <2>2 DEF GrantAgain
    <3>2. faults = 0 => Is(c, RowStates \ {"rotated"})
      BY <1>0, <1>1, <2>1 DEF Calm
    <3>3. PICK rows : rows = session OBVIOUS
    <3>4. Grant(t, rows)
      BY <3>1, <3>3
    <3>5. tab[t].refresh.at # "idle"
      BY <2>1
    <3>6. UNCHANGED <<jar, exists, faults, swept>>
      BY <2>1
    <3>7. rows = session \/ (rows = RotateToken(session, c) /\ c # 0 /\ session[c].state = "live")
      BY <3>3
    <3> HIDE <3>3
    <3> QED BY <1>0, <2>2, <3>2, <3>4, <3>5, <3>6, <3>7, GrantedRefresh
  <2>3. CASE ~ exists
    <3>1. Refreshed(t, "none", 0) /\ UNCHANGED <<session, issued>>
      BY <1>5, <2>3 DEF GrantAgain
    <3>2. c # 0 => session[c].state = "gone"
      BY <1>1, <2>3 DEF IInv, RowInv
    <3>3. Is(c, RowStates \ {"live"})' /\ Is(c, {"gone"})'
      BY <3>1, <3>2 DEF Is, RowStates
    <3> QED BY <1>0, <1>1, <2>1, <3>1, <3>3, RefusedRefresh
  <2> QED BY <2>2, <2>3
<1>6. CASE Sweep(t)
  <2>1. /\ tab[t].refresh.at = "sweep" /\ UNCHANGED <<exists, issued, jar, faults>>
        /\ session' = EndAllSessions(session, Owner) /\ swept' = TRUE /\ Refreshed(t, "none", 0)
    BY <1>6 DEF Sweep
  <2>2. faults # 0
    BY <1>1, <2>1 DEF Calm
  <2>3. /\ session' \in [Token -> RowRecord]
        /\ \A s \in Token : session'[s] = session[s] \/ session'[s].state = "gone"
    BY <2>1, RowsShrink
  <2>4. Is(c, RowStates \ {"live"})'
    BY <1>0, <1>1, <2>1, <2>3 DEF CookieOK, Is, RowStates
  <2> QED BY <1>0, <2>1, <2>2, <2>3, <2>4, RefusedRefresh
<1> QED BY <1>3, <1>4, <1>5, <1>6

(* A refresh takes less than the grace.                                    *)
LEMMA GraceKeeps ==
  ASSUME IInv, NEW s \in Token, GracePasses(s) PROVE IInv'
<1>0. /\ session \in [Token -> RowRecord] /\ tab \in [Tab -> TabRecord]
      /\ session[s].state = "graced"
      /\ \A t \in Tab : tab[t].refresh.at # "idle" => tab[t].refresh.cookie # s
      /\ session' = GraceEnds(session, s)
      /\ UNCHANGED <<exists, jar, tab, issued, faults, swept>>
  BY DEF IInv, TypeInv, GracePasses
<1>1. /\ session' \in [Token -> RowRecord]
      /\ session'[s].state = "rotated" /\ session'[s].uid = session[s].uid
      /\ \A n \in Token : n # s => session'[n] = session[n]
  BY <1>0 DEF GraceEnds, RowRecord, RowStates
<1>2. TypeInv'
  BY <1>0, <1>1 DEF IInv, TypeInv
<1>3. (\A u \in Tab : TabInv(tab[u]))'
  BY <1>0 DEF IInv
<1>4. RowInv'
  BY <1>0, <1>1 DEF IInv, RowInv
<1>5. \A n \in Nat : n # 0 /\ n <= issued => n \in Token
  BY TokenOf DEF IInv
<1>6. \A u \in Tab : tab[u].refresh.cookie \in Nat /\ tab[u].refresh.cookie <= issued
  BY RefreshFacts
<1>7. CookieInv'
  <2>1. ASSUME NEW u \in Tab PROVE CookieOK(tab[u].refresh)'
    BY <1>0, <1>1, <1>5, <1>6 DEF IInv, CookieInv, CookieOK, Is, RowStates
  <2> QED BY <2>1 DEF CookieInv
<1>8. BroughtInv'
  <2>1. \A u \in Tab, p \in Place : Brought(tab[u], p) \in Nat
    BY <1>0 DEF TabRecord, Brought, Place, Request, Refresh
  <2>2. ASSUME NEW n \in Nat, n # 0, n <= issued, session[n].state \in {"live", "gone"}
        PROVE  session'[n].state \in {"live", "gone"}
    BY <1>0, <1>1, <1>5, <2>2
  <2> QED BY <1>0, <2>1, <2>2 DEF IInv, BroughtInv
<1>9. PeaceInv'
  <2> SUFFICES ASSUME faults = 0
               PROVE  /\ swept = FALSE
                      /\ Is(jar, RowStates \ {"rotated"})'
                      /\ jar # 0 /\ session'[jar].state = "graced" =>
                           \E u \in Tab : tab[u].refresh.at # "idle" /\ tab[u].refresh.cookie = jar
                      /\ \A u \in Tab : Calm(tab[u].refresh)'
    BY <1>0 DEF PeaceInv
  <2>0. PeaceInv /\ jar \in Nat /\ jar <= issued
    BY DEF IInv, TypeInv
  <2>1. jar # s
    BY <1>0, <2>0 DEF PeaceInv, Token
  <2>2. Is(jar, RowStates \ {"rotated"})'
    BY <1>0, <1>1, <1>5, <2>0, <2>1 DEF PeaceInv, Is
  <2>3. jar # 0 /\ session'[jar].state = "graced" =>
          \E u \in Tab : tab[u].refresh.at # "idle" /\ tab[u].refresh.cookie = jar
    BY <1>1, <1>5, <2>0, <2>1 DEF PeaceInv
  <2>4. ASSUME NEW u \in Tab PROVE Calm(tab[u].refresh)'
    BY <1>0, <1>1, <1>5, <1>6, <2>0 DEF PeaceInv, Calm, Is, RowStates
  <2> QED BY <2>0, <2>2, <2>3, <2>4 DEF PeaceInv
<1> QED BY <1>2, <1>3, <1>4, <1>7, <1>8, <1>9 DEF IInv

LEMMA InitIInv == Init => IInv
<1> SUFFICES ASSUME Init PROVE IInv
  OBVIOUS
<1> DEFINE first(date) == [Loaded(IF date = None THEN "home" ELSE "login", date, None, 0)
                             EXCEPT !.answered = TRUE, !.refresh = Quiet]
<1>1. PICK d \in Date \cup {None}, entry \in Tab :
        /\ jar # 0 => d = None
        /\ tab = [t \in Tab |->
                    [(IF t = entry /\ d # None THEN Loaded("login", d, None, 0)
                                               ELSE Loaded("home", None, None, 0))
                     EXCEPT !.answered = TRUE, !.refresh = Quiet]]
  BY DEF Init
<1>2. ASSUME NEW page \in {"home", "login"}, NEW date \in Date \cup {None}
      PROVE  LET w == [Loaded(page, date, None, 0) EXCEPT !.answered = TRUE, !.refresh = Quiet] IN
             TabInv(w) /\ w.refresh = Quiet /\ w.req = [k \in Slot |-> NoRequest]
  <2> DEFINE w == [Loaded(page, date, None, 0) EXCEPT !.answered = TRUE, !.refresh = Quiet]
  <2>1. page \in Page /\ page \notin Guarded /\ page # "inscription" /\ None \in NextPage
    BY DEF Page, Guarded, NextPage
  <2>2. /\ NoRequest \in Request /\ Quiet \in Refresh /\ Quiet.at = "idle" /\ NoRequest.at = "idle"
    BY DEF NoRequest, Request, Quiet, Refresh, NextPage
  <2>3. Loaded(page, date, None, 0) \in TabRecord
    BY <2>1, LoadedMoves DEF Moves, TabInv
  <2>4. /\ w \in TabRecord /\ w.refresh = Quiet
        /\ w.req = Loaded(page, date, None, 0).req /\ w.save = Loaded(page, date, None, 0).save
        /\ w.page = Loaded(page, date, None, 0).page
    BY <2>2, <2>3 DEF TabRecord
  <2> HIDE DEF w
  <2>5. /\ w.req = [k \in Slot |-> NoRequest] /\ w.save = None /\ w.page = page
    BY <2>4 DEF Loaded
  <2>6. TabInv(w)
    BY <2>1, <2>2, <2>4, <2>5 DEF TabInv, Awaited, Slot
  <2> QED BY <2>4, <2>5, <2>6 DEF w
<1>3. ASSUME NEW t \in Tab
      PROVE  TabInv(tab[t]) /\ tab[t].refresh = Quiet /\ tab[t].req = [k \in Slot |-> NoRequest]
  <2>1. CASE t = entry /\ d # None
    <3>1. tab[t] = [Loaded("login", d, None, 0) EXCEPT !.answered = TRUE, !.refresh = Quiet]
      BY <1>1, <2>1
    <3> QED BY <1>2, <3>1
  <2>2. CASE ~ (t = entry /\ d # None)
    <3>1. tab[t] = [Loaded("home", None, None, 0) EXCEPT !.answered = TRUE, !.refresh = Quiet]
      BY <1>1, <2>2
    <3> QED BY <1>2, <3>1
  <2> QED BY <2>1, <2>2
<1>4. /\ Quiet.at = "idle" /\ Quiet.cookie = 0 /\ NoRequest.at = "idle"
  BY DEF Quiet, NoRequest
<1>5. /\ jar \in {0, 1} /\ issued = jar /\ exists = TRUE /\ faults = 0 /\ swept = FALSE
      /\ session = IF jar = 0 THEN NoSessions(Token) ELSE IssueTokens(NoSessions(Token), jar, Owner)
  BY DEF Init
<1>6. 1 \in Token
  BY BoundAssumption DEF Token
<1>7. /\ session \in [Token -> RowRecord]
      /\ \A s \in Token : IF jar = 1 /\ s = 1 THEN session[s].uid = Owner /\ session[s].state = "live"
                           ELSE session[s].state = "gone"
  BY <1>5, <1>6 DEF NoSessions, IssueTokens, Gone, RowRecord, RowStates
<1>8. TypeInv
  <2>1. tab = [t \in Tab |-> tab[t]]
    BY <1>1
  <2>2. tab \in [Tab -> TabRecord]
    BY <1>3, <2>1 DEF TabInv
  <2>3. jar \in Nat /\ issued \in Nat /\ jar <= issued /\ issued <= MaxToken
    BY <1>5, BoundAssumption
  <2> QED BY <1>5, <1>7, <2>2, <2>3 DEF TypeInv
<1>9. RowInv
  BY <1>5, <1>7 DEF RowInv
<1>10. CookieInv
  BY <1>3, <1>4, <1>5 DEF CookieInv, CookieOK, Is
<1>11. BroughtInv
  <2>1. \A t \in Tab, p \in Place : Brought(tab[t], p) = 0
    BY <1>3, <1>4 DEF Brought, Place
  <2> QED BY <2>1 DEF BroughtInv
<1>12. PeaceInv
  BY <1>3, <1>4, <1>5, <1>6, <1>7 DEF PeaceInv, Calm, Is, RowStates
<1> QED BY <1>3, <1>8, <1>9, <1>10, <1>11, <1>12 DEF IInv

LEMMA StepIInv == IInv /\ [Next]_vars => IInv'
<1> SUFFICES ASSUME IInv, [Next]_vars PROVE IInv'
  OBVIOUS
<1>1. ASSUME NEW t \in Tab, NEW v, TabStep(t, v) PROVE IInv'
  BY <1>1, TabStepKeeps
<1>2. ASSUME NEW t \in Tab, Person(t) PROVE IInv'
  BY <1>1, <1>2, PersonSteps
<1>3. ASSUME NEW t \in Tab, Served(t) PROVE IInv'
  BY <1>3, RequestsServed, RefreshesServed DEF Served
<1>4. ASSUME NEW t \in Tab, Arrives(t) PROVE IInv'
  BY <1>1, <1>4, SettleSteps, AnswerSteps DEF Arrives
<1>5. ASSUME NEW t \in Tab, RefreshFails(t) PROVE IInv'
  BY <1>1, <1>5, SettleSteps
<1>6. ASSUME NEW t \in Tab, NEW k \in Slot, RequestFails(t, k) PROVE IInv'
  BY <1>1, <1>6, FailureSteps
<1>7. ASSUME UNCHANGED <<session, exists, jar, tab, issued, faults, swept>> PROVE IInv'
  BY <1>7 DEF IInv, TypeInv, RowInv, CookieInv, CookieOK, BroughtInv, PeaceInv, Calm, Is
<1>8. ASSUME NEW s \in Token, AccessExpires(s) PROVE IInv'
  BY <1>7, <1>8 DEF AccessExpires, server
<1>9. CASE UNCHANGED vars
  BY <1>7, <1>9 DEF vars
<1> QED
  BY <1>2, <1>3, <1>4, <1>5, <1>6, <1>8, <1>9, GraceKeeps DEF Next

-----------------------------------------------------------------------------
(* The inductive invariant of the session.                                 *)
THEOREM SessionInvariant == Spec => []IInv
<1>1. Init => IInv BY InitIInv
<1>2. IInv /\ [Next]_vars => IInv' BY StepIInv
<1> QED BY <1>1, <1>2, PTL DEF Spec

(* No interleaving of tabs, reloads, logins and logouts has refresh take a *)
(* token for stolen, unless the network lost a request.                    *)
THEOREM NobodyIsLoggedOut == Spec => []NoForcedLogout
<1>1. IInv => NoForcedLogout
  BY DEF IInv, TypeInv, PeaceInv, NoForcedLogout
<1> QED BY <1>1, SessionInvariant, PTL

(* A guarded page without a token has an answer on its way.                *)
THEOREM GuardsAreAwaited == Spec => []GuardIsAwaited
<1>1. IInv => GuardIsAwaited
  BY DEF IInv, TabInv, Awaited, GuardIsAwaited
<1> QED BY <1>1, SessionInvariant, PTL

(* What a step may make of a tab.                                          *)
Shown(w, v) == v.token = w.token /\ v.save = w.save

TabMove(w, v) ==
  \/ Shown(w, v)
  \/ \E c : Moves(w, v, c)
  \/ \E c, outcome : /\ Settles(w, v, outcome, c)
                     /\ outcome = "none" => w.refresh.at = "back" /\ w.refresh.answer = "none"

LEMMA ServerShows ==
  ASSUME IInv, NEW t \in Tab, Served(t), NEW u \in Tab PROVE Shown(tab[u], tab'[u])
<1>0. tab \in [Tab -> TabRecord]
  BY DEF IInv, TypeInv
<1>1. ASSUME NEW k \in Slot, NEW answer, NEW got, Reply(t, k, answer, got) PROVE Shown(tab[u], tab'[u])
  BY <1>0, <1>1 DEF Reply, Shown, TabRecord
<1>2. ASSUME NEW answer, NEW got, Refreshed(t, answer, got) PROVE Shown(tab[u], tab'[u])
  BY <1>0, <1>2 DEF Refreshed, Shown, TabRecord
<1>3. ASSUME NEW at, Goes(t, at) PROVE Shown(tab[u], tab'[u])
  BY <1>0, <1>3 DEF Goes, Shown, TabRecord
<1>4. "act" \in Slot /\ "query" \in Slot
  BY DEF Slot
<1>5. CASE ServeLogin(t) \/ ServeLogout(t) \/ ServeDelete(t) \/ ServeCreate(t)
  BY <1>1, <1>4, <1>5 DEF ServeLogin, ServeLogout, ServeDelete, ServeCreate
<1>6. CASE ServeQuery(t)
  BY <1>1, <1>4, <1>6 DEF ServeQuery
<1>7. CASE Rotate(t)
  <2>1. \/ Refreshed(t, "none", 0) \/ Goes(t, "reused")
        \/ Grant(t, RotateToken(session, tab[t].refresh.cookie))
    BY <1>7 DEF Rotate
  <2> QED BY <1>2, <1>3, <2>1 DEF Grant
<1>8. CASE Reused(t)
  BY <1>2, <1>3, <1>8 DEF Reused
<1>9. CASE GrantAgain(t) \/ Sweep(t)
  BY <1>2, <1>9 DEF GrantAgain, Sweep, Grant
<1> QED BY <1>5, <1>6, <1>7, <1>8, <1>9 DEF Served

LEMMA TabsMove ==
  ASSUME IInv, [Next]_vars, NEW u \in Tab PROVE TabMove(tab[u], tab'[u])
<1>0. tab \in [Tab -> TabRecord]
  BY DEF IInv, TypeInv
<1>1. ASSUME tab' = tab PROVE TabMove(tab[u], tab'[u])
  BY <1>1 DEF TabMove, Shown
<1>2. ASSUME NEW t \in Tab, NEW v, tab' = [tab EXCEPT ![t] = v], TabMove(tab[t], v)
      PROVE  TabMove(tab[u], tab'[u])
  <2>1. CASE u = t
    BY <1>0, <1>2, <2>1
  <2>2. CASE u # t
    BY <1>0, <1>2, <2>2 DEF TabMove, Shown
  <2> QED BY <2>1, <2>2
<1>3. ASSUME NEW t \in Tab, Person(t) PROVE TabMove(tab[u], tab'[u])
  <2>1. PICK v : tab' = [tab EXCEPT ![t] = v] /\ Moves(tab[t], v, jar)
    BY <1>3, PersonMoves DEF IInv
  <2> QED BY <1>2, <2>1 DEF TabMove
<1>4. ASSUME NEW t \in Tab, NEW k \in Slot, Answered(t, k) PROVE TabMove(tab[u], tab'[u])
  <2>1. PICK c : c = jar' OBVIOUS
  <2>2. tab' = [tab EXCEPT ![t] = After(tab[t], k, c)] /\ Moves(tab[t], After(tab[t], k, c), c)
    BY <1>4, <2>1, AnswerMoves
  <2>3. TabMove(tab[t], After(tab[t], k, c))
    BY <2>2 DEF TabMove
  <2> QED BY <1>2, <2>2, <2>3
<1>5. ASSUME NEW t \in Tab, NEW k \in Slot, RequestFails(t, k) PROVE TabMove(tab[u], tab'[u])
  <2>1. PICK v : tab' = [tab EXCEPT ![t] = v] /\ Moves(tab[t], v, jar)
    BY <1>5, FailureMoves
  <2> QED BY <1>2, <2>1 DEF TabMove
<1>6. ASSUME NEW t \in Tab, RefreshAnswered(t) \/ RefreshFails(t) PROVE TabMove(tab[u], tab'[u])
  <2>1. PICK v, outcome :
          /\ tab' = [tab EXCEPT ![t] = v] /\ Settles(tab[t], v, outcome, jar')
          /\ outcome = "none" => tab[t].refresh.at = "back" /\ tab[t].refresh.answer = "none"
    BY <1>6, SettleMoves
  <2>2. TabMove(tab[t], v)
    BY <2>1 DEF TabMove
  <2> QED BY <1>2, <2>1, <2>2
<1>7. ASSUME NEW t \in Tab, Served(t) PROVE TabMove(tab[u], tab'[u])
  BY <1>7, ServerShows DEF TabMove
<1>8. ASSUME NEW s, AccessExpires(s) \/ GracePasses(s) PROVE TabMove(tab[u], tab'[u])
  BY <1>1, <1>8 DEF AccessExpires, GracePasses
<1>9. CASE UNCHANGED vars
  BY <1>1, <1>9 DEF vars
<1> QED
  BY <1>3, <1>4, <1>5, <1>6, <1>7, <1>8, <1>9 DEF Next, Arrives

(* A tab that stays drops its token only for a refresh that set out with   *)
(* that very token.                                                        *)
THEOREM LoginsStand == Spec => LoginStands
<1> DEFINE Step == \A t \in Tab : (tab[t].token # 0 /\ tab'[t].token = 0 /\ tab'[t].answered)
                                => tab[t].refresh.start = tab[t].token
<1>1. IInv /\ [Next]_vars => [Step]_vars
  <2> SUFFICES ASSUME IInv, [Next]_vars, NEW t \in Tab, tab[t].token # 0, tab'[t].token = 0,
                      tab'[t].answered
               PROVE  tab[t].refresh.start = tab[t].token
    OBVIOUS
  <2>1. PICK w, v : w = tab[t] /\ v = tab'[t]
    OBVIOUS
  <2>2. TabMove(w, v)
    BY <2>1, TabsMove
  <2> QED BY <2>1, <2>2 DEF TabMove, Shown, Moves, Settles
<1> QED BY <1>1, SessionInvariant, PTL DEF Spec, LoginStands

(* Only a visitor whose cookie opens no session is sent to register.       *)
THEOREM OnlyStrangersRegister == Spec => StrangerHasNoSession
<1> DEFINE Step == \A t \in Tab : (tab[t].save # None /\ tab'[t].save = None
                                   /\ tab'[t].page = "inscription")
                                => tab[t].refresh.cookie \notin Live(session)
<1>1. IInv /\ [Next]_vars => [Step]_vars
  <2> SUFFICES ASSUME IInv, [Next]_vars, NEW t \in Tab, tab[t].save # None, tab'[t].save = None,
                      tab'[t].page = "inscription"
               PROVE  tab[t].refresh.cookie \notin Live(session)
    OBVIOUS
  <2>1. PICK w, v : w = tab[t] /\ v = tab'[t]
    OBVIOUS
  <2>2. TabMove(w, v)
    BY <2>1, TabsMove
  <2>3. tab[t].refresh.at = "back" /\ tab[t].refresh.answer = "none"
    BY <2>1, <2>2 DEF TabMove, Shown, Moves, Settles
  <2>4. PICK r : r = tab[t].refresh
    OBVIOUS
  <2>5. CookieOK(r) /\ r.at = "back" /\ r.answer = "none"
    BY <2>3, <2>4, RefreshFacts
  <2>6. Is(r.cookie, RowStates \ {"live"})
    BY <2>5 DEF CookieOK
  <2>7. session \in [Token -> RowRecord] /\ 0 \notin Token
    BY BoundAssumption DEF IInv, TypeInv, Token
  <2> QED BY <2>4, <2>6, <2>7 DEF Is, Live
<1> QED BY <1>1, SessionInvariant, PTL DEF Spec, StrangerHasNoSession
=============================================================================
