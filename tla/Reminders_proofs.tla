--------------------------- MODULE Reminders_proofs ---------------------------
(* Theorems about Reminders, for any people, steps, scales and delays.     *)
(*                                                                         *)
(* selectReminders works from the log, the person reads letters: LogInv    *)
(* says the log of a step that stands is what its recorded letters said.   *)
(* PassInv carries what held when the run read its candidates until their  *)
(* letters are recorded: each is apart from those recorded before, and a   *)
(* step called late has a letter left.  InboxInv is what the letters may   *)
(* say together, deleted steps included.                                   *)
(***************************************************************************)
EXTENDS Reminders, FiniteSetTheorems, TLAPS

Days == Int \cup {None}

(* What a reason says, and the row its record writes.                      *)
Reasons == [step : Step, kind : Kinds, offset : Int, planned : Int]
RowOf(r, day) == [kind |-> r.kind, offset |-> IF r.kind = "OVERDUE" THEN None ELSE r.offset,
                  planned |-> r.planned, sentOn |-> day]

(* The lines of one letter: one for a step at most, each counting from its *)
(* day.                                                                    *)
Lines(u, reasons, day) ==
  /\ reasons \subseteq Reasons
  /\ \A r \in reasons : /\ ownerOf[r.step] = u /\ r.offset = r.planned - day
                        /\ r.kind = "OVERDUE" <=> r.planned < day
  /\ \A r, q \in reasons : r.step = q.step => r = q

Apart(r, day, q, later) ==
  r.step = q.step /\ r.planned = q.planned /\ r.kind = q.kind =>
    IF r.kind = "SCALE" THEN \E o \in scaleOf[r.step] : q.offset <= o /\ o < r.offset
    ELSE later - day >= Interval

(* The days on which a recorded letter called a step late for a date.      *)
LateOn(s, date) ==
  {l.day : l \in {m \in inbox : m.recorded /\ \E r \in m.reasons :
                    r.step = s /\ r.kind = "OVERDUE" /\ r.planned = date}}

DayInv ==
  /\ today \in Nat \ {0} /\ fresh \in Nat
  /\ planned \in [Step -> Days]

(* The log of a step that stands says what the recorded letters said.      *)
LogInv ==
  /\ log = [s \in Step |-> log[s]]
  /\ \A s \in Step : \A w \in log[s] : \E l \in inbox : l.recorded /\ \E r \in l.reasons :
       r.step = s /\ w = RowOf(r, l.day)
  /\ \A l \in inbox : l.recorded => \A r \in l.reasons :
       r.step \notin deleted => RowOf(r, l.day) \in log[r.step]

Letters(reasons) ==
  [user : User, token : Nat, day : Nat \ {0}, reasons : {reasons}, recorded : BOOLEAN]

InboxInv ==
  /\ \A l \in inbox :
       /\ l \in Letters(l.reasons) /\ Lines(l.user, l.reasons, l.day)
       /\ l.token < fresh /\ l.day <= today /\ (~ ticked => l.day < today)
  /\ \A l, k \in inbox : l.token = k.token => l = k
  /\ \A l, k \in inbox : l.recorded /\ l.day < k.day =>
       \A r \in l.reasons, q \in k.reasons : Apart(r, l.day, q, k.day)
  /\ \A s \in Step, date \in Int : LateOn(s, date) \subseteq 1 .. today
                                   /\ Cardinality(LateOn(s, date)) <= MaxOverdue

Passes(failed) ==
  [day : Nat \ {0}, pc : {"next", "mint", "send", "record", "alert"}, user : User \cup {None},
   token : Nat, todo : SUBSET User, reasons : [User -> SUBSET Reasons], failures : {failed}]

(* The run: its letters are about days that stay apart from those already  *)
(* recorded, and the one in hand is unlike any other.                      *)
PassInv ==
  pass # None =>
    /\ pass \in Passes(pass.failures)
    /\ pass.day <= today /\ (~ ticked => pass.day < today)
    /\ pass.pc # "next" => pass.user \in pass.todo
    /\ pass.pc = "send" => pass.token < fresh /\ \A l \in inbox : l.token # pass.token
    /\ pass.pc = "record" => ReminderLetter(pass.user) \in inbox
    /\ \A l \in inbox : l.day <= pass.day
    /\ \A u \in User : Lines(u, pass.reasons[u], pass.day)
    /\ \A l \in inbox : l.recorded /\ l.day < pass.day =>
         \A u \in User : \A r \in l.reasons, q \in pass.reasons[u] : Apart(r, l.day, q, pass.day)
    /\ \A u \in pass.todo : \A r \in pass.reasons[u] :
         r.kind = "OVERDUE" => Cardinality(LateOn(r.step, r.planned)) < MaxOverdue

IInv == DayInv /\ LogInv /\ InboxInv /\ PassInv

-----------------------------------------------------------------------------
(* A finite set has a point where a function is highest: a least subset    *)
(* without one would lose nothing by losing any of its members.            *)
LEMMA Highest ==
  ASSUME NEW S, IsFiniteSet(S), NEW f \in [S -> Int]
  PROVE  \A U \in SUBSET S : U # {} => \E x \in U : \A y \in U : f[y] <= f[x]
<1> DEFINE Has(U) == \E x \in U : \A y \in U : f[y] <= f[x]
           T == {U \in SUBSET S : U # {} /\ ~ Has(U)}
<1>1. SUFFICES ASSUME T # {} PROVE FALSE
  OBVIOUS
<1>2. IsWellFoundedOn(StrictSubsetOrdering(S), SUBSET S)
  BY FS_StrictSubsetOrderingWellFounded, FS_FiniteSubsetsOfFinite
<1>3. T \subseteq SUBSET S
  OBVIOUS
<1> HIDE DEF T
<1>4. PICK U \in T : \A V \in T : <<V, U>> \notin StrictSubsetOrdering(S)
  BY <1>1, <1>2, <1>3, WFMin
<1>5. U \in SUBSET S /\ U # {} /\ ~ Has(U)
  BY DEF T
<1>6. PICK x \in U : TRUE
  BY <1>5
<1>7. U \ {x} # {}
  <2>1. f[x] \in Int
    BY <1>5, <1>6
  <2>. QED
    BY <1>5, <1>6, <2>1
<1>8. Has(U \ {x})
  <2>1. <<U \ {x}, U>> \in StrictSubsetOrdering(S)
    BY <1>5, <1>6 DEF StrictSubsetOrdering
  <2>2. U \ {x} \notin T
    BY <1>4, <2>1
  <2>. QED
    BY <1>5, <1>7, <2>2 DEF T
<1>9. PICK m \in U \ {x} : \A y \in U \ {x} : f[y] <= f[m]
  BY <1>8
<1>10. \A y \in U : f[y] \in Int
  BY <1>5
<1>. QED
  BY <1>5, <1>6, <1>9, <1>10

LEMMA Extremes ==
  ASSUME NEW S \in SUBSET Int, IsFiniteSet(S), S # {}
  PROVE  /\ Least(S) \in S /\ \A n \in S : Least(S) <= n
         /\ Greatest(S) \in S /\ \A n \in S : n <= Greatest(S)
<1> DEFINE up == [n \in S |-> n]
           down == [n \in S |-> - n]
<1>1. up \in [S -> Int] /\ down \in [S -> Int]
  OBVIOUS
<1>2. (\A n \in S : up[n] = n) /\ (\A n \in S : down[n] = - n /\ n \in Int)
  OBVIOUS
<1> HIDE DEF up, down
<1>3. PICK h \in S : \A n \in S : up[n] <= up[h]
  BY <1>1, Highest
<1>4. PICK l \in S : \A n \in S : down[n] <= down[l]
  BY <1>1, Highest
<1>5. \A n \in S : n <= h
  BY <1>2, <1>3
<1>6. \A n \in S : l <= n
  <2> SUFFICES ASSUME NEW n \in S PROVE l <= n
    OBVIOUS
  <2>1. n \in Int /\ l \in Int /\ - n <= - l
    BY <1>2, <1>4
  <2>. QED
    BY <2>1
<1>7. Greatest(S) \in S /\ \A n \in S : n <= Greatest(S)
  BY <1>5 DEF Greatest
<1>8. Least(S) \in S /\ \A n \in S : Least(S) <= n
  BY <1>6 DEF Least
<1>. QED
  BY <1>7, <1>8

-----------------------------------------------------------------------------
(* The initial state and the days.                                         *)
LEMMA DatesAreDays == \A s \in Step, anchor \in Anchor \cup {None} : LegalStepDate(anchor, durationOf[s]) \in Days
BY ScaleAssumption DEF LegalStepDate, Days

LEMMA InitIInv == Init => IInv
<1> SUFFICES ASSUME Init PROVE IInv
  OBVIOUS
<1>1. DayInv
  <2>1. PICK anchor \in Anchor \cup {None} : planned = [s \in Step |-> LegalStepDate(anchor, durationOf[s])]
    BY DEF Init
  <2>2. planned \in [Step -> Days]
    BY <2>1, DatesAreDays
  <2>. QED
    BY <2>2 DEF Init, DayInv
<1>2. LogInv /\ PassInv
  BY DEF Init, LogInv, PassInv
<1>3. InboxInv
  <2>1. \A s, date : LateOn(s, date) = {}
    BY DEF Init, LateOn
  <2>2. 0 <= MaxOverdue
    BY OverdueAssumption
  <2>. QED
    BY <2>1, <2>2, FS_EmptySet DEF Init, InboxInv
<1>. QED
  BY <1>1, <1>2, <1>3 DEF IInv

LEMMA DayKept == ASSUME DayInv, [Next]_vars PROVE DayInv'
<1>1. CASE NewDay
  BY <1>1 DEF NewDay, DayInv, stepVars
<1>2. CASE Tick
  BY <1>2 DEF Tick, DayInv, stepVars
<1>3. ASSUME NEW s \in Step, NEW date \in Dates(s), Replan(s, date) PROVE DayInv'
  <2>1. date \in Days
    BY DatesAreDays DEF Dates
  <2>2. planned' \in [Step -> Days]
    BY <1>3, <2>1 DEF Replan, DayInv
  <2>. QED
    BY <1>3, <2>2 DEF Replan, DayInv
<1>4. ASSUME NEW u \in User, Mint(u) PROVE DayInv'
  BY <1>4 DEF Mint, DayInv, stepVars
<1>5. ASSUME NEW u \in User, Check(u) \/ Send(u) \/ MailFails(u) \/ Alert(u) \/ RecordSent(u) \/ RecordFails(u)
      PROVE  DayInv'
  BY <1>5 DEF Check, Send, MailFails, Alert, RecordSent, RecordFails, DayInv, stepVars
<1>6. ASSUME NEW u \in User, DeleteAccount(u) \/ \E b \in BOOLEAN : SetPreference(u, b) PROVE DayInv'
  BY <1>6 DEF DeleteAccount, SetPreference, DayInv, stepVars
<1>7. ASSUME NEW s \in Step, RemoveStep(s) \/ \E m \in Marks \cup {None} : UpdateStep(s, m) PROVE DayInv'
  BY <1>7 DEF RemoveStep, UpdateStep, DayInv
<1>8. ASSUME NEW l \in inbox, DisableByToken(l.token) PROVE DayInv'
  BY <1>8 DEF DisableByToken, DayInv, stepVars
<1>9. CASE EndRun \/ UNCHANGED vars
  BY <1>9 DEF EndRun, vars, DayInv, stepVars
<1>. QED
  BY <1>1, <1>2, <1>3, <1>4, <1>5, <1>6, <1>7, <1>8, <1>9 DEF Next, Run

-----------------------------------------------------------------------------
(* The steps by what they touch: nothing the run and the letters know of,  *)
(* the log of steps that are deleted, the run alone, or its letter.        *)
Aside ==
  /\ UNCHANGED <<inbox, log, deleted, pass, fresh>>
  /\ today <= today' /\ (~ ticked' => ~ ticked \/ today < today')

Forgets ==
  /\ \E steps : Forget(steps)
  /\ UNCHANGED <<inbox, pass, fresh, today, ticked>>

Turns(u) == Check(u) \/ Mint(u) \/ MailFails(u) \/ Alert(u) \/ RecordFails(u)

LEMMA KindsOfSteps ==
  ASSUME DayInv, [Next]_vars
  PROVE  \/ Aside \/ Forgets \/ Tick \/ EndRun
         \/ \E u \in User : Turns(u) \/ Send(u) \/ RecordSent(u)
<1>1. CASE NewDay
  BY <1>1 DEF NewDay, Aside, DayInv, stepVars
<1>2. ASSUME NEW u \in User, Run(u) PROVE Turns(u) \/ Send(u) \/ RecordSent(u)
  BY <1>2 DEF Run, Turns
<1>3. ASSUME NEW s \in Step, RemoveStep(s) PROVE Forgets
  BY <1>3 DEF RemoveStep, Forgets
<1>4. ASSUME NEW u \in User, DeleteAccount(u) PROVE Forgets
  BY <1>4 DEF DeleteAccount, Forgets
<1>5. ASSUME NEW s \in Step, (\E date \in Dates(s) : Replan(s, date))
                             \/ \E m \in Marks \cup {None} : UpdateStep(s, m)
      PROVE  Aside
  BY <1>5 DEF Replan, UpdateStep, Aside, DayInv
<1>6. ASSUME NEW u \in User, \E b \in BOOLEAN : SetPreference(u, b) PROVE Aside
  BY <1>6 DEF SetPreference, Aside, DayInv, stepVars
<1>7. ASSUME NEW l \in inbox, DisableByToken(l.token) PROVE Aside
  BY <1>7 DEF DisableByToken, Aside, DayInv, stepVars
<1>8. CASE UNCHANGED vars
  BY <1>8 DEF Aside, DayInv, vars, stepVars
<1>. QED
  BY <1>1, <1>2, <1>3, <1>4, <1>5, <1>6, <1>7, <1>8 DEF Next

-----------------------------------------------------------------------------
(* What a recorded letter adds.                                            *)

(* The letter in hand, and what its record makes of the inbox.             *)
LEMMA RecordIs ==
  ASSUME DayInv, InboxInv, PassInv, NEW u \in User, RecordSent(u)
  PROVE  LET mine == ReminderLetter(u) IN
         /\ u \in pass.todo /\ mine \in inbox /\ mine.recorded = FALSE
         /\ mine.user = u /\ mine.day = pass.day /\ mine.reasons = pass.reasons[u]
         /\ inbox' = (inbox \ {mine}) \cup {[mine EXCEPT !.recorded = TRUE]}
         /\ pass' = TurnOver(u) /\ log' = Logged(u)
         /\ UNCHANGED <<today, ticked, deleted, fresh>>
<1> DEFINE mine == ReminderLetter(u)
<1>1. pass # None /\ pass.pc = "record" /\ pass.user = u
  BY DEF RecordSent
<1>2. u \in pass.todo /\ mine \in inbox
  BY <1>1 DEF PassInv
<1>3. \A l \in inbox : l.token = pass.token <=> l = mine
  BY <1>2 DEF InboxInv, ReminderLetter
<1>4. inbox' = {IF l.token = pass.token THEN [l EXCEPT !.recorded = TRUE] ELSE l : l \in inbox}
  BY DEF RecordSent
<1>5. inbox' = {IF l = mine THEN [l EXCEPT !.recorded = TRUE] ELSE l : l \in inbox}
  BY <1>3, <1>4
<1>6. inbox' = (inbox \ {mine}) \cup {[mine EXCEPT !.recorded = TRUE]}
  <2> HIDE DEF mine
  <2>. QED
    BY <1>2, <1>5
<1>. QED
  BY <1>1, <1>2, <1>6 DEF RecordSent, ReminderLetter, stepVars

LEMMA LogKept == ASSUME IInv, [Next]_vars PROVE LogInv'
<1> USE DEF IInv
<1>1. CASE Aside
  BY <1>1 DEF Aside, LogInv
<1>2. CASE Forgets
  <2>1. PICK steps : Forget(steps)
    BY <1>2 DEF Forgets
  <2>2. log' = [s \in Step |-> log'[s]] /\ \A s \in Step : log'[s] = IF s \in steps THEN {} ELSE log[s]
    BY <2>1 DEF Forget
  <2>3. \A l \in inbox : \A r \in l.reasons : r.step \in Step
    BY DEF InboxInv, Lines, Reasons
  <2>. QED
    BY <1>2, <2>1, <2>2, <2>3 DEF Forgets, Forget, LogInv
<1>3. CASE Tick \/ EndRun
  BY <1>3 DEF Tick, EndRun, LogInv, stepVars
<1>4. ASSUME NEW u \in User, Turns(u) PROVE LogInv'
  BY <1>4 DEF Turns, Check, Mint, MailFails, Alert, RecordFails, LogInv, stepVars
<1>5. ASSUME NEW u \in User, Send(u) PROVE LogInv'
  BY <1>5 DEF Send, LogInv, stepVars, ReminderLetter
<1>6. ASSUME NEW u \in User, RecordSent(u) PROVE LogInv'
  <2> DEFINE mine == ReminderLetter(u)
             told == [mine EXCEPT !.recorded = TRUE]
  <2>1. /\ mine \in inbox /\ mine.recorded = FALSE /\ mine.day = pass.day /\ mine.reasons = pass.reasons[u]
        /\ inbox' = (inbox \ {mine}) \cup {told}
        /\ log' = Logged(u) /\ deleted' = deleted
    BY <1>6, RecordIs
  <2>2. told.recorded /\ told.day = pass.day /\ told.reasons = pass.reasons[u]
    BY DEF ReminderLetter
  <2> HIDE DEF mine, told
  <2>3. log' = [s \in Step |-> log'[s]]
        /\ \A s \in Step : log'[s] = log[s] \cup {RowOf(r, pass.day) : r \in {q \in pass.reasons[u] : q.step = s}}
    BY <2>1 DEF Logged, LogRow, RowOf
  <2>4. \A r \in pass.reasons[u] : r.step \in Step
    BY <1>6 DEF PassInv, Lines, Reasons, RecordSent
  <2>5. \A s \in Step : \A w \in log[s] \cup {RowOf(r, pass.day) : r \in {q \in pass.reasons[u] : q.step = s}} :
          \E l \in inbox' : l.recorded /\ \E r \in l.reasons : r.step = s /\ w = RowOf(r, l.day)
    <3> SUFFICES ASSUME NEW s \in Step,
                        NEW w \in log[s] \cup {RowOf(r, pass.day) : r \in {q \in pass.reasons[u] : q.step = s}}
                 PROVE  \E l \in inbox' : l.recorded /\ \E r \in l.reasons : r.step = s /\ w = RowOf(r, l.day)
      OBVIOUS
    <3>1. CASE w \in log[s]
      <4>1. PICK l \in inbox : l.recorded /\ \E r \in l.reasons : r.step = s /\ w = RowOf(r, l.day)
        BY <3>1 DEF LogInv
      <4>. QED
        BY <2>1, <4>1
    <3>2. CASE w \notin log[s]
      <4>1. PICK r \in pass.reasons[u] : r.step = s /\ w = RowOf(r, pass.day)
        BY <3>2
      <4>. QED
        BY <2>1, <2>2, <4>1
    <3>. QED
      BY <3>1, <3>2
  <2>6. \A l \in inbox' : l.recorded => \A r \in l.reasons :
          r.step \notin deleted => RowOf(r, l.day) \in log'[r.step]
    <3> SUFFICES ASSUME NEW l \in inbox', l.recorded, NEW r \in l.reasons, r.step \notin deleted
                 PROVE  RowOf(r, l.day) \in log'[r.step]
      OBVIOUS
    <3>1. CASE l = told
      BY <2>2, <2>3, <2>4, <3>1
    <3>2. CASE l # told
      <4>1. l \in inbox /\ r.step \in Step
        BY <2>1, <3>2 DEF InboxInv, Lines, Reasons
      <4>2. RowOf(r, l.day) \in log[r.step]
        BY <4>1 DEF LogInv
      <4>. QED
        BY <2>3, <4>1, <4>2
    <3>. QED
      BY <3>1, <3>2
  <2>. QED
    BY <2>1, <2>3, <2>5, <2>6 DEF LogInv
<1>. QED
  BY <1>1, <1>2, <1>3, <1>4, <1>5, <1>6, KindsOfSteps

-----------------------------------------------------------------------------
(* The letters.                                                            *)
LEMMA InboxStands ==
  ASSUME InboxInv, DayInv, DayInv', UNCHANGED inbox, fresh <= fresh', today <= today',
         ~ ticked' => ~ ticked \/ today < today'
  PROVE  InboxInv'
<1>1. \A s, date : LateOn(s, date)' = LateOn(s, date)
  BY DEF LateOn
<1>2. \A l \in inbox : l.token < fresh' /\ l.day <= today' /\ (~ ticked' => l.day < today')
  <2> SUFFICES ASSUME NEW l \in inbox PROVE l.token < fresh' /\ l.day <= today' /\ (~ ticked' => l.day < today')
    OBVIOUS
  <2>1. l.token \in Nat /\ l.day \in Nat /\ l.token < fresh /\ l.day <= today /\ (~ ticked => l.day < today)
    BY DEF InboxInv, Letters
  <2>. QED
    BY <2>1 DEF DayInv
<1>3. 1 .. today \subseteq 1 .. today'
  BY DEF DayInv
<1>. QED
  BY <1>1, <1>2, <1>3 DEF InboxInv

LEMMA DaysAreFinite == ASSUME DayInv, NEW S \in SUBSET (1 .. today) PROVE IsFiniteSet(S)
<1>1. 1 \in Int /\ today \in Int
  BY DEF DayInv
<1>2. IsFiniteSet(1 .. today)
  BY <1>1, FS_Interval
<1>. QED
  BY <1>2, FS_Subset

LEMMA RecordedLate ==
  ASSUME DayInv, InboxInv, PassInv, NEW u \in User, RecordSent(u), NEW s, NEW date
  PROVE  LateOn(s, date)' =
           IF \E r \in pass.reasons[u] : r.step = s /\ r.kind = "OVERDUE" /\ r.planned = date
           THEN LateOn(s, date) \cup {pass.day} ELSE LateOn(s, date)
<1> DEFINE mine == ReminderLetter(u)
           told == [mine EXCEPT !.recorded = TRUE]
           Says(l) == \E r \in l.reasons : r.step = s /\ r.kind = "OVERDUE" /\ r.planned = date
<1>1. mine \in inbox /\ mine.recorded = FALSE /\ inbox' = (inbox \ {mine}) \cup {told}
  BY RecordIs
<1>2. told.recorded /\ told.day = pass.day /\ told.reasons = pass.reasons[u]
  BY DEF ReminderLetter
<1>3. LateOn(s, date)' = {l.day : l \in {m \in inbox' : m.recorded /\ Says(m)}}
  BY DEF LateOn
<1>4. LateOn(s, date) = {l.day : l \in {m \in inbox : m.recorded /\ Says(m)}}
  BY DEF LateOn
<1> HIDE DEF mine, told, Says
<1>5. {m \in inbox' : m.recorded /\ Says(m)} =
        {m \in inbox : m.recorded /\ Says(m)} \cup (IF Says(told) THEN {told} ELSE {})
  BY <1>1, <1>2
<1>6. LateOn(s, date)' = IF Says(told) THEN LateOn(s, date) \cup {pass.day} ELSE LateOn(s, date)
  BY <1>2, <1>3, <1>4, <1>5
<1>. QED
  BY <1>2, <1>6 DEF Says

LEMMA SentLetter ==
  ASSUME IInv, NEW u \in User, Send(u)
  PROVE  InboxInv'
<1> USE DEF IInv
<1> DEFINE mine == ReminderLetter(u)
<1>1. /\ pass # None /\ pass.pc = "send" /\ pass.user = u /\ inbox' = inbox \cup {mine}
      /\ UNCHANGED <<today, ticked, fresh>>
  BY DEF Send
<1>2. /\ mine \in Letters(mine.reasons) /\ Lines(mine.user, mine.reasons, mine.day)
      /\ mine.token < fresh /\ mine.day <= today /\ (~ ticked => mine.day < today)
      /\ mine.recorded = FALSE /\ mine.token = pass.token /\ mine.day = pass.day
      /\ mine.reasons = pass.reasons[u]
  BY <1>1 DEF PassInv, Passes, Letters, ReminderLetter
<1>3. \A s, date : LateOn(s, date)' = LateOn(s, date)
  BY <1>1, <1>2 DEF LateOn
<1>4. \A l \in inbox : l.token # mine.token
  BY <1>1, <1>2 DEF PassInv
<1>5. \A l \in inbox : l.recorded /\ l.day < mine.day =>
        \A r \in l.reasons, q \in mine.reasons : Apart(r, l.day, q, mine.day)
  BY <1>1, <1>2 DEF PassInv
<1> HIDE DEF mine
<1>. QED
  BY <1>1, <1>2, <1>3, <1>4, <1>5 DEF InboxInv

LEMMA RecordedLetter ==
  ASSUME IInv, NEW u \in User, RecordSent(u)
  PROVE  InboxInv'
<1> USE DEF IInv
<1> DEFINE mine == ReminderLetter(u)
           told == [mine EXCEPT !.recorded = TRUE]
<1>1. /\ u \in pass.todo /\ mine \in inbox /\ inbox' = (inbox \ {mine}) \cup {told}
      /\ UNCHANGED <<today, ticked, fresh>> /\ mine.day = pass.day /\ mine.reasons = pass.reasons[u]
  BY RecordIs
<1>2. /\ told.token = mine.token /\ told.day = mine.day /\ told.reasons = mine.reasons
      /\ told.user = mine.user /\ (mine \in Letters(mine.reasons) => told \in Letters(told.reasons))
  BY DEF ReminderLetter, Letters
<1>3. pass # None
  BY DEF RecordSent
<1> HIDE DEF mine, told
<1>4. \A l \in inbox' :
       /\ l \in Letters(l.reasons) /\ Lines(l.user, l.reasons, l.day)
       /\ l.token < fresh /\ l.day <= today /\ (~ ticked => l.day < today)
  BY <1>1, <1>2 DEF InboxInv
<1>5. \A l, k \in inbox' : l.token = k.token => l = k
  BY <1>1, <1>2 DEF InboxInv
<1>6. \A l, k \in inbox' : l.recorded /\ l.day < k.day =>
        \A r \in l.reasons, q \in k.reasons : Apart(r, l.day, q, k.day)
  <2> SUFFICES ASSUME NEW l \in inbox', NEW k \in inbox', l.recorded, l.day < k.day
               PROVE  \A r \in l.reasons, q \in k.reasons : Apart(r, l.day, q, k.day)
    OBVIOUS
  <2>1. k.day <= pass.day /\ k.day \in Nat /\ pass.day \in Nat
    BY <1>1, <1>2, <1>3 DEF PassInv, Passes, InboxInv, Letters
  <2>2. l # told
    BY <1>1, <1>2, <2>1
  <2>3. PICK old \in inbox : old.day = k.day /\ old.reasons = k.reasons
    BY <1>1, <1>2
  <2>. QED
    BY <1>1, <2>2, <2>3 DEF InboxInv
<1>7. \A s \in Step, date \in Int : LateOn(s, date)' \subseteq 1 .. today
                                    /\ Cardinality(LateOn(s, date)') <= MaxOverdue
  <2> SUFFICES ASSUME NEW s \in Step, NEW date \in Int
               PROVE  LateOn(s, date)' \subseteq 1 .. today /\ Cardinality(LateOn(s, date)') <= MaxOverdue
    OBVIOUS
  <2>1. LateOn(s, date) \subseteq 1 .. today /\ Cardinality(LateOn(s, date)) <= MaxOverdue
    BY DEF InboxInv
  <2>2. CASE \E r \in pass.reasons[u] : r.step = s /\ r.kind = "OVERDUE" /\ r.planned = date
    <3>1. LateOn(s, date)' = LateOn(s, date) \cup {pass.day}
      BY <2>2, RecordedLate
    <3>2. Cardinality(LateOn(s, date)) < MaxOverdue
      BY <1>1, <1>3, <2>2 DEF PassInv
    <3>3. pass.day \in 1 .. today
      BY <1>3 DEF PassInv, Passes, DayInv
    <3>4. IsFiniteSet(LateOn(s, date)) /\ Cardinality(LateOn(s, date)) \in Nat
      BY <2>1, DaysAreFinite, FS_CardinalityType
    <3>5. Cardinality(LateOn(s, date)') <= Cardinality(LateOn(s, date)) + 1
      <4>1. Cardinality(LateOn(s, date) \cup {pass.day}) =
              IF pass.day \in LateOn(s, date) THEN Cardinality(LateOn(s, date)) ELSE Cardinality(LateOn(s, date)) + 1
        BY <3>4, FS_AddElement
      <4>. QED
        BY <3>1, <3>4, <4>1
    <3>6. Cardinality(LateOn(s, date)') \in Nat
      BY <3>1, <3>4, FS_AddElement, FS_CardinalityType
    <3>. QED
      BY <2>1, <3>1, <3>2, <3>3, <3>4, <3>5, <3>6, OverdueAssumption
  <2>3. CASE ~ \E r \in pass.reasons[u] : r.step = s /\ r.kind = "OVERDUE" /\ r.planned = date
    BY <2>1, <2>3, RecordedLate
  <2>. QED
    BY <2>2, <2>3
<1>. QED
  BY <1>1, <1>4, <1>5, <1>6, <1>7 DEF InboxInv

LEMMA InboxKept == ASSUME IInv, [Next]_vars PROVE InboxInv'
<1> USE DEF IInv
<1>1. DayInv'
  BY DayKept
<1>2. CASE Aside \/ Forgets \/ Tick \/ EndRun
  BY <1>1, <1>2, InboxStands DEF Aside, Forgets, Tick, EndRun, DayInv
<1>3. ASSUME NEW u \in User, Turns(u) PROVE InboxInv'
  BY <1>1, <1>3, InboxStands DEF Turns, Check, Mint, MailFails, Alert, RecordFails, DayInv
<1>. QED
  BY <1>2, <1>3, SentLetter, RecordedLetter, KindsOfSteps

-----------------------------------------------------------------------------
(* The run.  What it selects today is apart from what was recorded before. *)
LEMMA ReasonIs ==
  ASSUME DayInv, NEW s \in Step, NEW r \in ReasonsOf(s, today)
  PROVE  /\ r \in Reasons /\ r.step = s /\ r.planned = planned[s] /\ r.offset = r.planned - today
         /\ Candidate(s, today) /\ ReasonsOf(s, today) = {r}
         /\ r.kind = "OVERDUE" => r.planned < today /\ OverdueReason(s, today)
         /\ r.kind # "OVERDUE" => ~ r.planned < today /\ ScaleReason(s, today)
<1>1. Candidate(s, today)
  BY DEF ReasonsOf
<1>2. planned[s] \in Int /\ today \in Int
  BY <1>1 DEF Candidate, DayInv, Days
<1>3. CASE planned[s] < today /\ OverdueReason(s, today)
  <2>1. ReasonsOf(s, today) = {Reason(s, "OVERDUE", today)}
    BY <1>1, <1>2, <1>3 DEF ReasonsOf
  <2>. QED
    BY <1>1, <1>2, <1>3, <2>1 DEF Reason, Reasons, Kinds, DayBetween
<1>4. CASE ~ (planned[s] < today /\ OverdueReason(s, today)) /\ planned[s] >= today /\ ScaleReason(s, today)
  <2>1. ReasonsOf(s, today) = {Reason(s, "SCALE", today)}
    BY <1>1, <1>2, <1>4 DEF ReasonsOf
  <2>. QED
    BY <1>1, <1>2, <1>4, <2>1 DEF Reason, Reasons, Kinds, DayBetween
<1>5. CASE ~ (planned[s] < today /\ OverdueReason(s, today)) /\ ~ (planned[s] >= today /\ ScaleReason(s, today))
  BY <1>1, <1>5 DEF ReasonsOf
<1>. QED
  BY <1>3, <1>4, <1>5

LEMMA Scales ==
  ASSUME NEW s \in Step
  PROVE  \A S \in SUBSET scaleOf[s] : S \subseteq Int /\ IsFiniteSet(S)
<1>1. IsFiniteSet(scaleOf[s]) /\ scaleOf[s] \subseteq Nat
  BY ScaleAssumption
<1>. QED
  BY <1>1, FS_Subset

(* Days of the log on which a step was called late for its date.           *)
LateLogged(s) ==
  {l.sentOn : l \in {m \in {n \in log[s] : n.kind = "OVERDUE"} : m.planned = planned[s]}}

LEMMA LogDays ==
  ASSUME DayInv, LogInv, InboxInv, NEW s \in Step
  PROVE  LateLogged(s) \subseteq 1 .. today /\ IsFiniteSet(LateLogged(s))
<1>1. \A l \in inbox : l.day \in 1 .. today
  BY DEF InboxInv, Letters, DayInv
<1>2. \A w \in log[s] : w.sentOn \in 1 .. today
  BY <1>1 DEF LogInv, RowOf
<1>3. LateLogged(s) \subseteq 1 .. today
  BY <1>2 DEF LateLogged
<1>. QED
  BY <1>3, DaysAreFinite

LEMMA SelectedApart ==
  ASSUME IInv, ~ ticked, NEW s \in Step, NEW q \in ReasonsOf(s, today),
         NEW l \in inbox, l.recorded, NEW r \in l.reasons
  PROVE  Apart(r, l.day, q, today)
<1> USE DEF IInv
<1> SUFFICES ASSUME r.step = q.step, r.planned = q.planned, r.kind = q.kind
             PROVE  IF r.kind = "SCALE" THEN \E o \in scaleOf[r.step] : q.offset <= o /\ o < r.offset
                    ELSE today - l.day >= Interval
  BY DEF Apart
<1>1. /\ q.step = s /\ q.planned = planned[s] /\ q.offset = q.planned - today /\ Candidate(s, today)
      /\ q.kind = "OVERDUE" => OverdueReason(s, today)
      /\ q.kind # "OVERDUE" => ScaleReason(s, today)
  BY ReasonIs
<1>2. RowOf(r, l.day) \in log[s]
  BY <1>1 DEF LogInv, Candidate
<1>3. /\ r.kind \in Kinds /\ l.day \in Nat /\ l.day < today
  BY DEF InboxInv, Lines, Reasons, Letters
<1>4. CASE r.kind = "SCALE"
  <2> DEFINE o == Greatest(OpenThresholds(s))
  <2>1. OpenThresholds(s) # {} /\ q.offset <= o
    BY <1>1, <1>4 DEF ScaleReason, DayBetween
  <2>2. o \in OpenThresholds(s)
    BY <2>1, Scales, Extremes DEF OpenThresholds
  <2> HIDE DEF o
  <2>3. o \in scaleOf[s] /\ o < r.offset
    BY <1>1, <1>2, <1>4, <2>2 DEF OpenThresholds, RowOf
  <2>. QED
    BY <1>1, <1>4, <2>1, <2>3
<1>5. CASE r.kind = "OVERDUE"
  <2>1. OverdueReason(s, today)
    BY <1>1, <1>5
  <2>2. l.day \in LateLogged(s)
    BY <1>1, <1>2, <1>5 DEF LateLogged, RowOf
  <2>3. DayBetween(Greatest(LateLogged(s)), today) >= Interval
    BY <2>1, <2>2 DEF OverdueReason, LateLogged
  <2>4. LateLogged(s) \in SUBSET Int /\ IsFiniteSet(LateLogged(s)) /\ LateLogged(s) # {}
    BY <2>2, LogDays DEF DayInv
  <2>5. Greatest(LateLogged(s)) \in Int /\ l.day <= Greatest(LateLogged(s))
    BY <2>2, <2>4, Extremes
  <2>. QED
    BY <1>3, <1>5, <2>3, <2>5, OverdueAssumption DEF DayBetween, DayInv
<1>. QED
  BY <1>3, <1>4, <1>5 DEF Kinds

LEMMA SelectedLate ==
  ASSUME IInv, NEW s \in Step, NEW q \in ReasonsOf(s, today), q.kind = "OVERDUE"
  PROVE  Cardinality(LateOn(s, q.planned)) < MaxOverdue
<1> USE DEF IInv
<1>1. OverdueReason(s, today) /\ q.planned = planned[s] /\ s \notin deleted /\ planned[s] \in Int
  BY ReasonIs DEF Candidate, Reasons
<1>2. Cardinality(LateLogged(s)) < MaxOverdue
  BY <1>1 DEF OverdueReason, LateLogged
<1>3. LateOn(s, q.planned) \subseteq LateLogged(s)
  <2> SUFFICES ASSUME NEW l \in inbox, l.recorded,
                      NEW r \in l.reasons, r.step = s, r.kind = "OVERDUE", r.planned = planned[s]
               PROVE  l.day \in LateLogged(s)
    BY <1>1 DEF LateOn
  <2>1. RowOf(r, l.day) \in log[s]
    BY <1>1 DEF LogInv
  <2>. QED
    BY <2>1 DEF LateLogged, RowOf
<1>4. IsFiniteSet(LateLogged(s))
  BY LogDays
<1>5. /\ Cardinality(LateOn(s, q.planned)) <= Cardinality(LateLogged(s))
      /\ IsFiniteSet(LateOn(s, q.planned))
  BY <1>3, <1>4, FS_Subset
<1>6. Cardinality(LateOn(s, q.planned)) \in Nat /\ Cardinality(LateLogged(s)) \in Nat
  BY <1>4, <1>5, FS_CardinalityType
<1>. QED
  BY <1>2, <1>5, <1>6, OverdueAssumption

LEMMA Ticks == ASSUME IInv, Tick PROVE PassInv'
<1> USE DEF IInv
<1>1. CASE pass # None
  <2>1. pass' = pass /\ UNCHANGED <<today, fresh, inbox>> /\ ticked'
    BY <1>1 DEF Tick
  <2>2. \A s, date : LateOn(s, date)' = LateOn(s, date)
    BY <2>1 DEF LateOn
  <2>. QED
    BY <1>1, <2>1, <2>2 DEF PassInv, ReminderLetter
<1>2. CASE pass = None
  <2>1. /\ ~ ticked /\ ticked' /\ UNCHANGED <<today, fresh, inbox>>
        /\ pass' = [day |-> today, pc |-> "next", user |-> None, token |-> 0,
                    todo |-> {u \in User : SelectReminders(u, today) # {}},
                    reasons |-> [u \in User |-> SelectReminders(u, today)],
                    failures |-> failures]
    BY <1>2 DEF Tick
  <2>2. \A s, date : LateOn(s, date)' = LateOn(s, date)
    BY <2>1 DEF LateOn
  <2>3. \A u \in User : \A r \in SelectReminders(u, today) : \E s \in Step : ownerOf[s] = u /\ r \in ReasonsOf(s, today)
    BY DEF SelectReminders
  <2>4. \A u \in User : Lines(u, SelectReminders(u, today), today)
    <3> SUFFICES ASSUME NEW u \in User PROVE Lines(u, SelectReminders(u, today), today)
      OBVIOUS
    <3>1. ASSUME NEW r \in SelectReminders(u, today)
          PROVE  /\ r \in Reasons /\ ownerOf[r.step] = u /\ r.offset = r.planned - today
                 /\ r.kind = "OVERDUE" <=> r.planned < today
                 /\ ReasonsOf(r.step, today) = {r}
      <4>1. PICK s \in Step : ownerOf[s] = u /\ r \in ReasonsOf(s, today)
        BY <2>3
      <4>. QED
        BY <4>1, ReasonIs
    <3>2. \A r, q \in SelectReminders(u, today) : r.step = q.step => r = q
      BY <3>1
    <3>. QED
      BY <3>1, <3>2 DEF Lines
  <2>5. \A u \in User : \A q \in SelectReminders(u, today), l \in inbox : l.recorded =>
          \A r \in l.reasons : Apart(r, l.day, q, today)
    BY <2>1, <2>3, SelectedApart
  <2>6. \A u \in User : \A q \in SelectReminders(u, today) :
          q.kind = "OVERDUE" => Cardinality(LateOn(q.step, q.planned)) < MaxOverdue
    BY <2>3, ReasonIs, SelectedLate
  <2>7. [u \in User |-> SelectReminders(u, today)] \in [User -> SUBSET Reasons]
    BY <2>4 DEF Lines
  <2>8. \A l \in inbox : l.day <= today
    BY DEF InboxInv
  <2>. QED
    BY <2>1, <2>2, <2>4, <2>5, <2>6, <2>7, <2>8 DEF PassInv, Passes, DayInv
<1>. QED
  BY <1>1, <1>2

(* A run that goes on with fewer accounts to do, the letters as they were. *)
LEMMA GoesOn ==
  ASSUME IInv, pass # None, UNCHANGED <<inbox, today>>, ticked' = ticked, fresh <= fresh', DayInv',
         NEW pc \in {"next", "mint", "send", "alert"}, NEW user \in User \cup {None}, NEW token \in Nat,
         NEW todo \in SUBSET pass.todo,
         pass' = [pass EXCEPT !.pc = pc, !.user = user, !.token = token, !.todo = todo],
         pc # "next" => user \in todo,
         pc = "send" => token = fresh /\ fresh < fresh'
  PROVE  PassInv'
<1> USE DEF IInv
<1>1. \A s, date : LateOn(s, date)' = LateOn(s, date)
  BY DEF LateOn
<1>2. /\ pass' \in Passes(pass'.failures) /\ pass'.day = pass.day /\ pass'.reasons = pass.reasons
      /\ pass'.pc = pc /\ pass'.user = user /\ pass'.token = token /\ pass'.todo = todo
  BY DEF PassInv, Passes
<1>3. \A l \in inbox : l.token < fresh /\ l.token \in Nat
  BY DEF InboxInv, Letters
<1>4. pc = "send" => token < fresh' /\ \A l \in inbox : l.token # token
  BY <1>3 DEF DayInv
<1>. QED
  BY <1>1, <1>2, <1>4 DEF PassInv

LEMMA TurnsGoOn == ASSUME IInv, NEW u \in User, Turns(u), DayInv' PROVE PassInv'
<1> USE DEF IInv
<1>1. pass # None /\ u \in pass.todo
  BY DEF Turns, Check, Mint, MailFails, Alert, RecordFails, PassInv
<1>2. pass \in Passes(pass.failures)
  BY <1>1 DEF PassInv
<1>3. pass.todo \subseteq User /\ pass.token \in Nat /\ fresh \in Nat /\ pass.user \in User \cup {None}
  BY <1>2 DEF Passes, DayInv
<1>4. UNCHANGED <<inbox, today, ticked>> /\ fresh <= fresh'
  BY DEF Turns, Check, Mint, MailFails, Alert, RecordFails, DayInv
<1>5. CASE pass' = TurnOver(u)
  <2> DEFINE left == pass.todo \ {u}
  <2>1. pass' = [pass EXCEPT !.pc = "next", !.user = None, !.token = 0, !.todo = left]
    BY <1>2, <1>5 DEF TurnOver, Passes
  <2>2. left \in SUBSET pass.todo
    OBVIOUS
  <2> HIDE DEF left
  <2>. QED
    BY <1>1, <1>4, <2>1, <2>2, GoesOn
<1>6. CASE pass' = [pass EXCEPT !.pc = "mint", !.user = u]
  <2>1. pass' = [pass EXCEPT !.pc = "mint", !.user = u, !.token = pass.token, !.todo = pass.todo]
    BY <1>2, <1>6 DEF Passes
  <2>. QED
    BY <1>1, <1>3, <1>4, <2>1, GoesOn
<1>7. CASE Mint(u)
  <2>1. pass' = [pass EXCEPT !.pc = "send", !.user = pass.user, !.token = fresh, !.todo = pass.todo]
    BY <1>2, <1>7 DEF Mint, Passes
  <2>2. pass.user = u /\ fresh < fresh'
    BY <1>3, <1>7 DEF Mint
  <2>. QED
    BY <1>1, <1>3, <1>4, <2>1, <2>2, GoesOn
<1>8. CASE MailFails(u) /\ pass' = [pass EXCEPT !.pc = "alert"]
  <2>1. pass' = [pass EXCEPT !.pc = "alert", !.user = pass.user, !.token = pass.token, !.todo = pass.todo]
    BY <1>2, <1>8 DEF Passes
  <2>2. pass.user = u
    BY <1>8 DEF MailFails
  <2>. QED
    BY <1>1, <1>3, <1>4, <2>1, <2>2, GoesOn
<1>. QED
  BY <1>5, <1>6, <1>7, <1>8 DEF Turns, Check, MailFails, Alert, RecordFails

LEMMA SentGoesOn == ASSUME IInv, NEW u \in User, Send(u) PROVE PassInv'
<1> USE DEF IInv
<1> DEFINE mine == ReminderLetter(u)
<1>1. /\ pass # None /\ pass.pc = "send" /\ pass.user = u
      /\ inbox' = inbox \cup {mine} /\ pass' = [pass EXCEPT !.pc = "record"]
      /\ UNCHANGED <<today, ticked, fresh>>
  BY DEF Send
<1>2. mine.day = pass.day /\ mine.recorded = FALSE
  BY DEF ReminderLetter
<1>3. \A s, date : LateOn(s, date)' = LateOn(s, date)
  BY <1>1, <1>2 DEF LateOn
<1>4. pass \in Passes(pass.failures)
  BY <1>1 DEF PassInv
<1>5. /\ pass' \in Passes(pass'.failures) /\ pass'.day = pass.day /\ pass'.reasons = pass.reasons
      /\ pass'.pc = "record" /\ pass'.user = u /\ pass'.token = pass.token /\ pass'.todo = pass.todo
  BY <1>1, <1>4 DEF Passes
<1>6. ReminderLetter(pass.user)' = mine
  BY <1>1, <1>5 DEF ReminderLetter
<1>7. mine.day <= pass.day
  BY <1>2, <1>4 DEF Passes
<1> HIDE DEF mine
<1>. QED
  BY <1>1, <1>2, <1>3, <1>5, <1>6, <1>7 DEF PassInv

LEMMA RecordedGoesOn == ASSUME IInv, NEW u \in User, RecordSent(u) PROVE PassInv'
<1> USE DEF IInv
<1> DEFINE mine == ReminderLetter(u)
           told == [mine EXCEPT !.recorded = TRUE]
<1>1. /\ pass # None /\ u \in pass.todo /\ mine \in inbox /\ inbox' = (inbox \ {mine}) \cup {told}
      /\ UNCHANGED <<today, ticked, fresh>> /\ pass' = TurnOver(u)
  BY RecordIs DEF RecordSent
<1>2. told.day = pass.day
  BY DEF ReminderLetter
<1> HIDE DEF mine, told
<1>3. pass \in Passes(pass.failures)
  BY <1>1 DEF PassInv
<1>4. /\ pass' \in Passes(pass'.failures) /\ pass'.day = pass.day /\ pass'.reasons = pass.reasons
      /\ pass'.pc = "next" /\ pass'.todo = pass.todo \ {u}
  BY <1>1, <1>3 DEF Passes, TurnOver
<1>5. ~ pass.day < pass.day /\ pass.day <= pass.day
  BY <1>3 DEF Passes
<1>6. \A l \in inbox' : l.day <= pass.day
  BY <1>1, <1>2, <1>5 DEF PassInv
<1>7. \A l \in inbox' : l.day < pass.day => l \in inbox
  BY <1>1, <1>2, <1>5
<1>8. \A v \in pass.todo \ {u} : \A r \in pass.reasons[v] :
        LateOn(r.step, r.planned)' = LateOn(r.step, r.planned)
  <2> SUFFICES ASSUME NEW v \in pass.todo \ {u}, NEW r \in pass.reasons[v]
               PROVE  LateOn(r.step, r.planned)' = LateOn(r.step, r.planned)
    OBVIOUS
  <2>1. v \in User /\ u \in User
    BY <1>3 DEF Passes
  <2>2. \A q \in pass.reasons[u] : q.step # r.step
    BY <1>1, <2>1 DEF PassInv, Lines
  <2>. QED
    BY <2>2, RecordedLate
<1>9. \A v \in pass'.todo : \A r \in pass'.reasons[v] :
        r.kind = "OVERDUE" => Cardinality(LateOn(r.step, r.planned)') < MaxOverdue
  BY <1>1, <1>4, <1>8 DEF PassInv
<1>10. \A l \in inbox' : l.recorded /\ l.day < pass'.day =>
         \A v \in User : \A r \in l.reasons, q \in pass'.reasons[v] : Apart(r, l.day, q, pass'.day)
  BY <1>1, <1>4, <1>7 DEF PassInv
<1>11. /\ pass'.day <= today' /\ (~ ticked' => pass'.day < today')
       /\ \A v \in User : Lines(v, pass'.reasons[v], pass'.day)
  BY <1>1, <1>4 DEF PassInv
<1>. QED
  BY <1>4, <1>6, <1>9, <1>10, <1>11 DEF PassInv

LEMMA PassKept == ASSUME IInv, [Next]_vars PROVE PassInv'
<1> USE DEF IInv
<1>1. DayInv'
  BY DayKept
<1>2. CASE Aside \/ Forgets
  <2>1. \A s, date : LateOn(s, date)' = LateOn(s, date)
    BY <1>2 DEF LateOn, Aside, Forgets
  <2>2. UNCHANGED <<inbox, pass, fresh>> /\ today <= today' /\ (~ ticked' => ~ ticked \/ today < today')
    BY <1>2 DEF Aside, Forgets, DayInv
  <2>3. pass # None => pass.day <= today' /\ (~ ticked' => pass.day < today')
    <3> SUFFICES ASSUME pass # None PROVE pass.day <= today' /\ (~ ticked' => pass.day < today')
      OBVIOUS
    <3>1. pass.day \in Nat
      BY DEF PassInv, Passes
    <3>. QED
      BY <1>1, <2>2, <3>1 DEF PassInv, DayInv
  <2>. QED
    BY <2>1, <2>2, <2>3 DEF PassInv, ReminderLetter
<1>3. CASE EndRun
  BY <1>3 DEF EndRun, PassInv
<1>. QED
  BY <1>1, <1>2, <1>3, Ticks, TurnsGoOn, SentGoesOn, RecordedGoesOn, KindsOfSteps

(* Every reachable state has the invariant: the log says of a step what    *)
(* the recorded letters said, and what a run is about to say stays apart   *)
(* from it, whatever happens to plans, preferences and accounts meanwhile. *)
THEOREM RemindersInvariant == Spec => []IInv
<1>1. Init => IInv
  BY InitIInv
<1>2. IInv /\ [Next]_vars => IInv'
  BY DayKept, LogKept, InboxKept, PassKept DEF IInv
<1>. QED
  BY <1>1, <1>2, PTL DEF Spec

-----------------------------------------------------------------------------
(* What was told and what is due.                                          *)
LEMMA ToldIs ==
  ASSUME InboxInv, NEW s \in Step, NEW kind, NEW r \in Told(s, kind)
  PROVE  /\ r \in Reasons /\ r.step = s /\ r.kind = kind /\ r.planned = planned[s]
         /\ \E l \in inbox : l.recorded /\ r \in l.reasons /\ r.offset = r.planned - l.day /\ l.day \in Nat
<1>1. PICK l \in inbox : l.recorded /\ r \in l.reasons
  BY DEF Told
<1>2. r \in Reasons /\ r.offset = r.planned - l.day /\ l.day \in Nat
  BY <1>1 DEF InboxInv, Lines, Letters
<1>. QED
  BY <1>1, <1>2 DEF Told

LEMMA ToldLate ==
  ASSUME DayInv, InboxInv, NEW s \in Step
  PROVE  Cardinality(Told(s, "OVERDUE")) <= MaxOverdue
<1> DEFINE told == Told(s, "OVERDUE")
           late == LateOn(s, planned[s])
           f    == [r \in told |-> r.planned - r.offset]
<1>1. CASE told = {}
  BY <1>1, FS_EmptySet, OverdueAssumption
<1>2. CASE told # {}
  <2>1. planned[s] \in Int
    BY <1>2, ToldIs DEF Reasons
  <2>2. late \subseteq 1 .. today /\ Cardinality(late) <= MaxOverdue /\ IsFiniteSet(late)
    BY <2>1, DaysAreFinite DEF InboxInv
  <2>3. \A r \in told : r.planned - r.offset \in late
    <3> SUFFICES ASSUME NEW r \in told PROVE r.planned - r.offset \in late
      OBVIOUS
    <3>1. r \in Reasons /\ r.step = s /\ r.kind = "OVERDUE" /\ r.planned = planned[s]
      BY ToldIs
    <3>2. PICK l \in inbox : l.recorded /\ r \in l.reasons /\ r.offset = r.planned - l.day /\ l.day \in Nat
      BY ToldIs
    <3>3. l.day \in late
      BY <3>1, <3>2 DEF LateOn
    <3>4. r.planned - r.offset = l.day
      BY <3>1, <3>2 DEF Reasons
    <3>. QED
      BY <3>3, <3>4
  <2>4. \A r, q \in told : r.planned - r.offset = q.planned - q.offset => r = q
    <3> SUFFICES ASSUME NEW r \in told, NEW q \in told, r.planned - r.offset = q.planned - q.offset PROVE r = q
      OBVIOUS
    <3>1. /\ r \in Reasons /\ r.step = s /\ r.kind = "OVERDUE" /\ r.planned = planned[s]
          /\ q \in Reasons /\ q.step = s /\ q.kind = "OVERDUE" /\ q.planned = planned[s]
      BY ToldIs
    <3>2. r.offset = q.offset
      BY <3>1 DEF Reasons
    <3>. QED
      BY <3>1, <3>2 DEF Reasons
  <2> HIDE DEF told, late
  <2>5. f \in Injection(told, late)
    BY <2>3, <2>4 DEF Injection, IsInjective
  <2>6. IsFiniteSet(told) /\ Cardinality(told) <= Cardinality(late)
    BY <2>2, <2>5, FS_Injection
  <2>7. Cardinality(told) \in Nat /\ Cardinality(late) \in Nat
    BY <2>2, <2>6, FS_CardinalityType
  <2>. QED
    BY <2>2, <2>6, <2>7, OverdueAssumption DEF told
<1>. QED
  BY <1>1, <1>2

(* No person is told twice about a date of a step closer than the code     *)
(* means to, nor more often once it is late: the only letters said again   *)
(* are those whose record failed.                                          *)
THEOREM EveryLetterIsExplained == Spec => []LettersExplained
<1>1. ASSUME IInv PROVE LettersExplained
  <2>1. ASSUME NEW l \in inbox, NEW k \in inbox, l.recorded /\ l.day < k.day,
               NEW r \in l.reasons, NEW q \in k.reasons
        PROVE  Apart(r, l.day, q, k.day)
    BY <1>1, <2>1 DEF IInv, InboxInv
  <2>2. \A s \in Step : Cardinality(Told(s, "OVERDUE")) <= MaxOverdue
    BY <1>1, ToldLate DEF IInv
  <2>. QED
    BY <2>1, <2>2 DEF LettersExplained, Apart
<1>. QED
  BY <1>1, RemindersInvariant, PTL

(* The log and the recorded letters say the same of a candidate's date.    *)
LEMMA LogTells ==
  ASSUME IInv, NEW s \in Step, s \notin deleted
  PROVE  /\ \A r \in Told(s, "SCALE") :
              \E w \in log[s] : w.kind = "SCALE" /\ w.planned = planned[s] /\ w.offset = r.offset
         /\ \A w \in log[s] : w.kind = "SCALE" /\ w.planned = planned[s] =>
              \E r \in Told(s, "SCALE") : w.offset = r.offset
         /\ Told(s, "OVERDUE") = {} => LateLogged(s) = {}
<1> USE DEF IInv
<1>1. ASSUME NEW r \in Told(s, "SCALE")
      PROVE  \E w \in log[s] : w.kind = "SCALE" /\ w.planned = planned[s] /\ w.offset = r.offset
  <2>1. PICK l \in inbox : l.recorded /\ r \in l.reasons
    BY DEF Told
  <2>2. RowOf(r, l.day) \in log[s]
    BY <2>1 DEF LogInv, Told
  <2>. QED
    BY <2>2 DEF RowOf, Told
<1>2. ASSUME NEW w \in log[s], w.planned = planned[s]
      PROVE  \E r \in Told(s, w.kind) : w.kind = "SCALE" => w.offset = r.offset
  <2>1. PICK l \in inbox : l.recorded /\ \E r \in l.reasons : r.step = s /\ w = RowOf(r, l.day)
    BY DEF LogInv
  <2>2. PICK r \in l.reasons : r.step = s /\ w = RowOf(r, l.day)
    BY <2>1
  <2>3. r \in Told(s, w.kind)
    BY <1>2, <2>1, <2>2 DEF Told, RowOf
  <2>. QED
    BY <2>2, <2>3 DEF RowOf
<1>3. Told(s, "OVERDUE") = {} => LateLogged(s) = {}
  BY <1>2 DEF LateLogged
<1>. QED
  BY <1>1, <1>2, <1>3

LEMMA DueScale ==
  ASSUME IInv, NEW s \in Step, Candidate(s, today), planned[s] >= today
  PROVE  ScaleReason(s, today) <=>
           Open(s) # {} /\ \A r \in Told(s, "SCALE") : r.offset > Least(Open(s))
<1>1. s \notin deleted /\ planned[s] \in Int /\ today \in Int /\ planned[s] # None
  BY NoneAssumption DEF Candidate, IInv, DayInv, Days
<1>2. \A w \in log[s] : w.kind = "SCALE" /\ w.planned = planned[s] => w.offset \in Int
  BY <1>1, LogTells, ToldIs DEF IInv, Reasons
<1>3. /\ OpenThresholds(s) \subseteq scaleOf[s] /\ Open(s) \subseteq scaleOf[s]
      /\ \A S \in SUBSET scaleOf[s] : S \subseteq Int /\ IsFiniteSet(S)
  BY Scales DEF OpenThresholds, Open
<1>4. ASSUME ScaleReason(s, today)
      PROVE  Open(s) # {} /\ \A r \in Told(s, "SCALE") : r.offset > Least(Open(s))
  <2> DEFINE o == Greatest(OpenThresholds(s))
  <2>1. o \in OpenThresholds(s) /\ planned[s] - today <= o
    BY <1>3, <1>4, Extremes DEF ScaleReason, DayBetween
  <2> HIDE DEF o
  <2>2. o \in Open(s)
    BY <1>1, <1>3, <2>1 DEF Open, DayBetween
  <2>3. Least(Open(s)) \in Int /\ Least(Open(s)) <= o
    BY <1>3, <2>2, Extremes
  <2>4. ASSUME NEW r \in Told(s, "SCALE") PROVE r.offset > Least(Open(s))
    <3>1. PICK w \in log[s] : w.kind = "SCALE" /\ w.planned = planned[s] /\ w.offset = r.offset
      BY <1>1, LogTells
    <3>2. o < w.offset /\ w.offset \in Int /\ o \in Int
      BY <1>2, <1>3, <2>1, <3>1 DEF OpenThresholds
    <3>. QED
      BY <2>3, <3>1, <3>2
  <2>. QED
    BY <2>2, <2>4
<1>5. ASSUME Open(s) # {}, \A r \in Told(s, "SCALE") : r.offset > Least(Open(s))
      PROVE  ScaleReason(s, today)
  <2> DEFINE o == Least(Open(s))
  <2>1. o \in Open(s) /\ o \in Int
    BY <1>3, <1>5, Extremes
  <2>2. \A w \in log[s] : w.kind = "SCALE" /\ w.planned = planned[s] => o < w.offset
    BY <1>1, <1>2, <1>5, <2>1, LogTells
  <2> HIDE DEF o
  <2>3. o \in OpenThresholds(s) /\ planned[s] - today <= o
    BY <1>3, <2>1, <2>2 DEF OpenThresholds, Open, DayBetween
  <2>4. Greatest(OpenThresholds(s)) \in Int /\ o <= Greatest(OpenThresholds(s))
    BY <1>3, <2>3, Extremes
  <2>. QED
    BY <1>1, <2>1, <2>3, <2>4 DEF ScaleReason, DayBetween
<1>. QED
  BY <1>4, <1>5

(* selectReminders, which works from its log and its dates, counts a step  *)
(* down when a threshold is reached that no recorded letter has counted    *)
(* past, and calls it late when the person's page does.                    *)
THEOREM SelectionIsDue == Spec => []SelectsWhatIsDue
<1>1. ASSUME IInv PROVE SelectsWhatIsDue
  <2> SUFFICES ASSUME NEW s \in Step, Candidate(s, today)
               PROVE  LET kinds == {r.kind : r \in ReasonsOf(s, today)}
                      IN /\ "SCALE" \in kinds <=>
                              /\ planned[s] >= today /\ Open(s) # {}
                              /\ \A r \in Told(s, "SCALE") : r.offset > Least(Open(s))
                         /\ "OVERDUE" \in kinds => StepStatus(mark[s], planned[s], today, Soon) = "EN_RETARD"
                         /\ StepStatus(mark[s], planned[s], today, Soon) = "EN_RETARD" /\ Told(s, "OVERDUE") = {}
                              => \/ "OVERDUE" \in kinds
                                 \/ \E l \in log[s] : l.kind = "OVERDUE" /\ l.sentOn = today
    BY DEF SelectsWhatIsDue
  <2> DEFINE kinds == {r.kind : r \in ReasonsOf(s, today)}
  <2>1. s \notin deleted /\ mark[s] = None /\ planned[s] \in Int /\ today \in Int /\ planned[s] # None
    BY <1>1, NoneAssumption DEF Candidate, IInv, DayInv, Days
  <2>2. /\ Reason(s, "SCALE", today).kind = "SCALE" /\ Reason(s, "OVERDUE", today).kind = "OVERDUE"
    BY DEF Reason
  <2>3. kinds = CASE planned[s] < today /\ OverdueReason(s, today) -> {"OVERDUE"}
                  [] planned[s] >= today /\ ScaleReason(s, today) -> {"SCALE"}
                  [] OTHER -> {}
    BY <2>1, <2>2 DEF ReasonsOf
  <2> HIDE DEF kinds
  <2>4. "SCALE" \in kinds <=> planned[s] >= today /\ ScaleReason(s, today)
    BY <2>1, <2>3
  <2>5. "OVERDUE" \in kinds <=> planned[s] < today /\ OverdueReason(s, today)
    BY <2>1, <2>3
  <2>6. StepStatus(mark[s], planned[s], today, Soon) = "EN_RETARD" <=> planned[s] < today
    BY <2>1 DEF StepStatus
  <2>7. Told(s, "OVERDUE") = {} =>
          \/ OverdueReason(s, today)
          \/ \E l \in log[s] : l.kind = "OVERDUE" /\ l.sentOn = today
    <3>1. Told(s, "OVERDUE") = {} => LateLogged(s) = {}
      BY <1>1, <2>1, LogTells
    <3>2. LateLogged(s) = {} => Cardinality(LateLogged(s)) < MaxOverdue
      BY FS_EmptySet, OverdueAssumption
    <3>. QED
      BY <3>1, <3>2 DEF OverdueReason, LateLogged
  <2>8. planned[s] >= today =>
          (ScaleReason(s, today) <=> Open(s) # {} /\ \A r \in Told(s, "SCALE") : r.offset > Least(Open(s)))
    BY <1>1, DueScale
  <2>. QED
    BY <2>4, <2>5, <2>6, <2>7, <2>8 DEF kinds
<1>. QED
  BY <1>1, RemindersInvariant, PTL
=============================================================================
