------------------------------ MODULE Reminders ------------------------------
(* The daily letter about the steps of a person's dossiers                 *)
(* (RemindersService): what is worth a line today, one letter per person,  *)
(* its record after the delivery, the failures counted and the two ways to *)
(* switch the letters off.  There is no outbox: what is not recorded is    *)
(* said again the next day.                                                *)
(***************************************************************************)
EXTENDS Integers, FiniteSets, DossierPlan

CONSTANTS
  User, Step, ownerOf, \* people, and the person each step belongs to
  scaleOf,             \* thresholds of a step: DECLARATION_REMINDER_OFFSETS_DAYS or
                       \* REMINDER_OFFSETS_DAYS, by its rule
  durationOf,          \* the delay of its rule, None for a step that has none
  Marks,               \* marks a person sets, of "FAIT" and "NON_APPLICABLE"
  Anchor,              \* days a step's date may be counted from
  Interval,            \* OVERDUE_REMINDER_INTERVAL_DAYS
  MaxOverdue,          \* OVERDUE_REMINDER_MAX_COUNT
  Attempts,            \* NOTIFICATION_ATTEMPTS_BEFORE_ALERT
  Soon,                \* SOON_THRESHOLD_DAYS
  LastDay,             \* bound: days lived through
  MaxToken,            \* bound: letters composed
  MaxEdits             \* bound: edits of a plan, a preference or an account

ASSUME ScaleAssumption ==
  /\ ownerOf \in [Step -> User]
  /\ scaleOf \in [Step -> (SUBSET Nat) \ {{}}] /\ \A s \in Step : IsFiniteSet(scaleOf[s])
  /\ durationOf \in [Step -> Nat \cup {None}]
  /\ Anchor \subseteq Nat
ASSUME OverdueAssumption ==
  Interval \in Nat \ {0} /\ MaxOverdue \in Nat \ {0} /\ Attempts \in Nat \ {0}
ASSUME NoneAssumption == None \notin Int

Day   == 1 .. LastDay
Token == 1 .. MaxToken
Kinds == {"SCALE", "OVERDUE"}

VARIABLES
  today,
  ticked,     \* the tick of the day has come
  planned,    \* Step.plannedDate
  mark,       \* Step.persistedStatus
  deleted,    \* steps gone with their dossier or their owner
  log,        \* ReminderLog rows of a step
  account,    \* a User row: "on", "off" (remindersDisabledAt), or "gone"
  failures,   \* User.reminderFailures
  tokens,     \* ReminderUnsubscribeToken rows of a user
  pass,       \* the run in progress, None without one
  inbox,      \* letters delivered
  fresh, edits

stepVars == <<planned, mark, deleted>>
vars == <<today, ticked, stepVars, log, account, failures, tokens, pass, inbox,
          fresh, edits>>

(* The dates a step can have been given: its delay from a day of its event.*)
Dates(s) == {LegalStepDate(a, durationOf[s]) : a \in Anchor \cup {None}}

DayBetween(from, to) == to - from                      \* daysBetween
Least(S)    == CHOOSE n \in S : \A m \in S : n <= m
Greatest(S) == CHOOSE n \in S : \A m \in S : m <= n

Init ==
  /\ today = 1 /\ ticked = FALSE
  /\ \E anchor \in Anchor \cup {None} :
       planned = [s \in Step |-> LegalStepDate(anchor, durationOf[s])]
  /\ mark = [s \in Step |-> None]
  /\ deleted = {}
  /\ log = [s \in Step |-> {}]
  /\ account = [u \in User |-> "on"]
  /\ failures = [u \in User |-> 0]
  /\ tokens = [u \in User |-> {}]
  /\ pass = None
  /\ inbox = {}
  /\ fresh = 1 /\ edits = 0

-----------------------------------------------------------------------------
(* selectReminders.                                                        *)

Reason(s, kind, day) ==
  [step |-> s, kind |-> kind, offset |-> DayBetween(day, planned[s]), planned |-> planned[s]]

(* Mutant: a count equal to a threshold leaves it open.                    *)
OpenThresholdsInclusive(s) ==
  {o \in scaleOf[s] : \A l \in log[s] :
     (l.kind = "SCALE" /\ l.planned = planned[s]) => o <= l.offset}

(* Thresholds below every count a letter has already given for this date.  *)
OpenThresholds(s) ==
  {o \in scaleOf[s] : \A l \in log[s] :
     (l.kind = "SCALE" /\ l.planned = planned[s]) => o < l.offset}

ScaleReason(s, day) ==
  /\ OpenThresholds(s) # {}
  /\ DayBetween(day, planned[s]) <= Greatest(OpenThresholds(s))

OverdueReason(s, day) ==
  LET overdue == {l \in log[s] : l.kind = "OVERDUE"}
      sentOn  == {l.sentOn : l \in {m \in overdue : m.planned = planned[s]}}
  IN /\ \A l \in overdue : l.sentOn # day
     /\ Cardinality(sentOn) < MaxOverdue
     /\ sentOn # {} => DayBetween(Greatest(sentOn), day) >= Interval

(* The candidates: dated no further ahead than REMINDER_HORIZON_DAYS, not  *)
(* marked, their owner not having switched the letters off.                *)
Horizon == Greatest(UNION {scaleOf[s] : s \in Step})

Candidate(s, day) ==
  /\ s \notin deleted /\ mark[s] = None
  /\ planned[s] # None /\ planned[s] <= day + Horizon
  /\ account[ownerOf[s]] = "on"

ReasonsOf(s, day) ==
  CASE ~ Candidate(s, day) -> {}
    [] Candidate(s, day) /\ planned[s] < day /\ OverdueReason(s, day) -> {Reason(s, "OVERDUE", day)}
    [] Candidate(s, day) /\ planned[s] >= day /\ ScaleReason(s, day) -> {Reason(s, "SCALE", day)}
    [] OTHER -> {}

SelectReminders(u, day) == UNION {ReasonsOf(s, day) : s \in {t \in Step : ownerOf[t] = u}}

-----------------------------------------------------------------------------
(* run and runOnce.                                                        *)

(* A day passes; a run it finds still going keeps the day it began on.     *)
NewDay ==
  /\ today < LastDay
  /\ today' = today + 1 /\ ticked' = FALSE
  /\ UNCHANGED <<stepVars, log, account, failures, tokens, pass, inbox, fresh, edits>>

(* The candidates are read and grouped at once; a tick that finds a run    *)
(* going is skipped.                                                       *)
Tick ==
  /\ ~ ticked /\ ticked' = TRUE
  /\ pass' = IF pass # None THEN pass
             ELSE [day |-> today, pc |-> "next", user |-> None, token |-> 0,
                   todo |-> {u \in User : SelectReminders(u, today) # {}},
                   reasons |-> [u \in User |-> SelectReminders(u, today)],
                   failures |-> failures]
  /\ UNCHANGED <<today, stepVars, log, account, failures, tokens, inbox, fresh, edits>>

TurnOver(u) == [pass EXCEPT !.pc = "next", !.user = None, !.token = 0, !.todo = @ \ {u}]

(* mintUnsubscribeToken: switched off or gone since the query.             *)
Check(u) ==
  /\ pass # None /\ pass.pc = "next" /\ u \in pass.todo
  /\ pass' = IF account[u] = "on" THEN [pass EXCEPT !.pc = "mint", !.user = u] ELSE TurnOver(u)
  /\ UNCHANGED <<today, ticked, stepVars, log, account, failures, tokens, inbox, fresh, edits>>

Mint(u) ==
  /\ pass # None /\ pass.pc = "mint" /\ pass.user = u /\ account[u] # "gone"
  /\ fresh <= MaxToken /\ fresh' = fresh + 1
  /\ tokens' = [tokens EXCEPT ![u] = @ \cup {fresh}]
  /\ pass' = [pass EXCEPT !.pc = "send", !.token = fresh]
  /\ UNCHANGED <<today, ticked, stepVars, log, account, failures, inbox, edits>>

(* reminderMailFor: the reasons of the query, whatever changed since.      *)
ReminderLetter(u) ==
  [user |-> u, token |-> pass.token, day |-> pass.day, reasons |-> pass.reasons[u],
   recorded |-> FALSE]

Send(u) ==
  /\ pass # None /\ pass.pc = "send" /\ pass.user = u
  /\ inbox' = inbox \cup {ReminderLetter(u)}
  /\ pass' = [pass EXCEPT !.pc = "record"]
  /\ UNCHANGED <<today, ticked, stepVars, log, account, failures, tokens, fresh, edits>>

(* The mint of a vanished account or the delivery throws: countFailure     *)
(* writes one more than the query read, and the run goes on.               *)
MailFails(u) ==
  /\ pass # None /\ pass.user = u
  /\ \/ pass.pc = "send"
     \/ pass.pc = "mint" /\ account[u] = "gone"
  /\ failures' = IF account[u] = "gone" THEN failures
                 ELSE [failures EXCEPT ![u] = pass.failures[u] + 1]
  /\ pass' = IF pass.failures[u] + 1 = Attempts THEN [pass EXCEPT !.pc = "alert"] ELSE TurnOver(u)
  /\ UNCHANGED <<today, ticked, stepVars, log, account, tokens, inbox, fresh, edits>>

(* The run that reaches the count tells the administrator, no later one;   *)
(* the count stands when that fails.                                       *)
Alert(u) ==
  /\ pass # None /\ pass.pc = "alert" /\ pass.user = u
  /\ pass' = TurnOver(u)
  /\ UNCHANGED <<today, ticked, stepVars, log, account, failures, tokens, inbox, fresh, edits>>

LogRow(r) == [kind |-> r.kind, offset |-> IF r.kind = "OVERDUE" THEN None ELSE r.offset,
              planned |-> r.planned, sentOn |-> pass.day]

(* Mutant: the letters about a late step are not recorded.                 *)
LogScaleOnly(u) ==
  [s \in Step |-> log[s] \cup {LogRow(r) : r \in {q \in pass.reasons[u] :
                                                  q.step = s /\ q.kind = "SCALE"}}]

Logged(u) ==
  [s \in Step |-> log[s] \cup {LogRow(r) : r \in {q \in pass.reasons[u] : q.step = s}}]

(* One transaction: a step deleted since the query undoes all of it.       *)
RecordSent(u) ==
  /\ pass # None /\ pass.pc = "record" /\ pass.user = u
  /\ {r.step : r \in pass.reasons[u]} \cap deleted = {}
  /\ log' = Logged(u)
  /\ failures' = [failures EXCEPT ![u] = 0]
  /\ inbox' = {IF l.token = pass.token THEN [l EXCEPT !.recorded = TRUE] ELSE l : l \in inbox}
  /\ pass' = TurnOver(u)
  /\ UNCHANGED <<today, ticked, stepVars, account, tokens, fresh, edits>>

RecordFails(u) ==
  /\ pass # None /\ pass.pc = "record" /\ pass.user = u
  /\ pass' = TurnOver(u)
  /\ UNCHANGED <<today, ticked, stepVars, log, account, failures, tokens, inbox, fresh, edits>>

(* The run is over, or its process has died on the way.                    *)
EndRun ==
  /\ pass # None /\ pass' = None
  /\ UNCHANGED <<today, ticked, stepVars, log, account, failures, tokens, inbox, fresh, edits>>

-----------------------------------------------------------------------------
(* What people do to their plans and to the letters.                       *)

Edit == edits < MaxEdits /\ edits' = edits + 1

(* A declaration, its correction or a text of the monitor redates a step.  *)
Replan(s, date) ==
  /\ Edit /\ s \notin deleted /\ planned[s] # date
  /\ planned' = [planned EXCEPT ![s] = date]
  /\ UNCHANGED <<today, ticked, mark, deleted, log, account, failures, tokens, pass, inbox, fresh>>

UpdateStep(s, m) ==
  /\ Edit /\ s \notin deleted /\ mark[s] # m
  /\ mark' = [mark EXCEPT ![s] = m]
  /\ UNCHANGED <<today, ticked, planned, deleted, log, account, failures, tokens, pass, inbox, fresh>>

Forget(steps) ==
  /\ deleted' = deleted \cup steps
  /\ log' = [s \in Step |-> IF s \in steps THEN {} ELSE log[s]]

RemoveStep(s) ==
  /\ Edit /\ s \notin deleted
  /\ Forget({s})
  /\ UNCHANGED <<today, ticked, planned, mark, account, failures, tokens, pass, inbox, fresh>>

(* A preference already so, a token that stops nothing: no step.           *)
SetPreference(u, enabled) ==
  /\ Edit /\ account[u] = (IF enabled THEN "off" ELSE "on")
  /\ account' = [account EXCEPT ![u] = IF enabled THEN "on" ELSE "off"]
  /\ UNCHANGED <<today, ticked, stepVars, log, failures, tokens, pass, inbox, fresh>>

DisableByToken(t) ==
  /\ Edit /\ \E u \in User : t \in tokens[u] /\ account[u] = "on"
  /\ account' = [u \in User |-> IF t \in tokens[u] THEN "off" ELSE account[u]]
  /\ UNCHANGED <<today, ticked, stepVars, log, failures, tokens, pass, inbox, fresh>>

DeleteAccount(u) ==
  /\ Edit /\ account[u] # "gone"
  /\ account' = [account EXCEPT ![u] = "gone"]
  /\ tokens' = [tokens EXCEPT ![u] = {}] /\ failures' = [failures EXCEPT ![u] = 0]
  /\ Forget({s \in Step : ownerOf[s] = u})
  /\ UNCHANGED <<today, ticked, planned, mark, pass, inbox, fresh>>

Run(u) == Check(u) \/ Mint(u) \/ Send(u) \/ MailFails(u) \/ Alert(u) \/ RecordSent(u) \/ RecordFails(u)

Next ==
  \/ NewDay \/ Tick \/ EndRun
  \/ \E u \in User : Run(u) \/ DeleteAccount(u) \/ \E b \in BOOLEAN : SetPreference(u, b)
  \/ \E s \in Step :
       \/ RemoveStep(s)
       \/ \E date \in Dates(s) : Replan(s, date)
       \/ \E m \in Marks \cup {None} : UpdateStep(s, m)
  \/ \E l \in inbox : DisableByToken(l.token)

Spec == Init /\ [][Next]_vars

-----------------------------------------------------------------------------
(* Properties.                                                             *)

Open(s) == {o \in scaleOf[s] : planned[s] # None /\ DayBetween(today, planned[s]) <= o}

(* What the person was told about the date a step has now: the lines of    *)
(* the letters whose record was written.                                   *)
Told(s, kind) ==
  {r \in UNION {l.reasons : l \in {m \in inbox : m.recorded}} :
     r.step = s /\ r.kind = kind /\ r.planned = planned[s]}

(* The morning's letter counts a step down exactly when it has reached a   *)
(* threshold no recorded letter has counted past, and calls it late        *)
(* exactly when the person's own page does: selectReminders works from its *)
(* log and its dates, the threshold it reports is the days left and not    *)
(* the threshold crossed, and a date can move back and forth.              *)
SelectsWhatIsDue ==
  \A s \in Step : Candidate(s, today) =>
    LET kinds == {r.kind : r \in ReasonsOf(s, today)}
    IN /\ "SCALE" \in kinds <=>
            /\ planned[s] >= today /\ Open(s) # {}
            /\ \A r \in Told(s, "SCALE") : r.offset > Least(Open(s))
       /\ "OVERDUE" \in kinds => StepStatus(mark[s], planned[s], today, Soon) = "EN_RETARD"
       /\ StepStatus(mark[s], planned[s], today, Soon) = "EN_RETARD" /\ Told(s, "OVERDUE") = {}
            => \/ "OVERDUE" \in kinds
               \/ \E l \in log[s] : l.kind = "OVERDUE" /\ l.sentOn = today

(* Two letters about the same date of a step are a threshold apart, or     *)
(* Interval days apart once it is late, and MaxOverdue is the end of them; *)
(* only a letter whose record failed is said again.                        *)
LettersExplained ==
  /\ \A l, k \in inbox : l.recorded /\ l.day < k.day =>
       \A r \in l.reasons, q \in k.reasons :
         r.step = q.step /\ r.planned = q.planned /\ r.kind = q.kind =>
           IF r.kind = "SCALE" THEN \E o \in scaleOf[r.step] : q.offset <= o /\ o < r.offset
           ELSE k.day - l.day >= Interval
  /\ \A s \in Step : Cardinality(Told(s, "OVERDUE")) <= MaxOverdue

=============================================================================
