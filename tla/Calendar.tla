------------------------------- MODULE Calendar -------------------------------
(* The legal deadlines (src/deadline-rules): calendar dates without a time *)
(* of day, the delay a DeadlineRule adds to an anchor, and the version of  *)
(* a rule that is in force on a date.                                      *)
EXTENDS Integers

CONSTANT NoDate  \* stands for a date or a rule that is not there

Leap(y) == y % 4 = 0 /\ (y % 100 # 0 \/ y % 400 = 0)

DaysIn(y, m) ==
  CASE m = 2 -> IF Leap(y) THEN 29 ELSE 28
    [] m \in {4, 6, 9, 11} -> 30
    [] OTHER -> 31

DaysOf(years) ==
  UNION {{[y |-> y, m |-> m, d |-> d] : d \in 1 .. DaysIn(y, m)} : y \in years, m \in 1 .. 12}

NotAfter(a, b) ==
  \/ a.y < b.y
  \/ a.y = b.y /\ a.m < b.m
  \/ a.y = b.y /\ a.m = b.m /\ a.d <= b.d

(* The month n months from the one of a date.                              *)
MonthFrom(a, n) ==
  LET months == 12 * a.y + (a.m - 1) + n IN [y |-> months \div 12, m |-> (months % 12) + 1]

(* Mutant: a day the month does not have rolls into the next one.          *)
AddMonthsRolling(a, n) ==
  LET at == MonthFrom(a, n)
      over == a.d - DaysIn(at.y, at.m)
      next == MonthFrom(a, n + 1)
  IN IF over <= 0 THEN [y |-> at.y, m |-> at.m, d |-> a.d]
     ELSE [y |-> next.y, m |-> next.m, d |-> over]

(* A day the month does not have becomes its last day.                     *)
AddMonths(a, n) ==
  LET at == MonthFrom(a, n)
  IN [y |-> at.y, m |-> at.m, d |-> IF a.d <= DaysIn(at.y, at.m) THEN a.d ELSE DaysIn(at.y, at.m)]

(* n days later, n >= 0: the days of a month that are over leave the count. *)
AddDays(a, n) ==
  LET past[i \in Nat] ==
        IF i = 0 THEN 0
        ELSE LET at == MonthFrom(a, i - 1) IN past[i - 1] + DaysIn(at.y, at.m)
      i  == CHOOSE k \in 0 .. n : past[k] < a.d + n /\ a.d + n <= past[k + 1]
      at == MonthFrom(a, i)
  IN [y |-> at.y, m |-> at.m, d |-> a.d + n - past[i]]

ResolveDeadline(anchor, duration, unit) ==
  IF unit = "MONTHS" THEN AddMonths(anchor, duration) ELSE AddDays(anchor, duration)

(* resolveActiveOrNull: the versions of one code never overlap             *)
(* (DeadlineRule_code_daterange_excl), there may be gaps between them.     *)
ActiveRule(rules, on) ==
  LET active == {r \in rules : /\ NotAfter(r.effectiveFrom, on)
                               /\ r.effectiveTo = NoDate \/ NotAfter(on, r.effectiveTo)}
  IN IF active = {} THEN NoDate ELSE CHOOSE r \in active : TRUE

(* declarationRulesFor and legalStepDate: only a recognised line has one.  *)
DeclarationDate(rules, outcome, publishedAt) ==
  LET rule == ActiveRule(rules, publishedAt)
  IN IF outcome # "RECONNU" \/ rule = NoDate THEN NoDate
     ELSE ResolveDeadline(publishedAt, rule.duration, rule.unit)
=============================================================================
