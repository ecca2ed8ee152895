---------------------------- MODULE Ingest_proofs ----------------------------
(***************************************************************************)
(* The lease that keeps ingest runs apart, and what an ingest does to the  *)
(* rows of an arrete.                                                      *)
(*                                                                         *)
(* IngestLease: mutual exclusion, for every number of processes, every     *)
(* timing and every number of faults, as long as the lease outlives a run  *)
(* and the calls around it (LeaseOutlivesRun).                             *)
(*                                                                         *)
(* Publication: the rows say what the last text prints, a correction keeps *)
(* the row of its line and the commune of every row, and deadlines keep    *)
(* their order, for every set of texts, whatever they print, every         *)
(* referential and every number of rows, deliveries and reforms.  The      *)
(* invariant is RowsInv; parsing, pairing and writing are recursive        *)
(* functions, reasoned about by induction on sets of naturals.             *)
(***************************************************************************)
EXTENDS IngestLease, Publication, FiniteSetTheorems, WellFoundedInduction, TLAPS

-----------------------------------------------------------------------------
(* The lease (IngestLease).                                                *)

(* A running process owns the lease for longer than it may still run.      *)
RunInv ==
  \A p \in Proc : pc[p] = "run" => owner = p /\ left > RunLimit - timer[p]

(* How long a script may take, from the start of a step, until it has      *)
(* renewed or released its lease.                                          *)
Rest(step) ==
  CASE step = "run"                 -> RunLimit + 3 * CallLimit
    [] step \in {"counts", "tally"} -> 3 * CallLimit
    [] step = "loop"                -> 2 * CallLimit
    [] OTHER                        -> CallLimit

(* A script that has missed no renewal owns the lease for longer than it   *)
(* needs, from its first acquisition on, and every renewal takes one call. *)
LoopInv ==
  \A s \in Scripts : (inLoop[s] \/ pc[s] = "counts") /\ s \notin missed =>
    /\ owner = s
    /\ left > Rest(pc[s]) - timer[s]
    /\ pc[s] \notin {"find", "create"}

(* A script that gave up is on its way out.                                *)
StalledInv == \A s \in Scripts : stalled[s] = 2 => pc[s] = "release"

LeaseInv == LeaseTypeOK /\ RunInv /\ LoopInv /\ StalledInv

(* The longest a run can last is a natural number.                       *)
LEMMA RunLimitType == RunLimit \in Nat
  BY TimeAssumption DEF RunLimit

(* Nobody holds the lease, nobody runs.                                    *)
LEMMA InitLease == LeaseInit => LeaseInv
<1> SUFFICES ASSUME LeaseInit PROVE LeaseInv
  OBVIOUS
<1>1. LeaseTypeOK
  BY ProcAssumption, TimeAssumption, RunLimitType
  DEF LeaseInit, LeaseTypeOK, Proc, Steps, Acquiring, Limit
<1>2. RunInv /\ LoopInv /\ StalledInv
  BY DEF LeaseInit, RunInv, LoopInv, StalledInv, Proc
<1>. QED
  BY <1>1, <1>2 DEF LeaseInv

(* Leaving the loop leaves the script's variables well typed, and the      *)
(* other scripts where they were.                                          *)
LEMMA LeaveLoopTypes ==
  ASSUME LeaseTypeOK, NEW p \in Proc, LeaveLoop(p)
  PROVE  /\ inLoop' \in [Scripts -> BOOLEAN]
         /\ last' \in [Scripts -> 0 .. Backlog]
         /\ stalled' \in [Scripts -> 0 .. 2]
         /\ missed' \subseteq Scripts
         /\ \A s \in Scripts : inLoop'[s] => inLoop[s] /\ s # p
<1>1. CASE p \in Scripts
  <2>1. inLoop' = [inLoop EXCEPT ![p] = FALSE] /\ last' = [last EXCEPT ![p] = 0]
    BY <1>1 DEF LeaveLoop
  <2>2. stalled' = [stalled EXCEPT ![p] = 0] /\ missed' = missed \ {p}
    BY <1>1 DEF LeaveLoop
  <2>3. last' \in [Scripts -> 0 .. Backlog] /\ stalled' \in [Scripts -> 0 .. 2]
    <3>1. 0 \in 0 .. Backlog /\ 0 \in 0 .. 2
      BY TimeAssumption
    <3>2. last \in [Scripts -> 0 .. Backlog] /\ stalled \in [Scripts -> 0 .. 2]
      BY DEF LeaseTypeOK
    <3>3. last' \in [Scripts -> 0 .. Backlog]
      BY <2>1, <3>1, <3>2, Zenon
    <3>4. stalled' \in [Scripts -> 0 .. 2]
      BY <2>2, <3>1, <3>2, Zenon
    <3>. QED
      BY <3>3, <3>4
  <2>4. inLoop' \in [Scripts -> BOOLEAN]
    BY <2>1 DEF LeaseTypeOK
  <2>5. \A s \in Scripts : inLoop'[s] => inLoop[s] /\ s # p
    BY <2>1, Zenon DEF LeaseTypeOK
  <2>. QED
    BY <2>2, <2>3, <2>4, <2>5 DEF LeaseTypeOK
<1>2. CASE p \notin Scripts
  BY <1>2 DEF LeaseTypeOK, LeaveLoop, scriptVars
<1>. QED
  BY <1>1, <1>2

(* No step of a process, no fault and no tick of the clock breaks it.      *)
LEMMA NextKeepsLease ==
  ASSUME LeaseOutlivesRun PROVE LeaseInv /\ [LeaseNext]_leaseVars => LeaseInv'
<1> SUFFICES ASSUME LeaseInv, [LeaseNext]_leaseVars PROVE LeaseInv'
  OBVIOUS
<1> USE ProcAssumption, TimeAssumption, RunLimitType
    DEF LeaseInv, LeaseTypeOK, Steps, Acquiring, Limit, Proc, lockVars, scriptVars, Fault, NoFault
<1>1. ASSUME Tick PROVE LeaseInv'
  <2>1. LeaseTypeOK'
    BY <1>1 DEF Tick, StalledInv
  <2>2. RunInv'
    BY <1>1 DEF Tick, RunInv, LeaseOutlivesRun
  <2>3. LoopInv'
    BY <1>1 DEF Tick, LoopInv, Rest, LeaseOutlivesRun
  <2>4. StalledInv'
    BY <1>1 DEF Tick, StalledInv
  <2>. QED
    BY <2>1, <2>2, <2>3, <2>4
<1>2. ASSUME NEW p \in Proc, Start(p) PROVE LeaseInv'
  <2>1. LeaseTypeOK'
    BY <1>2 DEF Start, Go, StalledInv
  <2>2. RunInv'
    BY <1>2 DEF Start, Go, RunInv, LeaseOutlivesRun
  <2>3. LoopInv'
    BY <1>2 DEF Start, Go, LoopInv, Rest, LeaseOutlivesRun
  <2>4. StalledInv'
    BY <1>2 DEF Start, Go, StalledInv
  <2>. QED
    BY <2>1, <2>2, <2>3, <2>4
<1>3. ASSUME NEW p \in Proc, UpdateLease(p) PROVE LeaseInv'
  <2>1. LeaseTypeOK'
    BY <1>3 DEF UpdateLease, Matches, TakeLease, Granted, Go, Proceed, StalledInv
  <2>2. RunInv'
    BY <1>3 DEF UpdateLease, Matches, TakeLease, Granted, Go, Proceed, RunInv, LeaseOutlivesRun
  <2>3. LoopInv'
    BY <1>3 DEF UpdateLease, Matches, TakeLease, Granted, Go, Proceed, LoopInv, Rest, LeaseOutlivesRun
  <2>4. StalledInv'
    BY <1>3 DEF UpdateLease, Matches, TakeLease, Granted, Go, Proceed, StalledInv
  <2>. QED
    BY <2>1, <2>2, <2>3, <2>4
<1>4. ASSUME NEW p \in Proc, FindLease(p) PROVE LeaseInv'
  <2>1. LeaseTypeOK'
    BY <1>4 DEF FindLease, Refused, InScriptLoop, Go, Proceed, StalledInv
  <2>2. RunInv'
    BY <1>4 DEF FindLease, Refused, InScriptLoop, Go, Proceed, RunInv, LeaseOutlivesRun
  <2>3. LoopInv'
    BY <1>4 DEF FindLease, Refused, InScriptLoop, Go, Proceed, LoopInv, Rest, LeaseOutlivesRun
  <2>4. StalledInv'
    BY <1>4 DEF FindLease, Refused, InScriptLoop, Go, Proceed, StalledInv
  <2>. QED
    BY <2>1, <2>2, <2>3, <2>4
<1>5. ASSUME NEW p \in Proc, CreateLease(p) PROVE LeaseInv'
  <2>1. LeaseTypeOK'
    BY <1>5 DEF CreateLease, TakeLease, Granted, Refused, InScriptLoop, Go, StalledInv
  <2>2. RunInv'
    BY <1>5 DEF CreateLease, TakeLease, Granted, Refused, InScriptLoop, Go, RunInv, LeaseOutlivesRun
  <2>3. LoopInv'
    BY <1>5 DEF CreateLease, TakeLease, Granted, Refused, InScriptLoop, Go, LoopInv, Rest, LeaseOutlivesRun
  <2>4. StalledInv'
    BY <1>5 DEF CreateLease, TakeLease, Granted, Refused, InScriptLoop, Go, StalledInv
  <2>. QED
    BY <2>1, <2>2, <2>3, <2>4
<1>6. ASSUME NEW p \in Proc, AcquireThrows(p) PROVE LeaseInv'
  <2>1. LeaseTypeOK'
    BY <1>6 DEF AcquireThrows, Matches, Refused, InScriptLoop, Go, StalledInv
  <2>2. RunInv'
    BY <1>6 DEF AcquireThrows, Matches, Refused, InScriptLoop, Go, RunInv, LeaseOutlivesRun
  <2>3. LoopInv'
    BY <1>6 DEF AcquireThrows, Matches, Refused, InScriptLoop, Go, LoopInv, Rest, LeaseOutlivesRun
  <2>4. StalledInv'
    BY <1>6 DEF AcquireThrows, Matches, Refused, InScriptLoop, Go, StalledInv
  <2>. QED
    BY <2>1, <2>2, <2>3, <2>4
<1>7. ASSUME NEW p \in Proc, RunDone(p) PROVE LeaseInv'
  <2>1. LeaseTypeOK'
    BY <1>7 DEF RunDone, Go, StalledInv
  <2>2. RunInv'
    BY <1>7 DEF RunDone, Go, RunInv, LeaseOutlivesRun
  <2>3. LoopInv'
    BY <1>7 DEF RunDone, Go, LoopInv, Rest, LeaseOutlivesRun
  <2>4. StalledInv'
    BY <1>7 DEF RunDone, Go, StalledInv
  <2>. QED
    BY <2>1, <2>2, <2>3, <2>4
<1>8. ASSUME NEW p \in Proc, Release(p) PROVE LeaseInv'
  <2>1. LeaseTypeOK'
    <3>1. LeaveLoop(p)
      BY <1>8 DEF Release
    <3>. QED
      BY <1>8, <3>1, LeaveLoopTypes DEF Release, Go
  <2>2. RunInv'
    BY <1>8 DEF Release, LeaveLoop, Go, RunInv, LeaseOutlivesRun
  <2>3. LoopInv'
    BY <1>8 DEF Release, LeaveLoop, Go, LoopInv, Rest, LeaseOutlivesRun
  <2>4. StalledInv'
    BY <1>8 DEF Release, LeaveLoop, Go, StalledInv
  <2>. QED
    BY <2>1, <2>2, <2>3, <2>4
<1>9. ASSUME NEW p \in Proc, ReleaseThrows(p) PROVE LeaseInv'
  <2>1. LeaseTypeOK'
    <3>1. LeaveLoop(p)
      BY <1>9 DEF ReleaseThrows
    <3>. QED
      BY <1>9, <3>1, LeaveLoopTypes DEF ReleaseThrows, Orphan, Go
  <2>2. RunInv'
    BY <1>9 DEF ReleaseThrows, Orphan, LeaveLoop, Go, RunInv, LeaseOutlivesRun
  <2>3. LoopInv'
    BY <1>9 DEF ReleaseThrows, Orphan, LeaveLoop, Go, LoopInv, Rest, LeaseOutlivesRun
  <2>4. StalledInv'
    BY <1>9 DEF ReleaseThrows, Orphan, LeaveLoop, Go, StalledInv
  <2>. QED
    BY <2>1, <2>2, <2>3, <2>4
<1>10. ASSUME NEW s \in Scripts, CountTables(s) PROVE LeaseInv'
  <2>1. LeaseTypeOK'
    BY <1>10 DEF CountTables, Go, StalledInv
  <2>2. RunInv'
    BY <1>10 DEF CountTables, Go, RunInv, LeaseOutlivesRun
  <2>3. LoopInv'
    BY <1>10 DEF CountTables, Go, LoopInv, Rest, LeaseOutlivesRun
  <2>4. StalledInv'
    BY <1>10 DEF CountTables, Go, StalledInv
  <2>. QED
    BY <2>1, <2>2, <2>3, <2>4
<1>11. ASSUME NEW s \in Scripts, CountTablesThrows(s) PROVE LeaseInv'
  <2>1. LeaseTypeOK'
    BY <1>11 DEF CountTablesThrows, Orphan, Go, StalledInv
  <2>2. RunInv'
    BY <1>11 DEF CountTablesThrows, Orphan, Go, RunInv, LeaseOutlivesRun
  <2>3. LoopInv'
    BY <1>11 DEF CountTablesThrows, Orphan, Go, LoopInv, Rest, LeaseOutlivesRun
  <2>4. StalledInv'
    BY <1>11 DEF CountTablesThrows, Orphan, Go, StalledInv
  <2>. QED
    BY <2>1, <2>2, <2>3, <2>4
<1>12. ASSUME NEW s \in Scripts, Iterate(s) PROVE LeaseInv'
  <2>1. LeaseTypeOK'
    BY <1>12 DEF Iterate, Go, StalledInv
  <2>2. RunInv'
    BY <1>12 DEF Iterate, Go, RunInv, LeaseOutlivesRun
  <2>3. LoopInv'
    BY <1>12 DEF Iterate, Go, LoopInv, Rest, LeaseOutlivesRun
  <2>4. StalledInv'
    BY <1>12 DEF Iterate, Go, StalledInv
  <2>. QED
    BY <2>1, <2>2, <2>3, <2>4
<1>13. ASSUME NEW s \in Scripts, Tally(s) PROVE LeaseInv'
  <2>1. LeaseTypeOK'
    BY <1>13 DEF Tally, Go, StalledInv
  <2>2. RunInv'
    BY <1>13 DEF Tally, Go, RunInv, LeaseOutlivesRun
  <2>3. LoopInv'
    BY <1>13 DEF Tally, Go, LoopInv, Rest, LeaseOutlivesRun
  <2>4. StalledInv'
    BY <1>13 DEF Tally, Go, StalledInv
  <2>. QED
    BY <2>1, <2>2, <2>3, <2>4
<1>14. ASSUME NEW s \in Scripts, TallyThrows(s) PROVE LeaseInv'
  <2>1. LeaseTypeOK'
    BY <1>14 DEF TallyThrows, Go, StalledInv
  <2>2. RunInv'
    BY <1>14 DEF TallyThrows, Go, RunInv, LeaseOutlivesRun
  <2>3. LoopInv'
    BY <1>14 DEF TallyThrows, Go, LoopInv, Rest, LeaseOutlivesRun
  <2>4. StalledInv'
    BY <1>14 DEF TallyThrows, Go, StalledInv
  <2>. QED
    BY <2>1, <2>2, <2>3, <2>4
<1>15. ASSUME NEW p \in Proc, Crash(p) PROVE LeaseInv'
  <2>1. LeaseTypeOK'
    <3>1. LeaveLoop(p)
      BY <1>15 DEF Crash
    <3>. QED
      BY <1>15, <3>1, LeaveLoopTypes DEF Crash, Orphan, Go
  <2>2. RunInv'
    BY <1>15 DEF Crash, Orphan, LeaveLoop, Go, RunInv, LeaseOutlivesRun
  <2>3. LoopInv'
    BY <1>15 DEF Crash, Orphan, LeaveLoop, Go, LoopInv, Rest, LeaseOutlivesRun
  <2>4. StalledInv'
    BY <1>15 DEF Crash, Orphan, LeaveLoop, Go, StalledInv
  <2>. QED
    BY <2>1, <2>2, <2>3, <2>4
<1>16. CASE UNCHANGED leaseVars
  BY <1>16 DEF leaseVars, RunInv, LoopInv, StalledInv
<1>. QED
  BY <1>1, <1>2, <1>3, <1>4, <1>5, <1>6, <1>7, <1>8, <1>9, <1>10, <1>11, <1>12, <1>13, <1>14,
       <1>15, <1>16
  DEF LeaseNext, Advance, FaultStep

(* So it holds at every step.                                              *)
LEMMA SpecKeepsLease == ASSUME LeaseOutlivesRun PROVE LeaseSpec => []LeaseInv
<1>1. LeaseInit => LeaseInv
  BY InitLease
<1>2. LeaseInv /\ [LeaseNext]_leaseVars => LeaseInv'
  BY NextKeepsLease
<1>. QED
  BY <1>1, <1>2, PTL DEF LeaseSpec

(* The types hold at every step of every process.                          *)
THEOREM LeaseType == ASSUME LeaseOutlivesRun PROVE LeaseSpec => []LeaseTypeOK
<1>1. LeaseInv => LeaseTypeOK
  BY DEF LeaseInv
<1>. QED
  BY <1>1, SpecKeepsLease, PTL

(* No two processes ingest at once.                                        *)
THEOREM IngestIsExclusive ==
  ASSUME LeaseOutlivesRun PROVE LeaseSpec => []IngestExclusive
<1>1. LeaseInv => IngestExclusive
  BY DEF LeaseInv, RunInv, IngestExclusive
<1>. QED
  BY <1>1, SpecKeepsLease, PTL

(* No other process runs while the script is in its loop, unless one of    *)
(* its renewals failed.                                                    *)
THEOREM BackfillIsShielded ==
  ASSUME LeaseOutlivesRun PROVE LeaseSpec => []BackfillShielded
<1>1. LeaseInv => BackfillShielded
  BY DEF LeaseInv, RunInv, LoopInv, BackfillShielded, Proc
<1>. QED
  BY <1>1, SpecKeepsLease, PTL

-----------------------------------------------------------------------------
(* Induction and recursion.                                                *)

(* A nonempty set of naturals has a least element.                         *)
LEMMA LeastNat ==
  ASSUME NEW S \in SUBSET Nat, S # {}
  PROVE  \E m \in S : \A n \in S : m <= n
<1>1. PICK m \in S : \A n \in S : ~ (<<n, m>> \in OpToRel(<, Nat))
  BY NatLessThanWellFounded, WFMin
<1>2. \A n, k \in Nat : n < k => <<n, k>> \in OpToRel(<, Nat)
  BY DEF OpToRel
<1>3. ASSUME NEW n \in S PROVE m <= n
  <2>1. ~ (n < m)
    BY <1>1, <1>2
  <2>. QED
    BY <2>1
<1>. QED
  BY <1>3

(* Induction over the naturals, the set standing for the predicate.        *)
LEMMA Induction ==
  ASSUME NEW S \in SUBSET Nat, 0 \in S, \A n \in S : n + 1 \in S
  PROVE  \A n \in Nat : n \in S
<1>1. SUFFICES ASSUME Nat \ S # {} PROVE FALSE
  OBVIOUS
<1>2. PICK m \in Nat \ S : \A n \in Nat \ S : m <= n
  BY <1>1, LeastNat
<1>3. m # 0 /\ m - 1 \in Nat
  OBVIOUS
<1>4. m - 1 \in S
  BY <1>2, <1>3
<1>. QED
  BY <1>3, <1>4

(* Induction up to a bound.                                                *)
LEMMA BoundedInduction ==
  ASSUME NEW N \in Nat, NEW S, 0 \in S, \A n \in 0 .. N - 1 : n \in S => n + 1 \in S
  PROVE  \A n \in 0 .. N : n \in S
<1> DEFINE T == {n \in Nat : n <= N => n \in S}
<1>1. 0 \in T
  OBVIOUS
<1>2. ASSUME NEW n \in T PROVE n + 1 \in T
  OBVIOUS
<1>3. T \in SUBSET Nat
  OBVIOUS
<1> HIDE DEF T
<1>4. \A n \in Nat : n \in T
  BY <1>1, <1>2, <1>3, Induction
<1>. QED
  BY <1>4 DEF T

(* A function given by its first value and by a step is there.             *)
Starts(base, step, n, g) == g[0] = base /\ \A i \in 0 .. n - 1 : g[i + 1] = step[<<i, g[i]>>]

(* Two starts of one recursion agree.                                      *)
LEMMA StartsOnce ==
  ASSUME NEW V, NEW base, NEW step, NEW n \in Nat,
         NEW g \in [0 .. n -> V], NEW h \in [0 .. n -> V],
         Starts(base, step, n, g), Starts(base, step, n, h)
  PROVE  g = h
<1> DEFINE S == {i \in Nat : g[i] = h[i]}
<1>1. 0 \in S
  BY DEF Starts
<1>2. ASSUME NEW i \in 0 .. n - 1, i \in S PROVE i + 1 \in S
  <2>1. g[i] = h[i]
    BY <1>2
  <2>2. g[i + 1] = step[<<i, g[i]>>] /\ h[i + 1] = step[<<i, h[i]>>]
    BY DEF Starts
  <2>. QED
    BY <2>1, <2>2
<1> HIDE DEF S
<1>3. \A i \in 0 .. n : i \in S
  BY <1>1, <1>2, BoundedInduction
<1>. QED
  BY <1>3 DEF S

(* A recursion can be started as far as one likes.                         *)
LEMMA StartsAlways ==
  ASSUME NEW V, NEW base \in V, NEW step \in [Nat \X V -> V], NEW n \in Nat
  PROVE  \E g \in [0 .. n -> V] : Starts(base, step, n, g)
<1> DEFINE S == {m \in Nat : \E g \in [0 .. m -> V] : Starts(base, step, m, g)}
<1>1. 0 \in S
  <2> DEFINE g == [i \in 0 .. 0 |-> base]
  <2>1. g \in [0 .. 0 -> V] /\ Starts(base, step, 0, g)
    BY DEF Starts
  <2>. QED
    BY <2>1
<1>2. ASSUME NEW m \in S PROVE m + 1 \in S
  <2>1. PICK g \in [0 .. m -> V] : Starts(base, step, m, g)
    BY <1>2
  <2> DEFINE h == [i \in 0 .. m + 1 |-> IF i = m + 1 THEN step[<<m, g[m]>>] ELSE g[i]]
  <2>2. g[m] \in V /\ step[<<m, g[m]>>] \in V
    OBVIOUS
  <2>3. h \in [0 .. m + 1 -> V]
    BY <2>2
  <2>4. h[0] = base
    BY <2>1 DEF Starts
  <2>5. ASSUME NEW i \in 0 .. m PROVE h[i + 1] = step[<<i, h[i]>>]
    <3>1. CASE i = m
      <4>1. h[m] = g[m] /\ h[m + 1] = step[<<m, g[m]>>]
        OBVIOUS
      <4>. QED
        BY <3>1, <4>1
    <3>2. CASE i # m
      <4>1. i \in 0 .. m - 1 /\ i + 1 \in 0 .. m /\ i \in 0 .. m
        BY <3>2
      <4>2. g[i + 1] = step[<<i, g[i]>>]
        BY <2>1, <4>1 DEF Starts
      <4>3. h[i + 1] = g[i + 1] /\ h[i] = g[i]
        BY <3>2, <4>1
      <4>. QED
        BY <4>2, <4>3
    <3>. QED
      BY <3>1, <3>2
  <2> HIDE DEF h
  <2>6. Starts(base, step, m + 1, h)
    BY <2>4, <2>5 DEF Starts
  <2>. QED
    BY <2>3, <2>6
<1>3. S \in SUBSET Nat
  OBVIOUS
<1> HIDE DEF S
<1>4. n \in S
  BY <1>1, <1>2, <1>3, Induction
<1>. QED
  BY <1>4 DEF S

IsRun(V, base, step, f) ==
  f \in [Nat -> V] /\ f[0] = base /\ \A n \in Nat : f[n + 1] = step[<<n, f[n]>>]

(* So it has a run: a recursive function of the model is well defined.     *)
LEMMA Recursion ==
  ASSUME NEW V, NEW base \in V, NEW step \in [Nat \X V -> V]
  PROVE  \E f : IsRun(V, base, step, f)
<1> DEFINE upTo(n) == CHOOSE g \in [0 .. n -> V] : Starts(base, step, n, g)
           f == [n \in Nat |-> upTo(n)[n]]
<1>1. ASSUME NEW n \in Nat PROVE upTo(n) \in [0 .. n -> V] /\ Starts(base, step, n, upTo(n))
  BY StartsAlways
<1> HIDE DEF upTo
<1>2. ASSUME NEW n \in Nat PROVE \A i \in 0 .. n : upTo(n + 1)[i] = upTo(n)[i]
  <2> DEFINE g == [i \in 0 .. n |-> upTo(n + 1)[i]]
  <2>1. n + 1 \in Nat /\ upTo(n + 1) \in [0 .. n + 1 -> V] /\ Starts(base, step, n + 1, upTo(n + 1))
    BY <1>1
  <2>2. g \in [0 .. n -> V] /\ Starts(base, step, n, g)
    BY <2>1 DEF Starts
  <2> HIDE DEF g
  <2>3. g = upTo(n)
    BY <1>1, <2>2, StartsOnce
  <2>. QED
    BY <2>3 DEF g
<1>3. f \in [Nat -> V] /\ f[0] = base
  BY <1>1 DEF Starts
<1>4. ASSUME NEW n \in Nat PROVE f[n + 1] = step[<<n, f[n]>>]
  <2>1. n + 1 \in Nat /\ Starts(base, step, n + 1, upTo(n + 1))
    BY <1>1
  <2>2. upTo(n + 1)[n + 1] = step[<<n, upTo(n + 1)[n]>>]
    BY <2>1 DEF Starts
  <2>. QED
    BY <1>2, <2>2
<1> HIDE DEF f
<1>5. IsRun(V, base, step, f)
  BY <1>3, <1>4 DEF IsRun
<1>. QED
  BY <1>5

-----------------------------------------------------------------------------
(* FlattenSeq: every place of every part has a place of its own.           *)

(* What concatenation keeps of its two parts.                              *)
LEMMA ConcatFacts ==
  ASSUME NEW U, NEW s \in Seq(U), NEW t \in Seq(U)
  PROVE  /\ s \o t \in Seq(U) /\ Len(s) \in Nat /\ Len(t) \in Nat
         /\ Len(s \o t) = Len(s) + Len(t)
         /\ \A k \in 1 .. Len(s) : (s \o t)[k] = s[k]
         /\ \A k \in 1 .. Len(t) : (s \o t)[Len(s) + k] = t[k]
  OBVIOUS

Flattens(ss, f) == f = [i \in 1 .. Len(ss) |-> IF i = 1 THEN ss[i] ELSE f[i - 1] \o ss[i]]

IsFlat(ss, N, f) == f[1] = ss[1] /\ \A i \in 1 .. N - 1 : f[i + 1] = f[i] \o ss[i + 1]

(* The recursion that FlattenSeq is written with has a solution,           *)
LEMMA FlatExists ==
  ASSUME NEW U, NEW N \in Nat \ {0}, NEW ss \in [1 .. N -> Seq(U)]
  PROVE  \E f \in [1 .. N -> Seq(U)] : IsFlat(ss, N, f)
<1> DEFINE step == [x \in Nat \X Seq(U) |-> IF x[1] + 2 \in 1 .. N THEN x[2] \o ss[x[1] + 2] ELSE x[2]]
<1>2. step \in [Nat \X Seq(U) -> Seq(U)]
  <2>1. ASSUME NEW s \in Seq(U), NEW i \in 1 .. N PROVE s \o ss[i] \in Seq(U)
    <3>1. ss[i] \in Seq(U)
      OBVIOUS
    <3>. QED
      BY <3>1, ConcatFacts
  <2>2. ASSUME NEW x \in Nat \X Seq(U)
        PROVE  (IF x[1] + 2 \in 1 .. N THEN x[2] \o ss[x[1] + 2] ELSE x[2]) \in Seq(U)
    <3>1. x[2] \in Seq(U)
      OBVIOUS
    <3>. QED
      BY <2>1, <3>1
  <2>. QED
    BY <2>2
<1>3. 1 \in 1 .. N /\ ss[1] \in Seq(U)
  OBVIOUS
<1>4. \A n \in Nat, s \in Seq(U) :
        step[<<n, s>>] = IF n + 2 \in 1 .. N THEN s \o ss[n + 2] ELSE s
  OBVIOUS
<1> HIDE DEF step
<1>a. PICK h : IsRun(Seq(U), ss[1], step, h)
  BY <1>2, <1>3, Recursion
<1>5. h \in [Nat -> Seq(U)] /\ h[0] = ss[1] /\ \A n \in Nat : h[n + 1] = step[<<n, h[n]>>]
  BY <1>a DEF IsRun
<1> DEFINE f == [i \in 1 .. N |-> h[i - 1]]
<1>6. f \in [1 .. N -> Seq(U)]
  <2>1. \A i \in 1 .. N : i - 1 \in Nat
    OBVIOUS
  <2>2. \A i \in 1 .. N : h[i - 1] \in Seq(U)
    BY <1>5, <2>1, Zenon
  <2>. QED
    BY <2>2
<1>8. ASSUME NEW i \in 1 .. N - 1 PROVE f[i + 1] = f[i] \o ss[i + 1]
  <2>1. i - 1 \in Nat /\ i + 1 \in 1 .. N /\ i \in 1 .. N /\ (i - 1) + 2 = i + 1 /\ (i - 1) + 1 = i
        /\ (i + 1) - 1 = i
    OBVIOUS
  <2>2. h[i - 1] \in Seq(U)
    BY <1>5, <2>1, Zenon
  <2>3. h[(i - 1) + 1] = step[<<i - 1, h[i - 1]>>]
    BY <1>5, <2>1, Zenon
  <2>4. step[<<i - 1, h[i - 1]>>] = h[i - 1] \o ss[i + 1]
    BY <1>4, <2>1, <2>2
  <2>5. f[i] = h[i - 1] /\ f[i + 1] = h[i]
    BY <2>1, Zenon
  <2>. QED
    BY <2>1, <2>3, <2>4, <2>5
<1>9. f[1] = ss[1]
  BY <1>3, <1>5
<1>. QED
  BY <1>6, <1>8, <1>9 DEF IsFlat

(* and FlattenSeq is its last value.                                       *)
LEMMA FlattenDef ==
  ASSUME NEW U, NEW N \in Nat \ {0}, NEW ss \in [1 .. N -> Seq(U)], Len(ss) = N
  PROVE  \E f \in [1 .. N -> Seq(U)] : IsFlat(ss, N, f) /\ FlattenSeq(ss) = f[N]
<1>1. PICK f \in [1 .. N -> Seq(U)] : IsFlat(ss, N, f)
  BY FlatExists
<1>2. Flattens(ss, f)
  <2>2. ASSUME NEW i \in 1 .. N PROVE f[i] = IF i = 1 THEN ss[i] ELSE f[i - 1] \o ss[i]
    <3>1. CASE i = 1
      BY <1>1, <3>1 DEF IsFlat
    <3>2. CASE i # 1
      <4>1. i - 1 \in 1 .. N - 1 /\ (i - 1) + 1 = i
        BY <3>2
      <4>2. f[(i - 1) + 1] = f[i - 1] \o ss[(i - 1) + 1]
        BY <1>1, <4>1 DEF IsFlat
      <4>. QED
        BY <3>2, <4>1, <4>2
    <3>. QED
      BY <3>1, <3>2
  <2>3. f = [i \in 1 .. N |-> f[i]]
    OBVIOUS
  <2>. QED
    BY <2>2, <2>3 DEF Flattens
<1> DEFINE g == CHOOSE x : Flattens(ss, x)
<1>3. Flattens(ss, g)
  BY <1>2
<1>4. FlattenSeq(ss) = g[N]
  BY DEF FlattenSeq, Flattens
<1> HIDE DEF g
<1>5. /\ g = [i \in 1 .. N |-> g[i]]
      /\ \A i \in 1 .. N : g[i] = IF i = 1 THEN ss[i] ELSE g[i - 1] \o ss[i]
  <2>1. g = [i \in 1 .. N |-> IF i = 1 THEN ss[i] ELSE g[i - 1] \o ss[i]]
    BY <1>3 DEF Flattens
  <2>. QED
    BY <2>1, Zenon
<1> DEFINE S == {i \in Nat : i \in 1 .. N => g[i] = f[i]}
<1>6. 0 \in S
  OBVIOUS
<1>7. ASSUME NEW i \in S PROVE i + 1 \in S
  <2>1. SUFFICES ASSUME i + 1 \in 1 .. N PROVE g[i + 1] = f[i + 1]
    OBVIOUS
  <2>2. CASE i = 0
    <3>1. g[1] = ss[1]
      <4>1. 1 \in 1 .. N
        OBVIOUS
      <4>. QED
        BY <1>5, <4>1, Zenon
    <3>2. f[1] = ss[1]
      BY <1>1 DEF IsFlat
    <3>. QED
      BY <2>2, <3>1, <3>2
  <2>3. CASE i # 0
    <3>1. i \in 1 .. N - 1 /\ i + 1 \in 1 .. N /\ (i + 1) - 1 = i /\ i + 1 # 1 /\ i \in 1 .. N
      BY <2>1, <2>3
    <3>2. g[i] = f[i]
      BY <1>7, <3>1
    <3>3. g[i + 1] = g[(i + 1) - 1] \o ss[i + 1]
      BY <1>5, <3>1
    <3>4. f[i + 1] = f[i] \o ss[i + 1]
      BY <1>1, <3>1 DEF IsFlat
    <3>. QED
      BY <3>1, <3>2, <3>3, <3>4
  <2>. QED
    BY <2>2, <2>3
<1>8. S \in SUBSET Nat
  OBVIOUS
<1> HIDE DEF S
<1>9. N \in S
  BY <1>6, <1>7, <1>8, Induction
<1>10. f[N] = g[N]
  BY <1>9 DEF S
<1>. QED
  BY <1>1, <1>4, <1>10

(* at: where the flat sequence holds each place of each of the first n.    *)
Spread(ss, n, flat, at) ==
  /\ \A a \in 1 .. n : \A b \in 1 .. Len(ss[a]) :
       /\ at[a][b] \in 1 .. Len(flat) /\ flat[at[a][b]] = ss[a][b]
       /\ \A c \in 1 .. n : \A d \in 1 .. Len(ss[c]) : at[a][b] = at[c][d] => a = c /\ b = d
  /\ \A x \in 1 .. Len(flat) : \E a \in 1 .. n : \E b \in 1 .. Len(ss[a]) : at[a][b] = x

(* Another part is put behind the parts before it.                         *)
LEMMA SpreadStep ==
  ASSUME NEW U, NEW n \in Nat, NEW ss, NEW flat \in Seq(U), NEW more \in Seq(U), NEW at,
         ss[n + 1] = more, \A a \in 1 .. n : ss[a] \in Seq(U), Spread(ss, n, flat, at)
  PROVE  \E to : Spread(ss, n + 1, flat \o more, to)
<1> DEFINE to == [a \in 1 .. n + 1 |-> [b \in 1 .. Len(ss[a]) |->
                    IF a = n + 1 THEN Len(flat) + b ELSE at[a][b]]]
<1>1. /\ Len(flat) \in Nat /\ Len(more) \in Nat /\ Len(flat \o more) = Len(flat) + Len(more)
      /\ \A k \in 1 .. Len(flat) : (flat \o more)[k] = flat[k]
      /\ \A k \in 1 .. Len(more) : (flat \o more)[Len(flat) + k] = more[k]
  BY ConcatFacts
<1>2. \A a \in 1 .. n + 1 : \A b \in 1 .. Len(ss[a]) :
        to[a][b] = IF a = n + 1 THEN Len(flat) + b ELSE at[a][b]
  BY Zenon
<1> HIDE DEF to
<1> DEFINE whole == flat \o more
           K == Len(flat)
<1> HIDE DEF whole, K
<1>3. ASSUME NEW a \in 1 .. n, NEW b \in 1 .. Len(ss[a])
      PROVE  /\ to[a][b] = at[a][b] /\ to[a][b] \in 1 .. K
             /\ to[a][b] \in 1 .. Len(whole) /\ whole[to[a][b]] = ss[a][b]
  <2>1. a \in 1 .. n + 1 /\ a # n + 1
    OBVIOUS
  <2>2. to[a][b] = at[a][b]
    BY <1>2, <2>1
  <2>3. at[a][b] \in 1 .. K /\ flat[at[a][b]] = ss[a][b]
    BY DEF Spread, K
  <2>4. 1 .. K \subseteq 1 .. Len(whole) /\ whole[at[a][b]] = flat[at[a][b]]
    BY <1>1, <2>3 DEF whole, K
  <2>. QED
    BY <2>2, <2>3, <2>4
<1>4. ASSUME NEW b \in 1 .. Len(more)
      PROVE  /\ to[n + 1][b] = K + b /\ ~ (to[n + 1][b] \in 1 .. K)
             /\ to[n + 1][b] \in 1 .. Len(whole) /\ whole[to[n + 1][b]] = more[b]
  <2>1. to[n + 1][b] = K + b
    BY <1>2 DEF K
  <2>2. K + b \in 1 .. Len(whole) /\ ~ (K + b \in 1 .. K)
    BY <1>1 DEF whole, K
  <2>3. whole[K + b] = more[b]
    BY <1>1 DEF whole, K
  <2>. QED
    BY <2>1, <2>2, <2>3
<1>5. ASSUME NEW a \in 1 .. n + 1, NEW b \in 1 .. Len(ss[a])
      PROVE  /\ to[a][b] \in 1 .. Len(whole) /\ whole[to[a][b]] = ss[a][b]
             /\ \A c \in 1 .. n + 1 : \A d \in 1 .. Len(ss[c]) :
                  to[a][b] = to[c][d] => a = c /\ b = d
  <2>1. a \in 1 .. n \/ a = n + 1
    OBVIOUS
  <2>2. to[a][b] \in 1 .. Len(whole) /\ whole[to[a][b]] = ss[a][b]
    BY <1>3, <1>4, <2>1
  <2>3. ASSUME NEW c \in 1 .. n + 1, NEW d \in 1 .. Len(ss[c]), to[a][b] = to[c][d]
        PROVE  a = c /\ b = d
    <3>1. c \in 1 .. n \/ c = n + 1
      OBVIOUS
    <3>2. CASE a \in 1 .. n /\ c \in 1 .. n
      <4>1. at[a][b] = at[c][d]
        BY <1>3, <2>3, <3>2
      <4>. QED
        BY <3>2, <4>1 DEF Spread
    <3>3. CASE a = n + 1 /\ c = n + 1
      <4>1. b \in 1 .. Len(more) /\ d \in 1 .. Len(more)
        BY <3>3
      <4>2. K + b = K + d
        BY <1>4, <2>3, <3>3, <4>1
      <4>3. K \in Nat
        BY <1>1 DEF K
      <4>. QED
        BY <3>3, <4>1, <4>2, <4>3
    <3>4. CASE a \in 1 .. n /\ c = n + 1
      <4>1. d \in 1 .. Len(more)
        BY <3>4
      <4>2. to[a][b] \in 1 .. K
        BY <1>3, <3>4
      <4>3. ~ (to[n + 1][d] \in 1 .. K)
        BY <1>4, <4>1
      <4>. QED
        BY <2>3, <3>4, <4>2, <4>3
    <3>5. CASE a = n + 1 /\ c \in 1 .. n
      <4>1. b \in 1 .. Len(more)
        BY <3>5
      <4>2. to[c][d] \in 1 .. K
        BY <1>3, <3>5
      <4>3. ~ (to[n + 1][b] \in 1 .. K)
        BY <1>4, <4>1
      <4>. QED
        BY <2>3, <3>5, <4>2, <4>3
    <3>. QED
      BY <2>1, <3>1, <3>2, <3>3, <3>4, <3>5
  <2>. QED
    BY <2>2, <2>3
<1>6. ASSUME NEW x \in 1 .. Len(whole)
      PROVE  \E a \in 1 .. n + 1 : \E b \in 1 .. Len(ss[a]) : to[a][b] = x
  <2>1. K \in Nat /\ Len(more) \in Nat /\ Len(whole) = K + Len(more)
    BY <1>1 DEF K, whole
  <2>2. CASE x \in 1 .. K
    <3>1. PICK a \in 1 .. n : \E b \in 1 .. Len(ss[a]) : at[a][b] = x
      BY <2>2 DEF Spread, K
    <3>2. PICK b \in 1 .. Len(ss[a]) : at[a][b] = x
      BY <3>1
    <3>3. a \in 1 .. n + 1 /\ to[a][b] = x
      BY <1>3, <3>2
    <3>. QED
      BY <3>3
  <2>3. CASE x \notin 1 .. K
    <3>1. x - K \in 1 .. Len(more) /\ K + (x - K) = x /\ n + 1 \in 1 .. n + 1
      BY <2>1, <2>3
    <3>2. to[n + 1][x - K] = x
      BY <1>4, <3>1
    <3>. QED
      BY <3>1, <3>2
  <2>. QED
    BY <2>2, <2>3
<1>7. Spread(ss, n + 1, whole, to)
  BY <1>5, <1>6 DEF Spread
<1>. QED
  BY <1>7 DEF whole

(* A flattened sequence holds every place of every part, each once, and    *)
(* nothing else.                                                           *)
LEMMA FlattenSpread ==
  ASSUME NEW U, NEW N \in Nat \ {0}, NEW ss \in [1 .. N -> Seq(U)], Len(ss) = N
  PROVE  FlattenSeq(ss) \in Seq(U) /\ \E at : Spread(ss, N, FlattenSeq(ss), at)
<1>1. PICK f \in [1 .. N -> Seq(U)] : IsFlat(ss, N, f) /\ FlattenSeq(ss) = f[N]
  BY FlattenDef
<1> DEFINE S == {n \in Nat : n + 1 \in 1 .. N => \E at : Spread(ss, n + 1, f[n + 1], at)}
<1>2. \A a \in 1 .. N : ss[a] \in Seq(U) /\ f[a] \in Seq(U)
  OBVIOUS
<1>3. 0 \in S
  <2> DEFINE at == [a \in {1} |-> [b \in 1 .. Len(ss[1]) |-> b]]
  <2>1. f[1] = ss[1] /\ ss[1] \in Seq(U)
    BY <1>1, <1>2 DEF IsFlat
  <2>2. \A b \in 1 .. Len(ss[1]) : at[1][b] = b
    OBVIOUS
  <2> HIDE DEF at
  <2>3. \A a \in 1 .. 1 : a = 1
    OBVIOUS
  <2>a. \A x \in 1 .. Len(f[1]) : \E a \in 1 .. 1 : \E b \in 1 .. Len(ss[a]) : at[a][b] = x
    <3> SUFFICES ASSUME NEW x \in 1 .. Len(f[1])
                 PROVE  \E a \in 1 .. 1 : \E b \in 1 .. Len(ss[a]) : at[a][b] = x
      OBVIOUS
    <3>1. 1 \in 1 .. 1 /\ x \in 1 .. Len(ss[1]) /\ at[1][x] = x
      BY <2>1, <2>2
    <3>. QED
      BY <3>1
  <2>b. \A a \in 1 .. 1 : \A b \in 1 .. Len(ss[a]) :
          /\ at[a][b] \in 1 .. Len(f[1]) /\ f[1][at[a][b]] = ss[a][b]
          /\ \A c \in 1 .. 1 : \A d \in 1 .. Len(ss[c]) : at[a][b] = at[c][d] => a = c /\ b = d
    BY <2>1, <2>2, <2>3
  <2>4. Spread(ss, 1, f[1], at)
    BY <2>a, <2>b DEF Spread
  <2>5. 0 + 1 = 1
    OBVIOUS
  <2>. QED
    BY <2>4, <2>5
<1>4. ASSUME NEW n \in S PROVE n + 1 \in S
  <2>1. SUFFICES ASSUME (n + 1) + 1 \in 1 .. N
                 PROVE  \E at : Spread(ss, (n + 1) + 1, f[(n + 1) + 1], at)
    OBVIOUS
  <2>2. n + 1 \in 1 .. N - 1 /\ n + 1 \in 1 .. N /\ n + 1 \in Nat /\ 1 .. n + 1 \subseteq 1 .. N
    BY <2>1
  <2>3. PICK at : Spread(ss, n + 1, f[n + 1], at)
    BY <2>2
  <2>4. f[(n + 1) + 1] = f[n + 1] \o ss[(n + 1) + 1]
    BY <1>1, <2>2 DEF IsFlat
  <2>5. ss[(n + 1) + 1] \in Seq(U) /\ f[n + 1] \in Seq(U)
    BY <1>2, <2>1, <2>2
  <2>6. \A a \in 1 .. n + 1 : ss[a] \in Seq(U)
    BY <1>2, <2>2
  <2> DEFINE m == n + 1
  <2> HIDE DEF m
  <2>7. \E to : Spread(ss, m + 1, f[m] \o ss[m + 1], to)
    BY <2>2, <2>3, <2>5, <2>6, SpreadStep DEF m
  <2>. QED
    BY <2>4, <2>7 DEF m
<1>5. S \in SUBSET Nat
  OBVIOUS
<1>6. N - 1 \in Nat /\ (N - 1) + 1 = N /\ N \in 1 .. N
  OBVIOUS
<1> HIDE DEF S
<1>7. N - 1 \in S
  BY <1>3, <1>4, <1>5, <1>6, Induction
<1>. QED
  BY <1>1, <1>2, <1>6, <1>7 DEF S

(* What a text prints as a sequence is one.                                *)
LEMMA SequenceOf ==
  ASSUME NEW s, IsSequence(s)
  PROVE  Len(s) \in Nat /\ DOMAIN s = 1 .. Len(s) /\ (s # <<>> => Len(s) # 0)
         /\ \A k \in 1 .. Len(s) : s[k] \in ToSet(s)
<1> DEFINE V == ToSet(s)
<1>1. s \in Seq(V)
  BY DEF IsSequence
<1>2. \A k \in DOMAIN s : s[k] \in V
  BY DEF ToSet
<1> HIDE DEF V
<1>3. Len(s) \in Nat /\ DOMAIN s = 1 .. Len(s) /\ (s # <<>> => Len(s) # 0)
  BY <1>1
<1>. QED
  BY <1>2, <1>3 DEF V

Said(text) == {LineAt(text, p) : p \in Positions(text)}

(* Every annexe, table and row is a position of the text,                  *)
LEMMA PositionOf ==
  ASSUME NEW text, NEW a \in DOMAIN text.annexes, NEW b \in DOMAIN text.annexes[a].tables,
         NEW c \in DOMAIN text.annexes[a].tables[b].rows
  PROVE  <<a, b, c>> \in Positions(text)
  BY DEF Positions

(* and every position is one of them.                                      *)
LEMMA PositionIs ==
  ASSUME NEW text, NEW p \in Positions(text)
  PROVE  \E a \in DOMAIN text.annexes : \E b \in DOMAIN text.annexes[a].tables :
           \E c \in DOMAIN text.annexes[a].tables[b].rows : p = <<a, b, c>>
  BY DEF Positions

(* The lines of a table, row by row.                                       *)
LEMMA TableLines ==
  ASSUME NEW text, NEW a \in DOMAIN text.annexes, NEW b \in DOMAIN text.annexes[a].tables,
         IsSequence(text.annexes[a].tables[b].rows)
  PROVE  LET lines == LinesOf(text.annexes[a], text.annexes[a].tables[b])
         IN /\ lines \in Seq(Said(text)) /\ Len(lines) = Len(text.annexes[a].tables[b].rows)
            /\ \A c \in 1 .. Len(lines) :
                 lines[c] = LineAt(text, <<a, b, c>>)
                 /\ c \in DOMAIN text.annexes[a].tables[b].rows
<1> DEFINE rows == text.annexes[a].tables[b].rows
           lines == LinesOf(text.annexes[a], text.annexes[a].tables[b])
           K == Len(rows)
<1>1. K \in Nat /\ DOMAIN rows = 1 .. K
  BY SequenceOf
<1>2. \A c \in 1 .. K : <<a, b, c>> \in Positions(text)
  BY <1>1, PositionOf
<1>3. \A c \in 1 .. K : LineAt(text, <<a, b, c>>) \in Said(text)
  BY <1>2 DEF Said
<1>4. lines = [c \in 1 .. K |-> LineAt(text, <<a, b, c>>)]
  BY <1>1 DEF LinesOf, LineAt
<1> HIDE DEF K, lines
<1> DEFINE U == Said(text)
           said(c) == LineAt(text, <<a, b, c>>)
<1> HIDE DEF U, said
<1>5. lines = [c \in 1 .. K |-> said(c)] /\ \A c \in 1 .. K : said(c) \in U
  BY <1>3, <1>4 DEF U, said
<1>6. lines \in Seq(U) /\ Len(lines) = K
  BY <1>1, <1>5
<1>7. \A c \in 1 .. K : lines[c] = LineAt(text, <<a, b, c>>)
  BY <1>4
<1>8. \A c \in 1 .. K : c \in DOMAIN rows
  BY <1>1
<1>. QED
  BY <1>6, <1>7, <1>8 DEF U, K, lines

(* at: where the lines of an annexe have the line of each cell row.        *)
PlacesOf(text, a, lines, at) ==
  /\ \A b \in DOMAIN text.annexes[a].tables : \A c \in DOMAIN text.annexes[a].tables[b].rows :
       /\ at[b][c] \in 1 .. Len(lines) /\ lines[at[b][c]] = LineAt(text, <<a, b, c>>)
       /\ \A d \in DOMAIN text.annexes[a].tables : \A e \in DOMAIN text.annexes[a].tables[d].rows :
            at[b][c] = at[d][e] => b = d /\ c = e
  /\ \A x \in 1 .. Len(lines) :
       \E b \in DOMAIN text.annexes[a].tables : \E c \in DOMAIN text.annexes[a].tables[b].rows :
         at[b][c] = x

(* The lines of an annexe: every row of its tables, each once.             *)
LEMMA AnnexePlaces ==
  ASSUME NEW text, NEW a \in DOMAIN text.annexes,
         IsSequence(text.annexes[a].tables), text.annexes[a].tables # <<>>,
         \A table \in ToSet(text.annexes[a].tables) : IsSequence(table.rows)
  PROVE  /\ AnnexeLines(text.annexes[a]) \in Seq(Said(text))
         /\ \E at : PlacesOf(text, a, AnnexeLines(text.annexes[a]), at)
<1> DEFINE tables == text.annexes[a].tables
           N == Len(tables)
           U == Said(text)
           ss == [b \in DOMAIN tables |-> LinesOf(text.annexes[a], tables[b])]
<1>1. N \in Nat \ {0} /\ DOMAIN tables = 1 .. N /\ \A b \in 1 .. N : tables[b] \in ToSet(tables)
  BY SequenceOf
<1>2. AnnexeLines(text.annexes[a]) = FlattenSeq(ss)
  BY DEF AnnexeLines
<1>3. \A b \in 1 .. N : ss[b] = LinesOf(text.annexes[a], tables[b])
  BY <1>1
<1>4. ss = [b \in 1 .. N |-> ss[b]]
  BY <1>1
<1> HIDE DEF ss, N
<1>5. ASSUME NEW b \in 1 .. N
      PROVE  /\ ss[b] \in Seq(U) /\ DOMAIN tables[b].rows = 1 .. Len(ss[b])
             /\ \A c \in 1 .. Len(ss[b]) : ss[b][c] = LineAt(text, <<a, b, c>>)
  <2>1. b \in DOMAIN tables /\ IsSequence(tables[b].rows)
    BY <1>1
  <2>2. ss[b] = LinesOf(text.annexes[a], text.annexes[a].tables[b])
    BY <1>3
  <2>3. DOMAIN tables[b].rows = 1 .. Len(tables[b].rows)
    BY <2>1, SequenceOf
  <2>4. /\ ss[b] \in Seq(U) /\ Len(ss[b]) = Len(tables[b].rows)
        /\ \A c \in 1 .. Len(ss[b]) : ss[b][c] = LineAt(text, <<a, b, c>>)
    <3> DEFINE lines == LinesOf(text.annexes[a], text.annexes[a].tables[b])
    <3>1. /\ lines \in Seq(U) /\ Len(lines) = Len(tables[b].rows)
          /\ \A c \in 1 .. Len(lines) : lines[c] = LineAt(text, <<a, b, c>>)
      BY <2>1, TableLines
    <3> HIDE DEF lines
    <3>2. ss[b] = lines
      BY <2>2 DEF lines
    <3>. QED
      BY <3>1, <3>2
  <2>. QED
    BY <2>3, <2>4
<1> HIDE DEF U
<1>6. ss \in [1 .. N -> Seq(U)] /\ Len(ss) = N
  BY <1>1, <1>4, <1>5
<1>7. FlattenSeq(ss) \in Seq(U) /\ \E at : Spread(ss, N, FlattenSeq(ss), at)
  BY <1>1, <1>6, FlattenSpread
<1>8. PICK at : Spread(ss, N, FlattenSeq(ss), at)
  BY <1>7
<1> DEFINE lines == FlattenSeq(ss)
<1> HIDE DEF lines
<1>9. \A b \in 1 .. N : \A c \in DOMAIN tables[b].rows :
        /\ at[b][c] \in 1 .. Len(lines) /\ lines[at[b][c]] = LineAt(text, <<a, b, c>>)
        /\ \A d \in 1 .. N : \A e \in DOMAIN tables[d].rows : at[b][c] = at[d][e] => b = d /\ c = e
  <2>1. \A b \in 1 .. N : \A c \in 1 .. Len(ss[b]) :
          /\ at[b][c] \in 1 .. Len(lines) /\ lines[at[b][c]] = ss[b][c]
          /\ \A d \in 1 .. N : \A e \in 1 .. Len(ss[d]) : at[b][c] = at[d][e] => b = d /\ c = e
    BY <1>8 DEF Spread, lines
  <2>2. \A b \in 1 .. N : DOMAIN tables[b].rows = 1 .. Len(ss[b])
    BY <1>5
  <2>3. \A b \in 1 .. N : \A c \in 1 .. Len(ss[b]) : ss[b][c] = LineAt(text, <<a, b, c>>)
    BY <1>5
  <2>. QED
    <3> SUFFICES ASSUME NEW b \in 1 .. N, NEW c \in DOMAIN tables[b].rows
                 PROVE  /\ at[b][c] \in 1 .. Len(lines) /\ lines[at[b][c]] = LineAt(text, <<a, b, c>>)
                        /\ \A d \in 1 .. N : \A e \in DOMAIN tables[d].rows :
                             at[b][c] = at[d][e] => b = d /\ c = e
      OBVIOUS
    <3>1. c \in 1 .. Len(ss[b])
      BY <2>2
    <3>2. at[b][c] \in 1 .. Len(lines) /\ lines[at[b][c]] = LineAt(text, <<a, b, c>>)
      <4>1. at[b][c] \in 1 .. Len(lines) /\ lines[at[b][c]] = ss[b][c]
        BY <2>1, <3>1
      <4>2. ss[b][c] = LineAt(text, <<a, b, c>>)
        BY <2>3, <3>1
      <4>. QED
        BY <4>1, <4>2
    <3>3. ASSUME NEW d \in 1 .. N, NEW e \in DOMAIN tables[d].rows, at[b][c] = at[d][e]
          PROVE  b = d /\ c = e
      <4>1. e \in 1 .. Len(ss[d])
        BY <2>2
      <4>2. \A j \in 1 .. N : \A l \in 1 .. Len(ss[j]) : at[b][c] = at[j][l] => b = j /\ c = l
        BY <2>1, <3>1, Zenon
      <4>. QED
        BY <3>3, <4>1, <4>2
    <3>. QED
      BY <3>2, <3>3, Zenon
<1>10. ASSUME NEW x \in 1 .. Len(lines)
       PROVE  \E b \in 1 .. N : \E c \in DOMAIN tables[b].rows : at[b][c] = x
  <2>1. PICK b \in 1 .. N : \E c \in 1 .. Len(ss[b]) : at[b][c] = x
    BY <1>8 DEF Spread, lines
  <2>2. DOMAIN tables[b].rows = 1 .. Len(ss[b])
    BY <1>5
  <2>. QED
    BY <2>1, <2>2
<1>11. PlacesOf(text, a, lines, at)
  <2>1. \A b \in DOMAIN tables : \A c \in DOMAIN tables[b].rows :
          /\ at[b][c] \in 1 .. Len(lines) /\ lines[at[b][c]] = LineAt(text, <<a, b, c>>)
          /\ \A d \in DOMAIN tables : \A e \in DOMAIN tables[d].rows : at[b][c] = at[d][e] => b = d /\ c = e
    <3> SUFFICES ASSUME NEW b \in DOMAIN tables, NEW c \in DOMAIN tables[b].rows
                 PROVE  /\ at[b][c] \in 1 .. Len(lines) /\ lines[at[b][c]] = LineAt(text, <<a, b, c>>)
                        /\ \A d \in DOMAIN tables : \A e \in DOMAIN tables[d].rows :
                             at[b][c] = at[d][e] => b = d /\ c = e
      OBVIOUS
    <3>1. b \in 1 .. N /\ \A d \in DOMAIN tables : d \in 1 .. N
      BY <1>1
    <3>2. /\ at[b][c] \in 1 .. Len(lines) /\ lines[at[b][c]] = LineAt(text, <<a, b, c>>)
          /\ \A d \in 1 .. N : \A e \in DOMAIN tables[d].rows : at[b][c] = at[d][e] => b = d /\ c = e
      BY <1>9, <3>1
    <3>. QED
      BY <3>1, <3>2
  <2>2. \A x \in 1 .. Len(lines) : \E b \in DOMAIN tables : \E c \in DOMAIN tables[b].rows : at[b][c] = x
    BY <1>1, <1>10
  <2>. QED
    BY <2>1, <2>2 DEF PlacesOf
<1>. QED
  BY <1>2, <1>7, <1>11 DEF U, lines

(* EntriesOf is about the arretes that could be read.                      *)
LEMMA EntriesDef ==
  ASSUME NEW t \in DOMAIN EntriesOf
  PROVE  t \in Text /\ print[t].isArrete /\ Readable(print[t]) /\ EntriesOf[t] = Entries(print[t])
  BY DEF EntriesOf

(* The lines parsed from a text are those of its positions, each once: no  *)
(* table, annexe or row is lost or read twice.                             *)
LEMMA EntriesPlaces ==
  ASSUME NEW t \in DOMAIN EntriesOf
  PROVE  /\ EntriesOf[t] \in Seq(Said(print[t]))
         /\ \E at \in [Positions(print[t]) -> 1 .. Len(EntriesOf[t])] :
              /\ \A p \in Positions(print[t]) : EntriesOf[t][at[p]] = LineAt(print[t], p)
              /\ \A p, q \in Positions(print[t]) : at[p] = at[q] => p = q
              /\ \A x \in 1 .. Len(EntriesOf[t]) : \E p \in Positions(print[t]) : at[p] = x
<1> DEFINE text == print[t]
           annexes == text.annexes
           N == Len(annexes)
           ss == [a \in DOMAIN annexes |-> AnnexeLines(annexes[a])]
<1>1. /\ IsSequence(annexes) /\ annexes # <<>>
      /\ \A annexe \in ToSet(annexes) :
           /\ IsSequence(annexe.tables) /\ annexe.tables # <<>>
           /\ \A table \in ToSet(annexe.tables) : IsSequence(table.rows)
  BY EntriesDef, TextAssumption DEF Readable, AnnexeReadable
<1>2. EntriesOf[t] = FlattenSeq(ss)
  BY EntriesDef DEF Entries
<1> HIDE DEF text
<1>3. N \in Nat \ {0} /\ DOMAIN annexes = 1 .. N /\ \A a \in 1 .. N : annexes[a] \in ToSet(annexes)
  BY <1>1, SequenceOf
<1>4. \A a \in 1 .. N : ss[a] = AnnexeLines(annexes[a])
  BY <1>3
<1>5. ss = [a \in 1 .. N |-> ss[a]]
  BY <1>3
<1> DEFINE Places(a, at) == PlacesOf(text, a, ss[a], at)
<1> HIDE DEF ss, N
<1>6. ASSUME NEW a \in 1 .. N
      PROVE  ss[a] \in Seq(Said(text)) /\ \E at : Places(a, at)
  <2>1. a \in DOMAIN text.annexes /\ annexes[a] \in ToSet(annexes)
    BY <1>3
  <2>2. ss[a] = AnnexeLines(text.annexes[a])
    BY <1>4
  <2>. QED
    BY <1>1, <2>1, <2>2, AnnexePlaces
<1> DEFINE U == Said(text)
<1> HIDE DEF U
<1>7. ss \in [1 .. N -> Seq(U)] /\ Len(ss) = N
  BY <1>3, <1>5, <1>6 DEF U
<1>8. FlattenSeq(ss) \in Seq(U) /\ \E at : Spread(ss, N, FlattenSeq(ss), at)
  BY <1>3, <1>7, FlattenSpread
<1>9. PICK top : Spread(ss, N, FlattenSeq(ss), top)
  BY <1>8
<1> DEFINE in(a) == CHOOSE at : Places(a, at)
           at == [p \in Positions(text) |-> top[p[1]][in(p[1])[p[2]][p[3]]]]
           lines == FlattenSeq(ss)
<1>10. \A a \in 1 .. N : Places(a, in(a))
  BY <1>6
<1> HIDE DEF Places, in, lines
<1>11. \A a \in 1 .. N : \A k \in 1 .. Len(ss[a]) :
         /\ top[a][k] \in 1 .. Len(lines) /\ lines[top[a][k]] = ss[a][k]
         /\ \A c \in 1 .. N : \A d \in 1 .. Len(ss[c]) : top[a][k] = top[c][d] => a = c /\ k = d
  BY <1>9 DEF Spread, lines
<1>12. ASSUME NEW p \in Positions(text)
       PROVE  /\ p[1] \in 1 .. N /\ p[2] \in DOMAIN annexes[p[1]].tables
              /\ p[3] \in DOMAIN annexes[p[1]].tables[p[2]].rows /\ p = <<p[1], p[2], p[3]>>
  BY <1>3, PositionIs
<1>13. ASSUME NEW p \in Positions(text)
       PROVE  /\ in(p[1])[p[2]][p[3]] \in 1 .. Len(ss[p[1]])
              /\ ss[p[1]][in(p[1])[p[2]][p[3]]] = LineAt(text, p)
  <2>1. Places(p[1], in(p[1]))
    BY <1>10, <1>12
  <2>. QED
    BY <1>12, <2>1 DEF Places, PlacesOf
<1>14. ASSUME NEW p \in Positions(text)
       PROVE  at[p] \in 1 .. Len(lines) /\ lines[at[p]] = LineAt(text, p)
  <2> DEFINE k == in(p[1])[p[2]][p[3]]
  <2>1. p[1] \in 1 .. N
    BY <1>12
  <2>2. k \in 1 .. Len(ss[p[1]]) /\ ss[p[1]][k] = LineAt(text, p)
    BY <1>13
  <2>3. at[p] = top[p[1]][k]
    OBVIOUS
  <2> HIDE DEF at, k
  <2>4. top[p[1]][k] \in 1 .. Len(lines) /\ lines[top[p[1]][k]] = ss[p[1]][k]
    BY <1>11, <2>1, <2>2
  <2>. QED
    BY <2>2, <2>3, <2>4
<1>15. ASSUME NEW p \in Positions(text), NEW q \in Positions(text), at[p] = at[q]
       PROVE  p = q
  <2>1. top[p[1]][in(p[1])[p[2]][p[3]]] = top[q[1]][in(q[1])[q[2]][q[3]]]
    BY <1>15
  <2>2. p[1] = q[1] /\ in(p[1])[p[2]][p[3]] = in(q[1])[q[2]][q[3]]
    <3>1. p[1] \in 1 .. N /\ q[1] \in 1 .. N
      BY <1>12
    <3>2. in(p[1])[p[2]][p[3]] \in 1 .. Len(ss[p[1]]) /\ in(q[1])[q[2]][q[3]] \in 1 .. Len(ss[q[1]])
      BY <1>13
    <3> DEFINE k == in(p[1])[p[2]][p[3]]
               l == in(q[1])[q[2]][q[3]]
    <3> HIDE DEF k, l
    <3>3. top[p[1]][k] = top[q[1]][l] /\ k \in 1 .. Len(ss[p[1]]) /\ l \in 1 .. Len(ss[q[1]])
      BY <2>1, <3>2 DEF k, l
    <3>4. \A c \in 1 .. N : \A d \in 1 .. Len(ss[c]) : top[p[1]][k] = top[c][d] => p[1] = c /\ k = d
      BY <1>11, <3>1, <3>3, Zenon
    <3>5. p[1] = q[1] /\ k = l
      BY <3>1, <3>3, <3>4
    <3>. QED
      BY <3>5 DEF k, l
  <2>3. p[2] = q[2] /\ p[3] = q[3]
    <3>1. Places(p[1], in(p[1]))
      BY <1>10, <1>12
    <3>2. in(p[1])[p[2]][p[3]] = in(p[1])[q[2]][q[3]] /\ q[2] \in DOMAIN annexes[p[1]].tables
          /\ q[3] \in DOMAIN annexes[p[1]].tables[q[2]].rows
      BY <1>12, <2>2
    <3>3. p[2] \in DOMAIN annexes[p[1]].tables /\ p[3] \in DOMAIN annexes[p[1]].tables[p[2]].rows
      BY <1>12
    <3> DEFINE tables == annexes[p[1]].tables
               inside == in(p[1])
    <3>4. \A b \in DOMAIN tables : \A c \in DOMAIN tables[b].rows :
            \A d \in DOMAIN tables : \A e \in DOMAIN tables[d].rows :
              inside[b][c] = inside[d][e] => b = d /\ c = e
      BY <3>1 DEF Places, PlacesOf
    <3>5. /\ inside[p[2]][p[3]] = inside[q[2]][q[3]]
          /\ p[2] \in DOMAIN tables /\ p[3] \in DOMAIN tables[p[2]].rows
          /\ q[2] \in DOMAIN tables /\ q[3] \in DOMAIN tables[q[2]].rows
      BY <3>2, <3>3
    <3> HIDE DEF tables, inside
    <3>6. \A d \in DOMAIN tables : \A e \in DOMAIN tables[d].rows :
            inside[p[2]][p[3]] = inside[d][e] => p[2] = d /\ p[3] = e
      BY <3>4, <3>5
    <3>. QED
      BY <3>5, <3>6
  <2>. QED
    BY <1>12, <2>2, <2>3
<1>16. at \in [Positions(text) -> 1 .. Len(lines)]
  BY <1>14
<1>17. ASSUME NEW x \in 1 .. Len(lines) PROVE \E p \in Positions(text) : at[p] = x
  <2>1. PICK a \in 1 .. N : \E k \in 1 .. Len(ss[a]) : top[a][k] = x
    BY <1>9 DEF Spread, lines
  <2>2. PICK k \in 1 .. Len(ss[a]) : top[a][k] = x
    BY <2>1
  <2>3. Places(a, in(a)) /\ a \in DOMAIN annexes
    BY <1>3, <1>10
  <2>4. PICK b \in DOMAIN annexes[a].tables : \E c \in DOMAIN annexes[a].tables[b].rows : in(a)[b][c] = k
    BY <2>3 DEF Places, PlacesOf
  <2>5. PICK c \in DOMAIN annexes[a].tables[b].rows : in(a)[b][c] = k
    BY <2>4
  <2>6. <<a, b, c>> \in Positions(text)
    BY <2>3, PositionOf
  <2>7. at[<<a, b, c>>] = x
    BY <2>2, <2>5, <2>6
  <2>. QED
    BY <2>6, <2>7
<1> HIDE DEF at
<1>. QED
  BY <1>2, <1>8, <1>14, <1>15, <1>16, <1>17 DEF text, U, lines

(* The rows can be counted.                                                *)
LEMMA IdFinite == IsFiniteSet(Id) /\ Cardinality(Id) = MaxRow /\ Id \subseteq Nat
<1>1. 1 \in Int /\ MaxRow \in Int /\ MaxRow \in Nat
  BY BoundAssumption
<1>2. IsFiniteSet(1 .. MaxRow) /\ Cardinality(1 .. MaxRow) = IF 1 > MaxRow THEN 0 ELSE MaxRow - 1 + 1
  BY <1>1, FS_Interval
<1>. QED
  BY <1>1, <1>2 DEF Id

(* Counting by a map that never says the same twice.                       *)
LEMMA CountedBy ==
  ASSUME NEW S, NEW T, IsFiniteSet(T), NEW f, \A s \in S : f[s] \in T,
         \A r, s \in S : f[r] = f[s] => r = s
  PROVE  IsFiniteSet(S) /\ Cardinality(S) <= Cardinality(T)
<1> DEFINE g == [s \in S |-> f[s]]
<1>1. g \in [S -> T] /\ \A r, s \in S : g[r] = g[s] => r = s
  OBVIOUS
<1> HIDE DEF g
<1>2. g \in Injection(S, T)
  BY <1>1 DEF Injection, IsInjective
<1>. QED
  BY <1>2, FS_Injection

-----------------------------------------------------------------------------
(* The rows the transaction leaves.                                        *)

FreeRow(rows) == CHOOSE i \in {j \in Id : rows[j] = None} : \A j \in Id : rows[j] = None => i <= j

AfterWrite(match, lines, n, rows) ==
  [rows EXCEPT ![IF match[n] = None THEN FreeRow(rows) ELSE match[n]] = lines[n]]

(* The writes of the transaction, one after the other.                     *)
LEMMA WritesSteps ==
  ASSUME NEW match, NEW lines, DOMAIN row = Id, row = [i \in Id |-> row[i]]
  PROVE  /\ Writes(match, lines)[0] = row
         /\ \A n \in Nat : /\ Writes(match, lines)[n + 1] = AfterWrite(match, lines, n + 1, Writes(match, lines)[n])
<1> DEFINE W == {row[i] : i \in Id} \cup {lines[n] : n \in Nat}
           V == [Id -> W]
           step == [x \in Nat \X V |-> AfterWrite(match, lines, x[1] + 1, x[2])]
           IsWrites(f) == f = [n \in Nat |-> IF n = 0 THEN row ELSE AfterWrite(match, lines, n, f[n - 1])]
<1>1. row \in V
  OBVIOUS
<1>2. ASSUME NEW n \in Nat, NEW rows \in V PROVE AfterWrite(match, lines, n, rows) \in V
  <2>1. lines[n] \in W
    OBVIOUS
  <2> HIDE DEF W
  <2>. QED
    BY <2>1 DEF AfterWrite
<1> HIDE DEF V
<1>3. step \in [Nat \X V -> V]
  <2>1. ASSUME NEW x \in Nat \X V PROVE AfterWrite(match, lines, x[1] + 1, x[2]) \in V
    <3>1. x[1] + 1 \in Nat /\ x[2] \in V
      OBVIOUS
    <3>. QED
      BY <1>2, <3>1
  <2>. QED
    BY <2>1
<1>4. \A n \in Nat, rows \in V : step[<<n, rows>>] = AfterWrite(match, lines, n + 1, rows)
  OBVIOUS
<1> HIDE DEF step
<1>5. PICK h : IsRun(V, row, step, h)
  BY <1>1, <1>3, Recursion
<1>6. h \in [Nat -> V] /\ h[0] = row /\ \A n \in Nat : h[n + 1] = step[<<n, h[n]>>]
  BY <1>5 DEF IsRun
<1>7. IsWrites(h)
  <2>1. ASSUME NEW n \in Nat, n # 0 PROVE h[n] = AfterWrite(match, lines, n, h[n - 1])
    <3>1. n - 1 \in Nat /\ (n - 1) + 1 = n
      BY <2>1
    <3>2. h[n - 1] \in V
      BY <1>6, <3>1, Zenon
    <3>3. h[(n - 1) + 1] = step[<<n - 1, h[n - 1]>>]
      BY <1>6, <3>1, Zenon
    <3>4. step[<<n - 1, h[n - 1]>>] = AfterWrite(match, lines, (n - 1) + 1, h[n - 1])
      BY <1>4, <3>1, <3>2, Zenon
    <3>. QED
      BY <3>1, <3>3, <3>4
  <2>2. h = [n \in Nat |-> h[n]]
    BY <1>6
  <2>. QED
    BY <1>6, <2>1, <2>2
<1>8. IsWrites(Writes(match, lines))
  <2> DEFINE g == CHOOSE f : IsWrites(f)
  <2>1. IsWrites(g)
    BY <1>7
  <2>2. Writes(match, lines) = g
    BY DEF Writes, AfterWrite, FreeRow
  <2>. QED
    BY <2>1, <2>2
<1> DEFINE g == Writes(match, lines)
<1> HIDE DEF g
<1>9. g = [n \in Nat |-> IF n = 0 THEN row ELSE AfterWrite(match, lines, n, g[n - 1])]
  BY <1>8 DEF g
<1>10. \A n \in Nat : g[n] = IF n = 0 THEN row ELSE AfterWrite(match, lines, n, g[n - 1])
  BY <1>9, Zenon
<1>11. g[0] = row
  BY <1>10
<1>12. ASSUME NEW n \in Nat PROVE g[n + 1] = AfterWrite(match, lines, n + 1, g[n])
  <2>1. n + 1 \in Nat /\ n + 1 # 0 /\ (n + 1) - 1 = n
    OBVIOUS
  <2>. QED
    BY <1>10, <2>1
<1>. QED
  BY <1>11, <1>12 DEF g

(* at: the row each of the first n lines was written to.                   *)
Written(match, lines, n, rows, at) ==
  /\ rows = [i \in Id |-> rows[i]]
  /\ at \in [1 .. n -> Id]
  /\ \A k, l \in 1 .. n : at[k] = at[l] => k = l
  /\ \A k \in 1 .. n : /\ rows[at[k]] = lines[k]
                       /\ IF match[k] = None THEN at[k] \notin Stored ELSE at[k] = match[k]
  /\ \A i \in Id : (\A k \in 1 .. n : at[k] # i) => rows[i] = row[i]

(* A paired line is written over its row, an unpaired one to the first     *)
(* free row, of which there is one as long as it was counted.              *)
LEMMA FreeRowExists ==
  ASSUME NEW N \in Nat, NEW n \in 0 .. N - 1, NEW match, NEW lines, NEW rows, NEW at,
         Written(match, lines, n, rows, at), match[n + 1] = None,
         \A k \in 1 .. N : lines[k] # None,
         \A k \in 1 .. N : match[k] \in Stored \cup {None},
         Cardinality({k \in 1 .. N : match[k] = None}) <= Cardinality(Id \ Stored)
  PROVE  FreeRow(rows) \in Id \ Stored /\ rows[FreeRow(rows)] = None
<1> DEFINE unpaired == {k \in 1 .. N : match[k] = None}
           before == {k \in 1 .. n : match[k] = None}
           free == {i \in Id : rows[i] = None}
<1>1. IsFiniteSet(unpaired) /\ IsFiniteSet(before) /\ Cardinality(before) + 1 <= Cardinality(unpaired)
  <2>1. IsFiniteSet(1 .. N)
    BY FS_Interval
  <2>2. IsFiniteSet(unpaired)
    BY <2>1, FS_Subset
  <2>3. before \subseteq unpaired
    OBVIOUS
  <2>4. IsFiniteSet(before)
    BY <2>2, <2>3, FS_Subset
  <2>5. n + 1 \in unpaired /\ n + 1 \notin before
    OBVIOUS
  <2> HIDE DEF unpaired, before
  <2>6. IsFiniteSet(before \cup {n + 1}) /\ Cardinality(before \cup {n + 1}) = Cardinality(before) + 1
    BY <2>4, <2>5, FS_AddElement
  <2>7. before \cup {n + 1} \subseteq unpaired
    BY <2>3, <2>5
  <2>. QED
    BY <2>2, <2>4, <2>6, <2>7, FS_Subset
<1>2. free # {}
  <2>1. SUFFICES ASSUME free = {} PROVE FALSE
    OBVIOUS
  <2> DEFINE whose == [i \in Id \ Stored |-> CHOOSE k \in before : at[k] = i]
  <2>2. ASSUME NEW i \in Id \ Stored PROVE \E k \in before : at[k] = i
    <3>1. rows[i] # None /\ row[i] = None
      BY <2>1 DEF Stored
    <3>2. PICK k \in 1 .. n : at[k] = i
      BY <3>1 DEF Written
    <3>3. k \in 1 .. N /\ match[k] \in Stored \cup {None}
      OBVIOUS
    <3>4. match[k] = None
      BY <3>2, <3>3 DEF Written
    <3>. QED
      BY <3>2, <3>4
  <2>3. \A i \in Id \ Stored : whose[i] \in before /\ at[whose[i]] = i
    BY <2>2
  <2> HIDE DEF whose, before
  <2>4. \A i, j \in Id \ Stored : whose[i] = whose[j] => i = j
    BY <2>3
  <2>5. Cardinality(Id \ Stored) <= Cardinality(before) /\ IsFiniteSet(Id \ Stored)
    BY <1>1, <2>3, <2>4, CountedBy
  <2>6. Cardinality(before) \in Nat /\ Cardinality(unpaired) \in Nat /\ Cardinality(Id \ Stored) \in Nat
    <3> HIDE DEF unpaired
    <3>. QED
      BY <1>1, <2>5, FS_CardinalityType
  <2>. QED
    BY <1>1, <2>5, <2>6
<1>3. PICK i \in free : \A j \in free : i <= j
  <2>1. free \in SUBSET Nat
    BY IdFinite
  <2> HIDE DEF free
  <2>. QED
    BY <1>2, <2>1, LeastNat
<1>4. FreeRow(rows) \in Id /\ rows[FreeRow(rows)] = None
  <2>1. i \in {j \in Id : rows[j] = None} /\ \A j \in Id : rows[j] = None => i <= j
    BY <1>3
  <2>2. FreeRow(rows) \in {j \in Id : rows[j] = None}
    BY <2>1, Zenon DEF FreeRow
  <2>. QED
    BY <2>2
<1>5. FreeRow(rows) \notin Stored
  <2>1. SUFFICES ASSUME FreeRow(rows) \in Stored PROVE FALSE
    OBVIOUS
  <2>2. row[FreeRow(rows)] # None
    BY <2>1 DEF Stored
  <2>3. PICK k \in 1 .. n : at[k] = FreeRow(rows)
    BY <1>4, <2>2 DEF Written
  <2>4. rows[at[k]] = lines[k] /\ lines[k] # None
    <3>1. k \in 1 .. N
      OBVIOUS
    <3>. QED
      BY <3>1 DEF Written
  <2>. QED
    BY <1>4, <2>3, <2>4
<1>. QED
  BY <1>4, <1>5

(* One more line is written to a row no line was written to.               *)
LEMMA WriteStep ==
  ASSUME NEW n \in Nat, NEW match, NEW lines, NEW rows, NEW at, NEW where \in Id,
         Written(match, lines, n, rows, at),
         IF match[n + 1] = None THEN where \notin Stored ELSE where = match[n + 1],
         \A k \in 1 .. n : at[k] # where
  PROVE  \E to : Written(match, lines, n + 1, [rows EXCEPT ![where] = lines[n + 1]], to)
<1> DEFINE to == [k \in 1 .. n + 1 |-> IF k = n + 1 THEN where ELSE at[k]]
           new == [rows EXCEPT ![where] = lines[n + 1]]
<1>1. rows = [i \in Id |-> rows[i]] /\ at \in [1 .. n -> Id]
  BY DEF Written
<1>2. /\ new = [i \in Id |-> new[i]] /\ new[where] = lines[n + 1]
      /\ \A i \in Id : i # where => new[i] = rows[i]
  BY <1>1
<1>3. to \in [1 .. n + 1 -> Id] /\ to[n + 1] = where /\ \A k \in 1 .. n : to[k] = at[k] /\ to[k] \in Id
  BY <1>1
<1>4. \A k \in 1 .. n + 1 : k \in 1 .. n \/ k = n + 1
  OBVIOUS
<1> HIDE DEF to, new
<1>5. \A k, l \in 1 .. n + 1 : to[k] = to[l] => k = l
  BY <1>3, <1>4 DEF Written
<1>6. \A k \in 1 .. n + 1 : /\ new[to[k]] = lines[k]
                           /\ IF match[k] = None THEN to[k] \notin Stored ELSE to[k] = match[k]
  <2> SUFFICES ASSUME NEW k \in 1 .. n + 1
               PROVE  new[to[k]] = lines[k] /\ IF match[k] = None THEN to[k] \notin Stored ELSE to[k] = match[k]
    OBVIOUS
  <2>1. CASE k = n + 1
    BY <1>2, <1>3, <2>1
  <2>2. CASE k \in 1 .. n
    <3>1. to[k] = at[k] /\ to[k] \in Id /\ to[k] # where
      BY <1>3, <2>2
    <3>2. new[to[k]] = rows[at[k]]
      BY <1>2, <3>1
    <3>3. rows[at[k]] = lines[k] /\ IF match[k] = None THEN at[k] \notin Stored ELSE at[k] = match[k]
      BY <2>2 DEF Written
    <3>. QED
      BY <3>1, <3>2, <3>3
  <2>. QED
    BY <1>4, <2>1, <2>2
<1>7. ASSUME NEW i \in Id, \A k \in 1 .. n + 1 : to[k] # i PROVE new[i] = row[i]
  <2>1. n + 1 \in 1 .. n + 1 /\ 1 .. n \subseteq 1 .. n + 1
    OBVIOUS
  <2>2. i # where /\ \A k \in 1 .. n : at[k] # i
    BY <1>3, <1>7, <2>1
  <2>. QED
    BY <1>2, <2>2 DEF Written
<1>8. Written(match, lines, n + 1, new, to)
  BY <1>2, <1>3, <1>5, <1>6, <1>7 DEF Written
<1>. QED
  BY <1>8 DEF new

(* The transaction writes every line to a row of its own and leaves the    *)
(* others alone.                                                           *)
LEMMA WritesAll ==
  ASSUME NEW N \in Nat, NEW match, NEW lines, row = [i \in Id |-> row[i]],
         \A k \in 1 .. N : lines[k] # None,
         \A k \in 1 .. N : match[k] \in Stored \cup {None},
         \A k, l \in 1 .. N : match[k] # None /\ match[k] = match[l] => k = l,
         Cardinality({k \in 1 .. N : match[k] = None}) <= Cardinality(Id \ Stored)
  PROVE  \E at : Written(match, lines, N, Writes(match, lines)[N], at)
<1> DEFINE rows == Writes(match, lines)
           S == {n \in 0 .. N : \E at : Written(match, lines, n, rows[n], at)}
<1>1. rows[0] = row /\ \A n \in Nat : rows[n + 1] = AfterWrite(match, lines, n + 1, rows[n])
  BY WritesSteps
<1> HIDE DEF rows
<1>2. 0 \in S
  <2> DEFINE at == [k \in 1 .. 0 |-> 1]
  <2>1. at \in [1 .. 0 -> Id] /\ \A k \in 1 .. 0 : FALSE
    OBVIOUS
  <2> HIDE DEF at
  <2>2. Written(match, lines, 0, rows[0], at)
    BY <1>1, <2>1 DEF Written
  <2>. QED
    BY <2>2
<1>3. ASSUME NEW n \in 0 .. N - 1, n \in S PROVE n + 1 \in S
  <2>1. PICK at : Written(match, lines, n, rows[n], at)
    BY <1>3
  <2>2. n \in Nat /\ n + 1 \in 1 .. N /\ 1 .. n \subseteq 1 .. N /\ n + 1 \notin 1 .. n
    OBVIOUS
  <2>a. ASSUME match[n + 1] = None
        PROVE  FreeRow(rows[n]) \in Id \ Stored /\ rows[n][FreeRow(rows[n])] = None
    <3> DEFINE r == rows[n]
    <3>1. Written(match, lines, n, r, at)
      BY <2>1
    <3> HIDE DEF r
    <3>2. FreeRow(r) \in Id \ Stored /\ r[FreeRow(r)] = None
      BY <2>a, <3>1, FreeRowExists
    <3>. QED
      BY <3>2 DEF r
  <2> DEFINE where == IF match[n + 1] = None THEN FreeRow(rows[n]) ELSE match[n + 1]
  <2>3. where \in Id /\ IF match[n + 1] = None THEN where \notin Stored ELSE where = match[n + 1]
    <3>1. CASE match[n + 1] = None
      BY <2>a, <3>1
    <3>2. CASE match[n + 1] # None
      BY <2>2, <3>2 DEF Stored
    <3>. QED
      BY <3>1, <3>2
  <2>4. \A k \in 1 .. n : at[k] # where
    <3>1. CASE match[n + 1] = None
      <4>1. rows[n][FreeRow(rows[n])] = None
        BY <2>a, <3>1
      <4>2. ASSUME NEW k \in 1 .. n PROVE rows[n][at[k]] # None
        <5>1. rows[n][at[k]] = lines[k]
          BY <2>1 DEF Written
        <5>. QED
          BY <2>2, <5>1
      <4>. QED
        BY <3>1, <4>1, <4>2
    <3>2. CASE match[n + 1] # None
      <4>1. match[n + 1] \in Stored
        BY <2>2, <3>2
      <4>2. ASSUME NEW k \in 1 .. n, at[k] = match[n + 1] PROVE FALSE
        <5>1. match[k] # None /\ at[k] = match[k]
          BY <2>1, <4>1, <4>2 DEF Written
        <5>. QED
          BY <2>2, <4>2, <5>1
      <4>. QED
        BY <3>2, <4>2
    <3>. QED
      BY <3>1, <3>2
  <2>5. rows[n + 1] = [rows[n] EXCEPT ![where] = lines[n + 1]]
    BY <1>1, <2>2 DEF AfterWrite
  <2> HIDE DEF where
  <2>6. \E to : Written(match, lines, n + 1, rows[n + 1], to)
    BY <2>1, <2>2, <2>3, <2>4, <2>5, WriteStep
  <2>7. n + 1 \in 0 .. N
    OBVIOUS
  <2>. QED
    BY <2>6, <2>7
<1> HIDE DEF S
<1>4. N \in S
  BY <1>2, <1>3, BoundedInduction
<1>. QED
  BY <1>4 DEF S, rows

-----------------------------------------------------------------------------
(* PairEntries: no row is claimed twice.                                   *)

Claims == Stored \cup {None}

GoodPair(p, n) ==
  /\ p = [match |-> p.match, unclaimed |-> p.unclaimed]
  /\ p.match \in [1 .. n -> Claims] /\ p.unclaimed \in SUBSET Stored
  /\ \A k \in 1 .. n : p.match[k] \notin p.unclaimed
  /\ \A k, l \in 1 .. n : p.match[k] # None /\ p.match[k] = p.match[l] => k = l

(* None is no row.                                                         *)
LEMMA NoneIsNoRow == None \notin Stored /\ Stored \subseteq Id /\ IsFiniteSet(Stored)
<1>1. None \notin Id /\ Stored \subseteq Id
  BY TextAssumption DEF Stored
<1>. QED
  BY <1>1, IdFinite, FS_Subset

AfterPass(lines, n, pairs) ==
  UNION {LET same == {i \in before.unclaimed : IsSameEntry(i, lines[n])}
         IN {[match |-> Append(before.match, i), unclaimed |-> before.unclaimed \ {i}] :
               i \in IF same = {} THEN {None} ELSE same} : before \in pairs}

(* What Append adds and keeps.                                             *)
LEMMA AppendFacts ==
  ASSUME NEW U, NEW s \in Seq(U), NEW e \in U
  PROVE  /\ Append(s, e) \in Seq(U) /\ Len(Append(s, e)) = Len(s) + 1
         /\ Append(s, e)[Len(s) + 1] = e /\ \A k \in 1 .. Len(s) : Append(s, e)[k] = s[k]
  OBVIOUS

(* A sequence is a function on its places.                                 *)
LEMMA SeqIsFunction ==
  ASSUME NEW U, NEW s \in Seq(U)
  PROVE  s \in [1 .. Len(s) -> U]
  OBVIOUS

(* p goes on from before with the row i, or None, for the line n.          *)
GoesOn(p, before, i) == p = [match |-> Append(before.match, i), unclaimed |-> before.unclaimed \ {i}]

Takes(lines, n, before, i) ==
  \/ i \in before.unclaimed /\ IsSameEntry(i, lines[n])
  \/ i = None /\ \A j \in before.unclaimed : ~ IsSameEntry(j, lines[n])

(* A line takes a row that says the same, or None when no unclaimed row    *)
(* does.                                                                   *)
LEMMA PassMember ==
  ASSUME NEW lines, NEW n, NEW pairs, NEW p \in AfterPass(lines, n, pairs)
  PROVE  \E before \in pairs : \E i : GoesOn(p, before, i) /\ Takes(lines, n, before, i)
<1>1. PICK before \in pairs :
        p \in LET same == {i \in before.unclaimed : IsSameEntry(i, lines[n])}
              IN {[match |-> Append(before.match, i), unclaimed |-> before.unclaimed \ {i}] :
                    i \in IF same = {} THEN {None} ELSE same}
  BY DEF AfterPass
<1> DEFINE same == {i \in before.unclaimed : IsSameEntry(i, lines[n])}
<1>2. PICK i \in IF same = {} THEN {None} ELSE same : GoesOn(p, before, i)
  BY <1>1 DEF GoesOn
<1>3. Takes(lines, n, before, i)
  <2>1. CASE same = {}
    BY <1>2, <2>1 DEF Takes
  <2>2. CASE same # {}
    BY <1>2, <2>2 DEF Takes
  <2>. QED
    BY <2>1, <2>2
<1>. QED
  BY <1>2, <1>3

(* The exact pass line by line.                                            *)
LEMMA ExactSteps ==
  ASSUME NEW lines
  PROVE  \E g : /\ ExactPasses(lines) = g[Len(lines)]
                /\ g[0] = {[match |-> <<>>, unclaimed |-> Stored]}
                /\ \A n \in Nat : g[n + 1] = AfterPass(lines, n + 1, g[n])
<1> DEFINE P == [match : Seq(Claims), unclaimed : SUBSET Stored]
           V == SUBSET P
           base == {[match |-> <<>>, unclaimed |-> Stored]}
           step == [x \in Nat \X V |-> AfterPass(lines, x[1] + 1, x[2])]
           Is(f) == f = [n \in Nat |-> IF n = 0 THEN base ELSE AfterPass(lines, n, f[n - 1])]
<1>1. base \in V
  OBVIOUS
<1>2. ASSUME NEW n \in Nat, NEW pairs \in V PROVE AfterPass(lines, n, pairs) \in V
  <2>1. ASSUME NEW p \in AfterPass(lines, n, pairs) PROVE p \in P
    <3>1. PICK before \in pairs : \E i : GoesOn(p, before, i) /\ Takes(lines, n, before, i)
      BY PassMember
    <3>a. PICK i : GoesOn(p, before, i) /\ Takes(lines, n, before, i)
      BY <3>1
    <3>2. /\ i \in before.unclaimed \cup {None}
          /\ p = [match |-> Append(before.match, i), unclaimed |-> before.unclaimed \ {i}]
      BY <3>a DEF GoesOn, Takes
    <3>3. before.match \in Seq(Claims) /\ before.unclaimed \in SUBSET Stored
      OBVIOUS
    <3>4. i \in Claims
      BY <3>2, <3>3 DEF Claims
    <3>5. Append(before.match, i) \in Seq(Claims)
      BY <3>3, <3>4, AppendFacts
    <3>6. before.unclaimed \ {i} \in SUBSET Stored
      BY <3>3
    <3>. QED
      BY <3>2, <3>5, <3>6
  <2>. QED
    BY <2>1
<1> HIDE DEF V
<1>3. step \in [Nat \X V -> V]
  <2>1. ASSUME NEW x \in Nat \X V PROVE AfterPass(lines, x[1] + 1, x[2]) \in V
    <3>1. x[1] + 1 \in Nat /\ x[2] \in V
      OBVIOUS
    <3>. QED
      BY <1>2, <3>1
  <2>. QED
    BY <2>1
<1>4. \A n \in Nat, pairs \in V : step[<<n, pairs>>] = AfterPass(lines, n + 1, pairs)
  OBVIOUS
<1> HIDE DEF step, base
<1>5. PICK h : IsRun(V, base, step, h)
  BY <1>1, <1>3, Recursion
<1>6. h \in [Nat -> V] /\ h[0] = base /\ \A n \in Nat : h[n + 1] = step[<<n, h[n]>>]
  BY <1>5 DEF IsRun
<1>7. Is(h)
  <2>1. ASSUME NEW n \in Nat, n # 0 PROVE h[n] = AfterPass(lines, n, h[n - 1])
    <3>1. n - 1 \in Nat /\ (n - 1) + 1 = n
      BY <2>1
    <3>2. h[n - 1] \in V
      BY <1>6, <3>1, Zenon
    <3>3. h[(n - 1) + 1] = step[<<n - 1, h[n - 1]>>]
      BY <1>6, <3>1, Zenon
    <3>4. step[<<n - 1, h[n - 1]>>] = AfterPass(lines, (n - 1) + 1, h[n - 1])
      BY <1>4, <3>1, <3>2, Zenon
    <3>. QED
      BY <3>1, <3>3, <3>4
  <2>2. h = [n \in Nat |-> h[n]]
    BY <1>6
  <2>. QED
    BY <1>6, <2>1, <2>2
<1> DEFINE g == CHOOSE f : Is(f)
<1>8. Is(g)
  BY <1>7
<1>9. ExactPasses(lines) = g[Len(lines)]
  BY DEF ExactPasses, AfterPass, base
<1> HIDE DEF g
<1>10. \A n \in Nat : g[n] = IF n = 0 THEN base ELSE AfterPass(lines, n, g[n - 1])
  BY <1>8, Zenon
<1>11. g[0] = base
  BY <1>10
<1>12. ASSUME NEW n \in Nat PROVE g[n + 1] = AfterPass(lines, n + 1, g[n])
  <2>1. n + 1 \in Nat /\ n + 1 # 0 /\ (n + 1) - 1 = n
    OBVIOUS
  <2>. QED
    BY <1>10, <2>1
<1>. QED
  BY <1>9, <1>11, <1>12 DEF base

(* What the exact pass leaves: a line is paired with a row that says the   *)
(* same, or every such row has another line.                               *)
ExactlyPaired(p, lines, n) ==
  /\ GoodPair(p, n)
  /\ \A k \in 1 .. n : p.match[k] # None => IsSameEntry(p.match[k], lines[k])
  /\ \A i \in Stored : i \in p.unclaimed \/ \E k \in 1 .. n : p.match[k] = i
  /\ \A k \in 1 .. n : p.match[k] = None =>
       \A i \in Stored : IsSameEntry(i, lines[k]) => \E l \in 1 .. n : p.match[l] = i

(* One more line of the exact pass.                                        *)
LEMMA ExactStep ==
  ASSUME NEW lines, NEW n \in Nat, NEW before, ExactlyPaired(before, lines, n),
         NEW p, NEW i, GoesOn(p, before, i), Takes(lines, n + 1, before, i)
  PROVE  ExactlyPaired(p, lines, n + 1)
<1> DEFINE m == before.match
           u == before.unclaimed
           q == Append(m, i)
<1>1. /\ m \in [1 .. n -> Claims] /\ u \in SUBSET Stored
      /\ \A k \in 1 .. n : m[k] \notin u
      /\ \A k, l \in 1 .. n : m[k] # None /\ m[k] = m[l] => k = l
  BY DEF ExactlyPaired, GoodPair
<1>2. /\ \A k \in 1 .. n : m[k] # None => IsSameEntry(m[k], lines[k])
      /\ \A j \in Stored : j \in u \/ \E k \in 1 .. n : m[k] = j
      /\ \A k \in 1 .. n : m[k] = None =>
           \A j \in Stored : IsSameEntry(j, lines[k]) => \E l \in 1 .. n : m[l] = j
  BY DEF ExactlyPaired
<1>3. \/ i \in u /\ IsSameEntry(i, lines[n + 1])
      \/ i = None /\ \A j \in u : ~ IsSameEntry(j, lines[n + 1])
  BY DEF Takes
<1>4. p = [match |-> p.match, unclaimed |-> p.unclaimed] /\ p.match = q /\ p.unclaimed = u \ {i}
  BY DEF GoesOn
<1>5. i \in Claims /\ (i # None => i \in u) /\ None \notin u
  BY <1>1, <1>3, NoneIsNoRow DEF Claims
<1> HIDE DEF m, u
<1>6. m \in Seq(Claims) /\ Len(m) = n
  BY <1>1
<1>7. /\ q \in [1 .. n + 1 -> Claims] /\ q[n + 1] = i
      /\ \A k \in 1 .. n : q[k] = m[k]
  <2>1. /\ q \in Seq(Claims) /\ Len(q) = n + 1
        /\ q[n + 1] = i /\ \A k \in 1 .. n : q[k] = m[k]
    BY <1>5, <1>6, AppendFacts
  <2>2. q \in [1 .. Len(q) -> Claims]
    BY <2>1, SeqIsFunction
  <2>. QED
    BY <2>1, <2>2
<1> HIDE DEF q
<1>8. (\A k \in 1 .. n + 1 : k \in 1 .. n \/ k = n + 1) /\ n + 1 \in 1 .. n + 1 /\ 1 .. n \subseteq 1 .. n + 1
  OBVIOUS
<1>9. GoodPair(p, n + 1)
  <2>1. \A k \in 1 .. n + 1 : q[k] \notin u \ {i}
    BY <1>1, <1>7, <1>8
  <2>2. ASSUME NEW k \in 1 .. n + 1, NEW l \in 1 .. n + 1, q[k] # None, q[k] = q[l] PROVE k = l
    BY <1>1, <1>5, <1>7, <1>8, <2>2
  <2>. QED
    BY <1>1, <1>4, <1>7, <2>1, <2>2 DEF GoodPair
<1>10. \A k \in 1 .. n + 1 : q[k] # None => IsSameEntry(q[k], lines[k])
  BY <1>2, <1>3, <1>5, <1>7, <1>8
<1>11. ASSUME NEW j \in Stored PROVE j \in u \ {i} \/ \E k \in 1 .. n + 1 : q[k] = j
  <2>1. CASE j = i
    BY <1>7, <1>8, <2>1
  <2>2. CASE j # i /\ j \notin u
    <3>1. PICK k \in 1 .. n : m[k] = j
      BY <1>2, <2>2
    <3>. QED
      BY <1>7, <1>8, <3>1
  <2>. QED
    BY <2>1, <2>2
<1>12. ASSUME NEW k \in 1 .. n + 1, q[k] = None, NEW j \in Stored, IsSameEntry(j, lines[k])
       PROVE  \E l \in 1 .. n + 1 : q[l] = j
  <2>1. CASE k \in 1 .. n
    <3>1. PICK l \in 1 .. n : m[l] = j
      BY <1>2, <1>7, <1>12, <2>1
    <3>. QED
      BY <1>7, <1>8, <3>1
  <2>2. CASE k = n + 1
    <3>1. i = None /\ j \notin u
      BY <1>3, <1>5, <1>7, <1>12, <2>2
    <3>2. PICK l \in 1 .. n : m[l] = j
      BY <1>2, <3>1
    <3>. QED
      BY <1>7, <1>8, <3>2
  <2>. QED
    BY <1>8, <2>1, <2>2
<1>. QED
  BY <1>4, <1>9, <1>10, <1>11, <1>12 DEF ExactlyPaired

(* The exact pass keeps its word over a whole revision.                    *)
LEMMA ExactGood ==
  ASSUME NEW lines, Len(lines) \in Nat
  PROVE  \A p \in ExactPasses(lines) : ExactlyPaired(p, lines, Len(lines))
<1>1. PICK g : /\ ExactPasses(lines) = g[Len(lines)]
               /\ g[0] = {[match |-> <<>>, unclaimed |-> Stored]}
               /\ \A n \in Nat : g[n + 1] = AfterPass(lines, n + 1, g[n])
  BY ExactSteps
<1> DEFINE S == {n \in Nat : \A p \in g[n] : ExactlyPaired(p, lines, n)}
<1>2. 0 \in S
  <2>1. ASSUME NEW p \in g[0] PROVE ExactlyPaired(p, lines, 0)
    <3>1. p.match = <<>> /\ p.unclaimed = Stored
      BY <1>1
    <3>2. <<>> \in [1 .. 0 -> Claims] /\ \A k \in 1 .. 0 : FALSE
      OBVIOUS
    <3>3. p = [match |-> p.match, unclaimed |-> p.unclaimed]
      BY <1>1
    <3>4. GoodPair(p, 0)
      BY <3>1, <3>2, <3>3 DEF GoodPair
    <3>. QED
      BY <3>1, <3>2, <3>4 DEF ExactlyPaired
  <2>. QED
    BY <2>1
<1>3. ASSUME NEW n \in S PROVE n + 1 \in S
  <2>1. ASSUME NEW p \in g[n + 1] PROVE ExactlyPaired(p, lines, n + 1)
    <3>1. p \in AfterPass(lines, n + 1, g[n])
      BY <1>1, <2>1
    <3>2. PICK before \in g[n] : \E i : GoesOn(p, before, i) /\ Takes(lines, n + 1, before, i)
      BY <3>1, PassMember
    <3>. QED
      BY <3>2, ExactStep
  <2>. QED
    BY <2>1
<1>4. S \in SUBSET Nat
  OBVIOUS
<1> HIDE DEF S
<1>5. Len(lines) \in S
  BY <1>2, <1>3, <1>4, Induction
<1>. QED
  BY <1>1, <1>5 DEF S

(* One line of a relaxed pass.                                             *)
AfterClaim(rowKey, lineKey, n, before) ==
  LET rows   == {i \in before.unclaimed : rowKey[i] = lineKey[n]}
      rivals == {k \in DOMAIN lineKey : before.match[k] = None /\ lineKey[k] = lineKey[n]}
  IN IF rivals = {n} /\ Cardinality(rows) = 1
     THEN [match |-> [before.match EXCEPT ![n] = CHOOSE i \in rows : TRUE],
           unclaimed |-> before.unclaimed \ rows]
     ELSE before

GoodPairs(N) ==
  {p \in [match : [1 .. N -> Claims], unclaimed : SUBSET Stored] : GoodPair(p, N)}

(* The line n takes the row i, the only one of its key.                    *)
ClaimsRow(rowKey, lineKey, n, before, i) ==
  /\ before.match[n] = None /\ i \in before.unclaimed
  /\ \A j \in before.unclaimed : rowKey[j] = lineKey[n] <=> j = i
  /\ \A k \in DOMAIN lineKey : k # n /\ lineKey[k] = lineKey[n] => before.match[k] # None

Claimed(n, before, i) ==
  [match |-> [before.match EXCEPT ![n] = i], unclaimed |-> before.unclaimed \ {i}]

(* A line of a relaxed pass either takes the one row of its key or changes *)
(* nothing.                                                                *)
LEMMA ClaimCases ==
  ASSUME NEW N \in Nat, NEW rowKey, NEW lineKey, DOMAIN lineKey = 1 .. N, NEW n \in 1 .. N,
         NEW before \in GoodPairs(N)
  PROVE  \/ /\ AfterClaim(rowKey, lineKey, n, before) = before
            /\ \A i : ~ ClaimsRow(rowKey, lineKey, n, before, i)
         \/ \E i : /\ ClaimsRow(rowKey, lineKey, n, before, i)
                   /\ AfterClaim(rowKey, lineKey, n, before) = Claimed(n, before, i)
<1> DEFINE rows   == {i \in before.unclaimed : rowKey[i] = lineKey[n]}
           rivals == {k \in DOMAIN lineKey : before.match[k] = None /\ lineKey[k] = lineKey[n]}
<1>1. rows \subseteq before.unclaimed /\ IsFiniteSet(rows)
  <2>1. rows \subseteq Stored
    BY DEF GoodPairs
  <2> HIDE DEF rows
  <2>. QED
    BY <2>1, NoneIsNoRow, FS_Subset DEF rows
<1>2. CASE rivals = {n} /\ Cardinality(rows) = 1
  <2>1. PICK i : rows = {i}
    <3> HIDE DEF rows
    <3>. QED
      BY <1>1, <1>2, FS_Singleton
  <2>2. ClaimsRow(rowKey, lineKey, n, before, i)
    BY <1>2, <2>1 DEF ClaimsRow
  <2>3. (CHOOSE j \in rows : TRUE) = i
    <3> HIDE DEF rows
    <3>. QED
      BY <2>1
  <2>4. AfterClaim(rowKey, lineKey, n, before) = Claimed(n, before, i)
    BY <1>2, <2>1, <2>3 DEF AfterClaim, Claimed
  <2>. QED
    BY <2>2, <2>4
<1>3. CASE ~ (rivals = {n} /\ Cardinality(rows) = 1)
  <2>1. AfterClaim(rowKey, lineKey, n, before) = before
    BY <1>3 DEF AfterClaim
  <2>2. ASSUME NEW i, ClaimsRow(rowKey, lineKey, n, before, i) PROVE FALSE
    <3>1. rows = {i}
      BY <2>2 DEF ClaimsRow
    <3>2. rivals = {n}
      BY <2>2 DEF ClaimsRow
    <3>3. Cardinality({i}) = 1
      BY FS_Singleton
    <3>. QED
      BY <1>3, <3>1, <3>2, <3>3
  <2>. QED
    BY <2>1, <2>2
<1>. QED
  BY <1>2, <1>3

(* What a relaxed pass has done of the pairs p when the first j lines have *)
(* been looked at.                                                         *)
NewlyClaimed(p, q, k) == p.match[k] = None /\ q.match[k] # None

ClaimFacts(p, q, rowKey, lineKey, N, j) ==
  /\ q \in GoodPairs(N)
  /\ \A k \in 1 .. N : k > j => q.match[k] = p.match[k]
  /\ \A k \in 1 .. N : p.match[k] # None => q.match[k] = p.match[k]
  /\ \A k \in 1 .. N : NewlyClaimed(p, q, k) =>
       /\ q.match[k] \in p.unclaimed /\ rowKey[q.match[k]] = lineKey[k]
       /\ \A l \in 1 .. N : l # k /\ lineKey[l] = lineKey[k] => p.match[l] # None
  /\ q.unclaimed \subseteq p.unclaimed
  /\ \A i \in p.unclaimed : i \in q.unclaimed \/ \E k \in 1 .. N : NewlyClaimed(p, q, k) /\ q.match[k] = i
  /\ \A n \in 1 .. N : n <= j => \A i : ClaimsRow(rowKey, lineKey, n, p, i) => q.match[n] = i

(* What it is to be a good pairing.                                        *)
LEMMA GoodPairsDef ==
  ASSUME NEW N, NEW p
  PROVE  p \in GoodPairs(N) <=>
           /\ p = [match |-> p.match, unclaimed |-> p.unclaimed]
           /\ p.match \in [1 .. N -> Claims] /\ p.unclaimed \in SUBSET Stored
           /\ \A k \in 1 .. N : p.match[k] \notin p.unclaimed
           /\ \A k, l \in 1 .. N : p.match[k] # None /\ p.match[k] = p.match[l] => k = l
  BY DEF GoodPairs, GoodPair

(* A claim keeps the pairing good.                                         *)
LEMMA ClaimedGood ==
  ASSUME NEW N \in Nat, NEW n \in 1 .. N, NEW before \in GoodPairs(N), NEW i \in before.unclaimed,
         before.match[n] = None, NEW q, q = Claimed(n, before, i)
  PROVE  /\ q \in GoodPairs(N) /\ i # None
         /\ q.match[n] = i /\ \A k \in 1 .. N : k # n => q.match[k] = before.match[k]
         /\ q.unclaimed = before.unclaimed \ {i}
<1> DEFINE m == before.match
           u == before.unclaimed
           c == q.match
<1>1. /\ m \in [1 .. N -> Claims] /\ u \in SUBSET Stored
      /\ \A k \in 1 .. N : m[k] \notin u
      /\ \A k, l \in 1 .. N : m[k] # None /\ m[k] = m[l] => k = l
  BY GoodPairsDef
<1>2. q = [match |-> q.match, unclaimed |-> q.unclaimed] /\ c = [m EXCEPT ![n] = i] /\ q.unclaimed = u \ {i}
  BY DEF Claimed
<1>3. i \in u /\ m[n] = None
  OBVIOUS
<1> HIDE DEF m, u, c
<1>4. i \in Claims /\ i # None
  BY <1>1, <1>3, NoneIsNoRow DEF Claims
<1>5. c \in [1 .. N -> Claims] /\ c[n] = i /\ \A k \in 1 .. N : k # n => c[k] = m[k]
  BY <1>1, <1>2, <1>4
<1>6. \A k \in 1 .. N : c[k] \notin u \ {i}
  BY <1>1, <1>3, <1>5
<1>7. \A k, l \in 1 .. N : c[k] # None /\ c[k] = c[l] => k = l
  BY <1>1, <1>3, <1>5
<1>8. q.unclaimed \in SUBSET Stored
  BY <1>1, <1>2
<1>9. q \in GoodPairs(N)
  BY <1>2, <1>5, <1>6, <1>7, <1>8, GoodPairsDef DEF c
<1>. QED
  BY <1>2, <1>4, <1>5, <1>9 DEF c, m, u

(* So does a line of a relaxed pass, whatever it does.                     *)
LEMMA ClaimGood ==
  ASSUME NEW N \in Nat, NEW rowKey, NEW lineKey, DOMAIN lineKey = 1 .. N, NEW n,
         NEW before \in GoodPairs(N)
  PROVE  AfterClaim(rowKey, lineKey, n, before) \in GoodPairs(N)
<1>1. CASE n \in 1 .. N
  <2> SUFFICES ASSUME NEW i, ClaimsRow(rowKey, lineKey, n, before, i),
                      AfterClaim(rowKey, lineKey, n, before) = Claimed(n, before, i)
               PROVE  AfterClaim(rowKey, lineKey, n, before) \in GoodPairs(N)
    BY <1>1, ClaimCases
  <2>1. i \in before.unclaimed /\ before.match[n] = None
    BY DEF ClaimsRow
  <2>. QED
    BY <1>1, <2>1, ClaimedGood
<1>2. CASE n \notin 1 .. N
  <2>1. {k \in DOMAIN lineKey : before.match[k] = None /\ lineKey[k] = lineKey[n]} # {n}
    BY <1>2
  <2>. QED
    BY <2>1 DEF AfterClaim
<1>. QED
  BY <1>1, <1>2

(* One more line of a relaxed pass.                                        *)
LEMMA ClaimFactsStep ==
  ASSUME NEW N \in Nat, NEW rowKey, NEW lineKey, DOMAIN lineKey = 1 .. N, NEW p \in GoodPairs(N),
         NEW j \in Nat, j + 1 \in 1 .. N, NEW before, ClaimFacts(p, before, rowKey, lineKey, N, j)
  PROVE  ClaimFacts(p, AfterClaim(rowKey, lineKey, j + 1, before), rowKey, lineKey, N, j + 1)
<1> DEFINE n == j + 1
           q == AfterClaim(rowKey, lineKey, n, before)
<1>1. /\ before \in GoodPairs(N)
      /\ \A k \in 1 .. N : k > j => before.match[k] = p.match[k]
      /\ \A k \in 1 .. N : p.match[k] # None => before.match[k] = p.match[k]
      /\ \A k \in 1 .. N : NewlyClaimed(p, before, k) =>
           /\ before.match[k] \in p.unclaimed /\ rowKey[before.match[k]] = lineKey[k]
           /\ \A l \in 1 .. N : l # k /\ lineKey[l] = lineKey[k] => p.match[l] # None
      /\ before.unclaimed \subseteq p.unclaimed
      /\ \A i \in p.unclaimed : \/ i \in before.unclaimed
                                \/ \E k \in 1 .. N : NewlyClaimed(p, before, k) /\ before.match[k] = i
      /\ \A k \in 1 .. N : k <= j => \A i : ClaimsRow(rowKey, lineKey, k, p, i) => before.match[k] = i
  BY DEF ClaimFacts
<1>2. n \in 1 .. N /\ n > j /\ before.match[n] = p.match[n]
  BY <1>1
<1>3. \A k \in 1 .. N : (k <= n => k <= j \/ k = n) /\ (k > n => k > j /\ k # n)
  OBVIOUS
<1>4. ASSUME NEW i, ClaimsRow(rowKey, lineKey, n, p, i)
      PROVE  ClaimsRow(rowKey, lineKey, n, before, i)
  <2>1. /\ p.match[n] = None /\ i \in p.unclaimed
        /\ \A x \in p.unclaimed : rowKey[x] = lineKey[n] <=> x = i
        /\ \A k \in 1 .. N : k # n /\ lineKey[k] = lineKey[n] => p.match[k] # None
    BY <1>4 DEF ClaimsRow
  <2>2. i \in before.unclaimed
    <3> SUFFICES ASSUME NEW k \in 1 .. N, NewlyClaimed(p, before, k), before.match[k] = i PROVE FALSE
      BY <1>1, <2>1
    <3>1. rowKey[i] = lineKey[k] /\ rowKey[i] = lineKey[n] /\ k # n /\ p.match[k] = None
      BY <1>1, <1>2, <2>1 DEF NewlyClaimed
    <3>. QED
      BY <2>1, <3>1
  <2>3. \A k \in 1 .. N : k # n /\ lineKey[k] = lineKey[n] => before.match[k] # None
    BY <1>1, <2>1
  <2>. QED
    BY <1>1, <1>2, <2>1, <2>2, <2>3 DEF ClaimsRow
<1> HIDE DEF n
<1>5. CASE q = before /\ \A i : ~ ClaimsRow(rowKey, lineKey, n, before, i)
  <2> SUFFICES ClaimFacts(p, before, rowKey, lineKey, N, n)
    BY <1>5 DEF n
  <2>1. \A k \in 1 .. N : k <= n => \A i : ClaimsRow(rowKey, lineKey, k, p, i) => before.match[k] = i
    BY <1>1, <1>3, <1>4, <1>5
  <2>. QED
    BY <1>1, <1>3, <2>1 DEF ClaimFacts
<1>6. ASSUME NEW i, ClaimsRow(rowKey, lineKey, n, before, i), q = Claimed(n, before, i)
      PROVE  ClaimFacts(p, q, rowKey, lineKey, N, n)
  <2>1. /\ before.match[n] = None /\ i \in before.unclaimed /\ rowKey[i] = lineKey[n]
        /\ \A x \in before.unclaimed : rowKey[x] = lineKey[n] <=> x = i
        /\ \A k \in 1 .. N : k # n /\ lineKey[k] = lineKey[n] => before.match[k] # None
    BY <1>6 DEF ClaimsRow
  <2> HIDE DEF q
  <2>2. /\ q \in GoodPairs(N) /\ i # None
        /\ q.match[n] = i /\ \A k \in 1 .. N : k # n => q.match[k] = before.match[k]
        /\ q.unclaimed = before.unclaimed \ {i}
    BY <1>1, <1>2, <1>6, <2>1, ClaimedGood
  <2>3. \A k \in 1 .. N : k > n => q.match[k] = p.match[k]
    BY <1>1, <1>3, <2>2
  <2>4. \A k \in 1 .. N : p.match[k] # None => q.match[k] = p.match[k]
    BY <1>1, <1>2, <2>1, <2>2
  <2>5. ASSUME NEW k \in 1 .. N, NewlyClaimed(p, q, k)
        PROVE  /\ q.match[k] \in p.unclaimed /\ rowKey[q.match[k]] = lineKey[k]
               /\ \A l \in 1 .. N : l # k /\ lineKey[l] = lineKey[k] => p.match[l] # None
    <3>1. CASE k # n
      BY <1>1, <2>2, <2>5, <3>1 DEF NewlyClaimed
    <3>2. CASE k = n
      <4>1. ASSUME NEW l \in 1 .. N, l # n, lineKey[l] = lineKey[n], p.match[l] = None PROVE FALSE
        <5>1. NewlyClaimed(p, before, l)
          BY <2>1, <4>1 DEF NewlyClaimed
        <5>2. p.match[n] # None
          BY <1>1, <1>2, <4>1, <5>1
        <5>. QED
          BY <1>2, <2>1, <5>2
      <4>. QED
        BY <1>1, <2>1, <2>2, <3>2, <4>1
    <3>. QED
      BY <3>1, <3>2
  <2>6. q.unclaimed \subseteq p.unclaimed
    BY <1>1, <2>2
  <2>7. ASSUME NEW x \in p.unclaimed
        PROVE  x \in q.unclaimed \/ \E k \in 1 .. N : NewlyClaimed(p, q, k) /\ q.match[k] = x
    <3>1. CASE x = i
      BY <1>2, <2>1, <2>2, <3>1 DEF NewlyClaimed
    <3>2. CASE x # i /\ x \in before.unclaimed
      BY <2>2, <3>2
    <3>3. CASE x \notin before.unclaimed
      <4>1. PICK k \in 1 .. N : NewlyClaimed(p, before, k) /\ before.match[k] = x
        BY <1>1, <3>3
      <4>2. k # n
        BY <2>1, <4>1 DEF NewlyClaimed
      <4>. QED
        BY <2>2, <4>1, <4>2 DEF NewlyClaimed
    <3>. QED
      BY <3>1, <3>2, <3>3
  <2>8. ASSUME NEW k \in 1 .. N, k <= n, NEW x, ClaimsRow(rowKey, lineKey, k, p, x)
        PROVE  q.match[k] = x
    <3>1. CASE k = n
      <4>1. ClaimsRow(rowKey, lineKey, n, before, x)
        BY <1>4, <2>8, <3>1
      <4>. QED
        BY <2>1, <2>2, <3>1, <4>1 DEF ClaimsRow
    <3>2. CASE k # n
      BY <1>1, <1>3, <2>2, <2>8, <3>2
    <3>. QED
      BY <3>1, <3>2
  <2>. QED
    BY <2>2, <2>3, <2>4, <2>5, <2>6, <2>7, <2>8 DEF ClaimFacts
<1>. QED
  BY <1>1, <1>2, <1>5, <1>6, ClaimCases DEF n

(* A relaxed pass over a whole revision.                                   *)
LEMMA ClaimByFacts ==
  ASSUME NEW N \in Nat, NEW rowKey, NEW lineKey, DOMAIN lineKey = 1 .. N, Len(lineKey) = N,
         NEW pairs \in GoodPairs(N)
  PROVE  ClaimFacts(pairs, ClaimBy(pairs, rowKey, lineKey), rowKey, lineKey, N, N)
<1> DEFINE V == GoodPairs(N)
           step == [x \in Nat \X V |-> AfterClaim(rowKey, lineKey, x[1] + 1, x[2])]
           Is(f) == f = [n \in Nat |-> IF n = 0 THEN pairs
                                       ELSE AfterClaim(rowKey, lineKey, n, f[n - 1])]
<1> HIDE DEF V
<1>1. pairs \in V
  BY DEF V
<1>2. ASSUME NEW n \in Nat, NEW p \in V PROVE AfterClaim(rowKey, lineKey, n, p) \in V
  BY ClaimGood DEF V
<1>3. step \in [Nat \X V -> V]
  <2>1. ASSUME NEW x \in Nat \X V PROVE AfterClaim(rowKey, lineKey, x[1] + 1, x[2]) \in V
    <3>1. x[1] + 1 \in Nat /\ x[2] \in V
      OBVIOUS
    <3>. QED
      BY <1>2, <3>1
  <2>. QED
    BY <2>1
<1>4. \A n \in Nat, p \in V : step[<<n, p>>] = AfterClaim(rowKey, lineKey, n + 1, p)
  OBVIOUS
<1> HIDE DEF step
<1>5. PICK h : IsRun(V, pairs, step, h)
  BY <1>1, <1>3, Recursion
<1>6. h \in [Nat -> V] /\ h[0] = pairs /\ \A n \in Nat : h[n + 1] = step[<<n, h[n]>>]
  BY <1>5 DEF IsRun
<1>7. Is(h)
  <2>1. ASSUME NEW n \in Nat, n # 0 PROVE h[n] = AfterClaim(rowKey, lineKey, n, h[n - 1])
    <3>1. n - 1 \in Nat /\ (n - 1) + 1 = n
      BY <2>1
    <3>2. h[n - 1] \in V
      BY <1>6, <3>1, Zenon
    <3>3. h[(n - 1) + 1] = step[<<n - 1, h[n - 1]>>]
      BY <1>6, <3>1, Zenon
    <3>4. step[<<n - 1, h[n - 1]>>] = AfterClaim(rowKey, lineKey, (n - 1) + 1, h[n - 1])
      BY <1>4, <3>1, <3>2, Zenon
    <3>. QED
      BY <3>1, <3>3, <3>4
  <2>2. h = [n \in Nat |-> h[n]]
    BY <1>6
  <2>. QED
    BY <1>6, <2>1, <2>2
<1> DEFINE g == CHOOSE f : Is(f)
<1>8. Is(g)
  BY <1>7
<1>9. ClaimBy(pairs, rowKey, lineKey) = g[N]
  BY DEF ClaimBy, AfterClaim
<1> HIDE DEF g
<1>10. \A n \in Nat : g[n] = IF n = 0 THEN pairs ELSE AfterClaim(rowKey, lineKey, n, g[n - 1])
  BY <1>8, Zenon
<1> DEFINE S == {n \in Nat : n <= N => ClaimFacts(pairs, g[n], rowKey, lineKey, N, n)}
<1>11. 0 \in S
  <2>1. \A k \in 1 .. N : ~ NewlyClaimed(pairs, pairs, k)
    BY DEF NewlyClaimed
  <2>2. \A k \in 1 .. N : ~ k <= 0
    OBVIOUS
  <2>3. ClaimFacts(pairs, pairs, rowKey, lineKey, N, 0)
    BY <2>1, <2>2 DEF ClaimFacts
  <2>. QED
    BY <1>10, <2>3
<1>12. ASSUME NEW n \in S PROVE n + 1 \in S
  <2>1. n \in Nat /\ n + 1 \in Nat /\ n + 1 # 0 /\ (n + 1) - 1 = n
    OBVIOUS
  <2> SUFFICES ASSUME n + 1 <= N PROVE ClaimFacts(pairs, g[n + 1], rowKey, lineKey, N, n + 1)
    BY <2>1
  <2>2. g[n + 1] = AfterClaim(rowKey, lineKey, n + 1, g[n])
    BY <1>10, <2>1
  <2>3. ClaimFacts(pairs, g[n], rowKey, lineKey, N, n) /\ n + 1 \in 1 .. N
    BY <2>1
  <2>4. ClaimFacts(pairs, AfterClaim(rowKey, lineKey, n + 1, g[n]), rowKey, lineKey, N, n + 1)
    BY <2>1, <2>3, ClaimFactsStep
  <2>. QED
    BY <2>2, <2>4
<1>13. S \in SUBSET Nat
  OBVIOUS
<1> HIDE DEF S
<1>14. N \in S
  BY <1>11, <1>12, <1>13, Induction
<1>. QED
  BY <1>9, <1>14 DEF S

(* The three passes of pairEntries over the lines of a revision.           *)
RowKeysBy(KeyOf(_)) == [i \in Stored |-> KeyOf(row[i])]
LineKeysBy(KeyOf(_), lines) == [k \in DOMAIN lines |-> KeyOf(lines[k])]

ByRisque(p, q, lines, N) ==
  ClaimFacts(p, q, RowKeysBy(CommuneAndRisque), LineKeysBy(CommuneAndRisque, lines), N, N)
ByPeriod(p, q, lines, N) ==
  ClaimFacts(p, q, RowKeysBy(IfUnresolved), LineKeysBy(DepartementAndPeriod, lines), N, N)

Passes(lines, N, match, exact, risque, period) ==
  /\ ExactlyPaired(exact, lines, N) /\ exact \in GoodPairs(N)
  /\ ByRisque(exact, risque, lines, N) /\ risque \in GoodPairs(N)
  /\ ByPeriod(risque, period, lines, N) /\ period \in GoodPairs(N)
  /\ match = period.match

(* pairEntries is an exact pass and two relaxed ones.                      *)
LEMMA PairEntriesPasses ==
  ASSUME NEW N \in Nat, NEW lines, DOMAIN lines = 1 .. N, Len(lines) = N, NEW match \in PairEntries(lines)
  PROVE  \E exact, risque, period : Passes(lines, N, match, exact, risque, period)
<1> DEFINE a == RowKeysBy(CommuneAndRisque)
           b == LineKeysBy(CommuneAndRisque, lines)
           c == RowKeysBy(IfUnresolved)
           d == LineKeysBy(DepartementAndPeriod, lines)
<1>1. PICK exact \in ExactPasses(lines) : match = ClaimBy(ClaimBy(exact, a, b), c, d).match
  BY DEF PairEntries, RowKeysBy, LineKeysBy
<1>2. DOMAIN b = 1 .. N /\ Len(b) = N /\ DOMAIN d = 1 .. N /\ Len(d) = N
  BY DEF LineKeysBy
<1> HIDE DEF a, b, c, d
<1>3. ExactlyPaired(exact, lines, N) /\ exact \in GoodPairs(N)
  <2>1. ExactlyPaired(exact, lines, N)
    BY ExactGood
  <2>. QED
    BY <2>1 DEF GoodPairs, GoodPair, ExactlyPaired
<1> DEFINE risque == ClaimBy(exact, a, b)
           period == ClaimBy(risque, c, d)
<1>4. ClaimFacts(exact, risque, a, b, N, N) /\ risque \in GoodPairs(N)
  <2>1. ClaimFacts(exact, risque, a, b, N, N)
    BY <1>2, <1>3, ClaimByFacts
  <2>. QED
    BY <2>1 DEF ClaimFacts
<1> HIDE DEF risque
<1>5. ClaimFacts(risque, period, c, d, N, N) /\ period \in GoodPairs(N)
  <2>1. ClaimFacts(risque, period, c, d, N, N)
    BY <1>2, <1>4, ClaimByFacts
  <2>. QED
    BY <2>1 DEF ClaimFacts
<1>6. match = period.match
  BY <1>1 DEF risque
<1> HIDE DEF period
<1>7. ByRisque(exact, risque, lines, N) /\ ByPeriod(risque, period, lines, N)
  BY <1>4, <1>5 DEF ByRisque, ByPeriod, a, b, c, d
<1>8. Passes(lines, N, match, exact, risque, period)
  BY <1>3, <1>4, <1>5, <1>6, <1>7 DEF Passes
<1>. QED
  BY <1>8

(* No row is given to two lines of a revision.                             *)
LEMMA PairEntriesGood ==
  ASSUME NEW N \in Nat, NEW lines, DOMAIN lines = 1 .. N, Len(lines) = N, NEW match \in PairEntries(lines)
  PROVE  /\ match \in [1 .. N -> Claims]
         /\ \A k, l \in 1 .. N : match[k] # None /\ match[k] = match[l] => k = l
<1>1. PICK exact, risque, period : Passes(lines, N, match, exact, risque, period)
  BY PairEntriesPasses
<1>. QED
  BY <1>1, GoodPairsDef DEF Passes

IsStoredAt(at, t) ==
  /\ at \in [1 .. Len(EntriesOf[t]) -> Id]
  /\ \A k, l \in 1 .. Len(EntriesOf[t]) : at[k] = at[l] => k = l
  /\ \A k \in 1 .. Len(EntriesOf[t]) :
       \E code \in Code \cup {None} : row[at[k]] = PlacedAs(EntriesOf[t][k], code)

AllStored == arrete # None => \E at : IsStoredAt(at, arrete)

OnRecord ==
  \A i \in Stored : row[i].code = None =>
    <<"UNMATCHED_COMMUNE", row[i].label, row[i].departement>> \in alerts

(* r is a printed line, placed on a commune that its label may name.       *)
IsPlaced(r) ==
  \E e \in EntriesPrinted, code \in Code \cup {None} :
    /\ r = PlacedAs(e, code)
    /\ code # None => Names(code, e.label, e.departement)

RowsPlaced == \A i \in Stored : IsPlaced(row[i])

RowsInv ==
  /\ TypeOK /\ row = [i \in Id |-> row[i]] /\ arrete \in DOMAIN EntriesOf \cup {None}
  /\ AllStored /\ OnRecord /\ RowsPlaced

(* An empty database.                                                      *)
LEMMA InitRows == Init => RowsInv
<1> SUFFICES ASSUME Init PROVE RowsInv
  OBVIOUS
<1>1. row = [i \in Id |-> None] /\ arrete = None /\ Stored = {}
  BY DEF Init, Stored
<1>2. commune \in [Code -> {"absent", "current", "closed"}]
  BY DEF Init
<1>3. delivered \in 0 .. MaxDeliveries /\ reforms \in 0 .. MaxReforms
  BY BoundAssumption DEF Init
<1>4. \A i \in Id : row[i] = None
  BY <1>1
<1>5. TypeOK
  BY <1>1, <1>2, <1>3, <1>4 DEF TypeOK
<1>6. row = [i \in Id |-> row[i]]
  BY <1>1
<1>. QED
  BY <1>1, <1>5, <1>6 DEF RowsInv, AllStored, OnRecord, RowsPlaced

-----------------------------------------------------------------------------
(* One text into its rows.                                                 *)

(* matchCommune answers with a commune the label may name, or with none.   *)
LEMMA MatchIsCode ==
  ASSUME NEW label, NEW departement
  PROVE  /\ MatchCommune(label, departement) \in Code \cup {None}
         /\ MatchCommune(label, departement) # None
              => Names(MatchCommune(label, departement), label, departement)
<1> DEFINE candidates == {c \in Code : commune[c] # "absent" /\ Names(c, label, departement)}
           current == {c \in candidates : commune[c] = "current"}
           pool == IF current # {} THEN current ELSE candidates
<1>1. pool \subseteq Code /\ \A c \in pool : Names(c, label, departement)
  OBVIOUS
<1>2. MatchCommune(label, departement) = IF Cardinality(pool) = 1 THEN CHOOSE c \in pool : TRUE ELSE None
  BY DEF MatchCommune
<1> HIDE DEF pool
<1>3. ASSUME Cardinality(pool) = 1 PROVE (CHOOSE c \in pool : TRUE) \in pool
  <2>1. IsFiniteSet(pool)
    BY <1>1, CodeAssumption, FS_Subset
  <2>2. PICK c : pool = {c}
    BY <1>3, <2>1, FS_Singleton
  <2>. QED
    BY <2>2
<1>. QED
  BY <1>1, <1>2, <1>3

(* The lines of a text, each placed on the referential.                    *)
LEMMA MatchedLines ==
  ASSUME NEW t \in DOMAIN EntriesOf
  PROVE  /\ Len(EntriesOf[t]) \in Nat /\ DOMAIN EntriesOf[t] = 1 .. Len(EntriesOf[t])
         /\ DOMAIN Matched(t) = 1 .. Len(EntriesOf[t]) /\ Len(Matched(t)) = Len(EntriesOf[t])
         /\ \A k \in 1 .. Len(EntriesOf[t]) :
              /\ Matched(t)[k] # None /\ EntriesOf[t][k] \in EntriesPrinted
              /\ IsPlaced(Matched(t)[k])
              /\ Matched(t)[k] = PlacedAs(EntriesOf[t][k], MatchCommune(EntriesOf[t][k].label, EntriesOf[t][k].departement))
              /\ \E code \in Code \cup {None} : Matched(t)[k] = PlacedAs(EntriesOf[t][k], code)
<1> DEFINE lines == EntriesOf[t]
           N == Len(lines)
<1>1. lines \in Seq(Said(print[t]))
  BY EntriesPlaces
<1>2. N \in Nat /\ DOMAIN lines = 1 .. N
  BY <1>1
<1>3. Matched(t) = [k \in 1 .. N |-> Placed(lines[k])]
  BY <1>2 DEF Matched
<1> HIDE DEF N, lines
<1>4. DOMAIN Matched(t) = 1 .. N /\ Len(Matched(t)) = N
  BY <1>2, <1>3
<1>5. ASSUME NEW k \in 1 .. N
      PROVE  /\ Matched(t)[k] # None /\ lines[k] \in EntriesPrinted /\ IsPlaced(Matched(t)[k])
             /\ Matched(t)[k] = PlacedAs(lines[k], MatchCommune(lines[k].label, lines[k].departement))
             /\ \E code \in Code \cup {None} : Matched(t)[k] = PlacedAs(lines[k], code)
  <2>1. Matched(t)[k] = PlacedAs(lines[k], MatchCommune(lines[k].label, lines[k].departement))
    BY <1>3 DEF Placed
  <2>2. /\ MatchCommune(lines[k].label, lines[k].departement) \in Code \cup {None}
        /\ MatchCommune(lines[k].label, lines[k].departement) # None
             => Names(MatchCommune(lines[k].label, lines[k].departement), lines[k].label, lines[k].departement)
    BY MatchIsCode
  <2>3. lines[k] \in EntriesPrinted
    BY <1>2 DEF lines, EntriesPrinted, ToSet
  <2>4. Matched(t)[k] # None
    BY <2>1, <2>2, <2>3, LineAssumption
  <2>5. IsPlaced(Matched(t)[k])
    BY <2>1, <2>2, <2>3 DEF IsPlaced
  <2>. QED
    BY <2>1, <2>2, <2>3, <2>4, <2>5
<1>. QED
  BY <1>2, <1>4, <1>5 DEF N, lines

(* A transaction that commits stores its text whole.                       *)
LEMMA StoreRows ==
  ASSUME RowsInv, NEW t \in DOMAIN EntriesOf, NEW match,
         match \in [1 .. Len(EntriesOf[t]) -> Claims],
         \A k, l \in 1 .. Len(EntriesOf[t]) : match[k] # None /\ match[k] = match[l] => k = l,
         Cardinality({k \in 1 .. Len(EntriesOf[t]) : match[k] = None}) <= Cardinality(Id \ Stored),
         Store(t, match), alerts \cup LineAlerts(Matched(t)) \subseteq alerts'
  PROVE  /\ row' = [i \in Id |-> row'[i]] /\ AllStored' /\ OnRecord' /\ RowsPlaced'
         /\ \A i \in Id : row'[i] # None => row'[i].code \in Code \cup {None}
<1> DEFINE N == Len(EntriesOf[t])
           lines == Matched(t)
<1>1. /\ N \in Nat /\ DOMAIN lines = 1 .. N /\ Len(lines) = N
      /\ \A k \in 1 .. N : /\ lines[k] # None /\ IsPlaced(lines[k])
                           /\ \E code \in Code \cup {None} : lines[k] = PlacedAs(EntriesOf[t][k], code)
  BY MatchedLines
<1>2. row' = Writes(match, lines)[N] /\ arrete' = t
  BY <1>1 DEF Store
<1> HIDE DEF N, lines
<1>3. PICK at : Written(match, lines, N, row', at)
  <2>1. row = [i \in Id |-> row[i]]
    BY DEF RowsInv
  <2>2. \A k \in 1 .. N : match[k] \in Stored \cup {None}
    BY DEF Claims, N
  <2>3. \A k \in 1 .. N : lines[k] # None
    BY <1>1
  <2>4. Cardinality({k \in 1 .. N : match[k] = None}) <= Cardinality(Id \ Stored)
    BY DEF N
  <2>5. \A k, l \in 1 .. N : match[k] # None /\ match[k] = match[l] => k = l
    BY DEF N
  <2>6. \E at : Written(match, lines, N, Writes(match, lines)[N], at)
    BY <1>1, <2>1, <2>2, <2>3, <2>4, <2>5, WritesAll
  <2>. QED
    BY <1>2, <2>6
<1>4. /\ row' = [i \in Id |-> row'[i]] /\ at \in [1 .. N -> Id]
      /\ \A k, l \in 1 .. N : at[k] = at[l] => k = l
      /\ \A k \in 1 .. N : row'[at[k]] = lines[k]
      /\ \A i \in Id : (\A k \in 1 .. N : at[k] # i) => row'[i] = row[i]
  BY <1>3 DEF Written
<1>5. IsStoredAt(at, t)'
  <2>1. \A k \in 1 .. N : \E code \in Code \cup {None} : row'[at[k]] = PlacedAs(EntriesOf[t][k], code)
    BY <1>1, <1>4
  <2>. QED
    BY <1>4, <2>1 DEF IsStoredAt, N
<1>6. AllStored'
  BY <1>2, <1>5 DEF AllStored
<1>7. ASSUME NEW i \in Id, row'[i] # None
      PROVE  (\E k \in 1 .. N : row'[i] = lines[k]) \/ (row'[i] = row[i] /\ i \in Stored)
  BY <1>4, <1>7 DEF Stored
<1>8. ASSUME NEW i \in Id, row'[i] # None PROVE row'[i].code \in Code \cup {None}
  <2>1. CASE \E k \in 1 .. N : row'[i] = lines[k]
    BY <1>1, <2>1 DEF PlacedAs
  <2>2. CASE row'[i] = row[i] /\ i \in Stored
    BY <2>2 DEF RowsInv, TypeOK, Stored
  <2>. QED
    BY <1>7, <1>8, <2>1, <2>2
<1>9. OnRecord'
  <2> SUFFICES ASSUME NEW i \in Id, row'[i] # None, row'[i].code = None
               PROVE  <<"UNMATCHED_COMMUNE", row'[i].label, row'[i].departement>> \in alerts'
    BY DEF OnRecord, Stored
  <2>1. CASE \E k \in 1 .. N : row'[i] = lines[k]
    <3>1. row'[i] \in ToSet(lines)
      BY <1>1, <2>1 DEF ToSet
    <3>2. <<"UNMATCHED_COMMUNE", row'[i].label, row'[i].departement>> \in LineAlerts(lines)
      BY <3>1 DEF LineAlerts
    <3>. QED
      BY <3>2 DEF lines
  <2>2. CASE row'[i] = row[i] /\ i \in Stored
    BY <2>2 DEF RowsInv, OnRecord
  <2>. QED
    BY <1>7, <2>1, <2>2
<1>10. RowsPlaced'
  <2>1. \A i \in Id : row'[i] # None => IsPlaced(row'[i])
    BY <1>1, <1>7 DEF RowsInv, RowsPlaced
  <2>2. \A i \in Stored' : i \in Id /\ row'[i] # None
    BY DEF Stored
  <2>3. \A i \in Stored' : IsPlaced(row'[i])
    BY <2>1, <2>2
  <2>. QED
    BY <2>3 DEF RowsPlaced, IsPlaced
<1>. QED
  BY <1>4, <1>6, <1>8, <1>9, <1>10

-----------------------------------------------------------------------------
(* The steps.                                                              *)

(* Steps that leave the rows alone.                                        *)
LEMMA RowsStay ==
  ASSUME RowsInv, UNCHANGED <<arrete, row>>, alerts \subseteq alerts',
         commune' \in [Code -> {"absent", "current", "closed"}],
         delivered' \in 0 .. MaxDeliveries, reforms' \in 0 .. MaxReforms
  PROVE  RowsInv'
<1>1. AllStored'
  BY DEF RowsInv, AllStored, IsStoredAt
<1>2. OnRecord'
  BY DEF RowsInv, OnRecord, Stored
<1>3. TypeOK'
  BY DEF RowsInv, TypeOK
<1>4. RowsPlaced'
  BY DEF RowsInv, RowsPlaced, IsPlaced, Stored
<1>. QED
  BY <1>1, <1>2, <1>3, <1>4 DEF RowsInv

(* A delivery is counted.                                                  *)
LEMMA DeliveredType == ASSUME RowsInv, Deliver PROVE delivered' \in 0 .. MaxDeliveries
  BY BoundAssumption DEF RowsInv, TypeOK, Deliver

(* The first text of the arrete.                                           *)
LEMMA CreatedRows == ASSUME RowsInv, NEW t \in Text, Created(t) PROVE RowsInv'
<1> DEFINE match == [n \in DOMAIN Matched(t) |-> None]
           N == Len(EntriesOf[t])
<1>1. t \in DOMAIN EntriesOf /\ arrete = None /\ Store(t, match) /\ UNCHANGED <<commune, reforms>>
      /\ Len(Matched(t)) <= MaxRow /\ alerts' = alerts \cup LineAlerts(Matched(t))
  BY DEF Created
<1>2. DOMAIN Matched(t) = 1 .. N /\ N \in Nat /\ Len(Matched(t)) = N
  BY <1>1, MatchedLines
<1>3. match \in [1 .. N -> Claims] /\ \A k \in 1 .. N : match[k] = None
  BY <1>2 DEF Claims
<1>4. Stored = {}
  BY <1>1 DEF RowsInv, TypeOK, Stored
<1> HIDE DEF match, N
<1>5. Cardinality({k \in 1 .. N : match[k] = None}) <= Cardinality(Id \ Stored)
  <2>1. {k \in 1 .. N : match[k] = None} = 1 .. N
    BY <1>3
  <2>2. Cardinality(1 .. N) = N
    <3>1. 1 \in Int /\ N \in Int
      BY <1>2
    <3>. QED
      BY <1>2, <3>1, FS_Interval
  <2>3. Id \ Stored = Id
    BY <1>4
  <2>. QED
    BY <1>1, <1>2, <2>1, <2>2, <2>3, IdFinite
<1>6. /\ row' = [i \in Id |-> row'[i]] /\ AllStored' /\ OnRecord' /\ RowsPlaced'
      /\ \A i \in Id : row'[i] # None => row'[i].code \in Code \cup {None}
  BY <1>1, <1>3, <1>5, StoreRows DEF N
<1>7. arrete' = t /\ t # None
  BY <1>1, TextAssumption DEF Store
<1>8. TypeOK'
  BY <1>1, <1>6, <1>7, DeliveredType DEF RowsInv, TypeOK, Created
<1>. QED
  BY <1>1, <1>6, <1>7, <1>8 DEF RowsInv

(* A rectificatif.                                                         *)
LEMMA CorrectedRows == ASSUME RowsInv, NEW t \in Text, Corrected(t) PROVE RowsInv'
<1> DEFINE N == Len(EntriesOf[t])
           lines == Matched(t)
<1>1. t \in DOMAIN EntriesOf /\ UNCHANGED <<commune, reforms>>
  BY DEF Corrected
<1>2. PICK match \in PairEntries(lines) :
        /\ Cardinality({n \in DOMAIN match : match[n] = None}) <= Cardinality(Id \ Stored)
        /\ Store(t, match)
        /\ alerts' = alerts \cup LineAlerts(lines) \cup OutcomeAlerts(match, lines)
  BY DEF Corrected
<1>3. DOMAIN lines = 1 .. N /\ N \in Nat /\ Len(lines) = N
  BY <1>1, MatchedLines
<1> HIDE DEF N
<1>4. /\ match \in [1 .. N -> Claims]
      /\ \A k, l \in 1 .. N : match[k] # None /\ match[k] = match[l] => k = l
  <2> HIDE DEF lines
  <2>. QED
    BY <1>2, <1>3, PairEntriesGood
<1>5. Cardinality({n \in 1 .. N : match[n] = None}) <= Cardinality(Id \ Stored)
  <2>1. DOMAIN match = 1 .. N
    BY <1>4
  <2>. QED
    BY <1>2, <2>1
<1>6. /\ row' = [i \in Id |-> row'[i]] /\ AllStored' /\ OnRecord' /\ RowsPlaced'
      /\ \A i \in Id : row'[i] # None => row'[i].code \in Code \cup {None}
  BY <1>1, <1>2, <1>4, <1>5, StoreRows DEF N
<1>7. arrete' = t /\ t # None
  BY <1>2, TextAssumption DEF Store
<1>8. TypeOK'
  BY <1>1, <1>6, <1>7, DeliveredType DEF RowsInv, TypeOK, Corrected
<1>. QED
  BY <1>1, <1>6, <1>7, <1>8 DEF RowsInv

(* RowsInv is inductive.                                                   *)
LEMMA NextRows == ASSUME RowsInv, [Next]_vars PROVE RowsInv'
<1>1. CASE UNCHANGED vars
  BY <1>1, RowsStay DEF vars, RowsInv, TypeOK
<1>2. ASSUME NEW t \in Text, Unchanged(t) \/ Unparseable(t) \/ IngestFails(t) PROVE RowsInv'
  <2>1. Deliver /\ UNCHANGED <<commune, arrete, row, reforms>> /\ alerts \subseteq alerts'
    BY <1>2 DEF Unchanged, Unparseable, IngestFails
  <2>. QED
    BY <2>1, DeliveredType, RowsStay DEF RowsInv, TypeOK
<1>3. ASSUME NEW saved \in SUBSET Code, Import(saved) PROVE RowsInv'
  <2>1. commune' \in [Code -> {"absent", "current", "closed"}]
    BY <1>3 DEF Import, RowsInv, TypeOK
  <2>2. reforms' \in 0 .. MaxReforms
    BY <1>3, BoundAssumption DEF Import, RowsInv, TypeOK
  <2>3. UNCHANGED <<arrete, row, alerts, delivered>>
    BY <1>3 DEF Import
  <2>. QED
    BY <2>1, <2>2, <2>3, RowsStay DEF RowsInv, TypeOK
<1>4. ASSUME NEW c \in Code, Close(c) PROVE RowsInv'
  <2>1. commune' \in [Code -> {"absent", "current", "closed"}]
    BY <1>4 DEF Close, RowsInv, TypeOK
  <2>2. reforms' \in 0 .. MaxReforms
    BY <1>4, BoundAssumption DEF Close, RowsInv, TypeOK
  <2>3. UNCHANGED <<arrete, row, alerts, delivered>>
    BY <1>4 DEF Close
  <2>. QED
    BY <2>1, <2>2, <2>3, RowsStay DEF RowsInv, TypeOK
<1>. QED
  BY <1>1, <1>2, <1>3, <1>4, CreatedRows, CorrectedRows DEF Next

-----------------------------------------------------------------------------
(* What the page may rely on.                                              *)

(* What is stored is what is printed.                                      *)
LEMMA RowsAsPrinted == RowsInv => StoredAsPrinted
<1> SUFFICES ASSUME RowsInv, arrete # None PROVE StoredAsPrinted
  BY DEF StoredAsPrinted
<1> DEFINE text == print[arrete]
           N == Len(EntriesOf[arrete])
<1>1. arrete \in DOMAIN EntriesOf
  BY DEF RowsInv
<1>2. PICK at : IsStoredAt(at, arrete)
  BY DEF RowsInv, AllStored
<1>3. PICK place \in [Positions(text) -> 1 .. N] :
        /\ \A p \in Positions(text) : EntriesOf[arrete][place[p]] = LineAt(text, p)
        /\ \A p, q \in Positions(text) : place[p] = place[q] => p = q
  BY <1>1, EntriesPlaces
<1>4. Printed[arrete] = [p \in Positions(text) |-> LineAt(text, p)]
  BY <1>1 DEF Printed
<1> HIDE DEF text, N
<1>5. ASSUME NEW p \in Positions(text)
      PROVE  /\ place[p] \in 1 .. N /\ at[place[p]] \in Id
             /\ Says(row[at[place[p]]], LineAt(text, p))
  <2>1. place[p] \in 1 .. N
    OBVIOUS
  <2>2. at[place[p]] \in Id
    BY <1>2, <2>1 DEF IsStoredAt, N
  <2>3. PICK code \in Code \cup {None} :
          row[at[place[p]]] = PlacedAs(EntriesOf[arrete][place[p]], code)
    BY <1>2, <2>1 DEF IsStoredAt, N
  <2>4. PlacedAs(EntriesOf[arrete][place[p]], code) # None
    <3>1. EntriesOf[arrete][place[p]] \in EntriesPrinted
      BY <1>1, <2>1, MatchedLines DEF N
    <3>. QED
      BY <3>1, LineAssumption
  <2>5. row[at[place[p]]] = PlacedAs(LineAt(text, p), code)
    BY <1>3, <2>3
  <2>6. Says(PlacedAs(LineAt(text, p), code), LineAt(text, p))
    BY <1>3, <2>4 DEF Says, PlacedAs, LineAt, Line
  <2>. QED
    BY <2>1, <2>2, <2>5, <2>6
<1>6. ASSUME NEW p \in Positions(text)
      PROVE  Cardinality({i \in Id : Says(row[i], LineAt(text, p))})
               >= Cardinality({q \in Positions(text) : LineAt(text, q) = LineAt(text, p)})
  <2> DEFINE T == {i \in Id : Says(row[i], LineAt(text, p))}
             S == {q \in Positions(text) : LineAt(text, q) = LineAt(text, p)}
             f == [q \in S |-> at[place[q]]]
  <2>1. IsFiniteSet(T)
    BY IdFinite, FS_Subset
  <2>2. \A q \in S : f[q] \in T
    BY <1>5
  <2>3. ASSUME NEW q \in S, NEW r \in S, f[q] = f[r] PROVE q = r
    <3>1. at[place[q]] = at[place[r]] /\ place[q] \in 1 .. N /\ place[r] \in 1 .. N
      BY <1>5, <2>3
    <3>2. place[q] = place[r]
      BY <1>2, <3>1 DEF IsStoredAt, N
    <3>. QED
      BY <1>3, <3>2
  <2> HIDE DEF f, S, T
  <2>4. IsFiniteSet(S) /\ Cardinality(S) <= Cardinality(T)
    BY <2>1, <2>2, <2>3, CountedBy
  <2>5. Cardinality(S) \in Nat /\ Cardinality(T) \in Nat
    BY <2>1, <2>4, FS_CardinalityType
  <2>. QED
    BY <2>4, <2>5 DEF S, T
<1>7. \A p \in DOMAIN Printed[arrete] :
        Cardinality({i \in Id : Says(row[i], Printed[arrete][p])})
          >= Cardinality({q \in DOMAIN Printed[arrete] : Printed[arrete][q] = Printed[arrete][p]})
  <2> SUFFICES ASSUME NEW p \in Positions(text)
               PROVE  Cardinality({i \in Id : Says(row[i], Printed[arrete][p])})
                        >= Cardinality({q \in DOMAIN Printed[arrete] : Printed[arrete][q] = Printed[arrete][p]})
    BY <1>4
  <2>1. {q \in DOMAIN Printed[arrete] : Printed[arrete][q] = Printed[arrete][p]}
          = {q \in Positions(text) : LineAt(text, q) = LineAt(text, p)}
    BY <1>4
  <2>2. Printed[arrete][p] = LineAt(text, p)
    BY <1>4
  <2>. QED
    BY <1>6, <2>1, <2>2
<1>. QED
  BY <1>7 DEF StoredAsPrinted, RowsInv, OnRecord

(* The variables keep their types.                                         *)
THEOREM PublicationType == Spec => []TypeOK
<1>1. RowsInv => TypeOK
  BY DEF RowsInv
<1>. QED
  BY <1>1, InitRows, NextRows, PTL DEF Spec

(* StoredAsPrinted: whatever revisions were ingested, refused or lost      *)
(* before, each line of the last stored text is a row of its own that says *)
(* it field for field, and a row without a commune is on record for the    *)
(* administrator.                                                          *)
THEOREM RowsSayWhatIsPrinted == Spec => []StoredAsPrinted
  BY InitRows, NextRows, RowsAsPrinted, PTL DEF Spec

-----------------------------------------------------------------------------
(* The calendar.                                                           *)

IsDay(a) == a.y \in Int /\ a.m \in 1 .. 12 /\ a.d \in 1 .. DaysIn(a.y, a.m)
MonthOf(a) == 12 * a.y + (a.m - 1)
Month(x) == [y |-> x \div 12, m |-> (x % 12) + 1]
LengthOf(x) == DaysIn(Month(x).y, Month(x).m)

(* A month has 28 to 31 days.                                              *)
LEMMA MonthLength == ASSUME NEW y, NEW m PROVE DaysIn(y, m) \in 28 .. 31
  BY DEF DaysIn

(* The same of a month by its number.                                      *)
LEMMA LengthType == ASSUME NEW x PROVE LengthOf(x) \in Nat /\ LengthOf(x) >= 28
  BY MonthLength DEF LengthOf

(* A number of months is a year and a month of it,                         *)
LEMMA MonthNumbered ==
  ASSUME NEW x \in Int
  PROVE  x \div 12 \in Int /\ (x % 12) + 1 \in 1 .. 12 /\ 12 * (x \div 12) + ((x % 12) + 1 - 1) = x
  OBVIOUS

(* in one way.                                                             *)
LEMMA MonthUnique ==
  ASSUME NEW y \in Int, NEW m \in 1 .. 12
  PROVE  (12 * y + (m - 1)) \div 12 = y /\ ((12 * y + (m - 1)) % 12) + 1 = m
  OBVIOUS

(* A day by the number of its month.                                       *)
LEMMA DayMonth ==
  ASSUME NEW a, IsDay(a)
  PROVE  /\ MonthOf(a) \in Int /\ a.d \in Nat /\ a.d >= 1 /\ a.d <= LengthOf(MonthOf(a))
         /\ \A n \in Int : MonthFrom(a, n) = Month(MonthOf(a) + n)
<1>1. a.y \in Int /\ a.m \in 1 .. 12 /\ a.d \in 1 .. DaysIn(a.y, a.m)
  BY DEF IsDay
<1>2. DaysIn(a.y, a.m) \in 28 .. 31
  BY MonthLength
<1>3. LengthOf(MonthOf(a)) = DaysIn(a.y, a.m)
  <2>1. MonthOf(a) \div 12 = a.y /\ (MonthOf(a) % 12) + 1 = a.m
    BY <1>1, MonthUnique DEF MonthOf
  <2>. QED
    BY <2>1 DEF LengthOf, Month
<1>4. MonthOf(a) \in Int
  BY <1>1 DEF MonthOf
<1>5. \A n \in Int : MonthFrom(a, n) = Month(MonthOf(a) + n)
  BY DEF MonthFrom, Month, MonthOf
<1>. QED
  BY <1>1, <1>2, <1>3, <1>4, <1>5

(* The order of two days is that of their months, then of their days,      *)
LEMMA InOrderByMonth ==
  ASSUME NEW a, NEW b, a.y \in Int, a.m \in 1 .. 12, b.y \in Int, b.m \in 1 .. 12
  PROVE  NotAfter(a, b) <=> \/ MonthOf(a) < MonthOf(b)
                            \/ MonthOf(a) = MonthOf(b) /\ a.d <= b.d
  BY DEF NotAfter, MonthOf

(* A day of the month x.                                                   *)
On(x, d) == [y |-> Month(x).y, m |-> Month(x).m, d |-> d]

(* of two days of numbered months too,                                     *)
LEMMA OnInOrder ==
  ASSUME NEW x \in Int, NEW z \in Int, NEW d, NEW e
  PROVE  NotAfter(On(x, d), On(z, e)) <=> x < z \/ (x = z /\ d <= e)
<1>1. /\ On(x, d).y \in Int /\ On(x, d).m \in 1 .. 12 /\ MonthOf(On(x, d)) = x /\ On(x, d).d = d
      /\ On(z, e).y \in Int /\ On(z, e).m \in 1 .. 12 /\ MonthOf(On(z, e)) = z /\ On(z, e).d = e
  BY MonthNumbered DEF On, Month, MonthOf
<1>. QED
  BY <1>1, InOrderByMonth

(* and of any two days of the calendar.                                    *)
LEMMA DayInOrder ==
  ASSUME NEW a, NEW b, IsDay(a), IsDay(b)
  PROVE  NotAfter(a, b) <=> \/ MonthOf(a) < MonthOf(b)
                            \/ MonthOf(a) = MonthOf(b) /\ a.d <= b.d
  BY InOrderByMonth DEF IsDay

Least(d, e) == IF d <= e THEN d ELSE e

(* Months added to a day: the same day of the month, or its last one.      *)
LEMMA AddMonthsIs ==
  ASSUME NEW a, IsDay(a), NEW n \in Int
  PROVE  AddMonths(a, n) = On(MonthOf(a) + n, Least(a.d, LengthOf(MonthOf(a) + n)))
  BY DayMonth DEF AddMonths, On, Least, LengthOf

(* A delay in months keeps the order of the days it is counted from.       *)
LEMMA AddMonthsKeepsOrder ==
  ASSUME NEW a, NEW b, IsDay(a), IsDay(b), NotAfter(a, b), NEW n \in Int
  PROVE  NotAfter(AddMonths(a, n), AddMonths(b, n))
<1> DEFINE x == MonthOf(a) + n
           z == MonthOf(b) + n
<1>1. x \in Int /\ z \in Int /\ (x < z \/ (x = z /\ a.d <= b.d)) /\ a.d \in Nat /\ b.d \in Nat
  BY DayMonth, DayInOrder
<1>2. LengthOf(x) \in Nat /\ LengthOf(z) \in Nat
  BY LengthType
<1> HIDE DEF x, z
<1>3. x < z \/ (x = z /\ Least(a.d, LengthOf(x)) <= Least(b.d, LengthOf(z)))
  BY <1>1, <1>2 DEF Least
<1>4. NotAfter(On(x, Least(a.d, LengthOf(x))), On(z, Least(b.d, LengthOf(z))))
  BY <1>1, <1>3, OnInOrder
<1>. QED
  BY <1>4, AddMonthsIs DEF x, z

(* A day of a month is in that month.                                      *)
LEMMA OnIs ==
  ASSUME NEW x \in Int, NEW d
  PROVE  /\ On(x, d).y \in Int /\ On(x, d).m \in 1 .. 12
         /\ MonthOf(On(x, d)) = x /\ On(x, d).d = d
<1>1. On(x, d).y = x \div 12 /\ On(x, d).m = (x % 12) + 1 /\ On(x, d).d = d
  BY DEF On, Month
<1>. QED
  BY <1>1, MonthNumbered DEF MonthOf

(* A window counted forwards is covered when it is counted back.           *)
LEMMA WindowCovers ==
  ASSUME NEW p, NEW q, IsDay(p), IsDay(q), NEW n \in Int, NotAfter(q, AddMonths(p, n))
  PROVE  NotAfter(AddMonths(q, -n), p)
<1> DEFINE x == MonthOf(p) + n
           z == MonthOf(q) + (-n)
<1>1. /\ x \in Int /\ z \in Int /\ p.d \in Nat /\ q.d \in Nat /\ -n \in Int
      /\ MonthOf(p) \in Int /\ MonthOf(q) \in Int
  BY DayMonth
<1>2. LengthOf(x) \in Nat /\ LengthOf(z) \in Nat
  BY LengthType
<1>3. q.y \in Int /\ q.m \in 1 .. 12 /\ p.y \in Int /\ p.m \in 1 .. 12
  BY DEF IsDay
<1>4. AddMonths(p, n) = On(x, Least(p.d, LengthOf(x))) /\ AddMonths(q, -n) = On(z, Least(q.d, LengthOf(z)))
  BY <1>1, AddMonthsIs
<1>5. z < MonthOf(p) \/ (z = MonthOf(p) /\ q.d <= Least(p.d, LengthOf(x)))
  <2>1. /\ On(x, Least(p.d, LengthOf(x))).y \in Int /\ On(x, Least(p.d, LengthOf(x))).m \in 1 .. 12
        /\ MonthOf(On(x, Least(p.d, LengthOf(x)))) = x
        /\ On(x, Least(p.d, LengthOf(x))).d = Least(p.d, LengthOf(x))
    BY <1>1, OnIs
  <2>2. MonthOf(q) < x \/ (MonthOf(q) = x /\ q.d <= Least(p.d, LengthOf(x)))
    BY <1>3, <1>4, <2>1, InOrderByMonth
  <2>3. z = MonthOf(q) - n /\ x = MonthOf(p) + n
    BY <1>1
  <2>. QED
    BY <1>1, <2>2, <2>3
<1>6. z < MonthOf(p) \/ (z = MonthOf(p) /\ Least(q.d, LengthOf(z)) <= p.d)
  BY <1>1, <1>2, <1>5 DEF Least
<1>7. /\ On(z, Least(q.d, LengthOf(z))).y \in Int /\ On(z, Least(q.d, LengthOf(z))).m \in 1 .. 12
      /\ MonthOf(On(z, Least(q.d, LengthOf(z)))) = z
      /\ On(z, Least(q.d, LengthOf(z))).d = Least(q.d, LengthOf(z))
  BY <1>1, OnIs
<1>. QED
  BY <1>3, <1>4, <1>6, <1>7, InOrderByMonth

(* The days of the n months from the one of a.                             *)
IsPast(a, f) ==
  f = [i \in Nat |-> IF i = 0 THEN 0
                     ELSE LET at == MonthFrom(a, i - 1) IN f[i - 1] + DaysIn(at.y, at.m)]
Past(a) == CHOOSE f : IsPast(a, f)

(* The days of the months, summed month by month.                          *)
LEMMA PastSteps ==
  ASSUME NEW a, IsDay(a)
  PROVE  /\ Past(a) \in [Nat -> Nat] /\ Past(a)[0] = 0
         /\ \A n \in Nat : Past(a)[n + 1] = Past(a)[n] + LengthOf(MonthOf(a) + n)
<1> DEFINE step == [x \in Nat \X Nat |-> x[2] + LengthOf(MonthOf(a) + x[1])]
<1>1. step \in [Nat \X Nat -> Nat]
  <2>1. ASSUME NEW x \in Nat \X Nat PROVE x[2] + LengthOf(MonthOf(a) + x[1]) \in Nat
    BY LengthType
  <2>. QED
    BY <2>1
<1>2. \A n, s \in Nat : step[<<n, s>>] = s + LengthOf(MonthOf(a) + n)
  OBVIOUS
<1> HIDE DEF step
<1>3. PICK h : IsRun(Nat, 0, step, h)
  BY <1>1, Recursion
<1>4. h \in [Nat -> Nat] /\ h[0] = 0 /\ \A n \in Nat : h[n + 1] = step[<<n, h[n]>>]
  BY <1>3 DEF IsRun
<1>5. ASSUME NEW n \in Nat
      PROVE  LET at == MonthFrom(a, n) IN DaysIn(at.y, at.m) = LengthOf(MonthOf(a) + n)
  BY DayMonth DEF LengthOf
<1>6. IsPast(a, h)
  <2>1. ASSUME NEW n \in Nat, n # 0
        PROVE  h[n] = LET at == MonthFrom(a, n - 1) IN h[n - 1] + DaysIn(at.y, at.m)
    <3>1. n - 1 \in Nat /\ (n - 1) + 1 = n
      BY <2>1
    <3>2. h[n - 1] \in Nat
      BY <1>4, <3>1, Zenon
    <3>3. h[(n - 1) + 1] = step[<<n - 1, h[n - 1]>>]
      BY <1>4, <3>1, Zenon
    <3>4. step[<<n - 1, h[n - 1]>>] = h[n - 1] + LengthOf(MonthOf(a) + (n - 1))
      BY <1>2, <3>1, <3>2, Zenon
    <3>5. LET at == MonthFrom(a, n - 1) IN DaysIn(at.y, at.m) = LengthOf(MonthOf(a) + (n - 1))
      BY <1>5, <3>1
    <3>. QED
      BY <3>1, <3>3, <3>4, <3>5
  <2>2. h = [n \in Nat |-> h[n]]
    BY <1>4
  <2>. QED
    BY <1>4, <2>1, <2>2 DEF IsPast
<1> DEFINE g == Past(a)
<1>7. IsPast(a, g)
  BY <1>6 DEF Past
<1> HIDE DEF g
<1>8. \A n \in Nat : g[n] = IF n = 0 THEN 0
                            ELSE LET at == MonthFrom(a, n - 1) IN g[n - 1] + DaysIn(at.y, at.m)
  BY <1>7, Zenon DEF IsPast
<1>9. g[0] = 0
  BY <1>8
<1>10. ASSUME NEW n \in Nat PROVE g[n + 1] = g[n] + LengthOf(MonthOf(a) + n)
  <2>1. n + 1 \in Nat /\ n + 1 # 0 /\ (n + 1) - 1 = n
    OBVIOUS
  <2>2. g[n + 1] = LET at == MonthFrom(a, n) IN g[n] + DaysIn(at.y, at.m)
    BY <1>8, <2>1
  <2>. QED
    BY <1>5, <2>2
<1> DEFINE S == {n \in Nat : g[n] \in Nat}
<1>11. 0 \in S
  BY <1>9
<1>12. ASSUME NEW n \in S PROVE n + 1 \in S
  <2>1. LengthOf(MonthOf(a) + n) \in Nat
    BY LengthType
  <2>. QED
    BY <1>10, <2>1
<1>13. S \in SUBSET Nat
  OBVIOUS
<1> HIDE DEF S
<1>14. \A n \in Nat : g[n] \in Nat
  BY <1>11, <1>12, <1>13, Induction DEF S
<1>15. g \in [Nat -> Nat]
  <2>1. g = [n \in Nat |-> IF n = 0 THEN 0
                           ELSE LET at == MonthFrom(a, n - 1) IN g[n - 1] + DaysIn(at.y, at.m)]
    BY <1>7 DEF IsPast
  <2>2. g = [n \in Nat |-> g[n]]
    BY <2>1, Zenon
  <2>. QED
    BY <1>14, <2>2
<1>. QED
  BY <1>9, <1>10, <1>15 DEF g

(* These sums are naturals.                                                *)
LEMMA PastType ==
  ASSUME NEW a, IsDay(a), NEW n \in Nat
  PROVE  /\ Past(a)[n] \in Nat /\ Past(a)[n + 1] \in Nat /\ LengthOf(MonthOf(a) + n) \in Nat
         /\ LengthOf(MonthOf(a) + n) >= 28 /\ Past(a)[n + 1] = Past(a)[n] + LengthOf(MonthOf(a) + n)
<1>1. n + 1 \in Nat
  OBVIOUS
<1>2. /\ Past(a) \in [Nat -> Nat]
      /\ \A k \in Nat : Past(a)[k + 1] = Past(a)[k] + LengthOf(MonthOf(a) + k)
  BY PastSteps
<1>3. \A k \in Nat : Past(a)[k] \in Nat
  BY <1>2
<1>. QED
  BY <1>1, <1>2, <1>3, LengthType

(* They grow.                                                              *)
LEMMA PastGrows ==
  ASSUME NEW a, IsDay(a), NEW i \in Nat, NEW j \in Nat, i <= j
  PROVE  Past(a)[i] <= Past(a)[j]
<1> DEFINE S == {d \in Nat : Past(a)[i] <= Past(a)[i + d]}
<1>1. 0 \in S
  <2>1. i + 0 = i /\ Past(a)[i] \in Nat
    BY PastType
  <2>. QED
    BY <2>1
<1>2. ASSUME NEW d \in S PROVE d + 1 \in S
  <2>1. i + d \in Nat /\ (i + d) + 1 = i + (d + 1)
    OBVIOUS
  <2>2. /\ Past(a)[i + d] \in Nat /\ Past(a)[i] \in Nat
        /\ Past(a)[(i + d) + 1] \in Nat /\ Past(a)[i + d] <= Past(a)[(i + d) + 1]
    BY <2>1, PastType
  <2>3. Past(a)[i] <= Past(a)[i + d]
    OBVIOUS
  <2>4. Past(a)[i] <= Past(a)[(i + d) + 1]
    BY <2>2, <2>3
  <2>. QED
    BY <2>1, <2>4
<1>3. S \in SUBSET Nat
  OBVIOUS
<1> HIDE DEF S
<1>4. j - i \in Nat /\ i + (j - i) = j
  OBVIOUS
<1>5. j - i \in S
  BY <1>1, <1>2, <1>3, <1>4, Induction
<1>. QED
  BY <1>4, <1>5 DEF S

(* Counted from a month k months later, the same days less those k months. *)
LEMMA PastFrom ==
  ASSUME NEW a, NEW b, IsDay(a), IsDay(b), NEW k \in Nat, MonthOf(b) = MonthOf(a) + k, NEW j \in Nat
  PROVE  Past(a)[k + j] = Past(a)[k] + Past(b)[j]
<1> DEFINE S == {i \in Nat : Past(a)[k + i] = Past(a)[k] + Past(b)[i]}
<1>1. 0 \in S
  <2>1. k + 0 = k /\ Past(a)[k] \in Nat /\ Past(b)[0] = 0
    BY PastType, PastSteps
  <2>. QED
    BY <2>1
<1>2. ASSUME NEW i \in S PROVE i + 1 \in S
  <2>1. k + i \in Nat /\ (k + i) + 1 = k + (i + 1) /\ MonthOf(a) + (k + i) = MonthOf(b) + i
    BY DayMonth
  <2>2. /\ Past(a)[(k + i) + 1] = Past(a)[k + i] + LengthOf(MonthOf(a) + (k + i))
        /\ Past(b)[i + 1] = Past(b)[i] + LengthOf(MonthOf(b) + i)
        /\ Past(a)[k + i] \in Nat /\ Past(b)[i] \in Nat /\ LengthOf(MonthOf(b) + i) \in Nat
        /\ Past(a)[k] \in Nat
    BY <2>1, PastType
  <2>3. Past(a)[k + i] = Past(a)[k] + Past(b)[i]
    OBVIOUS
  <2>4. Past(a)[(k + i) + 1] = Past(a)[k] + Past(b)[i + 1]
    BY <2>1, <2>2, <2>3
  <2>. QED
    BY <2>1, <2>4
<1>3. S \in SUBSET Nat
  OBVIOUS
<1> HIDE DEF S
<1>4. j \in S
  BY <1>1, <1>2, <1>3, Induction
<1>. QED
  BY <1>4 DEF S

(* The month n days later falls in: months have at least 28 days.          *)
Falls(a, n, k) == Past(a)[k] < a.d + n /\ a.d + n <= Past(a)[k + 1]

(* A delay in days ends in one of the months that follow.                  *)
LEMMA FallsSomewhere ==
  ASSUME NEW a, IsDay(a), NEW n \in Nat
  PROVE  \E k \in 0 .. n : Falls(a, n, k)
<1> DEFINE S == {k \in Nat : a.d + n <= Past(a)[k + 1]}
           T == {k \in Nat : a.d + k <= Past(a)[k + 1]}
<1>1. a.d \in Nat /\ a.d >= 1 /\ a.d <= LengthOf(MonthOf(a)) /\ MonthOf(a) \in Int
  BY DayMonth
<1>2. 0 \in T
  <2>1. Past(a)[0 + 1] = Past(a)[0] + LengthOf(MonthOf(a) + 0) /\ Past(a)[0] = 0
        /\ LengthOf(MonthOf(a) + 0) \in Nat
    BY PastType, PastSteps
  <2>2. MonthOf(a) + 0 = MonthOf(a)
    BY <1>1
  <2>. QED
    BY <1>1, <2>1, <2>2
<1>3. ASSUME NEW k \in T PROVE k + 1 \in T
  <2>1. k + 1 \in Nat
    OBVIOUS
  <2>2. /\ Past(a)[(k + 1) + 1] = Past(a)[k + 1] + LengthOf(MonthOf(a) + (k + 1))
        /\ Past(a)[k + 1] \in Nat /\ LengthOf(MonthOf(a) + (k + 1)) \in Nat
        /\ LengthOf(MonthOf(a) + (k + 1)) >= 28
    BY <2>1, PastType
  <2>3. a.d + k <= Past(a)[k + 1]
    OBVIOUS
  <2>4. a.d + (k + 1) <= Past(a)[(k + 1) + 1]
    BY <1>1, <2>2, <2>3
  <2>. QED
    BY <2>1, <2>4
<1>4. T \in SUBSET Nat /\ S \in SUBSET Nat
  OBVIOUS
<1>5. n \in T => n \in S
  OBVIOUS
<1> HIDE DEF S, T
<1>6. n \in S
  BY <1>2, <1>3, <1>4, <1>5, Induction
<1>7. PICK k \in S : \A i \in S : k <= i
  BY <1>4, <1>6, LeastNat
<1>8. k \in Nat /\ k <= n /\ a.d + n <= Past(a)[k + 1]
  BY <1>4, <1>6, <1>7 DEF S
<1>9. Past(a)[k] < a.d + n
  <2>1. CASE k = 0
    <3>1. Past(a)[0] = 0
      BY PastSteps
    <3>. QED
      BY <1>1, <2>1, <3>1
  <2>2. CASE k # 0
    <3>1. k - 1 \in Nat /\ (k - 1) + 1 = k /\ ~ (k <= k - 1)
      BY <1>8, <2>2
    <3>2. k - 1 \notin S
      BY <1>7, <3>1
    <3>3. ~ (a.d + n <= Past(a)[(k - 1) + 1])
      BY <3>1, <3>2 DEF S
    <3>4. Past(a)[k] \in Nat
      BY <1>8, PastType
    <3>. QED
      BY <1>1, <3>1, <3>3, <3>4
  <2>. QED
    BY <2>1, <2>2
<1>. QED
  BY <1>8, <1>9 DEF Falls

(* Days added to a day: the day of the month it ends in.                   *)
LEMMA AddDaysIs ==
  ASSUME NEW a, IsDay(a), NEW n \in Nat
  PROVE  \E k \in 0 .. n : /\ Falls(a, n, k)
                           /\ AddDays(a, n) = On(MonthOf(a) + k, a.d + n - Past(a)[k])
<1> DEFINE k == CHOOSE i \in 0 .. n : Falls(a, n, i)
<1>1. k \in 0 .. n /\ Falls(a, n, k)
  BY FallsSomewhere
<1>2. AddDays(a, n) = [y |-> MonthFrom(a, k).y, m |-> MonthFrom(a, k).m, d |-> a.d + n - Past(a)[k]]
  BY DEF AddDays, Falls, Past, IsPast
<1> HIDE DEF k
<1>3. MonthFrom(a, k) = Month(MonthOf(a) + k)
  BY <1>1, DayMonth
<1>. QED
  BY <1>1, <1>2, <1>3 DEF On

(* A delay in days keeps the order of the days it is counted from.         *)
LEMMA AddDaysKeepsOrder ==
  ASSUME NEW a, NEW b, IsDay(a), IsDay(b), NotAfter(a, b), NEW n \in Nat
  PROVE  NotAfter(AddDays(a, n), AddDays(b, n))
<1>1. PICK i \in 0 .. n : Falls(a, n, i) /\ AddDays(a, n) = On(MonthOf(a) + i, a.d + n - Past(a)[i])
  BY AddDaysIs
<1>2. PICK j \in 0 .. n : Falls(b, n, j) /\ AddDays(b, n) = On(MonthOf(b) + j, b.d + n - Past(b)[j])
  BY AddDaysIs
<1> DEFINE k == MonthOf(b) - MonthOf(a)
<1>3. /\ MonthOf(a) \in Int /\ MonthOf(b) \in Int /\ a.d \in Nat /\ b.d \in Nat
      /\ k \in Nat /\ MonthOf(b) = MonthOf(a) + k /\ (k = 0 => a.d <= b.d)
  BY DayMonth, DayInOrder
<1>4. a.d <= Past(a)[k] + b.d
  <2>1. CASE k = 0
    <3>1. Past(a)[0] = 0
      BY PastSteps
    <3>. QED
      BY <1>3, <2>1, <3>1
  <2>2. CASE k # 0
    <3> HIDE DEF k
    <3>1. 0 \in Nat /\ 0 + 1 = 1 /\ 1 <= k /\ 1 \in Nat
      BY <1>3, <2>2
    <3>2. Past(a)[1] <= Past(a)[k] /\ Past(a)[k] \in Nat
      BY <1>3, <3>1, PastGrows, PastType
    <3>3. Past(a)[0 + 1] = Past(a)[0] + LengthOf(MonthOf(a) + 0) /\ Past(a)[0] = 0
          /\ LengthOf(MonthOf(a) + 0) \in Nat
      BY PastSteps, PastType
    <3>4. MonthOf(a) + 0 = MonthOf(a) /\ a.d <= LengthOf(MonthOf(a))
      BY <1>3, DayMonth
    <3>. QED
      BY <1>3, <3>1, <3>2, <3>3, <3>4
  <2>. QED
    BY <2>1, <2>2
<1> HIDE DEF k
<1>5. /\ i \in Nat /\ j \in Nat /\ k + j \in Nat /\ (k + j) + 1 \in Nat /\ k + (j + 1) = (k + j) + 1
      /\ j + 1 \in Nat
  BY <1>3
<1>6. /\ Past(a)[k + j] = Past(a)[k] + Past(b)[j]
      /\ Past(a)[(k + j) + 1] = Past(a)[k] + Past(b)[j + 1]
  BY <1>3, <1>5, PastFrom
<1>7. /\ Past(a)[i] \in Nat /\ Past(a)[k] \in Nat /\ Past(b)[j] \in Nat /\ Past(b)[j + 1] \in Nat
      /\ Past(a)[(k + j) + 1] \in Nat
  BY <1>3, <1>5, PastType
<1>8. i <= k + j
  <2>1. SUFFICES ASSUME (k + j) + 1 <= i PROVE FALSE
    BY <1>3, <1>5
  <2>2. Past(a)[(k + j) + 1] <= Past(a)[i]
    BY <1>5, <2>1, PastGrows
  <2>3. Past(a)[i] < a.d + n /\ b.d + n <= Past(b)[j + 1]
    BY <1>1, <1>2 DEF Falls
  <2>. QED
    BY <1>3, <1>4, <1>6, <1>7, <2>2, <2>3
<1>9. CASE i < k + j
  <2>1. MonthOf(a) + i < MonthOf(b) + j /\ MonthOf(a) + i \in Int /\ MonthOf(b) + j \in Int
    BY <1>3, <1>5, <1>9
  <2>. QED
    BY <1>1, <1>2, <2>1, OnInOrder
<1>10. CASE i = k + j
  <2>1. MonthOf(a) + i = MonthOf(b) + j /\ MonthOf(a) + i \in Int /\ MonthOf(b) + j \in Int
    BY <1>3, <1>5, <1>10
  <2>2. a.d + n - Past(a)[i] <= b.d + n - Past(b)[j]
    BY <1>3, <1>4, <1>6, <1>7, <1>10
  <2>. QED
    BY <1>1, <1>2, <2>1, <2>2, OnInOrder
<1>. QED
  BY <1>5, <1>3, <1>8, <1>9, <1>10

-----------------------------------------------------------------------------
(* The answer about a commune.                                             *)

(* DaysOf are days of the calendar.                                        *)
LEMMA DaysAreDays ==
  ASSUME NEW a \in DaysOf(Years)
  PROVE  IsDay(a)
  BY DateAssumption DEF DaysOf, IsDay

(* Deadlines and the window of the page keep the order of publication,     *)
(* whatever the two days.                                                  *)
LEMMA EveryDateInOrder ==
  ASSUME NEW p \in DaysOf(Years)
  PROVE  InOrder(p)
<1> SUFFICES ASSUME NEW q \in Days, NotAfter(p, q)
             PROVE  /\ ActiveRule(Rules, p) = ActiveRule(Rules, q) /\ ActiveRule(Rules, p) # NoDate
                         => NotAfter(DeclarationDate(Rules, "RECONNU", p), DeclarationDate(Rules, "RECONNU", q))
                    /\ NotAfter(q, ResolveDeadline(p, WindowMonths, "MONTHS")) => Listed(p, q)
  BY DEF InOrder
<1>1. IsDay(p) /\ IsDay(q)
  BY DaysAreDays DEF Days
<1>2. ASSUME ActiveRule(Rules, p) = ActiveRule(Rules, q), ActiveRule(Rules, p) # NoDate
      PROVE  NotAfter(DeclarationDate(Rules, "RECONNU", p), DeclarationDate(Rules, "RECONNU", q))
  <2> DEFINE rule == ActiveRule(Rules, p)
  <2>1. rule \in Rules
    BY <1>2 DEF ActiveRule
  <2>2. rule.duration \in Nat /\ rule.duration \in Int
    BY <2>1, DateAssumption
  <2>3. /\ DeclarationDate(Rules, "RECONNU", p) = ResolveDeadline(p, rule.duration, rule.unit)
        /\ DeclarationDate(Rules, "RECONNU", q) = ResolveDeadline(q, rule.duration, rule.unit)
    BY <1>2 DEF DeclarationDate
  <2> HIDE DEF rule
  <2>4. CASE rule.unit = "MONTHS"
    BY <1>1, <2>2, <2>3, <2>4, AddMonthsKeepsOrder DEF ResolveDeadline
  <2>5. CASE rule.unit # "MONTHS"
    BY <1>1, <2>2, <2>3, <2>5, AddDaysKeepsOrder DEF ResolveDeadline
  <2>. QED
    BY <2>4, <2>5
<1>3. ASSUME NotAfter(q, ResolveDeadline(p, WindowMonths, "MONTHS")) PROVE Listed(p, q)
  <2>1. NotAfter(q, AddMonths(p, WindowMonths)) /\ WindowMonths \in Int
    BY <1>3, DateAssumption DEF ResolveDeadline
  <2>2. NotAfter(AddMonths(q, - WindowMonths), p)
    BY <1>1, <2>1, WindowCovers
  <2>. QED
    BY <2>2 DEF Listed, ResolveDeadline
<1>. QED
  BY <1>2, <1>3

(* DeadlinesKeepOrder: an earlier publication never has a later            *)
(* declaration deadline under the same version of the rule and stays       *)
(* listed for a whole window (resolveDeadline), over any years and any     *)
(* rules.                                                                  *)
THEOREM DeadlinesAreInOrder == Spec => []DeadlinesKeepOrder
<1>1. RowsInv => DeadlinesKeepOrder
  <2> SUFFICES ASSUME RowsInv, arrete # None PROVE print[arrete].publishedAt \in Ordered
    BY DEF DeadlinesKeepOrder
  <2>1. arrete \in Text
    BY DEF RowsInv, TypeOK
  <2>2. print[arrete].publishedAt \in DaysOf(Years)
    BY <2>1, DateAssumption
  <2>3. print[arrete].publishedAt \in {print[t].publishedAt : t \in Text}
    BY <2>1
  <2>. QED
    BY <2>2, <2>3, EveryDateInOrder DEF Ordered
<1>. QED
  BY <1>1, InitRows, NextRows, PTL DEF Spec

-----------------------------------------------------------------------------
(* What a paired row and its line speak of.                                *)

Speaks(r, line) == meantBy[r.label] = meantBy[line.label] /\ r.risque = line.risque

(* Two placed rows of one code are about one commune.                      *)
LEMMA OneCommune ==
  ASSUME NEW r, NEW s, IsPlaced(r), IsPlaced(s), r.code # None, r.code = s.code
  PROVE  meantBy[r.label] = meantBy[s.label]
<1>1. PICK e \in EntriesPrinted, c \in Code \cup {None} :
        r = PlacedAs(e, c) /\ (c # None => Names(c, e.label, e.departement))
  BY DEF IsPlaced
<1>2. PICK f \in EntriesPrinted, d \in Code \cup {None} :
        s = PlacedAs(f, d) /\ (d # None => Names(d, f.label, f.departement))
  BY DEF IsPlaced
<1>3. r.code = c /\ s.code = d /\ r.label = e.label /\ s.label = f.label
  BY <1>1, <1>2 DEF PlacedAs
<1>4. c \in Code /\ Names(c, e.label, e.departement) /\ Names(c, f.label, f.departement)
  BY <1>1, <1>2, <1>3
<1>5. meantBy[e.label] = meantBy[f.label]
  BY <1>4, LabelAssumption
<1>. QED
  BY <1>3, <1>5

(* A row and a line that say the same speak of one commune and risk.       *)
LEMMA ExactSpeaks ==
  ASSUME NEW i, NEW line, IsPlaced(row[i]), IsPlaced(line), IsSameEntry(i, line)
  PROVE  Speaks(row[i], line)
<1>1. row[i].risque = line.risque
  BY DEF IsSameEntry
<1>2. CASE row[i].code # None /\ line.code # None
  <2>1. row[i].code = line.code
    BY <1>2 DEF IsSameEntry
  <2>. QED
    BY <1>1, <1>2, <2>1, OneCommune DEF Speaks
<1>3. CASE ~ (row[i].code # None /\ line.code # None)
  BY <1>1, <1>3 DEF IsSameEntry, Speaks
<1>. QED
  BY <1>2, <1>3

(* Two rows of one key of the second pass share their code, or their label *)
(* when none has one.                                                      *)
LEMMA SameKey ==
  ASSUME NEW r, NEW s, CommuneAndRisque(r) = CommuneAndRisque(s)
  PROVE  /\ r.risque = s.risque
         /\ \/ r.code # None /\ r.code = s.code
            \/ r.code = None /\ s.code = None /\ r.label = s.label /\ r.departement = s.departement
<1>1. CASE r.code # None /\ s.code # None
  BY <1>1 DEF CommuneAndRisque
<1>2. CASE r.code = None /\ s.code = None
  BY <1>2 DEF CommuneAndRisque
<1>3. \A a, b, c, d, e : <<a, b>> # <<c, d, e>>
  OBVIOUS
<1>. QED
  BY <1>1, <1>2, <1>3 DEF CommuneAndRisque

(* So they speak of one commune and risk.                                  *)
LEMMA KeySpeaks ==
  ASSUME NEW i, NEW line, IsPlaced(row[i]), IsPlaced(line), CommuneAndRisque(row[i]) = CommuneAndRisque(line)
  PROVE  Speaks(row[i], line)
  BY SameKey, OneCommune DEF Speaks

(* A line paired by the first two passes speaks of the commune and risk of *)
(* its row.                                                                *)
LEMMA PassesSpeak ==
  ASSUME RowsPlaced, NEW N \in Nat, NEW lines, DOMAIN lines = 1 .. N, \A k \in 1 .. N : IsPlaced(lines[k]),
         NEW match, NEW exact, NEW risque, NEW period, Passes(lines, N, match, exact, risque, period),
         NEW k \in 1 .. N, risque.match[k] # None
  PROVE  risque.match[k] \in Stored /\ Speaks(row[risque.match[k]], lines[k]) /\ match[k] = risque.match[k]
<1>1. /\ ExactlyPaired(exact, lines, N) /\ exact \in GoodPairs(N)
      /\ ByRisque(exact, risque, lines, N) /\ risque \in GoodPairs(N)
      /\ ByPeriod(risque, period, lines, N) /\ match = period.match
  BY DEF Passes
<1>2. risque.match[k] \in Stored
  BY <1>1, GoodPairsDef DEF Claims
<1>3. match[k] = risque.match[k]
  BY <1>1 DEF ByPeriod, ClaimFacts
<1>4. CASE exact.match[k] # None
  <2>1. risque.match[k] = exact.match[k]
    BY <1>1, <1>4 DEF ByRisque, ClaimFacts
  <2>2. IsSameEntry(exact.match[k], lines[k])
    BY <1>1, <1>4 DEF ExactlyPaired
  <2>. QED
    BY <1>2, <1>3, <2>1, <2>2, ExactSpeaks DEF RowsPlaced
<1>5. CASE exact.match[k] = None
  <2>1. NewlyClaimed(exact, risque, k)
    BY <1>5 DEF NewlyClaimed
  <2>2. RowKeysBy(CommuneAndRisque)[risque.match[k]] = LineKeysBy(CommuneAndRisque, lines)[k]
    BY <1>1, <2>1 DEF ByRisque, ClaimFacts
  <2>3. CommuneAndRisque(row[risque.match[k]]) = CommuneAndRisque(lines[k])
    BY <1>2, <2>2 DEF RowKeysBy, LineKeysBy
  <2>. QED
    BY <1>2, <1>3, <2>3, KeySpeaks DEF RowsPlaced
<1>. QED
  BY <1>4, <1>5

(* The last pass gives a line a row without a commune, alone of its        *)
(* departement, risk and period.                                           *)
LEMMA LastPass ==
  ASSUME NEW N \in Nat, NEW lines, DOMAIN lines = 1 .. N, \A k \in 1 .. N : IsPlaced(lines[k]),
         NEW match, NEW exact, NEW risque, NEW period, Passes(lines, N, match, exact, risque, period),
         NEW k \in 1 .. N, risque.match[k] = None, match[k] # None
  PROVE  /\ match[k] \in Stored /\ match[k] \in exact.unclaimed /\ row[match[k]].code = None
         /\ DepartementAndPeriod(row[match[k]]) = DepartementAndPeriod(lines[k])
         /\ \A l \in 1 .. N :
              l # k /\ DepartementAndPeriod(lines[l]) = DepartementAndPeriod(lines[k]) => risque.match[l] # None
<1>1. /\ ExactlyPaired(exact, lines, N) /\ exact \in GoodPairs(N)
      /\ ByRisque(exact, risque, lines, N) /\ risque \in GoodPairs(N)
      /\ ByPeriod(risque, period, lines, N) /\ match = period.match /\ period \in GoodPairs(N)
  BY DEF Passes
<1>2. match[k] \in Stored
  BY <1>1, GoodPairsDef DEF Claims
<1>3. NewlyClaimed(risque, period, k)
  BY <1>1 DEF NewlyClaimed
<1>4. /\ match[k] \in risque.unclaimed
      /\ RowKeysBy(IfUnresolved)[match[k]] = LineKeysBy(DepartementAndPeriod, lines)[k]
      /\ \A l \in 1 .. N : l # k /\ LineKeysBy(DepartementAndPeriod, lines)[l] = LineKeysBy(DepartementAndPeriod, lines)[k]
                             => risque.match[l] # None
  BY <1>1, <1>3 DEF ByPeriod, ClaimFacts
<1>5. match[k] \in exact.unclaimed
  BY <1>1, <1>4 DEF ByRisque, ClaimFacts
<1>6. \A l \in 1 .. N : LineKeysBy(DepartementAndPeriod, lines)[l] = DepartementAndPeriod(lines[l])
  BY DEF LineKeysBy
<1>7. IfUnresolved(row[match[k]]) = DepartementAndPeriod(lines[k])
  BY <1>2, <1>4, <1>6 DEF RowKeysBy
<1>8. DepartementAndPeriod(lines[k]) # None
  <2>1. PICK e \in EntriesPrinted, c \in Code \cup {None} : lines[k] = PlacedAs(e, c)
    BY DEF IsPlaced
  <2>2. DepartementAndPeriod(lines[k]) = DepartementAndPeriod(e)
    BY <2>1 DEF PlacedAs, DepartementAndPeriod
  <2>. QED
    BY <2>2, LineAssumption
<1>. QED
  BY <1>2, <1>4, <1>5, <1>6, <1>7, <1>8 DEF IfUnresolved

-----------------------------------------------------------------------------
(* A row the referential never placed.                                     *)

(* n is the one line of the commune and risk of the row i, the only row of *)
(* them, and corrects it.                                                  *)
OnlyLine(i, n, lines, N) ==
  /\ i \in Stored /\ RowsAbout(i) = {i} /\ n \in 1 .. N
  /\ \A l \in 1 .. N : Speaks(row[i], lines[l]) <=> l = n
  /\ lines[n].departement = row[i].departement
  /\ lines[n].period = row[i].period \/ (lines[n].label = row[i].label /\ lines[n].code = row[i].code)

(* That row goes to the one line of its commune and risk when there is one *)
(* such line and no other such row.                                        *)
LEMMA OnlyLineTakes ==
  ASSUME RowsPlaced, NEW N \in Nat, NEW lines, DOMAIN lines = 1 .. N, \A k \in 1 .. N : IsPlaced(lines[k]),
         NEW match, NEW exact, NEW risque, NEW period, Passes(lines, N, match, exact, risque, period),
         NEW i, NEW n, OnlyLine(i, n, lines, N), row[i].code = None,
         NEW k \in 1 .. N, risque.match[k] = None, match[k] = i
  PROVE  k = n
<1> SUFFICES ASSUME k # n PROVE FALSE
  OBVIOUS
<1>1. /\ ExactlyPaired(exact, lines, N) /\ exact \in GoodPairs(N)
      /\ ByRisque(exact, risque, lines, N) /\ risque \in GoodPairs(N)
      /\ ByPeriod(risque, period, lines, N) /\ match = period.match /\ period \in GoodPairs(N)
  BY DEF Passes
<1>2. i \in Stored /\ RowsAbout(i) = {i} /\ n \in 1 .. N /\ Speaks(row[i], lines[n])
  BY DEF OnlyLine
<1>3. i # None
  BY <1>2, NoneIsNoRow
<1>4. /\ i \in exact.unclaimed
      /\ DepartementAndPeriod(row[i]) = DepartementAndPeriod(lines[k])
      /\ \A l \in 1 .. N :
           l # k /\ DepartementAndPeriod(lines[l]) = DepartementAndPeriod(lines[k]) => risque.match[l] # None
  BY <1>3, LastPass
<1>5. \A j \in Stored : Speaks(row[j], lines[n]) => j = i
  <2> SUFFICES ASSUME NEW j \in Stored, Speaks(row[j], lines[n]) PROVE j \in RowsAbout(i)
    BY <1>2
  <2>. QED
    BY <1>2 DEF RowsAbout, Speaks
<1>6. risque.match[n] = None
  <2> SUFFICES ASSUME risque.match[n] # None PROVE FALSE
    OBVIOUS
  <2>1. /\ risque.match[n] \in Stored /\ Speaks(row[risque.match[n]], lines[n])
        /\ match[n] = risque.match[n]
    BY <1>2, PassesSpeak
  <2>2. match[n] = i
    BY <1>5, <2>1
  <2>. QED
    BY <1>1, <1>2, <1>3, <2>2, GoodPairsDef
<1>7. CASE lines[n].period = row[i].period
  <2>1. DepartementAndPeriod(row[i]) = DepartementAndPeriod(lines[n])
    BY <1>2, <1>7 DEF OnlyLine, DepartementAndPeriod, Speaks
  <2>. QED
    BY <1>2, <1>4, <1>6, <2>1
<1>8. CASE lines[n].label = row[i].label /\ lines[n].code = row[i].code
  <2>1. CommuneAndRisque(row[i]) = CommuneAndRisque(lines[n])
    BY <1>2, <1>8 DEF OnlyLine, CommuneAndRisque, Speaks
  <2>2. exact.match[n] = None
    BY <1>1, <1>2, <1>6 DEF ByRisque, ClaimFacts
  <2>3. \A j \in exact.unclaimed : RowKeysBy(CommuneAndRisque)[j] = LineKeysBy(CommuneAndRisque, lines)[n] <=> j = i
    <3>1. LineKeysBy(CommuneAndRisque, lines)[n] = CommuneAndRisque(lines[n])
      BY <1>2 DEF LineKeysBy
    <3>2. \A j \in Stored : RowKeysBy(CommuneAndRisque)[j] = CommuneAndRisque(row[j])
      BY DEF RowKeysBy
    <3>3. exact.unclaimed \subseteq Stored
      BY <1>1, GoodPairsDef
    <3>4. ASSUME NEW j \in Stored, CommuneAndRisque(row[j]) = CommuneAndRisque(lines[n]) PROVE j = i
      <4>1. IsPlaced(row[j])
        BY DEF RowsPlaced
      <4>2. Speaks(row[j], lines[n])
        BY <1>2, <3>4, <4>1, KeySpeaks
      <4>. QED
        BY <1>5, <4>2
    <3>. QED
      BY <1>2, <2>1, <3>1, <3>2, <3>3, <3>4
  <2>4. \A l \in 1 .. N : l # n /\ LineKeysBy(CommuneAndRisque, lines)[l] = LineKeysBy(CommuneAndRisque, lines)[n]
                            => exact.match[l] # None
    <3> SUFFICES ASSUME NEW l \in 1 .. N, CommuneAndRisque(lines[l]) = CommuneAndRisque(lines[n]) PROVE l = n
      BY <1>2 DEF LineKeysBy
    <3>1. CommuneAndRisque(row[i]) = CommuneAndRisque(lines[l])
      BY <2>1
    <3>2. IsPlaced(row[i])
      BY <1>2 DEF RowsPlaced
    <3>3. Speaks(row[i], lines[l])
      BY <3>1, <3>2, KeySpeaks
    <3>. QED
      BY <3>3 DEF OnlyLine
  <2>5. ClaimsRow(RowKeysBy(CommuneAndRisque), LineKeysBy(CommuneAndRisque, lines), n, exact, i)
    <3>1. DOMAIN LineKeysBy(CommuneAndRisque, lines) = 1 .. N
      BY DEF LineKeysBy
    <3>. QED
      BY <1>4, <2>2, <2>3, <2>4, <3>1 DEF ClaimsRow
  <2>6. n <= N
    BY <1>2
  <2>7. risque.match[n] = i
    BY <1>1, <1>2, <2>5, <2>6 DEF ByRisque, ClaimFacts
  <2>. QED
    BY <1>3, <1>6, <2>7
<1>. QED
  BY <1>7, <1>8 DEF OnlyLine

-----------------------------------------------------------------------------
(* One correction.                                                         *)

(* A correction is a pairing and a transaction.                            *)
LEMMA CorrectedWrites ==
  ASSUME RowsInv, NEW t \in Text, Corrected(t), NEW N, N = Len(EntriesOf[t])
  PROVE  \E match, exact, risque, period, at :
           /\ Passes(Matched(t), N, match, exact, risque, period)
           /\ Written(match, Matched(t), N, row', at)
           /\ arrete' = t
<1> DEFINE lines == Matched(t)
<1>1. t \in DOMAIN EntriesOf
  BY DEF Corrected
<1>2. PICK match \in PairEntries(lines) :
        /\ Cardinality({n \in DOMAIN match : match[n] = None}) <= Cardinality(Id \ Stored)
        /\ Store(t, match)
  BY DEF Corrected
<1>3. DOMAIN lines = 1 .. N /\ N \in Nat /\ Len(lines) = N /\ \A k \in 1 .. N : lines[k] # None
  BY <1>1, MatchedLines
<1>4. row' = Writes(match, lines)[N] /\ arrete' = t
  BY <1>2, <1>3 DEF Store
<1> HIDE DEF lines
<1>5. PICK exact, risque, period : Passes(lines, N, match, exact, risque, period)
  BY <1>2, <1>3, PairEntriesPasses
<1>6. /\ match \in [1 .. N -> Claims]
      /\ \A k, l \in 1 .. N : match[k] # None /\ match[k] = match[l] => k = l
  BY <1>2, <1>3, PairEntriesGood
<1>7. \E at : Written(match, lines, N, Writes(match, lines)[N], at)
  <2>1. row = [i \in Id |-> row[i]]
    BY DEF RowsInv
  <2>2. \A k \in 1 .. N : match[k] \in Stored \cup {None}
    BY <1>6 DEF Claims
  <2>3. Cardinality({k \in 1 .. N : match[k] = None}) <= Cardinality(Id \ Stored)
    <3>1. DOMAIN match = 1 .. N
      BY <1>6
    <3>. QED
      BY <1>2, <3>1
  <2>. QED
    BY <1>3, <1>6, <2>1, <2>2, <2>3, WritesAll
<1>. QED
  BY <1>4, <1>5, <1>7 DEF lines

(* A stored row is either untouched or written over by the line it is      *)
(* paired with.                                                            *)
LEMMA RowAfter ==
  ASSUME NEW N \in Nat, NEW lines, NEW match, NEW at, Written(match, lines, N, row', at),
         NEW i \in Stored
  PROVE  row'[i] = row[i] \/ \E k \in 1 .. N : match[k] = i /\ row'[i] = lines[k]
<1>1. i \in Id
  BY DEF Stored
<1>2. CASE \A k \in 1 .. N : at[k] # i
  BY <1>1, <1>2 DEF Written
<1>3. ASSUME NEW k \in 1 .. N, at[k] = i PROVE match[k] = i /\ row'[i] = lines[k]
  BY <1>3 DEF Written
<1>. QED
  BY <1>2, <1>3

(* The premise of RowKeepsItsCommune about a row without a commune.        *)
CorrectedAlone(i, t) ==
  /\ RowsAbout(i) = {i}
  /\ \E p \in DOMAIN Printed[t] :
       LinesAbout(t, i) = {p} /\ Corrects(Printed[t][p], row[i], None)

(* Printed, position by position.                                          *)
LEMMA PrintedIs ==
  ASSUME NEW t \in DOMAIN EntriesOf
  PROVE  /\ DOMAIN Printed[t] = Positions(print[t])
         /\ \A p \in Positions(print[t]) : Printed[t][p] = LineAt(print[t], p)
  BY DEF Printed

(* The one position about a row is the one line about it.                  *)
LEMMA AloneIsOnlyLine ==
  ASSUME RowsInv, NEW t \in DOMAIN EntriesOf, NEW i \in Stored, row[i].code = None, CorrectedAlone(i, t)
  PROVE  \E n : OnlyLine(i, n, Matched(t), Len(EntriesOf[t]))
<1> DEFINE N == Len(EntriesOf[t])
           lines == Matched(t)
<1>1. PICK p \in Positions(print[t]) :
        LinesAbout(t, i) = {p} /\ Corrects(LineAt(print[t], p), row[i], None)
  BY PrintedIs DEF CorrectedAlone
<1>2. PICK place \in [Positions(print[t]) -> 1 .. N] :
        /\ \A q \in Positions(print[t]) : EntriesOf[t][place[q]] = LineAt(print[t], q)
        /\ \A q, r \in Positions(print[t]) : place[q] = place[r] => q = r
        /\ \A x \in 1 .. N : \E q \in Positions(print[t]) : place[q] = x
  BY EntriesPlaces
<1>3. \A k \in 1 .. N :
        lines[k] = PlacedAs(EntriesOf[t][k], MatchCommune(EntriesOf[t][k].label, EntriesOf[t][k].departement))
  BY MatchedLines
<1> DEFINE n == place[p]
<1>4. n \in 1 .. N
  BY <1>1, <1>2
<1>5. \A q \in Positions(print[t]) :
        q \in LinesAbout(t, i) <=> Speaks(row[i], LineAt(print[t], q))
  BY PrintedIs DEF LinesAbout, Speaks
<1> HIDE DEF N, lines, n
<1>6. ASSUME NEW l \in 1 .. N PROVE Speaks(row[i], lines[l]) <=> l = n
  <2>1. PICK q \in Positions(print[t]) : place[q] = l
    BY <1>2
  <2>2. lines[l].label = LineAt(print[t], q).label /\ lines[l].risque = LineAt(print[t], q).risque
    <3>1. EntriesOf[t][l] = LineAt(print[t], q)
      BY <1>2, <2>1
    <3> DEFINE e == LineAt(print[t], q)
    <3>2. lines[l] = PlacedAs(e, MatchCommune(e.label, e.departement))
      BY <1>3, <3>1
    <3> HIDE DEF e
    <3>3. lines[l].label = e.label /\ lines[l].risque = e.risque
      BY <3>2 DEF PlacedAs
    <3>. QED
      BY <3>3 DEF e
  <2>3. Speaks(row[i], lines[l]) <=> q = p
    BY <1>1, <1>5, <2>2 DEF Speaks
  <2>. QED
    BY <1>2, <2>1, <2>3 DEF n
<1>7. /\ lines[n].departement = row[i].departement
      /\ lines[n].period = row[i].period \/ (lines[n].label = row[i].label /\ lines[n].code = row[i].code)
  <2> DEFINE b == LineAt(print[t], p)
  <2>1. lines[n] = PlacedAs(b, CodeNow(b))
    BY <1>2, <1>3, <1>4 DEF n, CodeNow
  <2>2. /\ lines[n].departement = b.departement /\ lines[n].period = b.period
        /\ lines[n].label = b.label /\ lines[n].code = CodeNow(b)
    BY <2>1 DEF PlacedAs
  <2> HIDE DEF b
  <2>3. Corrects(b, row[i], None)
    BY <1>1 DEF b
  <2>. QED
    BY <2>2, <2>3 DEF Corrects
<1>8. OnlyLine(i, n, lines, N)
  BY <1>4, <1>6, <1>7 DEF OnlyLine, CorrectedAlone
<1>. QED
  BY <1>8 DEF N, lines

(* A correction leaves every row with its commune.                         *)
LEMMA CorrectedKeepsCommune ==
  ASSUME RowsInv, NEW t \in Text, Corrected(t), NEW i \in Stored,
         row[i].code = None => CorrectedAlone(i, t)
  PROVE  meantBy[row'[i].label] = meantBy[row[i].label]
<1> DEFINE N == Len(EntriesOf[t])
           lines == Matched(t)
<1>1. t \in DOMAIN EntriesOf
  BY DEF Corrected
<1>2. N \in Nat /\ DOMAIN lines = 1 .. N /\ \A k \in 1 .. N : IsPlaced(lines[k])
  BY <1>1, MatchedLines
<1>3. PICK match, exact, risque, period, at :
        Passes(lines, N, match, exact, risque, period) /\ Written(match, lines, N, row', at)
  BY CorrectedWrites
<1>4. row[i].code = None => \E n : OnlyLine(i, n, lines, N)
  BY <1>1, AloneIsOnlyLine
<1> HIDE DEF N, lines
<1> SUFFICES ASSUME NEW k \in 1 .. N, match[k] = i, row'[i] = lines[k]
             PROVE  Speaks(row[i], lines[k])
  BY <1>2, <1>3, RowAfter DEF Speaks
<1>5. RowsPlaced /\ i # None
  BY NoneIsNoRow DEF RowsInv
<1>6. CASE risque.match[k] # None
  BY <1>2, <1>3, <1>5, <1>6, PassesSpeak
<1>7. CASE risque.match[k] = None
  <2>1. row[i].code = None
    BY <1>2, <1>3, <1>5, <1>7, LastPass
  <2>2. PICK n : OnlyLine(i, n, lines, N)
    BY <1>4, <2>1
  <2>3. k = n
    BY <1>2, <1>3, <1>5, <1>7, <2>1, <2>2, OnlyLineTakes
  <2>. QED
    BY <2>2, <2>3 DEF OnlyLine
<1>. QED
  BY <1>6, <1>7

(* So does every step.                                                     *)
LEMMA StepKeepsCommune ==
  ASSUME RowsInv, [Next]_vars, arrete' # arrete, NEW i \in Stored,
         row[i].code = None => CorrectedAlone(i, arrete')
  PROVE  meantBy[row'[i].label] = meantBy[row[i].label]
<1>1. PICK t \in Text : Created(t) \/ Corrected(t)
  BY DEF Next, vars, Unchanged, Unparseable, IngestFails, Import, Close
<1>2. CASE Created(t)
  <2>1. arrete = None /\ row[i] # None /\ i \in Id
    BY <1>2 DEF Created, Stored
  <2>. QED
    BY <2>1 DEF RowsInv, TypeOK
<1>3. CASE Corrected(t)
  <2>1. arrete' = t
    BY <1>3 DEF Corrected, Store
  <2>. QED
    BY <1>3, <2>1, CorrectedKeepsCommune
<1>. QED
  BY <1>1, <1>2, <1>3

(* RowKeepsItsCommune: no rectificatif makes a row, which dossiers may be  *)
(* linked to, speak of another commune; one the referential could not      *)
(* place is safe as the only row of its commune and risk (pairEntries,     *)
(* applyRectificatif).                                                     *)
THEOREM RowsKeepTheirCommune == Spec => RowKeepsItsCommune
<1>1. ASSUME RowsInv, [Next]_vars
      PROVE  [arrete' # arrete =>
               \A i \in Stored :
                 (row[i].code = None =>
                    /\ RowsAbout(i) = {i}
                    /\ \E p \in DOMAIN Printed[arrete'] :
                         LinesAbout(arrete', i) = {p} /\ Corrects(Printed[arrete'][p], row[i], None))
                 => meantBy[row'[i].label] = meantBy[row[i].label]]_vars
  BY <1>1, StepKeepsCommune DEF CorrectedAlone
<1>. QED
  BY <1>1, InitRows, NextRows, PTL DEF Spec, RowKeepsItsCommune

-----------------------------------------------------------------------------
(* No twins.                                                               *)

IdentOf(r) == [departement |-> r.departement, label |-> r.label, risque |-> r.risque, period |-> r.period]
AboutOf(r) == <<meantBy[r.label], r.risque, r.period>>

(* A map onto a set of the same size never says the same twice.            *)
LEMMA SameSizeApart ==
  ASSUME NEW S, IsFiniteSet(S), NEW f, Cardinality({f[s] : s \in S}) = Cardinality(S),
         NEW r \in S, NEW s \in S, f[r] = f[s]
  PROVE  r = s
<1> DEFINE T == {f[x] : x \in S}
           g == [x \in S |-> f[x]]
<1>1. g \in [S -> T] /\ (\A y \in T : \E x \in S : g[x] = y) /\ g[r] = g[s]
  OBVIOUS
<1>2. Cardinality(T) = Cardinality(S)
  OBVIOUS
<1> HIDE DEF g, T
<1>3. g \in Surjection(S, T)
  BY <1>1 DEF Surjection
<1>4. g \in Injection(S, T)
  BY <1>2, <1>3, FS_Surjection
<1>. QED
  BY <1>1, <1>4 DEF Injection, IsInjective

(* The idents of a text, position by position.                             *)
LEMMA IdentsDef ==
  ASSUME NEW t \in DOMAIN EntriesOf
  PROVE  Idents[t] = {IdentOf(LineAt(print[t], p)) : p \in Positions(print[t])}
<1>1. t \in DOMAIN Printed
  BY DEF Printed
<1>2. Idents[t] = {IdentOf(Printed[t][p]) : p \in DOMAIN Printed[t]}
  BY <1>1 DEF Idents, IdentOf
<1>. QED
  BY <1>2, PrintedIs

(* The lines of a text are its positions, in some order.                   *)
LEMMA LinesOfText ==
  ASSUME NEW t \in DOMAIN EntriesOf
  PROVE  /\ IsFiniteSet(Positions(print[t])) /\ Cardinality(Positions(print[t])) = Len(EntriesOf[t])
         /\ \A l : l \in Idents[t] <=> \E k \in 1 .. Len(EntriesOf[t]) : IdentOf(EntriesOf[t][k]) = l
         /\ t \in NoTwins => \A k, l \in 1 .. Len(EntriesOf[t]) :
                               AboutOf(EntriesOf[t][k]) = AboutOf(EntriesOf[t][l]) => k = l
<1> DEFINE P == Positions(print[t])
           said == EntriesOf[t]
           N == Len(EntriesOf[t])
<1>1. PICK place \in [P -> 1 .. N] :
        /\ \A q \in P : said[place[q]] = LineAt(print[t], q)
        /\ \A q, r \in P : place[q] = place[r] => q = r
        /\ \A x \in 1 .. N : \E q \in P : place[q] = x
  BY EntriesPlaces
<1>2. N \in Nat
  BY MatchedLines
<1>3. IsFiniteSet(1 .. N) /\ Cardinality(1 .. N) = N
  <2> HIDE DEF N
  <2>1. 1 \in Int /\ N \in Int
    BY <1>2
  <2>2. IsFiniteSet(1 .. N) /\ Cardinality(1 .. N) = IF 1 > N THEN 0 ELSE N - 1 + 1
    BY <2>1, FS_Interval
  <2>3. (IF 1 > N THEN 0 ELSE N - 1 + 1) = N
    BY <1>2
  <2>. QED
    BY <2>2, <2>3
<1> DEFINE lineAt == [q \in P |-> LineAt(print[t], q)]
<1>4. Idents[t] = {IdentOf(lineAt[q]) : q \in P}
  BY IdentsDef
<1>5. t \in NoTwins => Cardinality({AboutOf(lineAt[q]) : q \in P}) = Cardinality(P)
  <2>1. t \in NoTwins => Cardinality({<<meantBy[l.label], l.risque, l.period>> : l \in Idents[t]}) = Cardinality(P)
    BY PrintedIs DEF NoTwins
  <2>2. {<<meantBy[l.label], l.risque, l.period>> : l \in Idents[t]} = {AboutOf(lineAt[q]) : q \in P}
    <3>1. \A q \in P : AboutOf(IdentOf(lineAt[q])) = AboutOf(lineAt[q])
      BY DEF AboutOf, IdentOf
    <3>2. {<<meantBy[l.label], l.risque, l.period>> : l \in Idents[t]} = {AboutOf(l) : l \in Idents[t]}
      BY DEF AboutOf
    <3>3. {AboutOf(l) : l \in {IdentOf(lineAt[q]) : q \in P}} = {AboutOf(IdentOf(lineAt[q])) : q \in P}
      <4> HIDE DEF lineAt, P
      <4>. QED
        OBVIOUS
    <3>4. {AboutOf(IdentOf(lineAt[q])) : q \in P} = {AboutOf(lineAt[q]) : q \in P}
      <4> HIDE DEF lineAt, P
      <4>. QED
        BY <3>1
    <3>. QED
      <4> HIDE DEF lineAt, P
      <4>. QED
        BY <1>4, <3>2, <3>3, <3>4
  <2>. QED
    BY <2>1, <2>2
<1>6. \A q \in P : said[place[q]] = lineAt[q]
  BY <1>1
<1> HIDE DEF P, lineAt, said, N
<1>7. IsFiniteSet(P) /\ Cardinality(P) = N
  <2>1. place \in Injection(P, 1 .. N) /\ place \in Surjection(P, 1 .. N)
    BY <1>1 DEF Injection, IsInjective, Surjection
  <2>. QED
    BY <1>3, <2>1, FS_Injection
<1>8. \A l : l \in Idents[t] <=> \E k \in 1 .. N : IdentOf(said[k]) = l
  BY <1>1, <1>4, <1>6
<1>9. ASSUME t \in NoTwins, NEW k \in 1 .. N, NEW l \in 1 .. N, AboutOf(said[k]) = AboutOf(said[l])
      PROVE  k = l
  <2>1. PICK q \in P, r \in P : place[q] = k /\ place[r] = l
    BY <1>1
  <2> DEFINE f == [x \in P |-> AboutOf(lineAt[x])]
  <2>2. Cardinality({f[x] : x \in P}) = Cardinality(P)
    BY <1>5, <1>9
  <2>3. f[q] = f[r]
    BY <1>6, <1>9, <2>1
  <2> HIDE DEF f
  <2>4. q = r
    BY <1>7, <2>2, <2>3, SameSizeApart
  <2>. QED
    BY <2>1, <2>4
<1>. QED
  BY <1>7, <1>8, <1>9 DEF P, said, N

(* A placed line says what the line says.                                  *)
LEMMA FieldsPlaced ==
  ASSUME NEW e, NEW code
  PROVE  IdentOf(PlacedAs(e, code)) = IdentOf(e) /\ AboutOf(PlacedAs(e, code)) = AboutOf(e)
  BY DEF PlacedAs, IdentOf, AboutOf

(* When there are as many rows as lines printed, the rows are these lines. *)
LEMMA RowsOfText ==
  ASSUME RowsInv, AllPrinted
  PROVE  /\ arrete \in DOMAIN EntriesOf
         /\ \A i \in Stored : IdentOf(row[i]) \in Idents[arrete]
         /\ \A l \in Idents[arrete] : \E i \in Stored : IdentOf(row[i]) = l
         /\ arrete \in NoTwins => \A i, j \in Stored : AboutOf(row[i]) = AboutOf(row[j]) => i = j
<1> DEFINE N == Len(EntriesOf[arrete])
           said == EntriesOf[arrete]
<1>1. arrete # None /\ arrete \in DOMAIN EntriesOf
  BY DEF AllPrinted, RowsInv
<1>2. PICK at : IsStoredAt(at, arrete)
  BY <1>1 DEF RowsInv, AllStored
<1>3. /\ at \in [1 .. N -> Id] /\ \A k, l \in 1 .. N : at[k] = at[l] => k = l
      /\ \A k \in 1 .. N : \E code \in Code \cup {None} : row[at[k]] = PlacedAs(said[k], code)
  BY <1>2 DEF IsStoredAt
<1>4. N \in Nat /\ \A k \in 1 .. N : said[k] \in EntriesPrinted
  BY <1>1, MatchedLines
<1>5. IsFiniteSet(Stored) /\ Cardinality(Stored) = N
  <2>1. DOMAIN Printed[arrete] = Positions(print[arrete])
    BY <1>1, PrintedIs
  <2>. QED
    BY <1>1, <2>1, LinesOfText, NoneIsNoRow DEF AllPrinted
<1>6. /\ \A l : l \in Idents[arrete] <=> \E k \in 1 .. N : IdentOf(said[k]) = l
      /\ arrete \in NoTwins => \A k, l \in 1 .. N : AboutOf(said[k]) = AboutOf(said[l]) => k = l
  BY <1>1, LinesOfText
<1> HIDE DEF N, said
<1>7. \A k \in 1 .. N : /\ IdentOf(row[at[k]]) = IdentOf(said[k]) /\ AboutOf(row[at[k]]) = AboutOf(said[k])
                        /\ at[k] \in Stored
  <2> TAKE k \in 1 .. N
  <2>1. PICK code \in Code \cup {None} : row[at[k]] = PlacedAs(said[k], code)
    BY <1>3
  <2>2. PlacedAs(said[k], code) # None
    BY <1>4, LineAssumption
  <2>3. at[k] \in Id
    BY <1>3
  <2>. QED
    BY <2>1, <2>2, <2>3, FieldsPlaced DEF Stored
<1>8. \A i \in Stored : \E k \in 1 .. N : at[k] = i
  <2> DEFINE T == {at[k] : k \in 1 .. N}
  <2>1. T \subseteq Stored /\ \A k \in 1 .. N : at[k] \in T
    BY <1>7
  <2> HIDE DEF T
  <2>2. IsFiniteSet(T) /\ Cardinality(T) <= Cardinality(Stored) /\ (Cardinality(Stored) = Cardinality(T) => Stored = T)
    BY <1>5, <2>1, FS_Subset
  <2>3. Cardinality(1 .. N) <= Cardinality(T)
    <3> DEFINE S == 1 .. N
    <3>1. (\A k \in S : at[k] \in T) /\ \A k, l \in S : at[k] = at[l] => k = l
      BY <1>3, <2>1
    <3> HIDE DEF S
    <3>2. Cardinality(S) <= Cardinality(T)
      BY <2>2, <3>1, CountedBy
    <3>. QED
      BY <3>2 DEF S
  <2>4. Cardinality(1 .. N) = N
    <3>1. 1 \in Int /\ N \in Int
      BY <1>4
    <3>2. Cardinality(1 .. N) = IF 1 > N THEN 0 ELSE N - 1 + 1
      BY <3>1, FS_Interval
    <3>. QED
      BY <1>4, <3>2
  <2>5. Cardinality(T) \in Nat
    BY <2>2, FS_CardinalityType
  <2>6. T = Stored
    BY <1>4, <1>5, <2>2, <2>3, <2>4, <2>5
  <2>. QED
    BY <2>6 DEF T
<1>9. \A i \in Stored : IdentOf(row[i]) \in Idents[arrete]
  BY <1>6, <1>7, <1>8
<1>10. ASSUME NEW l \in Idents[arrete] PROVE \E i \in Stored : IdentOf(row[i]) = l
  <2>1. PICK k \in 1 .. N : IdentOf(said[k]) = l
    BY <1>6
  <2>. QED
    BY <1>7, <2>1
<1>11. ASSUME arrete \in NoTwins, NEW i \in Stored, NEW j \in Stored, AboutOf(row[i]) = AboutOf(row[j])
       PROVE  i = j
  <2>1. PICK k \in 1 .. N, l \in 1 .. N : at[k] = i /\ at[l] = j
    BY <1>8
  <2>2. AboutOf(said[k]) = AboutOf(said[l])
    BY <1>7, <1>11, <2>1
  <2>. QED
    BY <1>6, <1>11, <2>1, <2>2
<1>. QED
  BY <1>1, <1>9, <1>10, <1>11

-----------------------------------------------------------------------------
(* Every line of the revision finds its row.                               *)

(* No two rows, and no two lines, are about one commune, risk and period;  *)
(* each has the code the referential gives its label now.                  *)
Apart(lines, N) ==
  /\ \A i, j \in Stored : AboutOf(row[i]) = AboutOf(row[j]) => i = j
  /\ \A k, l \in 1 .. N : AboutOf(lines[k]) = AboutOf(lines[l]) => k = l
  /\ \A i \in Stored : row[i].code = CodeNow(row[i])
  /\ \A k \in 1 .. N : lines[k].code = CodeNow(lines[k])

(* Two rows of one ident agree on what the pairing looks at.               *)
LEMMA SameIdent ==
  ASSUME NEW r, NEW s, IdentOf(r) = IdentOf(s)
  PROVE  /\ r.departement = s.departement /\ r.label = s.label /\ r.risque = s.risque /\ r.period = s.period
         /\ AboutOf(r) = AboutOf(s) /\ CodeNow(r) = CodeNow(s)
<1>1. r.departement = s.departement /\ r.label = s.label /\ r.risque = s.risque /\ r.period = s.period
  BY DEF IdentOf
<1>. QED
  BY <1>1 DEF AboutOf, CodeNow

(* A line still printed as it was is paired with the row it had.           *)
LEMMA ExactTakes ==
  ASSUME RowsPlaced, NEW N \in Nat, NEW lines, \A k \in 1 .. N : IsPlaced(lines[k]),
         Apart(lines, N), NEW exact, ExactlyPaired(exact, lines, N), exact \in GoodPairs(N),
         NEW i \in Stored, NEW k \in 1 .. N, IdentOf(row[i]) = IdentOf(lines[k])
  PROVE  exact.match[k] = i
<1>1. /\ row[i].departement = lines[k].departement /\ row[i].label = lines[k].label
      /\ row[i].risque = lines[k].risque /\ row[i].period = lines[k].period
      /\ AboutOf(row[i]) = AboutOf(lines[k]) /\ row[i].code = lines[k].code
  BY SameIdent DEF Apart
<1>2. IsSameEntry(i, lines[k])
  BY <1>1 DEF IsSameEntry
<1>3. ASSUME NEW j \in Stored, NEW l \in 1 .. N, IsSameEntry(j, lines[l])
      PROVE  AboutOf(row[j]) = AboutOf(lines[l])
  <2>1. Speaks(row[j], lines[l])
    BY <1>3, ExactSpeaks DEF RowsPlaced
  <2>2. row[j].period = lines[l].period
    BY <1>3 DEF IsSameEntry
  <2>. QED
    BY <2>1, <2>2 DEF Speaks, AboutOf
<1>4. i # None /\ \A l \in 1 .. N : exact.match[l] \in Stored \cup {None}
  BY NoneIsNoRow, GoodPairsDef DEF Claims
<1>5. exact.match[k] # None
  <2> SUFFICES ASSUME exact.match[k] = None PROVE FALSE
    OBVIOUS
  <2>1. PICK l \in 1 .. N : exact.match[l] = i
    BY <1>2 DEF ExactlyPaired
  <2>2. IsSameEntry(i, lines[l])
    BY <1>4, <2>1 DEF ExactlyPaired
  <2>3. AboutOf(lines[l]) = AboutOf(lines[k])
    BY <1>1, <1>3, <2>2
  <2>. QED
    BY <1>4, <2>1, <2>3 DEF Apart
<1>6. exact.match[k] \in Stored /\ IsSameEntry(exact.match[k], lines[k])
  BY <1>4, <1>5 DEF ExactlyPaired
<1>7. AboutOf(row[exact.match[k]]) = AboutOf(row[i])
  BY <1>1, <1>3, <1>6
<1>. QED
  BY <1>6, <1>7 DEF Apart

(* The idents of the rows are old, those of the lines new.                 *)
Hold(lines, N, old, new) ==
  /\ \A i \in Stored : IdentOf(row[i]) \in old
  /\ \A l \in old : \E i \in Stored : IdentOf(row[i]) = l
  /\ \A k \in 1 .. N : IdentOf(lines[k]) \in new
  /\ \A l \in new : \E k \in 1 .. N : IdentOf(lines[k]) = l

(* With one line printed otherwise, no line is left without a row.         *)
LEMMA EveryLinePaired ==
  ASSUME RowsPlaced, NEW N \in Nat, NEW lines, DOMAIN lines = 1 .. N, \A k \in 1 .. N : IsPlaced(lines[k]),
         NEW match, NEW exact, NEW risque, NEW period, Passes(lines, N, match, exact, risque, period),
         Apart(lines, N), NEW old, NEW new, Hold(lines, N, old, new),
         NEW r \in Stored, NEW a, a = IdentOf(row[r]), NEW b, new = (old \ {a}) \cup {b},
         Corrects(b, a, row[r].code), a.label = b.label \/ row[r].code \in {None, CodeNow(b)}
  PROVE  \A k \in 1 .. N : match[k] # None
<1> SUFFICES ASSUME NEW n \in 1 .. N, match[n] = None PROVE FALSE
  OBVIOUS
<1>1. /\ ExactlyPaired(exact, lines, N) /\ exact \in GoodPairs(N)
      /\ ByRisque(exact, risque, lines, N) /\ risque \in GoodPairs(N)
      /\ ByPeriod(risque, period, lines, N) /\ match = period.match /\ period \in GoodPairs(N)
  BY DEF Passes
<1>2. r # None /\ n <= N
  BY NoneIsNoRow
<1>3. risque.match[n] = None
  BY <1>1 DEF ByPeriod, ClaimFacts
<1>4. exact.match[n] = None
  BY <1>1, <1>3 DEF ByRisque, ClaimFacts
<1>5. \A i \in Stored, k \in 1 .. N : IdentOf(row[i]) = IdentOf(lines[k]) => exact.match[k] = i
  BY <1>1, ExactTakes
<1>6. IdentOf(lines[n]) \notin old /\ IdentOf(lines[n]) = b
  <2>1. \A i \in Stored : IdentOf(row[i]) # IdentOf(lines[n])
    BY <1>4, <1>5, NoneIsNoRow
  <2>. QED
    BY <2>1 DEF Hold
<1>7. /\ b.departement = lines[n].departement /\ b.label = lines[n].label /\ b.risque = lines[n].risque
      /\ b.period = lines[n].period /\ CodeNow(b) = lines[n].code
  <2>1. /\ b.departement = lines[n].departement /\ b.label = lines[n].label /\ b.risque = lines[n].risque
        /\ b.period = lines[n].period
    BY <1>6 DEF IdentOf
  <2>. QED
    BY <2>1 DEF CodeNow, Apart
<1>8. /\ a.departement = row[r].departement /\ a.label = row[r].label /\ a.risque = row[r].risque
      /\ a.period = row[r].period
  BY DEF IdentOf
<1>9. a \notin new
  <2>1. a \in old /\ b \notin old
    BY <1>6 DEF Hold
  <2>. QED
    BY <2>1
<1>10. \A k \in 1 .. N : k # n => exact.match[k] # None /\ exact.match[k] # r
  <2> TAKE k \in 1 .. N
  <2> SUFFICES ASSUME k # n PROVE exact.match[k] # None /\ exact.match[k] # r
    OBVIOUS
  <2>1. IdentOf(lines[k]) # b
    BY <1>6, SameIdent DEF Apart
  <2>2. IdentOf(lines[k]) \in old \ {a}
    BY <2>1 DEF Hold
  <2>3. PICK i \in Stored : IdentOf(row[i]) = IdentOf(lines[k])
    BY <2>2 DEF Hold
  <2>4. exact.match[k] = i
    BY <1>5, <2>3
  <2>. QED
    BY <2>2, <2>3, <2>4, NoneIsNoRow
<1>11. r \in exact.unclaimed
  BY <1>1, <1>2, <1>4, <1>10 DEF ExactlyPaired
<1>12. \A j \in exact.unclaimed : j = r
  <2> SUFFICES ASSUME NEW j \in exact.unclaimed, j # r PROVE FALSE
    OBVIOUS
  <2>1. j \in Stored /\ \A k \in 1 .. N : exact.match[k] # j
    BY <1>1, GoodPairsDef
  <2>2. IdentOf(row[j]) # a
    BY <2>1, SameIdent DEF Apart
  <2>3. IdentOf(row[j]) \in new
    BY <2>1, <2>2 DEF Hold
  <2>4. PICK k \in 1 .. N : IdentOf(lines[k]) = IdentOf(row[j])
    BY <2>3 DEF Hold
  <2>. QED
    BY <1>5, <2>1, <2>4
<1>13. CASE CommuneAndRisque(row[r]) = CommuneAndRisque(lines[n])
  <2>1. ClaimsRow(RowKeysBy(CommuneAndRisque), LineKeysBy(CommuneAndRisque, lines), n, exact, r)
    <3>1. DOMAIN LineKeysBy(CommuneAndRisque, lines) = 1 .. N
      BY DEF LineKeysBy
    <3>2. RowKeysBy(CommuneAndRisque)[r] = LineKeysBy(CommuneAndRisque, lines)[n]
      BY <1>13 DEF RowKeysBy, LineKeysBy
    <3>. QED
      BY <1>4, <1>10, <1>11, <1>12, <3>1, <3>2 DEF ClaimsRow
  <2>2. risque.match[n] = r
    BY <1>1, <1>2, <2>1 DEF ByRisque, ClaimFacts
  <2>. QED
    BY <1>2, <1>3, <2>2
<1>14. CASE row[r].code = None /\ DepartementAndPeriod(row[r]) = DepartementAndPeriod(lines[n])
  <2>1. r \in risque.unclaimed
    <3>1. \A k \in 1 .. N : ~ NewlyClaimed(exact, risque, k)
      BY <1>3, <1>10 DEF NewlyClaimed
    <3>. QED
      BY <1>1, <1>11, <3>1 DEF ByRisque, ClaimFacts
  <2>2. risque.unclaimed \subseteq exact.unclaimed
    BY <1>1 DEF ByRisque, ClaimFacts
  <2>3. \A k \in 1 .. N : k # n => risque.match[k] # None
    BY <1>1, <1>10 DEF ByRisque, ClaimFacts
  <2>4. ClaimsRow(RowKeysBy(IfUnresolved), LineKeysBy(DepartementAndPeriod, lines), n, risque, r)
    <3>1. DOMAIN LineKeysBy(DepartementAndPeriod, lines) = 1 .. N
      BY DEF LineKeysBy
    <3>2. RowKeysBy(IfUnresolved)[r] = LineKeysBy(DepartementAndPeriod, lines)[n]
      BY <1>14 DEF RowKeysBy, LineKeysBy, IfUnresolved
    <3>. QED
      BY <1>3, <1>12, <2>1, <2>2, <2>3, <3>1, <3>2 DEF ClaimsRow
  <2>5. period.match[n] = r
    BY <1>1, <1>2, <2>4 DEF ByPeriod, ClaimFacts
  <2>. QED
    BY <1>1, <1>2, <2>5
<1>15. row[r].departement = lines[n].departement /\ row[r].risque = lines[n].risque
  BY <1>7, <1>8 DEF Corrects
<1>16. CASE lines[n].label = row[r].label /\ lines[n].period = row[r].period
  <2>1. IdentOf(lines[n]) = a
    BY <1>15, <1>16 DEF IdentOf
  <2>2. a \in old
    BY DEF Hold
  <2>. QED
    BY <1>6, <2>1, <2>2
<1>17. CASE lines[n].label = row[r].label /\ lines[n].period # row[r].period
  <2>1. lines[n].code = row[r].code
    BY <1>7, <1>8, <1>17 DEF Corrects
  <2>2. CommuneAndRisque(row[r]) = CommuneAndRisque(lines[n])
    BY <1>15, <1>17, <2>1 DEF CommuneAndRisque
  <2>. QED
    BY <1>13, <2>2
<1>18. CASE lines[n].label # row[r].label
  <2>1. lines[n].period = row[r].period
    BY <1>7, <1>8, <1>18 DEF Corrects
  <2>2. CASE row[r].code = None
    <3>1. DepartementAndPeriod(row[r]) = DepartementAndPeriod(lines[n])
      BY <1>15, <2>1 DEF DepartementAndPeriod
    <3>. QED
      BY <1>14, <2>2, <3>1
  <2>3. CASE row[r].code # None
    <3>1. row[r].code = lines[n].code
      BY <1>7, <1>8, <1>18, <2>3
    <3>2. CommuneAndRisque(row[r]) = CommuneAndRisque(lines[n])
      BY <1>15, <2>3, <3>1 DEF CommuneAndRisque
    <3>. QED
      BY <1>13, <3>2
  <2>. QED
    BY <2>2, <2>3
<1>. QED
  BY <1>16, <1>17, <1>18

(* The lines of a revision, by their idents.                               *)
LEMMA RevisionLines ==
  ASSUME NEW t \in DOMAIN EntriesOf
  PROVE  /\ \A k \in 1 .. Len(EntriesOf[t]) : /\ IdentOf(Matched(t)[k]) \in Idents[t]
                                              /\ Matched(t)[k].code = CodeNow(Matched(t)[k])
         /\ \A l \in Idents[t] : \E k \in 1 .. Len(EntriesOf[t]) : IdentOf(Matched(t)[k]) = l
         /\ t \in NoTwins => \A k, l \in 1 .. Len(EntriesOf[t]) :
                               AboutOf(Matched(t)[k]) = AboutOf(Matched(t)[l]) => k = l
<1> DEFINE N == Len(EntriesOf[t])
           lines == Matched(t)
           said == EntriesOf[t]
<1>1. \A k \in 1 .. N : lines[k] = PlacedAs(said[k], MatchCommune(said[k].label, said[k].departement))
  BY MatchedLines
<1>2. /\ \A l : l \in Idents[t] <=> \E k \in 1 .. N : IdentOf(said[k]) = l
      /\ t \in NoTwins => \A k, l \in 1 .. N : AboutOf(said[k]) = AboutOf(said[l]) => k = l
  BY LinesOfText
<1> HIDE DEF N, lines, said
<1>3. \A k \in 1 .. N : IdentOf(lines[k]) = IdentOf(said[k]) /\ AboutOf(lines[k]) = AboutOf(said[k])
  BY <1>1, FieldsPlaced
<1>4. \A k \in 1 .. N : lines[k].code = CodeNow(lines[k])
  <2> TAKE k \in 1 .. N
  <2> DEFINE e == said[k]
  <2>1. lines[k] = PlacedAs(e, MatchCommune(e.label, e.departement))
    BY <1>1
  <2> HIDE DEF e
  <2>2. lines[k].label = e.label /\ lines[k].departement = e.departement
        /\ lines[k].code = MatchCommune(e.label, e.departement)
    BY <2>1 DEF PlacedAs
  <2>. QED
    BY <2>2 DEF CodeNow
<1>5. \A k \in 1 .. N : IdentOf(lines[k]) \in Idents[t]
  BY <1>2, <1>3
<1>6. \A l \in Idents[t] : \E k \in 1 .. N : IdentOf(lines[k]) = l
  BY <1>2, <1>3
<1>7. t \in NoTwins => \A k, l \in 1 .. N : AboutOf(lines[k]) = AboutOf(lines[l]) => k = l
  BY <1>2, <1>3
<1>. QED
  BY <1>4, <1>5, <1>6, <1>7 DEF N, lines

(* The premise of CorrectionKeepsItsRow.                                   *)
OneLineOtherwise(t) ==
  /\ AllPrinted /\ {arrete, t} \subseteq NoTwins
  /\ \A i \in Stored : CodeNow(row[i]) = row[i].code
  /\ \E a \in Idents[arrete], b \in Idents[t] :
       /\ Idents[t] = (Idents[arrete] \ {a}) \cup {b}
       /\ Corrects(b, a, row[RowOf(a)].code)
       /\ (a.label = b.label \/ row[RowOf(a)].code \in {None, CodeNow(b)})

(* RowOf finds the row of an ident.                                        *)
LEMMA RowOfIdent ==
  ASSUME NEW i \in Stored, NEW a, a = IdentOf(row[i])
  PROVE  RowOf(a) \in Stored /\ IdentOf(row[RowOf(a)]) = a
<1> DEFINE Fits(j) == /\ row[j].departement = a.departement /\ row[j].label = a.label
                      /\ row[j].risque = a.risque /\ row[j].period = a.period
<1>1. Fits(i)
  BY DEF IdentOf
<1>2. RowOf(a) = CHOOSE j \in Stored : Fits(j)
  BY DEF RowOf
<1>3. RowOf(a) \in Stored /\ Fits(RowOf(a))
  <2> HIDE DEF Fits
  <2>. QED
    BY <1>1, <1>2
<1>. QED
  BY <1>3 DEF IdentOf

(* The everyday rectificatif adds no row.                                  *)
LEMMA CorrectedKeepsRow ==
  ASSUME RowsInv, NEW t \in Text, Corrected(t), OneLineOtherwise(t)
  PROVE  {i \in Id : row'[i] # None} = Stored
<1> DEFINE N == Len(EntriesOf[t])
           lines == Matched(t)
<1>1. t \in DOMAIN EntriesOf
  BY DEF Corrected
<1>2. N \in Nat /\ DOMAIN lines = 1 .. N /\ \A k \in 1 .. N : IsPlaced(lines[k]) /\ lines[k] # None
  BY <1>1, MatchedLines
<1>3. PICK match, exact, risque, period, at :
        Passes(lines, N, match, exact, risque, period) /\ Written(match, lines, N, row', at)
  BY CorrectedWrites
<1>4. PICK a \in Idents[arrete], b \in Idents[t] :
       /\ Idents[t] = (Idents[arrete] \ {a}) \cup {b}
       /\ Corrects(b, a, row[RowOf(a)].code)
       /\ (a.label = b.label \/ row[RowOf(a)].code \in {None, CodeNow(b)})
  BY DEF OneLineOtherwise
<1>5. /\ \A i \in Stored : IdentOf(row[i]) \in Idents[arrete]
      /\ \A l \in Idents[arrete] : \E i \in Stored : IdentOf(row[i]) = l
      /\ \A i, j \in Stored : AboutOf(row[i]) = AboutOf(row[j]) => i = j
  BY RowsOfText DEF OneLineOtherwise
<1>6. /\ \A k \in 1 .. N : IdentOf(lines[k]) \in Idents[t] /\ lines[k].code = CodeNow(lines[k])
      /\ \A l \in Idents[t] : \E k \in 1 .. N : IdentOf(lines[k]) = l
      /\ \A k, l \in 1 .. N : AboutOf(lines[k]) = AboutOf(lines[l]) => k = l
  BY <1>1, RevisionLines DEF OneLineOtherwise
<1> HIDE DEF N, lines
<1>7. RowOf(a) \in Stored /\ a = IdentOf(row[RowOf(a)])
  <2>1. PICK i \in Stored : IdentOf(row[i]) = a
    BY <1>5
  <2>. QED
    BY <2>1, RowOfIdent
<1>8. \A k \in 1 .. N : match[k] # None
  <2>1. Apart(lines, N)
    BY <1>5, <1>6 DEF Apart, OneLineOtherwise
  <2>2. Hold(lines, N, Idents[arrete], Idents[t])
    BY <1>5, <1>6 DEF Hold
  <2>3. RowsPlaced
    BY DEF RowsInv
  <2>. QED
    BY <1>2, <1>3, <1>4, <1>7, <2>1, <2>2, <2>3, EveryLinePaired
<1>9. ASSUME NEW i \in Stored PROVE i \in Id /\ row'[i] # None
  <2>1. row'[i] = row[i] \/ \E k \in 1 .. N : match[k] = i /\ row'[i] = lines[k]
    BY <1>2, <1>3, RowAfter
  <2>. QED
    BY <1>2, <2>1 DEF Stored
<1>10. ASSUME NEW i \in Id, i \notin Stored PROVE row'[i] = None
  <2>1. \A k \in 1 .. N : match[k] \in Stored
    <3>1. period \in GoodPairs(N) /\ match = period.match
      BY <1>3 DEF Passes
    <3>2. match \in [1 .. N -> Claims]
      BY <3>1, GoodPairsDef
    <3>. QED
      BY <1>8, <3>2 DEF Claims
  <2>2. \A k \in 1 .. N : at[k] # i
    BY <1>3, <1>8, <1>10, <2>1 DEF Written
  <2>3. row'[i] = row[i]
    BY <1>3, <2>2 DEF Written
  <2>. QED
    BY <1>10, <2>3 DEF Stored
<1>. QED
  BY <1>9, <1>10

(* Nor does any other step.                                                *)
LEMMA StepKeepsRow ==
  ASSUME RowsInv, [Next]_vars, arrete' # arrete, OneLineOtherwise(arrete')
  PROVE  {i \in Id : row'[i] # None} = Stored
<1>1. PICK t \in Text : Created(t) \/ Corrected(t)
  BY DEF Next, vars, Unchanged, Unparseable, IngestFails, Import, Close
<1>2. CASE Created(t)
  BY <1>2 DEF Created, OneLineOtherwise, AllPrinted
<1>3. CASE Corrected(t)
  <2>1. arrete' = t
    BY <1>3 DEF Corrected, Store
  <2>. QED
    BY <1>3, <2>1, CorrectedKeepsRow
<1>. QED
  BY <1>1, <1>2, <1>3

(* CorrectionKeepsItsRow: an everyday rectificatif, one line printed       *)
(* otherwise, rewrites the row of that line and adds none (pairEntries),   *)
(* whatever the order its lines are printed in.                            *)
THEOREM CorrectionsKeepTheirRow == Spec => CorrectionKeepsItsRow
<1>1. ASSUME RowsInv, [Next]_vars
      PROVE  [(/\ AllPrinted /\ arrete' # arrete
               /\ {arrete, arrete'} \subseteq NoTwins
               /\ \A i \in Stored : CodeNow(row[i]) = row[i].code
               /\ \E a \in Idents[arrete], b \in Idents[arrete'] :
                    /\ Idents[arrete'] = (Idents[arrete] \ {a}) \cup {b}
                    /\ Corrects(b, a, row[RowOf(a)].code)
                    /\ (a.label = b.label \/ row[RowOf(a)].code \in {None, CodeNow(b)}))
              => {i \in Id : row'[i] # None} = Stored]_vars
  BY <1>1, StepKeepsRow DEF OneLineOtherwise
<1>. QED
  BY <1>1, InitRows, NextRows, PTL DEF Spec, CorrectionKeepsItsRow

=============================================================================
