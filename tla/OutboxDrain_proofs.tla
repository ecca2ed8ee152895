-------------------------- MODULE OutboxDrain_proofs --------------------------
(***************************************************************************)
(* The safety of the drain cycle for every set of rows, every threshold    *)
(* and every number of faults: the inductive invariant, the invariants the *)
(* model checker confirms on three rows, and the refinement of             *)
(* OutboxContract.                                                         *)
(***************************************************************************)
EXTENDS OutboxDrain, TLAPS

(* Where the loaded rows are: none outside a drain, no group in hand       *)
(* between two groups, no memo outside a run.                              *)
PlaceInv ==
  /\ pc \in {"idle", "load", "ingest"} => todo = {} /\ batch = {}
  /\ pc = "groups" => batch = {}

(* A row loaded and not yet handled is as it was loaded, or deleted.       *)
HeldInv ==
  \A r \in todo \cup batch :
    /\ box[r] \in {"pending", "gone"}
    /\ seen[r] = attempts[r]
    /\ delivered[r] = unrecorded[r]
    /\ tried[r] = 0

(* The row in hand: what its step may rely on.                             *)
CurInv ==
  cur \in Row =>
    /\ cur \in attempted /\ cur \notin batch
    /\ box[cur] \in {"pending", "gone"}
    /\ seen[cur] = attempts[cur]
    /\ pc = "mark" /\ mails[cur] = "mail" => delivered[cur] = unrecorded[cur] + 1
    /\ pc = "mark" /\ mails[cur] # "mail" => delivered[cur] = unrecorded[cur]
    /\ pc \in {"raise", "bump"} => delivered[cur] = unrecorded[cur]
    /\ pc = "bump" => (attempts[cur] + 1 >= Threshold => alerts[cur] > 0)

MemoInv ==
  \A r \in Row : tried[r] <= 1 /\ (r \notin attempted => tried[r] = 0)

AbsentInv == \A r \in Row : box[r] = "absent" => delivered[r] = unrecorded[r]

IInv ==
  /\ TypeOK
  /\ PlaceInv /\ HeldInv /\ CurInv /\ MemoInv /\ AbsentInv
  /\ StuckIsReported /\ DuplicatesExplained

-----------------------------------------------------------------------------
(* The invariant is inductive. *)

(* An empty outbox and an idle scheduler satisfy the invariant.            *)
LEMMA InitIInv == Init => IInv
<1> SUFFICES ASSUME Init PROVE IInv
  OBVIOUS
<1> USE RowAssumption, BoundAssumption DEF Init, Zero
<1>1. TypeOK
  BY DEF TypeOK, Steps, Answers
<1>2. PlaceInv /\ HeldInv /\ CurInv
  BY DEF PlaceInv, HeldInv, CurInv
<1>3. MemoInv /\ AbsentInv /\ StuckIsReported /\ DuplicatesExplained
  BY DEF MemoInv, AbsentInv, StuckIsReported, DuplicatesExplained
<1>. QED
  BY <1>1, <1>2, <1>3 DEF IInv

(* Every step of the run, of a fault or of the environment keeps it.       *)
LEMMA NextKeepsIInv == IInv /\ [Next]_vars => IInv'
<1> SUFFICES ASSUME IInv, [Next]_vars PROVE IInv'
  OBVIOUS
<1> USE RowAssumption, BoundAssumption
    DEF IInv, TypeOK, Steps, Answers, tableVars, runVars, Fault, NoFault
<1>1. ASSUME StartRun PROVE IInv'
  BY <1>1 DEF StartRun, Zero,
     PlaceInv, HeldInv, CurInv, MemoInv, AbsentInv, StuckIsReported, DuplicatesExplained
<1>2. ASSUME IngestDone PROVE IInv'
  BY <1>2 DEF IngestDone,
     PlaceInv, HeldInv, CurInv, MemoInv, AbsentInv, StuckIsReported, DuplicatesExplained
<1>3. ASSUME NEW r \in Row, Queue(r) PROVE IInv'
  BY <1>3 DEF Queue,
     PlaceInv, HeldInv, CurInv, MemoInv, AbsentInv, StuckIsReported, DuplicatesExplained
<1>4. ASSUME IngestThrows PROVE IInv'
  BY <1>4 DEF IngestThrows, Forget, Zero,
     PlaceInv, HeldInv, CurInv, MemoInv, AbsentInv, StuckIsReported, DuplicatesExplained
<1>5. ASSUME LoadPending PROVE IInv'
  BY <1>5 DEF LoadPending, Pending,
     PlaceInv, HeldInv, CurInv, MemoInv, AbsentInv, StuckIsReported, DuplicatesExplained
<1>6. ASSUME LoadPendingThrows PROVE IInv'
  BY <1>6 DEF LoadPendingThrows, EndDrain, Forget, Zero,
     PlaceInv, HeldInv, CurInv, MemoInv, AbsentInv, StuckIsReported, DuplicatesExplained
<1>7. ASSUME NEW a \in Arrete, LoadMails(a) PROVE IInv'
  BY <1>7 DEF LoadMails, Group, MayAnswer,
     PlaceInv, HeldInv, CurInv, MemoInv, AbsentInv, StuckIsReported, DuplicatesExplained
<1>8. ASSUME NEW a \in Arrete, LoadMailsThrows(a) PROVE IInv'
  BY <1>8 DEF LoadMailsThrows, Group,
     PlaceInv, HeldInv, CurInv, MemoInv, AbsentInv, StuckIsReported, DuplicatesExplained
<1>9. ASSUME DrainDone PROVE IInv'
  BY <1>9 DEF DrainDone, EndDrain, Forget, Zero,
     PlaceInv, HeldInv, CurInv, MemoInv, AbsentInv, StuckIsReported, DuplicatesExplained
<1>10. ASSUME GroupDone PROVE IInv'
  BY <1>10 DEF GroupDone,
     PlaceInv, HeldInv, CurInv, MemoInv, AbsentInv, StuckIsReported, DuplicatesExplained
<1>11. ASSUME NEW r \in Row, SkipRow(r) PROVE IInv'
  BY <1>11 DEF SkipRow, Take,
     PlaceInv, HeldInv, CurInv, MemoInv, AbsentInv, StuckIsReported, DuplicatesExplained
<1>12. ASSUME NEW r \in Row, NothingToSend(r) PROVE IInv'
  BY <1>12 DEF NothingToSend, Take,
     PlaceInv, HeldInv, CurInv, MemoInv, AbsentInv, StuckIsReported, DuplicatesExplained
<1>13. ASSUME NEW r \in Row, Send(r) PROVE IInv'
  BY <1>13 DEF Send, Try, Take,
     PlaceInv, HeldInv, CurInv, MemoInv, AbsentInv, StuckIsReported, DuplicatesExplained
<1>14. ASSUME NEW r \in Row, SendRefused(r) PROVE IInv'
  BY <1>14 DEF SendRefused, Try, Take, AfterFailure,
     PlaceInv, HeldInv, CurInv, MemoInv, AbsentInv, StuckIsReported, DuplicatesExplained
<1>15. ASSUME NEW r \in Row, SendTimesOut(r) PROVE IInv'
  BY <1>15 DEF SendTimesOut, Try, Take, AfterFailure,
     PlaceInv, HeldInv, CurInv, MemoInv, AbsentInv, StuckIsReported, DuplicatesExplained
<1>16. ASSUME MarkSent PROVE IInv'
  BY <1>16 DEF MarkSent, NextRow,
     PlaceInv, HeldInv, CurInv, MemoInv, AbsentInv, StuckIsReported, DuplicatesExplained
<1>17. ASSUME MarkSentFails PROVE IInv'
  BY <1>17 DEF MarkSentFails, NextRow, CopyLost,
     PlaceInv, HeldInv, CurInv, MemoInv, AbsentInv, StuckIsReported, DuplicatesExplained
<1>18. ASSUME RaiseStuck PROVE IInv'
  BY <1>18 DEF RaiseStuck,
     PlaceInv, HeldInv, CurInv, MemoInv, AbsentInv, StuckIsReported, DuplicatesExplained
<1>19. ASSUME RaiseStuckFails PROVE IInv'
  BY <1>19 DEF RaiseStuckFails, NextRow,
     PlaceInv, HeldInv, CurInv, MemoInv, AbsentInv, StuckIsReported, DuplicatesExplained
<1>20. ASSUME IncrementAttempts PROVE IInv'
  BY <1>20 DEF IncrementAttempts, NextRow,
     PlaceInv, HeldInv, CurInv, MemoInv, AbsentInv, StuckIsReported, DuplicatesExplained
<1>21. ASSUME IncrementAttemptsFails PROVE IInv'
  BY <1>21 DEF IncrementAttemptsFails, NextRow,
     PlaceInv, HeldInv, CurInv, MemoInv, AbsentInv, StuckIsReported, DuplicatesExplained
<1>22. ASSUME Crash PROVE IInv'
  BY <1>22 DEF Crash, Forget, Zero, CopyLost,
     PlaceInv, HeldInv, CurInv, MemoInv, AbsentInv, StuckIsReported, DuplicatesExplained
<1>23. ASSUME NEW r \in Row, Delete(r) PROVE IInv'
  BY <1>23 DEF Delete,
     PlaceInv, HeldInv, CurInv, MemoInv, AbsentInv, StuckIsReported, DuplicatesExplained
<1>24. CASE UNCHANGED vars
  BY <1>24 DEF vars, PlaceInv, HeldInv, CurInv, MemoInv, AbsentInv, StuckIsReported,
              DuplicatesExplained
<1>. QED
  <2>1. CASE RunStep
    BY <2>1, <1>1, <1>2, <1>5, <1>7, <1>9, <1>10, <1>11, <1>12, <1>13, <1>14,
       <1>16, <1>18, <1>20 DEF RunStep
  <2>2. CASE FaultStep
    BY <2>2, <1>4, <1>6, <1>8, <1>14, <1>15, <1>17, <1>19, <1>21, <1>22
    DEF FaultStep
  <2>3. CASE \E r \in Row : Queue(r) \/ Delete(r)
    BY <2>3, <1>3, <1>23
  <2>. QED
    BY <2>1, <2>2, <2>3, <1>24 DEF Next


(* So it holds at every step.                                              *)
LEMMA SpecKeepsIInv == Spec => []IInv
<1>1. Init => IInv
  BY InitIInv
<1>2. IInv /\ [Next]_vars => IInv'
  BY NextKeepsIInv
<1>. QED
  BY <1>1, <1>2, PTL DEF Spec

(* The types hold at every step of every run.                              *)
THEOREM TypeCorrect == Spec => []TypeOK
<1>1. IInv => TypeOK
  BY DEF IInv
<1>. QED
  BY <1>1, SpecKeepsIInv, PTL

(* No interleaving of failures, crashes and deletions leaves a row at the  *)
(* threshold without its alert.                                            *)
THEOREM StuckReported == Spec => []StuckIsReported
<1>1. IInv => StuckIsReported
  BY DEF IInv
<1>. QED
  BY <1>1, SpecKeepsIInv, PTL

(* A second copy of a letter always has a lost record to explain it.       *)
THEOREM DuplicatesAreExplained == Spec => []DuplicatesExplained
<1>1. IInv => DuplicatesExplained
  BY DEF IInv
<1>. QED
  BY <1>1, SpecKeepsIInv, PTL

(* One run tries a row once, over its two drains.                          *)
THEOREM TriedOncePerRun == Spec => []OncePerRun
<1>1. IInv => OncePerRun
  BY DEF IInv, MemoInv, OncePerRun
<1>. QED
  BY <1>1, SpecKeepsIInv, PTL

-----------------------------------------------------------------------------
(* Every step of the cycle is a step of the contract, or changes nothing   *)
(* the contract speaks of.                                                 *)
LEMMA StepRefines ==
  IInv /\ [Next]_vars => [Contract!CNext]_(Contract!contractVars)
<1> SUFFICES ASSUME IInv, [Next]_vars
             PROVE  [Contract!CNext]_(Contract!contractVars)
  OBVIOUS
<1> DEFINE Stutter == UNCHANGED Contract!contractVars
<1> USE DEF IInv, TypeOK, tableVars, runVars, Fault, NoFault, Contract!contractVars
<1>1. ASSUME NEW r \in Row, Queue(r) PROVE Contract!Open(r)
  BY <1>1 DEF Queue, Contract!Open
<1>2. ASSUME NEW r \in Row, Delete(r) PROVE Contract!Discard(r)
  BY <1>2 DEF Delete, Contract!Discard
<1>3. ASSUME NEW r \in Row, Send(r) PROVE Contract!Deliver(r)
  BY <1>3 DEF Send, Try, Take, Contract!Deliver, HeldInv
<1>4. ASSUME NEW r \in Row, SendTimesOut(r) PROVE Contract!DeliverUnrecorded(r)
  BY <1>4 DEF SendTimesOut, Try, Take, Contract!DeliverUnrecorded, HeldInv
<1>5. ASSUME MarkSent PROVE Contract!Settle(cur) \/ Stutter
  BY <1>5 DEF MarkSent, NextRow, Contract!Settle
<1>6. ASSUME pc = "mark", CopyLost, UNCHANGED <<box, attempts, alerts, delivered>>
      PROVE  cur \in Row /\ (Contract!LoseRecord(cur) \/ Stutter)
  <2>1. cur \in Row /\ unrecorded \in [Row -> Nat]
    BY <1>6, RowAssumption
  <2>2. CASE mails[cur] = "mail"
    <3>1. unrecorded' = [unrecorded EXCEPT ![cur] = @ + 1]
      BY <1>6, <2>2 DEF CopyLost
    <3>2. unrecorded[cur] < delivered[cur]
      BY <1>6, <2>1, <2>2 DEF CurInv
    <3>. QED
      BY <1>6, <2>1, <3>1, <3>2 DEF Contract!LoseRecord
  <2>3. CASE mails[cur] # "mail"
    <3>1. unrecorded' = [unrecorded EXCEPT ![cur] = @]
      BY <1>6, <2>3 DEF CopyLost
    <3>2. UNCHANGED unrecorded
      BY <2>1, <3>1
    <3>. QED
      BY <1>6, <2>1, <3>2
  <2>. QED
    BY <2>2, <2>3
<1>7. ASSUME MarkSentFails \/ Crash
      PROVE  (cur \in Row /\ Contract!LoseRecord(cur)) \/ Stutter
  BY <1>7, <1>6 DEF MarkSentFails, Crash
<1>8. ASSUME RaiseStuck PROVE Contract!Alert(cur)
  BY <1>8 DEF RaiseStuck, Contract!Alert
<1>9. ASSUME IncrementAttempts PROVE Contract!CountFailure(cur) \/ Stutter
  BY <1>9 DEF IncrementAttempts, NextRow, Contract!CountFailure, CurInv
<1>10. cur \in Row <=> pc \in {"mark", "raise", "bump"}
  BY RowAssumption
<1>11. CASE StartRun \/ IngestDone \/ IngestThrows \/ LoadPending
            \/ LoadPendingThrows \/ DrainDone \/ GroupDone
  <2>1. Stutter
    BY <1>11 DEF StartRun, IngestDone, IngestThrows, LoadPending, LoadPendingThrows,
                 DrainDone, GroupDone, EndDrain
  <2>. QED
    BY <2>1
<1>12. CASE \E a \in Arrete : LoadMails(a) \/ LoadMailsThrows(a)
  <2>1. Stutter
    BY <1>12 DEF LoadMails, LoadMailsThrows
  <2>. QED
    BY <2>1
<1>13. CASE \E r \in Row : SkipRow(r) \/ NothingToSend(r) \/ SendRefused(r)
  <2>1. Stutter
    BY <1>13 DEF SkipRow, NothingToSend, SendRefused
  <2>. QED
    BY <2>1
<1>14. CASE RaiseStuckFails \/ IncrementAttemptsFails
  <2>1. Stutter
    BY <1>14 DEF RaiseStuckFails, IncrementAttemptsFails
  <2>. QED
    BY <2>1
<1>15. CASE MarkSent \/ MarkSentFails \/ Crash \/ RaiseStuck \/ IncrementAttempts
  <2>1. cur \in Row \/ Stutter
    BY <1>15, <1>7, <1>10 DEF MarkSent, MarkSentFails, RaiseStuck, IncrementAttempts
  <2>. QED
    BY <2>1, <1>15, <1>5, <1>7, <1>8, <1>9 DEF Contract!CNext
<1>16. CASE \E r \in Row : Queue(r) \/ Delete(r) \/ Send(r) \/ SendTimesOut(r)
  BY <1>16, <1>1, <1>2, <1>3, <1>4 DEF Contract!CNext
<1>17. CASE UNCHANGED vars
  BY <1>17 DEF vars
<1>. QED
  BY <1>11, <1>12, <1>13, <1>14, <1>15, <1>16, <1>17, RowAssumption
  DEF Next, RunStep, FaultStep

(* The drain cycle keeps the contract of an outbox for every set of rows:  *)
(* no row settles twice or comes back, no copy goes out while another is   *)
(* on record, no failure that makes a row stuck is counted before its alert. *)
THEOREM DrainKeepsContract == Spec => KeepsContract
<1>1. Init => Contract!CInit
  BY DEF Init, Zero, Contract!CInit, Contract!Zero
<1>2. IInv /\ [Next]_vars => [Contract!CNext]_(Contract!contractVars)
  BY StepRefines
<1>. QED
  BY <1>1, <1>2, SpecKeepsIInv, PTL DEF Spec, KeepsContract, Contract!CSpec
=============================================================================
