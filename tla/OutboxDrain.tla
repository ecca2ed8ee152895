----------------------------- MODULE OutboxDrain -----------------------------
(***************************************************************************)
(* The drain cycle the two mail outboxes share (drain-outbox.ts), under    *)
(* the run that calls it (JorfMonitorService.runOnce): a run drains, lets  *)
(* the ingest queue new rows, and drains again, with one memo of the rows  *)
(* it has already attempted.  Rows are grouped by arrete; a group is       *)
(* composed at once, then sent, marked or counted row by row.              *)
(*                                                                         *)
(* Sends, marks, counts, alerts and compositions can each fail, the        *)
(* transport can accept a letter and still time out, the process can stop  *)
(* anywhere, and a row can be deleted under the run.  MaxFaults bounds how *)
(* many of these happen.  One run at a time: see IngestLease.              *)
(***************************************************************************)
EXTENDS Naturals

CONSTANTS
  Row,          \* outbox rows
  Arrete,       \* arretes the rows are about
  arreteOf,     \* arreteOf[r]: the arrete row r is about
  Hopeless,     \* rows whose letter the transport refuses every time
  Threshold,    \* NOTIFICATION_ATTEMPTS_BEFORE_ALERT
  AttemptCap,   \* bound: the attempt counter stops growing here
  MaxFaults,    \* bound: how many faults are injected
  NoRow         \* "no row in hand"

ASSUME RowAssumption ==
  /\ arreteOf \in [Row -> Arrete]
  /\ Hopeless \subseteq Row
  /\ NoRow \notin Row
ASSUME BoundAssumption ==
  /\ Threshold \in Nat \ {0}
  /\ AttemptCap \in Nat /\ AttemptCap >= Threshold
  /\ MaxFaults \in Nat

VARIABLES
  box,         \* the outbox table: absent, pending (sentAt null), sent, gone
  attempts,    \* its attempts column
  alerts,      \* NOTIFICATION_STUCK alerts on record, per row
  delivered,   \* copies the transport accepted, per row
  unrecorded,  \* accepted copies the outbox has no record of, per row
  pc,          \* where the run stands
  pass,        \* 1 before the ingest, 2 after it
  attempted,   \* the run's memo
  todo,        \* loaded rows whose group is still to come
  seen,        \* attempts as loadPending read it
  mails,       \* loadMails' answers for the rows still to handle
  batch,       \* rows of that group still to handle
  cur,         \* the row in hand
  tried,       \* sends of each row in the current run
  faults       \* faults so far

tableVars == <<box, attempts, alerts, delivered, unrecorded>>
runVars   == <<pc, pass, attempted, todo, seen, mails, batch, cur, tried>>
vars      == <<tableVars, runVars, faults>>

Steps   == {"idle", "load", "groups", "rows", "mark", "raise", "bump", "ingest"}
Answers == {"mail", "nothing", "omitted"}
Zero    == [r \in Row |-> 0]

TypeOK ==
  /\ box \in [Row -> {"absent", "pending", "sent", "gone"}]
  /\ attempts \in [Row -> Nat] /\ alerts \in [Row -> Nat]
  /\ delivered \in [Row -> Nat] /\ unrecorded \in [Row -> Nat]
  /\ pc \in Steps /\ pass \in {1, 2}
  /\ attempted \subseteq Row /\ todo \subseteq Row /\ batch \subseteq Row
  /\ seen \in [Row -> Nat] /\ tried \in [Row -> Nat]
  /\ mails \in [Row -> Answers]
  /\ cur \in Row \cup {NoRow}
  /\ cur # NoRow <=> pc \in {"mark", "raise", "bump"}
  /\ batch \subseteq attempted /\ todo \cap attempted = {}
  /\ faults \in 0 .. MaxFaults

Init ==
  /\ box = [r \in Row |-> "absent"]
  /\ attempts = Zero /\ alerts = Zero
  /\ delivered = Zero /\ unrecorded = Zero
  /\ pc = "idle" /\ pass = 1
  /\ attempted = {} /\ todo = {} /\ batch = {}
  /\ seen = Zero /\ tried = Zero
  /\ mails = [r \in Row |-> "omitted"]
  /\ cur = NoRow
  /\ faults = 0

Fault   == faults < MaxFaults /\ faults' = faults + 1
NoFault == UNCHANGED faults

-----------------------------------------------------------------------------
(* The run around the drains.                                              *)

StartRun ==
  /\ pc = "idle"
  /\ pc' = "load" /\ pass' = 1
  /\ attempted' = {} /\ tried' = Zero
  /\ UNCHANGED <<tableVars, todo, seen, mails, batch, cur>> /\ NoFault

(* The process-local state of a run that is over, or died.                 *)
Forget ==
  /\ pc' = "idle" /\ pass' = 1
  /\ attempted' = {} /\ todo' = {} /\ batch' = {}
  /\ seen' = Zero /\ tried' = Zero
  /\ mails' = [r \in Row |-> "omitted"]
  /\ cur' = NoRow

(* The ingest or the link pass commits a row with what it announces.       *)
Queue(r) ==
  /\ pc = "ingest"
  /\ box[r] = "absent"
  /\ box' = [box EXCEPT ![r] = "pending"]
  /\ UNCHANGED <<attempts, alerts, delivered, unrecorded, runVars>> /\ NoFault

IngestDone ==
  /\ pc = "ingest"
  /\ pc' = "load" /\ pass' = 2
  /\ UNCHANGED <<tableVars, attempted, todo, seen, mails, batch, cur, tried>>
  /\ NoFault

(* listDeltas, or anything else the ingest does not isolate, throws: the   *)
(* run ends without its second drain.                                      *)
IngestThrows ==
  /\ pc = "ingest"
  /\ Forget /\ UNCHANGED tableVars /\ Fault

-----------------------------------------------------------------------------
(* drainOutbox.                                                            *)

EndDrain ==
  IF pass = 1
    THEN /\ pc' = "ingest"
         /\ UNCHANGED <<pass, attempted, todo, seen, mails, batch, cur, tried>>
    ELSE Forget

(* Mutant: the sentAt filter is missing.                                   *)
PendingUnfiltered == {r \in Row : box[r] \in {"pending", "sent"}}

Pending == {r \in Row : box[r] = "pending"}

(* Mutant: the second drain forgets what the first one attempted.          *)
LoadPendingNoMemo ==
  /\ pc = "load"
  /\ todo' = Pending
  /\ seen' = [r \in Row |-> IF r \in todo' THEN attempts[r] ELSE 0]
  /\ pc' = "groups"
  /\ UNCHANGED <<tableVars, pass, attempted, mails, batch, cur, tried>> /\ NoFault

LoadPending ==
  /\ pc = "load"
  /\ todo' = Pending \ attempted
  /\ seen' = [r \in Row |-> IF r \in todo' THEN attempts[r] ELSE 0]
  /\ pc' = "groups"
  /\ UNCHANGED <<tableVars, pass, attempted, mails, batch, cur, tried>> /\ NoFault

LoadPendingThrows ==
  /\ pc = "load"
  /\ EndDrain /\ UNCHANGED tableVars /\ Fault

Group(a) == {r \in todo : arreteOf[r] = a}

(* A row still there gets a letter or has nothing left to say; one deleted *)
(* since it was loaded may still get a letter composed before that, or be  *)
(* left out of the answer because its unsubscribe token cannot be minted.  *)
MayAnswer(r, answer) == answer = "omitted" => box[r] = "gone"

LoadMails(a) ==
  /\ pc = "groups" /\ Group(a) # {}
  /\ attempted' = attempted \cup Group(a)
  /\ todo' = todo \ Group(a)
  /\ batch' = Group(a)
  /\ \E answer \in [Group(a) -> Answers] :
       /\ \A r \in Group(a) : MayAnswer(r, answer[r])
       /\ mails' = [r \in Row |-> IF r \in Group(a) THEN answer[r] ELSE "omitted"]
  /\ pc' = "rows"
  /\ UNCHANGED <<tableVars, pass, seen, cur, tried>> /\ NoFault

(* A rule gap or a failed lookup costs this group alone its turn.          *)
LoadMailsThrows(a) ==
  /\ pc = "groups" /\ Group(a) # {}
  /\ attempted' = attempted \cup Group(a)
  /\ todo' = todo \ Group(a)
  /\ UNCHANGED <<tableVars, pc, pass, seen, mails, batch, cur, tried>> /\ Fault

DrainDone ==
  /\ pc = "groups" /\ todo = {}
  /\ EndDrain /\ UNCHANGED tableVars /\ NoFault

GroupDone ==
  /\ pc = "rows" /\ batch = {}
  /\ pc' = "groups"
  /\ UNCHANGED <<tableVars, pass, attempted, todo, seen, mails, batch, cur, tried>>
  /\ NoFault

-----------------------------------------------------------------------------
(* One row of the group.                                                   *)

Take(r) ==
  /\ pc = "rows" /\ r \in batch
  /\ batch' = batch \ {r}
  /\ UNCHANGED <<pass, attempted, todo, seen, mails>>

SkipRow(r) ==
  /\ Take(r) /\ mails[r] = "omitted"
  /\ UNCHANGED <<tableVars, pc, cur, tried>> /\ NoFault

NothingToSend(r) ==
  /\ Take(r) /\ mails[r] = "nothing"
  /\ cur' = r /\ pc' = "mark"
  /\ UNCHANGED <<tableVars, tried>> /\ NoFault

Try(r) ==
  /\ Take(r) /\ mails[r] = "mail"
  /\ cur' = r
  /\ tried' = [tried EXCEPT ![r] = @ + 1]

Send(r) ==
  /\ Try(r) /\ r \notin Hopeless
  /\ delivered' = [delivered EXCEPT ![r] = @ + 1]
  /\ pc' = "mark"
  /\ UNCHANGED <<box, attempts, alerts, unrecorded>> /\ NoFault

(* countFailure's first decision: the alert comes before the attempt that  *)
(* reaches the threshold.                                                  *)
AfterFailure(r) == IF seen[r] + 1 = Threshold THEN "raise" ELSE "bump"

(* Mutant: no try/catch per recipient, a refused send leaves the group.    *)
SendRefusedLeavesGroup(r) ==
  /\ pc = "rows" /\ r \in batch /\ mails[r] = "mail"
  /\ batch' = {} /\ pc' = "groups"
  /\ \/ r \in Hopeless /\ NoFault
     \/ r \notin Hopeless /\ Fault
  /\ UNCHANGED <<tableVars, pass, attempted, todo, seen, mails, cur, tried>>

SendRefused(r) ==
  /\ Try(r)
  /\ \/ r \in Hopeless /\ NoFault
     \/ r \notin Hopeless /\ Fault
  /\ pc' = AfterFailure(r)
  /\ UNCHANGED tableVars

(* The transport's answer is lost after it accepted the letter.            *)
SendTimesOut(r) ==
  /\ Try(r) /\ r \notin Hopeless
  /\ delivered' = [delivered EXCEPT ![r] = @ + 1]
  /\ unrecorded' = [unrecorded EXCEPT ![r] = @ + 1]
  /\ pc' = AfterFailure(r)
  /\ UNCHANGED <<box, attempts, alerts>> /\ Fault

NextRow ==
  /\ pc' = "rows" /\ cur' = NoRow
  /\ mails' = [mails EXCEPT ![cur] = "omitted"]
  /\ UNCHANGED <<pass, attempted, todo, seen, batch, tried>>

CopyLost ==
  unrecorded' = [unrecorded EXCEPT ![cur] = IF mails[cur] = "mail" THEN @ + 1 ELSE @]

(* Mutant: the mark is an upsert and brings a deleted row back.            *)
MarkSentUpserts ==
  /\ pc = "mark"
  /\ box' = [box EXCEPT ![cur] = "sent"]
  /\ UNCHANGED <<attempts, alerts, delivered, unrecorded>> /\ NextRow /\ NoFault

(* The update of a row deleted meanwhile throws, and runGuarded swallows it. *)
MarkSent ==
  /\ pc = "mark"
  /\ box' = [box EXCEPT ![cur] = IF @ = "pending" THEN "sent" ELSE @]
  /\ UNCHANGED <<attempts, alerts, delivered, unrecorded>> /\ NextRow /\ NoFault

MarkSentFails ==
  /\ pc = "mark"
  /\ CopyLost
  /\ UNCHANGED <<box, attempts, alerts, delivered>> /\ NextRow /\ Fault

RaiseStuck ==
  /\ pc = "raise"
  /\ alerts' = [alerts EXCEPT ![cur] = @ + 1]
  /\ pc' = "bump"
  /\ UNCHANGED <<box, attempts, delivered, unrecorded, pass, attempted, todo,
                 seen, mails, batch, cur, tried>> /\ NoFault

(* Mutant: the alert has a guard of its own, and its failure still counts. *)
RaiseStuckFailsButCounts ==
  /\ pc = "raise"
  /\ pc' = "bump"
  /\ UNCHANGED <<tableVars, pass, attempted, todo, seen, mails, batch, cur, tried>>
  /\ Fault

(* Alert and count share one guard: a raise that fails skips the count.    *)
RaiseStuckFails ==
  /\ pc = "raise"
  /\ UNCHANGED tableVars /\ NextRow /\ Fault

(* Mutant: the attempt is never persisted.                                 *)
IncrementAttemptsInMemory ==
  /\ pc = "bump"
  /\ UNCHANGED tableVars /\ NextRow /\ NoFault

IncrementAttempts ==
  /\ pc = "bump"
  /\ attempts' = [attempts EXCEPT
       ![cur] = IF box[cur] = "pending" /\ @ < AttemptCap THEN @ + 1 ELSE @]
  /\ UNCHANGED <<box, alerts, delivered, unrecorded>> /\ NextRow /\ NoFault

IncrementAttemptsFails ==
  /\ pc = "bump"
  /\ UNCHANGED tableVars /\ NextRow /\ Fault

-----------------------------------------------------------------------------
(* The environment.                                                        *)

(* The process stops: a letter accepted and not yet marked loses its record. *)
Crash ==
  /\ pc # "idle"
  /\ IF pc = "mark" THEN CopyLost ELSE UNCHANGED unrecorded
  /\ Forget
  /\ UNCHANGED <<box, attempts, alerts, delivered>> /\ Fault

(* The watcher unsubscribes or the owner deletes the dossier: the row is   *)
(* cascaded away.  Nothing here reads a row once it is sent.               *)
Delete(r) ==
  /\ box[r] = "pending"
  /\ box' = [box EXCEPT ![r] = "gone"]
  /\ UNCHANGED <<attempts, alerts, delivered, unrecorded, runVars>> /\ NoFault

RunStep ==
  \/ StartRun \/ IngestDone \/ LoadPending \/ DrainDone \/ GroupDone
  \/ MarkSent \/ RaiseStuck \/ IncrementAttempts
  \/ \E a \in Arrete : LoadMails(a)
  \/ \E r \in Row : SkipRow(r) \/ NothingToSend(r) \/ Send(r)
  \/ \E r \in Hopeless : SendRefused(r)

FaultStep ==
  \/ IngestThrows \/ LoadPendingThrows \/ MarkSentFails \/ RaiseStuckFails
  \/ IncrementAttemptsFails \/ Crash
  \/ \E a \in Arrete : LoadMailsThrows(a)
  \/ \E r \in Row : SendRefused(r) \/ SendTimesOut(r)

Next == RunStep \/ FaultStep \/ \E r \in Row : Queue(r) \/ Delete(r)

Spec == Init /\ [][Next]_vars

(* The scheduler ticks for ever and a run that has a next step takes it;   *)
(* nothing is assumed of the environment.                                  *)
FairSpec == Spec /\ WF_vars(RunStep)

-----------------------------------------------------------------------------
(* Properties.                                                             *)

(* A row whose failures reached the threshold has its alert on record,     *)
(* whatever failed or stopped in between: "a stuck row nobody is told      *)
(* about is the one state this counter exists to prevent" (countFailure).  *)
StuckIsReported == \A r \in Row : attempts[r] >= Threshold => alerts[r] > 0

(* No copy of a letter goes out beyond the first unless the record of an   *)
(* earlier copy was lost, and a row the run is not marking at this moment  *)
(* is pending only if every copy that went out is such a loss.             *)
DuplicatesExplained ==
  \A r \in Row :
    /\ delivered[r] <= unrecorded[r] + 1
    /\ box[r] = "pending" /\ ~(pc = "mark" /\ cur = r)
         => delivered[r] = unrecorded[r]

(* The two drains of one run try a row once between them (the memo): one   *)
(* failing send costs one attempt and one unsubscribe token per run.       *)
OncePerRun == \A r \in Row : tried[r] <= 1

(* A group that cannot be composed, a letter that is always refused and a  *)
(* finite number of faults cost other rows time, not delivery: every row   *)
(* the transport does not refuse for ever leaves the outbox.               *)
EventuallySettled ==
  \A r \in Row \ Hopeless : box[r] = "pending" ~> box[r] # "pending"

(* A letter that is refused for ever ends with the administrator told.     *)
EventuallyReported ==
  \A r \in Hopeless : box[r] = "pending" ~> (alerts[r] > 0 \/ box[r] # "pending")

(* The cycle implements what an outbox promises.                           *)
Contract == INSTANCE OutboxContract WITH
  Row <- Row, Threshold <- Threshold, box <- box, attempts <- attempts,
  alerts <- alerts, delivered <- delivered, unrecorded <- unrecorded
KeepsContract == Contract!CSpec
=============================================================================
