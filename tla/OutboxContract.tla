--------------------------- MODULE OutboxContract ---------------------------
(***************************************************************************)
(* What a mail outbox of the JORF monitor promises, independent of how its *)
(* rows are grouped, attempted and marked: a row is opened once, stays     *)
(* open while its letter is tried, leaves the outbox for good, and is only *)
(* counted as stuck once the administrator has an alert for it.            *)
(* OutboxDrain is shown to implement this specification.                   *)
(***************************************************************************)
EXTENDS Naturals

CONSTANTS
  Row,        \* outbox rows: one (recipient, arrete) or (dossier, arrete, kind) each
  Threshold   \* failed attempts after which a row counts as stuck

VARIABLES
  box,        \* box[r]: where the row stands, in RowStatus
  delivered,  \* delivered[r]: copies of the row's letter the transport accepted
  unrecorded, \* unrecorded[r]: accepted copies the outbox has no record of
  attempts,   \* attempts[r]: failed attempts on record
  alerts      \* alerts[r]: NOTIFICATION_STUCK alerts raised for the row

contractVars == <<box, delivered, unrecorded, attempts, alerts>>

RowStatus == {"absent", "pending", "sent", "gone"}

Zero == [r \in Row |-> 0]

CInit ==
  /\ box = [r \in Row |-> "absent"]
  /\ delivered = Zero
  /\ unrecorded = Zero
  /\ attempts = Zero
  /\ alerts = Zero

(* The row is committed with the fact it announces. *)
Open(r) ==
  /\ box[r] = "absent"
  /\ box' = [box EXCEPT ![r] = "pending"]
  /\ UNCHANGED <<delivered, unrecorded, attempts, alerts>>

(* The transport accepts one copy of the letter. *)
Deliver(r) ==
  /\ box[r] \in {"pending", "gone"}
  /\ delivered[r] <= unrecorded[r]
  /\ delivered' = [delivered EXCEPT ![r] = @ + 1]
  /\ UNCHANGED <<box, unrecorded, attempts, alerts>>

(* The same, but the program never learns of it. *)
DeliverUnrecorded(r) ==
  /\ box[r] \in {"pending", "gone"}
  /\ delivered[r] <= unrecorded[r]
  /\ delivered' = [delivered EXCEPT ![r] = @ + 1]
  /\ unrecorded' = [unrecorded EXCEPT ![r] = @ + 1]
  /\ UNCHANGED <<box, attempts, alerts>>

(* An accepted copy whose record is lost: the letter may go out again. *)
LoseRecord(r) ==
  /\ unrecorded[r] < delivered[r]
  /\ unrecorded' = [unrecorded EXCEPT ![r] = @ + 1]
  /\ UNCHANGED <<box, delivered, attempts, alerts>>

(* The row leaves the outbox: its letter is out, or it had none to send. *)
Settle(r) ==
  /\ box[r] = "pending"
  /\ box' = [box EXCEPT ![r] = "sent"]
  /\ UNCHANGED <<delivered, unrecorded, attempts, alerts>>

(* The recipient, or the dossier, is deleted and takes the row with it. *)
Discard(r) ==
  /\ box[r] = "pending"
  /\ box' = [box EXCEPT ![r] = "gone"]
  /\ UNCHANGED <<delivered, unrecorded, attempts, alerts>>

Alert(r) ==
  /\ alerts' = [alerts EXCEPT ![r] = @ + 1]
  /\ UNCHANGED <<box, delivered, unrecorded, attempts>>

(* A failed attempt goes on record; the one that makes the row stuck only  *)
(* once the alert is out.                                                  *)
CountFailure(r) ==
  /\ box[r] = "pending"
  /\ attempts[r] + 1 >= Threshold => alerts[r] > 0
  /\ attempts' = [attempts EXCEPT ![r] = @ + 1]
  /\ UNCHANGED <<box, delivered, unrecorded, alerts>>

CNext ==
  \E r \in Row :
    \/ Open(r) \/ Deliver(r) \/ DeliverUnrecorded(r) \/ LoseRecord(r)
    \/ Settle(r) \/ Discard(r) \/ Alert(r) \/ CountFailure(r)

CSpec == CInit /\ [][CNext]_contractVars

=============================================================================
