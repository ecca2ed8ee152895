----------------------------- MODULE IngestLease -----------------------------
(***************************************************************************)
(* The leased MonitorLock row that keeps ingest runs apart: the scheduled  *)
(* ticks of the deployed app and the backfill script, each in a process of *)
(* its own, against one database (JorfMonitorService.run and               *)
(* acquireIngestLock, scripts/jorf-backfill.ts).                           *)
(*                                                                         *)
(* An acquisition is three database calls that other processes interleave  *)
(* with, all working from the clock read before the first.  Time is kept   *)
(* relative: left is what remains of the lease, timer[p] how long process  *)
(* p has been in its current step, and a step takes at most Limit time.    *)
(* Owners are random uuids: once the process that drew one has forgotten   *)
(* it, nobody can present it again, and the row's owner reads Stale.       *)
(***************************************************************************)
EXTENDS Integers

CONSTANTS
  Apps,         \* processes running the scheduled tick
  Scripts,      \* processes running the backfill script
  Stale,        \* an owner no process remembers
  NoOwner,      \* there is no lock row
  TTL,          \* INGEST_LOCK_TTL_MS
  CallLimit,    \* the most the calls around a run take: acquire, count, tally
  IngestLimit,  \* the most the downloads and the ingest of one run take
  SendLimit,    \* the most one letter takes
  Letters,      \* letters the drains of one run send; the code has no bound
  Backlog,      \* bound: deltas the script starts with
  MaxFaults     \* bound: failed calls and crashes

Proc == Apps \cup Scripts

ASSUME ProcAssumption ==
  /\ Apps \cap Scripts = {}
  /\ Stale \notin Proc /\ NoOwner \notin Proc /\ Stale # NoOwner
ASSUME TimeAssumption ==
  /\ TTL \in Nat /\ CallLimit \in Nat /\ IngestLimit \in Nat
  /\ SendLimit \in Nat /\ Letters \in Nat
  /\ Backlog \in Nat /\ MaxFaults \in Nat

VARIABLES
  owner,    \* the lock row's owner, or NoOwner
  left,     \* time until its expiresAt, floored where it stops mattering
  pc,       \* where each process stands; an app off "idle" has running = true
  timer,    \* time each has spent there, for an acquisition since its clock read
  inLoop,   \* scripts between their first acquisition and their release
  last,     \* the remaining deltas a script last read
  stalled,  \* its stalledPasses
  missed,   \* scripts one of whose renewals failed
  pending,  \* deltas of the backfill not yet ingested
  faults    \* faults so far

lockVars   == <<owner, left>>
scriptVars == <<inLoop, last, stalled, missed>>
leaseVars       == <<lockVars, pc, timer, scriptVars, pending, faults>>

Steps == {"idle", "update", "find", "create", "counts", "loop", "run", "tally",
          "release"}
Acquiring == {"update", "find", "create"}

(* A run drains, downloads and ingests, and drains again, in one lease.    *)
RunLimit == IngestLimit + Letters * SendLimit

Limit(step) == IF step = "run" THEN RunLimit ELSE CallLimit

LeaseTypeOK ==
  /\ owner \in Proc \cup {Stale, NoOwner}
  /\ left \in -CallLimit .. TTL
  /\ pc \in [Proc -> Steps]
  /\ timer \in [Proc -> Nat]
  /\ \A p \in Proc : timer[p] <= Limit(pc[p])
  /\ inLoop \in [Scripts -> BOOLEAN]
  /\ last \in [Scripts -> 0 .. Backlog]
  /\ stalled \in [Scripts -> 0 .. 2]
  /\ missed \subseteq Scripts
  /\ pending \in 0 .. Backlog
  /\ faults \in 0 .. MaxFaults
  /\ \A p \in Apps : pc[p] \notin {"counts", "loop", "tally"}
  /\ \A s \in Scripts : inLoop[s] =>
       pc[s] \in Acquiring \cup {"loop", "run", "tally", "release"}

LeaseInit ==
  /\ owner = NoOwner /\ left = 0
  /\ pc = [p \in Proc |-> "idle"]
  /\ timer = [p \in Proc |-> 0]
  /\ inLoop = [s \in Scripts |-> FALSE]
  /\ last = [s \in Scripts |-> 0]
  /\ stalled = [s \in Scripts |-> 0]
  /\ missed = {}
  /\ pending = Backlog
  /\ faults = 0

Fault   == faults < MaxFaults /\ faults' = faults + 1
NoFault == UNCHANGED faults

Go(p, step) ==
  /\ pc' = [pc EXCEPT ![p] = step]
  /\ timer' = [timer EXCEPT ![p] = 0]

(* The next call of the same acquisition: its clock was read before it.    *)
Proceed(p, step) ==
  /\ pc' = [pc EXCEPT ![p] = step]
  /\ UNCHANGED timer

(* What p's loop and uuid leave behind when it ends: its row is nobody's.  *)
Orphan(p) == owner' = IF owner = p THEN Stale ELSE owner

LeaveLoop(p) ==
  IF p \in Scripts
    THEN /\ inLoop' = [inLoop EXCEPT ![p] = FALSE]
         /\ last' = [last EXCEPT ![p] = 0]
         /\ stalled' = [stalled EXCEPT ![p] = 0]
         /\ missed' = missed \ {p}
    ELSE UNCHANGED scriptVars

InScriptLoop(p) == p \in Scripts /\ inLoop[p]

-----------------------------------------------------------------------------
(* acquireIngestLock.                                                      *)

(* A tick, or the script's first call: the clock is read.                  *)
Start(p) ==
  /\ pc[p] = "idle"
  /\ Go(p, "update")
  /\ UNCHANGED <<lockVars, scriptVars, pending>> /\ NoFault

TakeLease(p) ==
  /\ owner' = p
  /\ left' = TTL - timer[p]

(* The script takes the lease once for its whole loop, a run once for itself. *)
Granted(p) ==
  Go(p, IF p \in Scripts /\ ~inLoop[p] THEN "counts" ELSE "run")

(* A refused tick is skipped, a refused script exits, and a refused run of *)
(* the script's loop is a pass without progress.                           *)
Refused(p) == Go(p, IF InScriptLoop(p) THEN "tally" ELSE "idle")

(* Mutant: the expired lease of another owner is not taken over.           *)
MatchesOwnerOnly(p) == owner = p

(* The where clause of the updateMany, read against p's clock.             *)
Matches(p) ==
  \/ owner = p
  \/ owner # NoOwner /\ left <= -timer[p]

UpdateLease(p) ==
  /\ pc[p] = "update"
  /\ IF Matches(p)
       THEN TakeLease(p) /\ Granted(p)
       ELSE Proceed(p, "find") /\ UNCHANGED lockVars
  /\ UNCHANGED <<scriptVars, pending>> /\ NoFault

FindLease(p) ==
  /\ pc[p] = "find"
  /\ IF owner # NoOwner THEN Refused(p) ELSE Proceed(p, "create")
  /\ UNCHANGED <<lockVars, scriptVars, pending>> /\ NoFault

(* Another process may have created the row since: a unique violation.     *)
CreateLease(p) ==
  /\ pc[p] = "create"
  /\ IF owner = NoOwner
       THEN TakeLease(p) /\ Granted(p)
       ELSE Refused(p) /\ UNCHANGED lockVars
  /\ UNCHANGED <<scriptVars, pending>> /\ NoFault

(* One of the calls throws; the write it made may have been committed.  A  *)
(* run that could not take the lease ends, and the script's main with it.  *)
AcquireThrows(p) ==
  /\ pc[p] \in Acquiring
  /\ \/ UNCHANGED lockVars
     \/ pc[p] = "update" /\ Matches(p) /\ left' = TTL - timer[p]
        /\ owner' = IF InScriptLoop(p) THEN p ELSE Stale
     \/ pc[p] = "create" /\ owner = NoOwner /\ left' = TTL - timer[p]
        /\ owner' = IF InScriptLoop(p) THEN p ELSE Stale
  /\ Refused(p)
  /\ missed' = IF InScriptLoop(p) THEN missed \cup {p} ELSE missed
  /\ UNCHANGED <<inLoop, last, stalled, pending>> /\ Fault

-----------------------------------------------------------------------------
(* A run, and the lease after it.                                          *)

(* Mutant: a run releases the lease it renewed for the script as well.     *)
RunDoneReleases(p) ==
  /\ pc[p] = "run"
  /\ pending' \in 0 .. pending
  /\ IF p \in Scripts
       THEN /\ owner' = IF owner = p THEN NoOwner ELSE owner
            /\ left' = IF owner = p THEN 0 ELSE left
            /\ Go(p, "tally")
       ELSE UNCHANGED lockVars /\ Go(p, "release")
  /\ UNCHANGED scriptVars /\ NoFault

(* A run ingests some of the pending deltas, or none when all of them fail *)
(* or it throws; a backfill-owned lease outlives it.                       *)
RunDone(p) ==
  /\ pc[p] = "run"
  /\ pending' \in 0 .. pending
  /\ Go(p, IF p \in Scripts THEN "tally" ELSE "release")
  /\ UNCHANGED <<lockVars, scriptVars>> /\ NoFault

(* Mutant: the release deletes the row whoever owns it.                    *)
ReleaseAnyOwner(p) ==
  /\ pc[p] = "release"
  /\ owner' = NoOwner /\ left' = 0
  /\ LeaveLoop(p) /\ Go(p, "idle")
  /\ UNCHANGED pending /\ NoFault

Release(p) ==
  /\ pc[p] = "release"
  /\ owner' = IF owner = p THEN NoOwner ELSE owner
  /\ left' = IF owner = p THEN 0 ELSE left
  /\ LeaveLoop(p) /\ Go(p, "idle")
  /\ UNCHANGED pending /\ NoFault

ReleaseThrows(p) ==
  /\ pc[p] = "release"
  /\ Orphan(p) /\ LeaveLoop(p) /\ Go(p, "idle")
  /\ UNCHANGED <<left, pending>> /\ Fault

-----------------------------------------------------------------------------
(* The script's loop.                                                      *)

(* tableCounts, then the first pendingDeltas inside the try.               *)
CountTables(s) ==
  /\ pc[s] = "counts"
  /\ inLoop' = [inLoop EXCEPT ![s] = TRUE]
  /\ last' = [last EXCEPT ![s] = pending]
  /\ Go(s, "loop")
  /\ UNCHANGED <<lockVars, stalled, missed, pending>> /\ NoFault

(* tableCounts runs before the try: its failure leaves the lease behind.   *)
CountTablesThrows(s) ==
  /\ pc[s] = "counts"
  /\ Orphan(s) /\ Go(s, "idle")
  /\ UNCHANGED <<left, scriptVars, pending>> /\ Fault

Iterate(s) ==
  /\ pc[s] = "loop"
  /\ Go(s, IF last[s] > 0 THEN "update" ELSE "release")
  /\ UNCHANGED <<lockVars, scriptVars, pending>> /\ NoFault

(* Mutant: only a third pass without progress gives up.                    *)
TallyPatient(s) ==
  /\ pc[s] = "tally"
  /\ stalled' = [stalled EXCEPT ![s] = IF pending = last[s] THEN @ + 1 ELSE 0]
  /\ last' = [last EXCEPT ![s] = pending]
  /\ Go(s, IF stalled'[s] = 3 THEN "release" ELSE "loop")
  /\ UNCHANGED <<lockVars, inLoop, missed, pending>> /\ NoFault

(* Mutant: every pass resets the count.                                    *)
TallyForgets(s) ==
  /\ pc[s] = "tally"
  /\ stalled' = [stalled EXCEPT ![s] = IF pending = last[s] THEN 1 ELSE 0]
  /\ last' = [last EXCEPT ![s] = pending]
  /\ Go(s, "loop")
  /\ UNCHANGED <<lockVars, inLoop, missed, pending>> /\ NoFault

(* The second pass in a row without progress makes the script give up.     *)
Tally(s) ==
  /\ pc[s] = "tally"
  /\ stalled' = [stalled EXCEPT ![s] = IF pending = last[s] THEN @ + 1 ELSE 0]
  /\ last' = [last EXCEPT ![s] = pending]
  /\ Go(s, IF stalled'[s] = 2 THEN "release" ELSE "loop")
  /\ UNCHANGED <<lockVars, inLoop, missed, pending>> /\ NoFault

(* pendingDeltas throws: the finally still releases.                       *)
TallyThrows(s) ==
  /\ pc[s] = "tally"
  /\ Go(s, "release")
  /\ UNCHANGED <<lockVars, scriptVars, pending>> /\ Fault

-----------------------------------------------------------------------------
(* The process stops; whatever lease it holds is nobody's.                 *)
Crash(p) ==
  /\ pc[p] # "idle"
  /\ Orphan(p) /\ LeaveLoop(p) /\ Go(p, "idle")
  /\ UNCHANGED <<left, pending>> /\ Fault

(* Time passes, as far as every step's limit allows.                       *)
Tick ==
  /\ \A p \in Proc : pc[p] # "idle" => timer[p] < Limit(pc[p])
  /\ timer' = [p \in Proc |-> IF pc[p] = "idle" THEN 0 ELSE timer[p] + 1]
  /\ left' = IF owner # NoOwner /\ left > -CallLimit THEN left - 1 ELSE left
  /\ UNCHANGED <<owner, pc, scriptVars, pending>> /\ NoFault

(* The step a process takes when nothing fails.                            *)
Advance(p) ==
  \/ UpdateLease(p) \/ FindLease(p) \/ CreateLease(p) \/ RunDone(p) \/ Release(p)
  \/ p \in Scripts /\ (CountTables(p) \/ Iterate(p) \/ Tally(p))

FaultStep(p) ==
  \/ AcquireThrows(p) \/ ReleaseThrows(p) \/ Crash(p)
  \/ p \in Scripts /\ (CountTablesThrows(p) \/ TallyThrows(p))

LeaseNext == Tick \/ \E p \in Proc : Start(p) \/ Advance(p) \/ FaultStep(p)

LeaseSpec == LeaseInit /\ [][LeaseNext]_leaseVars

(* Time passes, a process takes its next step, and the schedule ticks for  *)
(* ever; nobody is bound to start the script.                              *)
LeaseFairSpec ==
  /\ LeaseSpec
  /\ WF_leaseVars(Tick)
  /\ \A p \in Proc : WF_leaseVars(Advance(p))
  /\ \A a \in Apps : WF_leaseVars(Start(a))

-----------------------------------------------------------------------------
(* Properties.                                                             *)

(* What INGEST_LOCK_TTL_MS has to outlast: a run and the calls around it.  *)
LeaseOutlivesRun == RunLimit + 4 * CallLimit < TTL

(* No two processes are inside runOnce at once: no delta is downloaded and *)
(* ingested twice, no outbox row sent by two runs ("a live holder never    *)
(* loses the lease mid-run", INGEST_LOCK_TTL_MS).                          *)
IngestExclusive ==
  \A p, q \in Proc : pc[p] = "run" /\ pc[q] = "run" => p = q

(* While the script is in its loop and none of its renewals has failed, no *)
(* other process runs, between its iterations either: no tick ingests the  *)
(* historical deltas with notifications on (RunOptions.lockOwner).         *)
BackfillShielded ==
  \A s \in Scripts : inLoop[s] /\ s \notin missed =>
    \A p \in Proc \ {s} : pc[p] # "run"

(* A lease left behind by a crash, a failed release or a failed count is   *)
(* taken over in the end: it blocks the monitor for one TTL, not for good. *)
StaleLeaseYields == owner = Stale ~> owner # Stale

(* The script's loop ends, by running out of deltas or by giving up, even  *)
(* if its runs are refused or make no progress.                            *)
BackfillEnds == \A s \in Scripts : inLoop[s] ~> ~inLoop[s]
=============================================================================
