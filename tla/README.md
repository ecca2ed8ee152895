# A formal model of mon-sinistre

mon-sinistre follows the French *catastrophe naturelle* procedure for its users.
A monitor reads the Journal officiel (JORF) as DILA republishes it, stores the
ministerial arrêtés it finds, links them to the dossiers (*sinistres*) its users
opened, dates the 30-day declaration deadline off the publication, and writes to
the owners and to people who only watch a commune (*veilles*).  A letter that is
lost or a deadline that is wrong costs somebody their compensation, and both
depend on orders of events a test seldom sets up: that is what this directory
models.  It holds TLA+ modules translated from `src/apps/api` and `src/apps/web`, TLC runs over
small instances of them, and theorems about them checked by TLAPS.

`PROJECT.json` lists for every definition the lines it translates, for every
property a mutation of the code that breaks it, the hazards, the findings and
the theorems.

## 1. The system

| component | state | operations | hard because |
|---|---|---|---|
| Monitor run (`jorf-monitor.service.ts`, `runOnce`) | `Arrete`, `ArreteEntry`, `JorfDelta` | drain, list, download, ingest, link, record, drain | steps fail one by one, texts are revised, requests interleave |
| Ingest lease (`run`, `acquireIngestLock`, `scripts/jorf-backfill.ts`) | `MonitorLock` | acquire, renew, take over, release | several processes, clocks, crashes |
| Mail outboxes (`drain-outbox.ts` and two adapters) | `SinistreNotification`, `VeilleNotification`, `attempts`, alerts | load, compose, send, mark, count, alert | a send is not transactional, rows vanish under the run |
| Dossiers (`sinistres.service.ts`, `snapshot-plan.ts`) | `Sinistre`, `Step` | create, declare, mark a step, delete | four writers of status and dates |
| Matching and recipients (`match-sinistres.ts`, `resolve-recipients.ts`) | none | pure functions | merged communes, ties, rule gaps |
| Veille subscriptions (`veille.service.ts`) | `Veille`, `VeilleCommune`, `VeilleChange`, `VeilleFormEmail` | request, confirm, change, unsubscribe, clean up | token rotation, limits, expiry |
| Accounts and sessions (`auth.service.ts`) | `User`, `RefreshToken`, `PasswordReset`, pending dossier | register, confirm, login, refresh, reset | rotation with a grace period, lockout, mail limits |
| Reminders (`reminders.service.ts`) | reminder records, failure counts | daily selection, send, record, count | send against record, count against alert |
| Web session (`web/src/lib/api/session.ts`) | access token, refresh in flight | refresh, login, logout | late answers |
| Deadline rules (`deadline-rules/`) | `DeadlineRule` versions | lookup, calendar arithmetic | gaps, Saturdays, leap days |
| JORF parsing and pairing (`parse-arrete.ts`, `pairEntries`) | `ArreteEntry` | parse, place, pair, write | revisions change what lines are known by |
| Commune referential (`communes/`) | `Commune` | import, merger, lookup | mergers under stored codes |
| DILA client, mail transports, HTTP layer, rendering | (see PROJECT.json) | I/O or layout | not concurrent logic |

How they meet: the scheduler calls `run` twice a day in every deployed process;
the backfill script calls the same `run` in a loop, in its own process, with
`notify: false`.  Both serialise through the lease.  A run writes outbox rows in
the transaction that creates their reason and drains them at its start and its
end.  Owners and watchers act through HTTP at any moment, so every database
transaction of a run can be followed by one of theirs.

What makes each part correct:

- *lease*: one run at a time; no scheduled run inside a backfill; a dead
  holder's lease yields; the backfill ends;
- *outboxes*: a stuck letter is reported; copies beyond the first have a recorded
  cause; one attempt per run; one failing row does not hold up the others;
- *run*: what is recorded as done is stored; every downloadable delta is
  recorded in the end; watchers are told of every arrêté that comes to cover one
  of their communes, and of nothing else;
- *dossiers*: the status is a function of link and declaration; the deadline is
  that of the line as now stored; it never appears in silence; no twin, no
  deadlock between requests;
- *publication*: everything printed is stored, a correction corrects its row, a row
  never changes its commune;
- *accounts*: one working link, no dossier left behind, a password changes only
  by a link;
- *sessions*: tabs never sign each other out, a login stands, a page never waits
  for nothing;
- *veilles*: only links decide, and every letter can end them;
- *reminders*: each threshold told once, whatever the dates do.

## 2. The modules

| module | models | lines of code it stands for |
|---|---|---|
| `OutboxContract` | what an outbox promises, whatever the drain does | the promises in the comments, at the calls that keep them |
| `OutboxDrain` | the drain cycle under a run that drains twice | `drain-outbox.ts`, the adapters, `runGuarded` |
| `IngestLease` | processes contending for the lease, in discrete time | `run`, `acquireIngestLock`, `releaseIngestLock`, the script's `main` |
| `JorfMonitor` | a run's effect on the database with owners and watchers | `runOnce` and below, `create`, `update`, `remove`, `confirm`, `unsubscribe` |
| `Dossiers` | one person's dossiers against the monitor, statement by statement | `sinistres.service.ts`, `applyRectificatif`, `linkSinistres`, `match-sinistres.ts` |
| `DossierPlan` | status, anchors, planned dates, order of winners (pure) | `sinistre-status.ts`, `anchor-dates.ts`, `snapshot-plan.ts` |
| `Publication` | one arrêté from its print to its rows | `parse-arrete.ts`, `match-commune.ts`, `ingestArrete`, `pairEntries`, the commune import |
| `Calendar` | calendar arithmetic and versions of a rule (pure) | `deadline-rules/` |
| `Referential` | successors of merged communes (pure) | `resolveCurrentCode` in `resolve-recipients.ts`, `codes-merged-into.ts` |
| `Account` | registration, confirmation, waiting dossier, reset, login | `auth.service.ts` |
| `WebSession` | the session of one browser and the endpoints behind it | `session.ts`, `client.ts`, the pages that use them, `refresh`, `logout` |
| `Sessions` | the `RefreshToken` table, shared by the two (pure) | the statements on it in `auth.service.ts` |
| `Veille` | the subscription of one address, its form, links and pages | `veille.service.ts`, the veille pages, the watcher letters of a drain |
| `Reminders` | the daily letter about deadlines | `reminders.service.ts`, `select-reminders.ts` |
| `Ingest_proofs` | theorems about `IngestLease` and `Publication` | |
| `OutboxDrain_proofs`, `JorfMonitor_proofs`, `Dossiers_proofs`, `Veille_proofs`, `Account_proofs`, `WebSession_proofs`, `Reminders_proofs` | theorems about the module of that name | |
| `MC...` | small instances for TLC | |

They fit together like this.  `OutboxDrain` implements `OutboxContract`
(`Contract == INSTANCE OutboxContract WITH ...`, `KeepsContract`).  `IngestLease`
justifies that the other modules have a single run; `OutboxDrain` justifies that a
drain in `JorfMonitor` settles an arbitrary subset of the pending rows.
`JorfMonitor` treats a transaction as one step and many dossiers at once;
`Dossiers` takes the transactions that meet a request apart.  `Publication`
justifies the *line* of `JorfMonitor`: the row a line is paired with keeps its
commune.  `Account` opens the dossier whose creation `Dossiers` models as a request
with an outer transaction, and hands `WebSession` its refresh tokens through
`Sessions`.

**OutboxDrain.**  `box[r]` is the row in its table (`absent`, `pending` with
`sentAt` null, `sent`, `gone` when cascaded away), `attempts` its column,
`alerts` the `NOTIFICATION_STUCK` rows.  `attempted` is `SendPass.attempted`,
`todo` and `seen` are what `loadPending` returned (`seen` keeps the attempts as
read, since `countFailure` adds to those), `mails` the three answers of
`loadMails` for the current group, `cur` the row being sent, marked or counted.
`delivered` and `unrecorded` are history: copies the transport accepted, and
accepted copies whose record was lost.  Each awaited call is one action with its
failing twin (`MarkSent` / `MarkSentFails`, ...); `Crash` forgets the run.

**IngestLease.**  Each of the three statements of an acquisition is an action;
all work from the clock read before the first, so `timer[p]` is how long ago that
was and `left` is what remains of the lease now.  `Tick` lets time pass while no
step exceeds its limit.  Owners are uuids: when the process that drew one forgets
it, the row belongs to `Stale`.  A failed call may or may not have committed
(`AcquireThrows`).  A script repeats `Iterate`, acquire, run, `Tally` until
nothing is pending or two passes in a row made no progress; `missed` records
scripts whose renewal failed, which can lose their shield.

**JorfMonitor.**  A *text* is one revision of an arrêté; `stored[n]` is the text
the `Arrete` row holds, so `contentHash` and `publishedAt` come with it.  A
*line* is what `pairEntries` pairs between revisions; `entry[<<n, l>>]` is its row,
with the place it was resolved to and its outcome.  A *place* stands for the
commune, risk and period that matching compares; `communeOf` is the commune it is
in, which is all that watchers are resolved from, so a line whose risk or period
alone is corrected writes to none of them (`AddedLines`).  A dossier carries its link,
status, declaration date, the date its declaration deadline runs from
(`planned`) and the one its insurer deadlines run from (`insurer`): every
deadline is a fixed function of its anchor.  `RunOptions.notify` is `notify`.
Three history variables: `ingested` holds the texts that have been the stored
revision of their arrêté, `quiet` holds the dossiers dated without a letter on
purpose (at creation or by a backfill), `behind` those a revision passed over:
it changed or moved their line between their plan and their insertion (`Insert`
compares the two), or it moved the publication without printing their line
(`Dropped`).  `StatusFollowsLink` and `DatedByLink` exempt
`behind`: the code leaves those dossiers to the next revision or request.

**Dossiers.**  `db` holds the committed rows of a dossier (the `Sinistre`, its
declaration step, its insurer step), `pending[p]` what the transaction of a
request or of the monitor has written.  A write waits for the row locks of
others, a read sees what is committed and its own writes: READ COMMITTED.  A
request to create looks for a twin (`Look`), plans, takes the advisory lock of
its user, looks again and inserts (`Recheck`, `Insert`), or does so
inside the confirmation of an account (`Drain`); a PATCH reads and writes in
four statements; a DELETE cascades from the parent.  The monitor revises an
arrêté in one transaction over many dossiers and links in one transaction per
dossier.  `Circle` is what PostgreSQL's deadlock detector finds, `Victim...` what
it does about it.  `Merge` sets a commune's successor at any moment.  `raced` is
history: the dossiers whose PATCH overlapped the monitor, or that were created
over a text being stored.

**Publication.**  A text is a tree: annexes, tables, a header and rows of cells.
`EntriesOf` is `parseArreteXml` (a text it throws on is not in its domain),
`MatchCommune` and `ClassifyRisques` place a line, `PairEntries` pairs in the
code's three passes, `Writes` are the rows the transaction leaves and `Collide`
is the unique index that makes it throw.  `Import` is the commune import, each
upsert committed on its own.  `meantBy` is what no program knows: the commune a
printed label is about, which the properties are stated with.  The names of
`IngestLease` start with `Lease` where they would meet those of `Publication` in
`Ingest_proofs`.

**Account, Veille, Reminders.**  A handler is a request in flight, `pc` the
statement it stands before; any two interleave wherever the code awaits, and
`Abandon` ends one anywhere (a crash, or a statement that throws).  Tokens are
numbers, never reused; `letters` is the mailbox and what it ever received, so
any link in it can be clicked at any time, twice or late.  A deadline is a flag
that its passing sets.  In `Veille`, `page` is the page behind a link with what
it read; in `Reminders`, days are numbers, a run is the selection of the morning
and then a letter per person, and `inbox` remembers the reasons of each letter
and whether its record was written.

**WebSession.**  Tabs share the cookie `jar`; each has a page, an access token in
memory, the refresh in flight its guard, its retries and its header share, and
one request beside it.  A request travels, is served and answered; the cookie
is attached when it leaves and stored when the answer arrives, so the tabs'
refreshes overlap in every order, with logins, logouts, reloads and lost
messages between them.

## 3. The runs

| run | question | instance | distinct states |
|---|---|---|---|
| `outbox_drain` | does the cycle keep its promises under faults? | 3 rows, 2 arrêtés, one hopeless row, threshold 2, 2 faults | 943 969 |
| `ingest_lease` | do runs exclude each other, do leases yield? | 2 apps, 1 script, backlog 2, TTL 8 against a run of 3, calls of 1, 2 faults | 108 853 |
| `jorf_monitor` | do statuses, dates and letters agree? | 2 dossiers, no watcher, 2 arrêtés, 5 texts, 3 deltas, 2 faults | 1 441 991 |
| `jorf_live` | does everything get ingested and dated, and are watchers told? | 1 dossier, 1 watcher, batches of 2, 2 faults | 252 416 |
| `dossiers` | do requests and the monitor agree on the same rows? | 2 dossiers, 2 communes of which one may merge, 3 texts of 2 arrêtés, 3 requests, 2 at a time | 735 156 |
| `publication` | does a revision correct what is stored? | about 30 texts of one arrêté, 3 periods, 3 deliveries, one change of the referential | 155 307 |
| `account` | what do links, limits and races do to one account? | 1 address, 2 passwords, 2 requests at a time, 3 links, 5 events | 1 488 921 |
| `web_session` | can tabs sign each other out? | 2 tabs, 4 tokens, 3 actions of the person, 1 lost message | 632 702 |
| `veille` | who decides about a subscription? | 2 communes, a merger, limit 2, 3 letters, 3 events, 1 run | 814 836 |
| `reminders` | is each threshold told once? | 2 steps of one person, 6 days, 3 letters, 2 edits | 3 228 239 |
| `replay_regress`, `insurer_anchor` | two statements of the docs | as `jorf_monitor` | violated |

What the passing runs show, beyond what the names say:

- `jorf_monitor`: `StatusFollowsLink` and `DatedByLink` over the writers of a
  dossier; `DatedHasLetter`: a deadline never appears in silence.  No watcher takes
  part: dossiers and watchers' rows meet in no statement, and leaving them out pays
  for the second fault.
- `jorf_live`: `MarkedIsStored`: every readable text a recorded delta delivered,
  published from the floor on, has been the stored revision of its arrêté;
  `WatcherTold`: a letter is queued when, and only when, a line comes to be about a
  commune a confirmed watcher watches, whatever text or revision does it;
  `EventuallyIngested`, `EventuallyDated`.
- `dossiers`: `RowsAgree` (step mark, declaration, status and link agree outside
  the overlaps the code does not exclude), `NoTwin`, `SameMatchAlone` (matching
  many dossiers in one pass with one window of entries is matching each alone),
  `LockOrder` (requests and link passes never deadlock; a revision can).
- `publication`: `StoredAsPrinted`; `CorrectionKeepsItsRow`; `RowKeepsItsCommune`, for
  every row but an unplaced one that is not the only row of its commune and risk
  corrected by the only line about them (finding 4 is such a row);
  `DeadlinesKeepOrder` compares the dates the texts are published on with every
  day of three years, one of them a leap year.
- `account`: `OneLinkWorks`, `NoDossierLeftBehind`, `OnlyALinkChangesThePassword`,
  `OnlyAClosedCommuneCosts`.
- `web_session`: `NoForcedLogout` (only a lost message can make the theft check
  fire), `LoginStands`, `GuardIsAwaited`, `StrangerHasNoSession`.
- `veille`: `OnlyLinksDecide`, `StoredLinkIsMailed`, `EveryLetterCanEndIt`,
  `AppliedAsShown`.
- `reminders`: `SelectsWhatIsDue` compares the morning's selection with a
  reference written over the letters received; `LettersExplained` what was said twice
  with what was recorded.

**Bounds.**  `MaxFaults` counts failed calls, lost answers and crashes; two
reach every pair (a raised alert whose count fails, then a crash).  Finitely many
faults is also what the liveness properties assume.  `Threshold` is 2 instead of
4: one attempt below it and one at it.  `AttemptCap` only stops the counter from
growing.  In `IngestLease`, durations are small integers with the same order as
the real ones; TTL = 8 is the smallest that `LeaseOutlivesRun` allows and TTL = 7
violates `IngestExclusive`, so the bound is tight.  `Letters` and `SendLimit`
stand for a number of letters the code does not bound: raising `Letters` to 7 in
`ingest_lease.cfg`, against the assumption, gives finding 5.  The five texts of
`MCJorfMonitor` hold a refusal turned recognition, a moved publication, a line no
longer printed, a line added, a commune resolved late, a period corrected, an
unreadable text and a date outside every rule.  Delta 1 never downloads; any other delta can fail to,
once per fault.  Batches are limited to 3 and 2 deltas (8 in the code): liveness
needs fewer permanently broken deltas than a batch takes, which the instance and
the code share.

In `Dossiers`, three requests are a creation, a change and a removal of the same
dossier, or two creations and a change, around a merger and a refusal turned
recognition.  In `Publication`, the texts are chosen so that two revisions differ
by one or two lines in any of their fields; three deliveries are a text, its
correction and a replay.  In `Account`, `Veille` and `WebSession` a bound on
tokens is one more than the races compared need: two links racing and one before
them.  `MaxEvents` counts requests begun and deadlines passed together, so every
mixture of them up to that number is explored.  The limits are 1 or 2 instead of
5 and more: below, at and beyond them.  `MaxHops` is as in the code or larger
than any chain the instance can build.  In `Reminders`, six days hold a threshold
crossed on a missed day, the deadline day and the days after it.

**Fairness.**  `OutboxDrain` and `JorfMonitor` assume weak fairness of
`RunStep` only: the scheduler keeps ticking and a run takes its next non-failing
step.  Owners, watchers, the catalogue, the backfill and faults have none.
`IngestLease` assumes that time passes, that each process takes its next step,
and that apps keep starting; nobody has to start the script.  The modules of
requests assume none: nothing obliges a person to act, and an abandoned request
may stay so; their properties are about what any prefix of a history may show.

**Deadlock** is checked where the system never stops (the monitor's runs, the
lease, the outboxes).  The modules of requests stop when their bounds are spent,
and say `CHECK_DEADLOCK FALSE`; that database transactions do not wait for each
other in a circle is the invariant `LockOrder`.

Every property of a passing run is violated by a mutation of a mapped definition
(kept next to the definition, marked "Mutant").

## 4. What the runs found

Checked by a run of its own:

1. *A replayed delta undoes a correction* (`replay_regress`).  A revision is told
   from the stored one by its hash, not by its age; a delta retried after a newer
   one puts the old revision back.
2. *The insurer's deadlines stay undated* (`insurer_anchor`) for a dossier declared
   before its arrêté is linked: `applyLink` does not recompute them.

Met on the way; the models contain the behaviour, and PROJECT.json quotes the
sentence each contradicts:

3. *A backfill can write to owners.*  `RunOptions.notify` claims two outbox writes;
   there is a third, in `recomputeLinkedSinistres`, and it does not look at
   `notify`.  Naming `BackfillIsQuiet` as the property of `replay_regress.cfg`
   shows it.
4. *An unplaced row can be given to another commune.*  The last pass of
   `pairEntries` is meant for a row whose label the revision no longer prints, but it
   looks only at the row's code: when the label is printed again for two other
   periods, the pass before it refuses to guess and this one takes whatever line has
   the old period.  Naming `NothingTextualIsLeft` as the property of
   `publication.cfg` shows it.
5. *The lease does not cover the letters*: the sum in the comment of
   `INGEST_LOCK_TTL_MS` leaves the two drains out.
6. *A PATCH can be overwritten by a link or a revision*: `recomputeStatus` reads
   and its caller writes in two statements.
7. *A DELETE in the middle of a link pass costs every link left*, and one in the
   middle of a revision can roll the revision back: two `update`s by id remain
   where the comments say a deleted row is skipped.
8. *A text whose lines meet on one row blocks its delta*: two lines of one
   commune, risk and period break the unique index at every retry, in silence.
9. *A reset does not end every session*, nor a logout in one tab when another was
   refreshing: tokens in their grace and answers under way survive.
10. *The change page can apply what it did not show*, when a form rewrote the
   request after the page read it.
11. *The daily limit on form mails can be exceeded* by forms in flight together.
12. *The unsubscribe links of older reminders work*, which the code intends and
    two comments deny.

## 5. What is proved

For every value of the constants that satisfies the modules' assumptions:

- `OutboxDrain_proofs`: `TypeOK`, `StuckIsReported`, `DuplicatesExplained`,
  `OncePerRun`, and `KeepsContract`, the refinement.  The inductive invariant adds
  to `TypeOK` what the safety properties do not say themselves: nothing is held
  outside a drain (`PlaceInv`); a row loaded and not yet handled is as it was
  loaded, or deleted, so that `seen` equals the attempts on record (`HeldInv`);
  the row in hand has exactly one copy more than its losses while it is being
  marked, and in `bump` its alert if this failure makes it stuck (`CurInv`); the
  memo covers every row tried (`MemoInv`).  Without those, a state with a forgotten
  attempt would satisfy the properties and lose them one step later.  The refinement needs the same invariant: an
  `IncrementAttempts` is a `CountFailure` of the contract only because the alert
  is already out.
- `Ingest_proofs`, of `IngestLease`: `LeaseTypeOK`, `IngestExclusive`, `BackfillShielded`, under
  `LeaseOutlivesRun` (`RunLimit + 4 * CallLimit < TTL`).  The invariant relates
  clocks: a process in a run owns the row and its lease outlasts what its run may
  still take (`RunInv`); a script that missed no renewal owns it, in a run and
  between runs, for longer than it needs to its next renewal or release, and
  renews it with the first call (`LoopInv`).  No acquisition in progress can match
  such a row, since the clock it compares with is at most one call old.  The hypothesis is
  exactly what finding 5 shows the code does not guarantee.

- `Ingest_proofs`, of `Publication`: all that `publication` checks, for every set of
  texts, referential, number of rows, deliveries and years.

  The code works line by line, so the modules have recursive functions: the concatenation of
  annexes and tables, the three passes of `pairEntries`, the writes, the months
  that are added to a date.  The library's induction theorems cannot be cited (they take an
  operator as a parameter), so the proofs argue by the least counterexample: a
  non-empty set of naturals has a least element (`WFMin`), hence a set that holds 0 and with
  every number the next one holds them all.  The lemma `Recursion` draws from it
  that a recursive function over the naturals satisfies its own equation, and each
  recursive function then gets the lemmas that say what it preserves.

  The invariant `RowsInv` says what the properties do not: the stored rows are, one
  to one, the lines of the stored text (`AllStored`), a row without a commune has
  its alert (`OnRecord`), and every row is a line as printed, with a code its label
  may name (`RowsPlaced`).  The first is what `StoredAsPrinted` counts; without the last, a
  row might hold a code its own text never gave it, and the pass by code would
  hand it to a stranger.

  `RowKeepsItsCommune` follows the passes.  In the first two, a row and a line share
  the label or the code, and `LabelAssumption` makes that one commune.  In the third
  they share departement, risk and period only: the row is then alone about its
  commune, as the property asks, so the one line about that commune was either
  paired before, with this row, or is the line of this pass.
  `CorrectionKeepsItsRow` counts: every line but the corrected one takes the row it had in the
  first pass, which leaves one row and one line, and whichever way they differ one
  of the later passes joins them.  `DeadlinesKeepOrder` is arithmetic on days and
  months, over any years.

  The assumptions are types of the printed trees and dates, a `None` that is neither
  a row nor a key, and `LabelAssumption`: two printed labels that may both be the name of
  one commune of their departement are about one commune.  The
  code identifies a commune by name and departement and has nothing else to tell
  two labels apart by.

  The attempt found the former `RowKeepsItsCommune` to be false: it exempted no
  unplaced row, and held only because the instance had two periods.  With a third,
  TLC gives the counterexample of finding 4.

- `JorfMonitor_proofs`: `TypeOK` and all that `jorf_monitor` and `jorf_live` check
  but liveness, that is `StatusFollowsLink`, `DatedByLink`, `DatedHasLetter`,
  `MarkedIsStored` and `WatcherTold`, for every set of texts (whatever their lines, dates and order of delivery), dossiers,
  watchers and faults.  `TypeOK` is cut into the parts of the state (run, store,
  dossiers, outboxes, links), so that each action is looked at only where it writes;
  what it lacks to be inductive is that a link, wherever it waits, names a stored
  line, and that the delta in hand is listed and out of the batch.  `LinksExact` says
  what the decisions of a link pass still know when they are applied: the line as it
  is stored, since no text is ingested in between, one link per dossier, and a
  dossier that is still undated or was deleted meanwhile.  `TakenInv` is what recording a delta relies on: while no text
  failed, every text taken from it has been the stored revision, or is unreadable or
  below the floor.  For `WatcherTold`, the communes announced by a text are those
  its rows come to be about (`AnnouncedLines`, `ComesToCoverIs`), since every line
  of a stored arrêté it does not print keeps its row.  The
  assumptions are types: `None` is none of the other values, dates and bounds are
  naturals.

- `Dossiers_proofs`: all that `dossiers` checks, `RowsAgree`, `LockOrder`, `NoTwin`
  and `SameMatchAlone`, for every number of dossiers, requests, communes, mergers
  and texts. The invariant follows a row through a transaction. A row is written by
  one transaction at a time (`PendInv`); a request or the monitor holds only rows of
  the dossier it works on, the parent first (`HoldInv`, `MonHold`), which leaves no
  circle without a revision; and what it has written is the committed row but for
  the columns it decides (`WroteInv`). With that, one step does to one dossier one
  of six things (`DossierStep`), and every other part is shown against those six.
  `RowsAgree` is not inductive: a status is right at the commit because it was right
  for the text in hand when it was decided and neither link nor declaration moved
  since, unless the overlap is in `raced` (`AgreeInv`). A first form of that part
  was not kept by the status write of a revision, which may wait for a lock: what it
  is about to write has to be known too. For `NoTwin`, at most one request is past
  the advisory lock, and no twin stands in its way (`TwinInv`). `SameMatchAlone`
  rests on the ends of the window, which exist because the dossiers are finitely
  many.
- `Veille_proofs`: all that `veille` checks, for every set of communes, limit and
  number of requests in flight.  The argument follows the links.  A link is in a
  letter, in the request that will mail it or in the memory of the monitor's run;
  `Sound(id, t)` says that its holder knows the row it was made for, that it ends
  that row while the row stands, and that a row that answers to it is that row.
  Ids and tokens are never reused, so `Sound` survives whatever the others do,
  and `EveryLetterCanEndIt` is `Sound` of the letters.  `AppliedAsShown` needs what the page and
  the request it waits for have in common (`PageInv`, `ShownInv`); `OnlyLinksDecide`
  needs that a form that passed its check still stands before the row it checked.
- `Account_proofs`: all that `account` checks, for every number of addresses,
  requests, mergers and limits.  The invariant says what a request may assume of a
  row it read earlier, which another request may have deleted or replaced: a user
  id belongs to one address, a waiting dossier to an account that is not confirmed,
  an opened one to an account that is (`UserInv`, `DossierInv`).  `OneLinkWorks` rests
  on `LinkInv`: a link newer than the one mailed exists only in a letter being sent;
  and `ChargeInv` counts the letters being sent against the limit.
- `WebSession_proofs`: all that `web_session` checks, for every number of tabs, tokens
  and acts.  `TabInv` is about one tab, whatever the others do.  Between tabs, a
  token on its way to the browser is nobody else's (`BroughtInv`), so that the
  cookie is rotated only by a refresh that carries it, and is in its grace only
  while such a refresh is in flight: as long as no message is lost, the theft
  check sees no old token (`PeaceInv`), which is `NoForcedLogout`.

- `Reminders_proofs`: all that `reminders` checks, for every set of people, steps, scales
  and delays.  `selectReminders` reads a log, the properties speak of letters:
  `LogInv` says that the log of a step that stands is what its recorded letters said.
  The days between the selection and the record are the difficulty: dates move,
  steps are deleted with their log, the run may end on another day.  `PassInv` keeps
  what held at the selection until the record: each line about to be sent is apart
  from those recorded earlier, and a step called late has fewer recorded letters than
  `MaxOverdue`; only the letter of the person in hand changes either, and a step has
  one owner.  The proof needs `MaxOverdue > 0`, as in the code.

The assumptions are types of the constants, bounds that are naturals, and values
such as `None` that differ from the others; each stands beside the constants it is
about, and TLC evaluates it on every run.

The attempts to prove found two errors of the models that TLC's instances had not
shown.  In `Account`, a registration that found nothing to rewrite forgot its
password and dossier before the insert, so that the account was created without
them: the code keeps them (`NotClaimed`).  In `WebSession`, an answer was handled with the page's present
date and destination: the code closes over those of the moment it was sent.

Only model-checked:

- liveness (`EventuallySettled`, `EventuallyReported`, `StaleLeaseYields`, `BackfillEnds`,
  `EventuallyIngested`, `EventuallyDated`), which is out of the prover's reach;
- `Referential`, whose chain of mergers no theorem needs: `Dossiers` and `Veille` treat
  the successor of a commune as given, so their theorems hold of any chain.

Every invariant and every action property that a passing run checks is proved.

## 6. Plan

1. The content of letters: `subtractCoveredEntries`, letters composed after a
   dossier was relinked, watchers of a commune merged before a late arrêté names it.

Not modelled, and not planned: HTTP, configuration, throttling, mail templates,
wording, rendering: I/O, layout or sequential code with its own tests.  The
decoding of XML, tar archives and printed dates: formatting.  The search of
communes by name and other reads that change nothing.  A person's own steps of a
dossier, which have neither a rule nor an anchor.  Rows of `MonitorAlert` in
`JorfMonitor`, `lastSeenAt`, and the closing of a dossier, which nothing in the
code sets.

## 7. Running it

    tlc -workers 2 -config outbox_drain.cfg MCOutboxDrain
    tlc -workers 2 -config jorf_monitor.cfg MCJorfMonitor
    tlc -workers 2 -config dossiers.cfg MCDossiers
    tlapm OutboxDrain_proofs.tla
    tlapm JorfMonitor_proofs.tla
    tlapm Ingest_proofs.tla
