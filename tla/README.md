# Verification of ssu-mgmt

TLA+ models of the concurrent parts of ssu-mgmt: a Rust backend that several
replicas run against one Postgres database, and the browser console in front of
it. The backend ingests audit events (CloudTrail, GitHub, GuardDuty, a Kafka
topic), derives aggregates, sessions, anomalies and alerts from them, and lets
analysts triage the alerts. Paths below are relative to the repository.

1. [The system](#1-the-system)
2. [The models](#2-the-models)
3. [The runs](#3-the-runs)
4. [Findings](#4-findings)
5. [Bounds](#5-bounds)
6. [Fairness](#6-fairness)
7. [The proofs](#7-the-proofs)
8. [What is only model-checked, and what is not modelled](#8-what-is-only-model-checked-and-what-is-not-modelled)
9. [Plan](#9-plan)

Run one model with `tlc -config LeaderLease.cfg MCLeaderLease`, check the
proofs of one component with `tlapm LeaderLease_proof.tla`. The proofs of
`BgWriter` and `AuditPipeline` are in `AuditPath_proof`.

## 1. The system

| Component | Source (`backend/src/` unless said otherwise) | State | Operations |
|---|---|---|---|
| Leader election | `service/leader.rs`, `main.rs` | row of `leader_leases` (holder, expiry, fence token); per replica: token, `last_ok`, cancel tokens | acquire, renew, relinquish, release, shutdown |
| Incremental aggregates | `service/timeline.rs`, `service/siem/sessions.rs`, `service/siem/anomalies.rs` | aggregate tables, one watermark each in `ingest_watermarks` | one fold per pass: read rows in (watermark, boundary], add, advance |
| CloudTrail ingest | `service/ingest/cloudtrail.rs` | S3 bucket; cursor map, counters and resume account in one watermark row | sweep accounts, list prefixes, fetch batches, heartbeat, finalize |
| Alerts | `service/siem/alerts.rs`, `service/siem/guardduty.rs`, `api/controllers/alerts.rs`, `service/retention.rs` | rows of `alerts` | rule upsert, auto-resolve, finding upsert, ack / resolve / unack / unresolve, prune |
| Audit writer | `service/bg/mod.rs`, `api/mod.rs` | channel, two buffers, one timer, flush threads | send, collect, flush, shutdown |
| Kafka consumer | `messaging/` | offset tracker, consumer position, committed offsets | poll, handle, commit when idle, rebalance |
| GitHub ingest | `service/ingest/github.rs`, `github_s3.rs` | a watermark, a cursor, one transaction with the rows each | sweep pages or objects, wait out rate limits, flush |
| GuardDuty ingest | `service/siem/guardduty.rs` | one watermark for all regions | sweep regions, detectors, pages |
| Web identities, backfills | `service/ingest/cloudtrail.rs` | `principal_name` of event rows, session cache, markers | harvest and fan out, backfill in batches |
| SIEM pass | `service/siem/` | actor, risk and grant tables | the steps of `run_pass`, one after the other |
| Retention | `service/retention.rs` | all event and derived tables | delete in batches by age |
| Console stream | `service/progress_relay.rs`, `api/controllers/progress.rs`, `frontend/src/ssumgmt/useConsoleStream.ts` | LISTEN connection, broadcast hub, sockets, backoff | notify, relay, debounce, snapshot, dial, reconnect |
| Sign-in | `frontend/src/auth/` | user, refresh token, lock | silent renewal, rotation, graph token |
| Feeds | `frontend/src/ssumgmt/use*Feed.ts` | filter, page, rows | load, change filter or page, triage |
| Queries, entities, graph, overview | `api/controllers/` | none | read-only SQL |

How they interact:

- **Replicas meet in the database only.** The lease row decides who runs the
  singleton workers (ingest, SIEM pass, timeline, retention). The workers hold a
  cancel token and no fence: nothing they write is checked against the lease.
  So every worker also has to be right when two leaders overlap for a while.
- **Ingest to aggregates**: through `created_at` of the event rows, which is
  stamped before the commit on the writer's clock. The folds leave a margin.
- **Aggregates and rules to alerts**: through event rows; alerts are upserted by
  fingerprint, so the row itself is all a pass, GuardDuty, an analyst and
  retention know of each other.
- **Kafka to the audit tables**: the consumer hands rows to an in-memory
  channel, a thread collects them and hands batches to threads that insert.
  Offsets are tracked at the first of these steps.
- **Database to console**: `NOTIFY` whenever `advance_watermark` is called,
  relayed by each replica to its sockets, which push whole snapshots. Other
  changes are not announced, see 4.

What is hard: expiry of the lease against late answers and lost answers,
restarts that reuse a holder id, overlapping leaders, rows that become visible
behind a watermark, sweeps that are cut by budgets and failures at any key, rows
of `alerts` written by four actors, buffers that share one timer, offsets
committed before anything is stored, and rebalances under a stale tracker. Each
of these is a hazard in `PROJECT.json`, at the line where it bites, with the
property that watches it; those of the browser, which is not modelled, say so.

What makes each component correct: a lease is not superseded while it runs and
leadership settles; an aggregate equals its recomputation; a cursor passes
nothing that is not committed; triage by a person stands and pruned alerts stay
away; a row handed to the writer is stored or visibly lost; an offset passes
nothing that was not handed over; the console ends up showing the last state; a
refresh token is used once; the rows on screen belong to the filter on screen.

## 2. The models

An action is one atomic step of the code: a SQL statement or transaction, or the
code between two of them. Definitions with a suffix (`MayTake_Early`,
`Runs_Any`) are wrong variants of the definition that follows them, each the way
the code could plausibly be wrong; replacing the definition by its variant must
break a property, which shows that the property depends on the code.
`PROJECT.json` maps every definition to the lines it stands for.

### LeaderLease

`election_loop` of every replica against the one row. `row` and `left` are the
row, `expires_at - now()` as a countdown, so that the model has no horizon.
`pc` and `timer` are where the loop is and what is left of its sleep. A
statement is two steps, because the answer arrives later and others act in
between: `AcquireExec`, then `BecomeLeader` or `AcquireDenied`; `RenewExec`,
then `RenewAnswer` with its three outcomes (renewed; failed while the lease
still runs; lost or failed too long). `AcquireFails` and `RenewFails` are errors
of which the statement may or may not have reached the row. `Shutdown`,
`ReturnIdle`, `Release`, `Exit`, `Restart` are the end of a process and the next
one under the same holder id; `Drain` is the last blocking step of cancelled
workers, which nobody waits for. `LAG` bounds how late a loop may be; it is the
one timing assumption.

### WatermarkFold and EventTally

One model for five folds that differ in where they start, what their target
follows and how they add: a behaviour is of one `kind`, chosen at the start from
`Kinds`. `Stamp`, `CommitRow` and `LoseRow`
are the writers of event rows, with clocks up to `SKEW` apart and transactions
up to `DELAY` long. `Begin` reads watermark and target (and, for sessions, the
rows, which `derive` aggregates before its transaction), `Fold*` is the
transaction. `IsRowLimit` is `harvest_boundary`, with ties in `created_at` and
the fallback to the target. `EventTally` is the abstract promise: an event
enters an aggregate once and stays.

### CloudtrailSweep

`run_once`: accounts from the resume account on, the day-prefixes of an account
in descending order of their names, batches of keys, the budget per sweep, the cap per account, the
heartbeat that saves the cursors, and `Finish`, which prunes and saves. Accounts,
regions, days and keys are numbers, in the order of their names; a prefix is a
triple. Objects arrive in order under a prefix (`Deliver`), and days pass.
Fetches fail singly, listings fail, a sweep is cancelled or dies. With two
`Sweepers` two leaders overlap: each has its own copy of the cursor map and saves
it whole.

### AlertLifecycle

One row of `alerts`; rows of different fingerprints do not meet, and a behaviour
is about a row of one `source`, a rule or GuardDuty. `Evaluate` is
the transaction of a pass, rule upsert and auto-resolve together. `UpsertFinding`
is the upsert of an active or archived GuardDuty finding. `Ack`, `Resolve`,
`Unack` and `Unresolve` are the triage endpoints with the guards of their SQL,
`Prune` is retention. `Ingest` adds an event of any age. `buried` and `before`
remember what the row forgets, for the properties only.

### SourceSweeps

The three pollers beside CloudTrail, one per behaviour (`source`): the GitHub
audit log by REST, the bucket it streams to, and GuardDuty. `feed[i]` is the
time the source shows for an item, `stored[i]` the one it had when it was last
stored, `wm` the watermark row, `sweep` the locals of `run_once`. `Begin` is the
head of a sweep with its three different floors (`Since`); `GithubPage`,
`RateLimited`, `WaitOver`, `GithubFlush` and `GithubCancelled` are the page
loop, `S3Page`, `S3Fetch` and `S3Commit` the listing, the concurrent fetches of
which the contiguous prefix is kept, and the transaction; `GuarddutyList`,
`GuarddutyStore`, `GuarddutyCancelled` and `GuarddutyAdvance` the loop over
regions and pages and the one watermark at its end. `Fail`, `Cancel`,
`StopTask`, `Restart` and `Crash` end a sweep or a task at any step. `Publish`
and `Update` are the source: items appear up to `LATE` after their time,
findings change. The code does lose items in some ways; `excused` collects
exactly those, and the properties say that there are no others.

### Identity and WebIdentity

`Identity` holds the pure functions of `derive_identity` over an abstract
record, and the SQL that repeats a part of them. The record says whether its ARN
matches the pattern of the SQL (`awsSession`), which the Rust code does not ask. `WebIdentity` is what happens
to `principal_name` afterwards. `Stamp` and `CommitRow` are the ingest,
`ResolveStep` is one transaction of the resolver: boundary, harvest of the
mints, cache, renaming, watermark. `Spawn`, `Check`, `Select`, `Write` and
`Mark` are a backfill task with its three passes; a pass selects rows in one
statement and updates them in another, and `Move` is what an update does to the
row ids (ctid) somebody else has selected. `BatchFails` and `Stop` are errors
and changes of leader. `rewritten` and `cut` remember the two things the code
gets wrong, see 4.

### ConsoleStream

What consoles show is a version number. A worker changes it (`Write`,
`RunError`, or in a transaction `Begin` and `Commit`) and tells of it: `Notify`
puts a notification into the connection of every relay that listens,
`PublishLocal` signals the sockets of its own replica. `Listen`, `Repeat` and
`RelayDrops` are the relay. `Connect`, `Receive`, `DebounceOver`, `ReadPart`
(three times), `Send`, `ReadFails` and `Close` are the task of a socket.
`SilentChange` and `Abandon` are changes nobody is told of, `Rollback` a signal
without a change. `lost[c]` is the latest version console `c` is not told of;
every way to get there is an action with a `Lose`.

### RowBuffer and BgWriter

`RowBuffer` says what others may rely on: a row handed over is held until it is
stored or lost. `BgWriter` is the thread behind it: `Turn` is one turn of the
loop, receive and both flush conditions, `Fly` a flush thread that stores some,
all or nothing of its batch, `WriterRestart` the end of a process with all it
holds. Its names that `AuditPipeline` has as well carry the prefix `Writer`
(`WriterInit`, `WriterNext`, `WriterSpec`, `WriterTypeOK`); `tables` and
`dropped` are what `RowBuffer` calls `stored` and `lost`.

### AuditPipeline

`consumer_loop_base` on every replica, with the offset tracker (`Passed`), the
commit of a whole tracker when the topic is idle, rebalances that reset the
positions but not the tracker, and restarts. The broker is external. Of the
writers it uses what `RowBuffer` promises.

### Composition

`AuditPipeline` composes consumers and writers through `RowBuffer`, which
`BgWriter` is proved to implement (`WriterKeepsPromise`) and which is all that
`AuditPipeline` is proved to make of it (`PipelineUsesWriters`).
`WatermarkFold` has the outcome of the election as a parameter: one pass at a
time, or several when leaders overlap, which `LeaderLease` shows to be possible.
`CloudtrailSweep` does the same with `Sweepers`, `WebIdentity` with `Tasks`.
`WebIdentity` builds on `Identity`. `SourceSweeps` and `AlertLifecycle` meet in
the upsert of a finding: the one shows that a finding's last state is upserted,
the other what an upsert does to the row. `ConsoleStream` stands at the end of
all of them. A commit followed by `advance_watermark` is a `Write` or a `Commit`
of it (sweeps, SIEM pass with its folds, GuardDuty, GitHub), a recorded error is
a `RunError`, and every other one a `SilentChange`: triage, retention, the bg
writer, the timeline, the resolver of web identities, the backfill.

## 3. The runs

| Run | Instance | Shows |
|---|---|---|
| `lease` | 2 replicas, TTL 3, RENEW 1, RETRY 1, LAG 1, 4 failures | the fenced row matches a granted lease exactly while nobody else acquired it (`TokenDetectsTakeover`); a leader is superseded no earlier than its lease allows (`NoEarlyTakeover`); a leader cut off stops in bounded time (`RelinquishBound`); once failures stop, one replica leads for good, although the last holder may never come back (`LeadershipSettles`) |
| `fold` | all five kinds, 3 rows, one pass, DELAY 1, margin 2, steps of 2 and of 1 row | between the start of the fold and the watermark every row counts exactly once, whatever order rows commit in (`TallyExact`); the fold implements `EventTally` (`ImplementsTally`); committed rows are folded in the end (`EventuallyFolded`) |
| `fold_overlap` | the three kinds of `anomalies.rs`, two passes, SKEW 1 | overlapping passes never move the watermark past a row neither folded (`NothingSkipped`) |
| `cloudtrail` | 2 accounts, 2 days, 2 keys each, budget 2, cap 1, 1 failure | limits hold (`TypeOK`), the rotation moves (`RotationMoves`), no sweep lists what was ingested, the oldest day of the window included, whose cursors pruning must leave (`NoDuplicateGrinding`), and the backlog is gone in the end (`Drained`) |
| `cloudtrail_overlap` | 2 leaders on one prefix of 3 keys, batches of 2, 2 failures | cursors pass nothing uncommitted (`CursorSound`) and counters count once (`EventsNotOvercounted`), also when cursor maps are saved over each other |
| `alerts` | both sources, a rule with two events, window 2 = retention 2, 2 analysts | pruned alerts stay away (`NoResurrection`), triage stands (`TriageStands`), resolved alerts hide no later match (`NothingHidden`), the row of a finding carries a resolution exactly when it is resolved (`TrailMatchesStatus`) |
| `writer` | 2 user rows, one of them unstorable, 1 self-audit row | the writer implements `RowBuffer` (`HeldUntilSettled`), user actions wait one period at most (`UserActionsPrompt`) |
| `writer_selfaudit` | 1 row of each | violation of `SelfAuditPersisted`, see 4 |
| `pipeline` | 2 replicas, 3 messages with junk at the head, 2 restarts, 2 rebalances nobody needs | no committed offset passes a message no writer was given (`NothingSkipped`); the writers are used as `RowBuffer` promises (`WritersAsPromised`); every good message is stored, or lost with a failed flush or a process (`Delivered`) |
| `sources` | all three pollers, 4 items or 3 findings in 2 regions, one item without content, pages of 1, flush every 2 pages, one rate-limit wait, one object per run, days of 2, items 1 late, 2 faults | nothing below the resume point is missing but what `excused` names (`NoGapBelowFloor`), no finding below the watermark is stale but those (`QuietFindingsKept`), and the rest is stored in the end (`EventuallyStored`) |
| `webid` | 5 rows, 2 of them from older versions, 2 mints of 2 subjects, a lag of 2 over a delay of 1, batches and steps of 1 row, 1 task, 1 fault | rows behind the watermark carry their session's subject (`NamedBehind`), a marked pass is done (`MarkerMeansDone`), each with the exception it names; sessions known by a token only are called as the live mapping calls them, new ones of any partition (row 3 is of another one) and old ones of partition `aws` (`HistoryAgrees`); a task ends (`PassesEnd`) |
| `stream` | 2 replicas, 2 workers, a console on the replica of one of them, 3 changes, 1 fault | a console that waits shows the current version, or is about to be told of it, or never is (`StaleIsKnown`); it catches up (`CatchesUp`) |

Every model has a type invariant (`TypeOK`, `WriterTypeOK`), checked in its main run. Deadlock
is checked except in the two instances of `WatermarkFold` and in `webid`, where
the bounded clock, used up, really stops everything: passes return early when
they have caught up.

## 4. Findings

One run is expected to end in a violation: it checks a sentence of the
repository against what the code does.

- `writer_selfaudit`: `bg/mod.rs:132-134`, self-audit rows are flushed "on the
  same cadence". Both buffers share one timer, which the flush of the other has
  just set: while user actions keep coming the self-audit buffer is never
  handed over.

Other behaviour met while modelling, with no run of its own. Where a property
would be broken by it, the property names the exception, and its run, or its theorem, says
that there is no other.

Leader election, CloudTrail, alerts, Kafka:

- `misc/config.rs:126-128` says that singleton workers "must run on exactly one
  at a time". A cancelled worker finishes its blocking step while the lease is
  already released, or taken.
- `cloudtrail.rs:41-44`: a sweep with backlog is followed by another soon. A
  budget used up in the last non-empty prefix is not reported as backlog, and
  the next sweep waits the whole interval.
- `cloudtrail.rs:413` sorts whole prefixes, so with several regions older days
  come before newer ones (the comment at 371 says newest day first).
- `cloudtrail.rs:616`: an object delivered late under a name before the cursor
  is skipped for good.
- A cap per account that is not below the budget stops the rotation of accounts;
  the instance, like the defaults, has it below.
- `alerts.rs:204-205`: un-resolve reverts to the prior state. The ack trail
  survives a reopening by a rule, so an alert that was open comes back acked;
  the direction that does hold is part of `TriageStands`.
- `alerts.rs:182`: resolving a resolved alert replaces who resolved it.
- `messaging/mod.rs:68`: offsets are committed only when a poll returned nothing
  after 30 seconds. On a topic that never rests nothing is ever committed.
- A stale offset tracker makes the committed offset go back and forth after
  rebalances; nothing is skipped, but messages are read again.
- A `derived_days` below `window_days` brings pruned alerts back, and rows later
  than the margin are stepped over by the folds. `github.rs:233` can cause that:
  up to six rate-limit waits lie between stamping `created_at` and the flush.
  The theorems state the opposite as their premises.
- The timeline and the sessions start at the target of their first pass. When
  the very first passes of two leaders overlap, `NothingSkipped` does not hold
  for these two kinds, so `fold_overlap` covers the other three.

The other pollers (`SourceSweeps`, all in `excused`):

- `guardduty.rs:142-153`: one watermark for all regions. A finding updated after
  its region was read, but before the newest finding of a later region, is below
  the watermark and is not seen before its next update.
- `guardduty.rs:119`: a cancelled sweep moves the watermark past what it did not
  read. `guardduty.rs:156`: an error stays on the row until a newer finding
  comes, since only that writes it.
- `github.rs:139`: an event that appears a day late, or an outage longer than
  the window, is not made up for.
- `github_s3.rs:223`: when the first object cannot be fetched, the sweep ends
  like one that found nothing, and no error is recorded.

Web identities:

- `cloudtrail.rs:1372-1375` relies on the resolver to upgrade what the backfill
  writes. Behind the watermark nothing does: the identity pass overwrites
  subjects for good (`rewritten`).
- `cloudtrail.rs:1305-1307`: a completed pass "never has work again". A batch by
  row id whose rows were all updated meanwhile updates none, which counts as
  completion: the marker is set with rows left (`cut`).
- `cloudtrail.rs:1372-1375`: the second pass is there "so history matches the
  live mapping". Its SQL takes ARNs that start with `arn:aws:sts::` only (1510),
  while the Rust code replaces the token in any partition: old rows of other
  partitions (`aws-cn`, `aws-us-gov`) keep it, unless the identity pass derives
  them again. `HistoryAgrees` claims old rows of partition `aws` only
  (`awsSession`).
- The newest rows, within the lag, wait for newer ones to come. A session ARN
  minted for different subjects is renamed to the last one harvested. A cache
  entry that is confirmed but not changed keeps its age and is pruned while in
  use.
- The lag of five minutes is the premise `LagAssumption`. `created_at` is stamped
  while an object is decoded, so one that takes longer breaks it.

Console stream (all in `lost`):

- A console is not told of what is written while its replica's relay has no
  connection, and nothing is pushed when it has one again; of an error recorded
  on another replica (`ingest/mod.rs:102`); of what `SilentChange` stands for
  (triage; rows deleted by retention; rows of the bg writer, which the figures
  count; the watermarks of timeline and resolver and the markers of the backfill, which are rows of
  `ingest_watermarks` written without `advance_watermark`); of a change whose
  notification failed, or whose worker was cancelled before it; and a snapshot
  that fails is not repeated. The next notification heals all of these.
- In a transaction the replica's own sockets are signalled before the commit, so
  that they may read the old state; the notification brings them up to date.
- `progress.rs:24-25` says that the browser stops reconnecting on close code
  1008. `useConsoleStream.ts` signs in again and reconnects.

## 5. Bounds

- `MaxFaults`, `MaxRestarts`, `MaxRebalances` bound failures. Four in the
  election are a crash, a lost answer, a failed renew and a shutdown in one
  behaviour; two in overlapping sweeps are a failed object and a crash; two restarts and
  two rebalances let a stale tracker, a member that lost its partition and an
  orphaned partition meet.
- Two replicas, leaders, analysts or passes: each property is about a pair of
  actors, or one actor against the shared row. The election is symmetric in
  replicas, and its theorems cover any number.
- Time. The election has none to bound. In `WatermarkFold` and `AlertLifecycle`
  `MaxTime` covers several steps, a whole margin, and window plus retention.
  The margin is chosen just above what is needed, so that an off-by-one shows.
  The spans of `AlertLifecycle` keep the order of the real ones (24 hours, then
  window, then retention) and `alerts` takes retention equal to the window,
  the tightest case.
- `CloudtrailSweep`: three keys and batches of two make a batch with a hole and
  a batch after it; two accounts with two prefixes each, a budget of 2 and a cap
  of 1 cut inside a prefix, between prefixes and between accounts. A limit of 0
  is none, as in the code. Both days stay in the window, so that pruning drops
  none; a floor above the oldest listed day would show, and `NoObjectTwice`
  covers any number of days.
- `BgWriter`: the channel has no bound in the code; `MaxChan` keeps it at the
  number of rows that matter. `age` stops counting one tick after the period,
  where nothing depends on it any more.
- `SourceSweeps`: with pages of one item every position between two items is a
  place to fail, and a flush after two pages splits one sweep into flushes. Two
  regions and three findings are what the shared watermark needs: one read early,
  one read late, one between. `MaxTime` covers a day boundary and a window.
- `WebIdentity`: two rows behind and three after the watermark of the first
  steps, with two mints, put a row before, between and after its mints. The
  window never closes within `MaxTime`, so pruning of the cache is not reached
  by the run; the theorems cover it, and any number of tasks.
- `ConsoleStream`: sockets do not influence each other, so one console is enough
  for what a console shows; it is served by one replica while writers are on both.
- `AuditPipeline`: `End` messages a partition; the tracker and the position
  differ by at most that.

## 6. Fairness

Safety runs assume none. The others:

- Election: time passes, and each loop takes its next step, since it is a thread
  with timeouts on all it waits for. Failures are never fair, and end because
  they are bounded; nor is a restart: `LeadershipSettles` only asks that some
  replica is up.
- Folds: a transaction of a writer ends one way or the other; a worker starts a
  pass on every interval. `Fold` is strongly fair: an aborted pass is started
  again, and not every attempt is aborted.
- Sweeps: `run` starts one after every interval, and a sweep goes on. Deliveries
  and days are not fair.
- Audit writer: the loop turns, `recv_timeout` gives up after a second, flush
  threads are scheduled. Senders are not fair. The starvation that
  `writer_selfaudit` shows lies under exactly this fairness.
- Pollers: the worker goes on (`Step`); it is woken after every interval. Faults
  are bounded; items and time are not fair.
- Backfill: a task goes on by itself. The resolver need not run for `PassesEnd`.
- Console stream: a worker that has written notifies, a relay polls its
  connection every second, the task of a socket runs. Nobody need write or
  connect, and a relay need not come back.
- Pipeline: messages are produced, an orphaned partition is assigned, the loops
  take what there is, and commit once in a while. The code commits only when a
  poll returned nothing after 30 seconds; in the model the topic ends, so such
  polls happen (see 4).

## 7. The proofs

Each `*_proof` module extends its component and proves, for every value of the
constants that satisfies the named assumptions, what a run checks on an
instance. No definition has a recursive operator, and nothing is assumed beyond
the `ASSUME`s of the modules and the hypotheses stated in a theorem. Where an
argument needs induction over a set (a first item, a last item), the proof takes
a minimal set of a well-founded order instead, since the induction theorems of
the library take a predicate as a parameter.

- **LeaderLease_proof.** `SafetyInvariant`: `SafetyInv` is inductive; from it
  `TypeCorrect`, `TakeoverDetected`, `TakeoverNotEarly`, `RelinquishBounded`.
  What a leader believes (`since`, `timer`) has to be tied to what the row says
  (`left`): `LeaseInv` states that an answer on its way is at most as old as the
  replica is late, and that lease plus belief add up to the TTL less the lag.
  `RowOfLast` makes the row answer for the history, because a release deletes
  the token. `RelinquishInv` adds the sleeping time to the age of the last
  success.
- **WatermarkFold_proof.** `FoldTypeCorrect`, with no hypothesis: any passes,
  any margin. `FoldInvariant` under `SinglePass` and `MarginCovers`; from it
  `FoldExact` and `FoldImplementsTally`, the latter as a step simulation.
  `InFlight` bounds how far behind the clock a row in flight can be, so no row
  appears below a boundary; `PassCurrent` says that what a pass has read
  (watermark, rows) is still so when its transaction runs, which is where one
  pass at a time is needed. `OverlapSkipsNothing` does without `SinglePass`: a
  pass starts at or below the watermark wherever others have moved it, so what
  it adds joins what was added. It needs the fold to start at the first row
  (`FromEpoch`, the kinds of `anomalies.rs`); the other two start at a target
  of their first pass, and there the statement is false (see 4).
- **CloudtrailSweep_proof.** `SweepInvariant`, then `SweepTypeCorrect` and
  `CursorsSound`, with any number of leaders. The invariant adds to
  `CursorSound` that what is in a sweep's list, or in the batch it works on, has
  no gap: every key of the bucket up to a listed key is listed or committed. It
  survives deliveries because those come in order, and truncation because that
  keeps initial segments. `EventsCountOnce` is about a sum over the sweepers,
  also for any number of them, which is why `LeadersAssumption` says that they
  are finitely many. `NoObjectTwice` is for one leader at a time (`OneSweeper`;
  two do list the same keys) and follows the cursors of a sweep against those
  saved. `RotationGoesOn` needs the cap of an account to be below the budget
  (`ShareOfBudget`): by default it is an eighth of it, and with a cap that is
  not below it the rotation does stop (see 4).
- **AlertLifecycle_proof.** `AlertTypeCorrect`; `TriageIsKept`, an action
  property proved action by action; its part on un-resolve needs that the row
  keeps an ack trail for as long as `before` says it was acknowledged
  (`AckInv`); `FindingTrail`, for findings; `ResolvedHidesNothing`, the other
  action property, since no event is later than the clock (`EventsPast`); `PrunedStaysPruned`, for retention not shorter than the
  window: whatever was buried is older than the window at the time, so a later
  match is newer than the resolution.
- **AuditPath_proof**, of `BgWriter` and `AuditPipeline`. `WriterTypeCorrect`;
  `UserActionsArePrompt`, where the invariant relates the waiting time to the
  shared timer; `WriterKeepsPromise`, the refinement of `RowBuffer`: sends
  accept, flushes and the end of the process settle, everything else stutters.
  `PipelineTypeCorrect`; `PipelineSkipsNothing`, by the invariant that the
  committed offset, every tracked offset and every position of every replica,
  in the group or not, are backed by what writers were given;
  `PipelineUsesWriters`, the refinement of `RowBuffer` by all replicas together:
  a poll hands over one row or none, a settled batch is a settle, and so is a
  restart.
- **SourceSweeps_proof.** `SweepsTypeCorrect`; `SourcesLeaveNoGap` and
  `QuietFindingsAreKept` for any feed, page, cap and number of faults. A
  watermark moves to what a sweep has read, so neither is inductive without
  `NoneOwed`: what a sweep has passed (`Passed`, different for each poller) is
  stored, lost in a named way, or in its hands. `Locals` ties `since`, `max` and
  the batch to the place in the list, and `KeyRead` says that the cursor of the
  bucket is the key of an object that was stored, so that a sweep that starts
  behind it has passed nothing else. A page, a capped list and the objects
  before the first failure are all a front of what was left (`FirstOfFront`,
  `PageIs`). `MaxTime` is assumed positive, because the clock starts at 1.
- **WebIdentity_proof.** `TypeCorrect`, in which the watermark stays the lag
  behind and a row in flight is above it (`LagAssumption`). `RowsNamedBehind`
  needs to know that a batch of the second pass, selected by row id,
  holds no row with a subject when it is written (`Cands`): a rename takes the
  row out of it. `MarkedPassesDone`: a pass about to set its marker has seen an
  empty batch, and no action makes an old row a candidate again. `NamesAgree`
  combines it with what a row may be called at all (`FromRecord`) and with a
  lemma about the functions of `Identity` (`RecordsAgree`): the name is the same
  for every record, but the SQL takes only those whose ARN has the form it asks
  for, so that the theorem says nothing of old rows of other partitions.
- **ConsoleStream_proof.** `TypeCorrect`; `ConsolesStaleIsKnown`, strengthened by
  the same statement for each part already read by a push in progress.

## 8. What is only model-checked, and what is not modelled

Only model-checked: the liveness properties (`LeadershipSettles`,
`EventuallyFolded`, `Drained`, `Delivered`, `EventuallyStored`, `PassesEnd`,
`CatchesUp`), since liveness under fairness is
out of the prover's reach. Every safety invariant and every safety action
property that a passing run checks, and all three refinements, are also proved;
`NothingSkipped` of the folds, `RotationMoves`, `NoDuplicateGrinding`,
`TallyExact`, `ImplementsTally` and `NoResurrection` under the hypotheses named
in 7, which their instances satisfy.

Abstracted in what is modelled: contents of events, keys and rows; SQL beyond
the columns the control depends on; `objects_scanned` and the bytes counters;
session status and flags; heartbeat timing (a heartbeat may happen after any
batch); decoding errors, which the code skips over as successes.

In `SourceSweeps`: one detector per region, counters, `last_run_error` and the
contents of objects are left out, and one worker runs at a time. In
`WebIdentity`: `event_time` is taken to be `created_at`, `assumed_role_arn` and
the allowlist filters are left out, a failed step of the resolver is no step,
and two resolvers at a time are not modelled. In `ConsoleStream`: the check of
the token, pings, and figures that change only because time passes.

Not modelled: the browser. Its socket, its token lock and its feeds are three
small concurrent programs of their own, of which the hazards name the line that
matters. The read-only API, scores and pure functions, configuration, health
probes, metrics, the database layer and generated schema, and the rendering of
the console keep no state that several actors change. The stages of the SIEM
pass that recompute a table by one statement (actors, risk, grants) are a
`Write` of `ConsoleStream` and nothing more. Retention is modelled for alerts
only. `messaging/mod.rs` has a second loop, `consumer_loop`, which nothing calls.

## 9. Plan

What is left, in this order:

1. `SocketDial`: `useConsoleStream.ts`, the reference-counted socket with the
   await in `open`, closes and reconnects, composed with `ConsoleStream`.
   Properties: at most one socket, none after the last consumer left.
2. `TokenRotation`: the refresh-token lock, the wrapped `signinSilent`, several
   tabs. Properties: a refresh token is used once, nobody waits for good.
3. `PagedFeed`: requests in flight against filter and page.
4. `Retention` of event rows against the folds and caches; `query_ast.rs` as
   operators against a reference evaluation; the migration lock.
