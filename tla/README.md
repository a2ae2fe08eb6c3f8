# Verification of OnionSentinel in TLA+

OnionSentinel carries alerts from a Security Onion sensor through a relay
(Raspberry Pi) to an alert store (Node.js, SQLite) on a Mac, enriches and
analyses them there, and reports what matters. This directory holds TLA+ models
of the parts in which work changes hands: where a crash, a lost answer, a retry
or two actors at once could lose an alert, do work twice, or leave a row that
nobody will ever touch again. TLC checks the models on small instances; TLAPS
proves every safety property the runs check, for every value of the constants.

## The system

| Part | State it keeps | Operations | Hard behaviour | What makes it correct |
| --- | --- | --- | --- | --- |
| Security Onion exporters (`security-onion/bin`) | a lookback window over indexed alerts | export | alerts leave the window | the relay takes an alert before it is gone |
| Relay outbox and delivery (`relay/app/alert_*.py`, `relay_application.py`) | SQLite tables `alert_delivery_outbox`, `seen_alerts`, `alert_delivery_dead_letter` | pull, dedupe, enqueue, claim, deliver, acknowledge, dead-letter, prune | every statement commits on its own, the run may be killed between any two; runs may overlap | no alert lost, hidden or wrongly dead-lettered |
| Alert intake (`onion-sentinel-alert-intake.py`) | none | one POST per message of a batch, one acknowledgement each | its request times out although it is committed | acknowledgements tell the truth |
| Alert ingestion (`alert_ingest_orchestrator.js`, `alert_persistence.js`) | `alerts` and the jobs queued with them | one transaction per alert, idempotent on `alert_id` | replays after lost answers | stored once, reported once |
| Durable job queue (`durable_job_queue.js`) | `durable_jobs`: status, attempts, lease token and expiry, rerun flag, authority | enqueue, claim, heartbeat, complete, fail, requeue, retire, reconcile, recover | leases expire under live workers, evidence arrives behind a lease, answers are lost, the store restarts | one owner, no request forgotten, completion pays for what it covers |
| Job callers: drains, status service, recovery timer, transition executor | a claim snapshot in memory | claim and report | they decide on a snapshot | snapshot agrees with the row as long as the token does |
| AI scheduler (`n8n/bin/scheduler_*.py`) | a lock per lane, a runner process, a lease token | replay, recover, reconcile, select, claim, renew, run, report | dies between commit and report, its runner survives it, answers are lost | completed means answered; nothing is paid for twice |
| Analysis persistence (`onion_sentinel/analysis/persistence`, `agent_memory_promotion.py`) | memory tasks, spooled results, receipts, memory files | stage, queue, submit, quarantine, promote, merge, retire, replay | several processes on the same files, each may die between any two | memory follows the commit and is not lost |
| Telegram outbox (`notification_service.js`) | `notification_outbox`, `notification_log` | queue, claim, send, complete, fail | sending is outside any transaction | one row per key, repetition only after a fault |
| PCAP requests and transfer | requests, leases, chunk manifests | request, lease, transfer, resume, analyse | resume, deletion, two agents | a completed transfer has all its chunks |
| Enrichment cache, provider scheduler | cache rows, in-flight map, quotas, circuits | lookup, refresh, admit | shared in-flight lookups, half-open circuits | quota and single flight |
| Incident reanalysis | attempts, runs | admit, prepare, commit, recover | ownership moves with the job's lease token | one attempt per lease |
| SQLite write gate (`sqlite_runtime.js`) | a promise chain, one connection | gate, transaction, savepoint | readers beside the gate see open transactions | multi-statement operations do not interleave |
| PostgreSQL shadow (`postgres_shadow_*.js`, `reconcile-postgres-shadow.js`) | a revision and an acknowledged revision per job, the shadow table | trigger, project, acknowledge, defer, compare | newer revision while projecting, calls executed late, rolled back revisions | acknowledges what it projected, false alarms are explained |
| Controlled evaluation, manual dispatch | receipts | retire, dispatch | compete with ordinary work | seen here only as requests to the queue |
| Groups, suppression, campaigns, analyst decisions | rows of the ingest transaction | record | none of its own | bookkeeping |
| HTTP runtime, metrics, dashboard, prompt assembly and policy, harness, operations, installers | - | - | stateless, single-writer, or read-only | - |

How they interact:

- The relay pulls over SSH, keeps alerts in its outbox, and starts the intake
  on the Mac over SSH; the intake posts each message to the alert store.
- Storing an alert, queueing its notification and enqueueing its jobs (post-commit
  report, enrichment, analysis) is one SQLite transaction behind the write gate.
- Drains inside the store (enrichment, post-commit report) and the AI scheduler
  outside it (over HTTP) take jobs by lease token.
- Completing an enrichment enqueues an analysis in the same transaction.
- The scheduler reads `durable_jobs` over its own read-only connection and posts
  decisions afterwards (reconciliation).
- The scheduler starts the analysis runner, a process in a session of its own. The
  runner replays the spool, calls a model, spools its result, submits it, and
  turns memory tasks into agent memory.
- Triggers mark each version of a job; the projector copies marked rows to
  PostgreSQL; a monitor compares the two databases every five minutes.

`PROJECT.json` lists all components, and the hazards each with its line.

## Modules

| Module | Models |
| --- | --- |
| `JobRows` | what each SQL statement of the queue does to one row (recursion-free operators) |
| `DurableJobs` | the queue with its workers, drains, timers, crashes and reconciliation |
| `LeasedWork` | the abstract promise of the queue, and what the AI scheduler makes of it |
| `DurableJobs_proofs`, `DurableJobs_refinement` | theorems about `DurableJobs` |
| `AlertDelivery` | lookback, relay runs, intake, idempotent ingestion |
| `ReliableDelivery` | the abstract promise of relay, intake and store |
| `AlertDelivery_proofs` | theorems about `AlertDelivery` |
| `NotificationOutbox` | Telegram outbox, its drain and its cooldown |
| `NotificationOutbox_proofs` | theorems about `NotificationOutbox` |
| `AiScheduler` | schedulers of several lanes, their runners and the spool, over `JobRows` |
| `AiScheduler_proofs`, `AiScheduler_once` | theorems about `AiScheduler` |
| `AnalysisPublication` | files of the analysis runner, from the finished result to agent memory |
| `AnalysisPublication_proofs` | theorems about `AnalysisPublication` |
| `PostgresShadow` | transactions, triggers, projector, PostgreSQL and monitor |
| `PostgresShadow_proofs` | theorems about `PostgresShadow` |
| `MC...` | symmetry sets and compound constants for TLC |

Some operators are named `Mut...` and stand just before a definition. They are
wrong versions of that definition, the way it could have been written by
mistake; each property is known to fail when one of them takes its place
(`PROJECT.json`, "mutants"). No specification uses them.

### DurableJobs

One row per key: a dedupe key is never reused for another job. `jobs[k]` has the
columns that decide anything (status, attempts and limit, priority, rerun,
started, token, lease, due). Each method of `durable_job_queue.js` is one action,
because every one runs inside the write gate and one transaction.

- `execs` is what claimants remember, and outlives the lease: a worker whose
  lease was recovered still reports. A drain decides on its claim snapshot, the
  HTTP worker's report is decided on the row (`transition`).
- Time is two flags, `lease = "live"/"expired"` and `due`; expiry and backoff may
  come at any moment.
- `received = FALSE`: the answer to a claim is lost, so a row is leased and nobody
  knows the token. `acknowledged = FALSE`: a report was applied, its answer lost,
  and it is made again.
- `queued` and `owed` are history: the highest authority asked for that no
  attempt has seen, and whether there is evidence that no completion has covered.
- Reconciliation is two actions, `ReconcileRead` and `ReconcilePost`, since the
  scheduler reads in one connection and posts later. `QueueSpec` leaves them out,
  `Spec` has them.

Runs (keys: one analysed over HTTP, one drained in the store; attempt limits 1
and 2; one crash; a row of the time before tokens):

| Run | Shows |
| --- | --- |
| `DurableJobs_safety` (`Spec`, 3 tokens, 131,561 states) | ownership by token, rerun flag and authority right, snapshots agree, no live lease is taken away; every step is a step of `LeasedWork` |
| `DurableJobs_liveness` (`FairSpec`, 2 tokens, 37,875) | without reconciliation completed jobs owe nothing; every request becomes part of an attempt or fails; every lease ends |
| `DurableJobs_lostrerun` | violation: evidence latched behind the last attempt is discarded when that attempt dies |

Bounds: two keys suffice because actions touch one key, except
`DrainCompleteAndAsk` and `RecoverExpired`, which need two. Three tokens let a
stale claimant, a current one and a next one coexist. Limits 1 and 2 give both
"retry left" and "last attempt", and make them differ per request. Tokens are
random UUIDs in the code, so the model may reuse one that nobody holds; a token
that is still remembered is never reused.

Fairness (`FairSpec`): `startBackgroundWorkers` and launchd start the
recovery, drains and workers for ever; clocks advance; a claimant ends because the runner's
watchdog bounds an execution and its process may die. Claims are strongly fair
because a claim may be disabled for a while by a restart, by the drain's own job
(one at a time) or by the bound on tokens, which the program does not have.

### AlertDelivery

A run is one `relay.py --pull-once`. `pc[r]` names the statement it is about to
execute; each SQLite statement that commits is one action (`Enqueue`, `Claim`,
`MarkSeen`, `MarkDelivered`, `MarkFailure`, `MoveToDeadLetter`, `MarkDeadSeen`,
prune in `FinishRun`). `half` says that the first of two commits for an alert was
made. `Crash` forgets every local of the run.

- Alerts are numbers: the order of `alert_id` breaks ties of `created_at`
  (`Before`). How many messages fit in `batch_max_bytes` is left open (`NextBatch`
  picks any non-empty prefix up to `batch_max_items`), `Oversized` is what fits in
  no batch.
- A request has four ends: stored and answered, stored and the answer lost,
  refused, timed out. In the last case it stays in `late` and may be stored at
  any later time or never. A killed `ssh` leaves requests in `late` too.
- `StoredAs` is the idempotency of `alert_persistence.js`: a second storing
  becomes a `duplicate`; dropped alerts leave no row.
- `postCommits` counts post-commit jobs, `analysed` has the alerts an analysis
  was requested for, `taken` (history) the alerts that were ever in the outbox.
- Retention deletes only delivered rows that are out of the lookback and that no
  run holds, because 30 days exceed both.
- Two members of `Runs` overlap: nothing locks a pull run, the timer's unit and
  the unit `install-pi-relay.sh` tells the operator to start are different.

| Run | Shows |
| --- | --- |
| `AlertDelivery_safety` (2 runs that overlap, 1 fault, 1,560,655 states) | no alert lost or hidden; every step is a step of `ReliableDelivery`: an alert is owed until the relay knows its fate, reported once, refused only if it can never be stored |
| `AlertDelivery_liveness` (1 run, 3 alerts: one rejected, one dropped, one that may be suppressed, 204,628) | a replay needs a fault; an alert is reported once, a suppressed one never; every row leaves the backlog and its alert is settled |
| `AlertDelivery_blocked` | violation: one alert too large for any batch stops every drain before its first claim |

Bounds: two alerts and two overlapping runs already make a run record results for
rows that the other has claimed again; one of the alerts is rejected for good. With one run
there are three alerts, so that a drain has more than one batch and a drain limit that leaves a row behind. A fault on top of
the overlap is a killed run, or an answer lost while the other run goes on; longer
sequences of faults repeat these, and the proofs need no bound.

Fairness: the timer (`OnUnitActiveSec`) starts runs for ever and an undisturbed
run goes on, each of its external calls having a timeout. Faults are finitely
many: under endless faults nothing can be promised.

### NotificationOutbox

`status`, `keyOf`, `attempts` are columns of `notification_outbox`, a row id being
used once. `due` and `ahead` are the order of `next_attempt_at`: a row becomes due last, and
the first pending row in that order is claimed. `cooling[k]` says that
`notification_log` blocks key k. The drain (`pc`, `item`, `processed`) is one pass of
`drainTelegramOutbox`; `outboxDrainActive` makes it the only one. Sending is
between two transactions, so ingestion (`QueueTelegramNotification`) and kills
come in between. `recent`, `repeats` and `mishaps` are history: a message of k is
out less than a cooldown ago, how many repeated one, and which faults hit a
delivery of k. `lostAnswers` is a message that arrived though its request timed
out; `failedWrites` is an outcome (or a claim) that could not be written.

| Run | Shows |
| --- | --- |
| `NotificationOutbox` (2 keys, 2 rows, 2 kills, 1 lost answer, 1 failed write, 552,572 states) | one row per key, a repetition only after a fault of its own, the attempt limit up to interrupted attempts; every notification is sent or recorded as failed, unless the write of its outcome failed |

Bounds: two rows are an old and a new one of a key, or one of each key; two
attempts give a retry and a terminal failure; passes of two messages reach
their limit; two kills can interrupt both attempts of a row. Fairness: the 15 s timer, a pass whose calls have timeouts, restarts
(launchd keeps the service), backoff that ends. Ingestion is not fair: nothing
depends on it.

Timestamps in the log are whole seconds taken when the answer arrives; the model
takes the cooldown to end no earlier than a cooldown after the message.

### AiScheduler

`jobs` are the rows of `JobRows`, one per group and job type, so that claims,
reports and reconciliation are the statements `DurableJobs` has. `sched[l]` is the
run of lane `l`, from the lock (`Launch`) to its end; `pc` names the phase of
`initialize_scheduler_run` and `process_scheduler_selection`. `children` are
runners: a child outlives its scheduler. `spool` and `analyses` are the result
files and the table `ai_analysis_runs`.

- Executions are numbered by `clock`. The number is the lease token and the time
  of the claim: the code compares `generated_at` with `processing_started_at`, and
  only the order of results against claims decides anything.
- A call to the store is one step. Its outcome says whether it was applied and
  whether the caller learns it (`Outcomes`); a heartbeat that fails or is refused
  kills the runner, as `_lease_renewer` has it done.
- `asked`, `waived` and the `asked` of a result are history: how many requests a
  job has had, how many a policy retired, how many an execution answers.
- `RunnerFlush` and `Flush` are the same replay, by a runner and by a run; each
  stops at the first failure, and a file that somebody else has removed is one.
- A memory task that cannot be promoted after the commit leaves the spooled result in place
  while the runner goes on to its end (`RunnerUnlinks`); this counts as a fault, and a later
  replay removes the file. What becomes of the memory is in `AnalysisPublication`.
- `overtaken` (history) marks groups with a request that came between the reading and
  the closing of a reconciliation.

| Run | Shows |
| --- | --- |
| `AiScheduler_safety` (`Spec`, one lane; a group with an analyst's and an incident responder's job that also qualifies without one; 629,947 states) | what reads completed is answered or retired, with two named exceptions; without a fault no request is analysed twice; every step is, on the durable jobs, a step of `LeasedWork` |
| `AiScheduler_liveness` (`FairSpec`, two lanes that share the spool, 45,399) | every spooled result leaves the spool; every queued job ends |

Bounds: two attempts give a retry and a last attempt; two requests to the analyst
give a rerun behind a lease, or a request after the answer; two executions let one job
be retried, both jobs run, or one run without a job; one fault and one death together reach commit without report, report without answer, and a runner
without a scheduler. `AiScheduler_safety` stops when the executions are used up,
hence `CHECK_DEADLOCK FALSE`; the program has no such bound. Fairness: launchd starts
each lane every five minutes, the runner has a watchdog, leases nobody renews expire.
Selection is strongly fair, because a run can end before it comes to a job.

### AnalysisPublication

Each step of a result is a file, and the sets are directories: `pending`,
`committed` (memory tasks), `spool`, `quarantined`; `stored` is the table in the
alert store, `receipts` and `memory` what became of the task. `workers[w]` is one
process: `resume`, `replay`, then, if it is a runner, its own analysis. A write of
one memory file is a step under the lock of that file, so two workers interleave
between files. `count` and `source` of a record are how often it was reinforced
and by whom last, which is all that `__accumulate_record` looks at.

| Run | Shows |
| --- | --- |
| `AnalysisPublication` (2 workers, 2 analyses with a shared and a role record, 1 fault, 1 death, 663,239 states) | memory holds only what is committed; the intent of a stored analysis is remembered or found again; affirmative receipts are counted; a replay does not count twice for the only observer; intent is remembered in the end |

Bounds: two workers on the same task and on different ones; a lesson that
both analyses observe and a hint of one reviewer; a fault and a death one after the
other. Fairness: living runs take their steps, and runs that write memory are
started again and again (`Launch(w, TRUE)`, strongly fair: an evaluation freezes memory only
for a while).

### PostgresShadow

`disk` is SQLite as committed, `db` as the one connection of the alert store shows
it, `open` says that a transaction of the write gate is under way. `Write` is an
insert or update with its trigger; `Commit`, `Rollback` and `Crash` end the transaction. A
job's `content` stands for the columns the monitor compares. The projector reads
`db` beside the gate (`Drain`), and writes through it (`Update` requires `~open`).
`flight` has the calls PostgreSQL has not executed: one may be executed after its
caller gave up or died, in any order. The monitor is two steps, `ReadSqlite` and
`ReadPostgres`. `phantom` (history) has the jobs of which a version was rolled back
after projector or PostgreSQL had it.

| Run | Shows |
| --- | --- |
| `PostgresShadow` (2 jobs, 2 writes, 2 mishaps, 326,383 states) | a clean row is the row PostgreSQL has; an alarm is a row projected in between; both up to `phantom`; every committed version reaches PostgreSQL or the monitor reports it |
| `PostgresShadow_dirtyread` | violation: an acknowledged revision was not the one projected |

Bounds: one job from before the shadow (seeded by `install`) and one that is
inserted or never; two writes give a version that overtakes another, or one rolled back and
its number used again; two mishaps give a late call and a rollback together. Fairness:
transactions end, an answered call goes on, timers go on. Writes and mishaps are not fair.

## Proofs

All proofs are checked by TLAPS and hold for any number of keys, tokens, alerts,
runs, rows, groups, lanes, workers, jobs and faults. The assumptions are those named in the modules
(`...Assumption`): constants are numbers, kinds of alerts are disjoint, distinguished
values are distinct. Three theorems have a hypothesis besides: `DeliveryReplayOnlyAfterFault`
that runs do not overlap (`OneAtATime`, as under the timer alone; with overlapping runs the
property is false), `ReplayedOnceHolds` and `ReceiptsAreCountedHolds` that the analyses are
finitely many, since they count observers.

- **DurableJobs_proofs.** The invariants TLC checks are not inductive. `IInv` adds,
  per row, `RowOK`: what status, lease, token, attempts, rerun, started and the history
  say of each other; `LimitsOK` and `OneHolder` relate rows; `ClaimsOK` and
  `SnapshotAgrees` relate claimants and rows. Lemmas show what each operator of
  `JobRows` does to `RowOK`, so the step lemmas only say which row changes.
  Results: `TypeCorrect`, `LeaseIntegrityHolds`, `LatchMatchesEvidenceHolds`,
  `StartedMeansTriedHolds`, `PendingClaimableHolds`, `QueuedAuthorityHolds`, `SnapshotAgreesHolds` under
  `Spec`; `CompletedOwesNothingHolds` under `QueueSpec`, the specification without
  reconciliation, with which it is false (see the observations below). The action
  property `NoStaleSettlementHolds` goes through every action: a row either keeps its token
  (`TokenKept`) or is released by whoever holds it, by expiry or by restart
  (`LeaseEndsByHolder`).
- **DurableJobs_refinement.** `QueueImplementsLeasedWork`: initial states map to
  initial states, and each action, under `IInv`, to a step of `LeasedWork` or a stutter.
- **AlertDelivery_proofs.** `IInv` is the types, the ledger (five relations between
  the relay's tables) and `BatchTruth`: what a run remembers is true, an
  acknowledged alert is settled, a permanent rejection is one, the first of two commits
  was made. The argument is per commit and needs only that settled alerts stay
  settled (`SettledStays`); who owns a row plays no part, which is why
  overlapping runs are harmless. `DeliveryReplayOnlyAfterFault` needs more, and only while
  nothing has gone wrong (`Calm`): what the store has, the relay knows or is about to record
  (`KnownAsStored`); what is still to be sent, the store does not have (`UnsentIsNew`); a row
  is `delivering` only in the hands of the run (`ClaimsAreHeld`). `DeliveryImplementsPromise`
  maps each action to one step of `ReliableDelivery` or a stutter; beside `IInv` it needs that
  what was posted had been taken (`SentWasTaken`) and that rejected and dropped alerts
  stay out of the store (`KeptOut`).
- **NotificationOutbox_proofs.** `PaidInAdvance`: a key is exposed when its message is
  out and neither log nor drain knows; exposure is paid for by a fault at the
  moment it begins, and the next message uses it up. `AttemptsLeft` does the same for the
  attempt limit.
- **AiScheduler_proofs.** That completed jobs are answered is not inductive: a report
  is right only if the reporter's number still means the job and the requests it was
  claimed for. `HeldOnce` and `HeldPast` say that, wherever a number is held
  (scheduler, runner, spooled or stored result), it stands for one job and one
  `asked`, and lies in the past; `LastClaim`, `LastAsks` and `WaivedPast` tie rows to the
  last claim; `Evidence` says that whoever is about to close a job has an answer.
  Each of the actions preserves them mostly by leaving them alone (`Frame`, `Untouched`).
  For `SchedulerImplementsLeasedWork` every action is first reduced to the one statement it
  makes on the table (`TableStep`: an enqueue, a claim, the end of a lease, a refresh, a
  closing), and the statement then to a step of `LeasedWork`. A claim's number is new because
  numbers on leased rows are of the past (`LastClaim`) and other rows bear none (`IdleRows`).
- **AiScheduler_once.** `InferredOnceHolds`, an invariant of the calm part of a behavior, in which
  nothing was lost, killed or late. There a row is leased exactly while its lane's scheduler
  works on it (`LeaseHeld`, `Leaseholder`), a runner lives only under the scheduler that
  waits for it (`WaitedFor`), and a spooled result belongs to a runner that has still to
  unlink it (`SpoolServed`). So a job that will be claimed again has nothing left anywhere for
  the requests it owes (`NothingYet`), and whoever holds a job and its requests holds them under one
  number (`OnePerRequest`).
- **AnalysisPublication_proofs.** `Reached` says what each position of a worker
  implies of the files (after `mark` the analysis is stored, at `retire` every lane was
  written, ...), and stays true whatever the others do, because files only move forward;
  `NotBegun`, `Staged` and `IntentKept` relate the files. From them
  `MemoryIsCommittedHolds` and `IntentRecoverableHolds`. The two that count need no
  induction over sets, because a step counts at most one observer more: `ReplayedOnceHolds`
  follows from `CountedOnce` (a record with a single observer is unseen, or counted once, for it),
  `ReceiptsAreCountedHolds` from `CountsCover` (the observers that are sure to have been
  counted, by a receipt, as the last source or by a worker past the write, are no more
  than the count).
- **PostgresShadow_proofs.** `VersionsKnown`: two places that know the same revision of
  a job that is no phantom know the same content, and none knows one that is not
  on disk or in the open transaction. With `AckedIsShadowed` (what is
  acknowledged has reached PostgreSQL) and `RowsGrow` it gives `CleanRowsAgreeHolds` and
  `AlarmsAreNewerHolds`; rollback is the only step that could break it, and is
  where `phantom` grows.

Only model-checked: liveness, since fairness and ENABLED are out of the prover's reach:
`RequestEventuallyClaimed`, `LeaseEventuallyEnds`, `OutboxDrains`, `NotificationEnds`,
`SpoolDrains`, `JobSettles`, `IntentPersists` and `ShadowCatchesUp`. Every invariant and every
action property of the passing runs, and the three refinements, are proved.

## Findings

`PROJECT.json` quotes each source. In short:

1. `fail` ignores a latched rerun when the last attempt dies (`DurableJobs_lostrerun`).
2. An oversized alert blocks the outbox for good (`AlertDelivery_blocked`).
3. The shadow projector reads open transactions; after a rollback it acknowledges a revision
   whose content PostgreSQL does not have (`PostgresShadow_dirtyread`).

Observations met while modelling, without a run of their own. Each can be seen with TLC by
adding the named property to the named configuration:

- Reconciliation reads `processing_started_at` over its own connection and closes by
  `status` alone: a request enqueued between the two makes a fresh job, which is completed
  without an attempt, although the module map says that fresh jobs "remain eligible"
  (`docs/architecture/modularization-module-map.md:769-773`, of the query).
  `FreshJobsRemainEligible` in `AiScheduler_safety`; the exception `overtaken` of
  `CompletedIsAnswered`; `CompletedOwesNothing` under `Spec` of `DurableJobs`. A job
  *claimed* in between is safe, since the statement asks for pending rows: without that
  guard (`MutReconcilePost`) `NoStaleSettlement` and `ImplementsLeasedWork` fail.
- An incident responder's analysis of a group closes the pending retry of the
  analyst's job, although the module map speaks of a "same-attempt" analysis.
  `SatisfiedBySameAttempt` in `AiScheduler_safety`; the exception `Adopted`.
- The replay of a suppressed alert takes the duplicate path, removes its suppression and
  asks for an analysis. `ReplayKeepsSuppression` in `AlertDelivery_liveness`.
- A failed write of an outcome leaves a notification `delivering` until the process
  restarts, and blocks its key meanwhile: the case `Abandoned` of `NotificationEnds`.
- A memory record observed by two analyses counts the first one again when its task is
  replayed after the second: `NeverReinforcedTwice` in `AnalysisPublication`.
- The monitor of the shadow may report a row that was merely projected between its
  two reads, without the grace that dirty rows have: `AlarmsAreNewer` says that there
  is no other false alarm.
- `recover_interrupted_claims` takes back the claims of every run, living or not;
  `AlertDelivery_safety` shows that this costs duplicate deliveries and loses nothing.
- After a kill between a message and its log entry the restarted process sends the message
  again within the cooldown; `RepeatsNeedMishaps` says that each such repetition has a
  fault of its own.

## Not modelled

- Relay: the webhook transport, the relay's own drop filter, heartbeats, corrupt
  payload rows (all end in the same statements); the evidence, osquery and AC Hunter
  brokers, readiness and health.
- Ingestion: groups, campaigns, triage scores; suppression is a free verdict on
  a new alert.
- AI scheduler: controlled evaluation and its receipts, the legacy mode without an
  indexed schema, how a provider is chosen, the limits of a drain, orphaned alerts. A job that cannot
  be claimed is passed over within a run.
- Analysis: everything before the result (prompts, model calls, policy, harness): documents
  rather than shared control. Of memory, the ageing of records: expiry, record limit, quarantine.
- Queue: `stats` and listings (read-only), payload contents, the group-id aliases
  of the transition executor.
- Shadow: rows that PostgreSQL refuses for a constraint, the size and order of a
  batch, the use of a job id again for another key.
- Write gate: the promise chain and nested savepoints. That each queue operation is one
  step rests on the gate, read from `sqlite_runtime.js`.
- Notifications: text, level filter, Telegram switched off.
- PCAP transfer, incident reanalysis, enrichment cache and provider scheduler: protocols of
  their own with their own tables. They meet the models above only as callers of the queue.
- Dashboard, metrics, HTTP plumbing, operations and installers: no control shared
  between actors. They and the analysis code are most of the repository's lines, which is
  why the share of lines that the models stand for is small.

## Where to go on

In this order: `PcapTransfer` (request lease, chunks, resume, completion); `IncidentReanalysis`
(attempts and runs bound to a lease token); `ProviderScheduler` with `EnrichmentCache`. Of the
parts that are modelled, the Telegram outbox and the analysis files have no abstract
specification yet: a message per event and cooldown, and a lesson remembered when it is
committed, would be theirs.
