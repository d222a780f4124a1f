# Formal model of observability-config

TLA+ modules, TLC configurations and TLAPS proofs for the parts of this
repository that keep state and act on their own: the fleet bus, the watchdog,
the deploy lane, the CI collector, the path of host telemetry, the summary lane
and the vault mirror. Paths below are relative to the
repository root (`workers/…`, `coordination/…`, `watchdog/…`).

Run from this directory: `tlc -config WorkQueue.cfg MCWorkQueue.tla` checks one
run, `tlapm WorkQueue_proofs.tla` checks one module of proofs. `PROJECT.json`
lists the runs, what each one checks, the code lines every definition stands
for, and the hazards the properties were written against.

## 1. The system

### Inventory

| component | code | state it keeps | operations | hard behaviour | model |
|---|---|---|---|---|---|
| work queue | `workers/fleet-bus/src/queue.js` | SQLite tables `jobs`, `dead`, `qstate`; one alarm; `rows` while draining | enqueue, ack, alarm, stat | other events run while `alarm()` awaits a handler; eviction in mid-batch; late and duplicate callbacks; leases, backoff and quota share one alarm | `WorkQueue`, `WorkLedger` |
| topic bus | `…/fleet-bus/src/topic.js`, `deliver.js`, `contract.js` | retained value, liveness flag, one alarm, capped event stream | publishRetained, publishEvent, retained, alarm | publish racing expiry, death around the webhook call | `TopicBus` (telemetry class) |
| stack watchdog | `watchdog/stack-watchdog.sh` | one state file | one run every two minutes | torn state file, unseen curl failure, re-alerting | `StackWatchdog` |
| supervisor (other repository) | used by `stack-watchdog.sh`, `contract.js` | its schedule | publishes its tick | stops silently | external, in `HeartbeatPath` |
| deploy mutex | `coordination/mutex.sh` | the lock directory and its owner file | acquire, reclaim, release | three non-atomic steps, dead holders | `DeployLock` |
| coordinator worker | `coordination/worker.sh`, `enqueue.sh`, `grafana/deploy-provisioning.sh` | queue directories, clone, last-deployed-sha, provisioning directory and its `.prev`, the running container | enqueue, one worker run, one preview | every command may fail, a run may die between any two, main moves | `DeployWorker` |
| CI collector | `workers/cicd-collector/src/index.js`, `vitals.js` | one KV document: cursor, seen set, alerted set, vitals gate | poll, vitals beat, inventory beat | two beats on one document, post-then-save, an overlap window over creation times | `CicdCollector` |
| host-vitals ingest | `workers/host-vitals/src/index.js` | rows in Analytics Engine | accept a batch | a write cap, answers lost, late backlogs | `VitalsPath` |
| host alerts | `workers/cicd-collector/src/vitals.js` | the gate's part of the KV document | query, judge, gate, post | rows stamped when written, thresholds with a dead band, failing beats | `VitalsPath`, `VitalsBands` |
| ops summarizer | `workers/ops-summarizer/src/index.js`, `dispatch.js`, `.github/workflows/summarize.yml`, `.github/scripts/summarize.py` | none of its own: the queue's row and GitHub's concurrency group | /summarize, /post, /fail and the run between them | post then ack, runs that wait, row ids shared by two topics | `SummaryLane` |
| vault mirror | `workers/ops-summarizer/scripts`, `src/rag.js`, `src/index.js` (/ingest) | a vector index; no manifest | chunk, ingest, reconcile | two writers and an editor on stale reads, cursors that die, half-done batches, a deletion ceiling | `VaultIndex`, `VaultChunks` |
| ops watcher, transit alerts, usage collector, drift sentinel | `discord-collectors/`, `grafana/…` | a JSON file each | poll, compare, post, save | save against post, pruned ids, byte cursors | planned |
| MCP and retrieval, dev status, digests, ask-dash, anomaly detector, backups, evidence capture, dashboards, terraform, telegraf | — | none that is read back, or floating point, or configuration | — | — | not modelled |

### How the parts interact

* A publisher calls the bus (`fleet-bus/src/index.js`). Telemetry goes to one
  `TopicDO` per topic, work to one `QueueDO` per topic.
* `QueueDO.alarm()` calls a handler (the ops summarizer), which may start a
  GitHub Actions run and answer `{leased: true}`; the workflow later calls
  `ack` on the queue.
* `TopicDO.alarm()` posts silence to `#ops`. The host's watchdog reads the
  retained tick back over HTTP and posts to Discord by itself, because the bus
  cannot report that its own path is broken.
* launchd starts `worker.sh`; a person starts `deploy-provisioning.sh`. Both
  take the same mutex, write the same directory and restart the same container.
* Vector on the host posts batches to the host-vitals Worker; the bus mirrors the
  supervisor's tick into the same dataset; the collector's vitals beat reads both.
* The mirror's workflow walks the vaults and the index, then posts chunks to the
  summarizer's /ingest or deletes ids through the Vectorize API.
* Cron starts the collector's beats: the poll on `*/5`, vitals on `3-58/5`. They
  share one KV document and one Discord channel.

What makes each part correct: no accepted job is lost or woken too late (queue);
no expiry passes unrecorded, and a healthy publisher that ticks faster than its
ttl raises no alarm (bus and watchdog); one deployer at a time, true records, and a lane that recovers
(deploy); every completed run recorded and every red one posted, once
(collector); a silent host told and a reporting one never called silent (vitals);
a job summarised once (summary lane); a search that finds what the vaults hold
and nothing else (mirror).

## 2. The modules

| module | what it models | state ↔ code | composed of |
|---|---|---|---|
| `WorkLedger` | the promise of the `work` class, with no clock: pending, completed, buried | — | — |
| `WorkQueue` | `QueueDO` and the Actions runs it hears from | `jobs`, `dead`, `parkedUntil`, `alarm` are the tables and the DO alarm; `batch` is the local `rows` of `alarm()`; `runs` is GitHub | implements `WorkLedger` |
| `TopicBus` | one telemetry `TopicDO` and its deliveries | `retained`, `expiry`, `silent` are row, alarm and liveness flag; `notes` are fetches in flight | — |
| `StackWatchdog` | the script, its state file and its page | `down`, `quietFor` are the file's two fields | — |
| `HeartbeatPath` | supervisor, network path, bus and watchdog | adds `period`, `supervisorUp`, `pathUp`, the schedules; `busKeys` is the env file the probe needs | `TopicBus`, `StackWatchdog` |
| `DeployLock` | `mutex.sh`, step by step | `lock` is the directory, `step` the place of each run | — |
| `DeployWorker` | `worker.sh` command by command, previews, enqueue | `stage`, `ok`, `jobs`, `clone`, `tracked`, `lastSha`, `live`, `prev`, `loaded` | `DeployLock` |
| `CicdCollector` | poll and vitals beat | `kv` is the document, `poll` and `beat` the invocations and the copy each holds | — |
| `VitalsPath` | Vector, host-vitals, the bus's mirror row, the freshness query and the gate | `buffer` is Vector's, `rows` and `bus` the dataset, `kv` the gate's part of the document, `beat` the invocation | — |
| `VitalsBands` | the verdicts on disk, memory and swap, as functions of a window | — | — |
| `SummaryLane` | a row of the queue, GitHub's group of a row id, the Worker's three routes | `row` is the table row, `first` and `next` the running and the pending run of a group | — |
| `VaultIndex` | ingest and reconcile over vaults that are edited | `notes` the vaults, `index` Vectorize, `rec` and `ing` the two scripts' locals | — |
| `VaultChunks` | `chunk()` and `splitLong()` as functions of a note's paragraphs | of a paragraph: its length, and from what is left of it to where `splitLong` cuts and how much white space it trims on each side | — |
| `MC…` | constants for TLC | — | the module named |
| `…_proofs` | theorems | — | the module named |

Conventions of the models:

* A Durable Object lets other events in only while it awaits something outside
  its own storage, so a handler is one step up to such an await and one step
  after it. A crash drops locals and keeps storage.
* The platform's alarms are delivered at least once; one that did not return is
  delivered again unless a later `setAlarm` replaced it.
* Deadlines are stored as the time left, and 0 is any instant in the past. This
  keeps every state finite without a bound on the clock. Only `CicdCollector`
  needs absolute times (it compares creation with cursor) and bounds them by
  `MaxNow`.
* `attempts` saturates one above `MaxAttempts`: every comparison in the code has
  the same answer from there on.
* History variables (`completed`, `announced`, `published`, `healthyFor`,
  `want`, `deployed`, `mishap`, `rows`, `posts`, `cards`, `torn`, `retold`, `lost`, `saved`,
  `blind` of the collector; `posted`, `scraped`, `blindFor` of `VitalsPath`;
  `made`, `late` of `SummaryLane`; `sure`, `kept`, `raced` of `VaultIndex`) are
  written and never read by a guard of the code's own actions. One bounds the
  environment: a poll or a beat fails at most `MaxLost` times in a row (`lost`,
  in `CicdCollector` and `VitalsPath`).
* `calm` is not code either: it is the moment from which the environment injects
  no more faults, and the liveness properties are about what follows it.
* Operators named `Bug…` stand next to the operator they distort. No
  specification uses them; they are what a plausible slip in that code would do,
  and each property is known to fail on one of them.

Environment constants say what surroundings a run studies: `Outcomes` (the
handler's answers), `Faults` and `Mortal` (which commands fail, whose runs die),
`Overlap` (may two callers reclaim a lock at once), `Crossing` (may the two beats
run at once), `Unreadable` (may a KV read fail).

## 3. What the runs check

### Passing runs

**`work_queue`** — up to three jobs, a batch of two, every handler answer,
crashes, callbacks that come late or for jobs long gone.
`NothingLost`: an accepted job is pending, dead or completed. `NoResurrection`:
a dead or acked job is never runnable again. `WakesInTime`: with work left the
alarm is never later than the first runnable instant or the end of the quota
pause, except before it is re-armed at the end of a drain. `ParkedIsQuiet`: no
handler call is in flight while quota is out. `SnapshotHolds`: what `alarm()`
read before its fetches is still true of rows it has not reached.
`KeepsLedger`: the queue implements `WorkLedger`. Its `LateVerdict` step is what
the code does and a reader should know: a handler's late terminal answer writes
the dead table from the row it read earlier, so a job its workflow has already
completed can also appear as dead.

**`work_queue_live`** — `EveryJobResolved`: with a handler that answers for
itself, every job leaves the backlog.

**`heartbeat_path`** — supervisor, path, bus and watchdog, with failures of each, and
with either of the two periods the repository names for the tick: shorter than the
ttl and longer.
`ExpiryArmed`: the object's one alarm stands at the expiry of its row.
`GoneMeansSilent`: nothing retained means silence was recorded.
`FreshWhileHealthy`: a supervisor up for longer than its period is probed as
healthy exactly while its last tick is younger than the ttl: always with the short
period, and with the long one not in the last stretch before each tick, when
a healthy supervisor is paged. `SilenceNoticed`: a lasting stop ends up in
the bus. `ReturnNoticed`: a lasting return is recorded again and again, and with the
short period for good; with the long one the topic flaps for ever. `SilenceTold`: a
supervisor that stays down ends with a page on Discord, although the curl may fail
and the state file may be torn, as long as the watchdog keeps its bus keys: without them
it skips the probe and, if it had paged, says "recovered".

**`deploy_worker`** — a bad revision between two good ones, one job, any command
failing, either run dying anywhere. `MutualExclusion`; `DoneMeansDeployed`: a job
in `done/` was answered by a verified deploy of all that was on main when it was
enqueued, also when a dead run had left it in `processing/`; `RecordedIsHealthy`:
last-deployed-sha names the last revision that was verified, which is no bad one, or is
empty after a write that was cut; `BadIsRolledBack`: between deploys Grafana runs what
the directory holds, whole and no bad revision, after any rollback. Its one excuse is
`mishap`: a run cut between the sync and the verdict, or a failed copy, sync or restart,
and that only until the next deploy or preview has come through. A failed fetch, reset
or record, and a run that dies anywhere else, excuse nothing.

**`deploy_worker_live`** — `NeverWedged`: dead runs never keep the worker from the
mutex for good. `MergeGoesLive`: main at rest on a good revision is deployed.
`QueueDrains`: every queued job is taken.

**`cicd_collector`** — one run with two attempts, four polls of which one in a row
may fail or die at any await, unreadable documents, one host signal over two
days. `NoneSlipsOut`: no completed run leaves the poll's window before its row is
written and its failure posted. `OncePerAttempt`, `OncePerDay`: a second row, post
or breach line only after an invocation died between doing and remembering, or
went on from a document it could not read. `NoLostUpdate`: neither beat undoes
the other's part.

**`vitals_path`** — an agent and a network that come and go, batches of up to
three scrapes over a cap of one write, late backlogs, lost answers, refused
batches, the bus's own row, one failing beat in a row, days that change.
`RecoveryIsReal`: "reporting again" is said only of a host observed within half the
silence threshold; the code's choice to read the newest source time, and not
the newest row, is what it rests on. `SilenceIsTold`: a host whose observations
stop landing, or a bus that falls silent, is on the channel and recorded within
the threshold plus the beats that may fail plus one. `HealthyIsQuiet`: a host scraped and
reached for two periods is not called silent, whatever the cap cuts off; it holds
because vitals are written before weather and the newest scrapes arrive in batches
of their own. `HoveringIsQuiet` (`VitalsBands`): of two windows one can be in breach
and the other clear only if the load fell by more than the band between them,
with samples missing, weights of two and the swap total there or not.

**`vault_index`** — two vaults, notes edited, deleted and restored, the reconcile and
the ingest at any of their steps, walks cut off by the other's writes, disks that
show part of a vault, batches half written, either script killed.
`MissedOnlyByRace`: a chunk an ingest has vouched for is in the index as long as
its note stays, unless the reconcile under way did not see it in the vault: the read was
partial, or came before the chunk was there (again). `Converges`: at rest the index comes to what the vaults hold, except
above the deletion ceiling or with an emptied vault. `TextIsFound`
(`VaultChunks`): every note has a chunk, every paragraph that bears text is in one, and
no chunk is longer than the budget and one fragment. A paragraph of more than one budget
bears text when `splitLong` leaves a piece of it that is no fragment; where white space
leaves none, the note is excused (section 3, *Mirror*).

**`summary_lane`** — two jobs of two topics under one row id; dispatches refused,
unanswered or lost, runs that wait, vanish or are pushed aside, posts unanswered, acks
swallowed, reports lost. `OnceUnlessLost`: a job is taken off as done only
summarised; it is summarised twice, or buried after all, only when a call got
lost or a run of its had waited for all that the lease exceeds the time limit by. Both
excuses are needed: without either the run finds a job summarised twice.
`Settles`: once nothing fails, every job leaves the queue.

### Runs that find a disagreement

| run | what the code says of itself | what it does |
|---|---|---|
| `work_queue_lease` | `queue.js:205-207`: attempts are counted so a workflow that never acks cannot retry forever | the lease branch never compares the count; the job is leased again for ever |
| `topic_announce` | `topic.js:52-54`: the flag tracks whether silence was announced | it is set before the webhook call; an eviction in that call loses the announcement for good |
| `deploy_lock_overlap` | `mutex.sh:7`: a single holder at a time | two callers that judge the same lock stale can both hold it: the slower `rm -rf` removes the faster one's lock |

Read together with the passing runs: `cicd_collector` shows the collector correct
when the slowest run plus the polls that may be missed fit in the window
(`Slowest + MaxLost * Period <= Window`, tight: one unit more and `NoneSlipsOut`
fails); `deploy_worker` shows the lane correct when reclaims do not overlap.

### Divergences seen while modelling

Points where a comment or a doc says one thing and the code does another. No run is
spent on them; the models contain the behaviour.

*Deploy lane.* `worker.sh:93` and `coordination/README.md:63` say a redeploy happens
only when main advances and failures are not hot-retried; a failed deploy leaves main
different from the record, so every tick deploys the same revision again.
`worker.sh:7-8` says a deploy is rolled back if Grafana does not come back; after a
failed `docker restart` the old Grafana answers, the bad revision stays in place, is
snapshotted by the next run and is what that run rolls back to.
`coordination/README.md` describes `failed/` as deploys that failed their health check; one
whose fetch failed is filed there too. rsync stopping half way with Grafana still
answering leaves a mixture that nothing rolls back. A `cp -R` that stops half way is passed over
(`worker.sh:72`), and its part of a snapshot is what a rollback restores.

*Collector.* `cicd-collector/src/index.js:8-10` says a red run is posted within one tick;
runs are listed by creation time, so one that takes longer than the overlap window, or
a re-run of an old one, is never listed.

*Heartbeat.* The tick's period is named as 300 s in `stack-watchdog.sh:38` and about 60 s
in `vitals.js:81`; the ttl is 180 s (`contract.js:45`). If 300 s is right, the comment
at `stack-watchdog.sh:81-83`, that a 404 means that the supervisor or its publish path is
down, does not hold: for two minutes of every five a healthy supervisor is answered 404 and
paged, `TICK_MAX_AGE` of 600 s is never reached, and the topic goes silent and back with every
tick. The model has both periods; `FreshWhileHealthy` and `ReturnNoticed` say what
each brings. A watchdog that loses its bus keys while it pages for the tick takes
the skipped probe for a recovery and posts it. A second, different fault
while the first is being silenced is not paged until the re-alert period is over.
The silent and the recovered post of one topic are independent fetches and may
land in the other order.

*Summary lane.* `ops-summarizer/src/index.js:149-151` says a summary cannot be posted and
then left un-acked; the ack's failure is swallowed at `:213`, the run ends green and
the job is summarised again when its lease lapses (`lost` in the model).
`fleet-bus/wrangler.toml:55-57` wants a handler to answer 429 on quota; `handleSummarize`
maps every 4xx of GitHub, 403 and 429 included, to a 400, which the queue
takes as final and buries at once, as it does a 401 while the handler token is being
rotated, which `ingest-vault.mjs:67-71` retries. `summarize.yml:19-28` serialises runs by
row id although each topic counts its own ids.

*Vitals.* `fleet-bus/wrangler.toml:47-49` wants the bus's host name to line up with the
collector's; it does not, and it is as well: with `BusHost = Host` the bus's
rows would count as the host's and `SilenceIsTold` fails. The swap verdict falls back from a ratio
to bytes when the total is missing, which agrees only while the total is the constant
8 GB: with another value in `Caps`, `HoveringIsQuiet` fails.

*Mirror.* One emptied vault stops the reconcile of all of them; orphans above the ceiling
stay until someone raises it; repeated partial reads each delete up to the ceiling.
`vault-chunks.mjs:20-24` says an unchanged chunk keeps its id; an inserted paragraph
shifts the position that is part of it. A comment in the reconcile fears that an id missed on a page
would read as an orphan; orphans are computed from the ids that were seen, so it
would be kept instead. A paragraph below the floor at the end of a longer note is in no chunk.
`vault-chunks.mjs:114-129` promises that a note with content is never invisible. It never
is, but a paragraph over the budget of which `splitLong` (`:50-54`) trims so much white
space that every piece is below the floor is in no chunk; if the note has nothing
else, it comes out whole, as one chunk of more than the budget.

### Bounds

| run | bounds | why they are enough |
|---|---|---|
| `work_queue` | 3 ids, batch 2, 2 attempts, backoff 1, lease 2, cooldowns 1 and 2 | a full batch with one job left over, the last attempt and one before it, a lease that outlives a backoff |
| `work_queue_live` | 3 ids, batch 1, 3 attempts | jobs left behind by the batch, three backoff lengths |
| `work_queue_lease` | 2 ids | one job is enough for the lasso |
| `heartbeat_path` | period 1 or 3, ttl 2, watchdog every 1, tick age 10, re-alert 2 | 60 s, 180 s and 300 s in their order, so that the one period is shorter than the ttl and the other longer; a tick age above the ttl, as in the script; six hours of re-alert scaled to more than one watchdog run |
| `deploy_worker` | 3 revisions, the second bad, 1 job | good to bad to good; a second job would take the same steps, since all queued jobs collapse into one deploy |
| `vitals_path` | beat every 1, silence 2, lookback 3, disarm 5, cap 1, buffer 3, 1 beat lost in a row; windows of 2 scrapes over 8 loads | five minutes are a unit, as is the ratio of silence to beat; the lookback only has to exceed the silence, the disarm what a silence needs to be told; the loads lie on both sides of each bar |
| `vault_index` | 2 vaults of 1 note, 2 versions, batch 1, 2 walks, ceiling 1/2; notes of up to 3 paragraphs, budget 4 to 12, four ways to cut and trim | an emptied vault beside a full one, an edit and its undoing, a second walk after a first that died, deletions at and above the ceiling; lengths lie around floor, budget and two budgets; cuts at the floor and at the budget, without trim, down to the floor, to fragments only and to a fragment first |
| `summary_lane` | 2 jobs, 1 row id, 2 attempts, lease 5, limit 3 | four minutes are a unit: a lease of 20, a limit of 12; a run ahead, one waiting and one pushed aside; the last attempt and one before it |
| `cicd_collector` | poll every 2, window 4, slowest 2, clock to 6 | a run leaves the window with one poll lost; runs do not interact |

States: between about 10⁵ and 4·10⁶ per passing run, in about a minute each. No symmetry is used.

### Fairness

* `WorkQueue`: weak fairness of the clock and of a due alarm (the platform
  delivers alarms). Strong fairness of a handler's answer: a crash may cut a fetch
  off many times but not each time.
* `HeartbeatPath`: weak fairness of the clock, alarms, deliveries and the
  watchdog's start (launchd's `StartInterval`); strong fairness of publishes and of
  a page that Discord receives, because each may be cut off or lost now and then.
* `DeployWorker`: weak fairness of the clock and of the worker's next command,
  going well (launchd starts it over and over). It is assumed that previews, which
  a person starts, come to an end, and that runs eventually stop dying: without
  the first a preview holds the mutex for ever, without the second every run may
  be killed at the same command. The liveness run injects no command faults.
* `VaultIndex`: weak fairness of each script's next step (the workflow runs both
  over and over); strong fairness of every vault's turn, because the ingest takes
  one vault a run. `Converges` starts when edits and faults stop.
* `SummaryLane`: weak fairness of the clock, of a due job's dispatch (the queue's
  alarm) and of a run's next step (GitHub finds a runner). `Settles` starts when faults stop.

## 4. What is proved

All theorems hold for every value of the constants that the modules' named
`ASSUME`s allow; the extra assumptions are in the theorems' statements.

**`WorkQueue_proofs`** — any number of jobs, attempts, batch size and deadlines.
`TypeCorrect` first. `AtLeastOnce` abstracts every step to what it does with ids
(`Moves`) and shows that such steps keep the ids partitioned; `DeadStayDead` is the half of
it that says a finished job stays finished. `ImplementsLedger` uses the same abstraction. `QuietWhileParked` uses that a pause begins only where
the batch is emptied. `SnapshotSound` needs that only rows with no running lease
enter the batch and that nothing but `alarm()` itself charges an attempt or takes a lease.
`NoBacklogSleeps` is the hard one: `WakesInTime` is not inductive, because an
enqueue may set the alarm during a drain, and the handler's answer then rewrites
a row that must not become runnable before that alarm. `BackoffBound` (a row
never waits longer than the backoff of its attempts, which only grow) and
`SnapshotHolds` (the row in flight is not leased, and its attempts are those the
answer is computed from) close it. The module assumes that backoffs are
positive and grow with the attempts (`BackoffAssumption`), which TLC evaluates:
the provers do not compute powers.

**`HeartbeatPath_proofs`** — `PathRunsTopic`: every step of the path is a step of
the topic alone or leaves it unchanged, so `AlwaysArmed` and
`NoExpiryUnrecorded`, proved about the topic, hold in the path. `HeardOnSchedule`
proves `FreshWhileHealthy` for any periods, ttl and watchdog cycle; its invariant `Schedule` says
that between two publishes of a healthy supervisor the retained row has
`Ttl - period + nextTick` left, or none once that is used up, whatever alarms and
crashes happen meanwhile. `NoFalseAlarm` is its corollary for periods shorter than the
ttl and within `TICK_MAX_AGE`: then a healthy supervisor is never probed as gone.

**`DeployLock_proofs`** — `OneHolder` assumes `~Overlap`, and the run
`deploy_lock_overlap` shows it cannot do without. `MutualExclusion` is
strengthened by: a holder's name is in the owner file (`HolderOwns`), a run
between making the lock and writing the file faces a lock too young to be stale
(`MakerIsFresh`), the lock a reclaimer is about to remove is stale
(`ReclaimsStale`), and one run at most is reclaiming (`OneReclaims`).

**`DeployWorker_proofs`** — `LanesRunLock` and from it `OneDeployer`.
`DoneIsDeployed` needs that revisions only advance along main, clone and record
(`Forward`), that once the clone is reset no job in `processing/` asks for more
than it holds (`CarriesEnough`), and that filing follows recording (`RecordedFirst`); it
needs no assumption on the lock. `OneDeployer`, `RecordIsHealthy` and `RollsBack` hold
only as long as two reclaims of a stale lock do not overlap (`~Overlap`), which the code
does not ensure: the run `deploy_lock_overlap` shows it. `RecordIsHealthy` shows that past
the health check the container runs the clone's revision (`Vouched`), which only
holds because no preview can restart it meanwhile. `RollsBack`
follows what is live, loaded and kept as `.prev` through each stage of a deploy
(`OnTrial`).

**`VaultIndex_proofs`** — any vaults, notes, versions, batch size, number of walks and ceiling.
`VouchedIsFound` proves `MissedOnlyByRace`: what a finished ingest vouched for and has
stayed is in the index, but for what the reconcile under way did not see in the vault;
between reconciles there is no exception (`raced` is empty). It is not inductive: a reconcile may be about to
delete what an ingest has just vouched for. `RecSound` says that what the reconcile has
raced is exactly what is in the vault and not in what it read, and that it never
deletes what it read; `IngSound` that what an ingest may vouch for is in the index,
still to be written, or raced. `TextStaysFound` proves `TextIsFound` for any budget, floor,
paragraphs and cuts. The chunker is three folds and a recursion, and induction over data is out of the prover's
reach; a fold is proved to exist, and a property to survive it, by its least counterexample
instead (`LeastNat`, `Upto`, `FoldExists`, `DownwardExists`), with sets in the place of predicates. `ChunkOK` is
what one more paragraph keeps (`TakenFacts`): a paragraph that is no fragment is in a
chunk that is out, or held back with enough text to be flushed; and while no chunk is out,
everything is held back, unless a long paragraph was hollow, so that `chunksForVault` may take
the whole note for one chunk.
The bound on a chunk is the budget and one fragment, not the budget: a buffer below the
floor is not flushed, whatever comes next.

**`SummaryLane_proofs`** — any jobs and row ids, shared in any way, any number of attempts, any
lease longer than the time limit (`LaneAssumption`). `OnceOrExcused` proves `OnceUnlessLost`. Its
invariant follows a job none of whose calls got lost and none of whose runs came late
(`Steady`): it has one run at most, and until the summary is made its row is leased for exactly
`Lease - wait - age` of that run, which is positive, so the job is not due
(`DueHasNoRun`). `GroupOK` says what GitHub keeps of a row id. `LaneKeepsLedger` ties the lane
to the queue: its rows move as those of `WorkLedger`, which `WorkQueue` implements, once every
job is accepted, and the late verdict that the queue by itself may give does not occur.

**`CicdCollector_proofs`** — any runs, signals, period, window, days and number of polls that fail
in a row. `TypeCorrect` needs no more. The other four assume `~Crossing`: the poll starts
on minutes divisible by five and the vitals beat three minutes after it
(`wrangler.toml`, `crons`), and each is shorter than the two minutes to the next; with `Crossing` the document
is written back whole from an old copy, and TLC finds `NoLostUpdate` violated.
`NoUpdateIsLost` rests on `Carried`: the beat at work carries the other's part as it
stands in the document. `OneCardADay` and `OneRowAnAttempt` follow each signal and each
attempt through doing and remembering (`OnRecord`, `RowMarked`, `PostMarked`): what was done
is on record, about to be, or was cut off. `NoRunSlipsOut` also assumes
`Slowest + MaxLost * Period <= Window`: in the code's minutes, 30 of overlap and a poll every
5, a run of 20 with two polls lost in a row. `NoneSlipsOut` is far from inductive. `CoverInv` says that
every run that completed before the last poll that got through has its row and its post
(`InTime`), that a run outside the window is covered as long as no poll moves it (`OutOfIt`), and
that a poll which has listed everything has covered what completed before it, or is about to post
it (`Listing`); `DocInv` that a document remembers only what was done, so that an
unreadable one costs a repetition and never a run.

**`VitalsPath_proofs`** — any lookback, threshold, disarm time, write cap, buffer and number of beats
that fail in a row. `RecoveriesAreReal` (`NoneNewer`: no row is newer than the newest scrape) and
`SilencesAreTold` assume `Host # BusHost`, which the configuration keeps: where the two are
one name the bus's rows count as the host's. `SilencesAreTold` counts: every beat since the
threshold was passed has failed, or the silence is posted and recorded (`Telling`), because
a verdict found at the start of a beat still holds at its end (`BreachIsSeen`) and what
the gate holds back was posted before (`GateSound`). `HealthyStaysQuiet` needs no assumption:
after two periods of health some row within the lookback holds a scrape at most one
period old (`HealthSound`), whatever the cap left out of each batch. `BandsHold` proves
`HoveringIsQuiet` for any loads, weights, missing samples and size of the windows. The sum of
a window lies between its count times the least and times the greatest sample (`Average`, once
more by a least counterexample), so a window in breach has a sample over the alert bar
and a clear one a sample under the clear bar (`Extremes`), which is further apart than
the band (`FarApart`).
It assumes `Caps \subseteq {1000}`, the swap total of the one box there is in the model's scale
(section 3, *Vitals*): with another it is false.

Only model-checked: the liveness properties (`EveryJobResolved`,
`SilenceNoticed`, `ReturnNoticed`, `SilenceTold`, `NeverWedged`, `MergeGoesLive`,
`QueueDrains`, `Converges`, `Settles`), since liveness under fairness is
outside what TLAPS can do. Every invariant and every action property that a passing run
checks is stated by a theorem.

## 5. What is left out

* Payloads, ids as strings, message wording, HTTP status codes beyond the class
  of answer they select, logging, metrics.
* The event class of the bus and its capped stream; `stat()` and the digest, which
  only read.
* The watchdog's evidence capture, which writes a directory nothing reads back.
* The worker's heartbeat to InfluxDB.
* A process id used again by an unrelated process: the mutex would wait for that
  process. Ids are fresh in the model.
* KV reads that are stale across beats: beats are minutes apart. The caps on the
  seen and alerted sets and on listed pages: the window holds far fewer runs; the
  seven-day backfill of an empty document is the exception. The inventory beat,
  which keeps no state.
* The signals of the vitals beat judged by value are in `VitalsBands` only: their
  gate is that of `VitalsPath`, and of `CicdCollector`, for any signal.
* In `SummaryLane`, Discord's answer to the summary (nothing depends on it), the
  seconds between a run's time limit and its report, and the interleavings inside
  the queue, which are `WorkQueue`'s.
* In `VaultIndex`, embeddings and the search itself: a chunk is found when its id is
  in the index. `retrieve()` and the MCP handler only read.
* Vectorize applies upserts and deletes some time after it has accepted them; the model
  applies them at once. What that leaves out: an ingest that lists an id whose delete was
  accepted and not yet applied skips it (`ingest-vault.mjs:50`), reports its vault as ingested, and
  the id is gone a moment later. It stays missing until the next ingest of that vault.
* A note's paragraphs are joined by one blank line each in the model; `chunksForVault` keeps
  whatever white space stood between them when it takes a note whole.
* In `DeployWorker`, the `index.lock` that a killed git leaves in the clone: every later reset
  fails until someone removes it. `MergeGoesLive` assumes no failing commands.

## 6. Plan

In this order.

1. `EventStream`: `publishEvent` and the capped stream of `TopicDO`; what a reader
   that polls by id can miss.
2. `FileState`: the compare, post and save loops of the ops watcher, the transit
   alerts and the drift sentinel, with a death between post and save.
3. `UsageCursor`: the byte cursor of the usage collector over growing and rotated
   logs; what a half-written line makes it skip.
4. `WorkQueue` and `SummaryLane` composed, so that the row of the one is the
   refinement of the table of the other.
