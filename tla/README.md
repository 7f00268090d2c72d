# DisasterMonitor: a verification development

TLA+ models of the operational core of DisasterMonitor, model-checked with TLC,
and proofs about them checked with TLAPS. Paths below are relative to
`src/apps/api/src/disaster_monitor/` unless they start with `src/`.

## 1. The system

A FastAPI process serves users; a scheduler process and one or more worker
processes share a PostgreSQL database with it (in-memory and file stores with
the same contract exist for tests and for single-process use). Everything is
`asyncio`: within a process control changes hands only at an `await`, between
processes it changes hands between any two transactions.

| Component | State it keeps | Operations | Talks to |
|---|---|---|---|
| Ingest queue and workers (`application/ingestion`, `infrastructure/operations/*ingestion_jobs.py`, `memory_queue_port.py`) | `ingest_job`: status, attempts, schedule, lease, owner, fencing token | enqueue, claim (with its sweep), renew, complete, fail; the worker's `run_once` | database, clock, the work of each source |
| Incident watches (`application/incidents`, `domain/incident_watch.py`, `*watch*` stores) | `incident_watch`, its observations, its timeline of changes | create, enable, disable, delete, mark read; `enqueue_due`; refresh | queue, incident discovery |
| Incident snapshots (`active_incidents.py`, `snapshot_cache.py`, `meaningful_change.py`) | cached snapshots, the latest one, refreshes in flight, revisions of sources | execute, refresh, page; an acquisition shared by its waiters | providers, identities |
| Incident identities (`identity_assignments.py`, `evidence/event_identity.py`) | which incident each observation belongs to, aliases of ids, a file of both | stabilise, look up, save | file |
| Assessments (`discovery_scan.py`) | retained assessments, tasks, failures not saved | reprocess, get (which resumes), execute | store, models |
| Provider budget (`*provider_budget.py`) | window per provider and hour, reservation per call | reserve, settle, release | ground worker, ingestion worker |
| Ground imagery jobs (`application/ground_imagery/jobs.py`, `infrastructure/ground_imagery/*_jobs.py`) | `imagery_jobs`: as `ingest_job`, and `progress`, which holds what to prepare | enqueue with a cap, claim, renew (from a task of its own), complete, fail | budget, requests |
| Ground imagery requests and artifacts (`application/ground_imagery/service.py`, `request_lifecycle.py`, `infrastructure/ground_imagery/postgres_repository.py`) | one JSON document per request: version, state, selections, artifacts | prepare, cancel, refresh, select, set watch; the worker's execution and its marking of failures | jobs, imagery catalogues |
| Evidence (`application/evidence`) | snapshots, blobs, tombstones | persist, retain, correlate | database, blob store |
| Agent and investigation (`application/agent`, `application/investigation`) | one conversation turn, tool budget | plan, call tools, answer | language model, providers |
| Conversations and memory (`application/conversations`, `infrastructure/conversations`, `infrastructure/memory`) | a row per conversation, its messages, records of what was investigated | turns, recall, deletion | assistant, database |
| Field reports (`application/field_reports`, `infrastructure/field_reports`) | a document of reports, reviews and observations; a directory of pictures | submit, import, review, reconcile at the start | files, incident projection |
| Local watches, notifications | their own stores | create, deliver | presentation |
| Article collection (`infrastructure/operations/sqlite_collection*.py`, `resumable_discovery.py`) | SQLite: works and links between them, views, claims, the pass and its allowances, cooldowns, rotation; in the process: the pump, the projector | attach, continue, claim, commit, fail, suspend, project, recover | news indexes, publishers |
| Providers, geography, models, presentation, web, evaluation | caches | I/O | outside world |

### What is hard, and what makes each part correct

* **Queue.** Jobs are delivered at least once. Workers never renew their lease
  (300 s), so a long job runs twice at the same time; reports are fenced. A
  worker that reports on a lost fence dies of it, as it does of a database
  error, and is restarted. Correct when: a settled job stays settled, success
  means the work of the *current* claim returned, a job leaves a worker only by
  its report or by an expired lease, attempts are bounded, and every job is
  settled in the end.
* **Watches.** A refresh is five awaited calls; commands and other refreshes
  fall between them. Correct when: the timeline agrees with the evidence,
  deleted watches stay gone, and an enabled watch always has a refresh ahead.
* **Budget.** Correct when: the counters are the numbers of reservations in each
  status, the limit is never exceeded, and every reservation is finished.
* **Ground jobs.** As the queue, and more: the lease is renewed while the job
  runs, a claim decides on a snapshot other transactions move away from, and
  admissions race for the last free place. Correct when: the cap holds, a lease
  that holds is respected, no fence has two holders, a retry does the work that
  was asked for, and the jobs of one request run one at a time.
* **Ground requests.** Every operation reads the whole document, awaits a search,
  a rendering or the queue, and saves the whole document. Correct when: the
  version never goes back, an execution keeps out of versions it was not made
  for, the state agrees with the jobs, and nothing a user did is undone.

* **Collection.** Scans share works, a pass is collected for all of them at once,
  and any number of workers and processes claim from one file. Correct when: a
  scan sees all its works lead to, no index and no publisher is asked too often,
  too soon or twice at a time, pages are kept once and in order, and a scan that
  was accepted ends, whatever dies.
* **Incidents.** A reader gets a snapshot somebody else may have asked for, and
  pages through it while others refresh it. The id of an incident is derived from
  its observations, which providers change; a registry keeps old links alive.
  Correct when: a walk over the pages misses nothing, what did not change does not
  look new, and a link that was handed out leads to the same event.
* **Assessments.** Correct when: an id that was handed out can be read, requests
  for one scan share one assessment, and it ends although processes restart.
* **Conversations.** Turns of one conversation overlap, for nothing holds the second back
  while the assistant works on the first, and the user may delete it in their midst.
  Correct when: messages have one order, one record of an event is active, what it
  replaced leads to it, and nothing is remembered whose messages are gone.
* **Field reports.** Pictures are files, reports are in a document, and a publication
  writes one after the other. Correct when: a report keeps its pictures until their
  retention ends, whatever becomes of others that show the same; what a failure leaves
  behind is removed; reviewers who wait do not overwrite each other.

`PROJECT.json` lists the hazards one by one with the lines where they bite.

## 2. Modules

| Module | What it is |
|---|---|
| `AtLeastOnce` | abstract specification: jobs are tried a bounded number of times and settled once |
| `IngestQueue` | the queue table and the worker processes |
| `IncidentWatches` | commands, scheduler, queue and refreshes of watches |
| `ProviderBudget` | the ledger and the calls that draw on it |
| `OperationsProofs` | theorems about `IngestQueue` and `ProviderBudget` |
| `GroundJobs` | the preparation queue in PostgreSQL, its clients and workers |
| `GroundDelivery` | `GroundJobs` with a memory of the preparations that returned: what the queue promises |
| `GroundJobsProofs` | theorems about `GroundJobs` and `GroundDelivery` |
| `GroundPreparation` | one request: its users' commands and the workers that prepare it |
| `GroundPreparationProofs` | theorems about `GroundPreparation` |
| `CollectionJournal` | the SQLite journal of collection: works, views, claims, passes |
| `CollectionJournalProofs` | theorems about `CollectionJournal` |
| `CollectionRotation` | which of the ready works a claim takes |
| `CollectionPump` | requests, the pump and the projector of a process, its death and recovery |
| `Reassessments` | the assessments of a discovery scan |
| `DiscoveryProofs` | theorems about `Reassessments`, `CollectionPump` and `CollectionRotation` |
| `IncidentIdentities` | the registry of incident ids |
| `IncidentSnapshots` | snapshots of the worldwide projection and their readers |
| `IncidentProofs` | theorems about `IncidentWatches`, `IncidentIdentities` and `IncidentSnapshots` |
| `ConversationMemory` | one conversation: overlapping turns, its messages, its memory of one event |
| `FieldReports` | publications of reports with their pictures, crashes, reviews |
| `UserRecordsProofs` | theorems about `FieldReports` and `ConversationMemory` |
| `MC...` | the small instances TLC checks |
| `MCIncidentsProofs` | the parts of the run `incidents`, side by side, implement their specifications |

Six of the runs check one module. The others put several small instances *side by
side*: the MC module declares the variables of all, a variable `world` that never
changes says which instance moves, and the rest stay as they began. The instances
of a world do not interact, a state belongs to one of them, and so TLC checks each
as it would alone. Modules that have theorems are extended by the MC module, so that
the run and the theorem speak of the same definition; this is why `CollectionPump`,
`CollectionRotation`, `Reassessments`, `IncidentIdentities`, `IncidentSnapshots`,
`ProviderBudget`, `ConversationMemory` and `FieldReports` name their specification
(`CollectionSpec`, `RotationSpec`, `AssessmentSpec`, `IdentitiesSpec`, `SnapshotsSpec`,
`BudgetSpec`, `TalkSpec`, `ReportsSpec`), its initial states, steps and types with a
prefix. Properties of one module that answer one question are gathered under one name: `RequestsAreInOrder`, say, is
`WithinAllowance`, `OneRequestPerPublisher` and `PagesFollowCursors`.

Each module holds, beside its definitions, a few operators marked *faulty
variant*. Nothing refers to them. Each is a plausible bug of the definition next
to it (a dropped guard, an off-by-one), and exchanging the two makes one of the
properties fail; `PROJECT.json` says which.

### IngestQueue

`jobs[j]` is the row of the identity `j`, `worker[w]` the local variables of a
worker's loop, `clock` the time both read, and `performed` a ghost: the fences
under which work returned.

| Action | Code |
|---|---|
| `Enqueue` | scheduler and `enqueue`; the insert of a known identity does nothing |
| `ReadClock`, `Claim` | `run_once`: `now` is read once and used for the claim *and* the report |
| `Claim` | both statements of `claim`, one transaction: sweep the exhausted expired jobs, lease the earliest eligible one |
| `Renew` | the queue's `renew`; current callers do not use it, the contract offers it |
| `EndWork` | the work returns, or raises an error that is retried or terminal |
| `Complete`, `Fail` | the fenced report; `Failed` is the `CASE` of `fail` |
| `StaleReport` | the report on a lost fence raises and the process ends |
| `Crash`, `Restart` | the process dies; `restart: unless-stopped` |

A claim is one transaction, so atomic: the sweep and the lease commit together.
`SKIP LOCKED` affects which job is taken only when another claim holds a row
lock at that moment, and the order in which two claims commit covers that.
Times saturate at `MaxTime`, which stands for any later instant.

### IncidentWatches

Reuses the queue without its clock: any scheduled job may be due, any lease may
have run out. A worker's `pc` is its position in `RefreshIncidentWatch.execute`
and `IncidentWatchWorker.run_once`: `get`, `read`, `observe`, `record`,
`confirm`, `reporting`. `known`, `appeared` and `vanished` are what the
observations and changes of a watch say about each event. `due` is what the
scheduler has read but not yet enqueued, `overlapped` a ghost: the watches of which two
refreshes were in flight at once. A provider's answer is a set of events
with the two flags the detector and the worker look at.

### ProviderBudget

One provider. `window[h]` and `reservation[c]` are the two tables; `call[c]` is
the caller's position (the ground worker, which may release a unit it settled
when the completion fails; the ingestion worker's path is contained in it). Both
sides of a call are one unit, as every caller has it.

### GroundJobs

`jobs[<<r, t>>]` is the row of the job that prepares target `t` (version, sensor,
role, overview, output kind) of request `r`: `job_id` is a hash of all of them.
`asked` says that `progress` still holds the target. `worker[p]` are the locals of
`run_once` and of the renewal task beside it, `admission[c]` those of an `enqueue`.

| Action | Code |
|---|---|
| `Admit`, `EndAdmission`, `AbandonAdmission` | `enqueue`: the advisory lock, the lookup and the count; the insert and the commit; the rollback |
| `ReadClock` | `run_once` reads its clock before the claim |
| `BeginClaim` | `claim`: the sweep, and the snapshot of the second statement |
| `Take`, `TakeNothing` | `claim`: the row found by that statement is locked, judged anew if it has changed, and leased |
| `BeginRenewal`, `Renew`, `LeaseLost` | `_renew_lease` reads its clock; `renew` compares and extends by that instant; a refusal cancels the preparation |
| `Prepared`, `PreparationRaises` | the execution returns, or it or the reservation of its unit raises |
| `Complete`, `CompletionRaises` | settle and `complete`; a failure of either ends in the same `except` |
| `Fail`, `FailRefused` | `fail`, with a clock read of its own; the error of a lost fence is swallowed |
| `Crash`, `Restart` | as in `IngestQueue` |

A transaction that rests on one row is one action. `claim` is not: at READ
COMMITTED its statement sees what was committed when it began, and only the row
it locks is evaluated again, on its columns, not on the `NOT EXISTS` about other
rows. Hence `seen`, the candidates of the snapshot, and the second look of `Take`
at `Claimable` alone. Which candidate is taken is free: `ORDER BY` ends in a hash
and `SKIP LOCKED` skips what others hold. Rows the sweep of a claim has changed
stay locked until its commit; a claim that crashes in between takes its sweep
back, and the next claim repeats it, so the model lets the sweep stand. The
status `cancelled` of the enumeration is set nowhere in the code and left out.

### GroundPreparation

`request` is the stored document, `jobs` the rows of its jobs, `client[c]` and
`worker[p]` hold the copy of the document that a command or an execution has read.
`selected[t]` names the observation selected for a target by the version that
chose it, an artifact is a target with the observation it shows. `Saves` is the
statement of `save_request`: it refuses a document whose version is older than the
stored one, and nothing else.

| Action | Code |
|---|---|
| `Open` | `get_request`, and the refusals of each command |
| `Look`, `Enqueue` | `prepare_selection`: `jobs_for_request`, then `enqueue`, whose answer is ignored |
| `Save`, `GiveUp` | the save of what the command made of its copy; a full queue, a failed search, a death |
| `Claim` | the claim of `GroundJobs` as one step; which leases have run out is any set |
| `OpenRequest` | `execute_preparation_job`: a job of another version raises |
| `Render`, `RenderFails`, `Publish`, `RecordFailure` | `_prepare_selection_now`: the rendering, the second reading, the save |
| `Judge`, `Conclude` | `_preparation_state` and the second save |
| `Raise` | a lost lease cancels the execution at any await; any call may fail |
| `Complete`, `Fail`, `FailRefused` | `run_once`'s report |
| `ReadToMark`, `MarkFailed` | `mark_preparation_failed`, after a last attempt |

The module has the queue without its clock, its cap and its snapshots, which are
`GroundJobs`' matter. `Mortal` says who may die, so that a run can ask what goes
wrong when nobody does, as `preparation_waiting` does.

### CollectionJournal

`work[w]` is the row of a work, a search of an index or the retrieval of an article,
`links` leads from a work to those found through it, `views` says which scan sees
which work, `evidence` which capture an article has. `scan`, `pass`, `allowance`
and `cooldown` are the tables of these names. `holder[h]` is the claim a worker
has in hand. A transaction is an action; its instant is read before it waits for
the write lock, and is up to `Lag` ticks old. `projection` is the view being made, between
the snapshot it is made of and its save. `misled` is a ghost of it: the scans whose stored
view was being made when they were last continued. `Plans[v]` are the plans a scan may be
given: those of later hours have partitions of their own, so that a continuation may bring
new searches to a scan that has ended.

| Action | Code |
|---|---|
| `Attach`, `Continue` | `attach`, `continue_scan`: into the open pass or a new one; planned works are enqueued, what they lead to is seen |
| `Claim`, `ClaimNothing` | `claim_collection_work`: works that wore out (`Worn`) are given up, articles a capture suits are completed on the way, one work is leased and paid for (`Takes`) |
| `CommitPage`, `CommitArticle` | the fenced reports: `KeepPage`, `KeepArticle`; `PageRefused` and full archives end in `CapacityReached` |
| `Fail` | the fenced failure (`Failed`): `FailedRow`, the cooldown of the index or publisher, alternate searches |
| `Lose` | a report that is refused, a worker that dies |
| `FinishPass`, `SuspendAtCapacity` | the end of a pass, of a full storage |
| `Snapshot`, `SaveView`, `DropView` | `_project`: a snapshot in one transaction, the save in another, whatever lies between; or a projection that is cancelled or refused |

`Claim` visits its candidates in any order; which is first is `CollectionRotation`'s
matter. A scan that attaches to a work put aside at a capacity does not resume it;
only `Continue` does. The reset of `attempts` leaves `deferrals`, as in the code.

### CollectionRotation

`Retrieve` takes a job of the class the position of ten prefers, or else of the highest
class, from the source whose latest turn is oldest; `Recorded` writes the ordinal of
that turn. `Search` serves one index by a cycle of three requests, which begins anew with
each pass. `Arrive`, `MoreToAsk`, `NewPass` and `Forfeit` are what the rest of the journal
does to both: works become ready, a pass ends, its allowance spent or not, and an index
that refuses a page at the storage limit loses what is left of it. `turn`, `passed`,
`ahead` and `skipped` are ghosts of the properties.

### CollectionPump

The journal is reduced to the number of works a scan has left. `pump` is the task
`_pump` with its position, `projector` the task beside it. `untold` is a ghost: the scans
whose last view was still to be made when the pump broke off or the process died.

| Action | Code |
|---|---|
| `Request`, `Release` | `start`, `continue_collection`: the transaction under `_lifecycle_lock`, then `_kick` |
| `Collect`, `Collected` | the claims and reports of the workers; all have returned |
| `AskAgain`, `AskLast` | `next_retry`: another round, or the end of the pass |
| `Enter`, `FinishPass`, `View`, `Leave` | the closing under the lock: scans read, pass closed, views saved one by one |
| `Fails`, `Suspend`, `Handle`, `CancelProjector`, `Drain` | the error paths of `_pump`, and its `finally` |
| `Finished` | `_pump_finished`, which may start another pump |
| `List`, `Snapshot`, `Save`, `SaveRefused`, `ProjectorDies`, `Listed` | `_project_periodically` and `_project` |
| `ProcessDies`, `Recover` | the death of the process; `recover` |

### Reassessments

`user[c]` is where a request (`reprocess` or `get`) is, `tasks[r]` how far the task of
an assessment is, `failures` what the process remembers because it could not save it.

| Action | Code |
|---|---|
| `Ask`, `EnterAsk`, `Share`, `Decide` | `reprocess`: the lock, an assessment under way, the limit, a new id |
| `Persist`, `PersistFails`, `Launch` | the record is saved before the task starts and the id is given |
| `Open`, `EnterOpen`, `Resume` | `get`: what was read as running is looked at again under the lock, and relaunched if its task is gone |
| `Work`, `Assess`, `SaveResult` | `_execute_reprocessing`, one at a time |
| `AssessFails`, `SaveFailure`, `RememberFailure` | its error paths |
| `ProcessRestarts` | the process stops or dies; the store outlives it |

### IncidentIdentities

Observations are numbers, so that "smallest" and "largest" are what sorting makes of
them. `group` is how the reconciliation clusters them (`Merge`, `Part`), `memory` and
`disk` are the registry and its file, `links` the ids that were handed out. `Stabilize`
computes the new registry: `Proposed` is the identity a row would take over, `Stable` the
one it is given, `Entered`, `Separated` and `Pruned` are the three steps of the update
(rows entered, contested identities dropped and their aliases led on, old ones
forgotten). The code drops contested identities one by one, in a loop; the model drops
them at once, because no row that gives one up computes another of them, so that the
order makes no difference (`OneReplacementStays` in `IncidentProofs` is the reason).
`Written` and `NotWritten` are the two outcomes of saving the registry, `ProcessEnds` is
a process that ends and the next one, which reads the file. `parted` is a ghost: whether
the reconciliation has ever taken a group apart.

### IncidentSnapshots

`published` is what providers know; `acquisitions` and `version` are the ordered
`_acquisitions` (a key's place in it, 1 for the last acquired, and the instant of the
snapshot it leads to); `cache` is the `IncidentSnapshotCache`, `latest`
`_latest_snapshot`, `inflight` the acquisitions under way, `reader[r]` a request and the
walk over pages it belongs to. A page is a range of indices, an incident's index the number
of those before it. Two fields serve properties only: a walk's `starter` is the query whose
acquisition its reader waited for, and `basis` marks a snapshot of the present that ended
with no other of the present under way, so that all to come are compared with what it left.

| Action | Code |
|---|---|
| `ServeCached` | `execute` with a snapshot that is fresh enough |
| `AwaitRefresh`, `GiveUp` | `refresh`: an acquisition of the same key is shared; the request is cancelled |
| `Finish`, `AcquisitionFails` | `acquire`: `Acquired` merges what providers answered, marks what is new, and caches it |
| `NextPage` | the page at a cursor, from the snapshot it was cut from |
| `Publish`, `Tick` | the providers; the clock |

The durable projection, a store that keeps snapshots over restarts, is left out.

### ConversationMemory

`row` and `messages` are the tables of conversations, `memory[v]` the record about the
world state `v` of the event (an identity is a hash of both), `turn[t]` the local
variables of a turn. A turn reads the clock at some instant since its last step.

| Action | Code |
|---|---|
| `Create`, `Load`, `Ask`, `Answer` | `RunConversationTurn.execute`; `AppendMessage` is the transaction of `append`, under the lock on the row |
| `Recall`, `Expire`, `Recalled` | the evidence tool has established the event; `recall` reads the records, then marks one by one those that have expired |
| `AssistPlainly` | the answer is about no event, so that nothing will be persisted |
| `List`, `Save` | `_persist_memory`: the candidate, what is active in its scope, the decision, the transaction of `save` |
| `Abandon` | the assistant raises, or the process dies |
| `Delete` | the row goes, and by its foreign keys all that refers to it |

### FieldReports

`file[m]` is what the directory holds of a picture, content and metadata apart;
`report`, `reviews` and `observations` are the document; `upload` is the publication
that holds the lock. `own` remembers which pictures a report has itself written: a
report that finds a picture joins it, with the retention it has.

| Action | Code |
|---|---|
| `Begin` | pictures are sanitized, which sets their retention |
| `Keep`, `WriteContent`, `WriteMetadata` | `_publish_media`, one file after the other; `put` purges before it writes; each write may fail |
| `Store`, `RefuseBatch`, `Undo` | `add_report(s)`, or its refusal and `_remove_new_media` |
| `Review`, `Answered` | `review`; for some decisions it awaits whether the incident exists, and its revision may be stale when it knows |
| `Stops`, `Start` | the process stops anywhere; `create_app` reads the document, purges and reconciles |

A publication awaits nothing that suspends, so that only a crash and the clock come
between its steps. A purge is one step.

## 3. What the runs check

| Run | Worlds and bounds | Shows |
|---|---|---|
| `queue_safety` | jobs: 2 jobs (one due later), 2 workers, 2 attempts, lease 2, horizon 4, worker symmetry; budget: 3 calls, limits 1 and 2, 2 hours; talk: 3 turns, 2 world states, time still; ageing: 2 turns, retention 1, horizon 2; publishing: 3 reports, 2 pictures, retention 2, horizon 3; reviewing: 1 report, 2 reviewers, 3 revisions | all safety properties of the queue and its refinement of `AtLeastOnce`; the ledger balances and is not overspent; the properties of `ConversationMemory` and `FieldReports` |
| `ground_leases` | leases: 2 jobs of one request, 2 workers, 2 attempts, lease 2, horizon 3; gate: 3 jobs, 2 clients, a cap of 2, 1 worker; symmetry of workers and targets | rows, fences and leases, with renewals and snapshots; the cap holds |
| `liveness` | both queues with 1 worker and lease 1; the pump with 2 scans, 2 requests and 1 mishap; 2 assessments and 2 mishaps | what was accepted ends |
| `preparation_safety` | 1 target, all commands, 1 client, 2 workers, all mortal, 2 versions, 2 attempts | versions, obsolete jobs and failures while executions overlap |
| `collection_journal` | 3 searches, 2 articles of one url, 4 scans, 2 workers, 2 attempts, lease 1, readings 1 tick old, horizon 2, in four worlds; graph: 2 viewers whose searches lead to each other, 1 worker, time still, captures of articles and of one page, final views; leases: 1 search of 2 pages, 2 workers, 1 pass; passes: 2 viewers of an archive, 2 passes, horizon 1; views: views made while scans are continued with another plan, any of one scan, final ones of two; symmetry of workers and of the viewers of the archive | the properties of `CollectionJournal` |
| `incidents` | watches with 1 worker and all answers, and with 2 workers and plain answers; pump with 2 scans, 2 users, 2 mishaps; rotation with 5 jobs of 4 classes and 2 sources, 12 claims, a budget of 4; 3 assessments; 2 observations over 3 days, merged and parted at will; snapshots with 2 incidents of 2 hazards, one of them revised twice, in 5 queries of 3 keys, 1 key remembered; symmetry of workers | the properties of watches, pump, rotation, assessments, identities and snapshots |
| `watches_duplicates` | 2 workers, plain answers | a counterexample, see section 5 |
| `watches_stuck` | 1 worker | a counterexample |
| `ground_retry` | 1 job, 1 worker | a counterexample |
| `preparation_waiting` | 1 client who only prepares, 1 worker, nobody dies | a counterexample |
| `pump_stranded` | 2 scans, 1 user, 2 mishaps | a counterexample |
| `recency` | 2 incidents, the ongoing and the recent view | a counterexample |

Why the bounds are enough: two workers and two attempts are the least with which
a job is expired, claimed again, reported late and swept; a lease shorter than
the horizon makes it expire with time left; two jobs make the order of claims
and the sweep of a job other than the claimed one matter; three calls and a limit
of two let one call be refused while two are in flight; two hours let a
settlement arrive after its window has closed. In the watches, one event and one
watch suffice because events do not interact in the membership changes, and
three instants are a creation and two observations.

In the ground queue one request with two targets is the case the exclusion of a
request's jobs is about, and requests interact only through the cap; three jobs
and a cap of two let two admissions want the last place; a lease of 2 may be
renewed in time or too late. For a
request, two versions are a copy that is stale and one that is not, two attempts a
failure that is repeated and one that is final, and two workers an execution that
outlives its lease and the one that replaces it.

In the journal, two viewers of a search are the one that was there before its page and
the one that comes while the page is fetched; two generations of one article make a
capture that can be reused; a lease of one tick and readings one tick old make a claim
expire under a report; two holders and a publisher with two articles compete for it.
In the pump, two requests are one that finds the pump asleep and one that finds it
about to go; two mishaps are a crash after an error. In the rotation twelve claims
are its cycle of ten and the start of the next, four requests its cycle of three and the
start of the next; five jobs come back as often as they are taken. Three assessments and a limit of two fill the
limit; two observations merge and part, and a lifetime of one day in three lets an id
be forgotten and computed anew. Two incidents on pages of one make a walk of two pages,
during which a refresh and an expiry fit; the five queries are two of one view, one of
another view with the same key, one with a key of its own, and one of the past; a second
revision is the least that can pass for the first. In the journal's views, two plans are
one that has been worked off and one that brings new work.

Three turns are two that overlap and one between whose steps both fall; two world states
let the world go back to a former one, whose record is superseded by then. In the field
reports two reports share each picture, one is published alone and one with another, a
retention of two in a horizon of three lets a picture expire and be published again. The
alternatives that were tried beside the mutants (other world states' records stay active,
a start that only purges, reviews of any revision) violate the properties as well.

Deadlock is checked except where the system may stop: `liveness` and `incidents`, whose
horizons, numbers of requests and numbers of mishaps end; `preparation_waiting`, whose
only user may have nothing left to prepare; `pump_stranded` and `recency`, whose users
ask a bounded number of times.

### Fairness

`FairSpec` of `IngestQueue` assumes what the deployment provides: time passes;
awaited work ends (each provider call has a timeout); a dead process is restarted
(`src/compose.yaml`, `restart: unless-stopped`); a report that is possible is made
or the process dies. A worker's reading of the clock and its claim are *strongly*
fair: it may die any number of times, but not before each of its polls. Nothing is
assumed of `Enqueue`, `Renew` or `Crash`.

`FairSpec` of `GroundJobs` assumes the same. Here a claim has three steps, all
strongly fair: a worker may die in the midst of claims and find its candidates
locked, but not every time. Nothing is assumed of admissions and renewals: a
worker whose renewal task starves loses its lease, and its job goes to another.

`CollectionFairSpec` of `CollectionPump` assumes that the tasks of an event loop run in turn, that
a dead process is restarted, that `asyncio.Lock` serves its waiters in order (strong
fairness of `Enter` and `Suspend`) and that a pass has a deadline (strong fairness of
`AskLast`: `next_retry` returns nothing once the pass is over). Nothing is assumed of
requests and mishaps. `AssessmentFairSpec` of `Reassessments` assumes the same of its requests,
tasks and lock, and that the browser polls the assessments it was given, since only a
poll resumes one after a restart.

`MCLiveness` joins these fairness conditions: only one instance moves in a behaviour, so
an action of each may share a condition, which keeps them few. In the world of one
instance the joint condition is that instance's own.

## 4. What is proved

The theorems hold for any sets of jobs, workers, clients, watches, scans and turns and any
values of the constants that satisfy the module's assumption. `QueueAssumption`
and `GroundJobsAssumption`: attempts, leases and the cap are positive, instants
lie within the horizon, ground jobs are finitely many. `BudgetAssumption`: finitely many calls, positive
limits. `PreparationAssumption`: the default target is one, attempts and
versions are positive. `WatchAssumption`: attempts are positive, an answer is a record
of its shape, what stands for nothing is no job and no answer. `PumpAssumption`: the
bounds are numbers, and no user is called "pump" or "free", as the other states of the
lock are. `ReassessmentAssumption`: tasks and remembered failures have positive limits,
and what stands for nobody is no assessment, original or browser. `ReportsAssumption` and
`MemoryAssumption`: pictures, batches and the creator of a conversation are of their
sets, retentions are positive, the other limits are numbers. `JournalAssumption`: searches are no
articles, an index is no publisher, budgets, leases and retries are positive, the space
reserved is within the space there is. `RotationAssumption`: there are sources, ordered by
name, each retrieval has a class and a source, an index may be asked at all.
`IdentitiesAssumption` and `SnapshotsAssumption`: there are observations, incidents are
finitely many numbers, the bounds are positive, a cursor does not outlive the cached
acquisitions. One theorem has a hypothesis besides: `LinksAlwaysResolve` supposes that the
registry has room (`Count <= MaxRecords`), as it has in the run `incidents`; section 5 says
what happens without it. Each inductive invariant joins to the checked
invariants what the local variables of the processes still have to do with the
tables; TLC checked it before it was proved. `Spec` leaves the fairness out, so the theorems do not rest on it.

`OperationsProofs`, about `IngestQueue`: the invariant adds `ClaimsAreRecorded`: the instant a worker claims with is not in the
future; a process at work holds a token that is at most its job's, and its job has
been attempted; work that is being reported as done was performed under the token
of the report. Without the first an expiry judged by a claim would not be one on
the clock; without the second a new token might be one that is out already, and
two processes could share a fence; without the last a `Complete` could record
a success nobody earned. From `IInv` follow the invariants, the three action
properties (one case per action) and the refinement: `Init` maps to `Init`, and
every step to a step of `AtLeastOnce` or to a stutter. About `ProviderBudget`: the
invariant says besides the checked ones that a call
which has not reserved yet has no reservation row, which is why `Reserve` adds to
one count and takes from none. `CountMoves` is the lemma on cardinalities: when
one reservation changes status, one count grows, one shrinks, the others stay.
`GREATEST(0, ...)` in the code never bites: a reserved reservation keeps its
window's counter positive.

`GroundJobsProofs`. Two things are added. `ClaimsAreRecorded` is as above, with
the instants of renewals and reports. `AdmissionsStayTrue` is what makes the cap
hold: at most one admission is past the lock, and what it has read there, that
the job is absent and that a place is free, stays true until it inserts, because
all that anybody else does in the meantime is to settle pending jobs. That is the
lemma on `RowStep`: whatever a worker does to a row, a row that was not pending
stays as it is. So the set of pending jobs only shrinks, except at the insert,
which adds one. `PendingBounded`, `OneHolderPerFence` and the row invariant are
proved together, the two action properties from them. A candidate found in a
stale snapshot does no harm to fences because `Take` judges the row anew. The refinement
of `AtLeastOnce` needs to know which preparations have returned, and nothing in the
system remembers that once a worker is dead. `GroundDelivery` adds the memory, a history
variable that constrains no step. Then `RowMoves` lists what a step can do to a row (it is
submitted, taken, goes on, fails for good, succeeds), and each is a move of the abstract
job; `WorkIsRemembered` says that what is reported as done has returned. TLC has checked
this refinement too, with one job (41,090 states) and with two (1,744,655); no run
repeats it.

`GroundPreparationProofs`. A copy of the document may be stale in every way but
three, which are what the invariant adds. It is never *newer* than the stored
document, so a save that passes the version check and is not a new version leaves
the version as it is. An execution's copy has the version of its job, so its save
passes only while that version is the stored one. And whoever holds a copy that
says "failed", or is about to say so, knows of a failed job, which stays one: the
lemma `RowsProgress` is that no operation of the queue repairs a job. A step is
either a save (`SaveProgresses`) or a change of rows (`RowsProgress`) or neither
(`NothingProgresses`); in each case `OthersStayRight` gives the invariant for the
copies of those who do not move, and `ClientMoves` or `WorkerMoves` for the one
who does.

`IncidentProofs`, about `IncidentWatches`: a refresh takes its instant when it asks the providers, long before it
records. `InstantIsOwn` says that until then nobody else has anything of that instant:
no watch waits for it, the scheduler has not read it, its job does not exist. So when the refresh
moves its watch to it, the watch waits for a job that was never run, which is
`SuccessMovesWatchOn`; `MovedOn` carries this to the report. For `TimelineIsTrue`,
`ComparesRightly` says what a refresh compares with: events that were announced, and
exactly the known ones unless refreshes of the watch overlapped. `OverlapsAreKnown`
makes the ghost `overlapped` mean what it should. Deletion empties a watch and
`RecordDeleted` is all that a refresh in flight can still do to it.

About `IncidentIdentities`: `Held` says that an identity is kept under its own alias, seen
on a day that is not to come. Everything about splits rests on `OneReplacementStays`: of
the rows that would all have taken over one identity, at least one is given an identity
that no rows contest. Two such rows compute different identities, and had one of these
been contested elsewhere, its row would have known it besides the one it proposed, and
so have proposed none. Hence a contested identity, once dropped, leads on to one that is
kept. `LinksHeld` carries this through the save: a link that is still remembered leads on
to an incident seen on its day or later, both in memory and in the file, and what is about
to go out does in memory; so neither a refused save nor the end of the process cuts it off. `OneEvent` says that until the
reconciliation has taken a group apart, registries, links and what is being written stay
within one physical event; two rows then never propose one identity. That a row has a
largest and a smallest observation is shown from the naturals being well-founded.

About `IncidentSnapshots`: `InstantsName` says that an instant names one snapshot or one
acquisition under way (it holds because an acquisition begins before every later instant,
`BegunBefore`), so the cursor of a reader finds the snapshot its walk began with or none.
`WalksFit` says how far every walk has come: it has shown nothing its query does not match
in its snapshot, and what it was shown once is exactly the part of the list before its
offset, so that one that is done has the whole list behind it. `PageTakesOn` is the lemma on
indices by which a page extends that. The second half is not said of a walk that began with
a page of another view which lists less (`ListsAllOf`): `HandedShows` gives what a waiter is
handed of any view, whole or not. `RowsArePublished` says that a cached
row is of a revision its providers have published, hence an answer without failure
contains it; this gives `RowsOutliveFailures`, which no run states. For `NoChangeIsMissed`,
`ChangesAreDated` says of a snapshot that ended with no other of the present under way
(`basis`): the latest rows, and those that an acquisition begun since compares with, date
every incident whose evidence is another after it, and no acquisition of the present begun
before it is under way. An acquisition keeps a date only with the evidence it belongs to
(`MarkedDates`), and a page that leaves rows out leaves no wrong date in (`FinishDates`). So
the filtered page can make what is old look new (run `recency`), but not the reverse.

`MCIncidentsProofs`. Every step of the specification that the run `incidents` checks is a
step of one part and leaves the others as they are, so the whole implements the
specification of each part, and every theorem about a part holds of the whole. `TypesOK`
follows from the theorems about the types.

`DiscoveryProofs`, about `Reassessments`: `RequestFits` says that what a request has
decided under the lock stays true until it acts on it: the id it will save is free, the
number of tasks is below the limit. It holds because one request decides at a time
(`OneDecides`), and tasks end but never start without the lock. About `CollectionPump`: the
difficulty is the projector, which saves a view it made before. `SaveIsHonest` says that a
view "running" about to be saved is of a scan that is in the pass, stopped, or owed another view.
A final view may be saved over a scan that was continued meanwhile; `StaleInv` says why it
does not last: whoever is continued joins the pass, a pass is closed under the lock with its
scans in hand, and the lock of the projections puts the pump's views after the projector's.
`ClosingHoldsLock` keeps requests out while a pass is closed and its views are saved, and
`DrainingIsReplaced` says that a pump that cannot take on another round any more leaves an
open pass only to a successor.

About `CollectionRotation`: that a class is not passed over ten times is not inductive, for it
depends on where in ten the claims stand. `PositionsAreKept` says how often each class may
have been passed over at each position (`Overdue`), and the same of the shares of an index
in its cycle of three. `TurnsAreRemembered` says that a source which was served while
another waited has the later ordinal, so that the waiting source precedes it at the next
turn. That the earliest source exists (`FirstPrecedes`) is the only use of induction: the
natural numbers are well-founded (`LeastNumber`), so sets of sources need not be finite.

`UserRecordsProofs`, about `FieldReports`: the proof follows a publication from picture to
picture. What it has written is complete and kept as long as it asked for
(`FreshIsWritten`), no stored report owns it (`FreshIsFree`), so that undoing it takes
nothing from anybody; and content no report refers to is that of the publication under way
(`LeftoversAreFresh`), or the process is down and reconciliation comes. About
`ConversationMemory`: the row's time is at least that of every message (`RowIsLatest`), so an appended
message comes after all others; `TurnFits` says that as long as the conversation is open,
what a turn has stored is there, and with it the sources of what it is about to
remember.

`CollectionJournalProofs`. `RowsAreKnown` says that what is viewed or linked is a row:
otherwise a search could be completed for readers before it exists. What is
completed for a viewer is settled (`TruthStays`), and no step undoes that. Whoever gains
something to view is either joining, and then shown as running, or views a work that is
not settled, and then is not shown as completed; this is what the lemma `ReadersStay`
needs of a report, a claim and a reuse. A view in the making is held to the same
(`ViewInHandFits`): until its scan is continued, one that says "completed" is of a scan
whose works stay settled, whatever happens before it is saved; from then on nothing is said
of it, and its save makes the scan one of `misled`. `CapturedIsDone` says that an article with a capture of its own is done
and finds nothing more, so that whoever reused the capture has taken over all its
searches for good. `CursorFits` and `ClaimFits` say that a search that is not settled is
to fetch the page after those kept, and that a claim which still owns its row is for that
page: a claim that has lost its row may hold any cursor. `CooldownsHold` relates what was
asked of us to the table of cooldowns. Readings of the clock may be old: a claim on an
old instant is only more cautious, which is why `OneRequestPerPublisher` and
`StartsInTime` hold for any `Lag`. The two lemmas on `Reached` (it is closed under links, and the least such
set) are what `ViewersSeeDescendants` rests on. Every action's lemma also proves `WorkMoves`, from
which `RequestsAreInTime` follows.

Only model-checked: liveness (the provers here do not handle fairness and `ENABLED`) and
the counterexamples. Every invariant and every action property of a passing run is stated
by a theorem. For the other runs that put several modules side by side, the theorems are
about each module alone.

## 5. Disagreements found

Six runs end in a counterexample to what a document, comment or test of the repository
says.

* **Duplicate announcements** (`watches_duplicates`). A refresh that outlives its
  lease overlaps the one that replaces it. `record_watch_refresh` checks no
  fence, the change identity covers the instant of the observation, so both
  announce the same event.
* **A watch that stops** (`watches_stuck`). A refresh that fails before it records
  leaves `next_refresh_at` alone; the next job has the same identity, and once it
  is dead-lettered no later insert has any effect.
* **Retries forget their target** (`ground_retry`). `fail` overwrites `progress`,
  where sensor, role, overview and output kind are kept, with the diagnosis; the
  retry prepares the defaults. The in-memory queue, which the unit tests use, keeps
  them.
* **A request that waits for ever** (`preparation_waiting`). `prepare_selection`
  enqueues, then saves the copy it read before: a worker that was quicker is
  overwritten, artifact included, and its settled job is never enqueued again.
* **A stranded scan** (`pump_stranded`). A pass is closed, the process dies before the
  views are saved. The pump that `recover` starts has an empty `finishing_ids`; if the
  storage is full when it gets to work, `suspend_at_capacity` suspends active scans and
  those named, and the view that is owed is neither. No pump is left to save it.
* **Recency lost** (`recency`). `_latest_snapshot` is what the last waiter was given, a page
  filtered by the statuses it asked for. The acquisition after it compares with that, so an
  incident that was left out is marked as meaningfully changed. It takes a process
  without a durable projection store. `NoChangeIsEverMissed` shows that the harm goes no
  further: what has changed is not taken for old.

The models have other behaviours that are worth a reader's attention. No run
states a property about them, for the code does nothing to prevent them.

* A process that dies, or a task that is cancelled, between `reserve` and
  `settle`/`release` leaves its unit reserved until the window closes.
* The ingest queue's retry instant counts from the clock read before the claim;
  with delays of at most six seconds, a job that worked longer is due at once.
* Two claims of ground jobs at once may take two jobs of one request: the
  `NOT EXISTS` looks at the statement's snapshot, the locks are on single rows. A
  renewal executed with an older instant can do the same.
* A copy of the same version passes the store's only protection. A worker's save
  undoes a cancellation, or the queueing of another target, that came after its
  reading; a refresh saves without an artifact published during its search.
* A job of a version the user has left raises at each attempt, and
  `mark_preparation_failed`, which knows no version, fails the request as it is
  now.
* A link to an incident that has split (`identity_assignments.py:98`: "Its old link must
  disclose ambiguity.") does not always disclose it: when one of the parts computes the
  old id again, line 119 removes the row that was just written. An old link may even lead
  to another event, if an observation that was absent at the split comes back. Hence
  `LinksResolve` promises exactly one incident, of the same event, only until groups come
  apart, and some incident afterwards. Beyond 2000 identities the oldest are dropped
  within their thirty days, links included.
* Views that share a cache key share an acquisition (`_acquisition_key`: ongoing, recently
  updated, and recent over thirty days), and a waiter is given its first page from the page
  of the view that started it, while its cursor counts in the whole snapshot: rows are
  missed or shown twice. `src/docs/coverage-design.md:115` speaks of "the complete bounded
  batch before filters and pagination are applied", and a test is named
  `test_filters_search_complete_inventory_before_three_row_pages`
  (`src/apps/api/tests/unit/test_active_incident_views.py:164`); it waits with one view.
  `WalksAreComplete` promises such a reader only that it is shown nothing it did not ask
  for.
* Acquisitions of the present over seven and over thirty days have different keys and may
  overlap; the one that ends last leaves the basis, though it may have begun first. A change
  the other had seen may then be dated before it was first shown. `NoChangeIsMissed` is
  therefore about acquisitions that end with no other of the present under way.
* A projector that has made the last view of a scan saves it even if the scan has been
  continued meanwhile: readers are told "completed" of a scan with work left, and the view
  that is owed counts as paid. The pass the scan has joined makes the view anew, and so does
  the pump that closes it; but if that pump breaks off on another error than a full storage,
  or the process dies, before it has, the wrong view stays until the user continues the scan
  again (`misled` in `CollectionJournal`, `untold` in `CollectionPump`).
* An outage that outlasts the cached acquisition (a day) takes the rows of its hazard off
  the list, and their recency with them: when the providers answer again, what has not
  changed counts as new.
* The cycle of an index restarts with every pass, and a pass may end before its allowance
  is spent. Passes that end after one request each serve initial coverage only, however
  long a citation waits; hence `IndexSharesHold` promises a citation its share within a
  pass, and to initial coverage across passes.
* A `get` that has read "running" and waits for the lock may relaunch an assessment that
  has been completed meanwhile; if that fails, the result is replaced by a failure.
* Two turns that overlap and confirm the same world state both merge with what they had
  read, and the later save drops the sources of the earlier (`src/docs/memory.md:40`:
  "combining message and evidence references"). A recall that has read a record before it
  was confirmed anew marks it expired all the same (`src/docs/memory.md:41`: "Recall marks
  records expired when their expiry time has passed."), for `mark_expired` looks only at
  its status.
* A report that joins a picture another report published does not prolong its retention:
  the picture is gone while the lineage of the later report says it is kept. A crash in the
  middle of a write leaves a temporary file (`private_files.py:118`) that neither purge
  nor reconciliation looks at, though field media are said to lose what is orphaned
  (`src/docs/humanitarian-field-operations.md:52`).

## 6. Not modelled, and why

Provider adapters, parsing, language models, geography, presentation, the web
frontend and the evaluation tools are I/O, data conversion or user interface.
Decision support, learning and interoperability calculate without shared state.
In the watches: coverage changes, changes of measurements, geometry and evidence
of a known event, matching by provider identifiers, and read marks. In the queue:
job payloads and diagnostics. In ground imagery: preparation without a queue,
`replace_region`, the watch that refreshes due requests, the list of preparation
failures, retention of requests and files, and rendering itself. In collection: fetching
and parsing, the planning of searches, captures' contents and how similar two
articles must be for one capture to serve both, the deletion of old captures, the
migration of journals and views of older versions. In incidents: the durable projection
store, geographic restriction, the merging of one event's reports, retrieval itself. Of the collection's projections
one process is modelled, whose lock lets one view be made at a time. In
conversations: the instant a conversation was created, on which no property depends, memory of several events at once (scopes do not touch each other), the
limits of a recall, the in-memory stores. In field reports: the mapping of imports,
duplicate candidates, the stripping of metadata. Retention of evidence snapshots is left
out because only tests call its executor.

## 7. Plan

1. The rest of ground imagery: preparation without a queue, `replace_region`, the
   refresh of due watches, retention.
2. The durable projection with its recovery, snapshot retention with tombstones, web-push
   delivery, the agent's tool budget.
3. Pure operators of change detection against a reference definition.
