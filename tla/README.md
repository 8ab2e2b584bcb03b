# RADAR in TLA+

RADAR turns alerts into root-cause analyses: an alert opens an *incident*, an LLM is asked what
caused it, and a card with its *recommendation* is posted to Slack. The services are Python
(asyncio, FastAPI, SQLAlchemy) over one Postgres database. They never call each other to hand work
on: each writes an *event* into `outbox_events` in the transaction that does its own work, and the
outbox-worker delivers it, at least once, to `POST /events` of the next service.

```
Alertmanager -> ingestion -> watcher -> planner -> reasoner -> feedback-service -> Slack
                    alert.normalized   incident.reasoning_requested      ^   |
                         incident.plan_requested    recommendation.created   |
                                                       |        |        clicks, commands
                                        knowledge-service    llm-gateway -> providers
```

This directory models those services: what each decides, in which order its steps commit, and what
becomes of that when steps of several requests overlap, fail or are repeated. TLC checks each model on
a small instance; TLAPS proves the main safety properties for every size.

| module | models | built on | checked by | proved in |
|---|---|---|---|---|
| `Outbox` | `radar_database/outbox.py`, `apps/outbox-worker` | implements `EventDelivery` | `MCOutbox` | `OutboxProofs` |
| `Ingestion` | `apps/ingestion`, `POST /alerts/<source>` | | `MCIngestion` | `IngestionProofs` |
| `Watcher` | `apps/watcher-agent`, `POST /events` | `CorrelationRules` | `MCWatcher` | `WatcherProofs` |
| `Planner` | `apps/planner-agent`, `POST /events` | implements `ExactlyOnce` | `MCPlanner` | `PlannerProofs` |
| `Reasoner` | `apps/reasoner-agent`, `POST /events` | `Reasoning`, `Templates`; implements `ExactlyOnce` | `MCReasoner` | `ReasonerProofs` |
| `DispatchBudget` | `radar_common/timeouts.py` and what it times | | `MCDispatchBudget` | `ReasonerProofs` |
| `Gateway` | `apps/llm-gateway`: requests, retries, failover, breakers, streams | `CircuitBreaker`, which it implements, `Providers` | `MCGateway` | `GatewayProofs` |
| `Retrieval` | `apps/knowledge-service`: the indexing Job and `POST /v1/context` | `Indexer`, `Runbooks` | `MCRetrieval` | `RetrievalProofs` |
| `Incident` | ingestion's `persist_alert`, `lifecycle.py`, delivery of cards, the resolve button | | `MCIncident` | `FeedbackProofs` |
| `Feedback` | `apps/feedback-service`: clicks, cards re-rendered, the bot | `Incident`, which it implements, `Slack` | `MCFeedback` | `FeedbackProofs` |

Run them here with `tlc -config MCOutbox_races.cfg MCOutbox` and `tlapm OutboxProofs.tla`.
`PROJECT.json` says which lines every definition stands for.

## Inventory

Paths are relative to `src/`. "Correct when" says what has to hold, modelled or not.

**Outbox** (`packages/database/.../outbox.py`, `models.py`). *State:* `outbox_events` (status,
`attempts`, `process_after`, `updated_at`); dead letters are promoted to `audit_log`.
*Operations:* write, claim a batch (`FOR UPDATE SKIP LOCKED`), mark dispatched (DELETE), mark failed
(reschedule or dead-letter), dead-letter now, claim stuck rows, requeue. *Correct when* no written
event is lost, none goes round for ever, attempts are counted, and every dead letter can be found.

**Outbox-worker** (`apps/outbox-worker`). *State:* the claimed batch, the event being dispatched.
*Operations:* poll, dispatch by HTTP (2xx, retryable, permanent), record the outcome, sweep stuck
rows, drain on shutdown, requeue a dead letter on an admin's request. *Hard:* no lock is held while
it dispatches, the recording transaction reads without a lock, workers crash or time out anywhere,
and the reaper judges by age alone.

**Ingestion** (`apps/ingestion`). *State:* `alerts`, `incidents`, the webhook tokens it has loaded.
*Operations:* authenticate and normalize a webhook (Prometheus, Kibana, mock); attach a firing alert to
an open incident of the last five minutes or open one; resolve the incident of an alert that cleared.
*Hard:* overlapping and repeated webhooks; the dedup lookup takes no lock; `alert_count` is read and
written back. *Correct when* one episode is one incident, a resolved incident stays resolved, and an
answer says what was stored.

**Watcher** (`apps/watcher-agent`). *State:* the incident's severity, `processed_events`.
*Operations:* consume `alert.normalized`: escalate a burst, suppress a follow-on by cooldown, request a
plan. *Hard:* escalation is a read-modify-write; events of one episode arrive in any order.
*Correct when* every episode is investigated, once, and a burst is escalated.

**Planner** (`apps/planner-agent`). *State:* `investigation_plans` (unique per incident),
`processed_events`. *Operations:* consume `incident.plan_requested`: choose a template, store the
plan, request reasoning; absorb a lost race in a second transaction. *Correct when* an incident has
one plan however often and however concurrently it is asked for.

**Reasoner** (`apps/reasoner-agent`). *State:* `recommendations` (unique per incident),
`processed_events`. *Operations:* consume `incident.reasoning_requested`: read the context, retrieve
knowledge, call the LLM, fall back to a template, store, announce. *Hard:* two remote calls of
tens of seconds with nothing locked. *Correct when* every incident gets one recommendation, whatever
the remote services do, and its row says truthfully where it came from.

**Feedback-service** (`apps/feedback-service`). *State:* `recommendations.slack_message_ts`, the
incident's status, `feedback`, the cards in Slack. *Operations:* deliver a card (post, then record), the
three buttons, the bot's commands. *Hard:* Slack has no idempotency key; the post happens inside a
transaction; cards are re-rendered after the commit from rows read before it. *Correct when* no card is
missed, duplicates are explained by a failure, no card claims what is not in the database, and
`investigating` means that somebody has been told.

**LLM gateway** (`apps/llm-gateway`). *State:* one circuit per provider and model, in memory; the
streams it relays. *Operations:* admit a request by token, mode and budget, route it to a binding, retry,
fail over, open and try circuits, stream. *Hard:* requests share circuits across awaits; a stream can
fail, time out or be left after its first event. *Correct when* a dead provider is left alone, tried once
in a while and used again once it is back, every request is answered, and no truncated
stream passes for a complete one.

**Knowledge-service** (`apps/knowledge-service`, with `plugins/knowledge/elastic`). *State:* the chunk
index in Elasticsearch, the manifest `runbook_documents` in Postgres, the corpus directory.
*Operations:* an indexing run (diff, chunk, embed, index, delete, record), a search (BM25 and kNN, fused
and graded by an LLM). *Hard:* a run dies between two stores; searches read an index that is changing.
*Correct when* a run that says it is done has left nothing out, and an empty answer is not an outage.

**Packages** (contracts, common, telemetry, plugin-sdk, testing), **plugins** (vendor adapters),
**platform-sim** (a demo workload), **deploy** and **scripts**: no protocol of their own. Of contracts
and common, what decides something is modelled with its users.

## The modules

### Outbox and EventDelivery

`row` is the table (`absent`: not yet written; `gone`: deleted); `ripe` stands for both of a row's
clocks, `process_after` and the reaper's age. A worker's loop is `Claim` -> (`Dispatch` -> `Answer` ->
`Fetch` -> `Record`)* over its batch. `Fetch` is the recording transaction's `session.get`, `Record`
the flush and commit: between them another worker's record, a sweep or a requeue may commit.
`Flushed` is what SQLAlchemy then writes: only attributes that differ from what was *read*.
`Halt` is a crash, a drain or a cancelled task at any point; `RecordFails` an unreachable database.
`RequeueRead` and `RequeueWrite` are the admin endpoint, which reads the dead letter without a lock.
`PatientReaper` says whether a claimed row can outlive the reaper's interval while a worker holds it.
It can in the deployed configuration; both settings are modelled, so that what depends on it shows.

`EventDelivery` is the outbox without workers, batches and clocks: an event is owed until its
target has answered or it is given up for dead, and only a requeue revives it. `Promise` maps
`row[e].status` to the fate of `e`.

### Planner, Reasoner and ExactlyOnce

Each request handles one delivery, in the steps between which another request can commit: gate,
check, insert, mark, commit; after an `IntegrityError` the recovery transaction; the reply. `wrote`
holds what the open transaction has inserted: an insert of the same key by another waits for it,
then fails if it commits (`Waits`). `Foreign` events are of another type (marked and dropped),
`Orphans` are refused with 422. `Abort` ends a request anywhere without a 2xx.

The reasoner adds the two remote calls between its transactions, by their outcomes, and `Vanish`, a
deletion of an incident and its plan, which the deferred foreign keys notice only at the commit.
`Reasoning` is what those outcomes are made of: how an exchange with the knowledge-service or the
gateway is classified, what `parse_rca` accepts of the model's text (by what it contains, not by its
characters), and the fallback. `Templates` is the planner's file: what startup accepts and the plan an
alert gets. The planner has the same deferred key and the same absorbing handler (planner
`routes.py:135`); deletions are not modelled there, as the reasoner shows the effect.

`ExactlyOnce` is what both promise: a subject is decided at most once, the decision emits one event,
all other events about it are absorbed, and only handled events are answered.

### DispatchBudget

One event between the worker and the reasoner, in ticks of five seconds: dispatch timeout 90 s,
knowledge 20 s, LLM 60 s, reaper 60 s, retries after 5, 15, 60 and 300 s. A worker that hangs up does
not stop the handler. `httpx` is the read timeout of the worker's HTTP client, which is built without
one (`main.py:192`) and so has httpx's default of 5 s. Waiting behind a batch is left to `Outbox`.

### CircuitBreaker, Providers and Gateway

The gateway is one asyncio loop, so a step is what happens between two awaits: the report of a call,
the decision to retry, sleep or fail over, and the admission of the next call together. A call
may still be out when its circuit opens, cools down and is tried by another; `fresh` tells which calls
were admitted since the circuit last opened. `CircuitBreaker` is this failure policy alone, for any
bindings and requests.

`Providers` is the data around it: which exceptions of which SDK are retryable, the routing table and
what startup demands of it, tokens, budgets, the order of 401, 422 and 403. `Gateway` is the whole
request: admitted, answered by the policy with a completion, an error, or the first event of a stream,
which then goes on frame by frame until it is done, breaks, exceeds the mode's timeout or is left by its
client. `logged` counts the `llm.request` records each request has made. A stream that is cancelled
before its first frame never starts the generator whose `finally` records it, and leaves none
(`RecordedOnce` says so). The timeout's cancellation reaches the stream between two frames of the
provider, where it becomes an error frame, or the task that sends them, where it does not (`Deadline`).

### Watcher and CorrelationRules

A request's steps are the gate, the load of the incident, the counts, the write of the severity, the
decision, the marker and the commit; `seen` is the severity it read. The UPDATE waits for another's
uncommitted one and does not read again. `arrived` is what ingestion has committed, in any order of its
transactions. `CorrelationRules` is the YAML file: `Loads` is what startup accepts; a rule that fails it
keeps the watcher from starting.

### Ingestion

One request per webhook: admission (503, 401, 422, 500 by what is loaded, the token, the normalizer and
the contract), the lookup, and the commit or the resolve under the row lock. `Normalize` is the three
normalizers by field: missing, empty, not text, too long, unparseable. `alert_count` is written
as what the lookup had read, plus one, and may overwrite an overlapping commit's (`stale`). Answers
may be lost and processes restarted; sources post again what was not settled.

### Runbooks, Indexer and Retrieval

`Runbooks` holds the pure parts: chunks named by their runbook and section, content hashes, the diff of
the corpus and the diff of a runbook's chunks, reciprocal rank fusion over exact fractions, and the
grades. `Indexer` is one run of the Job, a step for each call to Elasticsearch, the gateway or Postgres,
any of which may fail; a bulk write may take only part, and the errors of a bulk delete are not read
(`leftover`). A deployment may come with another model while an index of the earlier one, and the
manifest of what it holds, are there: runs refuse to go on, until somebody drops the index (`DropIndex`,
an act outside the code) and with it the manifest or not. Rows that outlive it are `orphaned` until
a run records their runbook again. `Retrieval` adds a request whose two searches see the index at two moments.

### Incident

Incidents of one fingerprint, numbered by `opened_at`, which Postgres takes from the start of the
transaction that looks for a duplicate: hence `FireLookup` picks the incident and `FireCommit` opens it
or attaches to it. `Clear` is ingestion's resolve, atomic under the row lock; `Click` is the resolve
button. A delivery locks the recommendation (`Lock`), reads the incident (`seen`), posts, and records
the timestamp, the marker and the transition together. The transition selects `FOR UPDATE`, but in
a session that already holds the incident, so what it judges is `seen`. Alert rows, `alert_count` and
audit rows are left out: no decision here reads them (ingestion's gate counts the firing alerts
just after it flipped all of them), and `Ingestion` has them.

### Feedback and Slack

`Feedback` extends `Incident`: its deliveries post the cards that engineers then click. A click is
acknowledged at once, so it is handled once at most; it reads, commits, and re-renders the card
it came from with what it had read. The bot's answer is made of one query after another, each
of which sees what is committed by then. `Slack` holds what has no state: what an envelope or
a command parses to, and the card by what it says.

## What is checked

Every property has a *mutant*: a variant of one definition, placed before it and named after what it gets
wrong (`Reap` / `ReapSilently`), with which TLC finds the property violated. Nothing in the
specifications uses the mutants.

| run | states | shows |
|---|---|---|
| `outbox_races` | 278 000 | Two workers, two admins, an impatient reaper, one event: whatever overlaps, the event is not lost (`NoEventLost`), a dead letter has its audit row (`DeadLetterAudited`), and it is settled in the end (`EventuallySettled`). |
| `outbox_patient` | 28 000 | Two events in batches, a patient reaper, one admin: one owner per row (`ExclusiveOwner`), attempts bounded (`AttemptsBelowLimit`), `EventDelivery` implemented with its liveness (`KeepsPromiseFairly`). |
| `planner` | 22 000 | Four events, two about one incident, one foreign, one orphaned: `ExactlyOnce` is implemented (`KeepsPromise`), every decision is audited and every event answered. |
| `reasoner` | 145 000 | The same with remote calls and a deletion; rows are truthful about where they came from and what was paid (`RowsTruthful`). |
| `budget` | 10 000 | With timeouts in the intended order the event is analysed once, although the reaper resets the row (`OneCallWhenOrdered`). With httpx's default it costs up to three calls (`AtMostThreeCalls`), but is delivered. |
| `gateway` | 42 000 | Two requests in two modes that share a binding, completions and streams: a circuit opens at the threshold, lets one trial out per opening and closes again without help; a request always ends and is recorded once, unless it was cancelled before its first frame (`RecordedOnce`); only the client's leaving or the timeout truncates a stream, and a truncated one never looks complete (`TruncationExplained`); what happens in a stream is nothing to the circuits (`FailurePolicy`). |
| `watcher` | 76 000 | A burst, a follow-on and a foreign event, delivered in any order and again to two requests, one of which dies: one decision for each event with its marker, no two incidents suppress each other, the burst is escalated although updates are lost. |
| `ingestion` | 796 000 | Five webhooks of one alert, two firing, one clearing, one garbled, one forged, posted again when an answer is lost: answers tell what was stored, a resolved incident has firing rows only of webhooks it overtook, `alert_count` falls short only by overlapping writes and each incident is announced as new once. |
| `retrieval` | 494 000 | Two runbooks edited, broken and deleted under indexing runs that fail anywhere, perhaps after an index of another model was dropped, and a search beside them: a completed run has left nothing out, an indexed section always has some text, an empty answer is the grader's, the index comes in step with the files. Runbooks whose rows outlived the dropped index are excepted until they are indexed again. |
| `incident` | 110 000 | Three incidents, two webhooks and two deliveries at a time, one of which may fail: no more open duplicates than overlapping webhooks, every card explained, a resolved incident that was told stays resolved, every card recorded in the end. |
| `feedback` | 2 222 000 | Two clicks and a question to the bot against a delivery and an alert that clears: an incident is resolved once (once more if its delivery took it back), no card is ahead of the database, an incident the bot calls investigated has its root cause in the same answer. |

One run ends in a violation. `incident_dragged_back`: an alert clears, or an engineer clicks resolve,
while the card is being posted. The delivery judges the transition by the status it had read before and
sets the resolved incident to `investigating`, a transition `lifecycle.py` forbids.

### What the code says and does not do

Met while modelling; the models follow the code, and their properties are stated of it.

- *The reaper and live workers.* `retry.py:21-23` says "this worker exclusively owns the row". A batch
  is dispatched one event at a time and `updated_at` is never touched: after 60 s the reaper resets a row
  that a live worker holds, and another claims it. A single reasoner dispatch (90 s) already outlives
  that. `outbox_races` has it: nothing is lost. `ExclusiveOwner` holds for a reaper that waits.
- *httpx's default.* `timeouts.py:8-9` demands a dispatch timeout "strictly LONGER than everything the
  reasoner can spend". The worker's client (`main.py:192`) is built without a timeout, so httpx reads for
  5 s at most, and an analysis longer than that is requested again while it runs.
- *A deleted plan.* `routes.py:241` takes an `IntegrityError` at the reasoner's commit for the race,
  "and by now it can be NOTHING ELSE". A row deleted after the checks (`storage.py:30-32`) raises the
  same: the event is marked as handled, with no recommendation.
- *Two trials.* `circuit_breaker.py:90` says "Half-open allows exactly one in-flight trial". A call
  admitted before the circuit opened may fail while the trial is out: the circuit opens under it, and
  after cooling down sends a second. `OneTrialPerOpening` is what holds.
- *Unrecorded streams.* `service.py:7` (of the gateway) has one `llm.request` log line per request. A
  stream that is left or cut before its first frame has none: `RecordedOnce` excepts it.
- *Cut streams.* `stream.py:12`: the gateway "must never just close the connection, because a silently
  truncated stream is indistinguishable from a complete one", and by `base.py:9-10` the deadline surfaces as
  `ProviderTimeoutError`. But `asyncio.timeout` (`base.py:123`) cancels the task that entered it, the one
  that primed the stream, while another sends it: the cancellation may reach the response at the socket,
  and it closes without an error frame. `TruncationExplained` is what holds: only that, or the
  client's leaving, truncates a stream, and it lacks the frame marked `done`.
- *Severity.* `correlation.py:77`: "Severity may only ever ratchet up". Two requests escalate from the
  same stale read, and the one with the weaker target may commit last. It takes rules with two targets;
  the deployed file has one. `BurstEscalates` is what holds.
- *A reverted edit.* `indexer.py:274`: "the manifest only claims what Elasticsearch already holds". An
  edit is indexed and its recording fails; the file is put back; its manifest row has the hash of the
  old text, so the run skips it, although its old chunks were deleted. The run assumes that no edit
  brings an old version back (`Reverts = FALSE`); with `TRUE`, `CompletedRunCovers` is false.
- *Another model.* `store.py:20-21`: other dimensions mean "creating a new index and re-embedding the whole
  corpus" (also `indexer.py:106-107`, "a new index plus a re-index"). Nothing does the second: the rows of
  `runbook_documents` survive the dropped index, `reconciliation.py:93-97` finds every runbook unchanged,
  and each run completes over an empty index. The model has it; `CompletedRunCovers`, `AlwaysCovered` and
  `EventuallyInStep` except the runbooks so `orphaned`, until an edit has them indexed again.
- *A runbook nobody recorded.* `reconciliation.py:87-90` removes the chunks of deleted runbooks, found in
  the manifest. One that was indexed, not recorded, and then deleted has no row: its chunks stay.
- *Moved runbooks.* `indexer.py:310`: the manifest "cannot describe something different from what is
  in the index". An edit of the frontmatter alone changes no chunk id: nothing is written, and stored
  chunks keep the services they are filtered by, while the row gets the new ones.
- *Bulk deletes.* `store.py:285` deletes without reading the bulk response's errors: the chunks that stay
  are `leftover`, and no later run looks for them until the runbook changes.
- *A repeated resolve.* `resolver.py:75`: the ending signal "belongs to the newer episode", the older
  incident is "deliberately left open". A resolve whose answer is lost is posted again and resolves it.
- *Attaching.* ADR 0016:250-251 says an alert attaches to an incident that is `open` or `investigating`,
  while `deduper.py:51` looks for `open` ones only: after the first card, the next alert of the episode
  opens a second incident, with a plan, an LLM call and a card of its own.

### Bounds, and why they are enough

- *Outbox:* `MaxHalts` 1, `MaxRequeues` 1-2, attempts 2-3 instead of 5, batches of 1-2. Every race is
  between two parties over one row, and `MaxAttempts` 2 has both a retry and the limit. The safety
  properties are proved for all values.
- *Planner, Reasoner:* two requests at a time, two aborts (one in the reasoner, and one deletion).
  A third request would only wait where a second does. The reasoner run has one answer that succeeds,
  one that is refused and one retrieval outcome; all nine and four are covered by its proofs.
- *DispatchBudget:* the real durations; one worker. Two workers with a 60 s reaper re-dispatch a row
  that is being served, which `outbox_races` has.
- *Gateway:* threshold and attempts 2 instead of 5 and 4: enough for a failure that counts,
  one that opens the circuit and one that comes late. Streams of two events: one that is primed and one
  that can fail. Two requests; the safety properties are proved for all values.
- *Watcher:* a burst of two about one incident, exactly as long as the rule's window, one follow-on that
  the cooldown just covers and one foreign event. Every window is met at its edge.
- *Ingestion:* two slots for five webhooks of one alert, one failure, three incidents: two that
  overlapping webhooks open and one after a resolve. Other fingerprints share nothing with it.
- *Retrieval:* two runbooks of two services, with two sections at most; one has a section rewritten
  (and blanks changed, which must not matter), the other is edited into what does not parse; either
  may go. No index at first, or one of another dimension in which any of those that can be indexed are
  recorded; only that one is ever dropped. One failure, after
  which the runs must recover. One request, with a limit below what the two
  searches find together.
- *Incident:* three incidents are one more than two overlapping webhooks should open; one of them gets a
  recommendation (`Planned`), and two deliveries of it overlap. `MaxFailures` 1 is the failure
  whose retry must succeed.
- *Feedback:* one incident, two clicks, one delivery: a click can meet another, the delivery and the
  alert's resolve at each of its steps. The proof has any number of each.

### Fairness

- *Outbox:* weak fairness of each loop's steps, clocks and restarts: the loops catch every exception
  and go round, every request has a timeout, the deployment restarts processes. None of writes,
  crashes or admins. Recording may fail every time: the row then stays `processing`, and the reaper's
  sweep, which is fair, counts the attempt until the event is dead-lettered.
- *Consumers and deliveries:* weak fairness of a request's steps (the remote calls have budgets), strong
  fairness of an unanswered event's delivery: that is the outbox's promise, and requests about other
  events, which come and go, hold no slot of it for good.
- *DispatchBudget:* time passes, and the loops run.
- *Gateway:* weak fairness of calls, sleeps, frames and circuits: providers answer or run into the mode's
  timeout, sleeps end, circuits cool down. Requests of the modes asked for keep coming, strongly, as
  the bounded number of requests is the model's and not the gateway's. Nothing is assumed of clients.
- *Watcher:* as the consumers: steps weakly, the delivery of an unmarked event strongly.
- *Retrieval:* the Job is started again until it succeeds (`backoffLimit`, and each deployment), and its
  steps are taken. Nobody is assumed to drop an index of other dimensions, on which the Job refuses to run:
  `EventuallyInStep` says nothing of one that stays.
- *Ingestion* and *Feedback* are checked for safety only: the first depends on its sources to post
  again, the second acknowledges before it acts and promises nothing.

Deadlock is checked in all runs but three: in the outbox's and the ingestion's everything may be
settled with nothing left to do, and in the retrieval's the files stop being edited.

## What is proved

All theorems are of the specifications without fairness, for any value of the constants that the
modules' named assumptions allow: any number of events, workers, requests, clicks and bindings, and any
bounds. Every safety property that a run checks is also a theorem.

- **OutboxProofs.** `TypeCorrect` first, with what a loop's program counter says about its event and
  outcome (`LoopInv`). From it, for any reaper and any admins, `NoLoss` and `DeadLettersExplained`.
  `OneOwner`, `AttemptsBounded`, `AttemptsKept` and `PromiseKept` (implementation of `EventDelivery`)
  assume a patient reaper and at most one admin. `ExclusiveOwner` is not inductive: `OwnInv` adds that
  no held row is ripe, that what a recording transaction has read is still so, and that an admin's row
  is still dead.
- **IngestionProofs.** A request is only handled of a webhook that passes admission, and no two are
  about one webhook (`Slots`). `AnswersTell`: `Ledger` accounts for each row by an answer, one not
  heard, or one still due. `StrandsAreLate`: what an alert has resolved stays so, and whoever
  is still to commit to it is `overtaken` (`Resolved`). `CountsTrail`: a request that is to open an
  incident is alone with it, so only one that found it can write back an old count (`Counted`).
- **WatcherProofs.** `OneDecision`: the marker's insert excludes the other deliveries of an event
  (`MarkerInv`), and its rows are there with it (`Rows`). `EpisodesInvestigated`: a suppression only
  points to an *earlier* incident, which a suppressed one cannot be the last of (`Explained`). It
  assumes that no two incidents have the same `opened_at`, and that an alert is attached to an incident of
  its own fingerprint (`AttachedAssumption`). `BurstsEscalate`: severities only leave what the
  incident was opened with (`Falling`), and until they do, an alert of the burst that will
  count them all has yet to be decided (`Pending`).
- **PlannerProofs.** `IInv` ties each request to the tables: what its step says it has written, which
  locks exclude which (`Locks`: two open transactions never hold one key), that a request which
  passes to absorbing has seen a plan (`Progress`), and who created what (`Audited`). From it
  `NeverTwoPlans`, `MarkerHasPlan`, `AnswerHasMarker`, `DecisionsAudited`, and `PromiseKept`.
- **ReasonerProofs.** The same with the remote calls and deletions; `Gone` says that what absorbs
  without a recommendation has lost its incident. `MarkerHasRecommendation` holds if nobody
  deletes incidents (`MaxVanish = 0`), which it needs.
  `ResolveTotal` says that of every exchange with either service, and of every text the model may write,
  a row is made, and a truthful one. Then the clocks of `DispatchBudget`, with one worker: `AnalysedOnce`
  and `NobodyHangsUp` for any durations in the order that `timeouts.py` asserts and a client that
  does not undercut the dispatch timeout, by what the worker has waited in each stage of its handler.
  `ThreeCallsAtMost` is for any client, a dispatch timeout of 90 s at most and a reaper that waits 30 s at
  least (`Brief`; the deployed one waits 60 s). No clock says when the first handler began: `Apart` relates
  how long it has been at work to the attempts and the retry delay that is left (`Hasty`), or, where
  patience outlasts that reaper, to the waits alone (`Steady`).
- **GatewayProofs.** Of the circuits `OpensInTime`, `TrialsOnePerOpening`, `TypeCorrect`. One step may
  report to one circuit and ask another, so the invariant is stated of circuits and requests in the
  middle of a step (`GoodBut`) and restored by each way a step may end.
  `PolicyKept`: every behaviour of the gateway is one of `CircuitBreaker`, so this
  holds beside any number of streams (`CircuitsBesideStreams`). `OneRecordEach` and
  `OnlyCancelledStreamsTruncated` follow from `SlotInv`, which says of each request slot how
  its answer, its stream and its records fit together (`Fits`, with `Told` for what the client has
  seen); each step is shown to restore it for the slot it changes.
- **RetrievalProofs.** A run believes the manifest, so `Recorded` says that a row which names the text of
  a file, now or later, is true of the index; for that no row may be ahead of its file (`Older`), nor
  the file behind what the run has read (`Behind`). From it `CompletedRunsCover` and, with `Offering`,
  `NeverUncovered`, both if no edit brings an old version back (`~Reverts`, which they need)
  and except for `orphaned` runbooks; a run goes on with an index of its own dimension only (`OwnIndex`),
  so that none is dropped under it.
  `EmptyIsHonest` is of a request beside any runs, for all that the searches may rank.
- **FeedbackProofs.** Of an incident's life `TypeCorrect`, `EveryCardExplained`, `ResolvedStays` and
  `DuplicatesOnlyByOverlap`. `Exclusive` says that one delivery at a time holds a recommendation, and never
  one that is delivered; with it `Cards` counts the cards without a cardinality. `DuplicatesBounded` needs
  `Room`: the open incidents and the senders about to open another are together no more than the senders.
  `LivesOn`: clicks, cards and questions are steps of `Incident`, or none. `ResolvedByOne`: `Counts`
  relates the audit rows to the status, before and after the delivery that may take a resolved incident
  back once. `CardsAreBacked`: what a click or a delivery has read and not shown yet is backed by the
  rows as the cards are (`Truth`), and no step takes such a row back (`Grown`). The model assumes that
  what strangers post to the endpoint names no incident's recommendation. `AnswersAgree`: of an
  incident that was investigated when it was read, the recommendation is there to be read (`Answering`).

Only model-checked: all liveness, and `KeepsPromiseFairly`, the outbox's implementation of
`EventDelivery`'s fairness (the prover has no fairness or `ENABLED`). The type invariant of
`Retrieval` is not proved: the ranks that `Fuse` adds up are a fold over a sequence, which takes
induction over data.

## Not modelled, and why

Wording and layout (prompts, cards, logs), the vendors' request formats, metrics, probes, migrations and
settings: they keep no state that a decision reads. The reasoner's history lookup only adds text to
the prompt. The outbox's admin list is a read. Platform-sim, deploy and scripts are no part of the
pipeline. What BM25, kNN and the LLM answer is open in the models, within what their callers check. The
database is READ COMMITTED Postgres as the code uses it: row locks, unique keys that wait, deferred
foreign keys, `now()` as the start of the transaction; Elasticsearch and Slack are modelled by their
calls' effects and failures.

## Plan

1. *Done:* all the services, their abstract promises, and the proofs above.
2. *Done:* all safety properties proved.
3. Prove `AnalysedOnce`'s bound for several workers and a reaper that is patient.
4. `Pipeline`: `EventDelivery` composed with one `ExactlyOnce` per service: from an opened incident
   to a told engineer or a dead letter, with the modules above as implementations of its parts.
