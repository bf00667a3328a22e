# A TLA+ model of AI Research Radar

AI Research Radar collects papers, announcements, filings and standards on a
schedule, turns them into classified events, and mails a daily digest and
occasional alerts through the AgentMail service.  This directory holds TLA+
modules that model its control, TLC configurations that check them on small
instances, and proofs of the properties that matter most, checked by TLAPS.
Paths below are relative to the repository; Python files without a directory
are in `src/ai_research_radar/`.

## 1. The system

Everything runs as short commands (`radar collect`, `enrich`, `compose`,
`deliver`, `reconcile`, ...) started by GitHub workflows.  The workflows that
write the database share the concurrency group `radar-database-writer`, so one
writing job runs at a time; the only other writer is the AgentMail webhook, a
database function called by an Edge Function.  Jobs may be killed (job
timeouts, runner loss), and the services they talk to fail, time out and answer
late.

| component | state | operations | what is hard about it | what makes it correct |
|---|---|---|---|---|
| **Delivery outbox** (`agentmail.py`, `cli.py` deliver/reconcile) | `deliveries` rows; the ORM session of the job | `deliver_outbox`, `reconcile_drafts`, the commits before each send | a send is not idempotent and its answer may be lost; crash between claim and send; recompose, mode changes and webhooks in between | no key mailed twice; a claim is durable before the send and never undone; nothing recorded as sent that was not; receipts only climb |
| **AgentMail client** (`agentmail.py` 60-235) | none (a retry budget per call) | create/update/get/find/send | only idempotent calls may be retried | a send is never repeated by the client |
| **Delivery webhook** (`supabase/functions`, `apply_agentmail_webhook`) | `webhook_events`, `deliveries.state` | one event, recorded once, applied by rank | duplicates, any order, races the running job | receipts never regress; early receipts are attached later |
| **Compose** (`compose.py`) | `deliveries`, `delivery_event_revisions` | `compose_delivery`, `ensure_operations_delivery`, selection of revisions | rewriting a row that is already with the provider; the ledger as a cursor | every deliverable revision reaches one digest and at most one alert; content and ledger agree |
| **Collection** (`pipeline.py` `collect_group`, `limits.py`) | `sources.next_due_at`, `source_health`, `source_cursors` | one attempt per source: attempt commit, I/O, savepoint, commit or rollback and recovery | I/O between two transactions, budgets, cooldowns, failure of the failure handler | the cursor moves exactly with the items; cooldowns are respected; every due tech source gets its turn |
| **Ingestion** (`db.py` `ingest_item`) | `items`, `item_versions` | identity lookup, revision classification | the same content returns, identities rotate | one current version per item; statuses reflect what changed |
| **Enrichment** (`pipeline.py` 515-1480, `dedupe.py`, `scoring.py`) | `events`, `event_revisions`, `event_items`, flags in metadata | `enrich_pending`, `recover_pending_embeddings`, clustering, evidence upgrades | suppression by outage and by archive run overlap; versions replace each other between runs | what a pending version holds back stays unpublished until it is recovered, and every one is recovered; verification never falls |
| **Usage ledger** (`db.py` 457-487) | `usage_ledger` | `reserve_daily_usage` | the limit changes during the day | the quota is never exceeded |
| **Editorialization, alphaXiv, model clients** (`pipeline.py` 1070-1141, `alphaxiv.py`, `llm.py`) | markers in version metadata | summaries and embeddings with fallbacks | outages | a failure never loses the deterministic result |
| **HTTP client and collectors** (`collectors/`, `limits.py`) | throttle times, deadline, page watermarks | requests with retries, redirects, paging | long waits, page limits | budgets and Retry-After respected; no partial-page cursor |
| **Backfill** (`cli.py` 505-) | cursors, archive-only markers | reset, collect, enrich suppressed | interrupted half way | historical items are never delivered |
| **Maintenance and retention** (`maintenance.py`, `retention.py`, `raw_storage.py`) | none: reports only | estimates and previews | shared snapshot paths | a needed version is never a candidate |
| **Topics, identity, evaluation, rendering, export, web** | none | pure functions, files, a read-only page | - | - |
| **Schema, roles, workflows, infra scripts** | - | declarations and scripts | - | - |

How they interact: collectors feed ingestion inside `collect_group`; enrichment
reads items whose `processed_hash` differs from their current content and
writes events and revisions; compose selects revisions not yet listed in
`delivery_event_revisions` and writes a pending delivery; deliver and reconcile
move deliveries through the provider; the webhook writes the same rows.  All of
it is shared state in one database, with commits as the only hand-over.

## 2. The plan

The order follows what a mistake would cost: mail first, because it cannot be
taken back.

1. **Outbox** (built): `AgentMail`, `DeliveryPromise`, `Outbox`, and the proofs
   in `OutboxProofs`, `OutboxClaims`, `OutboxContent` and `OutboxModes`, each of
   which extends the one before.
2. **Collection** (built): `Intake`, `Collection`, `CollectionProofs`.  The
   attempt, I/O, savepoint and recovery of one source; the watermark with the
   items as a refinement of an atomic "take a batch"; cooldowns; the order of
   the tech group under its budget.
3. **Enrichment and the delivery ledger** (built): `Scoring`, `Ledger`,
   `LedgerProofs`, `LedgerArchive`.
   Ingestion, the archive-only marker and the archive runs of backfill, enrichment,
   embedding outages and their recovery with its daily quota, the upgrade of a
   cluster's evidence, and compose's selection of revisions.
4. **Collectors** (built): `Paging`, `PagingProofs`.  The HTTP client with its retries and
   deadline, and every collector's paging and watermark, which `Collection`
   takes as one answer.
5. **What is left**: the rest of the pure parts (the cluster decision against a
   reference, the retention candidate rule), AgentMail's own retry loop, and the
   service worker's cache.
6. **Theorems**: every invariant that a passing run checks is proved (section 5).
   Still to prove: what the pure parts of step 5 compute, once they are there.

## 3. The modules

### `AgentMail` - the mail service (external)

The service is not in the repository; it is modelled from how the client uses
it, and what the code relies on is written at the head of the module: creating
under a known client id returns the first Draft, a send consumes the Draft, an
update without a send time keeps the one it has.  `draft` maps a client id (the
key and what else went into it) to the Draft, `mail` is the set of messages
produced, `net` holds requests whose answer the client gave up on.  `Call`
is one call *after* the client's own retries (`_request`, `_retry`): `"ok"`,
`"timeout"` (`TimeoutError`, `ConnectionError`, httpx timeouts), `"retryable"`
(408/409/429/5xx and other transport errors) or `"fatal"`.  A call answered
with a timeout may have been executed, may never be, or may be executed later
(`LateRequest`).  `Fire`, `FinishFire` and `FailFire` are the service's send
scheduler.  `by` in a Draft and a message is history: the delivery mode of the
job that wrote it last.

### `Outbox` - rows, jobs, webhook

| model | code |
|---|---|
| `row` | committed `deliveries`: state, Draft id, message id, `metadata.shadow`, `metadata.agentmail_send_mode`, content version, attempts |
| `sess`, `dirty`, `Write`, `WriteAndCommit`, `Finish` | the job's ORM session: loaded copies (kept after a commit, `expire_on_commit=False`), flushed changes, `session.commit()` |
| `job` | the running command, the part of it, the rows its loop still has to do, and the row claimed for a send |
| `hooks`, `Webhook` | `webhook_events` and `apply_agentmail_webhook` |
| `ComposeNew`, `Recompose` | `compose_delivery`, one transaction |
| `StartDeliver`, `StartReconcile`, `ToReconcile`, `ToNotice`, `EndJob` | the commands `deliver` and `reconcile` |
| `DeliverShadow`, `DeliverScheduled`, `DeliverClaim`, `DeliverSend`, `DeliverDraftError`, `DeliverSendError` | the loop of `deliver_outbox`; a claim and its send are two steps because the commit is between them |
| `ReconcileDraft`, `ReconcileClaim`, `ReconcileSend`, `ReconcileSendError`, `ReconcileMessage`, `ReconcileNothing` | the loop of `reconcile_drafts` |
| `Crash` | a killed job: the session is lost, a send may be under way |
| `SwitchMode`, `PassSendTime` | the operator changes `DELIVERY_MODE`; 13:45 passes |

Message ids are identified with the Draft they came from.  One calendar day and
one recipient: one digest key, one operations notice, any number of alert keys.
The rows of a query come in no particular order, so the loop takes any of them.
`DELIVERY_MODE` and `RADAR_DRY_RUN` together are one `mode`.  Missing
credentials make a live job raise before its first change (a step that does
nothing) and are not modelled apart.  Attempts saturate at `MaxAttempts`;
nothing in the code reads them.  A change of mode waits until no given-up
request is under way: the alternative is a request outliving a deployment
change by hours.

### `DeliveryPromise` - what the outbox promises

Per key: nothing is recorded as sent that was not mailed, a receipt only moves
up the provider's ladder, and neither a receipt nor a failure is taken back.
`KeepsPromise` in `Outbox` is the refinement.

### `Collection` - one group of sources

| model | code |
|---|---|
| `db[s]` | what is committed of a source: its items, `source_cursors`, `sources.next_due_at`, and `retry_not_before` in its metadata |
| `turn` | `source_health.last_attempt_at`, kept as the order of the last attempts because `_tech_source_order` only compares it |
| `job` | the run: forced or not, replaying or not, the sources left, the order class each had when the run started, the two budgets, and the open transaction (`items`, from which watermark `at` has advanced, up to `to`) |
| `Class`, `Before`, `IsNext` | `_tech_source_order` and, for the other groups, the order of `configs/sources.yml` |
| `StartScheduled`, `StartManual`, `OrderFails`, `EndRun` | `collect_group` called by the workflow, with `--force`, or by `radar backfill` (a forced run from an earlier watermark that is held in memory); the query for the order failing; the end of the list or of the group's budget |
| `Disable`, `Skip`, `Attempt`, `SetupFails` | the head of the loop and the first transaction, which commits the attempt |
| `Unsupported`, `Answer`, `FetchFails` | the collector, called with no transaction open |
| `Ingest`, `Commit`, `CommitUnanswered`, `StoreFails` | the second transaction: items one by one inside the savepoint, then watermark, due time and commit.  `CommitUnanswered` is a commit the database made and the job never heard of, which the code then treats as a failure |
| `Recover`, `RecoverFails` | the rollback and the third transaction that records the failure; if that fails too it is logged and the loop goes on |
| `Crash`, `Tick`, `Publish`, `Edit` | a killed job, time, new items at the sites, and the `enabled` switch |

Times are distances from now, so that they stay bounded: `due` and `cool` count
down to zero.  Time passes between runs and while a run waits for the network
or the database (`Tick`); the budgets only matter there, because the code looks
at the clock at the head of the loop and around the calls.  Items of a source
are numbered in the order they are published, and a watermark is a number: an
answer holds everything above it.  How each collector reaches that through
pages is in `Paging`.  `enabled` changes between runs only, since a run
reads the file once.  `asked` (how long a site still wants to be left alone)
and `passed[s]` (who was attempted while `s` was ready) are history that no
action reads.  Left out: health status and counters, messages, and the upload of
raw snapshots.  The archive-only marker of backfill is in `Ledger`.

### `Intake` - what collection promises

Per source, items and watermark move together, in one step, and forward.
`TakesWholeBatches` in `Collection` is the refinement.

### `Scoring` - the pure rules

`scoring.py` and the helpers at the end of `pipeline.py` as operators: what a
kind of evidence verifies (`VerificationFor`), how two verifications combine
(`CombinedVerification`), the score with its clamps (`ScoreEvent`) and the
alert rule (`AlertEligible`).  The thresholds are the code's, so an instance of
`Ledger` chooses sources and topic strengths on either side of them.

### `Ledger` - from an item to a line of the digest

| model | code |
|---|---|
| `item[i]` | `items`: the current content and label, and of its metadata `processed_hash` (`done`), the content `pending_archive_only` names (`mark`), `archive_delivery_suppressed` (`arch`), `embedding_delivery_suppressed` (`outage`), `embedding_previous_delivery_suppressed` (`before`) |
| `version`, `recent` | `item_versions`: the space of the embedding, whether it is pending, and the versions in the order they were fetched (a content that comes back is fetched again) |
| `event[e]` | `events` with its `event_items` (`prim`, `supp`) and `event_revisions` (`revs`); `root` is `canonical_event_id`, or the event itself; `public`, `suppressed`, verification, score, url and supporting links |
| `job` | what runs: the normal jobs, or a backfill that is replaying or archiving |
| `spent` | the day's row of `usage_ledger` for re-embedding |
| `digest`, `past`, `alerted` | `delivery_event_revisions` of today's digest, of earlier digests, of alerts |
| `CollectChange`, `CollectUnchanged` | `ingest_item` and the marker `collect_group` sets or lifts |
| `EnrichDiscard`, `Enrich` | one item of `enrich_pending`; `Enriched`, `Flagged` and `Gained` are the event, the flags of the item and what its cluster gains |
| `Upgraded`, `Attach` | `_upgrade_canonical_evidence` and the supporting link before it |
| `RecoverFail`, `Recover` | one version of `recover_pending_embeddings`, with its reservation |
| `ComposeDigest`, `Close`, `ComposeAlert`, `NewDay` | `compose_delivery` with `_events_for_delivery` (`Carded`, `Selected`); a row is rewritten until it leaves the states that allow it |
| `BackfillStart`, `BackfillEnrich`, `BackfillDies`, `BackfillEnd` | the command `backfill`: replay, then enrichment in one transaction with delivery suppressed |

An item's event carries its identity, because an event is found again through
the item's relations.  A version is an item and the number of its content, in
the order contents are first seen; an item that goes back to an earlier content
has that version again, as in the code its hash is the same.  How similar two
texts are, whether an item is relevant and what a change amounts to are free
choices, so every outcome of the text functions is explored.  The two
embedding spaces matter: a candidate is only compared within its own.  The jobs
of `Ledger` are serialised by the workflows' concurrency group, so one turn of a
loop is one step and no transaction is interrupted, except the backfill, which
dies between its parts.

### `Paging` - one source, one request at a time

| model | code |
|---|---|
| `site`, `today` | what the site has (external): rows with a date, a shelf (set, venue, search term or volume; for a link, how its URL and title score) and whether the collector accepts the row |
| `cursor` | `source_cursors`: date watermark, OAI set and resumption token, last SEC filing, validators, HTML offset |
| `run` | the locals of one `collect` call: page, unit, rows so far, warning, details or index entries left, the cursor it will return, the attempt, and the `Deadline` with its latch |
| `Sleep`, `Send`, `TransportFails`, `Busy`, `Exhausted`, `Refused`, `OutOfTime` | `BaseCollector.request` and `Deadline` |
| `Raised`, `GoesOn`, `Unwind` | where a collector catches what a request raises, and what it does with a spent deadline |
| `ArxivPage`, `OaiPage`, `SsePage`, `CninfoPage`, `SamrPage`, `OpenReviewPage`, `SecList`, `HtmlList`, `FeedList`, `VolumesList`, `VolumesInner` | one good answer to each collector; RSS, releases, sitemaps and models are one kind (`feed`), the PMLR and ACL indexes another (`volumes`) |
| `Links`, `BetterLink`, `NextOffset` | what `HtmlListingCollector` keeps of a page (the first `max_items` links, the rest cut without a warning), the order in which it opens them (`_detail_rank`), and where the rotation goes on |
| `Volumes`, `YearOf` | which entries of an index are read: PMLR's latest `volume_limit` volumes, or ACL's events of the last years (`years_back`) down to `event_limit`, the others left out without a warning |
| `Start`, `Commit` | the part of `collect_group` around the call: the cursor read before it, and rows and cursor committed together if the deadline still holds |
| `Publish`, `Revise`, `NewDay` | the site goes on while it is read |

`reported` (what the site had when a warning was committed), `skipped`,
`detailed` and `early` are history.  A warning stands for the degraded status an
operator sees.

## 4. The runs

| run | instance | shows |
|---|---|---|
| `outbox_safety` | digest and notice, two contents, two attempts, two faults, one crash, shadow start with a switch to live, two webhook types | `AtMostOneMail`, `PostedIsClaimed`, `ClaimedStaysClaimed`, `ReviewDraftsAreNotMailed`, `ReceiptsMatchContent`, and the refinement `KeepsPromise` |
| `outbox_liveness` | the same keys, live only, one fault, one crash, under `FairSpec` | `PendingIsHandled`, `MailIsRecorded`, and `ScheduledWillFire` |
| `outbox_rollback` | live switched back to shadow | violated: a recomposed digest keeps the provider's send time (finding 1) |
| `outbox_failed` | three keys, one fault | violated: a mailed delivery recorded as failed (finding 2) |
| `outbox_shelved` | shadow, then live, no fault | violated: a live scheduled digest shelved as a draft (finding 3) |
| `outbox_receipts` | live, no fault | violated: a webhook that is never applied (finding 4) |
| `collection` | three tech sources, one without a collector, a group budget of two and a source budget of one, one fault, one crash, one manual run (forced or replaying), two edits of `enabled`, under `FairSpec` | the refinement `TakesWholeBatches`, `AttemptRespectsCooldown`, `NobodyGoesTwice`, `ReadyIsAttempted` |
| `ledger` | two items of one type (two press releases, or a press report and a filing of a capital raise), three changes of two contents, a quota of one, one backfill, under `FairSpec` | `ArchiveStaysSilent`, `UnconfirmedStaysPrivate`, `RootSurvives`, `OwnCardIsEmbedded`, `VerificationNeverFalls`, and the liveness of `PendingIsRecovered` and `CardIsListed` |
| `ledger_pending` | two press releases, one change each, no backfill | violated: a pending record is mailed (finding 5) |
| `ledger_outage` | a company's and a regulator's filing, two changes of one, no backfill, under `FairSpec` | violated: what an outage suppressed twice stays suppressed (finding 6) |
| `paging` | each of the ten kinds of collector with and without validators, three rows (four for HTML and feeds, which show three), pages of one row, two pages, two attempts, a budget of two, one surprise, under `BusySpec` | `LossIsReported`, `RetryAfterIsKept`, `DeferredRunsCommitNothing`, and the liveness of `EverythingIsRead` and `DetailsRotate` |
| `paging_budget` | OpenReview alone, no surprise, under `FairSpec` | violated: a paper past the page budget of its venue is never reported (finding 7) |

Bounds.  Two contents are what it takes to recompose once; two faults are an
ambiguous call and an ambiguous retry of it; one crash falls between any two
steps of a job; two keys make a job commit one row's work while another row is
in hand, and are the two kinds of row (timed and immediate).  An alert behaves
like the notice except that compose creates it; `outbox_failed` has one.
`CHECK_DEADLOCK` stays on: the environment can always start a job.

For collection, the rotation needs three sources and a group budget smaller
than the work: one is served, one is slow, one waits.  The cadence is the
schedule's period, the tightest competition: a source is due again as soon as it
was served.  A fault and a crash are a failure and the death of the run that
would record it; two edits disable and enable a source again while a cooldown
runs.  The bounds are small for the safety properties, each of which is proved
for all of them (section 5); they also hold with two items a source, a
Retry-After of two and two faults, for two sources.

For the ledger, two items are a cluster: a root and a duplicate, evidence of
equal or of different rank, and a root that joins another when recovery clusters
again.  Two changes of one item are a version that replaces one whose embedding
is pending, or that was marked by a backfill that died.  The quota is shared by
both items.  The safety properties also hold on larger instances that take
longer than a run should: with a company and a regulator as a third pair (565 332
states), with three changes of one item, so that a content returns
(3 354 398 states), and with three items whose sources are of three ranks or two
of one (1 413 325 states with one change each; with a second change of one item,
leaving compose out, about 1.5 million states for each assignment of sources).

For paging, pages of one row and two pages make every bound bite with three
rows: a third row is past the page limit, and one published meanwhile shifts the
pages.  A listing shows three of four links, so that a link may be pushed out of
it; of the three, one is opened for its rank and one of the two others in turn,
and a new link with a better or a worse rank moves both.  An index has three
entries of which two are read, on two days of which an event counts for one.
The surprise is a request that goes wrong (at all its attempts), or a row that is
malformed, late or revised.  The safety properties also hold with any number of
malformed and revised rows next to one fault (22.7 million states), and for each
collector with two surprises.

Fairness (`FairSpec`).  A started job goes on (`WF` on `JobStep`; a crash may
still end it, finitely often).  The daily reconcile workflow runs again and
again: `SF` on `StartReconcile`, because the action is disabled while another
job of the concurrency group runs, and the group's queue lets it in.  The
service finishes what it has begun (`WF` on `Service`).  Nothing is assumed of
compose, deliver, webhooks or late requests.

For collection, `FairSpec` is weak fairness of the started run, of the
schedule (`StartScheduled` stays enabled until the run starts) and of time.
Failures, crashes, manual runs and edits are bounded and owe nothing.

For the ledger: days pass, each day's digest is composed, a backfill that runs
comes to an end, pending items are enriched (all weak, the jobs being scheduled
for ever), and recovery is strongly fair: an attempt for each pending version
succeeds in the end although failing attempts and other items spend the quota.
That is the embedding service not being out for ever and the query's order
leaving none behind.  Nothing is assumed of collection or of alerts.  For
paging, weak fairness of the run (`FairSpec`, `paging_budget`).  `paging` checks
`BusySpec`, which writes it `[]<><<RunStep>>_vars`: the two are the same because
a step of a run is enabled in every reachable state (TLC found no exception in
the states of that instance), and evaluating `ENABLED` in the properties' graph
takes the larger instance too long.  Failures are bounded.

`NobodyGoesTwice` and `ReadyIsAttempted` are claimed for the `tech` group only:
the other groups keep the order of the file, and nothing in the code keeps a
slow source at the head of the file from using up their budget.
`AttemptRespectsCooldown` excepts a Retry-After whose recording failed or died
(`RecoverFails`, `Crash`), which is known to no later run.

`ReceiptsMatchContent` is stated for histories without a failed call or a dead
job.  With one it does not hold: an `update_draft` that timed out leaves the
row `unknown`, reconcile accepts the Draft it finds, and the old content goes
out under the new ledger entry.  The hazard is listed with that note.

`PendingIsWithheld` is what the documentation says; `OwnCardIsEmbedded` is the
part of it that the code keeps, and it keeps it only until a content comes back
(`NothingReturned`).  The attempt to prove it without that condition showed why.
A material change is enriched during an outage, so its revision waits.  The item
goes back to the content before, which is enriched with the service up: its
revision is found again by its hash and rewritten where it is
(`WithRevision`), the event is released, and the revision that waits is still
the last one, the one compose shows.  An upgrade of the cluster that is found
again does the same.  TLC confirms it on an instance with four changes of one
item; the changes of `ledger.cfg` are too few for it, and with the condition the
property also holds where three contents and three changes of both items leave
room for returns (14.4 million states).

`OutageEnds` is what the documentation says too, and `PendingIsRecovered` the part
of it that the code keeps: every pending version gets its embedding or is
superseded, but the event need not be released by that.  `WaitsForRecovery` says
when it should be: the event waits for the current version of its item, whose
change is one that is delivered, and no backfill has ever run, so that nothing
but the outage holds it back.

`LossIsReported` and `EverythingIsRead` except what the code cannot or does not
see (`Gone`): rows older than the days it looks back; rows pushed out of a feed,
or of the first `max_items` links of a listing; and entries of an index below
`volume_limit` or `event_limit`, or of earlier years than `years_back`.  These
cuts are made without a warning.  They also except rows added to an OAI set
the current pass has left behind; and `EverythingIsRead` excepts papers past the
page budget of an OpenReview venue, which `paging_budget` is about, and papers
added to a volume whose index goes on answering 304.  For the collectors that
ask for everything in sight each time, only `EverythingIsRead` says something:
there is no watermark to lose a row by.  `DetailsRotate` is claimed for listings
without validators (one that answers 304 is not opened), and for links that stay
in the part that is read once the site has stopped publishing: while a listing
moves by a window with every run, it can carry a link past the rotation.

A behaviour no run is about: the due time of a source is the time of its commit
plus the cadence (`pipeline.py` 301), some minutes after the start of the run.
A run that starts one cadence later finds it not yet due, so a source with the
cadence `four_hour` is collected by every second run of what `README.md` 134
calls a "four-hour collection at `:17`".

### Findings

1. `README.md` says of `radar deliver`: "shadow by default; does not send".
   After a live run scheduled a digest, a switch to shadow and a recomposition
   update the Draft without a send time, the provider keeps the old one and
   mails the review content.
2. `docs/runbook.md` 51: "Draft disappeared and a matching message exists: mark
   sent."  If the Draft disappears between reconcile's look and its re-send,
   the 404 marks the row `failed`, which nothing reconciles.
3. `docs/runbook.md` 25: after the switch to live, "verify the webhook reaches
   `delivered`".  `metadata.shadow` of the review run is never cleared, and
   reconcile shelves the scheduled row as `draft`.
4. `db.py` 271: the ORM mirror "lets the 14:07 reconciliation job attach
   webhooks that arrived before a scheduled Draft's message ID became known".
   One that commits between the read and the job's commit is attached by
   neither side.
5. `docs/architecture.md` 80-83: a record with a fallback embedding "is marked
   `embedding_pending` and cannot publish" until recovery releases it.  A second
   item enriched during the same outage joins the first one's cluster, and
   `_upgrade_canonical_evidence` sets `delivery_suppressed` of the root to what
   the *second* item's run may do (`pipeline.py` 1412): the root is mailed while
   its version still waits.  A content that comes back is a second way to the
   same disagreement, described above.
6. `docs/architecture.md` 14-15: records of an outage "are withheld from delivery
   until they are re-embedded and re-clustered".  When a first version and a
   material second one are both enriched during the outage, the second
   enrichment finds the event suppressed, by the outage, and saves that as
   `embedding_previous_delivery_suppressed` (`pipeline.py` 780, 795).  Recovery
   releases an event only if that flag is down, so this one is published and
   never mailed, until its item changes once more.
7. `docs/runbook.md` 39-40: a backfill "exits non-zero if any source fails,
   degrades, or reaches a pagination budget".  `OpenReviewCollector` reads
   `max_pages` pages of a venue and goes on to the next one without a warning,
   so the papers behind them are neither read nor reported.

Three behaviours no document judges, so that no run does: a primary item whose
second version is enriched becomes `CORROBORATED` by its own first version
(`_combined_verification`); an item that goes back to an earlier content
rewrites the label of that earlier revision, while selection reads the latest
deliverable one; and recovery publishes a routine record that enrichment would
have kept out of the archive.

## 5. What is proved

`OutboxProofs`, checked by TLAPS for every value of the constants that satisfies
the assumptions `BoundsAssumption` and `OutboxAssumption` (keys, modes and
webhook types of any number; bounds are natural numbers).

- `TypeCorrect`: `Spec => []TypeOK`.  `TypeOK` is not inductive: `SendCall`
  uses the session's Draft id, so the claimed row must have one.  The inductive
  invariant `TypeInv` adds `ClaimHasDraft`.  One lemma per shape of update
  (`RowState`, `RowDraftState`, ...) carries the record types, one lemma per
  action carries the rest.
- `MailedAtMostOnce`: `Spec => []AtMostOneMail`.  The invariant `MailInv` adds
  to `TypeInv` that no Draft exists under another client id than the one of its
  key, that a message's Draft is gone for good and gave one message
  (`OneDraft`), and that no request under way would create another Draft
  (`OneClientId`).  Two messages of one key would
  come from the same Draft, which is consumed once.  This is the argument of
  the code: the client id is a function of the delivery key and of nothing
  else, and the service consumes a Draft by sending it.

`OutboxClaims` extends these proofs.

- `ClaimBeforeSend`: `Spec => []PostedIsClaimed`, `ClaimsStay`: `Spec =>
  ClaimedStaysClaimed`, and `PromiseKept`: `Spec => KeepsPromise`, the refinement
  of `DeliveryPromise`.  The invariant `ClaimInv` adds to `MailInv` that a row
  knows Drafts of its own key only (`OwnDrafts`); that the service itself sends
  only Drafts with a send time (`TimedSends`) and nobody sends the digest before
  that time (`NotDueYet`); that a copy the job has not changed differs from its
  row by a webhook's receipt at most (`Session`), and what states the rows in the
  job's list have (`Work`); that a posted key is past `pending`, and no copy of a
  posted or claimed one is still pending (`Claims`); and that a receipt has a
  message (`Receipted`).  The copies are the heart of it: a stale one written back
  would undo a claim.

`OutboxContent` follows what is written in a Draft.

- `ReceiptsMatch`: `Spec => []ReceiptsMatchContent`.  `HomeInv` adds that a
  message shows what its Draft holds, that a row and its copy know no Draft but
  the one of their key, and that a copy the job has not changed differs from its
  row in the state at most.  `OneContent` says that until a call fails or a job
  dies no request is under way, every Draft is known to its row, and an open or
  sent row and its Draft have the same content.

`OutboxModes` holds the two theorems that depend on how a deployment changes
its mode; each has that as its hypothesis.

- `ReviewsStay`: `OneWay` (no change from live to shadow) implies `Spec =>
  []ReviewDraftsAreNotMailed`.  `ReviewInv` says that nothing is timed, sent or
  claimed while the deployment is in shadow mode, that a Draft a shadow run wrote
  last has no send time, and that what is posted or claimed was taken over by a
  live run.  The hypothesis is needed: `outbox_rollback` is its counterexample.
- `ScheduledFires`: `AlwaysLive` implies `Spec => []ScheduledWillFire`.
  `TimedInv` says that once a run could ask for an untimed Draft of the digest
  there is a timed one, or a request that would make one.  The property is
  claimed for live deployments; `outbox_shelved` and `outbox_rollback` are what
  mixed ones do.

`CollectionProofs`, for any finite set of sources, any budgets, cadences and
bounds that satisfy `CollectionAssumption`.

- `TypeCorrect`: `Spec => [](TypeOK /\ CurOK)`.  `CurOK` says that a run past the
  loop's head has a source in hand, since what is committed is indexed by it.
- `WholeBatches`: `Spec => TakesWholeBatches`, the refinement of `Intake`.  The
  invariant `MarkInv` adds that a source's items are exactly those up to its
  watermark, and that the open transaction holds the committed items and those
  between where it began and where it is; a replay may begin lower but never
  ends lower, because a site does not take back what it published.  Every step
  but the two commits stutters.
- `CooldownsRespected`: `Spec => AttemptRespectsCooldown`.  `CoolInv` says the
  committed cooldown covers what a site asked for, except between the answer
  and the record of it, when the run itself carries it (`job.retry`).
- `NoSecondTurn`: `Spec => NobodyGoesTwice` in a group that rotates.  The rule is
  about the order of attempts, but a run orders its sources by their readiness
  when it starts and never again, so a source that becomes ready while the run
  goes on comes after those that were ready at its start.  `TurnInv` says what still protects it:
  whoever was attempted while it waited is behind it in the order of attempts
  (`PassedBehind`, kept because an attempt moves one source to the end and leaves
  the others in their order, `ToTheBackOrder`), and where this run's order does
  not count for it (another class, or off the list), the run is done with
  whoever that was (`PassedDone`).  A source is waiting only while it is ready,
  and not while it is in hand (`ReadyWaits`, `ServedClean`).

`PagingProofs`, for every kind of collector, any rows and bounds that satisfy
`PagingAssumption`.

- `RetryAfterKept`: `Spec => []RetryAfterIsKept`, and `DeferredRuns`: `Spec =>
  DeferredRunsCommitNothing`.  `DelayInv` says that a run with a delay still
  asked for has a latched deadline, so every later request fails before it is
  sent and the commit is refused, whatever a collector does with the exception.
- `RunsStaySound`: `Spec => []TypeOK`.  `Sound` says where a run may be: on a page
  within its limit while it lists, among details or index entries only for the
  collectors that have them and with one left to read.  It rests on what listing a set means
  (`NewestLists`, `OldestLists`: the row at place *n* has *n* - 1 before it, by
  counting) and on what a page of it shows (`SliceRanks`: the rows of a range of
  ranks, and the last of them when the page is not full).
- `NoSilentLoss`: `Spec => []LossIsReported`, for every collector.  Alone it is not
  inductive: a commit is safe for what the run has read, so each collector needs an
  account of that while the site goes on.  For the two with a watermark (`PagesInv`),
  every row ranked before the next page is taken or within the overlap of the newest
  date seen (`PagesRead`); a row pushed across a page boundary was pushed by newer
  ones (`RanksGrow`), and a row listed late or revised is within the overlap because
  `Lag <= Overlap`.  For OAI (`OaiInv`), a set grows at its end only, so ranks stay
  and a token stays within its set (`SetsGrow`, `TokensFit`), and what the pass has
  left behind is kept or was added behind it (`PassRead`).  For SEC (`SecInv`), every
  filing up to the next cursor is kept or gone once they are listed.  The others
  ask for everything each time (`WholeReach`).  `CommitLoses` and `GrowingLoses` are
  the two steps that could lose a row.

`LedgerProofs`, for any items, sources, topic strengths and bounds that satisfy
`LedgerAssumption`.  The inductive invariant `EventInv` says that a row has the
fields of an event, that what is public is verified by more than a report, and
that the root of an event is an event.  Every step is summed up once (`Steps`):
each row `Improves` (it keeps its shape and its verification), and at most one
event changes its root, from being new or a root itself to itself or to another
root (`Rerooted`).

- `ConfirmedInPublic`: `Spec => []UnconfirmedStaysPrivate`.  Enrichment keeps an
  earlier publication for a minor change and for weaker evidence; that is safe
  because combining verifications never falls below the earlier one.
- `VerificationKept`: `Spec => VerificationNeverFalls`, from the same summary.
- `RootsSurvive`: `Spec => []RootSurvives`.  An event that moves goes to a root
  that does not move in that step, so it closes no cycle.
- `TypeCorrect`: `Spec => []TypeOK`.  `TypeInv` adds that an event that is there
  has a link, a verification and a label.  What enrichment does to an event, to
  its cluster, to the item and to the version is summed up once (`Enriches`,
  `Gains`, `Remembers`, `Embeds`), what recovery does likewise (`Merges`,
  `Releases`), and everything below is proved from these summaries.  That the
  latest revision exists needs the greatest number of a bounded set
  (`GreatestExists`), which comes from the well-foundedness of the strict
  subset order and not from an induction.

`LedgerArchive` builds on them.

- `ArchiveIsSilent`: `Spec => []ArchiveStaysSilent`.  `ArchiveInv` says of every
  flag that lets an event out what it presupposes: an item whose archive flag is
  down, or whose enrichment would release its event, was found by a normal run,
  and an event that is not suppressed has evidence of one that was.  That is not
  inductive, because a supporting item that is already in its cluster may be
  enriched again: a minor change of it must not release the root.  It does not,
  as long as a duplicate is a link of its root or adds nothing to its
  verification, which is `ClusterInv`: an event is verified by its own evidence at
  least, by more if its canonical link or primary version is another item's, and
  the canonical link of an event is of an item in its own cluster (`Inside`: in
  every set of events that contains the event and the duplicates of its members).
  From it, `UrlIsBelow`: no event has the link of what it is a duplicate of, nor
  of another root.
- `OwnCardsEmbedded`: `Spec => []OwnCardIsEmbedded`.  `OutageInv` says that what is
  enriched was fetched (`FetchedInv`); that the primary versions of an event are
  its own or are all of one that became its duplicate (`PrimaryInv`); and, until a
  content comes back, that content which waits for enrichment has left no trace in
  any event (`UntouchedInv`), that a pending version is known to its own event and
  to its root only (`PendingInv`), and that an event that waits is suppressed or
  has a later revision of another member's (`EmbeddedInv`).  An upgrade that
  lifts the suppression is thus a revision of its own, which comes last.

Each of these invariants was checked by TLC, on instances with two and three
items, two keys, or three and four rows, before it was proved.

Only model-checked: the liveness properties (`PendingIsHandled`, `MailIsRecorded`,
`ReadyIsAttempted`, `PendingIsRecovered`, `CardIsListed`, `EverythingIsRead`,
`DetailsRotate`), which are out of the prover's reach.  The statements of the
seven violation runs are false and stay with TLC.

## 6. What is not modelled, and why

Rendering, subjects and error texts are wording.  The Edge Function's parsing
and signature checks keep no state: a webhook in the model is one that passed.
The retry loop of the AgentMail client is one outcome.

Of enrichment, the text is left out: similarity, topics, titles, snapshots and
summaries; the order of the cards and the cut of an alert at five, which no
instance reaches; archived events.  Editorialization and the model clients
rewrite wording and change no flag that selection or publication reads.

Of the collectors, what a row is translated to, the model cards of Hugging Face,
and the warning that a page held no usable row.  A listing has a detail limit of
at least one; without one its links are read as a feed is.  The first OAI pass
starts from the first day of an instance; the code starts it three days before
today until a pass has been committed, so rows older than that are not claimed
to be read.  A body that parses in part is modelled for arXiv, where a short page
ends the run; elsewhere it is an answer with rows the collector does not accept.  The interval between requests
and the rule about redirect hosts are not told apart from a lost or a refused
request.

Retention, maintenance, export and the web page read and report; the schema and
the workflows are declarations, read for the constraints and the schedule the
models rely on.  `PROJECT.json` lists every part with its status.
