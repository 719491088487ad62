# Atlas in TLA+

Atlas is an aviation-safety platform: it ingests accident records from many sources as *claims*, detects and
lets curators resolve conflicts between claims, merges duplicate accident events, projects the surviving
evidence into a versioned public record, and runs background work (an outbox worker, the Hermes web-fetch
queue) on top of one PostgreSQL database. Everything runs as `READ COMMITTED` transactions of concurrent HTTP
requests, CLI commands and worker processes, so correctness rests on row locks, advisory locks, partial unique
indexes, fenced leases and on which writes share a transaction. That is what this project models.

File paths below are relative to `src/atlas/` unless they start with `ARCHITECTURE` or `README`.

## 1. Inventory

| Component | State | Operations | Hard behaviour | Correct means |
|---|---|---|---|---|
| Outbox and worker (`infrastructure/event_bus/outbox_worker.py`, `repositories/outbox.py`) | `outbox_events` rows: status, attempt_count, lock, deadline | poll a batch, process, acknowledge, mark failed, sweep stale locks | workers that outlive their lock, crash between two transactions, abandon a batch | fence sound, budget kept, effect once, every row settles |
| Echo cross-reference (`use_cases/echo_crossref.py`) | result row in the tenant schema, usage events | request, run, complete, fail | result and outbox row are written by different transactions | result and row agree, settled results are final |
| Hermes fetch queue (`use_cases/run_hermes_fetch_job.py`, `repositories/hermes.py`) | targets, fetch jobs, documents, source changes | enqueue, claim, fetch, finalize, retry, recover | leases expire during a fetch; a late answer meets a new claim | one active job per target, no late answer applied, failures surface |
| Projection and merge (`use_cases/reproject_event.py`, `merge_duplicate_events.py`, `review_duplicate.py`, `rebuild_all_projections.py`) | events with a merge pointer, projection rows, projection history, duplicate reviews | merge, confirm/reject, reproject, rebuild | merge, ingestion and reprojection use different locks | pointers form a forest, claims follow the merge, no evidence lost, history dense |
| Ingestion (`use_cases/ingest_source_data.py`, `ingestion/*.py`, `domain/services/event_matching.py`) | snapshots, runs, identity index, claims, duplicate reviews | validate, replay, resolve the event, lock, write, reconcile, queue | a retry that overtakes its first attempt; two reports of one accident; an event merged between choice and lock | a key is ingested once, a record stays on one event, no event is added next to its twin without a review |
| NTSB importer (`presentation/cli/ntsb.py`, `ingestion/sources/ntsb_eadms.py`) | none of its own: a client of ingestion | load an export, record by record | killed and run again over a changed export | a record that was ingested is replayed |
| Claims and conflicts (`ingestion/_claim_writer.py`, `_conflict_reconciler.py`, `use_cases/resolve_conflict.py`, `reopen_conflict.py`) | claims with a type and a successor, conflicts with status, version, winner | supersede, detect, resolve, reopen, auto-resolve | optimistic version against ingestion | at most one OPEN conflict per field, disagreement is visible, winners are active |
| Publication (`use_cases/editorial.py`, `public_events.py`, `search_events.py`, `map_events.py`, `reindex_public_events.py`, `domain/publication/workflow.py`, `_search_indexing.py`, `_map_indexing.py`) | pages with status, version and revisions; search and map index | create, edit, eight transitions, reindex; list, search, map, clusters, related events | index and page written by several handlers; a reindex that locks no page and holds up those who want its rows; a page without a projection; paging by keyset; the antimeridian | every public route shows exactly the published pages, and a disturbed reindex harms no other page, revisions explain each page, no edit is lost |
| CMS (`use_cases/cms.py`) | glossary terms, methodology pages, changelog entries, revisions | create, edit, transitions, public lists | concurrent edits from one version | revisions are the history, lists are complete |
| Tenancy and tenant ingestion (`use_cases/tenancy.py`, `tenant_ingestion.py`) | memberships, sources, runs, claims, reports, overlays of a tenant | admit, register, open and fill a run, file a report, write and list overlays | membership changes under a request; overlays are rewritten between two pages; a merge takes a projection away | rows of a tenant come from its writers, are metered one for one and are shown to it |
| Metering (`use_cases/metering.py`, `services/metering.py`) | usage events, daily rollups | record, roll up | events that commit while a job counts, across midnight | a rollup never overbills, a final one is exact |
| API keys and rate limit (`presentation/api/dependencies.py`, `middleware.py`) | cache of keys, sliding windows | resolve, revoke, clear; admit, sweep | a query in flight while a key is revoked | revocation takes effect within the TTL, limits hold in every window |
| Orion (`use_cases/extract_orion_entities_from_event.py`, `repositories/orion.py`) | entities, identifiers, links, relationships | extract | identifier races between extractions | one entity per name, extraction is idempotent |
| Chronos, Argus (`use_cases/extract_chronos_timeline_from_event.py`, `run_argus_signal_detection.py`, `review_argus_signal.py`) | timelines and sequence reviews; signals, evidence, decisions | extract, detect, review | one engine of several fails; conflicts are counted in one statement and fetched in a later one; review against detection | inversions noticed, decisions stand, signals have grounds |
| Causality (`use_cases/causality.py`) | HFACS attributions, SHELO factors and interactions | attach, edit, delete | check before insert | the graph is whole, one edit per version |
| API layer, NL search, audit and provenance queries, migrations, deployment | none of their own, or logs | read, shape | – | – |

Interactions: ingestion and merge add a `CLAIMS_UPDATED` row to the outbox in their own transaction; the worker
leases the row and calls `ReProjectEvent` in the transaction that acknowledges it. An Echo request adds a result
and an outbox row; the worker writes the result in the tenant's transaction and acknowledges afterwards. Confirming
a duplicate review runs the merge. The NTSB importer calls the ingestion. Hermes appends source changes that Argus reads to raise signals. The editorial
workflow publishes projections and maintains the search and map indexes. Metered actions add usage events in their
own transaction, and the rollup jobs count them.

The hazards, each with its line, are in `PROJECT.json`, with the properties that would catch it going wrong. Two have none
there, because what the code does is the hazard itself: a reopen that revives a corrected claim (`conflict_reopen`), and
a batch that joins a completed run (`tenants_claims`). Notes say what the properties do not catch of three more: a page
that changes during a reindex is itself left wrong, a rollup may be overwritten by an older one, and a list of overlays
may skip or repeat rows when its cursor row is rewritten.

## 2. Modules

| Module | Models | Extended by |
|---|---|---|
| `LeaseQueue` | abstract specification: a job queue with numbered leases, a budget and at most one committed effect per job | instantiated by the two queues |
| `OutboxWorker` | outbox rows, worker processes, Echo results and meter | `MCOutboxWorker`, `OutboxProofs` |
| `HermesQueue` | targets, fetch jobs, documents, source changes | `MCHermesQueue`, `HermesProofs` |
| `EventStore` | events, claims, projection, history, reviews, locks, and the transactions that use them | `MCEventStore`, `EventProofs` |
| `Conflicts` | the claims of one field, the conflict row about them, curators' decisions, and the row locks between them | `MCConflicts`, `ConflictsProofs` |
| `Matching` | what an ingestion makes of its claims: field names, coercion, rejection, scores of candidates | `IngestionKeys` |
| `IngestionKeys` | idempotency keys, source records, the identity index and duplicate reviews | `NtsbLoad` |
| `NtsbLoad` | the NTSB load command as one more client of the ingestion | `MCIngestion`, `IngestionProofs` |
| `Workflow` | the editorial state machine that pages and CMS documents share | `Publication`, `Cms` |
| `VersionedDocument` | abstract specification: a document created once, edited and moved along the workflow, one version at a time | instantiated by `Publication` |
| `Publication` | public event pages, revisions, search and map index, reindex | `PublicQueries` |
| `PublicQueries` | the answers of the public routes as functions of those tables | `MCPublication`, `PublicationProofs` |
| `Cms`, `Causality`, `Orion`, `Signals` | CMS documents; HFACS and SHELO; entities; Chronos with Argus | instantiated by `Records` |
| `Records` | the four together: a behaviour of one of them at a time | `MCRecords`, `RecordsProofs` |
| `RateLimit`, `ApiKeys`, `Metering`, `Tenancy` | limiter and key cache of one process; usage and rollups; tenants' private evidence | instantiated by `Tenants` |
| `Tenants` | these four together, in the same way | `MCTenants`, `TenantsProofs` |

### OutboxWorker
One action per transaction of the worker: `Fetch` (poll and lock a batch), `ProcessClaims`, `EchoRead`/`EchoRun`/
`EchoAck`, `DeadLetterUnknown`, `MarkFailed`, `MarkEchoResultFailed`, `RecoverStaleLocks`, `FailOrphan`,
`RecordHeartbeat`; the producers (`AddOutboxEvent`) and time (`DeadlinePasses`) are actions of the environment.
The state follows the columns: `status`, `attempts` (`attempt_count`), `lockedBy`, and `elapsed`, which says that
`next_attempt_at` or the stale-lock window lies in the past. `lease[p][e]` is the attempt count a process
remembers: the fence. Errors inside a handler, escaped errors of the loop (`LoopError`), crashes and restarts are
actions. Worker ids need not be distinct, because the command line has a default.

### HermesQueue
`CreateTarget`, enqueueing, the claim (committed before the fetch), the three outcomes of a fetch (a body, a
transient error, a permanent error), finalization fenced by worker id and attempt, retry, recovery of expired
leases with the `FETCH_FAILED` change, an operator who pauses a target, and crashes. A document is its hash.

### EventStore
A process is a request or a worker in the middle of a transaction; `txn[p]` holds its program counter and what it
has read. The steps are the points where another transaction may come in between:

* ingestion: `ResolveEvent`, then `LockForIngest` (or `RefuseIngest` when the event was merged meanwhile), then
  `CommitIngest`, which supersedes the source's claims and queues the reprojection; `IngestNewEvent` creates an
  event and its duplicate reviews;
* merge: `StartMerge` or `ConfirmReview`, `LockFirst` and `LockSecond` in id order with the second check of both
  merge pointers, `FindProjection` and `DeleteProjection` (which waits for a concurrent upsert), `CommitMerge`;
* review: `StartReject`, `RejectReview`;
* reprojection: `RequestReprojection` or `Deliver`, `LockForReprojection` (the advisory lock), `ReadEvent`,
  `ReadCurrent`, `ReadEvidence`, then `SkipWrite`, or `Upsert` and `CommitProjection`.

Writes become visible at the commit, which is also where locks are freed. Three kinds of lock matter: the event row
(`FOR UPDATE`, and the key-share lock that the history insert needs), the projection row, and the advisory lock.
A merge that holds the event row and waits for the projection row can meet a reprojection that holds the projection
row and waits for the event row: PostgreSQL aborts one of them, which is the `Rollback` action; the properties hold
through it. `Rollback` also stands for crashes and errors at any step.

Abstractions: one field per event; claims are RAW, so `Build` is the last tier of `ProjectionBuilder.build`
(the value, or DISPUTED when values differ); a source has one record per event, so a new claim supersedes the
source's old one; a content hash is the content. `ReProjectEvent`'s restore-from-history branch is left out: the
history row of an outbox event is written in the transaction that closes that event, so the branch is reached only
after a projection row was removed by hand. `force_history` has no caller that sets it.

### Conflicts
`EventStore` looks at one field of several events with undecided claims; `Conflicts` looks at the decisions about one
field of one event. A transaction keeps its uncommitted rows in `txn[p].draft` and `txn[p].row`, behind the locks
`claimLock` and `conflictLock`; `View(p)` and `Row(p)` are what it reads.

* ingestion: `Ingest` (locks the event row), `WriteClaims` (writes the claim, supersedes those of its record, or of
  its source when it has no record), `ReconcileWinner` when that superseded the winner of a resolved conflict,
  `AutoClose` or `NothingToClose`, and `DetectConflict` or `DetectNothing`, which also commit;
* curators: `Resolve` and `LockWinner` (or `WinnerLost`), or `Override` and `InsertOverride`; then `SaveResolution`
  (or `Modified`, the 409), `SupersedeLosers`, `Finish`; `Reopen`, `ReviveLosers`, `SaveReopen` (or `Modified`),
  `Finish`;
* merges: `Transfer` copies a claim into this event, `Absorb` and `CloseAsMerged` give its claims to another one.

A curator's transaction takes no lock on the event, but the activity row it inserts before the commit refers to it,
and PostgreSQL then needs a key-share lock that an ingestion or merge, holding the row `FOR UPDATE`, denies
(`ShareEvent`). `ReconcilerUnraced` is the consequence: no version check of `ConflictReconciler` can fail, so each of
its phases is one step here, with no retry. When such a wait closes a cycle (a curator who holds the conflict row
against an ingestion, or two curators who locked different winners) PostgreSQL aborts one transaction: `Abort`, which
also stands for crashes and errors.
Key-share locks of the other foreign keys (on claims and on the conflict row) only add waits and are left out. A
claim read again within a transaction is read fresh: the session refers to loaded rows weakly and the repositories
keep none. Values are normalised before they are compared. Ids are numbers, handed out in order: nothing compares
them. `Room` and `MaxVersion` bound the number of decisions. No operation writes a CONFIRMED claim.

### Matching, IngestionKeys, NtsbLoad
`EventStore` takes the choice of the event for granted; `IngestionKeys` is about that choice. An ingestion is one
transaction whose steps are the places where it may wait: `ingest_from_source` (validation and the early replay),
`ensure_started` (the row of `ingestion_runs`), `ResolveRecord` (the advisory lock of the source record and the event
it is already on), `InsertSnapshot` (the unique key of `raw_snapshots`, and the replay that follows a collision),
`ResolveEvent` (an explicit event, the event of the record, or the identity index under its advisory lock: attach,
create, or create with reviews against the best matches), `CommitIngestion` or `RefuseMerged`; `Rollback` at any step. Merges and changes of a
source's field mapping happen between any two steps. `Matching` has the pure part: spelling and mapping of names,
coercion, a date that cannot be read and is stored as `''` (`Unread`), the fields whose failure rejects the submission, the cap on registration aliases, and the scores. A claim's
value is a form (`date`, `mark`, `dashed`, `garbled`...) with what it stands for; a hash is what is hashed. A snapshot
of an older release, which has no stored result, is one of the workloads.

`NtsbLoad` adds the importer: `StartLoad`, then one record after the other (`SubmitRecord`, `ReplayRecord`,
`FailRecord`, `SettleRecord`), `Kill`, and `Export`, which changes a record of the file between runs. The source has
to be registered by an administrator first (`RegisterSource`).

### Workflow, VersionedDocument, Publication, PublicQueries
An editor's request is two steps: it loads the page, checks role and transition and computes the new row; `Commit`
writes it where the version is still the expected one, with the revision and the index writes (`PostTransitionHook`)
of the same transaction, and `Refuse` is the 409. The reindex is `StartReindex`, `NextBatch`, `RebuildSearch`,
`RebuildMap` and `CommitReindex` or `AbandonReindex`. It locks no page, but the index rows it has deleted or inserted are
locked until it ends: a request that wants one has updated its page and stops in between (`Wait`). At the end of the
reindex it goes on (`Release`), and a DELETE whose row is gone removes nothing, although the reindex has put another row
of the page there (READ COMMITTED). `adrift` are the pages that entered or left PUBLISHED during the last reindex, or whose
DELETE missed or whose two indexes were given different projections: their index rows may be wrong until they change
again. `ReProjectEvent` (the first projection too) and `MergeDuplicateEvents` change what the pages are about; a page may be
published before its event is projected. It is then found by title (`_entry_from` takes no projection for an answer) and
not on the map, and its own route answers 404. Left out: the DELETE of a reindex waits for the requests an earlier
reindex held up; a request that nothing holds up reads the projection once for both indexes; rows of pages adrift rank by
the order of the pages as they are now. `VersionedDocument` is the
promise: a document starts as a draft at version 1, each step is an edit or an allowed move and adds one to the
version.

`PublicQueries` defines what readers get: the list and the search with facets by keyset cursor, the map window, the
cluster grid of a window (also across the antimeridian) and related events. `PublicRoutesAgree` follows the cursors
from page to page and compares with the set of published pages, in every state, leaving out of the indexes the pages
adrift and no others.
`OrderBy` is SQL's ORDER BY: some arrangement of the rows in which none stands before one that precedes it, so ties are
left open, and so that sorted lists can be reasoned about (the sorts of the library are opaque to the prover). The
reference for the map counts degrees eastward from the west edge; 180 and −180 are two longitudes to the code, and only
a window that crosses the antimeridian reaches from one to the other.

### Cms, Causality, Orion, Signals (Records)
No two of these share a table, so `Records` composes them by choosing one at the start of a behaviour. In each, a
request reads, other requests commit, and it writes under the version, the constraints and the locks the code has:
`Cms` and `Causality` as in `Publication` (the public lists are ordered with `OrderBy`, and the changelog is read page by
page with its cursor and its limit); `Orion` goes through the fields of a projection one by one, with the
advisory lock, the lookup, the identifiers, links and relationships, and sees the rows of others when they commit;
`Signals` extracts a timeline (Chronos), runs the detectors one after the other with failures of single engines, and
reviews signals (Argus). The conflicts of the accident are opened, resolved and reopened meanwhile: `detect_atlas` counts the
open ones, `LinkConflicts` fetches them in a later statement, and `overtaken` are those resolved in between.
An Orion claim link exists only where the projected field has a claim (`Claimed`), and names it.

### RateLimit, ApiKeys, Metering, Tenancy (Tenants)
Composed the same way. `RateLimit` counts ticks finer than a second, because the window is compared exactly and
`Retry-After` is in whole seconds. In `ApiKeys` a request that misses the cache queries, and stores what it read later.
A `Metering` job counts cell by cell while actions and other jobs commit. A `Tenancy` request is admitted (key, active
tenant, membership), flushes the rows of its use case, and commits after the membership may have changed; the row
policy of the connection is part of the reads. Ids are taken when rows are flushed, and never taken twice. Events of the public
side are projected and merged meanwhile: a merge takes the projection of the absorbed event away, so its overlay is still
listed and no longer opens, until a rebuild writes its tombstone. A reader asks for the first page of overlays
(`list_events`) and follows the cursor; a page with a cursor is two statements, `resolve_cursor`, which looks up the time
the cursor row has now, and `next_page`. `listing` keeps what that reader was shown, and `kept` the overlays nobody has
written since the first page. Overlays of one time are ordered by id, for which their event stands. A behaviour calls the
routes of one of `Workloads`.

## 3. Runs

| Run | Instance | Result |
|---|---|---|
| `outbox_safety` | 2 processes with one worker id, an Echo and a CLAIMS_UPDATED row, 3 attempts, batch of 2, 2 faults | `ProjectedOnce`, `EchoConsistent`, `ImplementsQueue` |
| `outbox_liveness` | 2 workers, an Echo row and a row of an unknown type, 2 attempts, 1 fault, fair | `EveryRowSettles` |
| `hermes_queue` | 2 workers, 3 jobs of one target, 2 contents, 2 attempts, 1 crash, fair | `OneActivePerTarget`, `ChangesAccounted`, `OwnerSettles`, `ImplementsQueue`, `EveryJobEnds` |
| `event_store` | 2 events, 2 processes, 1 source with 2 values, 2 outbox rows, 1 reviewable pair | `MergeForest`, `NoStrandedClaims`, `Freshness`, `NoRowCycle` |
| `conflicts` | 2 sources (one with a record id) and the curators, 2 values, 4 claims, 2 requests at a time, versions up to 4 | `WinnerActive`, `DisputeQueued`, `LineageKept`, `NoLostDecision` |
| `publication` | 2 pages, 2 editors, 2 events either side of the antimeridian, one of them not projected yet, 8 writes, reindex in batches of 1, 4 windows, 4 queries | `AuditTrail`, `PublicRoutesAgree`, `RetractionFinal`, `NoLostEdit`, `ImplementsDocument` |
| `records` | each part with 2 requests in flight: 5 CMS documents, 2 HFACS attributions, 2 SHELO factors and 2 interactions, 2 events with 2 projections each for Orion, 4 timeline kinds, and for Argus 3 inputs: source changes, 5 conflicts opened at once, one of them resolved and reopened | `TransitionTrail`, `PublicLists`, `GraphWhole`, `EditsSerial`, `OneEntityPerName`, `ExtractionIdempotent`, `DecisionStands`, `SignalsGrounded`, `InversionNoticed` |
| `tenants` | each part with 2 callers: windows of 2 s in half seconds, a cache of one key with a TTL of 2, 2 days of 3 metrics, 2 tenants with a user who is promoted in one and leaves the other, 4 events of which one is absorbed and one is projected late | `RateFair`, `RevocationBounded`, `RollupSound`, `TenantIsolation`, `MeteredExactly`, `EvidenceShown` |
| `ingestion` | 2 clients and the importer, 4 events, 3 sources, 6 workloads, 2 loads | `OnceAndForAll`, `RecordContinuity`, `TwinAnnounced` |
| `event_stale` | as `event_store` | violated, `NoStaleRecord`: a reprojection that read the event before a merge puts the absorbed record back |
| `absorbed_alias` | as `ingestion` | violated, `AbsorbedAliasAttaches`: the identity rows of two merged events tie, so a further report creates a third event |
| `ntsb_reload` | the importer, 2 loads | violated, `ReloadReplays`: the second run sends a new time of capture under the old key, and every stored record fails |

The violated properties state sentences of comments, docs or tests; `PROJECT.json` quotes them under `findings`.

### Reproductions outside the list
These configurations are kept because each shows, in a few steps, a behaviour that a reader of the code would want to
see. Run with `tlc -config X.cfg M`; TLC reports a violation. Where a configuration appears more than once it names one
property and lists the others as comments, to be checked one at a time.

| Configuration (module) | Property | What TLC shows |
|---|---|---|
| `echo_deadletter` (`MCOutboxWorker`) | `DeadLetterReachesTenant` | a crash between dead-lettering a row and failing its result leaves the result PENDING for ever |
| `echo_metering` (`MCOutboxWorker`) | `MeterMatchesCompletion` | a worker that outlived its lock meters a run that another completed |
| `hermes_changes` (`MCHermesQueue`) | `ChangedContentIsReported` | contents A, B, A: the return to A is reported as unchanged |
| `event_store_claims` (`MCEventStore`) | `TombstoneInserts` | the tombstone of a merged event computes version 1, which its history already has |
| `event_store_claims` (`MCEventStore`) | `ReviewFinal` | a rejection and a confirmation that both read PENDING overwrite each other |
| `conflict_reopen` (`MCConflicts`) | `DisputeRestored` | a reopen brings back a claim that a correction of its own record had replaced (`ARCHITECTURE.md`:113) |
| `publication_claims` (`MCPublication`) | `OnlyPublishedVisible` | the gate of the public page hides DRAFT and RETRACTED only |
| `publication_claims` (`MCPublication`) | `IndexAlwaysExact` | a page published or withdrawn during a reindex, also one whose DELETE waited for it, is missing from, or left in, the index |
| `publication_claims` (`MCPublication`) | `CentroidInCell` | the mean of unshifted longitudes puts the centroid of a cell across the antimeridian on the other side of the globe |
| `publication_claims` (`MCPublication`) | `RelatedAreOthers` | a merge leaves relationships on the absorbed event, so a page is related to itself |
| `absorbed_alias` (`MCIngestion`), with `INVARIANT NoSilentTwin` as its property | `NoSilentTwin` | reviews are against the best matches only: two events of one date and registration, each reviewed against a third, are not reviewed against each other |
| `orion_airports` (`MCRecords`) | `NoDuplicateEntities` | the further names of airports are attached without a lock |
| `tenants_claims` (`MCTenants`) | `ClosedRunFrozen` | the status of a run is checked without a lock: claims join a run that was completed meanwhile |
| `tenants_claims` (`MCTenants`) | `ListingExact` | an overlay that is rewritten while it is the cursor takes the next page with it: others are shown twice, or, when two requests commit in the other order of their times, skipped |
| `tenants_claims` (`MCTenants`) | `OverlayOpens` | the overlay of an absorbed event is listed and cannot be opened |
| `tenants_claims` (`MCTenants`) | `ClearingInvalidates` | a query in flight caches a revoked key after `clear_auth_cache` |

### Bounds and why they are enough
Two processes are the smallest number that race; the races are between one holder and one intruder, and the proofs
cover any number. Three outbox attempts are needed for a lease that is lost, taken over and lost again; two faults
for a crash of a worker that recovers another's crash. Three Hermes jobs are needed for the sequence A, B, A.
In `event_store`, two events allow both directions of a merge, and an id order; two outbox rows bound the
ingestions and merges to two per behaviour, so that a change of evidence can overtake a reprojection of an
earlier one; two values allow DISPUTED. In `conflicts`, four claims allow two sources to disagree, one of them to
correct its claim, and an override or a second correction; version 4 allows a conflict to be opened, decided,
reopened and decided again.

In `publication`, six versions take a page through review, approval and publication, out of it and on;
eight writes let the other page move in between; a batch of one makes a reindex over two pages take two reads, with
publications between them. The windows are the globe, one across the antimeridian, one without height that ends on a
point, and one without width. `MaxPoints` 1 and `MaxCells` 3 let both truncations happen. In `ingestion`, four events allow a duplicate, its merge, the
mistaken third and a report that matches others better than it matches the third; each workload has the submissions one question needs (a key reused for something else, a correction,
the same accident under another spelling, claims without a date, an explicit event, a snapshot of an older release,
an export that changes). In `tenants`, a cache of one entry makes two keys evict each other, two days with one tick
each put every event next to midnight; ingestion runs, reports and overlays write different tables and share the
gate and the meter, so each is a workload of its own, with room for two runs, four claims and two reports;
merges and projections go with reports and with the overlays of one tenant, listings with the overlays of the other. Lists of
overlays are read with limits from 0 to 3, cut to 1 or 2, so two overlays of one time meet on either side of a cursor and
three take up to three pages. In `records`, three committed Orion extractions allow two to race and a third to repeat, two of
the three Argus inputs reach the threshold of the failure spike, and five conflicts of which one is resolved or reopened
cross a border of severity, and `_CHANGELOG_LIST_MAX_LIMIT` 2 makes a limit be cut and a list be continued.

Bounds that only keep TLC finite are named constants (`MaxFaults`, `MaxCrashes`, `Rows`, `Room`, `MaxVersion`,
`MaxWrites`, `MaxInputs`, `MaxReviews`, `MaxRuns`, `MaxTime`, `MaxLoads`). Where reaching them leaves requests nothing to do (`conflicts`,
`publication`, `records`, `tenants`) deadlock is not checked. Symmetry is used for processes, callers, values and
rows, never in a run with liveness; ids that the code orders are numbers and are not permuted.

### Fairness
`OutboxWorker` and `HermesQueue` assume weak fairness of each process's work and of passing time: `run_loop` never
returns, catches every exception and is restarted by its supervisor; a fetch is bounded by a timeout. No fairness
is assumed of faults, of producers, of the operator, or of which transaction wins. The other modules state safety only.

## 4. Proofs

The `…Proofs` modules prove with TLAPS, for every value of the constants under the named assumptions
(`OutboxAssumption`, `HermesAssumption`, `EventStoreAssumption`, `ConflictsAssumption`, `PublicationAssumption`,
`QueriesAssumption`, `MatchingAssumption`, `IngestionAssumption`, `NtsbAssumption`, `CmsAssumption`,
`CausalityAssumption`, `SignalsAssumption`, `LimiterAssumption`, `AuthAssumption`, `MetersAssumption`,
`EvidenceAssumption`: ids and sort keys are numbers where the code orders them, markers such as `NoEvent` are not ids or
rows, budgets, limits and page sizes are positive, the rows of a store are finitely many, what is there at the start has
keys of its own, the days are consecutive, positions and windows are on the globe, a text has finitely many words, the
submissions of a workload are records of the right shape, API keys belong to users). TLC evaluates each of them in a run.
In each module `IInv` (`IndInv` for the queues; one invariant for each part of `Records` and `Tenants`) is the inductive
invariant; TLC checked it on the run of the component before it was proved. 52 theorems are listed in `PROJECT.json`;
they state 38 of the 40 properties that the passing runs check.

Recursive functions, sorted lists and sums over sets are part of several statements. Induction theorems with an
operator parameter cannot be instantiated here, so what such a definition computes is proved from a least counterexample
(`WFMin` or `Least`): a least length, number of steps or part of a sum for which the fact fails is contradicted by the
one before it. A list that `CHOOSE` picks is known by its specification once some list is shown to satisfy it.

* **Outbox** (`OutboxProofs`): `TypeOK`, `LeaseUnique`, `RetryBudget`, `ProjectedOnce`, `EchoConsistent`,
  `RowMovesForward`, `ResultFinal`, and the refinement of `LeaseQueue`. `IndInv` is the conjunction of the state
  properties: the uniqueness of a lease number needs the bound of a lease by the row's attempts, and the Echo result
  needs what `InFlight` says about a process between its two transactions.
* **Hermes** (`HermesProofs`): `TypeOK`, `OneActivePerTarget`, `ClaimDiscipline`, `ChangeHistory`, `ChangesAccounted`,
  `OwnerSettles`, `FailureSurfaces`, and the refinement of `LeaseQueue`. `Unreported` (a running attempt has not
  reported yet) is what makes the account of changes inductive.
* **Event store** (`EventProofs`): `TypeOK`, `MergeForest`, `NoStrandedClaims`, `Freshness`, `NoRowCycle`,
  `HistoryDense`, `MergedReviewsHold`. `IInv` adds what each transaction may rely on: `Working` (it works on stored
  events and on a row of its own event), `RowLocks` (what it checked under a row lock still holds), `HeldRows` (the
  holder of a row is past the step that locks it), `Serialized` (the advisory lock), and `Reads`: until a merge absorbs
  the event, the current row is the one the reprojection read, and what it built is the evidence or *another* open
  row will rebuild it. That last disjunct is why a no-op acknowledgement loses nothing. The argument goes through
  `StepCases` (what one step does to other processes, locks and data) and three frame lemmas (`ProjectionFrame`,
  `ClaimsFrame`, `PromiseFrame`), then one lemma per conjunct. `MergeForest` is proved by closed sets: a set closed
  after a merge contains the source, hence the target, which points nowhere. `NoRowCycle`: among the rows that a set of
  processes waits for there is a greatest one (`Greatest`); its holder locked it last, so it waits for no row.
* **Conflicts** (`ConflictsProofs`): `TypeOK`, `WinnerActive`, `DisputeQueued`, `LineageKept`, `NoLostDecision`. `IInv` is the type
  invariant, `Tables` (what claims and conflict say about each other between transactions) and, per request, `Local`:
  `Locks` (which claims and whether the conflict row it has locked), `Reading` (what it read of the conflict is the row,
  or the version has moved on), `Drafting` (what an ingestion is about to write continues what it locked) and `Electing`
  (the candidates of a curator are still active under the curator's locks). `NoLostDecision` follows because equal
  versions mean equal rows.
* **Publication** (`PublicationProofs`): `AuditTrail`, `NoLostEdit`, `RetractionFinal`, `PublicRoutesAgree`, and the
  refinement of `VersionedDocument`. `IInv` is `RowsTyped`, `SlugsUnique`, `NoOrphans` (no revision without a page), `RequestsSound` (what a
  request read was a row of the page, and is the row still if the versions agree) and `AuditTrail`. Every handler
  replaces a page by a `Successor` of it, so the first four theorems need one lemma per handler.
  `PublicRoutesAgree` needs `RoutesInv`, which adds: `RecentInv` (`recent` lists the stored pages, each once, so the order
  by `updated_at` is total and a cursor is a place in it), `EvidenceInv` (merge pointers have a depth bounded by the
  number of absorbed events, so following them ends at an event that is not absorbed), `IndexInv` (the rows of every page
  that is not adrift are right in both indexes: there as it was published, or not there) and `ReindexInv` (of the pages not
  touched since it began, a reindex has found those published up to its cursor, and all of them when it writes; rows that
  appear after its DELETE are of touched pages; without it the indexes that a reindex writes would be unknown). From it: reading page by page, with any page size, gives the whole list
  (`WalkIsComplete`); a search gives the published pages it describes; a window of the map holds exactly the points that
  lie within it (`WindowIs`); the cells of the clusters divide them, so the counts add up (`SumOfCells`), and each cell
  covers the points it counts (`QuotientBounds`).
* **Ingestion** (`IngestionProofs`): `OnceAndForAll` and `RecordContinuity`, for the clients alone and with the NTSB
  importer among them (`LoadSpec`). `IInv` says how keys, snapshots, claims and answers belong together (`Keys`), that
  the snapshots of a record share their canonical event (`Continuous`), and what a request may rely on between its steps
  (`Working`): who holds the row of a snapshot is alone with the run, who holds the lock of a record found all its
  snapshots. The canonical event is the recursive function `Ancestors`, as many steps along the merge pointer as there
  are events. What it computes is proved by least counterexamples (`Least`): it exists (`AncestorsExist`), a
  pointer that is set elsewhere leaves a root alone (`RootsStay`), and a merge of *s* into *t* makes *t* the root of
  exactly those whose root was *s* (`MergeRoot`).
  `TwinAnnounced` is proved for the clients alone and with the importer, while the rows of a registration fit on the page
  of `find_by_registration`: `[]RegistrationsFit` says that whenever a request is about to look up its date and registration,
  at most `RegistrationLimit` identity rows within a day of it have that registration (20 in the code, whose comment calls it
  a safety cap). The number of events is not bounded. `TwinInv`: an event keeps the key it was created for as long as its identity row does, through
  enrichment and merges (`KeysKept`); a key has one holder (`OneHolder`); and who is about to create an event for a date
  and a registration holds the key, and has a review to write if an event of that key exists (`Announces`). The scores
  are bounded, so a best candidate exists; one with the same key scores at least `HIGH_CONFIDENCE`, so the decision is to
  attach or to ask (`NeverNew`).
* **Records** (`RecordsProofs`).
  * CMS: `TransitionTrail`, `PublicLists`. `CmsInv`: the row a request is about to write is a successor of the document as
    long as the versions match, and the revisions of a document lead to its row. The lists also need `KeysInv`: documents
    of a kind have different keys and no edit changes one, so the orders are total; then the sections of the methodology
    are the runs of one sorted list, and the changelog read page by page is complete for any limit a client sends.
  * Causality: `GraphWhole`, `EditsSerial`. `HfacsInv` and `SheloInv` say what a call that has made its checks may still
    rely on when it writes: the row it read may have changed or gone, but a row never returns and keeps its natural key.
  * Chronos and Argus: `DecisionStands`, `SignalsGrounded`, `InversionNoticed`. `DecisionsInv` relates the status of a
    signal to the decisions about it, `ReviewsInv` sequence reviews to the timeline, and `GroundsInv` says that what a
    detector read can only have grown since, except for the conflicts it has counted and not yet fetched: of those, one that
    is no longer open is `overtaken`. An inverted pair of timeline entries has an inverted pair of neighbours
    between them: a shortest span is taken with `WFMin`.
  * Orion: `OneEntityPerName`, `ExtractionIdempotent`, without an assumption. `OrionInv`: an identifier has one row among
    the committed ones and those of any one transaction; transactions share no lock, id or identifier; an entity other
    than an airport owns its identifier, or its transaction is about to attach it under the lock. `TraceInv`: the rows of a
    transaction are those of the fields it went through, and the rows of a committed extraction stay.
* **Tenants** (`TenantsProofs`).
  * Limiter: `RateFair`. `RateInv`: the hits that are kept are the last that passed, in order; hits that were dropped
    have expired; two hits with `requests` between them are more than a window apart. The hits of any window then fit in
    an interval that begins with the first of them.
  * Keys: `RevocationBounded`. `AuthInv`: the time until which a key is known to be active (`ActiveUntil`) only grows; a row was
    found by a request that began within it, and an entry of the cache lives for at most `ttl` longer.
  * Rollups: `RollupSound`. `MeteringInv`: a row, stored or still with a job, counts at most what was committed for its
    cell, and a final one exactly that, because its day is over and no action of it is uncommitted; a day is in the stored
    rows, or in what a job has yet to write, with all its metrics or with none. A sum grows with its terms.
  * Tenancy: `TenantIsolation`, `EvidenceShown`. `TenancyInv`: what a transaction has flushed is sound whenever it commits,
    whatever happens to memberships or to the runs of others meanwhile. `ShownInv`: claims and associations are of events
    of the store, overlays of events that are projected or were absorbed, and a report id names one report, also in what
    transactions are about to add; so the evidence of all events is all that is stored. `ListingInv`: as long as no cursor
    row was found older than its page had it, what is kept was shown or comes after the cursor; as long as none was found
    newer, what is kept was shown once and does not come again. A page takes the first rows after the cursor and leaves
    the rest after the next one (`PageFollows`), because the order of (time, id) is total.
  * Meter: `MeteredExactly`. `MeterInv`: the usage of a transaction counts its rows one for one, and pending rows are
    disjoint from stored ones and from those of other transactions, so a commit adds both sides of the equation.

`LeaseUnique`, `RetryBudget`, `RowMovesForward`, `ResultFinal`, `ClaimDiscipline`, `ChangeHistory`, `FailureSurfaces`,
`HistoryDense`, `MergedReviewsHold` and the `TypeOK` of the first four modules are proved and for that reason no longer part of a run.

Only model-checked:

* `EveryRowSettles`, `EveryJobEnds`: liveness under fairness is outside what the prover can do.

Every safety property and every refinement that a passing run checks is a theorem. Two limits on what is proved:

* `TwinAnnounced` has the hypothesis above. Without it the statement fails by design: a page filled with rows that have
  the registration as an alias, a day off, scores below `UNCERTAIN_LOW` and hides the twin.
* `NoSilentTwin`, that twins are merged or reviewed against each other, was checked with three events and is false with four
  (see the reproductions): a report that ties with two rows of one merged event is reviewed against that event alone. The
  attempt to prove it showed this.

## 5. Not modelled

* Audit and provenance queries, natural-language search, the listings of Hermes, Argus and Orion: they assemble
  answers from rows other components write and keep no state (a query log aside).
* The shaping of requests and responses in routers and schemas, exception handlers, the body-size limit, security
  headers. Roles, bounds and conditions that routers check are part of the actions of their use cases.
* The upgrades of database migrations, deployment files, metrics. Constraints and row policies are part of the modules
  that rely on them.
* What Echo's matcher and hazard profile compute; the fetch of Hermes beyond its three outcomes; the decoding of NTSB
  code columns; the demonstration commands that rewrite the corpus.
* CONFIRMED claims, entity reviews and the confirmation of sequence reviews, which no operation of the code writes.
* Deadlocks that PostgreSQL breaks (an ingestion that attaches against a merge, a merge against a reprojection, two
  curators who locked different winners) are the abort of one transaction.

Hazards met in the code beyond the ones in `PROJECT.json`, with what is known about each:

| Where | Hazard | Status |
|---|---|---|
| `use_cases/resolve_conflict.py`:151, :199 | two curators wait for each other's claims | one is aborted (`Abort`); the invariants hold through it |
| `use_cases/resolve_conflict.py`:189 | only linked claims lose: a claim that agreed with the winner survives the opposite decision | reached by `Conflicts`, no property |
| `use_cases/reopen_conflict.py`:63 | a conflict of an absorbed event can be reopened | reached by `Conflicts`, no property |
| `use_cases/reproject_event.py`:301, :312 | a no-op acknowledgement; a deadlock with a merge | `Freshness` |
| `use_cases/reproject_event.py`:171 | the version of a tombstone | `TombstoneInserts` (`event_store_claims`) |
| `repositories/reviews.py`:163 | two decisions on one review | `ReviewFinal` (`event_store_claims`) |
| `repositories/hermes.py`:338, `cli/commands.py`:145, `run_hermes_fetch_job.py`:550 | budget, failures of recovery, order of changes | `ClaimDiscipline`, `FailureSurfaces`, `ChangeHistory` proved |
| `use_cases/ingest_source_data.py`:520 | the result is stored in the transaction it describes | `OnceAndForAll` |
| `outbox_worker.py`:80, :182, :268, `repositories/outbox.py`:182 | shared worker ids, abandoned batches, late marks | `LeaseUnique` proved, `ImplementsQueue` |
| `repositories/metering.py`:77 | an action that spans midnight | `RollupSound` |
| `repositories/tenancy.py`:261, `dependencies.py`:70, `use_cases/public_events.py`:124 | run status without a lock; clearing against a query; the visibility gate | `ClosedRunFrozen`, `ClearingInvalidates` (`tenants_claims`), `OnlyPublishedVisible` (`publication_claims`) |

Observations that need no model: `domain/tenancy/entities.py`:28–30 says a MEMBER cannot register sources, which
`RegisterTenantSource` allows. `ntsb load` adds its source without a commit (`cli/ntsb.py`:113–128;
`unit_of_work.py`:185–192), so every record fails until the row exists. The targets of `NTSB_FIELD_MAPPING` (such as
`occurred_on`) are not canonical names: a stored mapping makes every ingestion fail, and NTSB events never match by
date. A window with west = east makes the cluster query divide by zero (`repositories/maps.py`:159; the latitude is guarded).
Longitudes −180 and 180 are different meridians in a window that does not cross. The identity lock is keyed by date
and registration, so reports a day apart, or without a registration, are not serialised; an ingestion for an
explicit event or a known record updates the identity row without that lock.

## 6. Plan

1. `OutboxWorker` and `HermesQueue` over the abstract `LeaseQueue`, with proofs and refinement – done.
2. `EventStore`: ingestion × merge × review × reprojection, with proofs – done.
3. `Conflicts`, `IngestionKeys` with `NtsbLoad`, `Publication` with `PublicQueries` over the abstract
   `VersionedDocument`, the parts of `Records` and of `Tenants`, with proofs of all their properties – done.
4. Properties for the two behaviours of `Conflicts` without one, and all tiers of the projection builder over it.
5. Composition: `EventStore`'s outbox rows replaced by `LeaseQueue` jobs, so that `Freshness` and the queue's
   liveness together give that the public record eventually shows the evidence.
