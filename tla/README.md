# CrewMeal search enhancement: TLA+ models

CrewMeal makes Office and HWP documents in SharePoint findable: it turns a
document into structured text and publishes that text for search. The models here
are about `src/crewmeal/search_enhancement` - a database queue that web requests
fill and several worker processes empty, the SharePoint columns around it, the two
publication targets, the pipeline a document goes through - and about the tools
that collect, benchmark and validate HWP samples. Paths below are relative to that
package unless they say otherwise.

## 1. Inventory

| Component | State it keeps | Operations | Interacts with |
|---|---|---|---|
| Repository (`database.py`, `schema.py`) | tables `documents`, `jobs`, `publication_transitions`, `document_publications`, `job_events`, `artifacts`, `settings`, `feedback_records` | one transaction per method: upsert and enqueue, claim, complete/fail/cancel/retry, record outcomes and errors, the transition's compare-and-set updates, publication claims | everybody; all sharing goes through it |
| Startup and migration (`database.py` `initialize`) | tables, a marker setting, the first transition row | create, inspect, migrate, backfill, under an advisory lock | every process, once |
| Worker (`worker.py`, `cli.py`) | locals of one job, a lease in the jobs table, a back-off delay | `run_forever`, `run_once` (poll the list, empty the queue, advance the transition), `_process_job`, `reconcile_once`; replicas scale out | repository, SharePoint, publishers, pipeline |
| SharePoint control (`sharepoint_control.py`) | list columns `CrewmealSearchCommand`, `...Status`, `...RequestId` (in SharePoint) | `list_commands`, `get_control_item`, `set_processing`, `set_ready`, `set_failed`, `set_removing`, `set_not_enabled`; no write is conditional | workers, browsers |
| SPFx command (`sharepoint/search-enhancement-command`) | none | `_submitCommand`: POST to the ingest API, then MERGE of the columns | ingest API, list |
| Web (`web/routers`) | none | ingest `create_request`; admin rerun, remove, retry, publication target and its confirmations, tryout upload; status page rerun, comment, remove | repository, artifact store |
| Sign-in and status page (`web/routers/auth_sso.py`, `web/routers/status.py`) | a signed cookie with the whole session | begin and complete a sign-in, show, poll | browser tabs, Entra |
| Publication transition (`worker.py`, `database.py`, admin settings) | one row: active and desired target, generation, status, confirmations | request a target, confirm a step, advance, clean up, activate | jobs read it before, during and after publishing |
| Publications and publishers (`publisher.py`, `connector_client.py`) | a row per document and target, an advisory lock per pair | publish, remove, reconcile; pending, ready, failed, removing | worker, transition |
| Records of a run (`progress.py`, `artifact_store.py`, `feedback.py`) | append-only events; versioned files and their rows; comments, notes, corpus | stage, store, delete a prefix, capture a comment | worker, status page |
| Reconciliation (`worker.reconcile_once`) | fingerprints, digests and properties recorded with the last result | compare, repair in place, request again, withdraw | source, external item, jobs |
| Resilience (`db_resilience.py`, `graph_client.py`) | back-off delay | retry transient errors | worker, Graph |
| Pipeline (`processor.py`, `structured_analysis.py`) | results of a thread pool | prepare, analyse pages, merge, count tokens | worker, model |
| Readers (`formats/`, `docx_semantic.py`, `xlsx_semantic.py`) | blocks, pages, units | which page a block, a row or a sheet belongs to; which pages a model looks at | pipeline |
| Decryption (`decryption.py`, `mip_sdk.py`, `mip_setup.py`) | a workspace of temporary files, the guide's last answer | detect, decrypt, probe | worker, external tool |
| HWP archive (`src/crewmeal/hwp_sample_archive.py`) | downloads, a view, a manifest per commit | collect, verify, resume | GitHub |
| Parser benchmark, render validation (`hwp_parser_benchmark.py`, `rhwp_render_validation.py`) | artifacts and `results.json` | run, resume, score; render, sweep | engines, a container |
| Column budget and HTML, other readers, cost benchmark, pricing, settings, infrastructure | none shared | functions of their input | |

Hard behaviours: two or more workers on one queue; leases that run out under a slow
worker; a worker that dies between any two writes; errors raised after the outcome
was committed; requests superseded while they are processed; list polling that
reads before and writes after somebody else's request; stores (database, columns,
connector, files) without a common transaction; settings pages submitted long
after they were opened; workers that advance the transition from a row they read
earlier; clean-ups that race a roll-back; a thread pool that answers in any order;
outages of the database and throttling by Graph; a tool killed in the middle and
resumed; a session that several requests overwrite.

What makes each component correct:

* **Queue.** A document that waits has a job that will be done; its status is the
  outcome of its newest request; a request has at most one outcome and a superseded
  one has none; only the holder of the current claim writes; a job is cancelled
  only when it was superseded; every request settles.
* **Records.** What an uploader is shown, kept or told belongs to a run that
  committed; a closed job told its end; a comment is captured once and used.
* **Transition.** Confirmations count for the switch they were given for; the
  column becomes active only when it is confirmed; the previous target is kept
  until then; every switch ends.
* **Publications.** Nothing is left in a target without a row to find it by; a
  ready row describes what the target holds; a Ready document is served from the
  active target; at activation every wanted document is.
* **Control columns.** The database wins over the columns.
* **Reconciliation.** Once the source rests, the item becomes and stays what it is.
* **Worker loop.** An outage ends no worker; every change of a source is found.
* **Installation.** Every process gets to run; what an older version served stays
  served and known.
* **Pipeline and readers.** What is said of a page was read on it; nothing the file
  said is lost; pages, units and images stay in step.
* **Decryption.** A protected source is read or refused by name; no plaintext
  stays behind.
* **Tools.** Manifests say only what is true of their commit, results are of their
  corpus except over what another corpus' run left when it died, and what earlier
  runs achieved is kept where a run that is resumed is about it.

`PROJECT.json` lists the hazards at their lines and the properties aimed at them.

## 2. Modules

| Module | Models |
|---|---|
| `EnhancementStore` | the `documents` and `jobs` tables; each operator is one repository transaction |
| `JobQueue` | requests, workers (each step of `_process_job` between two visible reads or writes), `reconcile_once` for one document, crashes, leases, retries; properties of the queue |
| `RequestOutcome` | abstract specification: what the queue promises for a document, without jobs, leases and workers |
| `UploadRecords` | `JobQueue` refined on uploads: the tryout page's calls, the timeline, the files and their rows, comments, notes and the corpus |
| `SharePointControl` | `JobQueue` composed with the list columns, the browser's second write and list polling |
| `TargetSwitch` | abstract specification: what a switch of the target promises, without statuses, passes, pages and documents |
| `TransitionStore` | the transition row and its compare-and-set transactions, and how the row maps to `TargetSwitch` |
| `PublicationTransition` | the administrator's forms, the workers' passes of `_advance_publication_transition`, clean-up and activation, on the row alone |
| `PublicationStore` | the `document_publications` table; extends the two stores |
| `PublicationFlow` | jobs, requests, the switch, the republishing and the passes composed over the rows, the advisory lock and both remote targets |
| `Reconciliation` | one pass and one job of the same document, call by call, against a source that changes |
| `WorkerLoop` | `run_forever`: preparation, outages and back-off, Graph retries, passes over the sources, restarts |
| `Installation` | `initialize()` of several processes on a new, an old or a current database |
| `DocumentPipeline` | `process()`: the thread pool over page images, validation retries, the merge and the usage |
| `WordPages`, `WorkbookPages` | which page a block or a row belongs to, how sheets are judged, pages attributed and units numbered |
| `Decryption` | the toggle, the tenant, the tool behind a workspace, a job's and a pass's reading, the setup guide |
| `StatusPage` | tabs of one browser, the sign-in, the cookie as each response leaves it, the polls |
| `SampleArchive`, `ParserBenchmark`, `RenderValidation` | the three HWP tools, killed and resumed |
| `Jobs`, `Services` | the queue beside the uploads, and the components that share no state with the queue, one at a time: see below |
| `JobQueueInvariant`, `UploadInvariant`, `PublicationInvariant` | the inductive invariants of `JobQueue`, `UploadRecords` and `PublicationFlow`, as named parts; those of the other modules that are proved about (`SwitchInv`, `ControlInv`, `InstallInv`, `GuideInv`, ...) are in the modules themselves |
| `EnhancementStoreProofs`, `TransitionStoreProofs` | lemmas about what each transaction of the stores does to the tables |
| `JobQueueProofs`, `ComposedQueueProofs`, `PublicationTransitionProofs`, `PublicationProofs`, `PublicationReadersProofs`, `ServiceProofs` | theorems and their proofs, see 5 |
| `MCJobQueue`, `MCPublicationTransition`, `MCSharePointControl`, `MCPublicationFlow`, `MCUploadRecords`, `MCReconciliation` | instances for one question each |
| `MCJobs`, `MCTargets`, `MCTransitions`, `MCServices` | instances of several modules in one run |

How state and actions correspond to the code:

* A request id (uuid4) is a number handed out in order. Columns no decision reads
  are left out. A lease is a flag; a step of time clears it.
* In `JobQueue`, `pc[w]` is where worker `w` is in `_process_job`: `claimed`
  (before `get_document`), `control` (before `get_control_item`), `start` and
  `mark` (first check, `set_processing`/`set_removing`), `process` (the pipeline),
  `publish` and `verify` (checks around the remote writes), `commit`
  (`record_success`, `record_removed`), `announce` (`set_ready`,
  `set_not_enabled`), `complete`, `stale` (the handler of `StaleRequestError`),
  `error`, `record_error`, `fail_job`, `report`, `set_failed` (the handler of
  `KNOWN_PROCESSING_ERRORS`). `job`, `attempt` and `seen` are the locals
  `job.job_id`, `job.attempts` and the `DocumentRecord` read at the start.
* Any other exception, a kill or a database outage is `Crash`: the locals are gone
  and the lease stays.
* `UploadRecords` adds `step`, where a worker is inside one step of `JobQueue`:
  storing files, appending an event, capturing a comment are steps of their own,
  since none of them is in the transaction it belongs to.
* In `PublicationTransition` and `PublicationFlow`, a pass keeps the row it began
  with and every update carries it as its expected values; `form` is a settings
  page with its hidden fields `generation` and `desired_target`. In
  `PublicationFlow`, `work[w]` holds the locals of a job or a pass, `lock[w]` the
  pair it is in under `publication_operation_lock`, `remote` what each target holds
  (the request whose text it is), `republish` what `_queue_publication_republish`
  has still to look at.
* In `SharePointControl`, `merges` are the column writes browsers have not sent yet
  and `batch[w]` is what `list_commands` returned to `w`.
* Data are reduced to what the properties tell apart: a text is the request it was
  made for; a page's content is a title, a schedule and facts, each marked with the
  page and the reader it came from; a sheet is the signals its verdict weighs and
  rows known by what they fill; a file of the archive is its blob.

Definitions whose comment begins with "Mutant" are not the code: each is what one
mapped definition would be with a plausible bug, and `PROJECT.json` names the
property that bug breaks.

`MCJobs`, `MCTargets`, `MCTransitions` and `MCServices` check several models in one
run; the first and the last of the four instantiate `Jobs` and `Services`, which are
proved about. A variable `part`, chosen at the start and never changed, names the model a
behaviour is of; the variables of the others keep their initial values, which are
fixed where there would be several. Their reachable states are the disjoint union
of those of the models, properties hold for each as if it were run alone, and
fairness is assumed of a model's own steps while it is the one that runs.

## 3. Runs

| Run | Bounds | Shows |
|---|---|---|
| `job_queue` | 2 workers; the queue part with 1 SharePoint document, 2 requests, 3 attempts, 2 faults; the uploads part with 1 upload, 2 requests, 2 attempts, 1 fault | `StatusTellsTheOutcome`, `CompletedMeansCommitted`, `CancelledOnlyIfSuperseded`, the inductive invariants (`SafeInv` of both parts; `QueueInv`, which is `Inv` of the queue and `RecordsInv` of the uploads), and that both parts implement `RequestOutcome`; for uploads `ReadyHasItsFiles`, `ReadyUsedItsComment`, `ClosedJobToldItsEnd`, `ReadyStageMeansCommitted`, `CommentCapturedOnce` |
| `job_queue_liveness` | a SharePoint document and an upload, 2 workers, 2 requests, 2 attempts, 1 fault | `EveryRequestSettles` under fairness, `OutcomeByCurrentClaim`, `QueuedHasWork` with tryouts |
| `publications` | 2 workers; columns with 2 requests, 1 list command and no fault, or 1 request and 2 faults; publications of 1 document on a first installation, on one switch with a fault, on two switches with 2 requests, or on three with 1 | `EnhancedByCurrentClaim` whatever the columns say; the inductive invariant `PublicationsInv` (of which `FlowInv`, `ReadersInv` and `ServingInv` are parts), `TargetsMatchTheirRows`, `ReadyIsServed`, `ActivatedWhenServed`, and that the row implements `TargetSwitch` |
| `publication_liveness` | documents: 1 worker, a switch and its roll-back, 4 request ids; row: 2 workers, 3 switches, 1 error | `EveryTransitionEnds` of the row and `EveryTransitionOfTheDocumentsEnds` under fairness; the inductive invariant `SwitchInv` with `ConfirmedForThisGeneration` in it, that the row implements `TargetSwitch`, `PreviousTargetKept` |
| `services` | one instance of each component of `MCServices`, see below | the inductive invariants of the components in `ServicesInv`; `ArchiveIsTrue`, `BenchmarkIsTrue`, `ValidationIsTrue`, `UpgradeIsComplete`, `AnalysisIsTrue`, `ReadingsAreTrue`, `WordPagesAreTrue`, `WorkbookPagesAreTrue`, `ItemsFollowTheirSources`, `ReadyGuideIsTrue`, `SignInReturnsToItsPage`, `PagesTellTheEnd`, `OutagesAreSurvived`, `EveryServiceFinishes` |
| `stale_poll_rollback` | 1 worker, 2 requests, 1 list command | **violation** of `NewerRequestWins` |
| `processing_column` | 1 worker, 1 request, 1 crash | **violation** of `ProcessingColumnIsFollowedUp` |
| `column_failure` | 1 worker, 1 switch | **violation** of `ColumnFailureMeansNoColumn` |
| `orphaned_publication` | 1 worker, a switch and its roll-back, 1 crash | **violation** of `EveryTransitionEnds` |
| `overwritten_result` | 2 workers, 1 upload, 2 requests, no fault | **violation** of `PreviewIsOfTheFinishedRun` |
| `stale_permissions` | 1 pass and 1 job beside it, 2 changes, 1 request | **violation** of `AclFollowsSource` |
| `forgotten_text` | 2 documents, 2 workers, a switch about to clean up, 1 request, 1 fault | **violation** of `OtherTargetIsEmpty` |

Bounds of `services`: an archive of two commits over three paths and three contents,
three faults; a benchmark of two engines on three pairs with two manifests that
alternate, engines installed or not, and one break (a death, a cut file, a refused
download, a failing engine); a validation of two documents saved one at a time, each
run with `--limit 0`, `--limit 1` or none, and one kill, failed start or failed stop; a
worker loop of two sources, back-off from 2 to 6, two Graph attempts, two outages,
two changes; two processes that initialise over two documents, two deaths; a source
of three pages in a pool of two with two validation attempts; a reconciliation with
three changes of the source, one request and one break; two changes by an
administrator and one save of a protected file; two tabs, one expiry, one refusal,
two overlapping requests; Word documents of up to three elements on up to three pages,
the text of each found in any set of places of the rendering;
workbooks of two sheets on up to three pages each and rows of up to four.

Why the bounds are enough: jobs of different documents share only the claim order,
so one document shows every fence and two show the shared queue. Superseding needs
two requests. Losing a claim and being overtaken needs two workers and one fault;
being overtaken and overtaking again (or a retry on top) needs two. `attempts`
saturates at `MaxAttempts`, above the number of claims those faults allow to
matter. Three switches are there, back and there again, the shortest history in
which an old confirmation meets a new switch to the same target. A thread pool
shows its orders when it is smaller than the number of pages and more than one. A
resumed tool needs one run that left something, one fault in it and something that
changed between: two manifests, one after the other and back, are what it takes to
meet the artifacts of the wrong one. Three pages are what it takes to tell a page back
from two. Attribution of pages needs two sheets and a page too many or too
few for one of them; the preamble rule of a table looks at its first rows only.
Symmetry of the workers is used in the safety runs only.

Going back to `unset` is left out of `PublicationFlow` and is in
`PublicationTransition`. An installation whose first target is changed before it
became active leaves text in the first one as well: a clean-up cleans the active
target, and while that is `unset` (worker.py:1205) it cleans nothing.

Runs stop (no deadlock check) because requests, faults and changes are bounded:
once all are settled nothing is left to do, as in a system nobody uses.

### Findings

* `stale_poll_rollback`: `list_commands` is read, a newer request arrives through
  the API or a portal, then the poll is ingested: `documents.request_id` goes back
  to the older request, the newer job is cancelled as stale. The docstring of
  `_still_current` (worker.py:965-968) calls the queue "the source of truth".
* `processing_column`: the outcome is committed, the worker dies before
  `set_ready`; the recovery branch (worker.py:353-363) completes the job and leaves
  the columns at `Processing`. The same happens before `set_failed`. The
  repository's README (line 633) describes `Queued → Processing → Ready/Failed` as
  recorded explicitly.
* `column_failure`: the failure `CONTENT_COLUMN_NOT_PROVISIONED` is written from a
  row read before the column was confirmed; the update's condition does not look at
  `column_provisioned`. The next pass recovers.
* `orphaned_publication`: a worker dies with the staged target's row `pending`,
  the administrator rolls back, and the reclaimed job publishes to the active
  target only. `_cleanup_previous_target` answers `False` on a pending row
  (worker.py:1255) without an error, in every pass: the switch stays in `cleaning`
  until somebody requests the document again. The repository's README (505-508)
  calls a switch restartable and the staged target cleaned.
* `overwritten_result`: artifacts are stored before the fenced `record_success`
  (worker.py:709), under the version the worker computed from the row it read. A
  superseded worker's files come to be the latest, and the page shows them as the
  result of the newer run (web/viewmodels.py:20-23 relies on the opposite).
* `stale_permissions`: a job publishes the item with the permissions N it read; before
  its `record_success` the source changes to W, and the pass of another worker puts W
  on the item and records it (worker.py:281-285, not fenced). The source changes back
  to N, and the job's `record_success` writes the digest of N (database.py:1101).
  Source and row agree on N, so no pass sees a difference (publisher.py:174), and the
  item keeps W. With one worker `ItemsFollowTheirSources` holds (`services`).
* `forgotten_text`: `_cleanup_previous_target` goes through the publications it
  listed once (worker.py:1254-1257) and asks before each only whether the transition
  is still `cleaning`. Worker 1 has removed a document's publication; worker 2's
  pass fails on another document, a request publishes the first one to the previous
  target again, since the status is `failed`, worker 2's next pass sets `cleaning`
  again, and worker 1 goes on with its old list and activates. The previous target
  keeps that text, and nothing looks there again. The repository's README (505-508)
  says it is cleaned.

`NewerRequestWins` fails only with list commands: without them request ids only
grow, which is part of the invariant proved for `JobQueue`. With them
`QueuedHasWork` and `StatusTellsTheOutcome` fail as well, for the same reason, and
are not claimed of `SharePointControl`. `EveryRequestSettles` is not claimed of it
either: the ingest API is said to replace the writing of columns
(web/routers/ingest.py:3-4), yet a job whose list item carries no request id, since
the browser's second write was lost, ends every worker that claims it with a
`ValueError` (sharepoint_control.py:314-319) and never settles.

## 4. Fairness

* A running worker takes its next step (`WF` on the steps of a job, of a pass and of
  a reconciliation): the process is scheduled and its calls have timeouts. A crash
  may come instead of any step, a bounded number of times.
* `SF` on `Claim` in `JobQueue`: `run_once` comes back to `claim_next_job` after
  every pass, so a worker claims when there is something to claim again and again.
  `PublicationFlow` has `WF` on claiming, beginning a pass and stepping together,
  and `SF` on its advisory lock: PostgreSQL grants a waiting lock in its turn. With
  the one worker of `publication_liveness` a lock is free whenever it is asked for.
* `WF` on the expiry of a lease nobody works under: time passes.
* `WF` on `TryoutEnqueue`: a web request that created the upload row runs to its end
  (a web process that dies there is a listed hazard without a property).
* Transition: `WF` on a worker's pass, `SF` on "all documents are current" and on
  activation (the queue keeps working, so a worker that asks again and again is told
  so in the end), `WF` on the administrator's forms: the manual steps get done.
* Worker loop: `WF` on its steps, on the interval, on the platform's restart and on
  the return of the database (a nightly stop ends); `SF` on `RunOnce` and on looking
  at each source, which the loop comes back to however often it is cut off.
* Installation: `WF` on a process's own steps only; a dead holder's lock is released
  with its connection, in the step in which it dies.
* Status page: `WF` on a tab's steps and on the end of the run it tells of, which
  `EveryRequestSettles` is about.
* Archive, benchmark, pipeline, reconciliation: `WF` on the program's own next step,
  restarts by its user included where it is a tool. The user of the benchmark chooses
  `--resume` freely: `BenchmarkFinishes` excepts the behaviours that from some time on
  resume in every run over a file that was cut inside a character, which end there for
  ever (the `UnicodeDecodeError` is not caught, hwp_parser_benchmark.py:924 and 953). One
  run without `--resume` gets past it.
* Nothing is assumed of browsers in `SharePointControl`: the second write may be lost.

## 5. Proofs

TLAPS checks the theorems below for any documents, workers, uploads, numbers of
requests, attempts, generations and faults. The assumptions on the constants are
`StoreAssumption` (finitely many documents, positive bounds, `None` is no worker),
`QueueAssumption` (uploads are documents, a natural number of faults),
`GenerationAssumption`, `SwitchAssumption` and `FaultsAssumption` (bounds are
natural numbers), `NullAssumption` and `HtmlAssumption` (NULL is no job, no pair of
document and target, no row of the transition, no stored HTML). Those of the other
components are of the same two kinds, bounds that are numbers and values that stand
for nothing: `InstallAssumption`, `ChoresAssumption`, `PagesAssumption`,
`RenderAssumption`, `TreeAssumption`, `TabsAssumption`, `BodyAssumption`,
`BookAssumption`, `BenchAssumption`, `LoopAssumption`, `SyncAssumption` and
`FilesAssumption`. TLC evaluates all of them. Every inductive
invariant is an invariant of a passing run.

| Module | Theorems |
|---|---|
| `JobQueueProofs` | `Typing`, `OutcomeInvariant`; `StatusTellsTheOutcome`, `CompletedMeansCommitted`, `OutcomeByCurrentClaim`; `QueueInvariant` (`Inv`), `QueueIsSafe` (`SafeInv`); `QueuedHasWork`, `CancelledOnlyIfSuperseded`; `QueueRefinement`: `JobQueue` implements `RequestOutcome` |
| `ComposedQueueProofs` | `UploadInvariant` (`RecordsInv`); `ReadyHasItsFiles`, `ReadyUsedItsComment`, `ClosedJobToldItsEnd`, `ReadyStageMeansCommitted`, `CommentCapturedOnce`; `UploadsRefineOutcome`: `UploadRecords` implements `RequestOutcome`; `JobsInvariant` (`QueueInv`); `EnhancementsAreClaimed`: `EnhancedByCurrentClaim` of `SharePointControl` |
| `PublicationTransitionProofs` | `SwitchInvariant` (`SwitchInv`); `ConfirmedForThisGeneration`, `ColumnActivatedWhenConfirmed`, `PreviousTargetKept`; `TransitionRefinement`: `PublicationTransition` implements `TargetSwitch` |
| `PublicationProofs` | `PublicationInvariantHolds` (`FlowInv`); `TargetsMatchTheirRows` |
| `PublicationReadersProofs` | `ReadersInvariant` (`ReadersInv`), `ServingInvariant` (`ServingInv`), `PublicationsInvariant` (`PublicationsInv`); `ReadyIsServed`, `ActivatedWhenServed`; `FlowRefinement`: `PublicationFlow` implements `TargetSwitch` |
| `ServiceProofs` | `UpgradeIsComplete`, `ReadingsAreTrue`, `ReadyGuideIsTrue`, `AnalysisIsTrue`, `ValidationIsTrue`, `ArchiveIsTrue`, `SignInReturnsToItsPage`, `WordPagesAreTrue`, `WorkbookPagesAreTrue`, `BenchmarkIsTrue`; `RequestsBounded` of `DocumentPipeline`, `LoopInvariant` (`LoopInv`) and `OutageEndsNoWorker` of `WorkerLoop`; `ServicesInvariant` (`ServicesInv`) |

### The queue

`JobQueueProofs` begins with what every step does to a document row (lemma `Rows`):
nothing, a newer request, the outcome of its own request, or an error of a request
without an outcome. Hence ids stay in order (`RequestsInOrder`) and status
and outcome agree. `StatusTellsTheOutcome` is not inductive without
`RequestsInOrder`: a fresh request must differ from the one already processed.
`CompletedMeansCommitted` needs `CommittedBeforeComplete`: a worker at `complete`
may have lost its claim, but the outcome it or another recorded stays.
`OutcomeByCurrentClaim` needs `ReconcilesSettled`: the withdrawal of a document
whose source is gone writes an outcome without a claim, and changes nothing a claim
would protect because what the pass read was settled.

`SafeInv` adds what the other properties need. The tables: a job belongs to its
document's request or an older one, no request is both an upsert and a delete, the
intent column agrees with the open request's job, a tryout page between its two
transactions still has a document that waits. The workers: nobody else settles the
request of a worker whose claim is current (`NotSettledYet`: one claim at a time),
and a worker that gives its job up as superseded is right as long as the job is
still its own (`RightlyStale`), which is `CancelledOnlyIfSuperseded`.
`QueuedHasWork` is inductive on top of it, and only where a tryout page finishes
what it began: hence `Inv` is `SafeInv` and this. The refinement goes step by step:
a request is `Submit`, `record_success` and `record_removed` are `Settle`,
`record_document_error` is a failure, `retry_job` makes the document wait again,
and everything else is a stutter; `SafeInv` supplies that a settled request is not
settled twice and that a failure is only told of a request without an outcome.

### Uploads

Every step of an upload is a step of the queue or the death of a tryout page
between its calls, and both keep `SafeInv`, so `RecordsInv` stands on it and says
what the unfenced writes rely on. Versions do not outrun processed requests
(`VersionsInv`): a comment, a file or a row of a later version would otherwise
be taken for the current one. The version a worker read (`base`) is the version
still as long as it may commit (`BaseInv`), since a commit in between would have
settled the request it is about; what it stored stays stored even when it may not.
Comments only come with fresh requests, so of the newest request a note, once
written, is not lost (`NotesInv`), while one of an older request may be. Only
the first commit of a request leads to the capture of its comment (`CaptureInv`).
Every step of an upload being a step of the queue or a death that leaves the tables
alone, uploads implement `RequestOutcome` as the queue does (`UploadsRefineOutcome`).
`JobsInvariant` puts the two side by side: `QueuedHasWork` belongs to the queue only,
where no tryout page dies, and `RecordsInv` to the uploads.
`PreviewIsOfTheFinishedRun`, which speaks of the contents of the latest files, is
false and a finding.

### The control columns

`list_commands` may put a document back to an older request, so neither
`RequestsInOrder` nor `SafeInv` holds of `SharePointControl`. What survives is the
typing, `ReconcilesSettled`, and what a worker relies on when it commits:
`record_success` alone makes a version, and it looks at the request and at the claim
in the same statement. `ControlInv` adds that columns with a command carry a request,
and so does whatever a poll read of them: without it the ingestion of a poll could
not be typed.

### The switch of the target

`SwitchInv`: a confirmation counts for the generation it was given in, a status is
reached only through the steps before it (`StatusIsEarned`), and the row a pass read
is an older state of the row of now (`ReadIsOlder`): generations grow, and within
one generation confirmations are only added. With that the compare-and-set
of `update_publication_transition` and `activate_publication_target` refuses every
pass for which it matters. `ColumnActivatedWhenConfirmed` and `PreviousTargetKept`
are proved as action properties from it.

`TargetSwitch` says what all of this is for: one switch at a time, nothing confirmed
when it begins, its steps confirmed in order, and an end in the target that was
requested last, which is the column only when everything was confirmed. Each
transaction of `TransitionStore` is one of its steps, or a stutter when it only moves
the status of an open switch; that needs `StatusIsEarned`, and that a pass goes on
from a row of an open switch, since `set_transition_status` of a pass that had read a
closed one would open it. `TransitionRefinement` and `FlowRefinement` prove it of both
models of the switch: what one knows of stale pages and the other of documents and
jobs, they add to the same switch (`PassesAreOfSwitches` is what the second needs).

### Publications

`FlowInv` is about the pair of document and target a worker has locked. Locks are
exclusive and held through the operation (`LocksInv`). Under the lock others change
the row only as requests and failures do, so a row being published stays a row
(`PairInv`), and a removal's claimed row becomes neither pending nor ready; the
target holds what the worker left there. `DeleteSeesRows`: a delete that is current
still has every row of its document before it, since rows of a document that is not
wanted are not created. From these follow `ReadyRowsArePublished`, `PublishedHasRow`
and `WithdrawnHasNoRow`, and `TargetsMatchTheirRows`.

### Readers

What readers find depends on documents, targets and workers at once, so the pair a
worker has locked is not enough. `ReadersInv` follows one generation of the switch.
A row of the running generation in the desired target that is ready (`ServedPair`)
tells the request of its document (`ServedInv`), since whoever publishes for this
switch and may commit has published there before it commits (`CommitInv`). The
danger is an `Outsider`: a worker that may still record an outcome although the row
of the transition it read does not send it to the desired target. It makes its
document ready without publishing there, so a document is `Behind` when it is ready
and not served. While the desired target is written for a document, nobody can make
that document ready (`WriteInv`), and what is being removed serves none
(`RemoveInv`).

A pass looks twice, at the documents and then at their rows. Hence `PassInv`, between the
two: every outsider's document is among those the pass found waiting, every document
behind is among those it listed as wanted. When none waits and every row is there,
no outsider is left and nothing is behind (`SwitchServed`), and that is kept until the
switch is activated or another begins. `ActivatedWhenServed` is that step; the state
after it is `ReadyIsServed` for a transition that is not open.

While a transition is open `ReadyIsServed` promises less, some target, and
`ReadersInv` does not give it: it is silent about the target that is being left.
`ServingInv` adds that what was made stays: what a worker has published and may
still record (`PublishedLasts`), and a target that holds the text of each ready
document and in which nobody is about to write or remove it (`ReadyLasts`). Only
whoever holds the pair's lock changes it, and who is let through to a change under
the lock (`WhoIsLetThrough`) is one of three: the upsert of the document's current
request, so that the document is not ready; the delete of the current request, with
the same consequence; or the clean-up of the running switch, whose pass has seen
every ready document served from the new target, which is another pair. So each step
that turns a lock into a change leaves the ready documents alone (`ServedLasts`), and
a document becomes ready only by a worker whose publication lasts.

The proof does not go through the invariant action by action. `SwitchKeeps` says that any
step within a switch that treats the tables as listed in `SwitchStays`, `DocsStep`,
`RowsStep` and `ClaimsStay` keeps all of it but the parts of the worker that moved;
each action then proves that it is such a step and the six parts of its own worker.
`NewSwitchKeeps` is the other case: a new generation makes everyone an older
reader and everything said of the running one vacuous.

### The services

Each component of `MCServices` has an inductive invariant of its own:

* `InstallInv`: whoever is inside `initialize()` holds the lock; tables and marker
  tell of the database as it was, so that a process that takes over from a dead one
  finds what is left to do.
* `ReadingInv`, `GuideInv`: bytes that reach the pipeline are plain where the
  provider is enabled, fingerprints are of plaintext; what a guide saw as ready is so
  until something changes.
* `PipelineInv`: a page that is done was seen, a page nobody looks at is left alone,
  and at the merge the results collected are those of the images (`PoolInv`). The
  requests are counted page by page (`RequestsAreCounted`): their number is that of
  the pairs of a page and one of its attempts, hence at most pages times attempts.
* `RenderInv`: rows and documents to be rendered are the documents that `--limit`
  leaves, without overlap; nothing is saved before there is a container; containers
  beyond the running one are counted by the kills, the starts that time out and the
  stops that fail (`leaks`), after which nobody cleans up.
* `ArchiveInv`: every entry is missing or recorded, and a record is of an entry that
  was verified and lies on disk.
* `WebInv`: in the cookie and in every request under way, a flow that a tab awaits
  heads for that tab's page (`HeadsRight`), however often others overwrite it.
* `WordInv`: the search goes on behind the beginning of its page (`CursorInv`). What
  `_locate` answers is the first place ahead, or else one on this page or the page
  before (`WhatIsLocated`), so no block is put further back (`NotFarBack`). As long as
  no text was found in another place than its own (`repeated`), that page is one a
  block was drawn on, so a block within reach is not behind it and is put where it is
  drawn; breaks leave no page out (`BreaksInv`).
* `BookInv`: the pages are printed in the order of the sheets and attributed in that
  order (`OrderInv`); the sheets built so far have their units, with the pages that
  are theirs, in order (`UnitsInv`). A page's own sheet is open for it, since each
  later sheet is printed further on: the sheets after it are mapped one to one into
  the pages after it (`OwnerIsOpen`). That no row is lost or moved is an induction
  over the rows of a sheet (`SheetIsSegmented`): the pass is a recursive function,
  which exists up to every row (`PassUnfolds`), and after each row the blocks and
  what is held back are the rows so far, in order (`HasRead`).
* `BenchInv`: the artifacts that `results.json` names are of its manifest, except while
  a run of another one writes over them and after such a run died (`ArtifactsInv`).
  `strayArtifacts` remembers that death; it is forgotten when a run that resumed
  nothing has written its results. A success of the run under way is the artifact on
  disk (`RunRecordsInv`). The scores need no invariant but the types. That some
  engine recalls more than half of a consensus is double counting of pairs of an
  engine and a token (`PairsCounted`, `MajorityRecalled`); that the p95 covers what
  it says is `PercentileRight`. Both go by induction over finite sets, stated as the
  existence of a smallest counterexample (`SmallestSet`, `SmallestNumber`).
* `LoopInv`: every error of a lost database is one that `is_transient_db_error`
  knows, so that preparation and loop wait wherever they meet it; a worker ends for
  Graph's errors only. A pass has documents left only while it is due, and they are
  enabled (`PassIsDue`): one that is cut off, by an outage, a refusal or the end of
  the worker, is begun anew. Every source that changed and is not found is one the
  next pass lists (`ChangesAreListed`). Nothing relates the two delays of the
  configuration, so the delay may come down to its limit; while the storage is
  prepared it does not (`FirstDelayIsKept`, without which the delays could not be
  typed).
* Of the reconciliation `ServicesInv` has the types only. That the item follows its
  source is a liveness property and false with several workers (`stale_permissions`);
  an invariant for one worker would need hypotheses the deployment does not meet.

`ServicesInvariant` puts them together: a step of the whole is, for each component,
a step of its own or none (`StepsOfTheParts`), so each keeps its invariant.

### Left to TLC

* All liveness (`EveryRequestSettles`, `EveryTransitionEnds`,
  `EveryTransitionOfTheDocumentsEnds`, `OutagesAreSurvived`,
  `EveryServiceFinishes`, `ItemsFollowTheirSources`, `PagesTellTheEnd`): out of the
  prover's reach. The safety in one of them is proved: `OutageEndsNoWorker` with
  `LoopInv`.
* `EnhancedByCurrentClaim` of `MCTargets` is the two formulas that
  `EnhancementsAreClaimed` proves, on an instance of `SharePointControl`.
* The bounds and the fairness of the four runs that put models together: the theorems
  are about the same steps without them.

## 6. Not modelled

* Files and formats: the parsing of PPTX, HWP, PDF, DOCX and XLSX bytes, the
  rendering by LibreOffice and rhwp, the column's content budget
  (`publisher.py`) and the HTML (`html_renderer.py`): functions of their input
  without state; where their results matter they are chosen by the environment.
* Pricing, settings forms, configuration, the cost benchmark, the reports of the
  tools: arithmetic and wording.
* Token acquisition, paging of Graph, the external MIP tool and Azure Rights
  Management (given as an environment), the mapping of permissions to ACL entries.
* `--engine` of the benchmark, its commands `setup`, `fetch` and `report` alone, and two
  runs of one tool at a time in one directory.
* Isolation of the database: transactions are atomic. Under READ COMMITTED the
  subquery of `record_success` could see another version than its `UPDATE`.
* `JobQueue` keeps the transition at rest; `PublicationFlow` has the checks of
  `publication_transition_matches` inside a job.
* Tiers in `DocumentPipeline`: `PreparePdf` and `PrepareHwp` look at the pages
  whatever the tier, as the handlers do, although `analysis_tier.py:14` speaks of
  "zero LLM tokens" for the low tier.
* Timeline, files and notes of SharePoint documents: `UploadRecords` follows the
  same code on uploads, where the process writes them in the same order.

What is not claimed, because the code does otherwise; the steps are in the models:

* A run of the benchmark that dies leaves artifacts of its manifest under the names of
  another's `results.json`, and `--resume` takes them over (hwp_parser_benchmark.py:943):
  `_resume_output` does not ask where they came from. `BenchmarkIsTrue` excepts it.
* A text that occurs again in a Word rendering may take the cursor to a later page
  (docx_semantic.py:757), and the blocks behind it with it. Of visuals that are neither
  raster images nor many drawings (libreoffice.py:196) only the page their block is put
  on is looked at.
* A `docker stop` that fails leaves its container (rhwp_render_validation.py:171-177); a
  sweep with `--limit` drops the successes of the documents beyond it; a `results.json`
  cut by a kill ends every later run of the validation.
* A source that Graph refuses ends the worker and hides the documents behind it
  (worker.py:183); a list item without a request id ends every worker that claims its
  job (sharepoint_control.py:314). A comment can miss the
  feedback corpus (worker.py:730), and of two notes at once one is lost
  (database.py:2021).

Smaller hazards of the code without a property here: a RECEIVED event written after
the job it announces has ended; a feedback record whose files are those of a later
version; a tuning comment on a document without page images; the order of
`list_enabled_documents`, where documents behind a refused one wait for a restarted
worker; the setup guide asking with other settings than the worker's snapshot; the
row ceiling of `xlsx_semantic.py`, whose comment speaks of a limit the scores only
make likely; a page break at the end of a Word document on the low tier.

## 7. What is left

The column's content budget (`publisher.py`) against a reference definition over
bounded inputs. Of the hazards above, those without a property.
