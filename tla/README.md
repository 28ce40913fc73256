# PotatoCS in TLA+

Specifications of PotatoCS, a local-first desktop application for chatting with documents:
a Rust host (Tauri) that owns one Python backend process, which keeps everything in SQLite,
and a React view. This directory models the parts of it where order, failure and
concurrency decide whether the user's data and answers are right: TLA+ modules, TLC
configurations that check them on small instances, and proofs that TLAPS checks for every
instance.

Paths below are relative to the repository; `services/` is
`python/odysseus_desktop_backend/services/`.

- [The system](#the-system)
- [The modules](#the-modules)
- [The runs](#the-runs)
- [The findings](#the-findings)
- [Disagreements without a run](#disagreements-without-a-run)
- [The proofs](#the-proofs)
- [What is abstracted](#what-is-abstracted)
- [How the properties are validated](#how-the-properties-are-validated)
- [Not modelled](#not-modelled)

To check: `tlc -workers 2 -config MCDesktop.cfg MCDesktop`, and likewise for every run of the
table below; `tlapm DataProofs.tla`, and likewise for `ChatJobsProofs`, `DocumentJobsProofs`,
`DesktopProofs`, `SearchProofs`, `PathProofs`, `EvidenceProofs` and `AnsweringProofs`.

## The system

### Processes and threads

1. **The view** (`src/App.tsx` and `src/features/`) sends commands to the host with
   `invoke` and listens to events. Nothing in it survives a reload.
2. **The host** (`src-tauri/src/lib.rs`) starts the backend, passes one JSON-RPC request
   at a time to it over pipes, all under one mutex, and replaces it when it is lost.
3. **The backend** (`python/rpc_server.py`) is one Python process per profile. Its main
   thread reads requests and serves each to the end before it reads the next. One daemon
   thread, the heavy-job worker, runs imports, OCR, searches and chat answers. Each
   benchmark campaign has a thread of its own; a model request may have a watcher thread
   that aborts it.
4. **SQLite** is shared by the threads, each with a connection of its own (and by a backend
   that outlives its replacement). One transaction writes at a time. The turn store opens
   its transactions with `BEGIN IMMEDIATE`; elsewhere a transaction begins with the first
   write, so that a SELECT before it is a step of its own.

### Inventory

Every component, with its state, its operations, whom it meets, what is hard and what would
make it correct. PROJECT.json has the same list with the source files.

| Component | State | Operations | Interacts with | Hard part | Correct when | Modelled |
|---|---|---|---|---|---|---|
| Chat-turn store (`services/chat_turns.py`, `session_service.py`, tables in `storage.py`) | `chat_turns`, `chat_attempts`, messages, the unique index of active attempts | accept, retry, start, request_cancel, commit_answer, finish, reconcile_interrupted, session delete | RPC thread, worker, an old process | any of them at any time, crashes between them | one answer per question, one active attempt per conversation, outcomes final | yes |
| Heavy-job queue (`services/job_service.py`) | job records, order, queue, condition variable, shutdown flag, worker | submit (import batch, OCR, search, chat), cancel, worker loop, prune, shutdown | RPC thread, worker, executors | cancel and shutdown in every gap of the worker | no job lost, legal transitions, bounded, everything settles | yes |
| Chat as a job (`rpc_server.py`, `_run_chat`) | the two above, and the handler in progress | jobs.submit_chat, retry_chat, chat_status, cancel; `_run_chat` | view, store, queue | two-step handlers beside the worker; crash between acceptance and queueing | what the job says and what the conversation holds agree; no attempt blocks its conversation | yes |
| Document import and OCR (`services/document_service.py`, `ocr_service.py`, `DocumentJobExecutor`) | documents rows, pages, chunks, the copied file, staging and deleted flags | import, OCR and reindex, delete, startup repair | worker, RPC thread, RAG | many small transactions, rollback, cancel inside them | staged work is invisible and taken back; listed documents are never lost | partly |
| Retrieval (`services/rag_service.py`, `vector_store.py`, `embedding_service.py`) | chunks and vectors | index, delete by document, search, focus, evidence packet | documents, chat | an answer prepared while documents change | passages are those of their documents and fit the packet | partly |
| Chat answering (`services/chat_service.py`, `answer_evidence.py`, `time_conversion.py`) | the conversation, an earlier conversion | a turn from question to saved answer | worker, RPC thread, retrieval, model | deadline, failed calls, cancelled and direct turns in the history | whole exchanges, qualified answers, calls within the turn | partly |
| Vision and image turns (`chat_service.py`, `vision_service.py`, `florence2_service.py`) | conversation sources, analysis runs | attach, remove, ask, follow up | RPC thread, artifacts, models | models that change between turns, crashes inside one | an answer rests on the image it is about | partly |
| Search runs (`services/search_service.py`, `web_source_store.py`, `document_service.py`) | run rows, messages, web revisions, budgets | run, cancel, finalize, recover | worker, RPC thread, network | several transactions at the end, cancel and crash between them | a run settles, row, answer and cache agree | partly |
| Local discovery and crawl frontier (`services/local_discovery.py`) | frontier, robots rows, source packs | activate, discover, search, bound, sync | search, network | the same URL found in several ways | what is fetched is near what was named, and allowed | partly |
| Network access (`services/search_provider.py`, `web_fetcher.py`) | throttle, budget of a run | provider requests, fetches with redirects | search, several threads | retries and waits of threads that share a throttle | limits hold | partly |
| Benchmark campaigns (`services/campaign_service.py`) | campaign and job rows, `requested_action`, a thread per campaign | start, pause, cancel, resume, retry, recover | RPC thread, its worker | requests racing a worker on its way out; crash | an ended job stays, statuses are true, no job is stranded | partly |
| Desktop supervisor (`src-tauri/src/lib.rs`, `profile_ownership.py`) | the client (`is_shutdown`, `degraded`, `blocked`), processes, the profile lock | startup health, rpc_call with recovery, retry_backend, app_status, shutdown | view, backend, another window | a backend dies after executing; stop unconfirmed | nothing unsafe runs twice; a backend is replaced once it is gone | yes |
| Artifacts and sources (`artifact_service.py`, `source_service.py`) | artifact and analysis rows, files | create, analyse, promote, delete | chat, documents | file and row in two steps | no row without its file | partly |
| Storage and settings (`storage.py`, `settings_service.py`) | settings rows, schema | get, set, migrate | all | little | the schema's constraints hold | partly |
| React views (`App.tsx`, `tauri.ts`) | what is shown | effects and handlers | host | replies and events out of order | shown state is the current one | partly |
| Frontend job polling (`features/jobs`, `features/search`, `features/chat/chatJob.ts`) | the job a panel follows | poll, attach, cancel | queue by RPC | stale replies, lost polls | the panel ends with the job | no |
| Model transport (`services/model_service.py`) | an owned transfer, its watcher | post, abort on cancel or deadline | worker, Ollama | abort racing completion | no thread or socket outlives its request | no |
| Evaluation, reports (`eval_service.py`, `report_service.py`, `visual_evidence_curator.py`) | run rows, generated files | run, compare, report | campaigns | little: synchronous batches | scores are reproducible | no |
| Screen and clipboard capture, legacy import, developer benchmarks and scripts | files | one-off commands | | little | | no |

## The modules

| Module | What it is | Uses |
|---|---|---|
| `Conversation` | abstract: what the application promises about a question | |
| `ChatTurns` | the turn store, one action per transaction | `Conversation` (refinement) |
| `JobContract` | abstract: what a client of the queue may rely on | |
| `JobService` | the queue and its worker, one action per locked block | `JobContract` (refinement) |
| `ChatJobs` | RPC handlers and `_run_chat` over store and queue | `ChatTurns`, `JobService` |
| `DocumentJobs` | jobs, requests and repair on documents | |
| `Supervisor` | the host's client and the processes it starts | |
| `Campaign` | a benchmark campaign, its thread and the requests | |
| `WebCache` | the web pages a Search keeps, and the frontier's statuses | |
| `SearchRun` | a Search from its question to its answer | `WebCache` |
| `SearchText` | the text algorithms of a Search, as operators | `Lists` |
| `EvidencePath` | one page's way from text to cited answer | `SearchText` |
| `Discovery` | how a local Search finds what to fetch | `Lists` |
| `WebAccess` | throttle, robots rows and budgets of what is requested | |
| `Retrieval` | index, search and evidence packets of the user's documents | `Lists` |
| `ImageTurns` | chat about images | `Lists` |
| `TimeConversion` | what a message does to a time conversion, and its instant | `Lists` |
| `Answering` | a text turn from its question to the saved answer | `TimeConversion` |
| `Lists` | what several modules need beside the community modules | |
| `ChatJobsProofs` | theorems about `ChatTurns`, `JobService` and `ChatJobs` | TLAPS |
| `EvidenceProofs` | theorems about `WebAccess`, `ImageTurns` and `Retrieval` | TLAPS |
| `SearchProofs` | theorems about `SearchRun` and `WebCache` | TLAPS |
| `PathProofs` | theorems about `EvidencePath` and `SearchText` | TLAPS |
| `DesktopProofs` | theorems about `Supervisor` and `Campaign` | TLAPS |
| `DocumentJobsProofs`, `AnsweringProofs` | theorems about the module they are named after | TLAPS |
| `DataProofs` | what the proofs need to know of numbers, sequences, sets and recursive functions | TLAPS |
| `MC...` | the instances TLC checks | |

**ChatTurns.** Every operation of `chat_turns.py` is one `BEGIN IMMEDIATE` transaction, so
it is one action; a refusal is the negation of a guard. `turn` and `attempt` are the rows of
the two tables, `answers` the saved assistant messages, `newestUser` what the query for the
latest user message finds, and the partial unique index on active attempts is `~Busy(s)` in
`InsertAttempt`: an insert that would violate it fails with its whole transaction. Any
thread of any process may take any action in any order, so a worker that answers late, or a
backend that survived its own replacement, is included without a variable for it.
`ImplementsConversation` maps the rows to what the user sees of each question.

**JobService.** The variables are the service's: `job` (the records with their
`cancel_event`), `order`, `queue`, `shuttingDown` and the worker. A block under the lock is
one action; what the worker does outside it (looking at the event, building the executor,
executing) is a step of its own. `notify_all` wakes only a waiting worker, so a lost wake-up
would be found. The executor is anything that keeps the protocol of `DocumentJobExecutor`.
`KeepsContract` is refinement of `JobContract`, a single line of jobs.

**ChatJobs** extends both and adds the handler in progress (`rpc`) and the position inside
`_run_chat` (`run`). A handler that changes the queue and the store takes two steps
(`CancelJob` and `CancelAttempt`, `ReadTurn` and `Reconcile`, `SubmitChat` and `Enqueue`)
with the worker's steps and a crash between. `commit_answer` holds the database's write lock
from its tests to its commit: while `run` is at "committing" other writers wait
(`WriterFree`). `Restart` loses the registry and reconciles the store in one step, because
`SidecarApp` reconciles before it serves its first request. `KeepsQueue` states that chat is
an executor as `JobService` assumes one, with the two additions it makes: the loss of the
registry in a crash and a thread that cannot be started.

**DocumentJobs.** A document is its row, pages, live chunks and owned file; each thread's
work has a place, and each place is the gap before one transaction. Rollback is the
executor's: purge for an import, restored status fields for OCR. `shield` is
`cancellation.shield()`.

**Supervisor.** `work` is what holds the mutex, and where in `call_once`, `restart`,
`spawn` or the startup check it stands; `client.next` is a replacement that is not yet in
place. A process takes the profile lock, reads its inbox in order, and may die, hang or
refuse at any point; a stop may fail to be confirmed. The host waits for an answer without
a time limit, as `read_next_rpc_response` does.

**Campaign.** `status` and `action` are the columns of the campaign's row that its thread and
the RPC thread both write, `jobs` the status of its jobs, `thread` where a worker thread is
in `_run_campaign` and `_run_job` and which job it has in hand, `worker` the entry of
`_workers`, `rpc` what a request has left to do. The thread reads `requested_action`, picks a
job and claims it in three steps, and counts the jobs before the transaction that writes the
count (`CountJobs`, `Finalize`): the SELECT of `_refresh_campaign_counts` is outside it. A
retry committed exactly there is lost: the job is queued, the campaign completed, and the
thread that would take the job is on its way out. The history variable `missed` marks this
one case, the two halves of `StatusesAreTrue` except it by name, and without the exception
TLC finds both violated. `wish` and `late` are history too: the user's last word, and the
jobs begun since. `EnsureWorker` is a step after the commit of its request, so that the
thread may end in between. `CampaignSpec` lets any job be retried, as `retry_job` does;
`OfferedSpec` only those the campaign's card offers.

**WebCache** and **SearchRun.** A row of `documents` is one revision of a web page: staged by a
run, kept, deleted; `current` says it is the one to use and `live` that its chunks can be
retrieved, `indexed` that it has any. Storing a new page is three steps, the row, its pages and its
chunks: a failure of the last takes the row back (`IndexFails`), one of the second leaves it staged,
and the run does not know of it (`PagesFail`). `run` is the locals of `SearchService.run` with the place before its next
transaction; `log` is what the database says of each run: its row, the mark on the question,
the answer and its evidence rows. Beside it the user deletes a page in the two transactions of
`rag_service.delete_document` or the conversation, sets the cancel event, or the process dies;
`Restart` is the repair at the start of the next one. Each query of a local round first marks the
kept pages fetched, in a read and a later write (`Prepare`, `Seed`), and then searches the frontier. Model calls, fetches and pages are
counted; which of the other budgets runs out is open.

**SearchText** and **EvidencePath.** `SearchText` translates `passages_for_web_document`,
`build_dossier`, the spans and windows, `verify_evidence_span_selection`,
`dedupe_verified` and `resolve_answer_citations` on texts of four kinds of letters;
`EvidencePath` calls them in the order of `SearchService.run`, with every ranking, every choice
of the model and every answer it may write. Evidence of a first round is what verified, as it is;
only the repair round drops repetitions (`Choose`).

**Discovery.** `known` is `crawl_frontier` as far as depth and kind go. Each query puts the pages that
are kept (`cached`) into the frontier at depth 0 (`seed_cached_documents`), which also lowers the depth
of those that were found as links, and activates the source packs it matches; a round reads robots files for sitemaps, searches the frontier, merges
and bounds what it offers, and fetches: a page gives links, a feed or sitemap gives entries,
each put into the frontier with its depth. Several Searches follow each other; one that ends well
keeps its pages, and the user may delete a kept page, which is then to be fetched again. `ways`
remembers who named what.

**WebAccess.** One provider with threads that share its throttle (`slot`, and `holder` of its
lock) in external mode, or the robots rows, redirects, chunks and budgets of a local run.
`heard` is what the origin really said last; the cached row is compared with it.

**Retrieval.** Indexing, OCR results and deletion are transactions of the RPC thread (`work`);
gathering evidence on the worker (`ask`) reads the index in one step, the pages in another.
A query embedded under one model finds nothing of a document indexed under another. A recognised
page is cut as any other: the windows over its lines that the code indexes in addition
(`_chunk_ocr_page`, `rag_service.py:612-681`) come from the recogniser's list of lines and are left
out, so `IndexIsWhole` speaks of a page's own chunks.

**ImageTurns.** `active` is the session's sources, `runs` the analysis rows, `turn` the request
and how far it is. `Restart` may fall between any two of its transactions and marks what was
running as interrupted; which of the three models work is chosen anew for each turn. The module
takes it that image turns are served on the RPC thread, one at a time. That is so for a question
sent while an image is attached; a text question accepted as a job before the image was attached
may take the image up on the worker, beside the RPC thread. Such a turn is not modelled.

**TimeConversion** and **Answering.** A turn goes through evidence, history, reply, verification
and correction to the saved answer, with `left` of its deadline falling by what each call takes.
`Aside` is a question asked on the other thread while a job's turn is waiting or at work.
Answers carry a conversion's outcome as the message metadata does, and the next turn may
continue it. Recognition of words is left out; what a message says (`Said`) is its input.

**MCEvidence** runs one of EvidencePath, Discovery, WebAccess or Retrieval per behaviour: the
four share no state, and one configuration of them is enough. **MCDesktop** does the same with
Supervisor and Campaign, the two parts with processes and threads of their own.

## The runs

| Run | cfg | Properties | States | Shows |
|---|---|---|---|---|
| turn_store | MCChatTurns | AtMostOneAnswer, RowsAgree, TurnsOnlyAdvance, ImplementsConversation | 487,302 | in whatever order its operations are called, the store keeps one answer per question and one party at work per conversation |
| job_queue | JobService | FinalizeIsLegal, QueueIsWhole, KeepsContract, CancelledInQueueNeverRuns, WorkerDelivers | 171,779 | a cancel or shutdown in every gap loses no job and kills no worker; with only the worker scheduled every job settles |
| chat_jobs | MCChatJobs | OutcomesAgree, AttemptsHaveOneWorker, ReportedCancelIsSettled, KeepsQueue | 270,551 | job and conversation agree through races and crashes |
| chat_liveness | MCChatLiveness | CancelIsFinal, EveryAttemptSettles | 48,208 | a cancel is final and no attempt stays open |
| documents | MCDocumentJobs | CancelLeavesNoTrace, CommittedSurvives, VisibleIsSettled | 477,777 | cancelled work is taken back, listed documents survive |
| desktop | MCDesktop | UnsafeRunsOnce, RestartsAreSafe, StatusesAreTrue, AtMostOneMore, FinishedJobsStay | 1,213,510 | nothing unsafe runs twice, a backend is replaced once it is gone; requests, late threads and crashes neither rerun an ended benchmark job nor strand a waiting one |
| campaign_recovery | CampaignRecovery (module Campaign) | NoJobLeftRunning | violated | the first finding below |
| web_search | MCSearchRun | CacheIsSound, BudgetsHold, RunsAgree | 3,702,699 | cancels, failures, deletions and crashes between the transactions of a Search leave its cache single and usable and its records in agreement |
| search_persistence | SearchPersistence (module MCSearchRun) | KeptWasIndexed | violated | the second finding below |
| evidence | MCEvidence | PageIsCovered, EvidenceIsExact, CitationsResolve, DiscoveryIsBounded, LimitsHold, RobotsObeyed, IndexIsWhole, HitsAreGiven | 2,022,466 | what reaches an answer is what was read, from places that were allowed, within the limits |
| images | MCImageTurns | RowsAreTrue, PayloadIsActive | 3,432,753 | an answer about an image rests on that image, and a model that sees is sent each active image once |
| answering | MCAnswering | HistoryIsWhole, AnswersAreQualified, CallsFitTheTurn, ConversionsAreTheUsers | 3,300,217 | whole exchanges, qualified answers, calls within the turn, conversions of what the user said |

Type invariants are conjuncts of a property of their run (`RowsAgree`, `QueueIsWhole`,
`OutcomesAgree`, `CacheIsSound` and so on) or of the inductive invariant that is proved.

### Bounds, and why they are enough

- **turn_store**: two conversations, so that "per session" differs from "overall"; two
  questions and three attempts, so that a question can be retried, superseded, or both; one
  document, so that an original can be missing. Keys are as many as attempts: each insert
  needs a new one.
- **job_queue**: three jobs for a queue of two and one retained outcome: the queue fills, a
  batch is refused as a whole, a job is in hand while two wait, outcomes are forgotten.
  The code's 32 and 100 (`MAX_QUEUED_JOBS`, `MAX_RETAINED_TERMINAL_JOBS`) differ from these
  in size only. One document, so that two jobs compete for it. Its safety properties were
  also checked, outside the list, with four jobs and two retained outcomes: no error in
  663,521 states.
- **chat_jobs**: one conversation, two questions, three attempts and jobs: an attempt can be
  retried while the job of the one before is queued, in hand or finished. Two conversations
  were also checked, outside the list, with no error in 921,086 states.
- **documents**: one document, because no transaction touches the rows of two; both threads
  on it is the interesting case.
- **desktop**, supervisor: three processes (the first, a replacement, one more for a user's retry),
  one safe and one unsafe request. Each request is made once: the view does not resend.
- **desktop**, campaign: three jobs, so that one has ended, one is in hand and one waits; two names for
  threads, so that a second could start beside the first. `MaxLate` caps the count of late
  jobs at two, one more than is allowed.
- **web_search**: one run in either mode over a page, a page it links to and a feed that lists
  it; the page changes its text once, so that a revision is superseded. Three rows hold the
  old revision, the new one and another page; ids are used again only after a purge. Call budgets 4 and 5 (the code allows 3 to 5) end before and
  after the repair round; two fetches and two pages are met by two seeds and one link. A
  page kept by an earlier Search may be there at the start, and beside it a later text of it that an
  earlier Search could not write the pages of. A failing purge, after a failure, is not modelled.
- **search_persistence**: one page, one row beside it and two Searches, the least in which the second finds
  what the first one left.
- **evidence**, page: texts of at most five letters of four kinds (a word's, a blank, a line
  end, a sentence end), passages of at most four with an overlap of one, a dossier of two passages and five
  letters; two spans and two selections per round; a window that is empty or has room. A window is
  cut, backs up, overlaps and is trimmed within these.
- **evidence**, discovery: three rounds, in one Search with a repair or in several, with a page that
  may have been kept before and may be deleted, and with three packs (a page; a feed called for by a
  technical word; a page and a private address), six URLs, depth one, robots files of up to
  four lines (in behaviours that begin with a kept page, only sitemap lines), two results per query, three fetches.
- **evidence**, access: two queries, an interval of two, one retry, waits of 1 and 4 with a limit
  of 3; responses of two units and three in all; redirects, and rows that grow old in six ticks.
- **evidence**, retrieval: a Markdown document and a scan, each with two contents, two models that
  are alike (symmetry), chunks of four letters with an overlap of one, four hits of a focus, a
  packet of two snippets or six letters: pages fit whole, fit in part, and do not fit.
- **images**: two images that are alike (symmetry), two questions of one session, one analysis
  that belongs to no question: a follow-up, a repetition, a removal and a crash each find an
  earlier row to use wrongly.
- **answering**: three questions, so that one can be cancelled or unanswered, one asked beside it
  and one asked after; a turn of three ticks, verification of two; days of three hours with one
  zone set back, one set forward and two fixed, so that an hour comes twice, or never.
- Ids are never reused otherwise, so behaviours end when they run out; runs in which that is not a
  mistake have `CHECK_DEADLOCK FALSE` (the store, the queue, which may also be shut down,
  and the four runs about Search, evidence, images and answering, whose inputs end). The chat,
  document and desktop runs check for deadlock; in the last the supervisor may rest, since it may give
  up at startup, and a campaign may not.

### Fairness, and why the code justifies it

- `JobSpec`: weak fairness of the worker. It is a thread that nothing blocks for ever:
  every stage of its work has a timeout. Clients are not assumed to do anything.
- `ChatSpec`: weak fairness of the worker and of a handler that has begun (the RPC thread
  serves each request to its end), and strong fairness of the status request of a turn whose
  outcome is not confirmed. The view asks for exactly those turns again and again
  (`App.tsx:332-336`, `1248-1276`), and requests are served in order, so that one is not
  overtaken for ever; it is only enabled when the thread is free, which is why the fairness
  is strong.
- The other specifications state safety only and assume no fairness.

## The findings

**campaign_recovery.** `recover_interrupted_campaigns` selects campaigns in status running
(`campaign_service.py:373`). A retry sets the campaign to queued while its thread runs
another job; a crash then leaves that job running, a status that neither `_next_job` nor
`resume` takes. `RELEASE_NOTES.md:269-271` promises "pause, cancel, retry, and
interrupted-campaign resume". TLC finds the behaviour.

**search_persistence.** The row of a new page is committed (`web_source_store.py:119-141`) before its
pages are written (`:153-163`), and only what comes after is inside the `try` that takes the row back
(`:164-168`). When writing the pages fails, the row stays staged, and the run has not seen its id
(`search_service.py:1157-1158`), so that its rollback leaves it alone. Until the next start a Search that
finds the same text takes the row for a hit (the SELECT, `:62-71`, does not look at `is_staging`) and
promotes it: a page that is current and has no chunks, and that no Search indexes while its text stays the same.
`docs/search-v1-local-discovery.md:233-234` promises "Fetch/extraction/persistence failures are not promoted."
`CacheIsSound` says what does hold: between Searches nothing is staged but such a row, and a row
without chunks is never retrieved.

## Disagreements without a run

The models reach these, or were built with them in mind; each is a statement of the repository
that the code does not keep, or an outcome a reader would not expect. None has a run of its
own. Where a property would fail because of one of them, the property is stated so that it
says what does hold.

Documents and the host:

- The job learns its document only when `import_document` returns (`job_service.py:576`). When
  extraction raises inside it, the staged row and the file copy stay until the next start;
  `V04_ESSENTIAL_SEMANTICS.md:46` defines failed as "Work stopped on error; rollback complete".
- The startup repair resets `ocr_status` 'running' only (`document_service.py:556`). A crash
  between `mark_ocr_ready` and `mark_ocr_indexed` leaves 'indexing' for ever, against the
  docstring's "reset stuck OCR" (`:537`).
- `BackendClient::spawn` (`lib.rs:225`) drops the handle of a replacement whose health check
  failed and whose stop could not be confirmed. The next user retry starts another beside the
  lost one, against `lib.rs:628`; the profile lock still keeps it from the profile's data.
- The readiness check reads the status first and shows it last (`App.tsx:607-622`): a backend
  that its own requests brought back is shown as degraded, against "banner clears without
  clicking Retry" (`V031_DEGRADED_UI_SMOKE.md:57-58`).
- A crash between the two transactions of `delete_document` (`rag_service.py:164-168`) leaves a
  document marked indexed without chunks.

Search:

- A URL whose copy is deleted while a Search fetches it again is made reacquirable first and
  marked fetched afterwards (`local_discovery.py:785`, `:799`); nothing fetches it again, against
  `document_service.py:623` and `docs/search-v1-local-discovery.md:246-249`.
- A first round that shows one sentence in two overlapping passages may cite it twice, as E1 and E2:
  `dedupe_verified` is called for the repair round only (`search_service.py:445`, `:521`).
  `EvidenceIsExact` allows exactly this repetition.
- Revisions promoted by a run stay although the run fails after it (`docs/search-v0.md:170-171`).
- A crash between the run's row and the mark on its question leaves the mark at running.
- A local follow-up link counts a fetch attempt beyond `max_fetches`; a request that raises does not
  count its bytes (`docs/search-v1-local-discovery.md:103-107`).
- The index's `sync` tests for a cancel inside a write transaction (`cancellation.py:40` says
  never).
- `SourcePackStore.activate` does not catch `FetchBlockedError`: one seed at a private address
  ends every Search that matches its pack (`docs/search-v1-local-discovery.md:199-200`). The
  model's third pack has one.
- `robots_allows` keeps the answer of the page that asked together with the file
  (`local_discovery.py:1283`, `docs/search-v1-local-discovery.md:121-122`).
- The frontier search applies its LIMIT before the filter by packs, so that rows of other packs
  can hide eligible ones. A sentence that stands twice in a passage does not verify.

Images:

- The comment at `chat_service.py:1571` says a row tells whether the image was sent;
  `_clone_context_analysis` and `_persist_multimodal_synthesis` (`:1655-1666`) record the route's
  vision model though nothing looked, and rows without synthesis deny a request that was made.
- `_recover_multimodal_turn` (852-912) may return the answer of a later turn.
- A follow-up is always about the first active image.
- A crash during synthesis leaves a completed analysis and an unanswered question.

Answering and retrieval:

- A limitation reply about poor OCR may be replaced by the model's correction, and the OCR guard
  (1141-1368) rewrites an answer after its verification has passed.
- An empty `{}` from the verifier counts as passed.
- A document question with ready documents and nothing found is answered without evidence.
- Direct turns never carry a notice and always take the correction; the promise of one
  (`model_service.py:42-46`) is about jobs.
- With the embedding model down a query falls back to lexical vectors and then finds nothing of a
  document indexed under the model.
- An empty list of allowed documents makes the OCR search look at every scan
  (`rag_service.py:725-735`, `902-911`).

## The proofs

The proof modules extend the component's module and assume only its named assumptions on the
constants: ids are distinct from the null value, limits are natural numbers or positive, attempts
and URLs are finitely many (`ChatAssumption`, `WebAssumption`), a campaign has a job
(`CampaignAssumption`), a Search may make three to five calls, which is what
`SearchBudget.from_database` clamps its setting to (`SearchAssumption`), a chunk is longer than the
overlap (`RetrievalAssumption`; in the code a chunk has up to 900 characters, overlaps the next by
120, and ends more than 200 after its beginning unless it is the last), the offsets of zones are
numbers (`ConversionAssumption`), and a message says what `_parse_request` and `_parse_reply` can read
from one (`ContentsAssumption`). TLC evaluates them in the run of each module. Every theorem
holds for any number of sessions, jobs, documents, pages, images, processes, requests and threads.
The invariant of each module was first checked by TLC.

**DataProofs.** The models compute with sequences, minima and recursive functions; this
module proves of these what the others cite. Two facts are behind most of it. A recursive function
`f[n \in 0..k] == IF n = 0 THEN a ELSE g(f[n - 1])` exists, because there are graphs of it on every
initial segment, which agree (`RecursionExists`, `KeepingExists`); and what holds of 0
and passes from n to n + 1 holds of every number, because there is no least counterexample
(`LeastElement`, `UpFromZero`, `UpFromBelow`). The library states such facts for an operator parameter,
which none of the provers can instantiate, so here they are stated with a set of numbers in its place.

**ChatJobsProofs, the store.** The inductive invariant is
`StoreInv = StoreTypeOK /\ RowsFilled /\ NoOrphanRows /\ AnswerRowsAgree /\ OneActivePerSession`.
`AtMostOneAnswer` follows from `AnswerRowsAgree` alone, but that is not inductive: a commit
must know that the attempt's turn exists (`NoOrphanRows`) and that an absent row holds
nothing (`RowsFilled`), and the index is what keeps a retry from adding a second active
attempt. `CurrentIsLatest` needs `Numbered`, that attempts of a turn are numbered one to
their count, which is why attempts must be finite. From these the action properties
follow step by step, and so does the refinement: each action maps to one of
`Conversation` or to a stutter (`StoreImplements`).

**ChatJobsProofs, the queue.** The inductive invariant is
`JobInv = JobTypeOK /\ WorkerHolds /\ CancelShown /\ StageShown /\ FinalizeIsLegal /\ LineEndsOrder /\ LineIsOngoing`.
`FinalizeIsLegal` needs to know, at each place of the worker, in which states its job may be
(`StageShown`) and that a set event shows as cancel_requested (`CancelShown`): that is what
makes "cancelled" legal after the event was seen without the lock. No job is lost because of
`LineIsOngoing` and the fact that the line is the end of `order`, which has no duplicates
(`LineEndsOrder`). The limits of registry and queue follow from `Recorded`, that `order` names
each record once, and from what pruning takes away. `CancelledInQueueNeverRuns` needs `Dismissed`: a job
cancelled in the queue has its event set wherever it waits, and the worker that holds it stands before
its test of the event or after the outcome. The refinement maps the worker's private steps to
stutters (`ServiceImplements`).

**ChatJobsProofs, chat as a job.** `ChatInv = StoreInv /\ Numbered /\ JobInv /\ ThreadsAgree`: the invariants of
the two components and what ties them, namely which attempt the job in hand works on, what the
handler in progress has read and may still believe, and where `_run_chat` stands beside the
attempt's row. Each action of the composition is a step of the store or leaves it alone
(`ChatUsesTheStore`), and a step of the queue but for the loss of the registry and the thread that
does not start (`ChatKeepsQueue`), so that the store's theorems carry over. `CancelIsFinal`
needs `Barred`: a cancel that was set before the commit's test stays in its way.

**DocumentJobsProofs.** `DocInv` says what a job's document is at each place of the job:
`ImportStage` for an import (a file, then a hidden row, whose status tells whether there is text, whose
chunks are the pages' once they are in), `OcrStage` for OCR (alone on its document, it has written
nothing but status fields for as long as it can be cancelled; from `mark_ocr_ready` on it is
shielded). Both are needed: the end of a rollback says nothing by itself of what was there before it.
`Moved` is the core of the argument: a step of one thread leaves the other's work fitting its document,
which may be the same one, because a request only starts on a listed document, and a job whose
document somebody else works on is no longer `alone`.

**DesktopProofs, campaigns.** The inductive invariant `CampaignInv` adds to the checked properties what
makes them last: only the registered thread is alive (`OneThread`); a job about to be claimed
still waits and one in hand has not ended (`InHand`), which is why no thread touches an ended
job; what a thread has counted is still so (`CountIsTrue`), a missed retry excepted; when the
campaign is over, the thread is at its start or past its last write (`OverIsIdle`); a thread
past its last write leaves a status to go on from (`WaitingIsOffered`, stronger than
`ResumeIsOffered` by threads on their way out); and between a pause or cancel and the
thread's next look the request is still in the row (`StopIsSeen`).

**DesktopProofs, the supervisor.** `HostInv` says what the work under the mutex may rely on: each place of the
work has a process to speak to (`WorkPlaced`), what is replaced has been stopped, and neither a call nor
the startup stops a blocked backend (`StoppedBefore`), only a safe call goes on after its first attempt
(`OnlySafeGoOn`), and what a backend has executed is the first request of its inbox
(`FirstExecuted`). `RestartsAreSafe` follows from these. `UnsafeRunsOnce` needs `InOnePlace` for each
unsafe request: it is still to be sent, or in one inbox, or executed once.

**SearchProofs.** `SearchInv` says of the cache what makes `CacheIsSound` last: of a page's revisions in
use one is current, no two have the same text, and what can be retrieved is current and indexed (`RowsSound`); what a
run has in hand is stored where it was seen, and what is staged with its chunks is its own to promote or
take back: what is staged without them is being stored, or was left by a failure. That one revision stays current when a run promotes another needs both: what it promotes
was staged by itself, and what it replaces is of the same page. For `BudgetsHold` it says at
each place how many calls are left to pay for (`CallsFunded`: the synthesis is paid for before the
repair round is granted) and how many fetches (`FetchesFunded`), and for the cache of a local run that a
page that was tried is seen, in hand or barred (`TriedOnce`), which is why none is fetched twice. For
`RunsAgree` it follows row, messages and evidence through each of the transactions at the end
(`Told`, `Telling`), with a crash or a deletion after each.

**PathProofs.** Half of it is about `SearchText`, whose loops are recursive functions: each is first shown
to be what its recursion says, then what it gives follows by induction. A window of a page ends past its
beginning (`WindowEndIs`) and the next one begins in it or right behind it (`LeftNextIs`), so that the
windows leave out nothing, nor do the passages but for blanks (`PassagesAre`). A passage joins the dossier whole or cut, and either
way ends in something to read (`PassageAdded`). The spans of a passage lie in it, and those of
a dossier follow its order (`SpansAre`); that is why the spans the window packs, whole passages or the head of the first, are
the first ones of the list, with `Groups` of the head the head of `Groups` (`GroupsOfFirst`), and cost no more than the
room (`WindowFits`). A slice of a slice is a slice of the page, so that a verified quote stands where its item
says (`VerifyIs`); dropping repetitions and trimming the tail keep that, and the numbers (`DedupeIs`, `FittedIs`).
`PathInv` strings these together: dossier and spans are of the page, the places of the spans in the prompt are among
the places `shown`, and evidence of an earlier round quotes places of that set, which only grows. That is what
`EvidenceIsExact` alone does not say: a second round replaces the spans that the first round's evidence came from.
`Counted` is for repetitions: in a first round each item was made of a span of its own (`Apart`, from
`VerifyIs` and the injectivity of a selection), and what a second round answers from cites no place twice
(`Single`, from `DedupeIs`).

The proof found one thing in the model: with less than no room left, the most passages that fit was the maximum of an
empty set, which TLA+ leaves open, where `pack_evidence_window` packs nothing. `PackWindow` now says so.

**EvidenceProofs, access.** `AccessInv` adds to the two properties: who waits has the throttle's lock,
and waits at least until the slot booked before (`ThrottleHeld`), the requests sent are the tries counted
(`TriesCounted`), a robots row that denies nothing says what
was last heard from its origin (`RowsHeard`),
and what a request may still read is funded by the run's total (`RequestFunded`).

**EvidenceProofs, images.** `ImgInv` follows the row of a turn while it is served: it exists and is no
answer's yet (`TurnHasRow`); before the look it holds nothing and the plan shows the image
to no model but the one it names (`LooksBeforeItSees`); and after it what the turn is going to record of
the image sent is already so (`SaysWhatItSent`). `RowsAreTrue` alone is not inductive: an answer's row
gets its claim from the route of its turn, chosen two calls earlier.

**EvidenceProofs, index.** `RagInv` is short, because the index is a function of the pages: what an index run
has in hand are the drafts of the document's pages as they are (`RunFits`), and what an indexed
document has are those drafts under its model (`IndexFits`). That a page is not replaced under a run
is in the first: only a listed scan is recognised again, on the thread that would have to embed it.
`IndexIsWhole` then is a fact about text. A chunk is a stretch of its page
without the blanks at its ends (`StripIs`); it ends more than `MinChunk` after its beginning unless it ends the
page, so that the next one begins later than it did (`CutsAre`); and whatever stands together up to the overlap
is inside the one or, starting behind its end less the overlap, in what is left (`PiecesKept`). By
induction on what is left of the text, that covers the page (`ChunksOfText`).

**AnsweringProofs.** `AnsInv` follows the numbers of a job's turn: what is left of it is never
negative, no call is allowed more, and from `BeginVerification` on at least `floor` of it is left, which
is what was there at the beginning of the verification less its budget (`Budget`). `CallsFitTheTurn`
follows for all allowances, those larger than the turn and zero among them (`AllowanceAssumption`).
`TextInv` follows the text beside its report: nothing has replaced the draft before the turn is ready to
be saved, and findings come only from a verification that was asked for; `AnswersAreQualified` speaks
of the saved answer, when the turn is already gone.
`TalkInv` is for `HistoryIsWhole`: an answer names a question before it (`TalkFits`), the questions of
the turn and of the job are there and not answered yet (`QuestionsOpen`), and what has been put together for
the model is whole, whatever is said on the other thread meanwhile (`Whole`).

For `ConversionsAreTheUsers`, `Owes` says of each outcome in the conversation what `FieldsOwned` says of
its fields, and the same of the zone that waits for its role, which is why that is inductive. A message
that goes on with a conversion finds this in the clarification just before it (`Previous`), and adds to it:
what a message does to a field is open it, leave it because the message says the same or
nothing of it, or set it to something the message says (`Owned`, by induction along its
attempts: `AppliedIsOwned`, `AssignZonesIs`); a zone it says may have waited since an earlier
message (`ReadFrom`). The chain of questions a conversion goes back over stays what it was when the
conversation grows (`ChainsGrow`). `InstantsAreReal` is arithmetic: where nothing overflows, the two
readings of a wall time are the instants at which the clocks show it and there is no third
(`CandidatesAre`), for any change of any offsets; one that is answered was the only one or the one chosen
(`FinishIs`).

Model-checked only: liveness (`WorkerDelivers`, `EveryAttemptSettles`), which this prover does
not do; `DiscoveryIsBounded` and `HitsAreGiven`.

## What is abstracted

- **Text.** Messages, titles, prompts, file names and metadata do not occur; a text is there
  where a property is about it (SearchText, Retrieval), as a short sequence of few kinds of
  letters. Scores and rankings are any order; what a model replies is anything it may reply.
- **Time.** Deadlines are nondeterministic, except in WebAccess and Answering, where ticks are
  counted. The order of messages is the order of insertion, not of the wall clock: the query
  for the latest question (`chat_turns.py:361`) orders by `created_at` first, so a clock set back between two
  messages is left out.
- **SQLite** is as its transactions promise; the database itself does not fail, except where
  a failure is named (the executor's factory, a thread that does not start).
- **ChatTurns** treats a deleted row's UUID as never issued again.
- **DocumentJobs** looks at one test of the cancel event together with the transaction after
  it, since nothing can be told between them; `replace_pages` with `mark_low_text`, and the
  tables OCR writes together, are one step for the same reason. The ghost fields `before`
  and `alone` of the worker serve `CancelLeavesNoTrace`. Left out: synchronous imports,
  images, promotion, message attachments. OCR jobs on listed documents are offered by the
  service (`submit_ocr`), though no request offers them today; the OCR and reindex requests
  of the view run on the RPC thread.
- **ChatJobs** leaves the documents of a turn, and messages without a turn, to `ChatTurns`.
- **Supervisor** lets a process that closes its pipes exit later, with or without giving back
  the lock first (a clean end does, a crash does at the exit). The request "app.shutdown" is
  not in the inbox; its effect, that a process leaves, may happen at any time. A request that
  fails to be read leaves the process running and its inbox as it is.
- **Campaign** leaves out plans and estimates, the report columns, deaths of a thread on a
  locked database, and the cancel of a campaign that was just deleted, which raises. Campaigns
  share no rows, so there is one; after a deletion the next takes its place once the threads
  of the old one have ended.
- **SearchRun** leaves out the words of queries and the limits that are measured rather than
  counted, each of which may end a stage. The heading of each other module says what it
  leaves out.

## How the properties are validated

For every property of a passing run there is a definition `Name_Variant` beside the
definition `Name` that models the code: the same operation with one plausible mistake (a
dropped guard, a missing reset, a swapped order). Putting it in the place of `Name` makes
TLC find that property violated in that run; PROJECT.json lists the pairs under "mutants".
No specification uses the variants. A property with several named parts is one
property of the run; its parts are named where they are defined.

## Not modelled

- **Frontend job polling**: timers and requests of one panel at a time over `JobContract`; what
  they show is the view's, and the chat reconciliation, which the outcome of a turn depends on,
  is in `ChatJobs`.
- **Model transport**: one owned transfer per call; its ends (answer, error, timeout, abort) are
  the nondeterministic ends of calls in `Answering`, `SearchRun`, `ImageTurns` and `ChatJobs`.
- **Evaluation, reports and the evidence curator**: sequential scoring and rendering with no
  state between runs but the row that `Campaign` has.
- **Capture commands, legacy import, schema migration, settings**: stateless, or run once.
- **Developer benchmarks and scripts**: run by hand outside the application.
- Of the modelled components: query planning and ranking of Search, its results-only wording;
  parsing of HTML and XML below tags and entries; structured recovery of OCR values and the style
  of prompts in answering; promotion and retention of artifacts; plans and reports of campaigns.

What is left worth doing: the refinement of `Retrieval`'s index by `DocumentJobs`' many
transactions (both model the index run, at different grain), proofs of `HitsAreGiven` and
`DiscoveryIsBounded`, `ModelTransport` as a module with its watcher thread, and a frontend panel over
`JobContract` for lost and stale polls.
