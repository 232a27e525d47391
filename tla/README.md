# Formal models of the CAN RAG backend

TLA+ models of this repository, a FastAPI service with PostgreSQL tables, a threaded
import worker and an in-process poller: of what is concurrent or may fail in it, and of
the algorithms between an uploaded document and a cited answer. TLC runs check them on
small instances; for the parts where it matters most, proofs that the TLA+ proof system
checks hold for every value of the constants. Paths below are relative to `src/app/` unless
they start with `docs/` or `tests/`.

## The system

One uvicorn process. Routes are `async def` and call synchronous services; a handler that
never awaits is therefore atomic with respect to other handlers, but not with respect to
the threads: background tasks (Starlette's thread pool) and the `ImportJobPoller`
(`asyncio.to_thread`). Every repository call opens its own connection and is a
transaction of its own, so a handler or a thread is a sequence of transactions that other
threads, a failure or a crash can come between.

### Inventory

| component | state | operations | hard behaviour | what makes it correct |
|---|---|---|---|---|
| import jobs (`domain/import_job.py`, `repositories/import_job_repository.py`, `services/import_job_{service,worker,runner,progress}.py`, `api/v1/import_job_routes.py`) | job rows (status, stage, progress, files, retry_of), file status, KB counters, background tasks, poller's list | create, cancel, retry, run_job, poll_once, progress reports, sinks | poller and background task run one job; validate and write in two transactions; cancelled run goes on; crash loses threads; swallowed sink failures | status machine, one runner, completed means done, counted once, ready means indexed, limit, every job ends |
| idempotency (`repositories/idempotency_repository.py`, `domain/idempotency.py`, `services/import_job_service.py`, `services/web_import_service.py`) | key rows with request hash and response | acquire, complete, replay, conflict, in progress | repeats after a lost answer, a limit, an error or a crash; several processes | one job per key; same answer for the same key; refusals are justified |
| conversations (`services/conversation_service.py`, `repositories/*conversation_repository.py`, `api/conversation_routes.py`) | conversations, messages, feedback, active generations, the service lock | create, update, delete, send, stream, cancel, feedback, knowledge-base binding | awaits inside send and stream; client disconnects; cancel races the end of a stream | at most one generation per conversation, and always eventually free; a cancelled answer is never shown as completed; no message without its conversation |
| uploads and file registration (`services/upload_service.py`, `repositories/upload_repository.py`, `api/v1/upload_routes.py`, `services/web_import_service.py`) | upload sessions, upload objects, file rows, stored bytes | presign, PUT, complete, web import's registration, deletion | two presigns of one name; complete during an import; import of a file being deleted; a call that raises between two stores | what was uploaded is kept under its name; a deleted file stays deleted; what the list shows is so |
| vector store (`services/rag/vector_store.py`, `repositories/kb_data_index_repository.py`) | data and index records (JSON file or PostgreSQL) | upsert, delete, search | unlocked rewrite of one file under one temporary name; delete then insert in separate transactions | what is stored is what was last upserted; the file can be read |
| knowledge base metadata and documents (`services/knowledge_base_service.py`, `repositories/knowledge_base_repository.py`) | metadata file, directory and vector file per name | create, rename, delete, index, delete document, search, hit test, batch delete | one operation over three stores; a search by id that goes on by name | none is lost; the stores match; a search finds its own |
| pictures of Markdown documents (`services/rag/parsing/md_parser.py`, `services/rag/parsing/image_store.py`) | picture files, rows that show them | import, copy of a link, deletion | a picture shared by a copied link; a deletion broken off | pictures shown are there; none is left of a deleted document |
| authentication (`services/auth/`) | refresh store, browsers' cookies | login, refresh, logout, expiry | two tabs with one cookie, lost and overtaken answers | one token per login; what ended stays ended |
| import options (`domain/import_job.py`, `api/schemas/import_job.py`) | configuration column of a job | create, web import, retry, run | defaults, JSON and a retry each leave out what is absent | a job runs with what was asked for |
| parsing (`services/rag/parsing/`) | refusal patterns (one generator per process), saved Markdown | PDF, DOCX and Markdown parsing, page by page conversion | five thresholds; failures midway; shared generator | nothing that was written or read is lost |
| splitting and retrieval (`services/rag/chunker.py`, `services/rag/chunking_service.py`, `services/rag/retrieval_postprocess.py`, `services/citation_sources.py`) | none, and the rows searched | split, index texts, search, merge, number, open a citation | boundaries; rows replaced between two searches | chunks cover the text and keep their place; the best hits are cited; links hold |
| folders, templates, models, users | tables | one or two transactions per handler | several servers; read and write in two transactions | no name twice; an update is lost only to one it overlapped |
| web fetching, model clients | none | HTTP and third-party libraries | they raise | – |
| set-up (`main.py`, `core/`) | application state | wiring, start and stop of the poller | – | – |

Interactions: the create route inserts a job row and submits `run_job`; the poller finds
the same row by its status; both call the worker, which reports through the tracker into
the row, writes chunks through the pipeline into the vector store and marks file and
counters through the sinks. The web import registers a file and calls the same create.
Uploads feed file rows to imports; an import parses the file (perhaps through the vision
model), splits it as its options say, saves its pictures and writes its rows. Conversations
find a knowledge base in the metadata, search its rows and cite them; a deletion goes over
rows, bytes, pictures and metadata one after the other.

## Modules

| module | what it is | checked with |
|---|---|---|
| `ImportProgress` | stages, statuses, their transitions, and `progress_for_stage`, as operators | `MCImportJob` |
| `ImportJob` | the state machine of import jobs | `MCImportJob`, `ImportJob_proofs` |
| `OnceOnly` | what an Idempotency-Key promises (abstract) | |
| `ImportApi` | the creating requests and their keys; implements `OnceOnly` | `MCApi`, `ImportApi_proofs` |
| `Conversation` | the requests that send, stream, cancel and delete, as coroutines of one service object | `MCConversation`, `Conversation_proofs` |
| `KbFiles` | the files of a knowledge base: uploads, web imports, deletions and the runs that read them | `MCKbFiles`, `KbFiles_proofs` |
| `KbStore` | knowledge bases, their directories and vector files, and the searches across them | `MCKbStore`, `KbStore_proofs` |
| `Workspace` | folders, conversations, bound knowledge bases and templates on several servers | `MCKbStore`, `KbStore_proofs` |
| `VectorFile` | the JSON vector file under writers without a lock | `MCIngest`, `Ingest_proofs` |
| `ImportOptions` | import options from the request to the splitter | `MCIngest`, `Ingest_proofs` |
| `PdfParsing` | PDFs converted page by page by a vision model | `MCIngest`, `Ingest_proofs` |
| `Sections` | documents read into sections and split into chunks and index texts | `MCIngest`, `Ingest_proofs` |
| `KbImages` | the pictures of Markdown documents | `MCIngest`, `Ingest_proofs` |
| `Sessions` | logins, refresh tokens and the browsers that hold them | `MCApi`, `Sessions_proofs` |
| `Retrieval` | from rows to hits, citations, sources and links | `MCRag`, `Rag_proofs` |
| `Chunker` | `TextChunker.split` | `MCRag`, `Rag_proofs` |

An `MC` module gives constants for TLC. `MCApi`, `MCKbStore`, `MCIngest` and `MCRag` put several
modules into one run: their first state says which one a behaviour is of, and the others
stay as they began, so nothing is checked of their interaction; the interactions that
matter are inside the modules (imports and deletions in `KbFiles`, in `Retrieval` and in
`KbImages`).

### ImportJob

The state is one knowledge base: the job rows, the file rows' status, the files that have
chunks, what was added to `file_count` (`credit`, split by job so that double counting
shows), the background tasks not started, the poller's list (`snapshot`), the job of a
cancel handler between its read and its update, and per thread a record of what `run_job`
keeps in local variables: program counter, job, file index, the tracker's last progress,
`done_files`, whether `first_error` is set, and the update it holds between the two
transactions of `update_progress`.

| action | code |
|---|---|
| `CreateJob`, `RetryJob` | the handlers down to `ImportJobRepository.create`; only create submits a task |
| `CancelRead`, `CancelWrite` | the two transactions of `ImportJobRepository.cancel` |
| `StartTask`, `PollFetch`, `PollRun`, `Run` | pool thread, `fetch_queued_job_ids`, `poll_once`, the head of `run_job` |
| `Get`, `Refuse`, `Put`, `Skip` | `update_progress`: read and validate, raise, write; the tracker's throttle |
| `MarkFile`, `NextFile`, `ClearIndex`, `StoreIndex`, `FileRaises`, `AddCounts` | the file loop, `upsert_data_index`, whatever raises in `process_file`, the count sink |
| `Crash` | the process ends; threads, tasks and the poller's list are gone, the tables stay |

Abstracted: a parse, chunk, embed or index stage has a first and a last report; the
intermediate ones (pages, batches) are further instances of the same step, and `Skip`
stands for both reasons the tracker drops a report. Fractions are rationals. A database
outage on the job row itself is not modelled (except as a crash); failures of the file
status and count sinks, which the code swallows, are (`SinksMayFail`). The
`t_fact_import_job_file.file_status` column is never updated by the code and is left out.
Keys are `ImportApi`'s subject, so requests here carry none.

`overlap`, `clash` and `exposed` are history variables: the jobs two threads ran at once,
the files two runs worked on at once, and the jobs cancelled while a run held a validated
status update. They change nothing; properties use them to say exactly which races break
what, and each of those races does happen.

### ImportApi and OnceOnly

A request is numbered, has a key or none, and a body; its handler runs on a server, which
serves one at a time, and each of its database calls (`acquire`, count, insert,
`complete`) is a step. A call may raise and a server may die at each step. A client's
repeat is a further request with the same key. The service is run as one process; since
the key table is written for several (`ON CONFLICT DO NOTHING`), `Servers` is a parameter
and the run checks two. A web import hashes the file id drawn for the request, which `Hash`
models by the request's number. `OnceOnly` has three actions, Ask, Execute and Tell;
`KeepsPromise` is the refinement under `Promise`'s mapping.

Not in this model: `auto_import = false` (creates no job), `delete_expired` (nothing calls
it, so keys never expire), the guard in `api/idempotency.py` (tests only).

### Conversation

The service is one object in one event loop, so a step runs from one await to the next:
the service's `asyncio.Lock`, retrieval, the model call, the yields of a stream. Repository
calls do not await and belong to the step they are made in. Requests are numbered, and the
answer a request stores carries its number. The state is each request (what it asks, how
far it has come, what its client was told), `deleted`, each answer's `message` status in
`t_fact_message`, each conversation's messages in the order of `created_at` (`born`), the
`_active_generations` entries (`active`) and the cancel events that are set (`event`).

| action | code |
|---|---|
| `Arrive` | the routes up to the service's lock |
| `Refuse` | the checks of `send_message` and `stream_message` that raise |
| `SendBegin`, `SendGuarded`, `SendRetrieved`, `SendAnswered`, `SendFails` | `send_message`, which holds the lock over its awaits |
| `StreamBegin`, `StreamFinish`, `StreamFails`, `StreamClose` | `stream_message`: up to `message.created`; the last item of the model's stream and the stored status; `OpenAIChatError`; the drop of the entry |
| `Abandon` | the client of a stream disconnects, or an exception nobody handles: the coroutine ends where it is |
| `CancelSettled`, `CancelActive`, `CancelOrphan` | the three outcomes of `cancel_message` |
| `Delete` | `delete_conversation`, which takes no lock |
| `Crash` | the process is restarted: requests, entries and events are gone, the tables stay |

Who holds the lock is not a variable: only a send keeps it over an await, so it is free
when no send is in `retrieve` or `model` (`LockFree`). The deltas between a stream's first
and last item change nothing that the properties see and are left out; the event is looked
at again at the last item, and the status is stored before the next await. The text of
messages, the history window and citations are data. The repository is the PostgreSQL
one. `archived` is a status no code sets, so only `deleted` is modelled.
`CancelIsHonoured` leaves out answers given by the guard: their characters are emitted
without a look at the event, so an acknowledged cancel ends with the answer completed.

### KbFiles

One knowledge base with PostgreSQL tables. A handler is synchronous, so there is one at a
time (`hd`), but each repository call is a transaction of its own and import threads (`th`)
come between two of them. The state is the file rows, the upload sessions with the file and
name each was presigned for, the bytes under each file's storage key, the contents whose
chunks are in the data and index tables, and `file_count`.

| action | code |
|---|---|
| `Presign`, `PresignRaises`, `Put` | `UploadService.presign` (an existing name reuses its file id and moves its sessions), its failure between two writes, the PUT route |
| `CompleteBegin`, `CompleteClear`, `CompletePlaceholder`, `CompleteFinish` | `UploadService.complete`: row, index, placeholder bytes, session |
| `WebWrite`, `WebRegister` | `WebImportService.import_url`: bytes under a free name, then the row |
| `DeleteBegin`, `DeleteBytes`, `DeleteIndex`, `DeleteRow` | `delete_file`: the check of the status, bytes, chunks, row with its sessions |
| `StartRun`, `Mark`, `Resolve`, `Parse`, `Stub`, `ClearIndex`, `StoreData`, `StoreIndex`, `AddCount`, `Raise` | the part of `run_job` that concerns one file |
| `MarkLost`, `HandlerRaises`, `Crash` | a swallowed status write, a database call that raises, the end of the process |

Files are of one kind and the job's own row is `ImportJob`'s subject. Histories: `held`
(deleted while a run had it in hand), `raced` (touched during a run), `dirty` (a PUT no
complete followed) and `torn` (a fault in the middle) say which races break what.

### KbStore and Workspace

`KbStore` is the file-based side: the metadata file (`entries`), the directory and the
vector file of each name's slug. Handlers are atomic against each other, a search runs in
threads beside them, and `Interrupted` ends a handler between two of its calls.
`CreateBegin/Save/Model`, `RenameBegin/Vec/Unlink/Drop/Save`, `DeleteFiles/Dir/Vec/Entry`,
`IndexFile/Vec/Save` and `DropFile/Vec/Save` are the calls of `create_kb`, `update_kb`,
`delete_kb`, `index_document` and `delete_document` that change something;
`SearchFind/Require/Vectors/End` are the steps of a search by id. `Slug` is a parameter,
for it is not injective.

`Workspace` has the PostgreSQL rows of folders, conversations, bound knowledge bases and
templates, and several servers. A request is one action where it is one transaction and
several where it reads in one and writes in another (`MoveBegin`/`MoveEnd`,
`DeleteBegin`/`DeleteEnd`, `UpdateBegin`/`UpdateEnd`); the bind, which writes row after row,
interleaves inside its transaction (`BindBegin`, `BindOff`, `BindOn`, `BindCommit`) under READ
COMMITTED with row locks, waiting and deadlock detection, modelled as PostgreSQL documents
them. `FolderKey` says whether a conversation's folder id is a foreign key, as the migrations
declare it (a deleted folder's conversations lose their id) or not, as a table made by
`ensure_schema` at start-up has it; the proofs are of both. A template's `scope` is left out.

### VectorFile

The directory maps the two names of a knowledge base's file to inodes, and each writer keeps
the inode it opened: `Upsert` or `DeleteFile` loads and changes, `Open` truncates the one
temporary name all share, `Write` writes, `Replace` renames. `ReplaceRaises`, `WriteRaises`
and `Crash` are a temporary file that is gone, a full disk and the end of the process.

### ImportOptions, PdfParsing, Sections

`ImportOptions`: `PostImport`, `PostWeb` and `PostRetry` are the routes with the schema's
validators and `ChunkingConfig`; the row holds what `to_dict` writes; `RunConfig` is what the
runner reads back and splits with.

`PdfParsing`: `ParseBegin` decides between layer and conversion, `ReadPicture`, `ReadPage` and
`Describe` are the model's calls for a page (answers are inputs), `Judge` the look at the whole
document, `ConversionFails` an exception of the model, `Collide` the `ValueError` of a generator
drawn from twice at once. `LayerFails` is a text layer that cannot be read or whose report
raises; `ReportRefused` the `ValueError` of a page's report, which `parse_pdf_with_options` passes
on, while any other exception of a report is a `ConversionFails`, as is a Markdown file that
`Save` cannot write, or only in part. A text is its number of meaningful characters, whether it is noise,
and the refusal patterns it matches; the thresholds are the code's.

`Sections`: a document is a sequence of items, read one per step by the action of its format
(`DocxHeading`, `DocxContent`, `DocxEnd`, `MarkdownHeading`, `MarkdownLine`, `MarkdownEnd`,
`PageRead`, `PagesEnd`), then split (`SplitBlocks`) and indexed (`BuildIndexes`). Sizes are
counted in items; the library's recursive splitter cuts where a chunk is full. Lists put one
after the other (`Joined`) are a recursive function of their number, so that theorems can be
proved of them. The overlap of two chunks of one section is taken as 0 (the default repeats
characters of the end of one at the start of the next; `Chunker` has the overlap of a plain
text), and whether a short line of a DOCX counts as a heading is an input.

### KbImages

An import of a document (`ImportText`) looks at its references one by one (`KeepRef`,
`RepeatRef`, `SaveRef`) and replaces its rows (`ReplaceRows`, `StoreRows`), or raises
(`ImportRaises`). A deletion, of one document or a batch, is the steps `Ask`, `Check` (or
`Refuse`), `Collect` (or `CollectRaises`, which the code swallows), `UnlinkFile`,
`UnlinkPicture` for each, `ClearRows`, `DropRow`, and `DeleteRaises` between any two.

### Sessions

The handlers (`Login`, `Refresh`, `RefreshRefused`, `Logout`) never await and are one step each; what interleaves is the browser's side: `Send`
takes the cookie of that moment, `Deliver` writes the answer's, `Lose` loses the answer.
`Tick` is the clock and `Restart` empties the in-memory store. Passwords and signatures are
taken to be right.

### Retrieval and Chunker

`Retrieval`: an import clears and inserts a file's rows table by table (`Clear`, `StoreData`,
`StoreIndex`); a question (`Ask`) searches the knowledge bases it names one after the other
(`Search`, `SearchFails`), then merges and numbers (`Answer`); a hit test (`HitTest`) searches
one, of which it keeps the files asked for, or all where none is named; a citation's link is
opened later (`Open`). A search without hits goes on in the vector file of earlier versions,
which nothing in the application writes any more: `KbStore` has that search, and knowledge bases
here have none. Scores are inputs. `Postprocess`,
`SegmentIndexes` and `Figures` are the code's pure functions. Selections and sorts are stated
by what they are, the places that are kept in their order (`Ordered`, `Only`), and the two
loops of `postprocess_search_hits` as recursive functions of the number of turns (`Taken`,
`WithImages`), so that theorems can be proved of them.

`Chunker`: one step is one turn of the loop of `TextChunker.split`; a text is its length and its
blank positions.

## Runs

| run | bounds | shows |
|---|---|---|
| `import_jobs` | 1 job of 2 files that may fail, with 1 cancel or 1 crash, or 2 jobs over 1 file with both; limit 1, 1 pool thread and the poller | `CompletedIsDone`, `CountedOnce`, `StatusMachine`, `RetryHasOneRunner`, `ReadyIsIndexed`, `ActiveLimit` |
| `import_live` | 1 job, 1 cancel, failing files, lost sink writes, fair | `EveryJobEnds` |
| `api` | 2 servers, 2 keys, 2 bodies, 1 page, 3 requests, limit 1, 1 fault; or 2 browsers with several tabs, 3 requests, a refresh token lives 2 ticks and an access token 1, the clock stops at 3, 1 restart | `AnsweredIsStored`, `ConflictIsJustified`, `LimitPerServer`, `KeepsPromise`, `TokensAreBounded`, `BrowserInStep`, `EndedStaysEnded` |
| `conv_turns` | 2 conversations, 3 requests, 1 disconnect or crash, fair | `GeneratesAlone`, `TurnsAreWhole`, `CancelIsHonoured`, `AnswerIsFinal`, `ConversationIsFreed` |
| `kb_files` | 2 contents, 1 import thread, 2 names, 2 files, 2 sessions, 2 runs, 1 fault (then with at most 1 session), of these 4 together | `UploadsAreKept`, `DeletedStaysDeleted`, `ShownIsTrue` |
| `kb_store` | 3 names, 2 with one slug, 1 chosen model, 2 knowledge bases, 2 documents, 1 fault; or 2 servers, 2 rows per table, 2 knowledge bases, 2 names, 2 texts, 4 requests, 1 lost connection | `BothTypeOK`, `KbKept`, `StoresMatch`, `FindsItsOwn`, `ServersAgree`, `DeletedStaysDeleted` |
| `ingest` | vector file: 2 writers, 2 files, 4 operations, 1 fault; PDFs: 2 parsers, 1 pattern, 2 pages, 2 parses; options: 3 jobs; sections: documents of up to 4 items with 1 picture, chunks of 2, index texts of 1; pictures: 2 documents of up to 2 references, 2 saved, 2 imports, 1 fault | `IngestTypeOK`, `FileIsKept`, `ConversionKeeps`, `OptionsAreCarriedOut`, `NothingIsLost`, `ChunksKeepPlace`, `PicturesAreThere`, `NoneToSpare` |
| `rag` | 2 knowledge bases, 3 files, 2 documents (text with its picture; pages of pictures), the best 2 of 2 scores, 2 named, 1 import or deletion; or chunks of up to 4 characters of texts of up to 8 | `TypeOK`, `HitsAreBest`, `CitationsHold`, `ChunksCover` |

Several properties are conjunctions of named parts (`UploadsAreKept` is `AckedIsRegistered`,
`NamesAreUnique` and `RegisteredHasBytes`, and so on), each part stated with a comment of its
own in its module. Of the type invariants, all of which are proved, the runs check those of
`kb_store`, `ingest` and `rag`, where a run stands for several specifications.

Why these bounds are enough to be interesting: a job has at most one background task and
the poller is one thread, so one pool thread and the poller already give every overlap of
two runs; two jobs are the least for a retry and for the limit; two files the least for
the second file's restart of the stages; three requests give a first try, a repeat and a
rival. Conversations meet only at the lock: in two, a send in one
keeps the end of a stream in the other waiting, and three requests are a stream cut off by
a restart, a rival and a cancel. Two files and two sessions give two presigns of one name, a
name taken over and a run of a deleted file; four events in all are an upload, its import, a
rival of either and a fault (the run has one import thread; the proofs have any number). Where
a bound is a condition on the steps or the states it is a `CONSTRAINT` or `ACTION_CONSTRAINT`
that the `MC` module defines (`Small`, `FewRaise`); the proofs have none of them. Three names, two of one slug, give a rename into and out of a
shared directory. Four operations of two writers let one writer's rename move the other's
half-written file, and let a third and a fourth find what is left. Two pages give a page
after a failure and a document mixed of good and empty pages; four items a heading, a data
index, text and a picture in any order. Two documents share a picture; three requests are a
login and two tabs that refresh, or one that refreshes while the other logs out, and three ticks
let a refreshed token expire. Files, contents,
servers and the two names of one slug are only compared, and symmetric (`SYMMETRY`, never together
with liveness). The theorems below drop the bounds for what they state.

Runs that must find a violation, each a disagreement between the code and what the
repository says of it (`findings` in `PROJECT.json` quotes the lines):

| run | the disagreement |
|---|---|
| `import_two_files` | a job of two or more files ends failed: the second file's first report steps the stage back |
| `pdf_refusals` | the refusal patterns are a generator that the first checks use up: later refusals of the vision model become the document's text |
| `import_two_runners` | the background task and the poller run one job at once, nothing failing, and the job ends failed |
| `kb_files_deleted` | a deletion and a run cross, and the run brings the file's row and chunks back |

The last two state without exception what a property of a passing run states with one:
`TwoRunnersDoNoHarm` is `CompletedIsDone` and `CountedOnce` of a job that two threads ran,
`DeletedLeavesNothing` is `DeletedStaysDeleted` without `held`. They show that these exceptions
are needed, and their traces are the shortest ways into the races. The same holds of the other
exceptions: the cancel that an update overwrites (`exposed` in `StatusMachine`), the repeated web
import (`ConflictIsJustified`), the entry an abandoned stream leaves (`ConversationIsFreed`),
the rename that a crash cuts in two (`lost` in `KbKept`), the places that pictures take among
the best rows (`HitsAreBest` has no lower bound on what is left), and overlapping rewrites
of the vector file (`suspect` in `StoredIsKept`) are steps of the models, and what they do is
listed at the end.

`CHECK_DEADLOCK FALSE` is set everywhere: with all jobs ended and the bounds spent the
bounded system has nothing left to do.

### Fairness

`import_live` assumes weak fairness of each thread's steps (the
operating system schedules threads and calls return or raise), of starting submitted tasks
(the pool has threads), and of the poller's fetch and run (its loop goes round every five
seconds and catches what a run raises). No fairness is assumed of requests, cancels or
crashes.

`conv_turns` assumes weak fairness of each request's steps: the event loop runs ready
coroutines, `asyncio.Lock` serves its waiters in order (more than weak fairness), and
retrieval and the model call return or raise. `ConversationIsFreed` asks nothing once a
fault happened, because after a disconnect it is false (see below). Nothing makes a request
arrive or a conversation be deleted.

The other specifications state no fairness and the properties checked of them are safety.

## Proofs

For every value of the constants that satisfies the named assumptions (bounds are
naturals; file lists are non-empty sequences of files, as `_normalize_create_request`
ensures; the poller is not a pool thread; servers are finitely many; the marker of an absent vector file is no set of documents and that of an absent entry no metadata; nor is that of an absent option a value; pictures on the server are no keys; overlap is below the chunk size, as the constructor ensures;
files are finitely many and a document is a sequence of pages of pieces and pictures; pictures of
a file are finitely many and no places in its text, sizes of chunks and index texts are positive,
as the schema has them and the defaults are; `RAG_TOP_K`
and the number of knowledge bases a question may name are positive):

| theorem | states | argument |
|---|---|---|
| `ImportJob_proofs!TypeCorrect` | `TypeOK` | inductive as stated; one lemma per action. `ProgressInRange` shows that `progress_for_stage` stays within 0..100 for all its inputs |
| `ImportJob_proofs!RetriedJobsHaveOneRunner` | `RetryHasOneRunner` | strengthened to `RetryInv`: a retried job has no background task and is run by no pool thread, so the only thread left is the poller |
| `ImportJob_proofs!StatusFollowsMachine` | `StatusMachine` | `StatusInv`: outside `overlap` a job has one runner, and the update it holds is legal from the row's status unless a cancel came in between, which puts the job into `exposed` |
| `ImportJob_proofs!ActiveJobsLimited` | `ActiveLimit` | no step but an insert adds an active job outside the two races (from `StatusInv`), and an insert is guarded by the count |
| `ImportJob_proofs!CompletedRowsAreDone`, `JobsAreCountedOnce` | `CompletedIsDone`, `CountedOnce` | `LocalInv` (what a thread keeps in local variables goes with its program counter) and `RowInv`, below |
| `ImportJob_proofs!ReadyFilesAreIndexed` | `ReadyIsIndexed` | `FilesInv`, below, when sinks do not fail |
| `ImportApi_proofs!TypeCorrect` | `TypeOK` | inductive as stated |
| `ImportApi_proofs!AnswersAreStored` | `AnsweredIsStored` | from `KeyInv`: a response once stored is never overwritten, because only the one request that acquired the key completes it |
| `ImportApi_proofs!HandlersKeepPromise` | `KeepsPromise` | `KeyInv` (types, a request past acquire holds its key's row, one holder per key, one job per key); every step is an `OnceOnly` step or a stutter |
| `ImportApi_proofs!ConflictsAreJustified` | `ConflictIsJustified` | `ConflictInv`: a key's row has the hash of a request that came with it, and hashes of equal bodies are equal |
| `ImportApi_proofs!LimitHoldsPerServer` | `LimitPerServer` | `LimitInv`: a server serves one request, and active jobs together with the servers past the count fit below the limit and one for each server but one |
| `Conversation_proofs!TypeCorrect` | `TypeOK` | part of `ConvInv`, below |
| `Conversation_proofs!ConversationsGenerateOnce` | `OneGeneration` | `ConvInv`: one send is past its checks at a time and its conversation has no entry; a running stream is the request of its conversation's entry |
| `Conversation_proofs!CancelsAreHonoured` | `CancelIsHonoured` | `ConvInv`: after an acknowledged cancel the answer is cancelled or failed, or it is streaming with its event set or its stream cut off |
| `Conversation_proofs!AnswersAreFinal` | `AnswerIsFinal` | from `ConvInv`: every write is to an answer not stored yet or streaming |
| `Conversation_proofs!DeletedStaysQuiet` | `DeletedIsQuiet` | `ConvInv` and that a deleted conversation has no entry |
| `Conversation_proofs!GenerationsStayAlone` | `GeneratesAlone` | the two before |
| `Conversation_proofs!TurnsStayWhole` | `TurnsAreWhole` | `Paired` and `Asked`, below |
| `KbFiles_proofs!TypeCorrect` | `TypeOK` | inductive as stated |
| `KbFiles_proofs!FileNamesAreUnique` | `NamesAreUnique` | every insert or rename of a row looks for the name first, in the same transaction or behind the table's constraint |
| `KbFiles_proofs!UploadsAreRegistered` | `AckedIsRegistered` | `FileInv`, below |
| `KbFiles_proofs!DeletionIsFinal` | `DeletedStaysDeleted` | `FileInv`: of a deleted file no session is active, no handler is about to register it, and only a run that held it may write about it |
| `KbFiles_proofs!ImportsEndMarked` | `NeverStuckIndexing` | a file marked indexing has a run that is still to mark it (`IndexingIsRun`) |
| `KbFiles_proofs!FilesHaveBytes` | `RegisteredHasBytes` | a handler writes the bytes before it lets go of the file (`HandlerHasBytes`), and a run writes none |
| `KbFiles_proofs!UploadsStayKept` | `UploadsAreKept` | the three about rows and bytes together |
| `KbFiles_proofs!AvailableFilesAreCurrent` | `AvailableIsCurrent` | `TidyInv`, below |
| `KbFiles_proofs!ReadyFilesAreCounted` | `ReadyIsCounted` | `FinishedAreCounted`: the ready files whose run has added to the count are no more than it |
| `KbFiles_proofs!ListShowsWhatIs` | `ShownIsTrue` | the two before and `ImportsEndMarked` |
| `KbStore_proofs!KbTypesHold`, `KnowledgeBasesAreKept` | `TypeOK`, `KbKept` | `KbInv`, below |
| `KbStore_proofs!StoresFollowTheList` | `StoresMatch` | `SlugInv`, below |
| `KbStore_proofs!SearchesFindTheirOwn` | `FindsItsOwn` | `OwnInv` and `SearchInv`, below |
| `KbStore_proofs!ServersDoAgree`, `DeletionIsFinal` | `ServersAgree`, `DeletedStaysDeleted` | `WorkspaceInv`, below |
| `KbStore_proofs!BothTypesHold` | `BothTypeOK` | both type invariants, for the specification that is either |
| `Ingest_proofs!TypeCorrect`, `LoneOperationsAreKept`, `FileIsJson`, `FileStaysKept` | `TypeOK`, `StoredIsKept`, `BrokenOnlyByOverlap`, `FileIsKept` | `VectorInv`, below |
| `Ingest_proofs!ConversionsKeep` | `ConversionKeeps` | `PdfInv`, below |
| `Ingest_proofs!OptionsStayCarriedOut` | `OptionsAreCarriedOut` | `OptionsInv`, below |
| `Ingest_proofs!NothingGetsLost`, `ChunksStayInPlace` | `NothingIsLost`, `ChunksKeepPlace` | `SectionsInv`, below |
| `Ingest_proofs!PicturesStay`, `NoPictureIsLeft` | `PicturesAreThere`, `NoneToSpare` | `ImagesInv`, below |
| `Ingest_proofs!IngestTypesHold` | `IngestTypeOK` | `PdfInv`, `OptionsInv`, `SectionsInv` and `ImagesInv` |
| `Sessions_proofs!TypeCorrect`, `LoginsHaveOneToken`, `AccessEndsWithLogin`, `TokensStayBounded`, `EndedLoginsStayEnded` | `SessionsTypeOK`, `OneTokenPerLogin`, `AccessEndsSoon`, `TokensAreBounded`, `EndedStaysEnded` | `SessionInv`, below |
| `Sessions_proofs!BrowsersStayInStep` | `BrowserInStep` | `StepInv`, below |
| `Rag_proofs!RequestsAreAnswered` | `RagInv` | inductive, below |
| `Rag_proofs!RetrievalTypeCorrect`, `AnswersAreBest` | `TypeOK`, `HitsAreBest` | `RagInv` and `PostHolds`, below |
| `Rag_proofs!CitationsAreFound` | `CitationsHold` | `RagInv`, `RecordsHold` and that an opened link stays as it was shown (`LinksStay`) |
| `Rag_proofs!SplitTypeCorrect`, `SplitCovers`, `SplitRepeatsNone`, `SplitOverlaps`, `SplitIsACover`, `SplitAdvances` | `SplitTypeOK`, `AllCovered`, `NoneContained`, `NeighboursOverlap`, `ChunksCover`, `Advances` | `SplitInv`, below |

The inductive invariants, and why the properties need them:

- `RowInv` (`ImportJob`): for a job that no two threads ran at once, a run that has not come
  to its count finds nothing credited yet, comes there only after the row was completed or
  failed, and is past its reports when the row says completed; only the last report writes
  progress 100. So completed, done and 100 come together, and the count is added to once.
- `FilesInv` (`ImportJob`): two runs that share a file are known as a clash, so a file outside
  one is in the hands of one run, which marked it indexing and marks it ready only after its
  chunks were stored.
- `Paired`, `Asked` (`Conversation`): the answers in a conversation come right after their
  questions, and a question whose answer is stored right before it; for the question of a send
  that awaits is the last message of its conversation, as the lock lets no other request create
  one meanwhile.
- `FileInv` (`KbFiles`): ids are drawn upwards (`Drawn`), so a new id is no old file's; a
  file has one active session, which has the name of its row (`SessionsAgree`), so a complete
  and a presign cannot disagree; what a handler read before a step still holds at the next
  (`HandlerAgrees`); a run outlives the row of its file only if no upload of it is active
  (`RunsAgree`); nothing is left that could bring a deleted file back (`DeletedIsGone`).
- `TidyInv` (`KbFiles`): a file without a row has no chunks; one that was not raced for has one
  worker at a time (`Solo`); and what is stored of an undisturbed file follows from how far that
  worker has come (`Midway` for a run, `Handled` for a handler): a run has read the bytes that
  are still on disk, and a handler has cleared the chunks before it lets go.
- `KbInv`, `OwnInv` (`KbStore`): between two of its writes a handler finds the entry
  it read still there, or the place it is to take still empty (`HandlerOK`), for nothing else
  writes the metadata; a knowledge base has one entry
  (`OneName`), its chosen model (`ModelKept`) and only documents drawn for it (`OwnInv`), and
  none that was not drawn (`Undrawn`, `DocsDrawn`).
- `SlugInv` (`KbStore`): names of one slug in use at once make it suspect (`Apart`), so does an
  interrupted handler (`Tainted`); the directory of a slug that is not suspect and has no
  knowledge base is absent (`Vacant`), and one that has holds what its entry lists, or what the
  handler's step has made of it (`Stored`).
- `SearchInv` (`KbStore`): a search that nothing crossed still has the name it found, and what
  it read is of its knowledge base.
- `WorkspaceInv` (`Workspace`): what a server is in the midst of concerns rows that were made
  (`AtInv`); a bind alone has switched off, or is still to, every link there was (`BindsAlone`);
  names and links are as the tables' constraints leave them (`FolderInv`, `TemplateInv`,
  `LinkInv`).
- `StepInv` (`Sessions`): an answer or a cookie belongs to the login of its browser
  (`AnswersOwned`, `CookiesOwned`), a lost answer is a clash, and a browser without clash has
  the only token of its login, in the jar or in the one answer on its way (`InStep`).
- `VectorInv` (`VectorFile`): an operation that overlaps no other has the temporary file to
  itself (`Alone`); what any operation is going to write, and what is in the files it may
  move, is right about all files but its own and the suspect ones (`Copies`, `Moved`).
- `PdfInv` (`PdfParsing`): a page that is not bare has brought enough words for the document
  to pass alone (`Tallied`), the refusals in it are ones whose patterns were drawn before it was
  read (`Seen`), it is saved when its last page is in, and what is returned follows from the
  counts of bare pages and of all pages (`Kept`). The several thresholds that judge a page, a
  document and a layer are related by lemmas, over the least pattern not drawn (`LeastOf`).
- `OptionsInv` (`ImportOptions`): each row reads back as the config that was written
  (`RoundTrip`: what is absent is left out and comes back as its default, which is absent too
  wherever it may be), the config was made from the options sent (`MadeFrom`), the job ran with
  it (`Carried`), and a retry repeats an earlier job that has run (`Repeated`).
- `SectionsInv` (`Sections`): what the properties say of chunks is, while the document is read,
  said of blocks. Each block is of one section, with the texts below its heading in their order
  (`BlockUnder`), one block's texts come before the next one's (`InOrder`), and all that is to be
  kept of what was read is in a block or in the section being read (`PartRead`); after reading a
  picture that a text or nothing holds is in a block too (`ReadOK`). What splitting makes of the
  blocks is `ChunksOK`, shown for each of the plans, and rests on what cutting and joining do to
  lists of any length: every text of a list is in exactly one run (`CutHolds`), every element of
  some lists in exactly one place of their join (`JoinedFollows`). Both are inductions over the
  number of items or lists (`StepByStep`), of a set of numbers and not of an operator.
- `ImagesInv` (`KbImages`): rows show, and deletions unlink, only keys that the document saved
  or names (`OwnedBy`, `Handed`); a key that is gone was so of a document without bytes
  (`Unlinked`); and what was saved for an undisturbed document and is on disk is with its
  import, in its rows or in the hands of its deletion (`Accounted`).
- `SessionInv` (`Sessions`): tokens are counted by requests handled (`Counted`), every token
  belongs to a login (`Known`), and access never outlasts the present by more than a lifetime
  (`EndedAndBounded`), which is what is left of it when the login ends.
- `RagInv` (`Retrieval`): `HitsAreBest` and `CitationsHold` speak of one sorted list, in which one
  no longer sees which search a hit came from. `FromTurns` says that there is a map of the hits to
  the searches made so far under which each search kept at most k hits, no row twice, all of its
  knowledge base (`Fit`), either no picture or only pictures without common keys (`Alone`), and no
  text worse than the best it left out; the sort of the answer permutes the map. That a search
  keeps such hits is `PostHolds`, for every list of hits: the first loop has either taken every
  text (`TextsAreTaken`) or put every picture aside (`PicturesAreTaken`), which are inductions over
  its turns, not over data, and a sort returns each element once (`OrderedHolds`: in a finite set
  with a total order exactly one element has n below it). Since an import may replace a file's rows
  between two searches, a hit keeps to rows of documents (`IsRow`) and not to rows that are there
  now; `RecordsHold` says that no two rows of a document have one data id and that its pictures
  come last.
- `SplitInv` (`Chunker`): all chunks lie behind the window (`Behind`), what is before the
  window is covered (`CoveredSoFar`), and the window is already placed as the last chunk's
  neighbour (`Placed`).

Checked by TLC only:

- `EveryJobEnds` and `ConversationIsFreed`: liveness under fairness is out of the prover's
  reach. That the loop of `Chunker` ends is proved as `Advances` (each turn starts further on).
- the four properties that do not hold, of the runs that must find a violation.

## What the code does that one may not expect

Met while modelling. The four runs above show what contradicts the repository's own words; the
properties leave out these and the others by a history variable or a stated exception, so that
they still say something of the rest.

Import jobs and keys:
- The poller and the background task may run one job at once: it ends failed though no file
  failed, and both add to `file_count` (`services/import_job_worker.py:93`;
  `docs/confluence/backend-development-guide.md:207` says a terminal job short-circuits).
- A cancel between validation and write of an update is overwritten
  (`repositories/import_job_repository.py:319`), and the job is active above the limit.
- A job running when the process died is never picked up, nor can it be retried
  (`services/import_job_runner.py:313`; `docs/api/web-import-api.md:33`).
- A request refused by the limit leaves its key in progress for good
  (`services/import_job_service.py:108`); a web import repeated under its key is refused as a
  conflict (`services/web_import_service.py:90`).
- `chunkStrategy` is any string on the import route: a bare "custom" or an unknown name is
  accepted and the job always fails; so does a list of separators with an empty one.
- A retry with only `parsing` resets the chunking to its default, and the other way round.
- A web import with `parsing` but no `chunking` raises after the page was stored and
  registered (`api/v1/web_import_routes.py:86-92`; `docs/api/web-import-api.md` has `parsing` as
  optional).
- `includeHeadings` never has an effect: the pipeline splits without a heading for its blocks.

Conversations and what surrounds them:
- A client that disconnects from a stream leaves the conversation answering that a message is
  running (`services/conversation_service.py:447`).
- Without the foreign key deleting a folder leaves its id in conversations; two binds of a
  conversation without links end with the union; two binds in opposite order deadlock, and one is
  rolled back.
- A search fetches exactly `top_k` rows before pictures are dropped; a hit test filters by file
  after the limit; a knowledge base named twice is cited twice; a link may show another text
  after the file was imported again, for data ids are used again.

Files and knowledge bases:
- A deletion never lowers `file_count` (`services/knowledge_base_service.py:255`;
  `docs/confluence/frontend-api-integration.md:284`).
- A crash between a rename's two metadata writes loses the knowledge base; an import in that
  gap embeds with the default model; a search that crosses a rename may read another's files.
- Two names that differ in punctuation share directory and vector file, so deleting one deletes
  the other's; a knowledge base named "kb" has the root of uploads as its directory.
- Operations on one JSON vector file that overlap lose acknowledged chunks or tear the file; a
  torn file makes every later operation raise until it is removed by hand.
- A picture whose link is copied from an answer into another document is shared and nobody
  counts: deleting either document unlinks it. Pictures of repeated or failed imports stay on
  disk for good.

Parsing:
- The second look at a page's text, in `_convert_page`, accepts even the first refusal; the
  check for a whole document never rejects one of two pages or more; a rejected document's
  Markdown stays saved beside the PDF.
- Two threads that draw from the generator at once raise `ValueError`, which no fallback
  catches; neither does it a refused progress report. A report that does not reach the database
  is taken for a failed conversion, and the text layer is indexed in place of the Markdown.
- An inner heading clears the page of an enhanced PDF's section; by default and by length every
  chunk of a PDF has the first block's page.
- In a DOCX a heading followed by a heading is lost; pictures in headings and in skipped data
  indexes are stored and shown nowhere.

## Plan

Done: import jobs, keys, conversations, files, knowledge bases, the vector file, options,
parsing, sections, pictures, sessions, retrieval, splitting, and the theorems above: every
safety property that a passing run checks is proved for every value of the constants. What could
be added is modelled by nothing yet: PPTX, splitting by separator and by paragraph, feedback.

## Not modelled

- The request-level guard in `api/idempotency.py`: only the tests use it.
- Web fetching and extraction, embedding, chat, vision and reranking clients: HTTP and libraries
  without a state of their own; the models have that they may raise.
- PPTX parsing; reading the bytes of PDF and DOCX files, which is the libraries' part.
- Splitting by separator and by paragraph, whose cuts the library's splitter makes, and where
  within a text it cuts; a picture's link cut in two.
- Message feedback (one upsert that nothing reads), the in-memory conversation repository, the
  guard's patterns and other wording.
- Models and users (read, and written at start-up), configuration, wiring, migrations, scripts.

`PROJECT.json` lists every component with its status and reason, and every hazard with the
properties that watch it.

## Running

```
tlc -workers 2 -config kb_files.cfg MCKbFiles
tlapm KbFiles_proofs.tla
```
