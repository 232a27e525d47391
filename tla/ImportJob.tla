----------------------------- MODULE ImportJob ------------------------------
(***************************************************************************)
(* Import jobs of one knowledge base: the job table, the request handlers  *)
(* that create, cancel and retry jobs, the threads that run them           *)
(* (ImportJobWorker.run_job started by BackgroundTasks), the ImportJobPoller*)
(* thread, and the crash and restart of the server process.                *)
(*                                                                         *)
(* Every repository call of the code is a database transaction of its own. *)
(* ImportJobRepository.update_progress is two of them: `get' reads the row *)
(* and validates the change, `put' writes it with WHERE id = ... only.     *)
(* A handler is an `async def' that never awaits between its database      *)
(* calls, so two handlers never interleave in the one server process; the  *)
(* threads interleave with them and with each other.                       *)
(*                                                                         *)
(* Job ids are 1 .. NumJobs in the order of created_at.                    *)
(***************************************************************************)
EXTENDS Integers, Sequences, FiniteSets, ImportProgress

CONSTANTS
  NumJobs,      \* bound: jobs ever created in the knowledge base
  Files,        \* file ids of the knowledge base
  FileLists,    \* the file lists a request may name
  MaxActive,    \* MAX_ACTIVE_IMPORTS_PER_KB
  Threads,      \* threads of the pool that runs background tasks
  Poller,       \* the thread of ImportJobPoller.poll_once
  MaxCancels,   \* bound: cancel requests
  MaxCrashes,   \* bound: crashes of the server process
  FilesMayFail, \* whether resolving, parsing, embedding or storing may raise
  SinksMayFail  \* whether a write of the file status or of the counts may be lost

ASSUME NumJobsAssumption == NumJobs \in Nat
ASSUME FileListsAssumption == FileLists \subseteq Seq(Files) \ {<<>>}
ASSUME MaxActiveAssumption == MaxActive \in Nat
ASSUME PollerAssumption == Poller \notin Threads
ASSUME BoundsAssumption == MaxCancels \in Nat /\ MaxCrashes \in Nat
ASSUME MayFailAssumption == FilesMayFail \in BOOLEAN /\ SinksMayFail \in BOOLEAN

Jobs == 1 .. NumJobs
Workers == Threads \cup {Poller}
NoJob == 0

VARIABLES
  created,      \* number of jobs created so far
  status,       \* t_fact_import_job.status of each job
  stage,        \* t_fact_import_job.stage
  progress,     \* t_fact_import_job.progress
  files,        \* the file_ids of each job
  retryOf,      \* retry_of, NoJob for a job created by the create handler
  fileStatus,   \* t_dim_kb_file.status of each file
  indexed,      \* files whose chunks are in the vector store
  credit,       \* what each job's runs added to t_dim_knowledge_base.file_count
  tasks,        \* background tasks not yet started, per job
  snapshot,     \* jobs the poller fetched and has not run yet
  canceling,    \* job of the cancel handler between its read and its update
  th,           \* what each thread is doing
  cancels, crashes,   \* spent bounds
  overlap,      \* history: jobs that two threads have run at the same time
  clash,        \* history: files that two runs have worked on at the same time
  exposed       \* history: jobs cancelled while a run held a validated status
                \* update that it had not written yet

jobVars == <<created, files, retryOf>>
rowVars == <<status, stage, progress>>
kbVars == <<fileStatus, indexed, credit>>
queueVars == <<tasks, snapshot>>
cancelVars == <<canceling, cancels, exposed>>
historyVars == <<overlap, clash>>
vars == <<jobVars, rowVars, kbVars, queueVars, cancelVars, historyVars, th, crashes>>

Created == 1 .. created
Active == {j \in Created : status[j] \in Cancellable}
FilesOf(j) == {files[j][i] : i \in 1 .. Len(files[j])}
RunsOf(j) == {w \in Workers : th[w].job = j}

-----------------------------------------------------------------------------
(* One run of run_job as a thread sees it: where it is (pc), its job, the   *)
(* index of the file it works on, whether its update_progress has read the  *)
(* row (ph = "put": it holds the validated change `upd' and has yet to      *)
(* write it), the tracker's _last_progress, done_files and whether          *)
(* first_error is set.                                                      *)

Keep == "keep"
NoProgress == -1
NoUpdate == [status |-> Keep, stage |-> Keep, progress |-> NoProgress]

At(l, j, i) == [pc |-> l, job |-> j, fi |-> i, ph |-> "get", upd |-> NoUpdate,
                last |-> NoProgress, done |-> 0, err |-> FALSE]
Idle == At("idle", NoJob, 0)

\* Reports inside process_file or right after it: a raise marks the file failed.
FileReports == {"parse0", "parse1", "chunk0", "chunk1", "embed0", "embed1",
                "index0", "index1", "index2"}
\* Reports outside the try block: a raise ends the run.
RunReports == {"upload", "running", "completed", "failed"}
Reports == FileReports \cup RunReports
\* Reports that the tracker's throttle may drop.
Throttled == {"chunk1", "embed1", "index1"}
\* Steps that write something else than the job row.
OtherSteps == {"mark", "clear", "store", "ready", "broken", "count"}
Labels == Reports \cup OtherSteps \cup {"idle"}

\* The step that follows report l once its update is written or dropped.
After(l) ==
  CASE l = "upload" -> "running" [] l = "running" -> "mark"
    [] l = "parse0" -> "parse1"  [] l = "parse1" -> "chunk0"
    [] l = "chunk0" -> "chunk1"  [] l = "chunk1" -> "embed0"
    [] l = "embed0" -> "embed1"  [] l = "embed1" -> "index0"
    [] l = "index0" -> "clear"   [] l = "index1" -> "index2"
    [] l = "index2" -> "ready"   [] l \in {"completed", "failed"} -> "count"

ReportStatus(l) == IF l \in {"running", "completed", "failed"} THEN l ELSE Keep

ReportStage(l) ==
  CASE l = "upload"                          -> "upload"
    [] l \in {"running", "parse0", "parse1"} -> "parse"
    [] l \in {"chunk0", "chunk1"}            -> "chunk"
    [] l \in {"embed0", "embed1"}            -> "embed"
    [] l \in {"index0", "index1", "index2"}  -> "index"
    [] l = "completed"                       -> "done"
    [] l = "failed"                          -> Keep

\* Variant: the index stage of the last file is reported as 100.
ReportProgress_IndexHundred(l, fi, count) ==
  CASE l = "failed" -> NoProgress
    [] l = "index2" -> 100
    [] OTHER -> ProgressForStage(ReportStage(l), IF l \in RunReports THEN 0 ELSE fi - 1,
                                 count, 1, 1)

\* The progress a report asks for; mark_failed leaves the progress alone.
ReportProgress(l, fi, count) ==
  IF l = "failed" THEN NoProgress
  ELSE ProgressForStage(ReportStage(l),
                        IF l \in RunReports THEN 0 ELSE fi - 1, count,
                        IF l \in {"upload", "parse1", "chunk1", "embed1",
                                  "index1", "index2"} THEN 1 ELSE 0, 1)

-----------------------------------------------------------------------------
Init ==
  /\ created = 0
  /\ status = [j \in Jobs |-> "queued"]
  /\ stage = [j \in Jobs |-> "upload"]
  /\ progress = [j \in Jobs |-> 0]
  /\ files = [j \in Jobs |-> <<>>]
  /\ retryOf = [j \in Jobs |-> NoJob]
  /\ fileStatus = [f \in Files |-> "uploaded"]
  /\ indexed = {}
  /\ credit = [j \in Jobs |-> 0]
  /\ tasks = [j \in Jobs |-> 0]
  /\ snapshot = {}
  /\ canceling = NoJob
  /\ th = [w \in Workers |-> Idle]
  /\ cancels = 0 /\ crashes = 0
  /\ overlap = {} /\ clash = {} /\ exposed = {}

-----------------------------------------------------------------------------
(* Handlers.  While a cancel handler is between its two transactions the    *)
(* event loop runs no other handler.                                        *)

\* ImportJobRepository.create: one transaction inserts the job (queued, upload,
\* progress 0) and its files.
Insert(fs, source) ==
  LET j == created + 1 IN
    /\ j \in Jobs
    /\ created' = j
    /\ files' = [files EXCEPT ![j] = fs]
    /\ retryOf' = [retryOf EXCEPT ![j] = source]

\* Variant: the limit is compared with > instead of >=.
BelowLimit_OffByOne == Cardinality(Active) <= MaxActive

\* _ensure_import_concurrency: queued and running jobs are below the limit.
BelowLimit == Cardinality(Active) < MaxActive

\* POST /import-jobs without an Idempotency-Key: create the job and schedule
\* run_job as a background task.
CreateJob(fs) ==
  /\ canceling = NoJob
  /\ BelowLimit
  /\ Insert(fs, NoJob)
  /\ tasks' = [tasks EXCEPT ![created'] = 1]
  /\ UNCHANGED <<rowVars, kbVars, snapshot, cancelVars, historyVars, th, crashes>>

\* Variant: the retry route schedules a background task as the create route does.
RetryJob_Scheduled(source) ==
  /\ canceling = NoJob
  /\ source \in Created
  /\ status[source] \in Retryable
  /\ BelowLimit
  /\ Insert(files[source], source)
  /\ tasks' = [tasks EXCEPT ![created'] = 1]
  /\ UNCHANGED <<rowVars, kbVars, snapshot, cancelVars, historyVars, th, crashes>>

\* POST :retry without an Idempotency-Key: a new job with the source's files.
\* The route schedules no background task.
RetryJob(source) ==
  /\ canceling = NoJob
  /\ source \in Created
  /\ status[source] \in Retryable
  /\ BelowLimit
  /\ Insert(files[source], source)
  /\ UNCHANGED <<rowVars, kbVars, queueVars, cancelVars, historyVars, th, crashes>>

\* POST :cancel, first transaction: the row is read and is cancellable.
CancelRead(j) ==
  /\ canceling = NoJob
  /\ cancels < MaxCancels
  /\ j \in Created
  /\ status[j] \in Cancellable
  /\ canceling' = j
  /\ cancels' = cancels + 1
  /\ UNCHANGED <<jobVars, rowVars, kbVars, queueVars, exposed, historyVars, th, crashes>>

\* The UPDATE is conditional on the status; when it matches no row the handler
\* answers IMPORT_JOB_NOT_FOUND.
CancelWrite ==
  /\ canceling # NoJob
  /\ canceling' = NoJob
  /\ IF status[canceling] \in Cancellable
       THEN /\ status' = [status EXCEPT ![canceling] = "cancelled"]
            /\ exposed' = IF \E w \in RunsOf(canceling) :
                               th[w].ph = "put" /\ th[w].upd.status # Keep
                            THEN exposed \cup {canceling} ELSE exposed
       ELSE UNCHANGED <<status, exposed>>
  /\ UNCHANGED <<jobVars, stage, progress, kbVars, queueVars, cancels, historyVars,
                 th, crashes>>

-----------------------------------------------------------------------------
(* Starting a run.                                                          *)

\* run_job reads the job: a terminal job is left alone, a queued one is taken
\* from its upload report on, and a running one straight into the file loop.
Run(w, j) ==
  LET others == {v \in Workers \ {w} : th[v].job # NoJob} IN
  IF status[j] \in Terminal
    THEN UNCHANGED <<th, historyVars>>
    ELSE /\ th' = [th EXCEPT ![w] =
                     At(IF status[j] = "queued" THEN "upload" ELSE "mark", j, 1)]
         /\ overlap' = IF \E v \in others : th[v].job = j
                         THEN overlap \cup {j} ELSE overlap
         /\ clash' = clash \cup
                       {f \in FilesOf(j) : \E v \in others : f \in FilesOf(th[v].job)}

\* A pool thread starts a background task.
StartTask(w, j) ==
  /\ th[w].pc = "idle"
  /\ tasks[j] > 0
  /\ tasks' = [tasks EXCEPT ![j] = @ - 1]
  /\ Run(w, j)
  /\ UNCHANGED <<jobVars, rowVars, kbVars, snapshot, cancelVars, crashes>>

\* poll_once fetches the queued jobs ...
PollFetch ==
  /\ th[Poller].pc = "idle"
  /\ snapshot = {}
  /\ snapshot' = {j \in Created : status[j] = "queued"}
  /\ snapshot' # {}
  /\ UNCHANGED <<jobVars, rowVars, kbVars, tasks, cancelVars, historyVars, th, crashes>>

\* ... and runs them one after the other, oldest first, from that list.
PollRun(j) ==
  /\ th[Poller].pc = "idle"
  /\ j \in snapshot
  /\ \A k \in snapshot : j <= k
  /\ snapshot' = snapshot \ {j}
  /\ Run(Poller, j)
  /\ UNCHANGED <<jobVars, rowVars, kbVars, tasks, cancelVars, crashes>>

-----------------------------------------------------------------------------
(* update_progress, reached through the tracker.                            *)

Count(w) == Len(files[th[w].job])

\* _persist: the progress handed on never falls below the tracker's last one.
Asked(w) == ReportProgress(th[w].pc, th[w].fi, Count(w))
Tracked(w) == Larger(th[w].last, Asked(w))

\* Variant: update_progress does not validate the status transition.
Accepted_StageOnly(w) ==
  ReportStage(th[w].pc) # Keep => StageOk(stage[th[w].job], ReportStage(th[w].pc))

\* The row as read accepts the report.
Accepted(w) ==
  LET j == th[w].job  l == th[w].pc IN
    /\ ReportStatus(l) # Keep => StatusOk(status[j], ReportStatus(l))
    /\ ReportStage(l) # Keep => StageOk(stage[j], ReportStage(l))

\* First transaction: read the row, validate, compute the new values.
Get(w) ==
  LET j == th[w].job  l == th[w].pc IN
    /\ l \in Reports /\ th[w].ph = "get"
    /\ l \in Throttled => Asked(w) > th[w].last
    /\ Accepted(w)
    /\ th' = [th EXCEPT ![w].ph = "put",
                        ![w].last = Tracked(w),
                        ![w].upd = [status |-> ReportStatus(l),
                                    stage |-> ReportStage(l),
                                    progress |-> IF l = "failed" THEN NoProgress
                                                 ELSE Larger(progress[j], Tracked(w))]]
    /\ UNCHANGED <<jobVars, rowVars, kbVars, queueVars, cancelVars, historyVars, crashes>>

\* The tracker's throttle drops a report that moves neither stage nor status.
Skip(w) ==
  /\ th[w].pc \in Throttled /\ th[w].ph = "get"
  /\ th' = [th EXCEPT ![w].pc = After(th[w].pc),
                      ![w].last = Tracked(w),
                      ![w].done = IF th[w].pc = "index1" THEN @ + 1 ELSE @]
  /\ UNCHANGED <<jobVars, rowVars, kbVars, queueVars, cancelVars, historyVars, crashes>>

\* Variant: run_job swallows a refused mark_completed and goes on to the counts.
Refuse_Swallowed(w) ==
  /\ th[w].pc \in Reports /\ th[w].ph = "get"
  /\ ~Accepted(w)
  /\ th' = IF th[w].pc = "completed" THEN [th EXCEPT ![w].pc = "count"]
           ELSE [th EXCEPT ![w] = Idle]
  /\ UNCHANGED <<jobVars, rowVars, kbVars, queueVars, cancelVars, historyVars, crashes>>

\* The validation raises: inside the try block of the file loop the file is
\* marked failed, outside it the exception ends the run.
Refuse(w) ==
  LET l == th[w].pc IN
    /\ l \in Reports /\ th[w].ph = "get"
    /\ l \in Throttled => Asked(w) > th[w].last
    /\ ~Accepted(w)
    /\ th' = IF l \in RunReports
               THEN [th EXCEPT ![w] = Idle]
               ELSE [th EXCEPT ![w].pc = "broken", ![w].err = TRUE,
                               ![w].last = Tracked(w)]
    /\ UNCHANGED <<jobVars, rowVars, kbVars, queueVars, cancelVars, historyVars, crashes>>

\* Second transaction: UPDATE ... WHERE id = ..., whatever the row is by now.
\* After mark_failed the counts are touched only if some file was done.
Put(w) ==
  LET j == th[w].job  u == th[w].upd  l == th[w].pc IN
    /\ th[w].ph = "put"
    /\ status' = IF u.status = Keep THEN status ELSE [status EXCEPT ![j] = u.status]
    /\ stage' = IF u.stage = Keep THEN stage ELSE [stage EXCEPT ![j] = u.stage]
    /\ progress' = IF u.progress = NoProgress THEN progress
                   ELSE [progress EXCEPT ![j] = u.progress]
    /\ th' = IF l = "failed" /\ th[w].done = 0
               THEN [th EXCEPT ![w] = Idle]
               ELSE [th EXCEPT ![w].pc = After(l), ![w].ph = "get",
                               ![w].upd = NoUpdate,
                               ![w].done = IF l = "index1" THEN @ + 1 ELSE @]
    /\ UNCHANGED <<jobVars, kbVars, queueVars, cancelVars, historyVars, crashes>>

-----------------------------------------------------------------------------
(* The file loop.                                                           *)

CurrentFile(w) == files[th[w].job][th[w].fi]

\* After a file: the next one, or mark_completed / mark_failed after the last.
NextFile(w) ==
  IF th[w].fi < Count(w)
    THEN [th EXCEPT ![w].fi = @ + 1, ![w].pc = "mark"]
    ELSE [th EXCEPT ![w].pc = IF th[w].err THEN "failed" ELSE "completed"]

\* Variant: the sink has no database status for a running file.
MarkFile_NoIndexing(w) ==
  LET l == th[w].pc IN
    /\ l \in {"mark", "ready", "broken"}
    /\ fileStatus' = IF l = "mark" THEN fileStatus
                     ELSE [fileStatus EXCEPT ![CurrentFile(w)] =
                             IF l = "ready" THEN "ready" ELSE "failed"]
    /\ th' = IF l = "mark" THEN [th EXCEPT ![w].pc = "parse0"] ELSE NextFile(w)
    /\ UNCHANGED <<jobVars, rowVars, indexed, credit, queueVars, cancelVars,
                   historyVars, crashes>>

\* KbFileStatusSink: running -> indexing, completed -> ready, failed -> failed.  What
\* its UPDATE raises is logged and dropped.
MarkFile(w) ==
  LET l == th[w].pc IN
    /\ l \in {"mark", "ready", "broken"}
    /\ \/ fileStatus' = [fileStatus EXCEPT ![CurrentFile(w)] =
                            CASE l = "mark"   -> "indexing"
                              [] l = "ready"  -> "ready"
                              [] l = "broken" -> "failed"]
       \/ SinksMayFail /\ fileStatus' = fileStatus
    /\ th' = IF l = "mark" THEN [th EXCEPT ![w].pc = "parse0"] ELSE NextFile(w)
    /\ UNCHANGED <<jobVars, rowVars, indexed, credit, queueVars, cancelVars,
                   historyVars, crashes>>

\* upsert_data_index: delete the file's old chunks, then insert the new ones.
ClearIndex(w) ==
  /\ th[w].pc = "clear"
  /\ indexed' = indexed \ {CurrentFile(w)}
  /\ th' = [th EXCEPT ![w].pc = "store"]
  /\ UNCHANGED <<jobVars, rowVars, fileStatus, credit, queueVars, cancelVars,
                 historyVars, crashes>>

StoreIndex(w) ==
  /\ th[w].pc = "store"
  /\ indexed' = indexed \cup {CurrentFile(w)}
  /\ th' = [th EXCEPT ![w].pc = "index1"]
  /\ UNCHANGED <<jobVars, rowVars, fileStatus, credit, queueVars, cancelVars,
                 historyVars, crashes>>

\* Variant: run_job does not catch what process_file raises.
FileRaises_Uncaught(w) ==
  /\ FilesMayFail
  /\ th[w].pc \in (FileReports \ {"index1", "index2"}) \cup {"clear", "store"}
  /\ th[w].ph = "get"
  /\ th' = [th EXCEPT ![w] = Idle]
  /\ UNCHANGED <<jobVars, rowVars, kbVars, queueVars, cancelVars, historyVars, crashes>>

\* Resolving the file, parsing it, calling the embedding model or writing the
\* chunks raises inside process_file.
FileRaises(w) ==
  /\ FilesMayFail
  /\ th[w].pc \in (FileReports \ {"index1", "index2"}) \cup {"clear", "store"}
  /\ th[w].ph = "get"
  /\ th' = [th EXCEPT ![w].pc = "broken", ![w].err = TRUE]
  /\ UNCHANGED <<jobVars, rowVars, kbVars, queueVars, cancelVars, historyVars, crashes>>

\* KbCountSink.add_counts: file_count = file_count + done_files; it drops what its
\* UPDATE raises, too.
AddCounts(w) ==
  /\ th[w].pc = "count"
  /\ \/ credit' = [credit EXCEPT ![th[w].job] = @ + th[w].done]
     \/ SinksMayFail /\ credit' = credit
  /\ th' = [th EXCEPT ![w] = Idle]
  /\ UNCHANGED <<jobVars, rowVars, fileStatus, indexed, queueVars, cancelVars,
                 historyVars, crashes>>

-----------------------------------------------------------------------------
\* The server process dies and is started again: threads, background tasks and
\* the poller's list are gone, the database stays.
Crash ==
  /\ crashes < MaxCrashes
  /\ crashes' = crashes + 1
  /\ th' = [w \in Workers |-> Idle]
  /\ tasks' = [j \in Jobs |-> 0]
  /\ snapshot' = {}
  /\ canceling' = NoJob
  /\ UNCHANGED <<jobVars, rowVars, kbVars, cancels, exposed, historyVars>>

Step(w) ==
  \/ Get(w) \/ Skip(w) \/ Refuse(w) \/ Put(w)
  \/ MarkFile(w) \/ ClearIndex(w) \/ StoreIndex(w) \/ FileRaises(w) \/ AddCounts(w)

Handler ==
  \/ \E fs \in FileLists : CreateJob(fs)
  \/ \E j \in Jobs : RetryJob(j)
  \/ \E j \in Jobs : CancelRead(j)
  \/ CancelWrite

Next ==
  \/ Handler
  \/ \E w \in Threads, j \in Jobs : StartTask(w, j)
  \/ PollFetch
  \/ \E j \in Jobs : PollRun(j)
  \/ \E w \in Workers : Step(w)
  \/ Crash

Spec == Init /\ [][Next]_vars

(* Threads are scheduled and every call they make returns, the pool starts  *)
(* what was submitted to it, and the poller's loop goes round.              *)
Fairness ==
  /\ \A w \in Workers : WF_vars(Step(w))
  /\ \A w \in Threads : WF_vars(\E j \in Jobs : StartTask(w, j))
  /\ WF_vars(PollFetch)
  /\ WF_vars(\E j \in Jobs : PollRun(j))

FairSpec == Spec /\ Fairness

-----------------------------------------------------------------------------
(* Properties.                                                              *)

Updates == [status : Statuses \cup {Keep}, stage : Stages \cup {Keep},
            progress : (0 .. 100) \cup {NoProgress}]

ThreadStates == [pc : Labels, job : Jobs \cup {NoJob}, fi : Nat, ph : {"get", "put"},
                 upd : Updates, last : (0 .. 100) \cup {NoProgress}, done : Nat,
                 err : BOOLEAN]

\* The types of the variables, and what ties tasks and threads to the jobs: a task is
\* of a created job, a thread that is not idle runs a created job and is at one of its
\* files, and only a report can be between its two transactions.
TypeOK ==
  /\ created \in 0 .. NumJobs
  /\ status \in [Jobs -> Statuses]
  /\ stage \in [Jobs -> Stages]
  /\ progress \in [Jobs -> 0 .. 100]
  /\ files \in [Jobs -> Seq(Files)]
  /\ \A j \in Created : files[j] # <<>>
  /\ retryOf \in [Jobs -> Jobs \cup {NoJob}]
  /\ fileStatus \in [Files -> {"uploaded", "indexing", "ready", "failed"}]
  /\ indexed \subseteq Files
  /\ credit \in [Jobs -> Nat]
  /\ tasks \in [Jobs -> {0, 1}] /\ \A j \in Jobs : tasks[j] > 0 => j \in Created
  /\ snapshot \subseteq Created
  /\ canceling \in Created \cup {NoJob}
  /\ th \in [Workers -> ThreadStates]
  /\ \A w \in Workers :
       IF th[w].pc = "idle" THEN th[w] = Idle
       ELSE /\ th[w].job \in Created
            /\ th[w].fi \in 1 .. Len(files[th[w].job])
            /\ th[w].ph = "put" => th[w].pc \in Reports
  /\ cancels \in Nat /\ crashes \in Nat
  /\ overlap \subseteq Created /\ clash \subseteq Files /\ exposed \subseteq Created

\* A retried job is only ever picked up by the poller (the retry route schedules no
\* task), so no two threads run it at the same time, whatever crashes, however late
\* the poller is with its list.
RetryHasOneRunner == \A j \in Created : retryOf[j] # NoJob => j \notin overlap

\* A file shown as ready has its chunks in the vector store, through retries,
\* cancellations, failures and crashes, as long as no two runs ever worked on that
\* file at the same time and no status write was lost.
ReadyIsIndexed == SinksMayFail \/ \A f \in Files \ clash : fileStatus[f] = "ready" => f \in indexed

\* What the job row shows agrees: completed, stage done and progress 100 come and go
\* together, for a job that no two threads ran at once.
CompletedIsDone ==
  \A j \in Created \ overlap :
    /\ status[j] = "completed" <=> stage[j] = "done"
    /\ status[j] = "completed" <=> progress[j] = 100

\* A job's runs add each of its files to file_count at most once, add nothing for a
\* job that ends cancelled, and everything for a completed one unless a crash or a lost
\* write was in the way, for a job that no two threads ran at once.
CountedOnce ==
  \A j \in Created \ overlap :
    /\ credit[j] <= Len(files[j])
    /\ credit[j] > 0 => status[j] \in {"completed", "failed"}
    /\ status[j] = "completed" /\ RunsOf(j) = {} /\ crashes = 0 /\ ~SinksMayFail
         => credit[j] = Len(files[j])

\* The limit on active imports of a knowledge base holds among the jobs whose status
\* could not be rewritten behind the handlers' back: not run by two threads at once,
\* not cancelled in the window between the two transactions of a status update.
ActiveLimit == Cardinality(Active \ (overlap \cup exposed)) <= MaxActive

\* The status of such a job follows ALLOWED_STATUS_TRANSITIONS: in particular
\* completed, failed and cancelled are final, though the update itself is
\* unconditional and a run goes on after its job was cancelled.
StatusMachine ==
  [][\A j \in Created \ (overlap' \cup exposed') : StatusOk(status[j], status'[j])]_vars

\* Every job ends, and once ended stays so, when the process does not crash.
EveryJobEnds ==
  \A j \in Jobs : (j \in Created) ~> [](status[j] \in Terminal)

-----------------------------------------------------------------------------
(* What the repository says of the program and the code does not do.        *)

\* Nothing raises in any file and only one thread ever ran the job: then the job does
\* not fail, however many files it has.
EveryFileListCompletes ==
  ~FilesMayFail => \A j \in Created \ overlap : status[j] # "failed"

\* The poller may go beside the background task, for a finished job is left alone: when
\* nothing raises, crashes or is cancelled, a job of one file does not fail and its file is
\* counted once, also when two threads ran the job.
TwoRunnersDoNoHarm ==
  ~FilesMayFail /\ cancels = 0 /\ crashes = 0 =>
    \A j \in Created : Len(files[j]) = 1 => status[j] # "failed" /\ credit[j] <= 1
=============================================================================
