--------------------------- MODULE ImportJob_proofs --------------------------
(***************************************************************************)
(* Theorems about ImportJob and their proofs: they hold for any number of  *)
(* jobs, files, threads, cancels and crashes.                              *)
(***************************************************************************)
EXTENDS ImportJob, FiniteSetTheorems, TLAPS

LEMMA Constants ==
  /\ NumJobs \in Nat /\ MaxActive \in Nat
  /\ MaxCancels \in Nat /\ MaxCrashes \in Nat
  /\ FileLists \subseteq Seq(Files) \ {<<>>}
  /\ Poller \notin Threads
  BY NumJobsAssumption, FileListsAssumption, MaxActiveAssumption, PollerAssumption,
     BoundsAssumption

\* progress_for_stage answers a percentage for every file of every list: the ranges
\* and the two clamps keep it within 0 .. 100 whatever the fraction.
LEMMA ProgressInRange ==
  ASSUME NEW s \in Stages, NEW i \in Int, NEW n \in Nat \ {0}, NEW num \in Int
  PROVE  ProgressForStage(s, i, n, num, 1) \in 0 .. 100
<1>1. CASE s = "done"
  BY <1>1, SMT DEF ProgressForStage
<1>2. CASE s # "done"
  <2> DEFINE part == (High(s) - Low(s)) * (i * 1 + Clamp(num, 1))
  <2>1. Low(s) \in 0 .. 100 /\ High(s) \in 0 .. 100
    BY SMT DEF Stages, Low, High
  <2>2. Clamp(num, 1) \in Int
    BY SMT DEF Clamp, Larger, Smaller
  <2>3. part \in Int
    BY <2>1, <2>2, SMT
  <2>4. n * 1 \in Nat \ {0}
    BY SMT
  <2> HIDE DEF part
  <2>5. part \div (n * 1) \in Int
    BY <2>3, <2>4, SMT
  <2>6. Low(s) + (part \div (n * 1)) \in Int
    BY <2>1, <2>5, SMT
  <2>7. Larger(0, Smaller(99, Low(s) + (part \div (n * 1)))) \in 0 .. 99
    BY <2>6, SMT DEF Larger, Smaller
  <2>8. ProgressForStage(s, i, n, num, 1)
          = Larger(0, Smaller(99, Low(s) + (part \div (n * 1))))
    BY <1>2 DEF ProgressForStage, part
  <2> QED
    BY <2>7, <2>8, SMT
<1> QED
  BY <1>1, <1>2

\* What a report asks for is a percentage, or nothing.
LEMMA ReportInRange ==
  ASSUME NEW l \in Reports, NEW i \in Int, NEW n \in Nat \ {0}
  PROVE  ReportProgress(l, i, n) \in (0 .. 100) \cup {NoProgress}
<1>1. CASE l = "failed"
  BY <1>1 DEF ReportProgress
<1>2. CASE l # "failed"
  <2> DEFINE k == IF l \in RunReports THEN 0 ELSE i - 1
             num == IF l \in {"upload", "parse1", "chunk1", "embed1",
                              "index1", "index2"} THEN 1 ELSE 0
  <2>1. k \in Int /\ num \in Int
    BY SMT
  <2>2. ReportStage(l) \in Stages
    BY <1>2, SMT DEF Reports, FileReports, RunReports, ReportStage, Stages
  <2> HIDE DEF k, num
  <2>3. ProgressForStage(ReportStage(l), k, n, num, 1) \in 0 .. 100
    BY <2>1, <2>2, ProgressInRange
  <2> QED
    BY <1>2, <2>3 DEF ReportProgress, k, num
<1> QED
  BY <1>1, <1>2

-----------------------------------------------------------------------------
(* Type correctness.                                                        *)

\* What TypeOK says of one thread, and of the rest of the state.
ThreadOK(x) ==
  /\ x \in ThreadStates
  /\ IF x.pc = "idle" THEN x = Idle
     ELSE /\ x.job \in Created
          /\ x.fi \in 1 .. Len(files[x.job])
          /\ x.ph = "put" => x.pc \in Reports

JobsOK ==
  /\ created \in 0 .. NumJobs
  /\ status \in [Jobs -> Statuses]
  /\ stage \in [Jobs -> Stages]
  /\ progress \in [Jobs -> 0 .. 100]
  /\ files \in [Jobs -> Seq(Files)]
  /\ \A j \in Created : files[j] # <<>>
  /\ retryOf \in [Jobs -> Jobs \cup {NoJob}]
  /\ fileStatus \in [Files -> {"uploaded", "indexing", "ready", "failed"}]
  /\ indexed \subseteq Files
  /\ credit \in [Jobs -> Nat]
  /\ tasks \in [Jobs -> {0, 1}] /\ \A j \in Jobs : tasks[j] > 0 => j \in Created
  /\ snapshot \subseteq Created
  /\ canceling \in Created \cup {NoJob}
  /\ cancels \in Nat /\ crashes \in Nat
  /\ overlap \subseteq Created /\ clash \subseteq Files /\ exposed \subseteq Created

ThreadsOK == th \in [Workers -> ThreadStates] /\ \A w \in Workers : ThreadOK(th[w])

LEMMA TypeSplit == TypeOK <=> JobsOK /\ ThreadsOK
  BY DEF TypeOK, JobsOK, ThreadsOK, ThreadOK

LEMMA IdleOK == ThreadOK(Idle)
  BY SMT DEF ThreadOK, Idle, At, ThreadStates, Labels, Updates, NoUpdate

LEMMA CreatedJobs == JobsOK => Created \subseteq Jobs
  BY Constants, SMT DEF JobsOK, Created, Jobs

\* A step that changes one thread, and neither the jobs nor their files, keeps the
\* threads correct if what the thread becomes is.
LEMMA OneThread ==
  ASSUME ThreadsOK, UNCHANGED <<created, files>>,
         NEW w \in Workers, NEW x, ThreadOK(x), th' = [th EXCEPT ![w] = x]
  PROVE  ThreadsOK'
<1>1. x \in ThreadStates
  BY DEF ThreadOK
<1>2. th' \in [Workers -> ThreadStates]
  BY <1>1 DEF ThreadsOK
<1>3. ASSUME NEW v \in Workers PROVE ThreadOK(th[v])'
  <2>1. th'[v] = IF v = w THEN x ELSE th[v]
    BY <1>2 DEF ThreadsOK
  <2>2. ThreadOK(th'[v])
    BY <2>1 DEF ThreadsOK
  <2> QED
    BY <2>2 DEF ThreadOK, Created
<1> QED
  BY <1>2, <1>3 DEF ThreadsOK

LEMMA TypeInit == Init => TypeOK
<1> SUFFICES ASSUME Init PROVE TypeOK
  OBVIOUS
<1>1. JobsOK
  BY Constants, SMT DEF Init, JobsOK, Jobs, Created, Statuses, Stages, NoJob
<1>2. ThreadsOK
  BY IdleOK DEF Init, ThreadsOK, ThreadOK
<1> QED
  BY <1>1, <1>2, TypeSplit

\* The handlers.
LEMMA InsertType ==
  ASSUME JobsOK, NEW fs \in Seq(Files) \ {<<>>}, NEW source \in Jobs \cup {NoJob},
         Insert(fs, source)
  PROVE  /\ created' = created + 1 /\ created' \in Jobs
         /\ created' \in 0 .. NumJobs
         /\ Created' = Created \cup {created'} /\ created' \notin Created
         /\ files' \in [Jobs -> Seq(Files)]
         /\ \A j \in Created : files'[j] = files[j]
         /\ files'[created'] = fs
         /\ retryOf' \in [Jobs -> Jobs \cup {NoJob}]
         /\ \A j \in Created : retryOf'[j] = retryOf[j]
         /\ retryOf'[created'] = source
<1>1. created \in Nat /\ created + 1 \in Jobs /\ created' = created + 1
  BY Constants, SMT DEF JobsOK, Insert, Jobs
<1>2. Created' = Created \cup {created'} /\ created' \notin Created
  BY <1>1, SMT DEF Created
<1>3. created' \in 0 .. NumJobs
  BY <1>1, Constants, SMT DEF Jobs
<1> QED
  BY <1>1, <1>2, <1>3, SMT DEF JobsOK, Insert

\* Inserting a job keeps the threads correct: they run jobs that exist already.
LEMMA InsertThreads ==
  ASSUME JobsOK, ThreadsOK, th' = th, Created \subseteq Created',
         \A j \in Created : files'[j] = files[j]
  PROVE  ThreadsOK'
  BY DEF ThreadsOK, ThreadOK

LEMMA CreateType ==
  ASSUME JobsOK, ThreadsOK, NEW fs \in FileLists, CreateJob(fs)
  PROVE  JobsOK' /\ ThreadsOK'
<1>1. fs \in Seq(Files) \ {<<>>} /\ Insert(fs, NoJob)
  BY Constants DEF CreateJob
<1>2. /\ tasks' \in [Jobs -> {0, 1}]
      /\ \A j \in Jobs : tasks'[j] > 0 => j \in Created \cup {created'}
  <2>1. created' \in Jobs /\ tasks' = [tasks EXCEPT ![created'] = 1]
    BY <1>1, InsertType DEF CreateJob
  <2> QED
    BY <2>1 DEF JobsOK
<1>3. \A j \in Created' : files'[j] # <<>>
  BY <1>1, InsertType DEF JobsOK
<1>4. JobsOK'
  BY <1>1, <1>2, <1>3, InsertType
     DEF CreateJob, JobsOK, rowVars, kbVars, cancelVars, historyVars
<1>5. ThreadsOK'
  BY <1>1, InsertType, InsertThreads DEF CreateJob
<1> QED
  BY <1>4, <1>5

LEMMA RetryType ==
  ASSUME JobsOK, ThreadsOK, NEW source \in Jobs, RetryJob(source)
  PROVE  JobsOK' /\ ThreadsOK'
<1>1. files[source] \in Seq(Files) \ {<<>>} /\ Insert(files[source], source)
  BY DEF RetryJob, JobsOK
<1>2. \A j \in Created' : files'[j] # <<>>
  BY <1>1, InsertType DEF JobsOK
<1>3. JobsOK'
  BY <1>1, <1>2, InsertType
     DEF RetryJob, JobsOK, rowVars, kbVars, queueVars, cancelVars, historyVars
<1>4. ThreadsOK'
  BY <1>1, InsertType, InsertThreads DEF RetryJob
<1> QED
  BY <1>3, <1>4

LEMMA CancelType ==
  ASSUME JobsOK, ThreadsOK, (\E j \in Jobs : CancelRead(j)) \/ CancelWrite
  PROVE  JobsOK' /\ ThreadsOK'
<1>1. ASSUME NEW j \in Jobs, CancelRead(j) PROVE JobsOK' /\ ThreadsOK'
  BY <1>1, SMT DEF CancelRead, JobsOK, ThreadsOK, ThreadOK, Created, jobVars, rowVars,
                   kbVars, queueVars, historyVars
<1>2. ASSUME CancelWrite PROVE JobsOK' /\ ThreadsOK'
  <2>1. ThreadsOK'
    BY <1>2 DEF CancelWrite, ThreadsOK, ThreadOK, Created, jobVars
  <2>2. status' \in [Jobs -> Statuses] /\ exposed' \subseteq Created
    <3>1. canceling \in Created
      BY <1>2 DEF CancelWrite, JobsOK
    <3>2. \/ status' = [status EXCEPT ![canceling] = "cancelled"]
          \/ status' = status
      BY <1>2 DEF CancelWrite
    <3>3. exposed' = exposed \cup {canceling} \/ exposed' = exposed
      BY <1>2 DEF CancelWrite
    <3>4. status \in [Jobs -> Statuses] /\ exposed \subseteq Created /\ "cancelled" \in Statuses
      BY DEF JobsOK, Statuses
    <3> QED
      BY <3>1, <3>2, <3>3, <3>4
  <2>3. JobsOK'
    BY <1>2, <2>2 DEF CancelWrite, JobsOK, Created, jobVars, kbVars, queueVars, historyVars
  <2> QED
    BY <2>1, <2>3
<1> QED
  BY <1>1, <1>2

\* A run begins at the first file of a created job.
LEMMA RunType ==
  ASSUME JobsOK, ThreadsOK, NEW w \in Workers, NEW j \in Created, th[w].pc = "idle",
         Run(w, j), UNCHANGED <<created, files>>
  PROVE  ThreadsOK' /\ overlap' \subseteq Created /\ clash' \subseteq Files
<1>1. CASE status[j] \in Terminal
  BY <1>1 DEF Run, historyVars, JobsOK, ThreadsOK, ThreadOK, Created
<1>2. CASE status[j] \notin Terminal
  <2> DEFINE x == At(IF status[j] = "queued" THEN "upload" ELSE "mark", j, 1)
  <2>1. th' = [th EXCEPT ![w] = x]
    BY <1>2 DEF Run
  <2>2. files[j] \in Seq(Files) /\ files[j] # <<>> /\ j \in Jobs
    BY CreatedJobs DEF JobsOK
  <2>3. 1 \in 1 .. Len(files[j])
    BY <2>2, SMT
  <2>4. ThreadOK(x)
    BY <2>2, <2>3, SMT DEF At, ThreadOK, ThreadStates, Labels, OtherSteps, Reports,
                                 RunReports, Updates, NoUpdate
  <2>5. ThreadsOK'
    BY <2>1, <2>4, OneThread
  <2>6. overlap' \subseteq Created
    BY <1>2 DEF Run, JobsOK
  <2>7. FilesOf(j) \subseteq Files
    BY <2>2, SMT DEF FilesOf
  <2>8. clash' \subseteq Files
    BY <1>2, <2>7 DEF Run, JobsOK
  <2> QED
    BY <2>5, <2>6, <2>8
<1> QED
  BY <1>1, <1>2

LEMMA StartType ==
  ASSUME JobsOK, ThreadsOK,
         \/ \E w \in Threads, j \in Jobs : StartTask(w, j)
         \/ PollFetch
         \/ \E j \in Jobs : PollRun(j)
  PROVE  JobsOK' /\ ThreadsOK'
<1>1. ASSUME NEW w \in Threads, NEW j \in Jobs, StartTask(w, j)
      PROVE  JobsOK' /\ ThreadsOK'
  <2>1. j \in Created /\ w \in Workers
    BY <1>1 DEF StartTask, JobsOK, Workers
  <2>2. ThreadsOK' /\ overlap' \subseteq Created /\ clash' \subseteq Files
    BY <1>1, <2>1, RunType DEF StartTask, jobVars
  <2>3. tasks' \in [Jobs -> {0, 1}] /\ \A k \in Jobs : tasks'[k] > 0 => k \in Created
    BY <1>1, SMT DEF StartTask, JobsOK
  <2> QED
    BY <1>1, <2>2, <2>3 DEF StartTask, JobsOK, Created, jobVars, rowVars, kbVars, cancelVars
<1>2. ASSUME PollFetch PROVE JobsOK' /\ ThreadsOK'
  BY <1>2 DEF PollFetch, JobsOK, ThreadsOK, ThreadOK, Created, jobVars, rowVars, kbVars,
              cancelVars, historyVars
<1>3. ASSUME NEW j \in Jobs, PollRun(j) PROVE JobsOK' /\ ThreadsOK'
  <2>1. j \in Created /\ Poller \in Workers
    BY <1>3 DEF PollRun, JobsOK, Workers
  <2>2. ThreadsOK' /\ overlap' \subseteq Created /\ clash' \subseteq Files
    BY <1>3, <2>1, RunType DEF PollRun, jobVars
  <2> QED
    BY <1>3, <2>2 DEF PollRun, JobsOK, Created, jobVars, rowVars, kbVars, cancelVars
<1> QED
  BY <1>1, <1>2, <1>3

\* What a busy thread knows of its job and of the file it is at.
LEMMA BusyThread ==
  ASSUME JobsOK, ThreadsOK, NEW w \in Workers, th[w].pc # "idle"
  PROVE  /\ th[w] \in ThreadStates
         /\ th[w].job \in Created /\ th[w].job \in Jobs
         /\ Count(w) \in Nat \ {0} /\ th[w].fi \in 1 .. Count(w)
         /\ CurrentFile(w) \in Files
<1>1. th[w] \in ThreadStates /\ th[w].job \in Created
      /\ th[w].fi \in 1 .. Len(files[th[w].job])
  BY DEF ThreadsOK, ThreadOK
<1>2. th[w].job \in Jobs
  BY <1>1, CreatedJobs
<1>3. files[th[w].job] \in Seq(Files)
  BY <1>2 DEF JobsOK
<1> QED
  BY <1>1, <1>2, <1>3, SMT DEF Count, CurrentFile

LEMMA AskedInRange ==
  ASSUME JobsOK, ThreadsOK, NEW w \in Workers, th[w].pc \in Reports
  PROVE  /\ Asked(w) \in (0 .. 100) \cup {NoProgress}
         /\ Tracked(w) \in (0 .. 100) \cup {NoProgress}
<1>1. th[w].pc # "idle"
  BY DEF Reports, FileReports, RunReports
<1>2. Asked(w) \in (0 .. 100) \cup {NoProgress}
  BY <1>1, BusyThread, ReportInRange DEF Asked
<1>3. th[w].last \in (0 .. 100) \cup {NoProgress}
  BY <1>1, BusyThread DEF ThreadStates
<1> QED
  BY <1>2, <1>3, SMT DEF Tracked, Larger

LEMMA AfterLabel ==
  ASSUME NEW l \in Reports
  PROVE  /\ After(l) \in Labels \ {"idle"}
         /\ ReportStatus(l) \in Statuses \cup {Keep}
         /\ ReportStage(l) \in Stages \cup {Keep}
  BY SMT DEF Reports, FileReports, RunReports, OtherSteps, Labels, After, ReportStatus,
             ReportStage, Statuses, Stages

LEMMA GetType ==
  ASSUME JobsOK, ThreadsOK, NEW w \in Workers, Get(w)
  PROVE  JobsOK' /\ ThreadsOK'
<1> DEFINE l == th[w].pc
           u == [status |-> ReportStatus(l), stage |-> ReportStage(l),
                 progress |-> IF l = "failed" THEN NoProgress
                              ELSE Larger(progress[th[w].job], Tracked(w))]
           x == [th[w] EXCEPT !.ph = "put", !.last = Tracked(w), !.upd = u]
<1>1. l \in Reports /\ l # "idle"
  BY DEF Get, Reports, FileReports, RunReports
<1>2. th' = [th EXCEPT ![w] = x]
  BY DEF Get
<1>3. u \in Updates
  <2>1. Tracked(w) \in (0 .. 100) \cup {NoProgress}
    BY <1>1, AskedInRange
  <2>2. progress[th[w].job] \in 0 .. 100
    BY <1>1, BusyThread DEF JobsOK
  <2>3. Larger(progress[th[w].job], Tracked(w)) \in 0 .. 100
    BY <2>1, <2>2, SMT DEF Larger, NoProgress
  <2> QED
    BY <1>1, <2>3, AfterLabel DEF Updates
<1>4. ThreadOK(x)
  <2> HIDE DEF u
  <2>1. x \in ThreadStates
    <3>1. th[w] \in ThreadStates /\ Tracked(w) \in (0 .. 100) \cup {NoProgress}
      BY <1>1, BusyThread, AskedInRange
    <3> QED
      BY <1>3, <3>1 DEF ThreadStates
  <2>2. x.pc = l /\ x.job = th[w].job /\ x.fi = th[w].fi
    BY <1>1, BusyThread DEF ThreadStates
  <2> QED
    BY <1>1, <2>1, <2>2, BusyThread DEF ThreadOK, Count
<1>5. ThreadsOK'
  BY <1>2, <1>4, OneThread DEF Get, jobVars
<1> QED
  BY <1>5 DEF Get, JobsOK, Created, jobVars, rowVars, kbVars, queueVars, cancelVars,
              historyVars

LEMMA SkipType ==
  ASSUME JobsOK, ThreadsOK, NEW w \in Workers, Skip(w)
  PROVE  JobsOK' /\ ThreadsOK'
<1> DEFINE l == th[w].pc
           d == IF l = "index1" THEN th[w].done + 1 ELSE th[w].done
           x == [th[w] EXCEPT !.pc = After(l), !.last = Tracked(w), !.done = d]
<1>1. l \in Reports /\ l # "idle" /\ th[w].ph = "get"
  BY DEF Skip, Throttled, Reports, FileReports
<1>2. th' = [th EXCEPT ![w] = x]
  BY DEF Skip
<1>3. d \in Nat
  BY <1>1, BusyThread DEF ThreadStates
<1>4. ThreadOK(x)
  <2> HIDE DEF d
  <2>1. x \in ThreadStates
    <3>1. th[w] \in ThreadStates /\ Tracked(w) \in (0 .. 100) \cup {NoProgress}
      BY <1>1, BusyThread, AskedInRange
    <3>2. After(l) \in Labels
      BY <1>1, AfterLabel
    <3> QED
      BY <1>3, <3>1, <3>2 DEF ThreadStates
  <2>2. x.pc = After(l) /\ x.job = th[w].job /\ x.fi = th[w].fi /\ x.ph = "get"
    BY <1>1, BusyThread DEF ThreadStates
  <2> QED
    BY <1>1, <2>1, <2>2, BusyThread, AfterLabel DEF ThreadOK, Count
<1>5. ThreadsOK'
  BY <1>2, <1>4, OneThread DEF Skip, jobVars
<1> QED
  BY <1>5 DEF Skip, JobsOK, Created, jobVars, rowVars, kbVars, queueVars, cancelVars,
              historyVars

LEMMA RefuseType ==
  ASSUME JobsOK, ThreadsOK, NEW w \in Workers, Refuse(w)
  PROVE  JobsOK' /\ ThreadsOK'
<1> DEFINE l == th[w].pc
           x == [th[w] EXCEPT !.pc = "broken", !.err = TRUE, !.last = Tracked(w)]
<1>1. l \in Reports /\ l # "idle" /\ th[w].ph = "get"
  BY DEF Refuse, Reports, FileReports, RunReports
<1>2. th' = [th EXCEPT ![w] = IF l \in RunReports THEN Idle ELSE x]
  BY DEF Refuse
<1>3. ThreadOK(x)
  <2>1. th[w] \in ThreadStates /\ Tracked(w) \in (0 .. 100) \cup {NoProgress}
    BY <1>1, BusyThread, AskedInRange
  <2>2. x \in ThreadStates
    BY <2>1 DEF ThreadStates, Labels, OtherSteps
  <2>3. x.pc = "broken" /\ x.job = th[w].job /\ x.fi = th[w].fi /\ x.ph = "get"
    BY <1>1, <2>1 DEF ThreadStates
  <2> QED
    BY <1>1, <2>2, <2>3, BusyThread DEF ThreadOK, Count
<1>4. ThreadsOK'
  BY <1>2, <1>3, IdleOK, OneThread DEF Refuse, jobVars
<1> QED
  BY <1>4 DEF Refuse, JobsOK, Created, jobVars, rowVars, kbVars, queueVars, cancelVars,
              historyVars

LEMMA PutType ==
  ASSUME JobsOK, ThreadsOK, NEW w \in Workers, Put(w)
  PROVE  JobsOK' /\ ThreadsOK'
<1> DEFINE l == th[w].pc
           d == IF l = "index1" THEN th[w].done + 1 ELSE th[w].done
           x == [th[w] EXCEPT !.pc = After(l), !.ph = "get", !.upd = NoUpdate, !.done = d]
<1>1. th[w].pc # "idle"
  BY DEF Put, ThreadsOK, ThreadOK, Idle, At
<1>2. l \in Reports /\ th[w] \in ThreadStates /\ th[w].job \in Jobs
  BY <1>1, BusyThread DEF Put, ThreadsOK, ThreadOK
<1>3. th' = [th EXCEPT ![w] = IF l = "failed" /\ th[w].done = 0 THEN Idle ELSE x]
  BY DEF Put
<1>4. d \in Nat
  BY <1>2 DEF ThreadStates
<1>5. ThreadOK(x)
  <2> HIDE DEF d
  <2>1. After(l) \in Labels \ {"idle"} /\ NoUpdate \in Updates
    BY <1>2, AfterLabel DEF NoUpdate, Updates
  <2>2. x \in ThreadStates
    BY <1>2, <1>4, <2>1 DEF ThreadStates
  <2>3. x.pc = After(l) /\ x.job = th[w].job /\ x.fi = th[w].fi /\ x.ph = "get"
    BY <1>2 DEF ThreadStates
  <2> QED
    BY <1>1, <2>1, <2>2, <2>3, BusyThread DEF ThreadOK, Count
<1>6. ThreadsOK'
  BY <1>3, <1>5, IdleOK, OneThread DEF Put, jobVars
<1>7. th[w].upd \in Updates
  BY <1>2 DEF ThreadStates
<1>8. /\ status' \in [Jobs -> Statuses] /\ stage' \in [Jobs -> Stages]
      /\ progress' \in [Jobs -> 0 .. 100]
  BY <1>2, <1>7 DEF Put, JobsOK, Updates
<1> QED
  BY <1>6, <1>8 DEF Put, JobsOK, Created, jobVars, kbVars, queueVars, cancelVars,
                    historyVars

\* A step that moves a busy thread's pc on, and its file index with it.
LEMMA MoveThread ==
  ASSUME JobsOK, ThreadsOK, NEW w \in Workers, th[w].pc # "idle", th[w].ph = "get",
         NEW l \in Labels \ {"idle"}, NEW i \in 1 .. Count(w), NEW e \in BOOLEAN,
         th' = [th EXCEPT ![w] = [th[w] EXCEPT !.pc = l, !.fi = i, !.err = e]],
         UNCHANGED <<created, files>>
  PROVE  ThreadsOK'
<1> DEFINE x == [th[w] EXCEPT !.pc = l, !.fi = i, !.err = e]
<1>1. th[w] \in ThreadStates /\ i \in Nat
  BY BusyThread, SMT
<1>2. x \in ThreadStates
  BY <1>1 DEF ThreadStates
<1>3. x.pc = l /\ x.job = th[w].job /\ x.fi = i /\ x.ph = "get"
  BY <1>1 DEF ThreadStates
<1>4. ThreadOK(x)
  BY <1>2, <1>3, BusyThread DEF ThreadOK, Count
<1> QED
  BY <1>4, OneThread

LEMMA MarkType ==
  ASSUME JobsOK, ThreadsOK, NEW w \in Workers, MarkFile(w)
  PROVE  JobsOK' /\ ThreadsOK'
<1>1. th[w].pc # "idle" /\ th[w].pc \notin Reports
  BY DEF MarkFile, Reports, FileReports, RunReports
<1>2. th[w] \in ThreadStates /\ th[w].ph = "get"
  BY <1>1, BusyThread DEF ThreadsOK, ThreadOK, ThreadStates
<1>3. PICK l \in Labels \ {"idle"}, i \in 1 .. Count(w) :
        th' = [th EXCEPT ![w] = [th[w] EXCEPT !.pc = l, !.fi = i, !.err = th[w].err]]
  <2>1. th[w].fi \in 1 .. Count(w)
    BY <1>1, BusyThread
  <2>2. CASE th[w].pc = "mark"
    <3>1. th' = [th EXCEPT ![w] = [th[w] EXCEPT !.pc = "parse0", !.fi = th[w].fi,
                                                !.err = th[w].err]]
      BY <1>2, <2>2 DEF MarkFile, ThreadsOK, ThreadStates
    <3> QED
      BY <2>1, <3>1 DEF Labels, Reports, FileReports
  <2>3. CASE th[w].pc # "mark" /\ th[w].fi < Count(w)
    <3>1. th' = [th EXCEPT ![w] = [th[w] EXCEPT !.pc = "mark", !.fi = th[w].fi + 1,
                                                !.err = th[w].err]]
      BY <1>2, <2>3 DEF MarkFile, NextFile, ThreadsOK, ThreadStates
    <3>2. th[w].fi + 1 \in 1 .. Count(w)
      BY <1>1, <2>3, BusyThread, SMT
    <3> QED
      BY <3>1, <3>2 DEF Labels, OtherSteps
  <2>4. CASE th[w].pc # "mark" /\ ~(th[w].fi < Count(w))
    <3> DEFINE m == IF th[w].err THEN "failed" ELSE "completed"
    <3>1. th' = [th EXCEPT ![w] = [th[w] EXCEPT !.pc = m, !.fi = th[w].fi,
                                                !.err = th[w].err]]
      BY <1>2, <2>4 DEF MarkFile, NextFile, ThreadsOK, ThreadStates
    <3>2. m \in Labels \ {"idle"}
      BY DEF Labels, Reports, RunReports
    <3> QED
      BY <2>1, <3>1, <3>2
  <2> QED
    BY <2>2, <2>3, <2>4
<1>4. ThreadsOK'
  <2>1. th[w].err \in BOOLEAN
    BY <1>2 DEF ThreadStates
  <2>2. UNCHANGED <<created, files>>
    BY DEF MarkFile, jobVars
  <2> QED
    BY <1>1, <1>2, <1>3, <2>1, <2>2, MoveThread
<1>5. fileStatus' \in [Files -> {"uploaded", "indexing", "ready", "failed"}]
  BY <1>1, BusyThread DEF MarkFile, JobsOK
<1> QED
  BY <1>4, <1>5 DEF MarkFile, JobsOK, Created, jobVars, rowVars, queueVars, cancelVars,
                    historyVars

LEMMA StoreType ==
  ASSUME JobsOK, ThreadsOK, NEW w \in Workers,
         ClearIndex(w) \/ StoreIndex(w) \/ FileRaises(w)
  PROVE  JobsOK' /\ ThreadsOK'
<1>1. th[w].pc # "idle"
  BY DEF ClearIndex, StoreIndex, FileRaises, FileReports
<1>2. th[w] \in ThreadStates /\ th[w].ph = "get" /\ th[w].fi \in 1 .. Count(w)
  <2>1. th[w].pc \in Reports \/ th[w].ph = "get"
    BY <1>1, BusyThread DEF ThreadsOK, ThreadOK, ThreadStates
  <2>2. th[w].ph = "get"
    BY <2>1 DEF ClearIndex, StoreIndex, FileRaises, Reports, FileReports, RunReports
  <2> QED
    BY <1>1, <2>2, BusyThread
<1>3. PICK l \in Labels \ {"idle"}, e \in BOOLEAN :
        th' = [th EXCEPT ![w] = [th[w] EXCEPT !.pc = l, !.fi = th[w].fi, !.err = e]]
  <2>1. CASE FileRaises(w)
    <3>1. th' = [th EXCEPT ![w] = [th[w] EXCEPT !.pc = "broken", !.fi = th[w].fi,
                                                !.err = TRUE]]
      BY <1>2, <2>1 DEF FileRaises, ThreadsOK, ThreadStates
    <3> QED
      BY <3>1 DEF Labels, OtherSteps
  <2>2. CASE ClearIndex(w)
    <3>1. th' = [th EXCEPT ![w] = [th[w] EXCEPT !.pc = "store", !.fi = th[w].fi,
                                                !.err = th[w].err]]
      BY <1>2, <2>2 DEF ClearIndex, ThreadsOK, ThreadStates
    <3> QED
      BY <1>2, <3>1 DEF Labels, OtherSteps, ThreadStates
  <2>3. CASE StoreIndex(w)
    <3>1. th' = [th EXCEPT ![w] = [th[w] EXCEPT !.pc = "index1", !.fi = th[w].fi,
                                                !.err = th[w].err]]
      BY <1>2, <2>3 DEF StoreIndex, ThreadsOK, ThreadStates
    <3> QED
      BY <1>2, <3>1 DEF Labels, Reports, FileReports, ThreadStates
  <2> QED
    BY <2>1, <2>2, <2>3
<1>4. ThreadsOK'
  BY <1>1, <1>2, <1>3, MoveThread DEF ClearIndex, StoreIndex, FileRaises, jobVars
<1>5. indexed' \subseteq Files
  BY <1>1, BusyThread DEF ClearIndex, StoreIndex, FileRaises, JobsOK, kbVars
<1> QED
  BY <1>4, <1>5 DEF ClearIndex, StoreIndex, FileRaises, JobsOK, Created, jobVars, rowVars,
                    kbVars, queueVars, cancelVars, historyVars

LEMMA CountType ==
  ASSUME JobsOK, ThreadsOK, NEW w \in Workers, AddCounts(w)
  PROVE  JobsOK' /\ ThreadsOK'
<1>1. th[w] \in ThreadStates /\ th[w].job \in Jobs
  BY BusyThread DEF AddCounts
<1>2. credit' \in [Jobs -> Nat]
  BY <1>1 DEF AddCounts, JobsOK, ThreadStates
<1>3. ThreadsOK'
  BY IdleOK, OneThread DEF AddCounts, jobVars
<1> QED
  BY <1>2, <1>3 DEF AddCounts, JobsOK, Created, jobVars, rowVars, queueVars, cancelVars,
                    historyVars

LEMMA CrashType ==
  ASSUME JobsOK, ThreadsOK, Crash
  PROVE  JobsOK' /\ ThreadsOK'
<1>1. ThreadsOK'
  BY IdleOK DEF Crash, ThreadsOK, ThreadOK, Created, jobVars
<1>2. crashes' \in Nat
  BY DEF Crash, JobsOK
<1>3. tasks' \in [Jobs -> {0, 1}] /\ \A j \in Jobs : ~(tasks'[j] > 0)
  BY SMT DEF Crash
<1> QED
  BY <1>1, <1>2, <1>3 DEF Crash, JobsOK, Created, jobVars, rowVars, kbVars, historyVars

LEMMA TypeNext == TypeOK /\ [Next]_vars => TypeOK'
<1> SUFFICES ASSUME JobsOK, ThreadsOK, [Next]_vars PROVE JobsOK' /\ ThreadsOK'
  BY DEF TypeOK, JobsOK, ThreadsOK, ThreadOK
<1>1. CASE Handler
  BY <1>1, CreateType, RetryType, CancelType DEF Handler
<1>2. CASE \/ \E w \in Threads, j \in Jobs : StartTask(w, j)
           \/ PollFetch
           \/ \E j \in Jobs : PollRun(j)
  BY <1>2, StartType
<1>3. ASSUME NEW w \in Workers, Step(w) PROVE JobsOK' /\ ThreadsOK'
  BY <1>3, GetType, SkipType, RefuseType, PutType, MarkType, StoreType, CountType DEF Step
<1>4. CASE Crash
  BY <1>4, CrashType
<1>5. CASE UNCHANGED vars
  BY <1>5 DEF JobsOK, ThreadsOK, ThreadOK, Created, vars, jobVars, rowVars, kbVars,
              queueVars, cancelVars, historyVars
<1> QED
  BY <1>1, <1>2, <1>3, <1>4, <1>5 DEF Next

\* The variables keep their types in every behaviour: in particular a thread never
\* leaves the file list of its job, and no task is left for a job that does not exist.
THEOREM TypeCorrect == Spec => []TypeOK
<1>1. Init => TypeOK
  BY TypeInit
<1>2. TypeOK /\ [Next]_vars => TypeOK'
  BY TypeNext
<1> QED
  BY <1>1, <1>2, PTL DEF Spec

-----------------------------------------------------------------------------
(* What a step of a thread leaves alone.                                    *)

\* What a step of a running thread leaves alone, and what it may do to the thread:
\* the thread stays with its job or leaves it, and holds an update only after Get.
LEMMA StepFrame ==
  ASSUME JobsOK, ThreadsOK, NEW w \in Workers, Step(w)
  PROVE  /\ UNCHANGED <<created, files, retryOf, tasks, overlap, exposed>>
         /\ \A v \in Workers \ {w} : th'[v] = th[v]
         /\ th'[w].job \in {th[w].job, NoJob}
         /\ th'[w].ph = "get" \/ Get(w)
<1>1. th \in [Workers -> ThreadStates]
  BY DEF ThreadsOK
<1>2. th[w].ph = "put" => th[w].pc \in Reports \/ th[w] = Idle
  BY DEF ThreadsOK, ThreadOK
<1>3. th[w].ph \in {"get", "put"}
  BY <1>1 DEF ThreadStates
<1>4. Idle.ph = "get" /\ Idle.job = NoJob
  BY DEF Idle, At
<1>5. CASE Get(w)
  <2>1. th'[w].job = th[w].job /\ \A v \in Workers \ {w} : th'[v] = th[v]
    BY <1>1, <1>5 DEF Get, ThreadStates
  <2> QED
    BY <1>5, <2>1 DEF Get, jobVars, queueVars, cancelVars, historyVars
<1>6. CASE Skip(w)
  <2>1. /\ th'[w].job = th[w].job /\ th'[w].ph = "get"
        /\ \A v \in Workers \ {w} : th'[v] = th[v]
    BY <1>1, <1>6 DEF Skip, ThreadStates
  <2> QED
    BY <2>1, <1>6 DEF Skip, jobVars, queueVars, cancelVars, historyVars
<1>7. CASE Refuse(w)
  <2>1. /\ th'[w].job \in {th[w].job, NoJob} /\ th'[w].ph = "get"
        /\ \A v \in Workers \ {w} : th'[v] = th[v]
    BY <1>1, <1>4, <1>7 DEF Refuse, ThreadStates
  <2> QED
    BY <2>1, <1>7 DEF Refuse, jobVars, queueVars, cancelVars, historyVars
<1>8. CASE Put(w)
  <2>1. /\ th'[w].job \in {th[w].job, NoJob} /\ th'[w].ph = "get"
        /\ \A v \in Workers \ {w} : th'[v] = th[v]
    BY <1>1, <1>4, <1>8 DEF Put, ThreadStates
  <2> QED
    BY <2>1, <1>8 DEF Put, jobVars, queueVars, cancelVars, historyVars
<1>9. CASE MarkFile(w)
  <2>1. th[w].ph = "get"
    BY <1>2, <1>3, <1>4, <1>9 DEF MarkFile, Reports, FileReports, RunReports
  <2>2. /\ th'[w].job = th[w].job /\ th'[w].ph = "get"
        /\ \A v \in Workers \ {w} : th'[v] = th[v]
    BY <1>1, <1>9, <2>1 DEF MarkFile, NextFile, ThreadStates
  <2> QED
    BY <2>2, <1>9 DEF MarkFile, jobVars, queueVars, cancelVars, historyVars
<1>10. CASE ClearIndex(w) \/ StoreIndex(w) \/ FileRaises(w)
  <2>1. th[w].ph = "get"
    BY <1>2, <1>3, <1>4, <1>10
       DEF ClearIndex, StoreIndex, FileRaises, Reports, FileReports, RunReports
  <2>2. /\ th'[w].job = th[w].job /\ th'[w].ph = "get"
        /\ \A v \in Workers \ {w} : th'[v] = th[v]
    BY <1>1, <1>10, <2>1 DEF ClearIndex, StoreIndex, FileRaises, ThreadStates
  <2> QED
    BY <2>2, <1>10 DEF ClearIndex, StoreIndex, FileRaises, jobVars, queueVars, cancelVars,
                       historyVars
<1>11. CASE AddCounts(w)
  <2>1. /\ th'[w].job = NoJob /\ th'[w].ph = "get"
        /\ \A v \in Workers \ {w} : th'[v] = th[v]
    BY <1>1, <1>4, <1>11 DEF AddCounts
  <2> QED
    BY <2>1, <1>11 DEF AddCounts, jobVars, queueVars, cancelVars, historyVars
<1> QED
  BY <1>5, <1>6, <1>7, <1>8, <1>9, <1>10, <1>11 DEF Step

\* Threads run created jobs or none.
LEMMA RunnersCreated ==
  ASSUME JobsOK, ThreadsOK, NEW w \in Workers
  PROVE  th[w].job \in Created \cup {NoJob}
  BY DEF ThreadsOK, ThreadOK, Idle, At

LEMMA NoJobNotCreated == JobsOK => NoJob \notin Created
  BY SMT DEF JobsOK, Created, NoJob

-----------------------------------------------------------------------------
(* A retried job has one runner.                                            *)

\* The inductive strengthening: nothing but the poller can come to run the job.
OnlyPolled(j) ==
  /\ tasks[j] = 0
  /\ \A w \in Threads : th[w].job # j
  /\ j \notin overlap

RetryInv == \A j \in Created : retryOf[j] # NoJob => OnlyPolled(j)

LEMMA RetryInsert ==
  ASSUME JobsOK, ThreadsOK, RetryInv, NEW fs \in Seq(Files) \ {<<>>},
         NEW source \in Jobs \cup {NoJob}, Insert(fs, source), th' = th, overlap' = overlap,
         tasks' = tasks \/ (source = NoJob /\ tasks' = [tasks EXCEPT ![created'] = 1])
  PROVE  RetryInv'
<1> SUFFICES ASSUME NEW j \in Created', retryOf'[j] # NoJob PROVE OnlyPolled(j)'
  BY DEF RetryInv
<1>1. CASE j \in Created
  <2>1. OnlyPolled(j)
    BY <1>1, InsertType DEF RetryInv
  <2>2. j # created'
    BY <1>1, InsertType
  <2>3. tasks'[j] = tasks[j]
    BY <1>1, <2>2, CreatedJobs DEF JobsOK
  <2> QED
    BY <2>1, <2>3 DEF OnlyPolled
<1>2. CASE j \notin Created
  <2>1. j = created' /\ source # NoJob /\ tasks' = tasks /\ j \in Jobs
    BY <1>2, InsertType
  <2>2. tasks[j] = 0
    BY <1>2, <2>1, SMT DEF JobsOK
  <2>3. j # NoJob
    BY <2>1, SMT DEF Jobs, NoJob
  <2>4. \A w \in Threads : th[w].job # j
    BY <1>2, <2>3, RunnersCreated DEF Workers
  <2>5. j \notin overlap
    BY <1>2 DEF JobsOK
  <2> QED
    BY <2>1, <2>2, <2>4, <2>5 DEF OnlyPolled
<1> QED
  BY <1>1, <1>2

LEMMA RetryNext == TypeOK /\ RetryInv /\ [Next]_vars => RetryInv'
<1> SUFFICES ASSUME JobsOK, ThreadsOK, RetryInv, [Next]_vars PROVE RetryInv'
  BY TypeSplit
<1>1. ASSUME NEW fs \in FileLists, CreateJob(fs) PROVE RetryInv'
  BY <1>1, RetryInsert, Constants DEF CreateJob, historyVars
<1>2. ASSUME NEW j \in Jobs, RetryJob(j) PROVE RetryInv'
  <2>1. files[j] \in Seq(Files) \ {<<>>}
    BY <1>2 DEF RetryJob, JobsOK
  <2> QED
    BY <1>2, <2>1, RetryInsert DEF RetryJob, queueVars, historyVars
<1>3. CASE (\E j \in Jobs : CancelRead(j)) \/ CancelWrite
  BY <1>3 DEF CancelRead, CancelWrite, RetryInv, OnlyPolled, Created, jobVars, queueVars,
              historyVars
<1>4. ASSUME NEW w \in Threads, NEW j \in Jobs, StartTask(w, j) PROVE RetryInv'
  <2> SUFFICES ASSUME NEW k \in Created, retryOf[k] # NoJob PROVE OnlyPolled(k)'
    BY <1>4 DEF RetryInv, StartTask, jobVars, Created
  <2>1. OnlyPolled(k)
    BY DEF RetryInv
  <2>2. k # j
    BY <1>4, <2>1, SMT DEF OnlyPolled, StartTask
  <2>3. tasks'[k] = 0
    BY <1>4, <2>1, <2>2, CreatedJobs DEF OnlyPolled, StartTask, JobsOK
  <2>4. \A v \in Threads : th'[v].job # k
    BY <1>4, <2>1, <2>2 DEF OnlyPolled, StartTask, Run, ThreadsOK, Workers, At
  <2>5. k \notin overlap'
    BY <1>4, <2>1, <2>2 DEF OnlyPolled, StartTask, Run, historyVars
  <2> QED
    BY <2>3, <2>4, <2>5 DEF OnlyPolled
<1>5. CASE PollFetch
  BY <1>5 DEF PollFetch, RetryInv, OnlyPolled, Created, jobVars, historyVars
<1>6. ASSUME NEW j \in Jobs, PollRun(j) PROVE RetryInv'
  <2> SUFFICES ASSUME NEW k \in Created, retryOf[k] # NoJob PROVE OnlyPolled(k)'
    BY <1>6 DEF RetryInv, PollRun, jobVars, Created
  <2>1. OnlyPolled(k) /\ k # NoJob
    BY NoJobNotCreated DEF RetryInv
  <2>2. \A v \in Threads : th'[v] = th[v]
    BY <1>6, PollerAssumption DEF PollRun, Run, ThreadsOK, Workers
  <2>3. k \notin overlap'
    BY <1>6, <2>1 DEF OnlyPolled, PollRun, Run, historyVars, Workers
  <2> QED
    BY <1>6, <2>1, <2>2, <2>3 DEF OnlyPolled, PollRun
<1>7. ASSUME NEW w \in Workers, Step(w) PROVE RetryInv'
  <2>1. \A v \in Workers : th'[v].job \in {th[v].job, NoJob}
    BY <1>7, StepFrame
  <2> QED
    BY <1>7, <2>1, StepFrame, NoJobNotCreated
       DEF RetryInv, OnlyPolled, Created, Workers
<1>8. CASE Crash
  BY <1>8, NoJobNotCreated, CreatedJobs
     DEF Crash, RetryInv, OnlyPolled, Created, Workers, Idle, At, jobVars, historyVars
<1>9. CASE UNCHANGED vars
  BY <1>9 DEF RetryInv, OnlyPolled, Created, vars, jobVars, queueVars, historyVars
<1> QED
  BY <1>1, <1>2, <1>3, <1>4, <1>5, <1>6, <1>7, <1>8, <1>9 DEF Next, Handler

\* No two threads ever run a retried job at the same time, for any number of threads,
\* jobs and crashes: no task is ever scheduled for it, so only the poller can run it.
THEOREM RetriedJobsHaveOneRunner == Spec => []RetryHasOneRunner
<1>1. Init => RetryInv
  BY SMT DEF Init, RetryInv, Created
<1>2. RetryInv => RetryHasOneRunner
  BY DEF RetryInv, OnlyPolled, RetryHasOneRunner
<1> QED
  BY <1>1, <1>2, TypeInit, TypeNext, RetryNext, PTL DEF Spec

-----------------------------------------------------------------------------
(* The status machine.                                                      *)

\* Two threads on one job put it in overlap ...
OneRunner ==
  \A v, w \in Workers :
    v # w /\ th[v].job = th[w].job /\ th[w].job # NoJob => th[w].job \in overlap

\* ... so for any other job, a status that was validated is still a legal successor
\* of the row's status when it is written, unless a cancel came in between.
PendingOk ==
  \A w \in Workers :
    /\ th[w].ph = "put" /\ th[w].upd.status # Keep
    /\ th[w].job \notin overlap \cup exposed
    => StatusOk(status[th[w].job], th[w].upd.status)

StatusInv == OneRunner /\ PendingOk

StatusStep == \A j \in Created \ (overlap' \cup exposed') : StatusOk(status[j], status'[j])

LEMMA StatusReflexive == \A x : StatusOk(x, x)
  BY DEF StatusOk

\* A step that leaves the statuses alone obeys the machine.
LEMMA StatusSame ==
  ASSUME status' = status
  PROVE  StatusStep
  BY StatusReflexive DEF StatusStep

\* Steps that give no thread a job or an update and change no status.
LEMMA StatusQuiet ==
  ASSUME JobsOK, ThreadsOK, StatusInv, status' = status, th' = th, overlap' = overlap,
         exposed' = exposed
  PROVE  StatusInv' /\ StatusStep
  BY StatusSame DEF StatusInv, OneRunner, PendingOk

LEMMA StatusCancel ==
  ASSUME JobsOK, ThreadsOK, StatusInv, CancelWrite
  PROVE  StatusInv' /\ StatusStep
<1>1. th' = th /\ overlap' = overlap
  BY DEF CancelWrite, historyVars
<1>2. CASE status[canceling] \notin Cancellable
  BY <1>1, <1>2, StatusQuiet DEF CancelWrite
<1>3. CASE status[canceling] \in Cancellable
  <2>1. status' = [status EXCEPT ![canceling] = "cancelled"]
    BY <1>3 DEF CancelWrite
  <2>2. exposed \subseteq exposed'
    BY <1>3 DEF CancelWrite
  <2>3. ASSUME NEW w \in Workers, th[w].ph = "put", th[w].upd.status # Keep,
               th[w].job \notin overlap \cup exposed'
        PROVE  StatusOk(status'[th[w].job], th[w].upd.status)
    <3>1. th[w].job # canceling
      BY <1>3, <2>3 DEF CancelWrite, RunsOf
    <3>2. StatusOk(status[th[w].job], th[w].upd.status)
      BY <2>2, <2>3 DEF StatusInv, PendingOk
    <3> QED
      BY <2>1, <3>1, <3>2 DEF JobsOK
  <2>4. StatusInv'
    BY <1>1, <2>3 DEF StatusInv, OneRunner, PendingOk
  <2>5. ASSUME NEW j \in Created PROVE StatusOk(status[j], status'[j])
    BY <1>3, <2>1, CreatedJobs DEF JobsOK, StatusOk, AllowedFrom, Cancellable
  <2> QED
    BY <2>4, <2>5 DEF StatusStep
<1> QED
  BY <1>2, <1>3

\* A run that begins on a job someone else runs puts the job in overlap.
LEMMA StatusRun ==
  ASSUME JobsOK, ThreadsOK, StatusInv, NEW w \in Workers, NEW j \in Created,
         Run(w, j), status' = status, exposed' = exposed
  PROVE  StatusInv' /\ StatusStep
<1>1. CASE status[j] \in Terminal
  BY <1>1, StatusQuiet DEF Run, historyVars
<1>2. CASE status[j] \notin Terminal
  <2>1. /\ th'[w].job = j /\ th'[w].ph = "get"
        /\ \A v \in Workers \ {w} : th'[v] = th[v]
    BY <1>2 DEF Run, ThreadsOK, At
  <2>2. overlap \subseteq overlap'
    BY <1>2 DEF Run
  <2>3. ASSUME NEW v \in Workers \ {w}, th[v].job = j PROVE j \in overlap'
    <3>1. v \in {u \in Workers \ {w} : th[u].job # NoJob}
      BY <2>3, NoJobNotCreated
    <3> QED
      BY <1>2, <2>3, <3>1 DEF Run
  <2>4. OneRunner'
    BY <2>1, <2>2, <2>3 DEF StatusInv, OneRunner
  <2>5. PendingOk'
    BY <2>1, <2>2 DEF StatusInv, PendingOk
  <2> QED
    BY <2>4, <2>5, StatusSame DEF StatusInv
<1> QED
  BY <1>1, <1>2

LEMMA StatusThread ==
  ASSUME JobsOK, ThreadsOK, StatusInv, NEW w \in Workers, Step(w)
  PROVE  StatusInv' /\ StatusStep
<1>1. OneRunner'
  BY StepFrame DEF StatusInv, OneRunner
<1>2. CASE Put(w)
  <2> DEFINE j == th[w].job
             s == th[w].upd.status
  <2>1. status' = IF s = Keep THEN status ELSE [status EXCEPT ![j] = s]
    BY <1>2 DEF Put
  <2>2. StatusStep
    <3>1. th[w].ph = "put"
      BY <1>2 DEF Put
    <3>2. ASSUME s # Keep, j \notin overlap \cup exposed PROVE StatusOk(status[j], s)
      BY <3>1, <3>2 DEF StatusInv, PendingOk
    <3>3. overlap' = overlap /\ exposed' = exposed
      BY StepFrame
    <3> QED
      BY <2>1, <3>2, <3>3, CreatedJobs, StatusReflexive DEF StatusStep, JobsOK
  <2>3. ASSUME NEW v \in Workers, th'[v].ph = "put", th'[v].upd.status # Keep,
               th'[v].job \notin overlap' \cup exposed'
        PROVE  StatusOk(status'[th'[v].job], th'[v].upd.status)
    <3>1. ~Get(w)
      BY <1>2 DEF Put, Get
    <3>2. v # w
      BY <2>3, <3>1, StepFrame
    <3>3. th'[v] = th[v] /\ overlap' = overlap /\ exposed' = exposed
      BY <3>2, StepFrame
    <3>4. StatusOk(status[th[v].job], th[v].upd.status)
      BY <2>3, <3>3 DEF StatusInv, PendingOk
    <3>5. th[v].job # j
      <4>1. j \in Created
        <5>1. th[w].ph = "put"
          BY <1>2 DEF Put
        <5>2. th[w] # Idle
          BY <5>1 DEF Idle, At
        <5> QED
          BY <5>2 DEF ThreadsOK, ThreadOK
      <4> QED
        BY <2>3, <3>2, <3>3, <4>1, NoJobNotCreated DEF StatusInv, OneRunner
    <3> QED
      BY <2>1, <3>3, <3>4, <3>5 DEF JobsOK
  <2> QED
    BY <1>1, <2>2, <2>3 DEF StatusInv, PendingOk
<1>3. CASE ~Put(w)
  <2>1. status' = status
    BY <1>3 DEF Step, Get, Skip, Refuse, MarkFile, ClearIndex, StoreIndex, FileRaises,
                AddCounts, rowVars
  <2>2. ASSUME NEW v \in Workers, th'[v].ph = "put", th'[v].upd.status # Keep,
               th'[v].job \notin overlap' \cup exposed'
        PROVE  StatusOk(status'[th'[v].job], th'[v].upd.status)
    <3>1. CASE v # w
      BY <2>1, <2>2, <3>1, StepFrame DEF StatusInv, PendingOk
    <3>2. CASE v = w
      <4>1. Get(w)
        BY <2>2, <3>2, StepFrame
      <4>2. th'[w].upd.status = ReportStatus(th[w].pc) /\ th'[w].job = th[w].job
        BY <4>1 DEF Get, ThreadsOK, ThreadStates
      <4> QED
        BY <2>1, <2>2, <3>2, <4>1, <4>2 DEF Get, Accepted
    <3> QED
      BY <3>1, <3>2
  <2> QED
    BY <1>1, <2>1, <2>2, StatusSame DEF StatusInv, PendingOk
<1> QED
  BY <1>2, <1>3

LEMMA StatusInit == Init => StatusInv
  BY DEF Init, StatusInv, OneRunner, PendingOk, Idle, At

LEMMA StatusNext == TypeOK /\ StatusInv /\ [Next]_vars => StatusInv' /\ StatusStep
<1> SUFFICES ASSUME JobsOK, ThreadsOK, StatusInv, [Next]_vars
             PROVE  StatusInv' /\ StatusStep
  BY TypeSplit
<1>1. CASE \/ \E fs \in FileLists : CreateJob(fs)
           \/ \E j \in Jobs : RetryJob(j)
           \/ \E j \in Jobs : CancelRead(j)
           \/ PollFetch
           \/ UNCHANGED vars
  BY <1>1, StatusQuiet
     DEF CreateJob, RetryJob, CancelRead, PollFetch, vars, rowVars, cancelVars, historyVars
<1>2. CASE CancelWrite
  BY <1>2, StatusCancel
<1>3. ASSUME NEW w \in Threads, NEW j \in Jobs, StartTask(w, j)
      PROVE  StatusInv' /\ StatusStep
  <2>1. j \in Created /\ w \in Workers
    BY <1>3 DEF StartTask, JobsOK, Workers
  <2> QED
    BY <1>3, <2>1, StatusRun DEF StartTask, rowVars, cancelVars
<1>4. ASSUME NEW j \in Jobs, PollRun(j) PROVE StatusInv' /\ StatusStep
  <2>1. j \in Created /\ Poller \in Workers
    BY <1>4 DEF PollRun, JobsOK, Workers
  <2> QED
    BY <1>4, <2>1, StatusRun DEF PollRun, rowVars, cancelVars
<1>5. ASSUME NEW w \in Workers, Step(w) PROVE StatusInv' /\ StatusStep
  BY <1>5, StatusThread
<1>6. CASE Crash
  <2>1. StatusInv'
    BY <1>6 DEF Crash, StatusInv, OneRunner, PendingOk, Idle, At
  <2> QED
    BY <1>6, <2>1, StatusSame DEF Crash, rowVars
<1> QED
  BY <1>1, <1>2, <1>3, <1>4, <1>5, <1>6 DEF Next, Handler

\* Every status change of a job that one thread at a time runs, and that is not
\* cancelled inside a status update, follows ALLOWED_STATUS_TRANSITIONS, although
\* update_progress writes the row without looking at it again.
THEOREM StatusFollowsMachine == Spec => StatusMachine
<1>1. TypeOK /\ StatusInv /\ [Next]_vars =>
        [\A j \in Created \ (overlap' \cup exposed') : StatusOk(status[j], status'[j])]_vars
  BY StatusNext DEF StatusStep
<1> QED
  BY <1>1, StatusInit, StatusNext, TypeInit, TypeNext, PTL DEF Spec, StatusMachine

-----------------------------------------------------------------------------
(* The limit on active jobs.                                                *)

Limited == Active \ (overlap \cup exposed)

LEMMA CreatedFinite == JobsOK => IsFiniteSet(Created) /\ IsFiniteSet(Active)
<1> SUFFICES ASSUME JobsOK PROVE IsFiniteSet(Created) /\ IsFiniteSet(Active)
  OBVIOUS
<1>1. IsFiniteSet(Created)
  BY FS_Interval, SMT DEF JobsOK, Created
<1> QED
  BY <1>1, FS_Subset DEF Active

\* A step that creates no job activates none of the jobs the limit is about.
LEMMA LimitedShrinks ==
  ASSUME JobsOK, StatusStep, created' = created, overlap \subseteq overlap',
         exposed \subseteq exposed', Cardinality(Limited) <= MaxActive
  PROVE  (Cardinality(Limited) <= MaxActive)'
<1>1. Limited' \subseteq Limited
  <2> SUFFICES ASSUME NEW j \in Limited' PROVE j \in Limited
    OBVIOUS
  <2>1. j \in Created /\ status'[j] \in Cancellable /\ StatusOk(status[j], status'[j])
    BY DEF Limited, Active, Created, StatusStep
  <2>2. status[j] \in Statuses
    BY <2>1, CreatedJobs DEF JobsOK
  <2>3. status[j] \in Cancellable
    BY <2>1, <2>2 DEF StatusOk, AllowedFrom, Cancellable, Statuses
  <2> QED
    BY <2>1, <2>3 DEF Limited, Active
<1>2. IsFiniteSet(Limited)
  BY CreatedFinite, FS_Subset DEF Limited
<1>3. Cardinality(Limited') <= Cardinality(Limited)
      /\ Cardinality(Limited) \in Nat /\ Cardinality(Limited') \in Nat
  BY <1>1, <1>2, FS_Subset, FS_CardinalityType
<1> QED
  BY <1>3, Constants, SMT

\* A new job is let in only below the limit.
LEMMA LimitedInsert ==
  ASSUME JobsOK, BelowLimit, UNCHANGED <<status, overlap, exposed>>,
         NEW fs \in Seq(Files) \ {<<>>}, NEW source \in Jobs \cup {NoJob},
         Insert(fs, source)
  PROVE  (Cardinality(Limited) <= MaxActive)'
<1>1. Limited' \subseteq Active \cup {created'}
  BY InsertType DEF Limited, Active
<1>2. IsFiniteSet(Active) /\ Cardinality(Active) \in Nat
  BY CreatedFinite, FS_CardinalityType
<1>3. created' \notin Active
  BY InsertType DEF Active
<1>4. IsFiniteSet(Active \cup {created'})
      /\ Cardinality(Active \cup {created'}) = Cardinality(Active) + 1
  BY <1>2, <1>3, FS_AddElement
<1>5. Cardinality(Limited') <= Cardinality(Active \cup {created'})
      /\ Cardinality(Limited') \in Nat
  BY <1>1, <1>4, FS_Subset, FS_CardinalityType
<1> QED
  BY <1>2, <1>4, <1>5, Constants, SMT DEF BelowLimit

LEMMA LimitNext ==
  TypeOK /\ StatusInv /\ ActiveLimit /\ [Next]_vars => ActiveLimit'
<1> SUFFICES ASSUME JobsOK, ThreadsOK, StatusInv, Cardinality(Limited) <= MaxActive,
                    [Next]_vars
             PROVE  (Cardinality(Limited) <= MaxActive)'
  BY TypeSplit DEF ActiveLimit, Limited
<1>1. StatusStep
  BY StatusNext, TypeSplit
<1>2. ASSUME NEW fs \in FileLists, CreateJob(fs)
      PROVE  (Cardinality(Limited) <= MaxActive)'
  BY <1>2, LimitedInsert, Constants DEF CreateJob, rowVars, cancelVars, historyVars
<1>3. ASSUME NEW j \in Jobs, RetryJob(j) PROVE (Cardinality(Limited) <= MaxActive)'
  <2>1. files[j] \in Seq(Files) \ {<<>>}
    BY <1>3 DEF RetryJob, JobsOK
  <2> QED
    BY <1>3, <2>1, LimitedInsert DEF RetryJob, rowVars, cancelVars, historyVars
<1>4. CASE (\E j \in Jobs : CancelRead(j)) \/ CancelWrite \/ Crash \/ PollFetch
           \/ UNCHANGED vars
  <2>1. created' = created /\ overlap \subseteq overlap' /\ exposed \subseteq exposed'
    BY <1>4 DEF CancelRead, CancelWrite, Crash, PollFetch, vars, jobVars, cancelVars,
                historyVars
  <2> QED
    BY <1>1, <2>1, LimitedShrinks
<1>5. CASE (\E w \in Threads, j \in Jobs : StartTask(w, j)) \/ \E j \in Jobs : PollRun(j)
  <2>1. created' = created /\ overlap \subseteq overlap' /\ exposed \subseteq exposed'
    BY <1>5 DEF StartTask, PollRun, Run, jobVars, cancelVars, historyVars
  <2> QED
    BY <1>1, <2>1, LimitedShrinks
<1>6. ASSUME NEW w \in Workers, Step(w) PROVE (Cardinality(Limited) <= MaxActive)'
  BY <1>1, <1>6, StepFrame, LimitedShrinks
<1> QED
  BY <1>2, <1>3, <1>4, <1>5, <1>6 DEF Next, Handler

\* MAX_ACTIVE_IMPORTS_PER_KB bounds the active jobs whose status no second thread and
\* no stale update can have rewritten, for any number of jobs and threads.
THEOREM ActiveJobsLimited == Spec => []ActiveLimit
<1>1. Init => ActiveLimit
  <2> SUFFICES ASSUME Init PROVE ActiveLimit
    OBVIOUS
  <2>1. Active \ (overlap \cup exposed) = {}
    BY SMT DEF Init, Active, Created
  <2> QED
    BY <2>1, FS_EmptySet, Constants, SMT DEF ActiveLimit
<1> QED
  BY <1>1, LimitNext, StatusInit, StatusNext, TypeInit, TypeNext, PTL DEF Spec

-----------------------------------------------------------------------------
(* What a run keeps in its local variables.                                 *)

\* Steps before the current file is counted as done.
NotYet == {"upload", "running", "mark", "parse0", "parse1", "chunk0", "chunk1", "embed0",
           "embed1", "index0", "clear", "store", "index1"}

\* The files that a run without an error has counted.
Finished(x) == IF x.pc \in NotYet THEN x.fi - 1 ELSE x.fi

\* An update is the one its report asks for; only mark_completed asks for 100; a run counts
\* each file once, and all of them if none failed.
LocalOK(x) ==
  /\ x.ph = "put" => x.upd.status = ReportStatus(x.pc) /\ x.upd.stage = ReportStage(x.pc)
  /\ x.last = 100 => x.pc = "count" \/ (x.pc = "completed" /\ x.ph = "put")
  /\ x.done <= Finished(x) /\ (~x.err => x.done = Finished(x))
  /\ x.pc \in {"completed", "failed", "count"} => x.fi = Len(files[x.job])
  /\ x.pc = "broken" => x.err
  /\ x.pc = "completed" => ~x.err

LocalInv == \A w \in Workers : th[w].pc # "idle" => LocalOK(th[w])

\* progress_for_stage answers 100 for the last stage only.
LEMMA ProgressBelow ==
  ASSUME NEW s \in Stages \ {"done"}, NEW i \in Int, NEW n \in Nat \ {0}, NEW num \in Int
  PROVE  ProgressForStage(s, i, n, num, 1) # 100
<1> DEFINE part == Low(s) + ((High(s) - Low(s)) * (i * 1 + Clamp(num, 1))) \div (n * 1)
<1>1. ProgressForStage(s, i, n, num, 1) = Larger(0, Smaller(99, part))
  BY DEF ProgressForStage
<1> HIDE DEF part
<1>2. Larger(0, Smaller(99, part)) # 100
  BY SMT DEF Larger, Smaller
<1> QED
  BY <1>1, <1>2

LEMMA AskedHundred ==
  ASSUME JobsOK, ThreadsOK, NEW w \in Workers, th[w].pc \in Reports
  PROVE  /\ th[w].pc = "completed" => Asked(w) = 100 /\ Tracked(w) = 100
         /\ th[w].pc # "completed" => Asked(w) # 100
         /\ th[w].pc # "completed" /\ th[w].last # 100 => Tracked(w) # 100
<1>1. th[w].pc # "idle"
  BY DEF Reports, FileReports, RunReports
<1>2. Count(w) \in Nat \ {0} /\ th[w].fi \in Int /\ th[w].last \in (0 .. 100) \cup {NoProgress}
  BY <1>1, BusyThread, SMT DEF ThreadStates
<1>3. th[w].pc = "completed" => Asked(w) = 100
  BY DEF Asked, ReportProgress, ReportStage, ProgressForStage
<1>4. ASSUME th[w].pc # "completed" PROVE Asked(w) # 100
  <2>1. CASE th[w].pc = "failed"
    BY <2>1 DEF Asked, ReportProgress, NoProgress
  <2>2. CASE th[w].pc # "failed"
    <3> DEFINE k == IF th[w].pc \in RunReports THEN 0 ELSE th[w].fi - 1
               num == IF th[w].pc \in {"upload", "parse1", "chunk1", "embed1",
                                       "index1", "index2"} THEN 1 ELSE 0
    <3>1. k \in Int /\ num \in Int
      BY <1>2, SMT
    <3>2. ReportStage(th[w].pc) \in Stages \ {"done"}
      BY <1>4, <2>2, SMT DEF Reports, FileReports, RunReports, ReportStage, Stages
    <3> HIDE DEF k, num
    <3>3. ProgressForStage(ReportStage(th[w].pc), k, Count(w), num, 1) # 100
      BY <1>2, <3>1, <3>2, ProgressBelow
    <3> QED
      BY <2>2, <3>3 DEF Asked, ReportProgress, k, num
  <2> QED
    BY <2>1, <2>2
<1> QED
  BY <1>2, <1>3, <1>4, SMT DEF Tracked, Larger, NoProgress

\* Changing one thread, to something that is right, keeps all threads right.
LEMMA OneLocal ==
  ASSUME ThreadsOK, LocalInv, NEW w \in Workers, files' = files,
         \A v \in Workers \ {w} : th'[v] = th[v],
         th'[w].pc # "idle" => LocalOK(th'[w])
  PROVE  LocalInv'
  BY DEF LocalInv, LocalOK

LEMMA GetLocal ==
  ASSUME JobsOK, ThreadsOK, LocalInv, NEW w \in Workers, Get(w)
  PROVE  LocalInv'
<1>1. th[w].pc \in Reports /\ th[w].pc # "idle" /\ th[w] \in ThreadStates /\ LocalOK(th[w])
      /\ th[w].ph = "get"
  BY DEF Get, Reports, FileReports, RunReports, ThreadsOK, LocalInv
<1>2. /\ th'[w].pc = th[w].pc /\ th'[w].job = th[w].job /\ th'[w].fi = th[w].fi
      /\ th'[w].done = th[w].done /\ th'[w].err = th[w].err /\ th'[w].ph = "put"
      /\ th'[w].last = Tracked(w)
      /\ th'[w].upd.status = ReportStatus(th[w].pc) /\ th'[w].upd.stage = ReportStage(th[w].pc)
  BY <1>1 DEF Get, ThreadStates, ThreadsOK
<1>3. Tracked(w) = 100 => th[w].pc = "completed"
  BY <1>1, AskedHundred DEF LocalOK, Reports, FileReports, RunReports
<1>4. LocalOK(th'[w])
  BY <1>1, <1>2, <1>3 DEF LocalOK, Finished
<1> QED
  BY <1>4, OneLocal, StepFrame DEF Step

\* Once its update is written or dropped a report gives way to the next step.
LEMMA AfterReport ==
  ASSUME NEW l \in Reports
  PROVE  /\ After(l) = "count" <=> l \in {"completed", "failed"}
         /\ After(l) \notin {"completed", "failed", "broken", "idle"}
         /\ After(l) \in NotYet <=> l \in NotYet \ {"index1"}
<1>1. After(l) = "count" <=> l \in {"completed", "failed"}
  BY SMT DEF Reports, FileReports, RunReports, After
<1>2. After(l) \notin {"completed", "failed", "broken", "idle"}
  BY SMT DEF Reports, FileReports, RunReports, After
<1>3. After(l) \in NotYet <=> l \in NotYet \ {"index1"}
  BY SMT DEF Reports, FileReports, RunReports, After, NotYet
<1> QED
  BY <1>1, <1>2, <1>3

LEMMA SkipLocal ==
  ASSUME JobsOK, ThreadsOK, LocalInv, NEW w \in Workers, Skip(w)
  PROVE  LocalInv'
<1>1. th[w].pc \in Throttled /\ th[w].pc \in Reports /\ th[w].pc # "idle" /\ th[w] \in ThreadStates
      /\ LocalOK(th[w]) /\ th[w].ph = "get"
  BY DEF Skip, Throttled, Reports, FileReports, ThreadsOK, LocalInv
<1>2. /\ th'[w].pc = After(th[w].pc) /\ th'[w].job = th[w].job /\ th'[w].fi = th[w].fi
      /\ th'[w].done = IF th[w].pc = "index1" THEN th[w].done + 1 ELSE th[w].done
      /\ th'[w].err = th[w].err /\ th'[w].ph = "get" /\ th'[w].last = Tracked(w)
  BY <1>1 DEF Skip, ThreadStates, ThreadsOK
<1>3. Tracked(w) # 100
  BY <1>1, AskedHundred DEF LocalOK, Throttled
<1>4. After(th[w].pc) \notin {"completed", "failed", "broken", "count"}
  BY <1>1, AfterReport DEF Throttled
<1>5. th[w].done \in Nat /\ th[w].fi \in Nat
  BY <1>1 DEF ThreadStates
<1>6. th'[w].done <= Finished(th'[w]) /\ (~th'[w].err => th'[w].done = Finished(th'[w]))
  <2>1. CASE th[w].pc = "index1"
    BY <1>1, <1>2, <1>5, <2>1, SMT DEF LocalOK, Finished, NotYet, After
  <2>2. CASE th[w].pc # "index1"
    BY <1>1, <1>2, <1>5, <2>2, SMT DEF LocalOK, Finished, NotYet, After, Throttled
  <2> QED
    BY <2>1, <2>2
<1>7. LocalOK(th'[w])
  BY <1>2, <1>3, <1>4, <1>6 DEF LocalOK
<1> QED
  BY <1>7, OneLocal, StepFrame DEF Step

LEMMA RefuseLocal ==
  ASSUME JobsOK, ThreadsOK, LocalInv, NEW w \in Workers, Refuse(w)
  PROVE  LocalInv'
<1>1. th[w].pc \in Reports /\ th[w].pc # "idle" /\ th[w] \in ThreadStates /\ LocalOK(th[w])
      /\ th[w].ph = "get"
  BY DEF Refuse, Reports, FileReports, RunReports, ThreadsOK, LocalInv
<1>2. CASE th[w].pc \in RunReports
  BY <1>1, <1>2, OneLocal, StepFrame DEF Refuse, Step, Idle, At, ThreadsOK
<1>3. CASE th[w].pc \notin RunReports
  <2>1. /\ th'[w].pc = "broken" /\ th'[w].job = th[w].job /\ th'[w].fi = th[w].fi
        /\ th'[w].done = th[w].done /\ th'[w].err = TRUE /\ th'[w].ph = "get"
        /\ th'[w].last = Tracked(w)
    BY <1>1, <1>3 DEF Refuse, ThreadStates, ThreadsOK
  <2>2. Tracked(w) # 100
    BY <1>1, <1>3, AskedHundred DEF LocalOK, RunReports, Reports, FileReports
  <2>3. th[w].done <= th[w].fi
    <3>1. th[w].done \in Nat /\ th[w].fi \in Nat
      BY <1>1 DEF ThreadStates
    <3> QED
      BY <1>1, <3>1, SMT DEF LocalOK, Finished
  <2>4. LocalOK(th'[w])
    BY <2>1, <2>2, <2>3 DEF LocalOK, Finished, NotYet
  <2> QED
    BY <2>4, OneLocal, StepFrame DEF Step
<1> QED
  BY <1>2, <1>3

LEMMA PutLocal ==
  ASSUME JobsOK, ThreadsOK, LocalInv, NEW w \in Workers, Put(w)
  PROVE  LocalInv'
<1>1. th[w].ph = "put" /\ th[w].pc # "idle" /\ th[w] \in ThreadStates
  BY DEF Put, ThreadsOK, ThreadOK, Idle, At
<1>2. th[w].pc \in Reports /\ LocalOK(th[w])
  BY <1>1 DEF ThreadsOK, ThreadOK, LocalInv
<1>3. CASE th[w].pc = "failed" /\ th[w].done = 0
  BY <1>1, <1>3, OneLocal, StepFrame DEF Put, Step, Idle, At, ThreadsOK
<1>4. CASE ~(th[w].pc = "failed" /\ th[w].done = 0)
  <2>1. /\ th'[w].pc = After(th[w].pc) /\ th'[w].job = th[w].job /\ th'[w].fi = th[w].fi
        /\ th'[w].done = IF th[w].pc = "index1" THEN th[w].done + 1 ELSE th[w].done
        /\ th'[w].err = th[w].err /\ th'[w].ph = "get" /\ th'[w].last = th[w].last
    BY <1>1, <1>4 DEF Put, ThreadStates, ThreadsOK
  <2>2. th[w].done \in Nat /\ th[w].fi \in Nat
    BY <1>1 DEF ThreadStates
  <2>3. th'[w].done <= Finished(th'[w]) /\ (~th'[w].err => th'[w].done = Finished(th'[w]))
    <3>1. CASE th[w].pc = "index1"
      BY <1>2, <2>1, <2>2, <3>1, SMT DEF LocalOK, Finished, NotYet, After
    <3>2. CASE th[w].pc # "index1"
      <4>1. Finished(th'[w]) = Finished(th[w])
        BY <1>2, <2>1, <3>2, AfterReport DEF Finished
      <4> QED
        BY <1>2, <2>1, <3>2, <4>1 DEF LocalOK
    <3> QED
      BY <3>1, <3>2
  <2>4. th[w].pc # "count"
    BY <1>2 DEF Reports, FileReports, RunReports
  <2>5. LocalOK(th'[w])
    BY <1>2, <2>1, <2>3, <2>4, AfterReport DEF LocalOK
  <2> QED
    BY <2>5, OneLocal, StepFrame DEF Step
<1> QED
  BY <1>3, <1>4

\* The steps outside the tracker: a file is marked, cleared, stored or given up, and the
\* next one or the end of the job follows.
LEMMA FileLocal ==
  ASSUME JobsOK, ThreadsOK, LocalInv, NEW w \in Workers,
         MarkFile(w) \/ ClearIndex(w) \/ StoreIndex(w) \/ FileRaises(w)
  PROVE  LocalInv'
<1>1. th[w].pc # "idle" /\ th[w] \in ThreadStates /\ LocalOK(th[w])
  BY DEF MarkFile, ClearIndex, StoreIndex, FileRaises, FileReports, ThreadsOK, LocalInv
<1>2. th[w].ph = "get"
  BY <1>1 DEF MarkFile, ClearIndex, StoreIndex, FileRaises, Reports, FileReports, RunReports,
              ThreadsOK, ThreadOK, ThreadStates
<1>3. /\ th[w].done \in Nat /\ th[w].fi \in Nat /\ th[w].err \in BOOLEAN
      /\ th[w].fi \in 1 .. Count(w) /\ Count(w) \in Nat
  BY <1>1, BusyThread DEF ThreadStates
<1>4. th'[w].job = th[w].job /\ th'[w].done = th[w].done /\ th'[w].ph = "get"
      /\ th'[w].last = th[w].last
  BY <1>1, <1>2 DEF MarkFile, NextFile, ClearIndex, StoreIndex, FileRaises, ThreadStates, ThreadsOK
<1>5. th[w].last # 100
  BY <1>1, <1>2 DEF LocalOK, MarkFile, ClearIndex, StoreIndex, FileRaises, FileReports
<1>6. CASE FileRaises(w)
  <2>1. th'[w].pc = "broken" /\ th'[w].err = TRUE /\ th'[w].fi = th[w].fi
    BY <1>1, <1>6 DEF FileRaises, ThreadStates, ThreadsOK
  <2>2. th[w].done <= th[w].fi
    BY <1>1, <1>3, SMT DEF LocalOK, Finished
  <2>3. LocalOK(th'[w])
    BY <1>4, <1>5, <2>1, <2>2 DEF LocalOK, Finished, NotYet
  <2> QED
    BY <1>6, <2>3, OneLocal, StepFrame DEF Step
<1>7. CASE ClearIndex(w) \/ StoreIndex(w) \/ (MarkFile(w) /\ th[w].pc = "mark")
  <2>1. /\ th[w].pc \in {"clear", "store", "mark"} /\ th'[w].pc \in {"store", "index1", "parse0"}
        /\ th'[w].err = th[w].err /\ th'[w].fi = th[w].fi
    BY <1>1, <1>7 DEF ClearIndex, StoreIndex, MarkFile, ThreadStates, ThreadsOK
  <2>2. Finished(th'[w]) = Finished(th[w])
    BY <2>1 DEF Finished, NotYet
  <2>3. LocalOK(th'[w])
    BY <1>1, <1>4, <1>5, <2>1, <2>2 DEF LocalOK
  <2> QED
    BY <1>7, <2>3, OneLocal, StepFrame DEF Step
<1>8. CASE MarkFile(w) /\ th[w].pc # "mark"
  <2>1. th[w].pc \in {"ready", "broken"} /\ Finished(th[w]) = th[w].fi
    BY <1>8 DEF MarkFile, Finished, NotYet
  <2>2. CASE th[w].fi < Count(w)
    <3>1. th'[w].pc = "mark" /\ th'[w].fi = th[w].fi + 1 /\ th'[w].err = th[w].err
      BY <1>1, <1>8, <2>2 DEF MarkFile, NextFile, ThreadStates, ThreadsOK
    <3>2. Finished(th'[w]) = th[w].fi
      BY <1>3, <3>1, SMT DEF Finished, NotYet
    <3>3. LocalOK(th'[w])
      BY <1>1, <1>4, <1>5, <2>1, <3>1, <3>2 DEF LocalOK
    <3> QED
      BY <1>8, <3>3, OneLocal, StepFrame DEF Step
  <2>3. CASE ~(th[w].fi < Count(w))
    <3>1. /\ th'[w].pc = (IF th[w].err THEN "failed" ELSE "completed")
          /\ th'[w].fi = th[w].fi /\ th'[w].err = th[w].err
      BY <1>1, <1>8, <2>3 DEF MarkFile, NextFile, ThreadStates, ThreadsOK
    <3>2. Finished(th'[w]) = th[w].fi /\ th[w].fi = Count(w)
      BY <1>3, <2>3, <3>1, SMT DEF Finished, NotYet
    <3>3. LocalOK(th'[w])
      BY <1>1, <1>4, <1>5, <2>1, <3>1, <3>2 DEF LocalOK, Count
    <3> QED
      BY <1>8, <3>3, OneLocal, StepFrame DEF Step
  <2> QED
    BY <2>2, <2>3
<1> QED
  BY <1>6, <1>7, <1>8

\* A run begins with nothing done and nothing reported.
LEMMA RunLocal ==
  ASSUME JobsOK, ThreadsOK, LocalInv, NEW w \in Workers, NEW j \in Created, Run(w, j), files' = files
  PROVE  LocalInv'
<1>1. CASE status[j] \in Terminal
  BY <1>1 DEF Run, LocalInv, LocalOK
<1>2. CASE status[j] \notin Terminal
  <2>1. /\ th'[w] = At(IF status[j] = "queued" THEN "upload" ELSE "mark", j, 1)
        /\ \A v \in Workers \ {w} : th'[v] = th[v]
    BY <1>2 DEF Run, ThreadsOK
  <2>2. LocalOK(th'[w])
    BY <2>1, SMT DEF LocalOK, At, Finished, NotYet, NoProgress
  <2> QED
    BY <2>1, <2>2, OneLocal
<1> QED
  BY <1>1, <1>2

LEMMA LocalNext == TypeOK /\ LocalInv /\ [Next]_vars => LocalInv'
<1> SUFFICES ASSUME JobsOK, ThreadsOK, LocalInv, [Next]_vars PROVE LocalInv'
  BY TypeSplit
<1>1. ASSUME NEW fs \in Seq(Files) \ {<<>>}, NEW source \in Jobs \cup {NoJob}, Insert(fs, source),
             th' = th
      PROVE  LocalInv'
  <2>1. \A w \in Workers : th[w].pc # "idle" => th[w].job \in Created
    BY DEF ThreadsOK, ThreadOK
  <2> QED
    BY <1>1, <2>1, InsertType DEF LocalInv, LocalOK
<1>2. CASE Handler
  <2>1. ASSUME NEW fs \in FileLists, CreateJob(fs) PROVE LocalInv'
    BY <1>1, <2>1, Constants DEF CreateJob
  <2>2. ASSUME NEW j \in Jobs, RetryJob(j) PROVE LocalInv'
    <3>1. files[j] \in Seq(Files) \ {<<>>}
      BY <2>2 DEF RetryJob, JobsOK
    <3> QED
      BY <1>1, <2>2, <3>1 DEF RetryJob
  <2>3. CASE (\E j \in Jobs : CancelRead(j)) \/ CancelWrite
    BY <2>3 DEF CancelRead, CancelWrite, jobVars, LocalInv, LocalOK
  <2> QED
    BY <1>2, <2>1, <2>2, <2>3 DEF Handler
<1>3. ASSUME NEW w \in Threads, NEW j \in Jobs, StartTask(w, j) PROVE LocalInv'
  BY <1>3, RunLocal DEF StartTask, JobsOK, Workers, jobVars
<1>4. ASSUME NEW j \in Jobs, PollRun(j) PROVE LocalInv'
  BY <1>4, RunLocal DEF PollRun, JobsOK, Workers, jobVars
<1>5. CASE PollFetch \/ UNCHANGED vars
  BY <1>5 DEF PollFetch, vars, jobVars, LocalInv, LocalOK
<1>6. ASSUME NEW w \in Workers, AddCounts(w) PROVE LocalInv'
  BY <1>6, OneLocal, StepFrame DEF AddCounts, Step, Idle, At, ThreadsOK
<1>7. ASSUME NEW w \in Workers, Step(w) PROVE LocalInv'
  BY <1>6, <1>7, GetLocal, SkipLocal, RefuseLocal, PutLocal, FileLocal DEF Step
<1>8. CASE Crash
  BY <1>8 DEF Crash, LocalInv, Idle, At
<1> QED
  BY <1>2, <1>3, <1>4, <1>5, <1>7, <1>8 DEF Next

LEMMA LocalInit == Init => LocalInv
  BY DEF Init, LocalInv, Idle, At

-----------------------------------------------------------------------------
(* What the job row shows, and what a run has yet to count.                 *)

\* A job that is not created yet is as Init left it.
Fresh ==
  \A j \in Jobs \ Created :
    status[j] = "queued" /\ stage[j] = "upload" /\ progress[j] = 0 /\ credit[j] = 0

\* What CompletedIsDone and CountedOnce say of one job.
RowOK(j) ==
  /\ status[j] = "completed" <=> stage[j] = "done"
  /\ status[j] = "completed" <=> progress[j] = 100
  /\ credit[j] <= Len(files[j])
  /\ credit[j] > 0 => status[j] \in {"completed", "failed"}
  /\ status[j] = "completed" /\ RunsOf(j) = {} /\ crashes = 0 /\ ~SinksMayFail
       => credit[j] = Len(files[j])

\* A job that is being run is not counted yet; its run comes to the counts only after
\* the last report, is past its reports once the row says completed, and writes
\* progress 100 with mark_completed alone.
RunOK(w, j) ==
  /\ credit[j] = 0
  /\ th[w].pc = "count" => status[j] \in {"completed", "failed"}
  /\ status[j] = "completed" => th[w].pc = "count" /\ ~th[w].err
  /\ th[w].ph = "put" => (th[w].pc = "completed" <=> th[w].upd.progress = 100)

RowInv ==
  /\ Fresh
  /\ \A j \in Created \ overlap :
       /\ RowOK(j)
       /\ \A w \in Workers : th[w].job = j => RunOK(w, j)

\* A thread that changes no row but its job's, in which it is alone, disturbs no other job.
LEMMA RowStep ==
  ASSUME JobsOK, ThreadsOK, OneRunner, RowInv, NEW w \in Workers, Step(w), crashes' = crashes,
         NEW j \in Created, th[w].job = j,
         \A k \in Jobs \ {j} : /\ status'[k] = status[k] /\ stage'[k] = stage[k]
                               /\ progress'[k] = progress[k] /\ credit'[k] = credit[k],
         j \notin overlap => RowOK(j)' /\ (th'[w].job = j => RunOK(w, j)')
  PROVE  RowInv'
<1>1. /\ created' = created /\ files' = files /\ overlap' = overlap
      /\ \A v \in Workers \ {w} : th'[v] = th[v]
      /\ th'[w].job \in {j, NoJob}
  BY StepFrame
<1>2. Created' = Created /\ Created \subseteq Jobs /\ NoJob \notin Created
  BY <1>1, CreatedJobs, NoJobNotCreated DEF Created
<1>3. Fresh'
  BY <1>2 DEF RowInv, Fresh
<1>4. ASSUME NEW k \in Created \ overlap PROVE RowOK(k)'
  <2>1. CASE k = j
    BY <1>4, <2>1
  <2>2. CASE k # j
    <3>1. RunsOf(k)' = RunsOf(k)
      BY <1>1, <1>2, <2>2 DEF RunsOf
    <3>2. RowOK(k)
      BY DEF RowInv
    <3> QED
      BY <1>1, <1>2, <2>2, <3>1, <3>2 DEF RowOK
  <2> QED
    BY <2>1, <2>2
<1>5. ASSUME NEW k \in Created \ overlap, NEW v \in Workers, th'[v].job = k PROVE RunOK(v, k)'
  <2>1. CASE v = w
    BY <1>1, <1>2, <1>5, <2>1
  <2>2. CASE v # w
    <3>1. th'[v] = th[v] /\ k # j
      BY <1>1, <1>2, <1>5, <2>2 DEF OneRunner
    <3>2. RunOK(v, k)
      BY <1>5, <3>1 DEF RowInv
    <3> QED
      BY <1>2, <3>1, <3>2 DEF RunOK
  <2> QED
    BY <2>1, <2>2
<1> QED
  BY <1>1, <1>2, <1>3, <1>4, <1>5 DEF RowInv

\* Steps of a run that write no row.
LEMMA RowQuiet ==
  ASSUME JobsOK, ThreadsOK, OneRunner, RowInv, NEW w \in Workers, Step(w),
         th[w].pc \notin {"idle", "count"},
         UNCHANGED <<status, stage, progress, credit, crashes>>,
         th'[w].job = th[w].job => th'[w].pc # "count",
         th'[w].job = th[w].job /\ th[w].job \notin overlap /\ th'[w].ph = "put"
           => (th'[w].pc = "completed" <=> th'[w].upd.progress = 100)
  PROVE  RowInv'
<1> DEFINE j == th[w].job
<1>1. j \in Created /\ files' = files
  BY BusyThread, StepFrame
<1>2. ASSUME j \notin overlap PROVE RowOK(j) /\ RunOK(w, j) /\ status[j] # "completed"
  BY <1>1, <1>2 DEF RowInv, RunOK
<1> HIDE DEF j
<1>3. ASSUME j \notin overlap, NEW k \in {j} PROVE RowOK(k)' /\ (th'[w].job = k => RunOK(w, k)')
  <2>1. RowOK(k)'
    BY <1>1, <1>2, <1>3 DEF RowOK
  <2>2. th'[w].job = k => RunOK(w, k)'
    BY <1>2, <1>3 DEF RunOK, j
  <2> QED
    BY <2>1, <2>2
<1> QED
  <2>1. PICK k \in Created : k = j
    BY <1>1
  <2>2. k \notin overlap => RowOK(k)' /\ (th'[w].job = k => RunOK(w, k)')
    BY <1>3, <2>1
  <2> QED
    BY <2>1, <2>2, RowStep DEF j

LEMMA RowGet ==
  ASSUME JobsOK, ThreadsOK, OneRunner, LocalInv, RowInv, NEW w \in Workers, Get(w)
  PROVE  RowInv'
<1>1. th[w].pc \in Reports /\ th[w].pc \notin {"idle", "count"} /\ LocalOK(th[w]) /\ th[w].ph = "get"
      /\ th[w].job \in Created /\ th[w].job \in Jobs
  <2>1. th[w].pc \in Reports /\ th[w].pc \notin {"idle", "count"} /\ th[w].ph = "get"
    BY DEF Get, Reports, FileReports, RunReports
  <2> QED
    BY <2>1, BusyThread DEF LocalInv
<1>2. /\ th'[w].pc = th[w].pc
      /\ th'[w].upd.progress = IF th[w].pc = "failed" THEN NoProgress
                               ELSE Larger(progress[th[w].job], Tracked(w))
  BY DEF Get, ThreadsOK, ThreadStates
<1>3. ASSUME th[w].job \notin overlap
      PROVE  th[w].pc = "completed" <=> th'[w].upd.progress = 100
  <2>1. progress[th[w].job] # 100
    BY <1>1, <1>3 DEF RowInv, RowOK, RunOK
  <2>2. th[w].last # 100
    BY <1>1 DEF LocalOK
  <2>3. progress[th[w].job] \in 0 .. 100 /\ Tracked(w) \in (0 .. 100) \cup {NoProgress}
    BY <1>1, AskedInRange DEF JobsOK
  <2>4. CASE th[w].pc = "completed"
    <3>1. Tracked(w) = 100
      BY <1>1, <2>4, AskedHundred
    <3> QED
      BY <1>2, <2>3, <2>4, <3>1, SMT DEF Larger
  <2>5. CASE th[w].pc # "completed"
    <3>1. Tracked(w) # 100
      BY <1>1, <2>2, <2>5, AskedHundred
    <3> QED
      BY <1>2, <2>1, <2>5, <3>1, SMT DEF Larger, NoProgress
  <2> QED
    BY <2>4, <2>5
<1>4. UNCHANGED <<status, stage, progress, credit, crashes>>
  BY DEF Get, rowVars, kbVars
<1> QED
  BY <1>1, <1>2, <1>3, <1>4, RowQuiet DEF Step

LEMMA RowPut ==
  ASSUME JobsOK, ThreadsOK, OneRunner, LocalInv, RowInv, NEW w \in Workers, Put(w)
  PROVE  RowInv'
<1>1. /\ th[w].ph = "put" /\ th[w].pc # "idle" /\ th[w] \in ThreadStates
      /\ th[w].pc \in Reports
  BY DEF Put, ThreadsOK, ThreadOK, Idle, At
<1>2. PICK j \in Created : j = th[w].job
  BY <1>1, BusyThread
<1>3. j \in Jobs /\ LocalOK(th[w]) /\ th[w].pc # "count"
  BY <1>1, <1>2, CreatedJobs DEF LocalInv, Reports, FileReports, RunReports
<1> DEFINE u == th[w].upd
<1>4. u.status = ReportStatus(th[w].pc) /\ u.stage = ReportStage(th[w].pc)
  BY <1>1, <1>3 DEF LocalOK
<1>5. /\ status' = IF u.status = Keep THEN status ELSE [status EXCEPT ![j] = u.status]
      /\ stage' = IF u.stage = Keep THEN stage ELSE [stage EXCEPT ![j] = u.stage]
      /\ progress' = IF u.progress = NoProgress THEN progress
                     ELSE [progress EXCEPT ![j] = u.progress]
      /\ credit' = credit /\ crashes' = crashes /\ files' = files
  BY <1>2 DEF Put, kbVars, jobVars
<1>6. /\ status'[j] = IF u.status = Keep THEN status[j] ELSE u.status
      /\ stage'[j] = IF u.stage = Keep THEN stage[j] ELSE u.stage
      /\ progress'[j] = IF u.progress = NoProgress THEN progress[j] ELSE u.progress
      /\ \A k \in Jobs \ {j} : /\ status'[k] = status[k] /\ stage'[k] = stage[k]
                               /\ progress'[k] = progress[k] /\ credit'[k] = credit[k]
  BY <1>3, <1>5 DEF JobsOK
<1> HIDE DEF u
<1>7. /\ th'[w].job = j => th'[w].pc = After(th[w].pc) /\ th'[w].ph = "get" /\ th'[w].err = th[w].err
      /\ th'[w].job # j => th[w].pc = "failed"
  BY <1>1, <1>2, NoJobNotCreated DEF Put, ThreadsOK, ThreadStates, Idle, At
<1>8. ASSUME j \notin overlap PROVE RowOK(j)' /\ (th'[w].job = j => RunOK(w, j)')
  <2>1. RowOK(j) /\ RunOK(w, j) /\ status[j] # "completed"
    BY <1>2, <1>3, <1>8 DEF RowInv, RunOK
  <2>2. stage[j] # "done" /\ progress[j] # 100 /\ credit[j] = 0 /\ credit'[j] = 0
    BY <1>5, <2>1 DEF RowOK, RunOK
  <2>3. th[w].pc = "completed" <=> u.progress = 100
    BY <1>1, <2>1 DEF RunOK, u
  <2>4. CASE th[w].pc = "completed"
    <3>1. u.status = "completed" /\ u.stage = "done" /\ u.progress = 100
      BY <1>4, <2>3, <2>4 DEF ReportStatus, ReportStage
    <3>2. status'[j] = "completed" /\ stage'[j] = "done" /\ progress'[j] = 100
      BY <1>6, <3>1 DEF Keep, NoProgress
    <3>3. th'[w].job = j
      BY <1>7, <2>4
    <3>4. w \in RunsOf(j)'
      BY <3>3 DEF RunsOf
    <3>5. RowOK(j)'
      BY <1>5, <2>1, <2>2, <3>2, <3>4 DEF RowOK
    <3>6. ~th[w].err /\ After(th[w].pc) = "count"
      BY <1>1, <1>3, <2>4, AfterReport DEF LocalOK
    <3> QED
      BY <1>7, <2>2, <3>2, <3>3, <3>5, <3>6 DEF RunOK
  <2>5. CASE th[w].pc # "completed"
    <3>1. u.status \in {Keep, "running", "failed"} /\ u.stage # "done" /\ u.progress # 100
      <4>1. ReportStage(th[w].pc) # "done"
        BY <1>1, <2>5, SMT DEF ReportStage, Reports, FileReports, RunReports, Keep
      <4> QED
        BY <1>4, <2>3, <2>5, <4>1 DEF ReportStatus
    <3>2. status'[j] # "completed" /\ stage'[j] # "done" /\ progress'[j] # 100
      BY <1>6, <2>1, <2>2, <3>1
    <3>3. RowOK(j)'
      BY <1>5, <2>1, <2>2, <3>2 DEF RowOK
    <3>4. After(th[w].pc) = "count" => status'[j] = "failed"
      BY <1>1, <1>4, <1>6, <2>5, AfterReport DEF ReportStatus, Keep
    <3> QED
      BY <1>7, <2>2, <3>2, <3>3, <3>4 DEF RunOK
  <2> QED
    BY <2>4, <2>5
<1> QED
  BY <1>2, <1>5, <1>6, <1>8, RowStep DEF Step

\* The counts come once, after the last report, and hold every file that did not fail.
LEMMA RowCount ==
  ASSUME JobsOK, ThreadsOK, OneRunner, LocalInv, RowInv, NEW w \in Workers, AddCounts(w)
  PROVE  RowInv'
<1>1. th[w].pc = "count" /\ th[w].pc # "idle" /\ th[w] \in ThreadStates /\ LocalOK(th[w])
  BY DEF AddCounts, ThreadsOK, LocalInv
<1>2. PICK j \in Created : j = th[w].job
  BY <1>1, BusyThread
<1>3. j \in Jobs /\ th'[w].job # j
  BY <1>1, <1>2, CreatedJobs, NoJobNotCreated DEF AddCounts, ThreadsOK, Idle, At
<1>4. /\ UNCHANGED <<status, stage, progress, crashes, files>>
      /\ credit' = [credit EXCEPT ![j] = @ + th[w].done] \/ (SinksMayFail /\ credit' = credit)
  BY <1>2 DEF AddCounts, rowVars, jobVars
<1>5. \A k \in Jobs \ {j} : credit'[k] = credit[k]
  BY <1>3, <1>4 DEF JobsOK
<1>6. /\ th[w].done \in Nat /\ th[w].fi \in Nat /\ th[w].fi = Len(files[j])
      /\ th[w].done <= th[w].fi /\ (~th[w].err => th[w].done = th[w].fi)
  BY <1>1, <1>2 DEF ThreadStates, LocalOK, Finished, NotYet
<1>7. ASSUME j \notin overlap PROVE RowOK(j)'
  <2>1. RowOK(j) /\ RunOK(w, j)
    BY <1>2, <1>7 DEF RowInv
  <2>2. status[j] \in {"completed", "failed"} /\ credit[j] = 0
    BY <1>1, <2>1 DEF RunOK
  <2>3. credit'[j] = th[w].done \/ (SinksMayFail /\ credit'[j] = 0)
    BY <1>3, <1>4, <1>6, <2>2 DEF JobsOK
  <2>4. credit'[j] <= Len(files[j])
    BY <1>6, <2>3, SMT
  <2>5. status[j] = "completed" /\ ~SinksMayFail => credit'[j] = Len(files[j])
    BY <1>6, <2>1, <2>3 DEF RunOK
  <2> QED
    BY <1>4, <2>1, <2>2, <2>4, <2>5 DEF RowOK
<1> QED
  BY <1>2, <1>3, <1>4, <1>5, <1>7, RowStep DEF Step

LEMMA RowThread ==
  ASSUME JobsOK, ThreadsOK, OneRunner, LocalInv, RowInv, NEW w \in Workers, Step(w)
  PROVE  RowInv'
<1>1. CASE Skip(w)
  <2>1. th[w].pc \in Throttled /\ th[w].pc \in Reports
    BY <1>1 DEF Skip, Throttled, Reports, FileReports
  <2>2. th'[w].pc # "count" /\ th'[w].ph = "get"
    BY <1>1, <2>1, AfterReport DEF Skip, Throttled, ThreadsOK, ThreadStates
  <2> QED
    BY <1>1, <2>1, <2>2, RowQuiet DEF Skip, Step, rowVars, kbVars, Throttled
<1>2. CASE Refuse(w)
  <2>1. th[w].pc \notin {"idle", "count"}
    BY <1>2 DEF Refuse, Reports, FileReports, RunReports
  <2>2. th'[w].pc # "count" /\ th'[w].ph = "get"
    BY <1>2 DEF Refuse, Idle, At, ThreadsOK, ThreadStates
  <2> QED
    BY <1>2, <2>1, <2>2, RowQuiet DEF Refuse, Step, rowVars, kbVars
<1>3. CASE MarkFile(w) \/ ClearIndex(w) \/ StoreIndex(w) \/ FileRaises(w)
  <2>1. th[w].pc \notin {"idle", "count"}
    BY <1>3 DEF MarkFile, ClearIndex, StoreIndex, FileRaises, FileReports
  <2>2. th'[w].pc # "count"
    BY <1>3 DEF MarkFile, NextFile, ClearIndex, StoreIndex, FileRaises, ThreadsOK, ThreadStates
  <2>3. th'[w].ph = "get"
    <3>1. th[w].ph = "get"
      BY <1>3, <2>1, BusyThread
         DEF MarkFile, ClearIndex, StoreIndex, FileRaises, Reports, FileReports, RunReports,
             ThreadStates, ThreadsOK, ThreadOK
    <3> QED
      BY <1>3, <3>1 DEF MarkFile, NextFile, ClearIndex, StoreIndex, FileRaises, ThreadsOK,
                        ThreadStates
  <2>4. UNCHANGED <<status, stage, progress, credit, crashes>>
    BY <1>3 DEF MarkFile, ClearIndex, StoreIndex, FileRaises, rowVars, kbVars
  <2> QED
    BY <2>1, <2>2, <2>3, <2>4, RowQuiet
<1> QED
  BY <1>1, <1>2, <1>3, RowGet, RowPut, RowCount DEF Step

\* A run begins on a job that is neither completed nor failed, hence not counted.
LEMMA RowRun ==
  ASSUME JobsOK, ThreadsOK, OneRunner, RowInv, NEW w \in Workers, NEW j \in Created,
         th[w].pc = "idle", Run(w, j),
         UNCHANGED <<created, files, status, stage, progress, credit, crashes>>
  PROVE  RowInv'
<1>1. CASE status[j] \in Terminal
  BY <1>1 DEF Run, historyVars, RowInv, Fresh, RowOK, RunOK, RunsOf, Created
<1>2. CASE status[j] \notin Terminal
  <2>1. /\ th'[w].job = j /\ th'[w].ph = "get" /\ th'[w].pc # "count"
        /\ \A v \in Workers \ {w} : th'[v] = th[v]
    BY <1>2 DEF Run, ThreadsOK, At
  <2>2. overlap \subseteq overlap' /\ th[w].job = NoJob
    BY <1>2 DEF Run, ThreadsOK, ThreadOK, Idle, At
  <2>3. Fresh' /\ Created' = Created /\ NoJob \notin Created
    BY NoJobNotCreated DEF RowInv, Fresh, Created
  <2>4. ASSUME NEW k \in Created \ overlap'
        PROVE  RowOK(k)' /\ \A v \in Workers : th'[v].job = k => RunOK(v, k)'
    <3>1. RowOK(k) /\ \A v \in Workers : th[v].job = k => RunOK(v, k)
      BY <2>2, <2>4 DEF RowInv
    <3>2. k # j => RunsOf(k)' = RunsOf(k)
      BY <2>1, <2>2, <2>3, <2>4 DEF RunsOf
    <3>3. RowOK(k)'
      BY <1>2, <3>1, <3>2 DEF RowOK, Terminal
    <3>4. ASSUME NEW v \in Workers, th'[v].job = k PROVE RunOK(v, k)'
      <4>1. CASE v # w
        BY <2>1, <3>1, <3>4, <4>1 DEF RunOK
      <4>2. CASE v = w
        <5>1. k = j /\ status[j] \notin {"completed", "failed"}
          BY <1>2, <2>1, <3>4, <4>2 DEF Terminal
        <5>2. credit[j] = 0
          <6>1. credit[j] \in Nat
            BY CreatedJobs DEF JobsOK
          <6> QED
            BY <3>1, <5>1, <6>1, SMT DEF RowOK
        <5> QED
          BY <2>1, <4>2, <5>1, <5>2 DEF RunOK
      <4> QED
        BY <4>1, <4>2
    <3> QED
      BY <3>3, <3>4
  <2> QED
    BY <2>3, <2>4 DEF RowInv
<1> QED
  BY <1>1, <1>2

LEMMA RowInsert ==
  ASSUME JobsOK, ThreadsOK, RowInv, NEW fs \in Seq(Files) \ {<<>>},
         NEW source \in Jobs \cup {NoJob}, Insert(fs, source),
         UNCHANGED <<status, stage, progress, credit, crashes, th, overlap>>
  PROVE  RowInv'
<1>1. Fresh'
  BY InsertType DEF RowInv, Fresh
<1>2. ASSUME NEW j \in Created' \ overlap', j \in Created
      PROVE  RowOK(j)' /\ \A w \in Workers : th'[w].job = j => RunOK(w, j)'
  <2>1. RowOK(j) /\ \A w \in Workers : th[w].job = j => RunOK(w, j)
    BY <1>2 DEF RowInv
  <2>2. files'[j] = files[j] /\ RunsOf(j)' = RunsOf(j)
    BY <1>2, InsertType DEF RunsOf
  <2>3. RowOK(j)'
    BY <2>1, <2>2 DEF RowOK
  <2> QED
    BY <2>1, <2>3 DEF RunOK
<1>3. ASSUME NEW j \in Created' \ overlap', j \notin Created
      PROVE  RowOK(j)' /\ \A w \in Workers : th'[w].job = j => RunOK(w, j)'
  <2>1. j \in Jobs /\ files'[j] = fs /\ Len(fs) \in Nat
    BY <1>3, InsertType
  <2>2. status[j] = "queued" /\ stage[j] = "upload" /\ progress[j] = 0 /\ credit[j] = 0
    BY <1>3, <2>1 DEF RowInv, Fresh
  <2>3. \A w \in Workers : th[w].job # j
    BY <1>3, <2>1, RunnersCreated DEF Jobs, NoJob
  <2> QED
    BY <2>1, <2>2, <2>3 DEF RowOK
<1> QED
  BY <1>1, <1>2, <1>3 DEF RowInv

\* A cancelled job was not counted, and no run of it had come to the counts.
LEMMA RowCancel ==
  ASSUME JobsOK, ThreadsOK, RowInv, CancelWrite
  PROVE  RowInv'
<1>1. UNCHANGED <<created, files, stage, progress, credit, th, overlap, crashes>>
  BY DEF CancelWrite, jobVars, kbVars, historyVars
<1>2. /\ \A j \in Created \ {canceling} : status'[j] = status[j]
      /\ \A j \in Jobs \ Created : status'[j] = status[j]
      /\ status'[canceling] = status[canceling]
         \/ (status[canceling] \in Cancellable /\ status'[canceling] = "cancelled")
      /\ canceling \in Created
  BY CreatedJobs DEF CancelWrite, JobsOK
<1>3. Fresh'
  BY <1>1, <1>2 DEF RowInv, Fresh, Created
<1>4. ASSUME NEW j \in Created \ overlap
      PROVE  RowOK(j)' /\ \A w \in Workers : th'[w].job = j => RunOK(w, j)'
  <2>1. RowOK(j) /\ \A w \in Workers : th[w].job = j => RunOK(w, j)
    BY <1>4 DEF RowInv
  <2>2. CASE status'[j] = status[j]
    BY <1>1, <2>1, <2>2 DEF RowOK, RunOK, RunsOf
  <2>3. CASE status[j] \in Cancellable /\ status'[j] = "cancelled"
    <3>1. credit[j] \in Nat
      BY CreatedJobs DEF JobsOK
    <3>2. status[j] \notin {"completed", "failed"} /\ status'[j] \notin {"completed", "failed"}
      BY <2>3 DEF Cancellable
    <3>3. credit[j] = 0
      BY <2>1, <3>1, <3>2, SMT DEF RowOK
    <3>4. RowOK(j)'
      BY <1>1, <2>1, <3>2, <3>3 DEF RowOK
    <3> QED
      BY <1>1, <2>1, <3>2, <3>3, <3>4 DEF RunOK
  <2> QED
    BY <1>2, <2>2, <2>3
<1> QED
  BY <1>1, <1>3, <1>4 DEF RowInv, Created

LEMMA RowCrash ==
  ASSUME JobsOK, ThreadsOK, RowInv, Crash
  PROVE  RowInv'
<1>1. UNCHANGED <<created, files, status, stage, progress, credit, overlap>> /\ crashes' # 0
  BY SMT DEF Crash, JobsOK, jobVars, rowVars, kbVars, historyVars
<1>2. \A w \in Workers : th'[w].job = NoJob
  BY DEF Crash, Idle, At
<1> QED
  BY <1>1, <1>2, NoJobNotCreated DEF RowInv, Fresh, RowOK, RunOK, Created

LEMMA RowNext == TypeOK /\ StatusInv /\ LocalInv /\ RowInv /\ [Next]_vars => RowInv'
<1> SUFFICES ASSUME JobsOK, ThreadsOK, OneRunner, LocalInv, RowInv, [Next]_vars PROVE RowInv'
  BY TypeSplit DEF StatusInv
<1>1. ASSUME NEW fs \in FileLists, CreateJob(fs) PROVE RowInv'
  BY <1>1, RowInsert, Constants DEF CreateJob, rowVars, kbVars, historyVars
<1>2. ASSUME NEW j \in Jobs, RetryJob(j) PROVE RowInv'
  <2>1. files[j] \in Seq(Files) \ {<<>>}
    BY <1>2 DEF RetryJob, JobsOK
  <2> QED
    BY <1>2, <2>1, RowInsert DEF RetryJob, rowVars, kbVars, historyVars
<1>3. CASE (\E j \in Jobs : CancelRead(j)) \/ PollFetch \/ UNCHANGED vars
  BY <1>3 DEF CancelRead, PollFetch, vars, jobVars, rowVars, kbVars, historyVars,
              RowInv, Fresh, RowOK, RunOK, RunsOf, Created
<1>4. ASSUME NEW w \in Threads, NEW j \in Jobs, StartTask(w, j) PROVE RowInv'
  <2>1. j \in Created /\ w \in Workers
    BY <1>4 DEF StartTask, JobsOK, Workers
  <2> QED
    BY <1>4, <2>1, RowRun DEF StartTask, jobVars, rowVars, kbVars
<1>5. ASSUME NEW j \in Jobs, PollRun(j) PROVE RowInv'
  <2>1. j \in Created /\ Poller \in Workers
    BY <1>5 DEF PollRun, JobsOK, Workers
  <2> QED
    BY <1>5, <2>1, RowRun DEF PollRun, jobVars, rowVars, kbVars
<1> QED
  BY <1>1, <1>2, <1>3, <1>4, <1>5, RowCancel, RowThread, RowCrash DEF Next, Handler

LEMMA RowInit == Init => RowInv
  BY SMT DEF Init, RowInv, Fresh, Created

\* The row agrees with itself for every job that no two threads ran at once: completed,
\* stage done and progress 100 come together, for any number of jobs, files and threads.
THEOREM CompletedRowsAreDone == Spec => []CompletedIsDone
<1>1. RowInv => CompletedIsDone
  BY DEF RowInv, RowOK, CompletedIsDone
<1> QED
  BY <1>1, RowInit, RowNext, LocalInit, LocalNext, StatusInit, StatusNext, TypeInit, TypeNext,
     PTL DEF Spec

\* add_counts credits such a job at most once and never for a cancelled one, and credits
\* every file of a completed one unless a crash or a lost write was in the way.
THEOREM JobsAreCountedOnce == Spec => []CountedOnce
<1>1. RowInv => CountedOnce
  BY DEF RowInv, RowOK, CountedOnce
<1> QED
  BY <1>1, RowInit, RowNext, LocalInit, LocalNext, StatusInit, StatusNext, TypeInit, TypeNext,
     PTL DEF Spec

-----------------------------------------------------------------------------
(* What the file list shows.                                                *)

\* Where a run has marked its current file as indexing and not yet as ready or failed,
InFile == FileReports \cup {"clear", "store", "ready", "broken"}
\* and where it has stored the file's chunks as well.
Stored == {"index1", "index2", "ready"}

FileOK(pc, f) ==
  pc \in InFile /\ f \notin clash
    => fileStatus[f] = "indexing" /\ (pc \in Stored => f \in indexed)

\* Two runs share only files that are in clash, so a file outside clash is in the hands
\* of one run, and is as that run left it.
SharedInClash ==
  \A v, w \in Workers :
    v # w /\ th[v].job # NoJob /\ th[w].job # NoJob
      => FilesOf(th[v].job) \cap FilesOf(th[w].job) \subseteq clash

FilesInv ==
  /\ SharedInClash
  /\ \A w \in Workers : th[w].pc # "idle" => FileOK(th[w].pc, CurrentFile(w))
  /\ \A f \in Files \ clash : fileStatus[f] = "ready" => f \in indexed

LEMMA FileAtHand ==
  ASSUME JobsOK, ThreadsOK, NEW w \in Workers, th[w].pc # "idle"
  PROVE  CurrentFile(w) \in FilesOf(th[w].job) /\ CurrentFile(w) \in Files
         /\ th[w].job # NoJob
  BY BusyThread, NoJobNotCreated DEF CurrentFile, FilesOf, Count

\* A thread that touches no file but its current one disturbs no other file.
LEMMA FileStep ==
  ASSUME JobsOK, ThreadsOK, FilesInv, NEW w \in Workers, Step(w), th[w].pc # "idle",
         clash' = clash, NEW f \in Files, f = CurrentFile(w),
         \A g \in Files \ {f} : fileStatus'[g] = fileStatus[g] /\ (g \in indexed' <=> g \in indexed),
         th'[w].pc \in InFile => th'[w].fi = th[w].fi /\ FileOK(th[w].pc, f)',
         f \notin clash => (fileStatus'[f] = "ready" => f \in indexed')
  PROVE  FilesInv'
<1>1. /\ created' = created /\ files' = files
      /\ \A v \in Workers \ {w} : th'[v] = th[v]
      /\ th'[w].job \in {th[w].job, NoJob}
  BY StepFrame
<1>2. ASSUME NEW v \in Workers, NEW u \in Workers, v # u, th'[v].job # NoJob, th'[u].job # NoJob
      PROVE  FilesOf(th[v].job)' \cap FilesOf(th[u].job)' \subseteq clash'
  <2>1. /\ th'[v].job = th[v].job /\ th'[u].job = th[u].job
        /\ th[v].job # NoJob /\ th[u].job # NoJob
    BY <1>1, <1>2
  <2>2. FilesOf(th[v].job) \cap FilesOf(th[u].job) \subseteq clash
    BY <1>2, <2>1 DEF FilesInv, SharedInClash
  <2> QED
    BY <1>1, <2>1, <2>2 DEF FilesOf
<1>3. ASSUME NEW v \in Workers, th'[v].pc # "idle", th'[v].pc \in InFile
      PROVE  FileOK(th[v].pc, CurrentFile(v))'
  <2>1. CASE v = w
    <3>1. th'[w].job # NoJob
      <4>1. th'[w].pc # "idle" => th'[w] # Idle
        BY DEF Idle, At
      <4>2. TypeOK'
        <5>1. Next
          BY DEF Next
        <5> QED
          BY <5>1, TypeNext, TypeSplit
      <4>3. th'[w].job \in Created'
        BY <1>3, <2>1, <4>2 DEF TypeOK
      <4> QED
        BY <1>1, <4>3, NoJobNotCreated DEF Created
    <3>2. CurrentFile(w)' = f
      BY <1>1, <1>3, <2>1, <3>1 DEF CurrentFile
    <3> QED
      BY <1>3, <2>1, <3>2
  <2>2. CASE v # w
    <3>1. th'[v] = th[v] /\ CurrentFile(v)' = CurrentFile(v) /\ CurrentFile(v) \in Files
          /\ FileOK(th[v].pc, CurrentFile(v))
      BY <1>1, <1>3, <2>2, FileAtHand DEF CurrentFile, FilesInv
    <3>2. CASE CurrentFile(v) = f
      <4>1. f \in clash
        BY <1>1, <1>3, <2>2, <3>1, <3>2, FileAtHand DEF FilesInv, SharedInClash
      <4> QED
        BY <3>1, <3>2, <4>1 DEF FileOK
    <3>3. CASE CurrentFile(v) # f
      BY <3>1, <3>3 DEF FileOK
    <3> QED
      BY <3>2, <3>3
  <2> QED
    BY <2>1, <2>2
<1>4. \A v \in Workers : th'[v].pc # "idle" => FileOK(th[v].pc, CurrentFile(v))'
  BY <1>3 DEF FileOK
<1>5. \A g \in Files \ clash' : fileStatus'[g] = "ready" => g \in indexed'
  BY DEF FilesInv
<1> QED
  BY <1>2, <1>4, <1>5 DEF FilesInv, SharedInClash

\* Steps of a run that touch no file.
LEMMA FileQuiet ==
  ASSUME JobsOK, ThreadsOK, FilesInv, NEW w \in Workers, Step(w), th[w].pc # "idle",
         UNCHANGED <<fileStatus, indexed, clash>>,
         th'[w].pc \in InFile => th'[w].fi = th[w].fi /\ th[w].pc \in InFile,
         th'[w].pc \in Stored => th[w].pc \in Stored
  PROVE  FilesInv'
<1>1. CurrentFile(w) \in Files /\ FileOK(th[w].pc, CurrentFile(w))
  BY FileAtHand DEF FilesInv
<1>2. PICK f \in Files : f = CurrentFile(w)
  BY <1>1
<1>3. th'[w].pc \in InFile => FileOK(th[w].pc, f)'
  BY <1>1, <1>2 DEF FileOK
<1>4. f \notin clash => (fileStatus'[f] = "ready" => f \in indexed')
  BY DEF FilesInv
<1> QED
  BY <1>2, <1>3, <1>4, FileStep

LEMMA AfterInFile ==
  ASSUME NEW l \in Reports
  PROVE  /\ After(l) \in InFile => l \in InFile
         /\ After(l) \in Stored => l \in Stored
<1>1. After(l) \in InFile => l \in InFile
  BY SMT DEF Reports, FileReports, RunReports, After, InFile
<1>2. After(l) \in Stored => l \in Stored
  BY SMT DEF Reports, FileReports, RunReports, After, Stored
<1> QED
  BY <1>1, <1>2

LEMMA FileReport ==
  ASSUME JobsOK, ThreadsOK, FilesInv, NEW w \in Workers,
         Get(w) \/ Skip(w) \/ Refuse(w) \/ Put(w) \/ FileRaises(w) \/ AddCounts(w)
  PROVE  FilesInv'
<1>1. th[w].pc # "idle" /\ th[w] \in ThreadStates
  BY DEF Get, Skip, Refuse, Put, FileRaises, AddCounts, Throttled, Reports, FileReports,
         RunReports, ThreadsOK, ThreadOK, Idle, At
<1>2. UNCHANGED <<fileStatus, indexed, clash>>
  BY DEF Get, Skip, Refuse, Put, FileRaises, AddCounts, kbVars, historyVars
<1>3. Idle.pc \notin InFile \cup Stored /\ "broken" \notin Stored
  BY DEF Idle, At, InFile, Stored, FileReports
<1>4. CASE Get(w)
  BY <1>1, <1>2, <1>4, FileQuiet DEF Get, Step, ThreadsOK, ThreadStates
<1>5. CASE Skip(w) \/ Put(w)
  <2>1. th[w].pc \in Reports
    BY <1>1, <1>5 DEF Skip, Put, Throttled, Reports, FileReports, ThreadsOK, ThreadOK
  <2>2. th'[w] = Idle \/ (th'[w].pc = After(th[w].pc) /\ th'[w].fi = th[w].fi)
    BY <1>1, <1>5 DEF Skip, Put, ThreadsOK, ThreadStates
  <2> QED
    BY <1>1, <1>2, <1>3, <1>5, <2>1, <2>2, AfterInFile, FileQuiet DEF Step
<1>6. CASE Refuse(w) \/ FileRaises(w)
  <2>1. th'[w] = Idle
        \/ (th'[w].pc = "broken" /\ th'[w].fi = th[w].fi /\ th[w].pc \in InFile)
    BY <1>1, <1>6 DEF Refuse, FileRaises, Reports, InFile, ThreadsOK, ThreadStates
  <2> QED
    BY <1>1, <1>2, <1>3, <1>6, <2>1, FileQuiet DEF Step
<1>7. CASE AddCounts(w)
  <2>1. th'[w] = Idle
    BY <1>7 DEF AddCounts, ThreadsOK
  <2> QED
    BY <1>1, <1>2, <1>3, <1>7, <2>1, FileQuiet DEF Step
<1> QED
  BY <1>4, <1>5, <1>6, <1>7

\* The file is marked, its old chunks deleted, the new ones stored, the outcome marked.
LEMMA FileMoves ==
  ASSUME JobsOK, ThreadsOK, FilesInv, ~SinksMayFail, NEW w \in Workers,
         MarkFile(w) \/ ClearIndex(w) \/ StoreIndex(w)
  PROVE  FilesInv'
<1>1. th[w].pc # "idle" /\ th[w] \in ThreadStates /\ clash' = clash
  BY DEF MarkFile, ClearIndex, StoreIndex, ThreadsOK, historyVars
<1>2. PICK f \in Files : f = CurrentFile(w)
  BY <1>1, FileAtHand
<1>3. FileOK(th[w].pc, f)
  BY <1>1, <1>2 DEF FilesInv
<1>4. f \notin clash => (fileStatus[f] = "ready" => f \in indexed)
  BY DEF FilesInv
<1>5. CASE MarkFile(w)
  <2>1. th[w].pc \in {"mark", "ready", "broken"} /\ indexed' = indexed
    BY <1>5 DEF MarkFile
  <2>2. fileStatus' = [fileStatus EXCEPT ![f] = CASE th[w].pc = "mark"   -> "indexing"
                                                  [] th[w].pc = "ready"  -> "ready"
                                                  [] th[w].pc = "broken" -> "failed"]
    BY <1>2, <1>5 DEF MarkFile
  <2>3. \A g \in Files \ {f} : fileStatus'[g] = fileStatus[g]
    BY <2>2 DEF JobsOK
  <2>4. /\ th[w].pc = "mark" => fileStatus'[f] = "indexing"
        /\ th[w].pc = "ready" => fileStatus'[f] = "ready"
        /\ th[w].pc = "broken" => fileStatus'[f] = "failed"
    BY <2>2 DEF JobsOK
  <2>5. /\ th[w].pc = "mark" => th'[w].pc = "parse0" /\ th'[w].fi = th[w].fi
        /\ th[w].pc # "mark" => th'[w].pc \in {"mark", "failed", "completed"}
    BY <1>1, <1>5 DEF MarkFile, NextFile, ThreadsOK, ThreadStates
  <2>6. th'[w].pc \in InFile => th'[w].fi = th[w].fi /\ FileOK(th[w].pc, f)'
    BY <2>4, <2>5 DEF FileOK, InFile, FileReports, Stored
  <2>7. f \notin clash => (fileStatus'[f] = "ready" => f \in indexed')
    BY <1>3, <2>1, <2>4 DEF FileOK, InFile, Stored
  <2> QED
    BY <1>1, <1>2, <1>5, <2>1, <2>3, <2>6, <2>7, FileStep DEF Step
<1>6. CASE ClearIndex(w)
  <2>1. /\ th[w].pc = "clear" /\ indexed' = indexed \ {f} /\ fileStatus' = fileStatus
        /\ th'[w].pc = "store" /\ th'[w].fi = th[w].fi
    BY <1>1, <1>2, <1>6 DEF ClearIndex, ThreadsOK, ThreadStates
  <2>2. f \notin clash => fileStatus'[f] = "indexing"
    BY <1>3, <2>1 DEF FileOK, InFile
  <2> QED
    BY <1>1, <1>2, <1>6, <2>1, <2>2, FileStep DEF Step, FileOK, Stored
<1>7. CASE StoreIndex(w)
  <2>1. /\ th[w].pc = "store" /\ indexed' = indexed \cup {f} /\ fileStatus' = fileStatus
        /\ th'[w].pc = "index1" /\ th'[w].fi = th[w].fi
    BY <1>1, <1>2, <1>7 DEF StoreIndex, ThreadsOK, ThreadStates
  <2>2. f \notin clash => fileStatus'[f] = "indexing"
    BY <1>3, <2>1 DEF FileOK, InFile
  <2> QED
    BY <1>1, <1>2, <1>7, <2>1, <2>2, FileStep DEF Step, FileOK
<1> QED
  BY <1>5, <1>6, <1>7

\* A run that begins puts into clash whatever it shares with the others.
LEMMA FileRun ==
  ASSUME JobsOK, ThreadsOK, FilesInv, NEW w \in Workers, NEW j \in Created,
         Run(w, j), UNCHANGED <<files, fileStatus, indexed>>
  PROVE  FilesInv'
<1>1. CASE status[j] \in Terminal
  BY <1>1 DEF Run, historyVars, FilesInv, SharedInClash, FileOK, FilesOf, CurrentFile
<1>2. CASE status[j] \notin Terminal
  <2>1. /\ th'[w].job = j /\ th'[w].pc \notin InFile
        /\ \A v \in Workers \ {w} : th'[v] = th[v]
    BY <1>2 DEF Run, ThreadsOK, At, InFile, FileReports
  <2>2. clash \subseteq clash'
    BY <1>2 DEF Run
  <2>3. ASSUME NEW v \in Workers \ {w}, th[v].job # NoJob
        PROVE  FilesOf(j) \cap FilesOf(th[v].job) \subseteq clash'
    BY <1>2, <2>3 DEF Run
  <2>4. SharedInClash'
    BY <2>1, <2>2, <2>3 DEF FilesInv, SharedInClash, FilesOf
  <2>5. ASSUME NEW v \in Workers, th'[v].pc # "idle" PROVE FileOK(th[v].pc, CurrentFile(v))'
    <3>1. CASE v = w
      BY <2>1, <3>1 DEF FileOK
    <3>2. CASE v # w
      BY <2>1, <2>2, <2>5, <3>2 DEF FilesInv, FileOK, CurrentFile
    <3> QED
      BY <3>1, <3>2
  <2> QED
    BY <2>2, <2>4, <2>5 DEF FilesInv
<1> QED
  BY <1>1, <1>2

LEMMA FileInsert ==
  ASSUME JobsOK, ThreadsOK, FilesInv, NEW fs \in Seq(Files) \ {<<>>},
         NEW source \in Jobs \cup {NoJob}, Insert(fs, source),
         UNCHANGED <<fileStatus, indexed, th, clash>>
  PROVE  FilesInv'
<1>1. \A w \in Workers : th[w].job # NoJob => files'[th[w].job] = files[th[w].job]
  BY RunnersCreated, InsertType
<1>2. \A w \in Workers : th[w].pc # "idle" => th[w].job # NoJob
  BY FileAtHand
<1> QED
  BY <1>1, <1>2 DEF FilesInv, SharedInClash, FilesOf, FileOK, CurrentFile

LEMMA FilesSame ==
  ASSUME FilesInv, UNCHANGED <<files, fileStatus, indexed, th, clash>>
  PROVE  FilesInv'
<1>1. SharedInClash'
  BY DEF FilesInv, SharedInClash, FilesOf
<1>2. \A w \in Workers : th[w].pc # "idle" => FileOK(th[w].pc, CurrentFile(w))'
  BY DEF FilesInv, FileOK, CurrentFile
<1> QED
  BY <1>1, <1>2 DEF FilesInv

LEMMA FilesNext == TypeOK /\ ~SinksMayFail /\ FilesInv /\ [Next]_vars => FilesInv'
<1> SUFFICES ASSUME JobsOK, ThreadsOK, ~SinksMayFail, FilesInv, [Next]_vars PROVE FilesInv'
  BY TypeSplit
<1>1. ASSUME NEW fs \in FileLists, CreateJob(fs) PROVE FilesInv'
  BY <1>1, FileInsert, Constants DEF CreateJob, kbVars, historyVars
<1>2. ASSUME NEW j \in Jobs, RetryJob(j) PROVE FilesInv'
  <2>1. files[j] \in Seq(Files) \ {<<>>}
    BY <1>2 DEF RetryJob, JobsOK
  <2> QED
    BY <1>2, <2>1, FileInsert DEF RetryJob, kbVars, historyVars
<1>3. CASE (\E j \in Jobs : CancelRead(j)) \/ CancelWrite \/ PollFetch \/ UNCHANGED vars
  <2>1. UNCHANGED <<files, fileStatus, indexed, th, clash>>
    BY <1>3 DEF CancelRead, CancelWrite, PollFetch, vars, jobVars, kbVars, historyVars
  <2> QED
    BY <2>1, FilesSame
<1>4. ASSUME NEW w \in Threads, NEW j \in Jobs, StartTask(w, j) PROVE FilesInv'
  <2>1. j \in Created /\ w \in Workers
    BY <1>4 DEF StartTask, JobsOK, Workers
  <2> QED
    BY <1>4, <2>1, FileRun DEF StartTask, jobVars, kbVars
<1>5. ASSUME NEW j \in Jobs, PollRun(j) PROVE FilesInv'
  <2>1. j \in Created /\ Poller \in Workers
    BY <1>5 DEF PollRun, JobsOK, Workers
  <2> QED
    BY <1>5, <2>1, FileRun DEF PollRun, jobVars, kbVars
<1>6. ASSUME NEW w \in Workers, Step(w) PROVE FilesInv'
  BY <1>6, FileReport, FileMoves DEF Step
<1>7. CASE Crash
  BY <1>7 DEF Crash, FilesInv, SharedInClash, Idle, At, kbVars, historyVars
<1> QED
  BY <1>1, <1>2, <1>3, <1>4, <1>5, <1>6, <1>7 DEF Next, Handler

LEMMA FilesInit == Init => FilesInv
  BY DEF Init, FilesInv, SharedInClash, Idle, At

\* A file that the list shows as ready has its chunks in the vector store, through
\* failures, retries, cancellations and crashes, as long as no status write is lost and
\* no two runs ever had the file at the same time.
THEOREM ReadyFilesAreIndexed == Spec => []ReadyIsIndexed
<1> DEFINE Inv == TypeOK /\ (~SinksMayFail => FilesInv)
<1>1. Init => Inv
  BY TypeInit, FilesInit
<1>2. Inv /\ [Next]_vars => Inv'
  BY TypeNext, FilesNext
<1>3. Inv => ReadyIsIndexed
  BY DEF FilesInv, ReadyIsIndexed
<1> HIDE DEF Inv
<1> QED
  BY <1>1, <1>2, <1>3, PTL DEF Spec
=============================================================================
