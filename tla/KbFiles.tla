------------------------------ MODULE KbFiles -------------------------------
(***************************************************************************)
(* The files of one knowledge base: upload sessions (presign, PUT,         *)
(* complete), web imports, deletion, the rows of t_dim_kb_file, the bytes  *)
(* on disk, the chunks in t_fact_kb_data and t_fact_kb_index, and the      *)
(* import runs that read the bytes and store the chunks.                   *)
(*                                                                         *)
(* A handler is synchronous inside an `async def': two handlers never      *)
(* interleave, but every repository call is a transaction of its own, so   *)
(* import threads come between the calls of a handler, and a crash or a    *)
(* raising call may end it between two of them.  hd is the handler under   *)
(* way.  A run is the part of run_job that concerns one file; which runs   *)
(* are started, and their progress reports, are the module ImportJob's.    *)
(*                                                                         *)
(* Names 1, 2, 3 ... stand for `base', `base-2', `base-3' ...; file ids    *)
(* and upload ids are 1, 2, ... in the order they are drawn.               *)
(***************************************************************************)
EXTENDS Integers, FiniteSets

CONSTANTS
  Contents,    \* what an uploaded or fetched file may contain
  Empty,       \* the placeholder complete writes when nothing was PUT
  NoBytes,     \* no file on disk
  Threads,     \* threads that run imports
  NumNames,    \* bound: file names
  MaxFiles,    \* bound: file ids ever drawn
  MaxUploads,  \* bound: upload sessions ever created
  MaxRuns,     \* bound: runs ever started
  MaxFaults,   \* bound: crashes, raising database calls and lost status writes
  MaxEvents    \* bound: upload sessions, runs and faults together

ASSUME ContentsAssumption == Empty \notin Contents /\ NoBytes \notin Contents /\ Empty # NoBytes
ASSUME BoundsAssumption ==
  /\ NumNames \in Nat /\ MaxFiles \in Nat /\ MaxUploads \in Nat
  /\ MaxRuns \in Nat /\ MaxFaults \in Nat /\ MaxEvents \in Nat

Names == 1 .. NumNames
Files == 1 .. MaxFiles
Uploads == 1 .. MaxUploads
StubName == 0     \* a stub row is named after its file id
NoFile == 0
NoUpload == 0
NoRow == [name |-> -1, status |-> "none"]
OnDisk == Contents \cup {Empty}

VARIABLES
  rows,      \* t_dim_kb_file: name and status per file id, or NoRow
  sess,      \* t_fact_upload_object.status per upload id, "none" before, "gone" after
  upFile, upName,   \* file id and name each upload was presigned for
  bytes,     \* content under each file's storage key
  data, idx, \* contents whose chunks are in t_fact_kb_data and t_fact_kb_index
  fileCount, \* t_dim_knowledge_base.file_count
  hd,        \* the handler under way
  th,        \* the run of each thread
  ids, ups, runs, faults,   \* ids drawn, sessions created, runs started, faults spent
  deleted,   \* history: files whose deletion was acknowledged
  held,      \* history: files deleted while a run had already resolved them
  raced,     \* history: files touched by a handler or a second run during a run
  dirty,     \* files whose bytes were replaced by a PUT that no complete followed
  torn       \* history: files a fault left in the middle of something

sessVars == <<sess, upFile, upName, ups>>
storeVars == <<bytes, data, idx>>
histVars == <<deleted, held, raced, dirty, torn>>
boundVars == <<ids, runs, faults>>
vars == <<rows, sessVars, storeVars, fileCount, hd, th, boundVars, histVars>>

\* The steps of a handler between its calls, and of a run.
HandlerSteps == {"idle", "clear", "placeholder", "finish", "register",
                 "deleteBytes", "deleteIndex", "deleteRow"}
RunSteps == {"idle", "mark", "resolve", "parse", "stub", "clear", "data", "index",
             "ready", "count", "failed"}
\* A run has resolved its file and will write about it.
Holding == {"parse", "stub", "clear", "data", "index", "ready"}

NoHandler == [pc |-> "idle", file |-> NoFile, up |-> NoUpload]
NoRun == [pc |-> "idle", file |-> NoFile, got |-> NoBytes]

Named(n) == {f \in Files : rows[f].name = n}
Registered(f) == rows[f] # NoRow
IsStub(f) == rows[f].name = StubName
RunsOn(f) == {t \in Threads : th[t].file = f}
Holders(f) == {t \in Threads : th[t].file = f /\ th[t].pc \in Holding}
\* A handler or a second run touches f while a run works on it.
Race(f) == IF RunsOn(f) # {} THEN raced \cup {f} ELSE raced

Budget == ups + runs + faults < MaxEvents

Init ==
  /\ rows = [f \in Files |-> NoRow]
  /\ sess = [u \in Uploads |-> "none"]
  /\ upFile = [u \in Uploads |-> NoFile]
  /\ upName = [u \in Uploads |-> StubName]
  /\ ups = 0
  /\ bytes = [f \in Files |-> NoBytes]
  /\ data = [f \in Files |-> {}]
  /\ idx = [f \in Files |-> {}]
  /\ fileCount = 0
  /\ hd = NoHandler
  /\ th = [t \in Threads |-> NoRun]
  /\ ids = 0 /\ runs = 0 /\ faults = 0
  /\ deleted = {} /\ held = {} /\ raced = {} /\ dirty = {} /\ torn = {}

-----------------------------------------------------------------------------
(* Uploads.                                                                 *)

\* Sessions of a file's storage key are deleted.
DropSessions(f) == [u \in Uploads |-> IF upFile[u] = f /\ sess[u] # "none"
                                        THEN "gone" ELSE sess[u]]

\* UploadService.presign, per file: a name that has a row keeps its file id and storage
\* key and loses its older sessions; any other name gets a fresh id, whatever sessions
\* are pending for it.
Presign(n) ==
  /\ hd = NoHandler
  /\ ups < MaxUploads /\ Budget
  /\ LET u == ups + 1 IN
       /\ IF Named(n) # {}
            THEN \E f \in Named(n) :
                   /\ sess' = [DropSessions(f) EXCEPT ![u] = "pending"]
                   /\ upFile' = [upFile EXCEPT ![u] = f]
                   /\ ids' = ids
            ELSE /\ ids < MaxFiles
                 /\ sess' = [sess EXCEPT ![u] = "pending"]
                 /\ upFile' = [upFile EXCEPT ![u] = ids + 1]
                 /\ ids' = ids + 1
       /\ upName' = [upName EXCEPT ![u] = n]
       /\ ups' = u
  /\ UNCHANGED <<rows, storeVars, fileCount, hd, th, runs, faults, histVars>>

\* The older sessions are deleted and the INSERT of the new one raises.
PresignRaises(n) ==
  /\ hd = NoHandler
  /\ Named(n) # {}
  /\ faults < MaxFaults /\ Budget
  /\ \E f \in Named(n) : sess' = DropSessions(f)
  /\ faults' = faults + 1
  /\ UNCHANGED <<rows, upFile, upName, ups, storeVars, fileCount, hd, th,
                 ids, runs, histVars>>

\* PUT /v1/_dev/uploads/{id}: writes the body under the storage key of the header and
\* asks no session: it may come twice, before or after the complete.
Put(u, c) ==
  /\ hd = NoHandler
  /\ u <= ups
  /\ bytes' = [bytes EXCEPT ![upFile[u]] = c]
  /\ raced' = Race(upFile[u])
  /\ dirty' = dirty \cup {upFile[u]}
  /\ UNCHANGED <<rows, sess, upFile, upName, ups, data, idx, fileCount, hd, th,
                 boundVars, deleted, held, torn>>

\* The constraint UNIQUE (kb_id, file_name) of t_dim_kb_file.
CanInsert(n) == Named(n) = {}

\* Variant: complete leaves the status of an existing row alone.
CompleteBegin_KeepStatus(u) ==
  /\ hd = NoHandler
  /\ sess[u] = "pending"
  /\ LET f == upFile[u] IN
       /\ IF Registered(f)
            THEN rows' = rows /\ hd' = [pc |-> "clear", file |-> f, up |-> u]
            ELSE /\ CanInsert(upName[u])
                 /\ rows' = [rows EXCEPT ![f] = [name |-> upName[u], status |-> "uploaded"]]
                 /\ hd' = [pc |-> "placeholder", file |-> f, up |-> u]
       /\ raced' = Race(f)
       /\ dirty' = dirty \ {f}
  /\ UNCHANGED <<sessVars, storeVars, fileCount, th, boundVars, deleted, held, torn>>

\* UploadService.complete for a pending session (one that expired is refused and changes
\* nothing, so expiry is no state here): a new file gets
\* its row -- unless another file took the name, then the INSERT raises and nothing
\* changes -- and an existing row is set back to uploaded, also in the middle of a run.
\* The repetition of an acknowledged complete answers with the row and changes nothing.
CompleteBegin(u) ==
  /\ hd = NoHandler
  /\ sess[u] = "pending"
  /\ LET f == upFile[u] IN
       /\ IF Registered(f)
            THEN /\ rows' = [rows EXCEPT ![f].status = "uploaded"]
                 /\ hd' = [pc |-> "clear", file |-> f, up |-> u]
            ELSE /\ CanInsert(upName[u])
                 /\ rows' = [rows EXCEPT ![f] = [name |-> upName[u], status |-> "uploaded"]]
                 /\ hd' = [pc |-> "placeholder", file |-> f, up |-> u]
       /\ raced' = Race(f)
       /\ dirty' = dirty \ {f}
  /\ UNCHANGED <<sessVars, storeVars, fileCount, th, boundVars, deleted, held, torn>>

\* The chunks of the replaced file are deleted.
CompleteClear ==
  /\ hd.pc = "clear"
  /\ data' = [data EXCEPT ![hd.file] = {}]
  /\ idx' = [idx EXCEPT ![hd.file] = {}]
  /\ hd' = [hd EXCEPT !.pc = "placeholder"]
  /\ UNCHANGED <<rows, sessVars, bytes, fileCount, th, boundVars, histVars>>

\* An empty file is written when nothing was PUT ...
CompletePlaceholder ==
  /\ hd.pc = "placeholder"
  /\ bytes' = IF bytes[hd.file] = NoBytes THEN [bytes EXCEPT ![hd.file] = Empty] ELSE bytes
  /\ hd' = [hd EXCEPT !.pc = "finish"]
  /\ UNCHANGED <<rows, sessVars, data, idx, fileCount, th, boundVars, histVars>>

\* ... and the session is marked, which acknowledges the upload.
CompleteFinish ==
  /\ hd.pc = "finish"
  /\ sess' = [sess EXCEPT ![hd.up] = "uploaded"]
  /\ hd' = NoHandler
  /\ UNCHANGED <<rows, upFile, upName, ups, storeVars, fileCount, th,
                 boundVars, histVars>>

-----------------------------------------------------------------------------
(* Web import: the fetched page becomes a file of its own.                  *)

\* _resolve_unique_file_name: the first of base, base-2, base-3, ... without a row.
FreeName(n) == Named(n) = {} /\ \A m \in Names : m < n => Named(m) # {}

\* WebImportService.import_url: a fresh id, the page on disk ...
WebWrite(c) ==
  /\ hd = NoHandler
  /\ ids < MaxFiles
  /\ \E n \in Names : FreeName(n)
  /\ ids' = ids + 1
  /\ bytes' = [bytes EXCEPT ![ids'] = c]
  /\ hd' = [pc |-> "register", file |-> ids', up |-> NoUpload]
  /\ UNCHANGED <<rows, sessVars, data, idx, fileCount, th, runs, faults, histVars>>

\* ... and its row under the free name: no other handler takes it in between.
WebRegister ==
  /\ hd.pc = "register"
  /\ \E n \in Names :
       /\ FreeName(n) /\ CanInsert(n)
       /\ rows' = [rows EXCEPT ![hd.file] = [name |-> n, status |-> "uploaded"]]
  /\ hd' = NoHandler
  /\ UNCHANGED <<sessVars, storeVars, fileCount, th, boundVars, histVars>>

-----------------------------------------------------------------------------
(* Deletion.                                                                *)

\* KnowledgeBaseService.delete_file: refused while the row says the file is being
\* imported (of the busy statuses the code only ever writes indexing) ...
DeleteBegin(f) ==
  /\ hd = NoHandler
  /\ Registered(f)
  /\ rows[f].status # "indexing"
  /\ hd' = [pc |-> "deleteBytes", file |-> f, up |-> NoUpload]
  /\ raced' = Race(f)
  /\ UNCHANGED <<rows, sessVars, storeVars, fileCount, th, boundVars, deleted, held,
                 dirty, torn>>

\* ... otherwise the file on disk goes first.  A stub's storage key has no file.
DeleteBytes ==
  /\ hd.pc = "deleteBytes"
  /\ bytes' = IF IsStub(hd.file) THEN bytes ELSE [bytes EXCEPT ![hd.file] = NoBytes]
  /\ hd' = [hd EXCEPT !.pc = "deleteIndex"]
  /\ UNCHANGED <<rows, sessVars, data, idx, fileCount, th, boundVars, histVars>>

\* clear_file_index and delete_by_file.
DeleteIndex ==
  /\ hd.pc = "deleteIndex"
  /\ data' = [data EXCEPT ![hd.file] = {}]
  /\ idx' = [idx EXCEPT ![hd.file] = {}]
  /\ hd' = [hd EXCEPT !.pc = "deleteRow"]
  /\ UNCHANGED <<rows, sessVars, bytes, fileCount, th, boundVars, histVars>>

\* Variant: the file's upload sessions are kept.
DeleteRow_KeepSessions ==
  /\ hd.pc = "deleteRow"
  /\ LET f == hd.file IN
       /\ rows' = [rows EXCEPT ![f] = NoRow]
       /\ data' = [data EXCEPT ![f] = {}]
       /\ idx' = [idx EXCEPT ![f] = {}]
       /\ deleted' = deleted \cup {f}
       /\ held' = IF Holders(f) # {} THEN held \cup {f} ELSE held
       /\ raced' = Race(f)
  /\ hd' = NoHandler
  /\ UNCHANGED <<sessVars, bytes, fileCount, th, boundVars, dirty, torn>>

\* delete_kb_file: the file's sessions, its row and by cascade its chunks, in one
\* transaction.  Nothing takes the file off file_count.
DeleteRow ==
  /\ hd.pc = "deleteRow"
  /\ LET f == hd.file IN
       /\ rows' = [rows EXCEPT ![f] = NoRow]
       /\ sess' = DropSessions(f)
       /\ data' = [data EXCEPT ![f] = {}]
       /\ idx' = [idx EXCEPT ![f] = {}]
       /\ deleted' = deleted \cup {f}
       /\ held' = IF Holders(f) # {} THEN held \cup {f} ELSE held
       /\ raced' = Race(f)
  /\ hd' = NoHandler
  /\ UNCHANGED <<upFile, upName, ups, bytes, fileCount, th, boundVars,
                 dirty, torn>>

-----------------------------------------------------------------------------
(* Runs.                                                                    *)

Goto(t, l) == [th EXCEPT ![t].pc = l]

\* A job may name any file id its client was told of, registered or not; that of a page
\* is told once it is registered.
StartRun(t, f) ==
  /\ th[t] = NoRun
  /\ ~(hd.pc = "register" /\ hd.file = f)
  /\ runs < MaxRuns /\ Budget
  /\ f <= ids
  /\ runs' = runs + 1
  /\ raced' = IF hd.file = f THEN raced \cup {f} ELSE Race(f)
  /\ th' = [th EXCEPT ![t] = [NoRun EXCEPT !.pc = "mark", !.file = f]]
  /\ UNCHANGED <<rows, sessVars, storeVars, fileCount, hd, ids, faults, deleted, held,
                 dirty, torn>>

\* KbFileStatusSink.mark_file is an UPDATE: it does nothing where there is no row.
StatusSet(f, s) == IF Registered(f) THEN [rows EXCEPT ![f].status = s] ELSE rows

Mark(t) ==
  /\ th[t].pc \in {"mark", "ready", "failed"}
  /\ rows' = StatusSet(th[t].file, CASE th[t].pc = "mark"   -> "indexing"
                                     [] th[t].pc = "ready"  -> "ready"
                                     [] th[t].pc = "failed" -> "failed")
  /\ th' = CASE th[t].pc = "mark"   -> Goto(t, "resolve")
             [] th[t].pc = "ready"  -> Goto(t, "count")
             [] th[t].pc = "failed" -> [th EXCEPT ![t] = NoRun]
  /\ UNCHANGED <<sessVars, storeVars, fileCount, hd, boundVars, histVars>>

\* Variant: a file without a row is looked for under its usual storage key.
Resolve_NoRow(t) ==
  /\ th[t].pc = "resolve"
  /\ th' = Goto(t, "parse")
  /\ UNCHANGED <<rows, sessVars, storeVars, fileCount, hd, boundVars, histVars>>

\* KbFileResolver: the row must be there and its storage key a file on disk.
Resolve(t) ==
  /\ th[t].pc = "resolve"
  /\ LET f == th[t].file IN
       th' = Goto(t, IF Registered(f) /\ ~IsStub(f) /\ bytes[f] # NoBytes
                       THEN "parse" ELSE "failed")
  /\ UNCHANGED <<rows, sessVars, storeVars, fileCount, hd, boundVars, histVars>>

\* The parser reads the file, if it is still there.
Parse(t) ==
  /\ th[t].pc = "parse"
  /\ th' = IF bytes[th[t].file] = NoBytes THEN Goto(t, "failed")
           ELSE [th EXCEPT ![t].pc = "stub", ![t].got = bytes[th[t].file]]
  /\ UNCHANGED <<rows, sessVars, storeVars, fileCount, hd, boundVars, histVars>>

\* ensure_kb_file_stub: INSERT ... ON CONFLICT (id) DO NOTHING.
Stub(t) ==
  /\ th[t].pc = "stub"
  /\ rows' = IF Registered(th[t].file) THEN rows
             ELSE [rows EXCEPT ![th[t].file] = [name |-> StubName, status |-> "uploaded"]]
  /\ th' = Goto(t, "clear")
  /\ UNCHANGED <<sessVars, storeVars, fileCount, hd, boundVars, histVars>>

\* delete_by_file: the data rows, and by cascade the index rows.
ClearIndex(t) ==
  /\ th[t].pc = "clear"
  /\ data' = [data EXCEPT ![th[t].file] = {}]
  /\ idx' = [idx EXCEPT ![th[t].file] = {}]
  /\ th' = Goto(t, "data")
  /\ UNCHANGED <<rows, sessVars, bytes, fileCount, hd, boundVars, histVars>>

\* An upsert of the chunks of content c over what is stored: chunk ids are positions,
\* so it overwrites a shorter or equal list and leaves the tail of a longer one.
Upserted(stored, c) ==
  IF c = Empty THEN {stored} ELSE {{c}} \cup {stored \cup {c}}

\* bulk_upsert_data: the foreign key wants the file's row.
StoreData(t) ==
  /\ th[t].pc = "data"
  /\ IF Registered(th[t].file) \/ th[t].got = Empty
       THEN /\ \E d \in Upserted(data[th[t].file], th[t].got) :
                 data' = [data EXCEPT ![th[t].file] = d]
            /\ th' = Goto(t, "index")
       ELSE /\ th' = Goto(t, "failed")
            /\ data' = data
  /\ UNCHANGED <<rows, sessVars, bytes, idx, fileCount, hd, boundVars, histVars>>

\* bulk_upsert_index: the foreign key wants data rows under the same positions.
StoreIndex(t) ==
  /\ th[t].pc = "index"
  /\ IF data[th[t].file] # {} \/ th[t].got = Empty
       THEN /\ \E d \in Upserted(idx[th[t].file], th[t].got) :
                 idx' = [idx EXCEPT ![th[t].file] = d]
            /\ th' = Goto(t, "ready")
       ELSE /\ th' = Goto(t, "failed")
            /\ idx' = idx
  /\ UNCHANGED <<rows, sessVars, bytes, data, fileCount, hd, boundVars, histVars>>

\* Parsing, embedding, storing or a progress report raises: the file is marked failed.
\* The chunks are inserted one transaction each, so some may be there.
Raise(t) ==
  /\ th[t].pc \in Holding
  /\ \/ data' = data
     \/ /\ th[t].pc = "data" /\ Registered(th[t].file) /\ th[t].got # Empty
        /\ data' = [data EXCEPT ![th[t].file] = @ \cup {th[t].got}]
  /\ th' = Goto(t, "failed")
  /\ UNCHANGED <<rows, sessVars, bytes, idx, fileCount, hd, boundVars, histVars>>

\* KbCountSink.add_counts for a file that was done.
AddCount(t) ==
  /\ th[t].pc = "count"
  /\ fileCount' = fileCount + 1
  /\ th' = [th EXCEPT ![t] = NoRun]
  /\ UNCHANGED <<rows, sessVars, storeVars, hd, boundVars, histVars>>

-----------------------------------------------------------------------------
(* Faults.                                                                  *)

Fault == faults < MaxFaults /\ Budget /\ faults' = faults + 1

\* The process dies and is started again; tables and files stay.
Crash ==
  /\ Fault
  /\ torn' = torn \cup (({hd.file} \cup {th[t].file : t \in Threads}) \ {NoFile})
  /\ hd' = NoHandler
  /\ th' = [t \in Threads |-> NoRun]
  /\ UNCHANGED <<rows, sessVars, storeVars, fileCount, ids, runs, deleted, held, raced, dirty>>

\* A database call of the handler raises; nothing is undone.
HandlerRaises ==
  /\ hd # NoHandler
  /\ Fault
  /\ torn' = torn \cup {hd.file}
  /\ hd' = NoHandler
  /\ UNCHANGED <<rows, sessVars, storeVars, fileCount, th, ids, runs, deleted, held,
                 raced, dirty>>

\* The status sink logs and drops what its UPDATE raises.
MarkLost(t) ==
  /\ th[t].pc \in {"mark", "ready", "failed"}
  /\ Fault
  /\ torn' = torn \cup {th[t].file}
  /\ th' = CASE th[t].pc = "mark"   -> Goto(t, "resolve")
             [] th[t].pc = "ready"  -> Goto(t, "count")
             [] th[t].pc = "failed" -> [th EXCEPT ![t] = NoRun]
  /\ UNCHANGED <<rows, sessVars, storeVars, fileCount, hd, ids, runs, deleted, held,
                 raced, dirty>>

Handler ==
  \/ \E n \in Names : Presign(n) \/ PresignRaises(n)
  \/ \E u \in Uploads : CompleteBegin(u) \/ \E c \in Contents : Put(u, c)
  \/ CompleteClear \/ CompletePlaceholder \/ CompleteFinish
  \/ \E c \in Contents : WebWrite(c)
  \/ WebRegister
  \/ \E f \in Files : DeleteBegin(f)
  \/ DeleteBytes \/ DeleteIndex \/ DeleteRow

Run(t) ==
  \/ \E f \in Files : StartRun(t, f)
  \/ Mark(t) \/ Resolve(t) \/ Parse(t) \/ Stub(t) \/ ClearIndex(t)
  \/ StoreData(t) \/ StoreIndex(t) \/ Raise(t) \/ AddCount(t)

Next ==
  \/ Handler
  \/ \E t \in Threads : Run(t) \/ MarkLost(t)
  \/ Crash \/ HandlerRaises

Spec == Init /\ [][Next]_vars

-----------------------------------------------------------------------------
(* Views.                                                                   *)

\* _pg_file_status: what the file list shows for a row.
Shown(f) ==
  IF rows[f].status = "failed" THEN "failed"
  ELSE IF data[f] # {} \/ rows[f].status = "ready" THEN "available" ELSE "indexing"

\* The chunks a content has.
ChunksOf(c) == IF c \in Contents THEN {c} ELSE {}

\* Nobody is working on f.
Quiet(f) == hd.file # f /\ RunsOn(f) = {}

-----------------------------------------------------------------------------
(* Properties.                                                              *)

Rows == {NoRow} \cup [name : Names \cup {StubName},
                      status : {"uploaded", "indexing", "ready", "failed"}]

\* The types of the tables, the files and the tables' contents.
TablesOK ==
  /\ rows \in [Files -> Rows]
  /\ sess \in [Uploads -> {"none", "pending", "uploaded", "gone"}]
  /\ upFile \in [Uploads -> Files \cup {NoFile}]
  /\ upName \in [Uploads -> Names \cup {StubName}]
  /\ \A u \in Uploads : u <= ups => upFile[u] # NoFile /\ upName[u] # StubName
  /\ \A u \in Uploads : sess[u] = "none" <=> u > ups
  /\ bytes \in [Files -> OnDisk \cup {NoBytes}]
  /\ data \in [Files -> SUBSET Contents]
  /\ idx \in [Files -> SUBSET Contents]

\* The types of the handler, the runs, the counters and the history.
ActorsOK ==
  /\ hd \in [pc : HandlerSteps, file : Files \cup {NoFile}, up : Uploads \cup {NoUpload}]
  /\ hd.pc # "idle" => hd.file # NoFile
  /\ hd.pc = "idle" => hd = NoHandler
  /\ hd.pc \in {"clear", "placeholder", "finish"} => hd.up # NoUpload /\ hd.up <= ups
  /\ th \in [Threads -> [pc : RunSteps, file : Files \cup {NoFile},
                         got : OnDisk \cup {NoBytes}]]
  /\ \A t \in Threads : th[t].pc # "idle" => th[t].file # NoFile
  /\ \A t \in Threads : th[t].pc \in {"stub", "clear", "data", "index"}
                           => th[t].got \in OnDisk
  /\ ids \in 0 .. MaxFiles /\ ups \in 0 .. MaxUploads
  /\ runs \in 0 .. MaxRuns /\ faults \in 0 .. MaxFaults
  /\ fileCount \in Nat
  /\ deleted \subseteq Files /\ held \subseteq Files /\ raced \subseteq Files
  /\ dirty \subseteq Files /\ torn \subseteq Files

\* Every variable has its type; a session exists from its presign on.
TypeOK == TablesOK /\ ActorsOK

\* An upload acknowledged as complete, whose session is still there, has its file
\* registered under the name it was presigned for: complete writes row and session in
\* two transactions, deletion removes both, presign moves sessions to a file that has
\* the name (upload_service.complete, upload_repository.delete_kb_file).
AckedIsRegistered ==
  \A u \in Uploads : sess[u] = "uploaded" =>
    /\ upFile[u] # NoFile
    /\ rows[upFile[u]].name = upName[u]

\* Two files of the knowledge base never show under one name, though sessions for one
\* new name are handed out to several ids (presign, complete, _resolve_unique_file_name).
NamesAreUnique ==
  \A f, g \in Files : f # g /\ rows[f].name \in Names => rows[f].name # rows[g].name

\* A file whose deletion was acknowledged while no import had resolved it stays
\* deleted: neither a late complete nor a run, whose stub and chunks come without the
\* file, brings its row or its chunks back (delete_file, ensure_kb_file_stub).
DeletedStaysDeleted ==
  \A f \in deleted \ held : rows[f] = NoRow /\ data[f] = {} /\ idx[f] = {}

\* What the list shows as available answers searches with the chunks of the bytes on
\* disk, both tables alike, once nobody is working on the file -- unless a fault, a
\* race with a run, or a PUT without a complete got in between (_pg_file_status,
\* complete, process_file).
AvailableIsCurrent ==
  \A f \in Files \ (raced \cup torn \cup dirty) :
    Registered(f) /\ Quiet(f) /\ Shown(f) = "available"
      => data[f] = ChunksOf(bytes[f]) /\ idx[f] = ChunksOf(bytes[f])

\* A file whose import began and was not disturbed is, once the run is over, shown as
\* available or failed and never left indexing (the try around process_file).
NeverStuckIndexing ==
  \A f \in Files \ torn :
    Registered(f) /\ Quiet(f) => rows[f].status # "indexing"

\* A registered file that is no stub has its bytes on disk, except while a deletion is
\* under way on it or after one that broke off: a refused deletion takes nothing
\* (delete_file, the placeholder of complete).
RegisteredHasBytes ==
  \A f \in Files \ torn :
    Registered(f) /\ ~IsStub(f) /\ hd.file # f => bytes[f] # NoBytes

\* Every file the list shows ready was counted: file_count, to which each run adds after
\* its last mark and from which nothing is taken, is at least the number of ready files
\* nobody works on, unless a fault took the addition (add_counts, resolve_file_count).
ReadyIsCounted ==
  torn = {} => Cardinality({f \in Files : rows[f].status = "ready" /\ Quiet(f)}) <= fileCount

\* What was uploaded is kept: registered under its name, which no other file has, with its
\* bytes (presign, complete, delete_file).
UploadsAreKept == AckedIsRegistered /\ NamesAreUnique /\ RegisteredHasBytes

\* What the list of files shows is so: available ones answer searches with what is on disk,
\* ready ones were counted, and none is left indexing (_pg_file_status, add_counts).
ShownIsTrue == AvailableIsCurrent /\ NeverStuckIndexing /\ ReadyIsCounted
-----------------------------------------------------------------------------
(* What the repository says of the program and the code does not do.        *)

\* A file that is being imported cannot be deleted, and a deletion takes the file with all
\* its index data: nothing is left of a file whose deletion was acknowledged, also when a
\* run had resolved it before.
DeletedLeavesNothing ==
  \A f \in deleted : rows[f] = NoRow /\ data[f] = {} /\ idx[f] = {}
=============================================================================
