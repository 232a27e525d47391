--------------------------- MODULE KbFiles_proofs ----------------------------
(***************************************************************************)
(* Theorems about KbFiles and their proofs: they hold for any number of    *)
(* names, files, upload sessions, import threads, runs and faults.         *)
(***************************************************************************)
EXTENDS KbFiles, FiniteSetTheorems, TLAPS

\* The parts of TypeOK: tables, sessions, stores, the handler, the runs, the history.
RowTypes == rows \in [Files -> Rows]
SessionTypes ==
  /\ sess \in [Uploads -> {"none", "pending", "uploaded", "gone"}]
  /\ upFile \in [Uploads -> Files \cup {NoFile}]
  /\ upName \in [Uploads -> Names \cup {StubName}]
  /\ ups \in 0 .. MaxUploads
  /\ \A u \in Uploads : u <= ups => upFile[u] # NoFile /\ upName[u] # StubName
  /\ \A u \in Uploads : sess[u] = "none" <=> u > ups
StoreTypes ==
  /\ bytes \in [Files -> OnDisk \cup {NoBytes}]
  /\ data \in [Files -> SUBSET Contents]
  /\ idx \in [Files -> SUBSET Contents]
HandlerTypes ==
  /\ hd \in [pc : HandlerSteps, file : Files \cup {NoFile}, up : Uploads \cup {NoUpload}]
  /\ hd.pc # "idle" => hd.file # NoFile
  /\ hd.pc = "idle" => hd = NoHandler
  /\ hd.pc \in {"clear", "placeholder", "finish"} => hd.up # NoUpload /\ hd.up <= ups
RunTypes ==
  /\ th \in [Threads -> [pc : RunSteps, file : Files \cup {NoFile}, got : OnDisk \cup {NoBytes}]]
  /\ \A t \in Threads : th[t].pc # "idle" => th[t].file # NoFile
  /\ \A t \in Threads : th[t].pc \in {"stub", "clear", "data", "index"} => th[t].got \in OnDisk
CounterTypes ==
  /\ ids \in 0 .. MaxFiles /\ runs \in 0 .. MaxRuns /\ faults \in 0 .. MaxFaults
  /\ fileCount \in Nat
HistoryTypes ==
  /\ deleted \subseteq Files /\ held \subseteq Files /\ raced \subseteq Files
  /\ dirty \subseteq Files /\ torn \subseteq Files

LEMMA TypeParts ==
  TypeOK <=> /\ RowTypes /\ SessionTypes /\ StoreTypes /\ HandlerTypes /\ RunTypes
             /\ CounterTypes /\ HistoryTypes
  BY DEF TypeOK, TablesOK, ActorsOK, RowTypes, SessionTypes, StoreTypes, HandlerTypes,
         RunTypes, CounterTypes, HistoryTypes

LEMMA JoinNext ==
  ASSUME RowTypes', SessionTypes', StoreTypes', HandlerTypes', RunTypes', CounterTypes',
         HistoryTypes'
  PROVE  TypeOK'
  BY DEF TypeOK, TablesOK, ActorsOK, RowTypes, SessionTypes, StoreTypes, HandlerTypes,
         RunTypes, CounterTypes, HistoryTypes

\* The handler and the runs, as facts.
LEMMA Facts ==
  ASSUME TypeOK
  PROVE  /\ ids \in Nat /\ ups \in Nat /\ MaxFiles \in Nat /\ MaxUploads \in Nat /\ MaxRuns \in Nat
         /\ MaxFaults \in Nat /\ ids <= MaxFiles
         /\ hd.pc # "idle" => hd.file \in Files
         /\ hd.pc \in {"clear", "placeholder", "finish"} => hd.up \in Uploads
         /\ \A t \in Threads : th[t].pc # "idle" => th[t].file \in Files
         /\ \A t \in Threads : th[t].pc \in RunSteps
         /\ \A f \in Files : f \in Nat /\ f # NoFile
         /\ \A u \in Uploads : u <= ups => upFile[u] \in Files /\ upName[u] \in Names
<1>1. CounterTypes /\ HandlerTypes /\ RunTypes /\ SessionTypes
  BY TypeParts
<1>2. \A f \in Files : f \in Nat /\ f # NoFile
  BY BoundsAssumption DEF Files, NoFile
<1>3. /\ ids \in Nat /\ ups \in Nat /\ MaxFiles \in Nat /\ MaxUploads \in Nat /\ MaxRuns \in Nat
      /\ MaxFaults \in Nat /\ ids <= MaxFiles
  BY <1>1, BoundsAssumption DEF CounterTypes, SessionTypes
<1>4. /\ hd.pc # "idle" => hd.file \in Files
      /\ hd.pc \in {"clear", "placeholder", "finish"} => hd.up \in Uploads
  BY <1>1 DEF HandlerTypes
<1>5. /\ \A t \in Threads : th[t].pc # "idle" => th[t].file \in Files
      /\ \A t \in Threads : th[t].pc \in RunSteps
  BY <1>1 DEF RunTypes
<1>6. \A u \in Uploads : u <= ups => upFile[u] \in Files /\ upName[u] \in Names
  BY <1>1 DEF SessionTypes
<1> QED
  BY <1>2, <1>3, <1>4, <1>5, <1>6

-----------------------------------------------------------------------------
(* Type correctness.                                                        *)

LEMMA RowTypesStep ==
  ASSUME TypeOK, [Next]_vars
  PROVE  RowTypes'
<1>1. RowTypes /\ NoRow \in Rows
  BY DEF TypeOK, TablesOK, RowTypes, Rows
<1>2. \A n \in Names \cup {StubName} : [name |-> n, status |-> "uploaded"] \in Rows
  BY DEF Rows
<1>3. ASSUME NEW f \in Files, NEW s \in {"uploaded", "indexing", "ready", "failed"}, Registered(f)
      PROVE  [rows[f] EXCEPT !.status = s] \in Rows
  BY <1>1, <1>3 DEF RowTypes, Rows, Registered
<1>4. ASSUME NEW f \in Files, NEW r \in Rows, rows' = rows \/ rows' = [rows EXCEPT ![f] = r]
      PROVE  RowTypes'
  BY <1>1, <1>4 DEF RowTypes
<1>5. ASSUME UNCHANGED rows PROVE RowTypes'
  BY <1>1, <1>5 DEF RowTypes
<1>6. ASSUME NEW t \in Threads, Mark(t) PROVE RowTypes'
  <2>1. th[t].file \in Files
    BY <1>6, Facts DEF Mark
  <2>2. \E s \in {"uploaded", "indexing", "ready", "failed"} : rows' = StatusSet(th[t].file, s)
    BY <1>6 DEF Mark
  <2>3. PICK s \in {"uploaded", "indexing", "ready", "failed"} : rows' = StatusSet(th[t].file, s)
    BY <2>2
  <2>4. CASE Registered(th[t].file)
    <3>1. rows' = [rows EXCEPT ![th[t].file] = [rows[th[t].file] EXCEPT !.status = s]]
      BY <1>1, <2>1, <2>3, <2>4 DEF StatusSet, RowTypes
    <3> QED
      BY <1>3, <1>4, <2>1, <2>4, <3>1
  <2>5. CASE ~Registered(th[t].file)
    BY <1>5, <2>3, <2>5 DEF StatusSet
  <2> QED
    BY <2>4, <2>5
<1>7. ASSUME NEW t \in Threads, Stub(t) PROVE RowTypes'
  BY <1>2, <1>4, <1>7, Facts DEF Stub
<1>8. ASSUME NEW u \in Uploads, CompleteBegin(u) PROVE RowTypes'
  <2>1. upFile[u] \in Files /\ upName[u] \in Names
    BY <1>8, Facts DEF CompleteBegin, TypeOK, TablesOK, Uploads
  <2>2. CASE Registered(upFile[u])
    <3>1. rows' = [rows EXCEPT ![upFile[u]] = [rows[upFile[u]] EXCEPT !.status = "uploaded"]]
      BY <1>1, <1>8, <2>1, <2>2 DEF CompleteBegin, RowTypes
    <3> QED
      BY <1>3, <1>4, <2>1, <2>2, <3>1
  <2>3. CASE ~Registered(upFile[u])
    BY <1>2, <1>4, <1>8, <2>1, <2>3 DEF CompleteBegin
  <2> QED
    BY <2>2, <2>3
<1>9. CASE WebRegister
  BY <1>2, <1>4, <1>9, Facts DEF WebRegister
<1>10. CASE DeleteRow
  BY <1>1, <1>4, <1>10, Facts DEF DeleteRow
<1>11. CASE UNCHANGED vars
  BY <1>5, <1>11 DEF vars
<1>12. ASSUME NEW n \in Names, Presign(n) \/ PresignRaises(n) PROVE RowTypes'
  BY <1>5, <1>12 DEF Presign, PresignRaises
<1>13. ASSUME NEW u \in Uploads, NEW c \in Contents, Put(u, c) PROVE RowTypes'
  BY <1>5, <1>13 DEF Put
<1>14. CASE CompleteClear \/ CompletePlaceholder \/ CompleteFinish \/ DeleteBytes \/ DeleteIndex
          \/ Crash \/ HandlerRaises
  BY <1>5, <1>14 DEF CompleteClear, CompletePlaceholder, CompleteFinish, DeleteBytes, DeleteIndex, Crash,
                      HandlerRaises
<1>15. ASSUME NEW c \in Contents, WebWrite(c) PROVE RowTypes'
  BY <1>5, <1>15 DEF WebWrite
<1>16. ASSUME NEW f \in Files, DeleteBegin(f) PROVE RowTypes'
  BY <1>5, <1>16 DEF DeleteBegin
<1>17. ASSUME NEW t \in Threads, NEW f \in Files, StartRun(t, f) PROVE RowTypes'
  BY <1>5, <1>17 DEF StartRun
<1>18. ASSUME NEW t \in Threads,
              \/ Resolve(t) \/ Parse(t) \/ ClearIndex(t) \/ StoreData(t) \/ StoreIndex(t)
              \/ Raise(t) \/ AddCount(t) \/ MarkLost(t)
       PROVE  RowTypes'
  BY <1>5, <1>18 DEF Resolve, Parse, ClearIndex, StoreData, StoreIndex, Raise, AddCount, MarkLost
<1> QED
  BY <1>6, <1>7, <1>8, <1>9, <1>10, <1>11, <1>12, <1>13, <1>14, <1>15, <1>16, <1>17, <1>18
     DEF Next, Handler, Run

\* Which steps change the sessions, the stores, the handler and the runs.
LEMMA SessionSteps ==
  ASSUME [Next]_vars
  PROVE  \/ \E n \in Names : Presign(n) \/ PresignRaises(n)
         \/ CompleteFinish \/ DeleteRow
         \/ UNCHANGED sessVars
  BY DEF Next, Handler, Run, vars, sessVars, Put, CompleteBegin, CompleteClear,
         CompletePlaceholder, WebWrite, WebRegister, DeleteBegin, DeleteBytes, DeleteIndex, StartRun, Mark,
         Resolve, Parse, Stub, ClearIndex, StoreData, StoreIndex, Raise, AddCount, Crash,
         HandlerRaises, MarkLost

LEMMA StoreSteps ==
  ASSUME [Next]_vars
  PROVE  \/ \E u \in Uploads, c \in Contents : Put(u, c)
         \/ \E c \in Contents : WebWrite(c)
         \/ CompleteClear \/ CompletePlaceholder \/ DeleteBytes \/ DeleteIndex \/ DeleteRow
         \/ \E t \in Threads : ClearIndex(t) \/ StoreData(t) \/ StoreIndex(t) \/ Raise(t)
         \/ UNCHANGED storeVars
  BY DEF Next, Handler, Run, vars, Presign, PresignRaises, CompleteBegin, CompleteFinish,
         WebRegister, DeleteBegin, StartRun, Mark, Resolve, Parse, Stub, AddCount, Crash,
         HandlerRaises, MarkLost

LEMMA HandlerChanges ==
  ASSUME [Next]_vars
  PROVE  \/ \E u \in Uploads : CompleteBegin(u)
         \/ \E c \in Contents : WebWrite(c)
         \/ \E f \in Files : DeleteBegin(f)
         \/ CompleteClear \/ CompletePlaceholder \/ DeleteBytes \/ DeleteIndex
         \/ hd' = NoHandler
         \/ UNCHANGED hd
  BY DEF Next, Handler, Run, vars, Presign, PresignRaises, Put, CompleteFinish, WebRegister,
         DeleteRow, StartRun, Mark, Resolve, Parse, Stub, ClearIndex, StoreData, StoreIndex,
         Raise, AddCount, Crash, HandlerRaises, MarkLost

LEMMA RunChanges ==
  ASSUME [Next]_vars
  PROVE  \/ \E t \in Threads :
              \/ \E f \in Files : StartRun(t, f)
              \/ Mark(t) \/ Resolve(t) \/ Parse(t) \/ Stub(t) \/ ClearIndex(t)
              \/ StoreData(t) \/ StoreIndex(t) \/ Raise(t) \/ AddCount(t) \/ MarkLost(t)
         \/ Crash
         \/ UNCHANGED th
  BY DEF Next, Handler, Run, vars, Presign, PresignRaises, Put, CompleteBegin, CompleteClear,
         CompletePlaceholder, CompleteFinish, WebWrite, WebRegister, DeleteBegin, DeleteBytes,
         DeleteIndex, DeleteRow, HandlerRaises

LEMMA SessionTypesStep ==
  ASSUME TypeOK, [Next]_vars
  PROVE  SessionTypes'
<1>1. SessionTypes
  BY TypeParts
<1>2. CASE UNCHANGED sessVars
  BY <1>1, <1>2 DEF SessionTypes, sessVars
<1>3. \A f \in Files : /\ DropSessions(f) \in [Uploads -> {"none", "pending", "uploaded", "gone"}]
                        /\ \A u \in Uploads : DropSessions(f)[u] = "none" <=> sess[u] = "none"
  BY <1>1 DEF DropSessions, SessionTypes
<1>4. ASSUME NEW n \in Names, Presign(n) PROVE SessionTypes'
  <2>1. n # StubName /\ n \in Names \cup {StubName}
    BY DEF Names, StubName
  <2>2. ups < MaxUploads /\ ups + 1 \in Uploads /\ ups' = ups + 1 /\ ups' \in 0 .. MaxUploads
    BY <1>1, <1>4, Facts DEF Presign, SessionTypes, Uploads
  <2>3. \A u \in Uploads : u > ups + 1 <=> u > ups /\ u # ups + 1
    BY Facts DEF Uploads
  <2>4. \A u \in Uploads : u <= ups + 1 <=> u <= ups \/ u = ups + 1
    BY Facts DEF Uploads
  <2>5. \A u \in Uploads : u > ups <=> ~(u <= ups)
    BY Facts DEF Uploads
  <2>6. upName' = [upName EXCEPT ![ups + 1] = n]
    BY <1>4 DEF Presign
  <2>7. CASE Named(n) # {}
    <3>1. PICK f \in Named(n) : /\ sess' = [DropSessions(f) EXCEPT ![ups + 1] = "pending"]
                                /\ upFile' = [upFile EXCEPT ![ups + 1] = f]
      BY <1>4, <2>7 DEF Presign
    <3>2. f \in Files /\ f # NoFile
      BY Facts DEF Named
    <3> QED
      BY <1>1, <1>3, <2>1, <2>2, <2>3, <2>4, <2>5, <2>6, <3>1, <3>2 DEF SessionTypes
  <2>8. CASE Named(n) = {}
    <3>1. /\ sess' = [sess EXCEPT ![ups + 1] = "pending"]
          /\ upFile' = [upFile EXCEPT ![ups + 1] = ids + 1]
          /\ ids < MaxFiles
      BY <1>4, <2>8 DEF Presign
    <3>2. ids + 1 \in Files /\ ids + 1 # NoFile
      BY <3>1, Facts DEF Files, NoFile
    <3> QED
      BY <1>1, <2>1, <2>2, <2>3, <2>4, <2>5, <2>6, <3>1, <3>2 DEF SessionTypes
  <2> QED
    BY <2>7, <2>8
<1>5. ASSUME NEW n \in Names, PresignRaises(n) PROVE SessionTypes'
  <2>1. PICK f \in Named(n) : sess' = DropSessions(f)
    BY <1>5 DEF PresignRaises
  <2>2. UNCHANGED <<upFile, upName, ups>> /\ f \in Files
    BY <1>5 DEF PresignRaises, Named
  <2> QED
    BY <1>1, <1>3, <2>1, <2>2 DEF SessionTypes
<1>6. CASE CompleteFinish
  <2>1. hd.up \in Uploads /\ hd.up <= ups
    BY <1>6, Facts, TypeParts DEF CompleteFinish, HandlerTypes
  <2>2. sess[hd.up] # "none"
    BY <1>1, <2>1, Facts DEF SessionTypes, Uploads
  <2> QED
    BY <1>1, <1>6, <2>1, <2>2 DEF SessionTypes, CompleteFinish
<1>7. CASE DeleteRow
  <2>1. sess' = DropSessions(hd.file) /\ UNCHANGED <<upFile, upName, ups>> /\ hd.file \in Files
    BY <1>7, Facts DEF DeleteRow
  <2> QED
    BY <1>1, <1>3, <2>1 DEF SessionTypes
<1> QED
  BY <1>2, <1>4, <1>5, <1>6, <1>7, SessionSteps

LEMMA StoreTypesStep ==
  ASSUME TypeOK, [Next]_vars
  PROVE  StoreTypes'
<1>1. StoreTypes /\ RunTypes /\ Contents \subseteq OnDisk /\ Empty \in OnDisk
  BY TypeParts DEF OnDisk
<1>2. CASE UNCHANGED storeVars
  BY <1>1, <1>2 DEF StoreTypes, storeVars
<1>3. ASSUME NEW u \in Uploads, NEW c \in Contents, Put(u, c) PROVE StoreTypes'
  BY <1>1, <1>3 DEF Put, StoreTypes
<1>4. ASSUME NEW c \in Contents, WebWrite(c) PROVE StoreTypes'
  BY <1>1, <1>4 DEF WebWrite, StoreTypes
<1>5. CASE DeleteBytes
  BY <1>1, <1>5 DEF DeleteBytes, StoreTypes
<1>6. CASE CompletePlaceholder
  BY <1>1, <1>6 DEF CompletePlaceholder, StoreTypes
<1>7. CASE CompleteClear \/ DeleteIndex \/ DeleteRow
  BY <1>1, <1>7 DEF CompleteClear, DeleteIndex, DeleteRow, StoreTypes
<1>8. ASSUME NEW t \in Threads, ClearIndex(t) PROVE StoreTypes'
  BY <1>1, <1>8 DEF ClearIndex, StoreTypes
<1>9. \A stored \in SUBSET Contents, c \in OnDisk : Upserted(stored, c) \subseteq SUBSET Contents
  BY DEF Upserted, OnDisk
<1>10. ASSUME NEW t \in Threads, StoreData(t) PROVE StoreTypes'
  <2>1. th[t].file \in Files /\ th[t].got \in OnDisk /\ UNCHANGED <<bytes, idx>>
    BY <1>1, <1>10, Facts DEF StoreData, RunTypes
  <2>2. \/ data' = data
        \/ \E d \in Upserted(data[th[t].file], th[t].got) : data' = [data EXCEPT ![th[t].file] = d]
    BY <1>10 DEF StoreData
  <2> QED
    BY <1>1, <1>9, <2>1, <2>2 DEF StoreTypes
<1>11. ASSUME NEW t \in Threads, StoreIndex(t) PROVE StoreTypes'
  <2>1. th[t].file \in Files /\ th[t].got \in OnDisk /\ UNCHANGED <<bytes, data>>
    BY <1>1, <1>11, Facts DEF StoreIndex, RunTypes
  <2>2. \/ idx' = idx
        \/ \E d \in Upserted(idx[th[t].file], th[t].got) : idx' = [idx EXCEPT ![th[t].file] = d]
    BY <1>11 DEF StoreIndex
  <2> QED
    BY <1>1, <1>9, <2>1, <2>2 DEF StoreTypes
<1>12. ASSUME NEW t \in Threads, Raise(t) PROVE StoreTypes'
  <2>1. th[t].pc = "data" /\ th[t].got # Empty => th[t].got \in Contents
    BY <1>1 DEF RunTypes, OnDisk
  <2> QED
    BY <1>1, <1>12, <2>1 DEF Raise, StoreTypes
<1> QED
  BY <1>2, <1>3, <1>4, <1>5, <1>6, <1>7, <1>8, <1>10, <1>11, <1>12, StoreSteps

LEMMA HandlerTypesStep ==
  ASSUME TypeOK, [Next]_vars
  PROVE  HandlerTypes'
<1>0. ups' \in Nat /\ ups <= ups'
  <2>1. ups' = ups \/ ups' = ups + 1
    BY SessionSteps DEF Presign, PresignRaises, CompleteFinish, DeleteRow, sessVars
  <2> QED
    BY <2>1, Facts
<1>1. HandlerTypes
  BY TypeParts
<1>2. CASE UNCHANGED hd
  BY <1>0, <1>1, <1>2, Facts DEF HandlerTypes, Uploads, NoHandler
<1>3. CASE hd' = NoHandler
  BY <1>3 DEF HandlerTypes, NoHandler, HandlerSteps
<1>4. ASSUME NEW u \in Uploads, CompleteBegin(u) PROVE HandlerTypes'
  <2>1. u <= ups /\ upFile[u] \in Files /\ u # NoUpload /\ upFile[u] # NoFile
    BY <1>4, Facts, TypeParts DEF CompleteBegin, SessionTypes, Uploads, NoUpload
  <2>2. ups' = ups
    BY <1>4 DEF CompleteBegin, sessVars
  <2>3. \/ hd' = [pc |-> "clear", file |-> upFile[u], up |-> u]
        \/ hd' = [pc |-> "placeholder", file |-> upFile[u], up |-> u]
    BY <1>4 DEF CompleteBegin
  <2> QED
    BY <2>1, <2>2, <2>3 DEF HandlerTypes, HandlerSteps
<1>5. ASSUME NEW c \in Contents, WebWrite(c) PROVE HandlerTypes'
  <2>1. ids' \in Files /\ ids' # NoFile
    BY <1>5, Facts DEF WebWrite, Files, NoFile
  <2>2. hd' = [pc |-> "register", file |-> ids', up |-> NoUpload]
    BY <1>5 DEF WebWrite
  <2> QED
    BY <2>1, <2>2 DEF HandlerTypes, HandlerSteps
<1>6. ASSUME NEW f \in Files, DeleteBegin(f) PROVE HandlerTypes'
  <2>1. f # NoFile
    BY Facts
  <2>2. hd' = [pc |-> "deleteBytes", file |-> f, up |-> NoUpload]
    BY <1>6 DEF DeleteBegin
  <2> QED
    BY <2>1, <2>2 DEF HandlerTypes, HandlerSteps
<1>7. CASE CompleteClear \/ CompletePlaceholder \/ DeleteBytes \/ DeleteIndex
  <2>1. \E l \in {"placeholder", "finish", "deleteIndex", "deleteRow"} :
          /\ hd' = [hd EXCEPT !.pc = l] /\ hd.pc # "idle"
          /\ l \in {"placeholder", "finish"} => hd.pc \in {"clear", "placeholder"}
    BY <1>7 DEF CompleteClear, CompletePlaceholder, DeleteBytes, DeleteIndex
  <2>2. ups' = ups
    BY <1>7 DEF CompleteClear, CompletePlaceholder, DeleteBytes, DeleteIndex, sessVars
  <2> QED
    BY <1>1, <2>1, <2>2 DEF HandlerTypes, HandlerSteps
<1> QED
  BY <1>2, <1>3, <1>4, <1>5, <1>6, <1>7, HandlerChanges

LEMMA RunTypesStep ==
  ASSUME TypeOK, [Next]_vars
  PROVE  RunTypes'
<1>1. RunTypes /\ StoreTypes
  BY TypeParts
<1>2. CASE UNCHANGED th
  BY <1>1, <1>2 DEF RunTypes
<1>3. NoRun \in [pc : RunSteps, file : Files \cup {NoFile}, got : OnDisk \cup {NoBytes}]
      /\ NoRun.pc = "idle" /\ NoRun.got = NoBytes
  BY DEF NoRun, RunSteps
<1>4. CASE Crash
  BY <1>3, <1>4 DEF Crash, RunTypes
<1>5. ASSUME NEW t \in Threads, th' = [th EXCEPT ![t] = NoRun] PROVE RunTypes'
  BY <1>1, <1>3, <1>5 DEF RunTypes
<1>6. ASSUME NEW t \in Threads, NEW f \in Files, StartRun(t, f) PROVE RunTypes'
  <2>1. th' = [th EXCEPT ![t] = [NoRun EXCEPT !.pc = "mark", !.file = f]]
    BY <1>6 DEF StartRun
  <2>2. f # NoFile
    BY Facts
  <2> QED
    BY <1>1, <1>3, <2>1, <2>2 DEF RunTypes, NoRun, RunSteps
<1>7. ASSUME NEW t \in Threads, NEW l \in RunSteps, th[t].pc # "idle", th' = Goto(t, l),
             l \in {"clear", "data", "index"} => th[t].pc \in {"stub", "clear", "data"},
             l # "stub"
      PROVE  RunTypes'
  BY <1>1, <1>7 DEF RunTypes, Goto
<1>8. ASSUME NEW t \in Threads, Parse(t) PROVE RunTypes'
  <2>1. CASE bytes[th[t].file] = NoBytes
    BY <1>7, <1>8, <2>1 DEF Parse, RunSteps
  <2>2. CASE bytes[th[t].file] # NoBytes
    <3>1. th' = [th EXCEPT ![t] = [th[t] EXCEPT !.pc = "stub", !.got = bytes[th[t].file]]]
      BY <1>1, <1>8, <2>2 DEF Parse, RunTypes
    <3>2. th[t].pc = "parse" /\ th[t].file \in Files
      BY <1>8, Facts DEF Parse
    <3>3. bytes[th[t].file] \in OnDisk
      BY <1>1, <2>2, <3>2 DEF StoreTypes
    <3>4. th[t].file # NoFile
      BY <3>2, Facts
    <3> QED
      BY <1>1, <3>1, <3>2, <3>3, <3>4 DEF RunTypes, RunSteps
  <2> QED
    BY <2>1, <2>2
<1>9. ASSUME NEW t \in Threads, Mark(t) \/ MarkLost(t) PROVE RunTypes'
  <2>1. \/ th' = [th EXCEPT ![t] = NoRun]
        \/ th[t].pc # "idle" /\ (th' = Goto(t, "resolve") \/ th' = Goto(t, "count"))
    BY <1>9 DEF Mark, MarkLost
  <2> QED
    BY <1>5, <1>7, <2>1 DEF RunSteps
<1>10. ASSUME NEW t \in Threads, Resolve(t) \/ Raise(t) PROVE RunTypes'
  <2>1. th[t].pc # "idle" /\ (th' = Goto(t, "parse") \/ th' = Goto(t, "failed"))
    BY <1>10 DEF Resolve, Raise, Holding
  <2> QED
    BY <1>7, <2>1 DEF RunSteps
<1>11. ASSUME NEW t \in Threads, Stub(t) \/ ClearIndex(t) \/ StoreData(t) \/ StoreIndex(t)
       PROVE  RunTypes'
  <2>1. /\ th[t].pc \in {"stub", "clear", "data", "index"}
        /\ \/ th[t].pc # "index" /\ \E l \in {"clear", "data", "index"} : th' = Goto(t, l)
           \/ th' = Goto(t, "ready") \/ th' = Goto(t, "failed")
    BY <1>11 DEF Stub, ClearIndex, StoreData, StoreIndex
  <2> QED
    BY <1>7, <2>1 DEF RunSteps
<1>12. ASSUME NEW t \in Threads, AddCount(t) PROVE RunTypes'
  BY <1>5, <1>12 DEF AddCount
<1> QED
  BY <1>2, <1>4, <1>6, <1>8, <1>9, <1>10, <1>11, <1>12, RunChanges

LEMMA CounterTypesStep ==
  ASSUME TypeOK, [Next]_vars
  PROVE  CounterTypes'
<1>1. /\ ids \in 0 .. MaxFiles /\ runs \in 0 .. MaxRuns /\ faults \in 0 .. MaxFaults
      /\ fileCount \in Nat
  BY TypeParts DEF CounterTypes
<1>2. /\ ids' = ids \/ (ids < MaxFiles /\ ids' = ids + 1)
      /\ runs' = runs \/ (runs < MaxRuns /\ runs' = runs + 1)
      /\ faults' = faults \/ (faults < MaxFaults /\ faults' = faults + 1)
      /\ fileCount' = fileCount \/ fileCount' = fileCount + 1
  <2>1. CASE UNCHANGED vars
    BY <2>1 DEF vars, boundVars
  <2>2. CASE Handler
    BY <2>2 DEF Handler, boundVars, Presign, PresignRaises, Put, CompleteBegin, CompleteClear,
                CompletePlaceholder, CompleteFinish, WebWrite, WebRegister, DeleteBegin,
                DeleteBytes, DeleteIndex, DeleteRow
  <2>3. ASSUME NEW t \in Threads, Run(t) \/ MarkLost(t)
        PROVE  <1>2
    BY <2>3 DEF Run, boundVars, StartRun, Mark, Resolve, Parse, Stub, ClearIndex, StoreData,
                StoreIndex, Raise, AddCount, MarkLost, Fault
  <2>4. CASE Crash \/ HandlerRaises
    BY <2>4 DEF Crash, HandlerRaises, Fault
  <2> QED
    BY <2>1, <2>2, <2>3, <2>4 DEF Next
<1> QED
  BY <1>1, <1>2, Facts DEF CounterTypes

LEMMA HistoryTypesStep ==
  ASSUME TypeOK, [Next]_vars
  PROVE  HistoryTypes'
<1>1. HistoryTypes
  BY TypeParts
<1>2. \A f \in Files : Race(f) \subseteq Files
  BY <1>1 DEF Race, HistoryTypes
<1>3. CASE UNCHANGED histVars
  BY <1>1, <1>3 DEF histVars, HistoryTypes
<1>4. ASSUME NEW u \in Uploads, NEW c \in Contents, Put(u, c) PROVE HistoryTypes'
  <2>1. upFile[u] \in Files
    BY <1>4, Facts DEF Put
  <2> QED
    BY <1>1, <1>2, <1>4, <2>1 DEF Put, HistoryTypes
<1>5. ASSUME NEW u \in Uploads, CompleteBegin(u) PROVE HistoryTypes'
  <2>1. upFile[u] \in Files
    BY <1>5, Facts, TypeParts DEF CompleteBegin, SessionTypes, Uploads
  <2> QED
    BY <1>1, <1>2, <1>5, <2>1 DEF CompleteBegin, HistoryTypes
<1>6. ASSUME NEW f \in Files, DeleteBegin(f) PROVE HistoryTypes'
  BY <1>1, <1>2, <1>6 DEF DeleteBegin, HistoryTypes
<1>7. CASE DeleteRow
  BY <1>1, <1>2, <1>7, Facts DEF DeleteRow, HistoryTypes
<1>8. ASSUME NEW t \in Threads, NEW f \in Files, StartRun(t, f) PROVE HistoryTypes'
  BY <1>1, <1>2, <1>8 DEF StartRun, HistoryTypes
<1>9. CASE Crash
  <2>1. hd.file \in Files \cup {NoFile} /\ \A t \in Threads : th[t].file \in Files \cup {NoFile}
    BY TypeParts DEF HandlerTypes, RunTypes
  <2> QED
    BY <1>1, <1>9, <2>1 DEF Crash, HistoryTypes
<1>10. CASE HandlerRaises
  <2>1. hd.file \in Files
    BY <1>10, Facts, TypeParts DEF HandlerRaises, HandlerTypes
  <2> QED
    BY <1>1, <1>10, <2>1 DEF HandlerRaises, HistoryTypes
<1>11. ASSUME NEW t \in Threads, MarkLost(t) PROVE HistoryTypes'
  <2>1. th[t].file \in Files
    BY <1>11, Facts DEF MarkLost
  <2> QED
    BY <1>1, <1>11, <2>1 DEF MarkLost, HistoryTypes
<1>12. ASSUME NEW t \in Threads,
              \/ Mark(t) \/ Resolve(t) \/ Parse(t) \/ Stub(t) \/ ClearIndex(t) \/ StoreData(t)
              \/ StoreIndex(t) \/ Raise(t) \/ AddCount(t)
       PROVE  HistoryTypes'
  BY <1>3, <1>12 DEF Mark, Resolve, Parse, Stub, ClearIndex, StoreData, StoreIndex, Raise,
                     AddCount
<1>13. ASSUME NEW n \in Names, Presign(n) \/ PresignRaises(n) PROVE HistoryTypes'
  BY <1>3, <1>13 DEF Presign, PresignRaises
<1>14. ASSUME NEW c \in Contents, WebWrite(c) PROVE HistoryTypes'
  BY <1>3, <1>14 DEF WebWrite
<1>15. CASE \/ CompleteClear \/ CompletePlaceholder \/ CompleteFinish \/ WebRegister \/ DeleteBytes
            \/ DeleteIndex \/ UNCHANGED vars
  BY <1>3, <1>15 DEF CompleteClear, CompletePlaceholder, CompleteFinish, WebRegister,
                     DeleteBytes, DeleteIndex, vars
<1> QED
  BY <1>4, <1>5, <1>6, <1>7, <1>8, <1>9, <1>10, <1>11, <1>12, <1>13, <1>14, <1>15
     DEF Next, Handler, Run

LEMMA TypeInit == Init => TypeOK
<1>1. NoRow \in Rows
  BY DEF Rows
<1>2. NoHandler \in [pc : HandlerSteps, file : Files \cup {NoFile}, up : Uploads \cup {NoUpload}]
  BY DEF NoHandler, HandlerSteps
<1>3. NoRun \in [pc : RunSteps, file : Files \cup {NoFile}, got : OnDisk \cup {NoBytes}]
  BY DEF NoRun, RunSteps
<1>4. NoHandler.pc = "idle" /\ NoRun.pc = "idle"
  BY DEF NoHandler, NoRun
<1>5. \A u \in Uploads : u > 0 /\ ~(u <= 0)
  BY BoundsAssumption DEF Uploads
<1>6. ASSUME Init PROVE RowTypes /\ StoreTypes
  BY <1>1, <1>6 DEF Init, RowTypes, StoreTypes
<1>7. ASSUME Init PROVE SessionTypes
  BY <1>5, <1>7, BoundsAssumption DEF Init, SessionTypes
<1>8. ASSUME Init PROVE HandlerTypes /\ RunTypes
  BY <1>2, <1>3, <1>4, <1>8 DEF Init, HandlerTypes, RunTypes
<1>9. ASSUME Init PROVE CounterTypes /\ HistoryTypes
  BY <1>9, BoundsAssumption DEF Init, CounterTypes, HistoryTypes
<1> QED
  BY <1>6, <1>7, <1>8, <1>9, TypeParts

\* The types hold always (the tables, the files, the handler and the runs of KbFiles).
THEOREM TypeCorrect == Spec => []TypeOK
<1>1. TypeOK /\ [Next]_vars => TypeOK'
  BY RowTypesStep, SessionTypesStep, StoreTypesStep, HandlerTypesStep, RunTypesStep,
     CounterTypesStep, HistoryTypesStep, JoinNext
<1> QED
  BY <1>1, TypeInit, PTL DEF Spec

-----------------------------------------------------------------------------
(* Names.                                                                   *)

\* An insert finds the name free; every other step keeps the names, frees one or adds a stub.
LEMMA UniqueStep ==
  ASSUME TypeOK, NamesAreUnique, [Next]_vars
  PROVE  NamesAreUnique'
<1>1. rows \in [Files -> Rows]
  BY DEF TypeOK, TablesOK
<1>2. ASSUME \A f \in Files : rows'[f].name = rows[f].name PROVE NamesAreUnique'
  BY <1>2 DEF NamesAreUnique
<1>3. ASSUME NEW f \in Files, NEW n \in Names, Named(n) = {},
             rows' = [rows EXCEPT ![f] = [name |-> n, status |-> "uploaded"]]
      PROVE  NamesAreUnique'
  <2>1. \A g \in Files : rows[g].name # n
    BY <1>3 DEF Named
  <2>2. \A g \in Files : rows'[g].name = IF g = f THEN n ELSE rows[g].name
    BY <1>1, <1>3
  <2> QED
    BY <2>1, <2>2 DEF NamesAreUnique
<1>4. ASSUME NEW f \in Files, NEW r, r.name \notin Names, rows' = [rows EXCEPT ![f] = r]
      PROVE  NamesAreUnique'
  <2>1. \A g \in Files : rows'[g].name = IF g = f THEN r.name ELSE rows[g].name
    BY <1>1, <1>4
  <2> QED
    BY <1>4, <2>1 DEF NamesAreUnique
<1>5. ASSUME UNCHANGED rows PROVE NamesAreUnique'
  BY <1>2, <1>5
<1>6. ASSUME NEW t \in Threads, Mark(t) PROVE NamesAreUnique'
  <2>1. \E s : rows' = StatusSet(th[t].file, s)
    BY <1>6 DEF Mark
  <2>2. \A f \in Files : rows'[f].name = rows[f].name
    BY <1>1, <2>1 DEF StatusSet, Registered, Rows, NoRow
  <2> QED
    BY <1>2, <2>2
<1>7. ASSUME NEW t \in Threads, Stub(t) PROVE NamesAreUnique'
  <2>1. StubName \notin Names
    BY DEF StubName, Names
  <2> QED
    BY <1>4, <1>5, <1>7, <2>1, Facts DEF Stub
<1>8. ASSUME NEW u \in Uploads, CompleteBegin(u) PROVE NamesAreUnique'
  <2>1. upFile[u] \in Files /\ upName[u] \in Names
    BY <1>8, Facts, TypeParts DEF CompleteBegin, SessionTypes, Uploads
  <2>2. CASE Registered(upFile[u])
    <3>1. rows' = [rows EXCEPT ![upFile[u]].status = "uploaded"]
      BY <1>8, <2>2 DEF CompleteBegin
    <3>2. rows' = StatusSet(upFile[u], "uploaded")
      BY <2>2, <3>1 DEF StatusSet
    <3>3. \A f \in Files : rows'[f].name = rows[f].name
      BY <1>1, <3>2 DEF StatusSet, Registered, Rows, NoRow
    <3> QED
      BY <1>2, <3>3
  <2>3. CASE ~Registered(upFile[u])
    BY <1>3, <1>8, <2>1, <2>3 DEF CompleteBegin, CanInsert
  <2> QED
    BY <2>2, <2>3
<1>9. CASE WebRegister
  BY <1>3, <1>9, Facts DEF WebRegister, CanInsert
<1>10. CASE DeleteRow
  <2>1. NoRow.name \notin Names
    BY DEF NoRow, Names
  <2> QED
    BY <1>4, <1>10, <2>1, Facts DEF DeleteRow
<1>11. CASE UNCHANGED vars
  BY <1>5, <1>11 DEF vars
<1>12. ASSUME NEW n \in Names, Presign(n) \/ PresignRaises(n) PROVE NamesAreUnique'
  BY <1>5, <1>12 DEF Presign, PresignRaises
<1>13. ASSUME NEW u \in Uploads, NEW c \in Contents, Put(u, c) PROVE NamesAreUnique'
  BY <1>5, <1>13 DEF Put
<1>14. CASE CompleteClear \/ CompletePlaceholder \/ CompleteFinish \/ DeleteBytes \/ DeleteIndex
          \/ Crash \/ HandlerRaises
  BY <1>5, <1>14 DEF CompleteClear, CompletePlaceholder, CompleteFinish, DeleteBytes, DeleteIndex, Crash,
                      HandlerRaises
<1>15. ASSUME NEW c \in Contents, WebWrite(c) PROVE NamesAreUnique'
  BY <1>5, <1>15 DEF WebWrite
<1>16. ASSUME NEW f \in Files, DeleteBegin(f) PROVE NamesAreUnique'
  BY <1>5, <1>16 DEF DeleteBegin
<1>17. ASSUME NEW t \in Threads, NEW f \in Files, StartRun(t, f) PROVE NamesAreUnique'
  BY <1>5, <1>17 DEF StartRun
<1>18. ASSUME NEW t \in Threads,
              \/ Resolve(t) \/ Parse(t) \/ ClearIndex(t) \/ StoreData(t) \/ StoreIndex(t)
              \/ Raise(t) \/ AddCount(t) \/ MarkLost(t)
       PROVE  NamesAreUnique'
  BY <1>5, <1>18 DEF Resolve, Parse, ClearIndex, StoreData, StoreIndex, Raise, AddCount, MarkLost
<1> QED
  BY <1>6, <1>7, <1>8, <1>9, <1>10, <1>11, <1>12, <1>13, <1>14, <1>15, <1>16, <1>17, <1>18
     DEF Next, Handler, Run

\* Two files never show under one name (presign, complete, _resolve_unique_file_name and
\* the constraint of t_dim_kb_file).
THEOREM FileNamesAreUnique == Spec => []NamesAreUnique
<1>1. Init => NamesAreUnique
  BY DEF Init, NamesAreUnique, NoRow, Names
<1>2. TypeOK /\ NamesAreUnique /\ [Next]_vars => NamesAreUnique'
  BY UniqueStep
<1> QED
  BY <1>1, <1>2, TypeCorrect, PTL DEF Spec

-----------------------------------------------------------------------------
(* The inductive invariant of registration and deletion.                    *)

Active(u) == sess[u] \in {"pending", "uploaded"}

\* File ids are drawn upwards.
Drawn ==
  /\ \A u \in Uploads : upFile[u] <= ids
  /\ \A f \in Files : Registered(f) \/ f \in deleted => f <= ids
  /\ hd.file <= ids
  /\ \A t \in Threads : th[t].file <= ids

\* A file has one active session, which agrees with the file's row.
SessionsAgree ==
  /\ \A u, v \in Uploads : Active(u) /\ Active(v) /\ upFile[u] = upFile[v] => u = v
  /\ \A u \in Uploads : Active(u) /\ Registered(upFile[u]) => rows[upFile[u]].name = upName[u]
  /\ \A u \in Uploads : sess[u] = "uploaded" => Registered(upFile[u])

\* What a handler under way relies on.
HandlerAgrees ==
  /\ hd.pc \in {"clear", "placeholder", "finish"} =>
       sess[hd.up] = "pending" /\ upFile[hd.up] = hd.file /\ Registered(hd.file)
  /\ hd.pc = "register" => hd.file \notin deleted /\ \A u \in Uploads : upFile[u] # hd.file

\* A run that has resolved a file outlives its row only without an upload of it.
RunsAgree ==
  \A t \in Threads, u \in Uploads :
    th[t].pc \in Holding /\ ~Registered(th[t].file) /\ Active(u) => upFile[u] # th[t].file

\* Nothing is left that could bring a deleted file back.
DeletedIsGone ==
  \A f \in deleted \ held :
    /\ rows[f] = NoRow /\ data[f] = {} /\ idx[f] = {}
    /\ \A u \in Uploads : Active(u) => upFile[u] # f
    /\ \A t \in Threads : th[t].pc \in Holding => th[t].file # f

FileInv == Drawn /\ SessionsAgree /\ HandlerAgrees /\ RunsAgree /\ DeletedIsGone

\* A file marked indexing has a run that will mark it again.
IndexingIsRun ==
  \A f \in Files \ torn : rows[f].status = "indexing" =>
    \E t \in Threads : th[t].file = f /\ th[t].pc \notin {"idle", "mark", "count"}

\* A handler writes the bytes before it lets go of the file.
HasBytes(f) ==
  /\ Registered(f) /\ ~IsStub(f) /\ hd.file # f => bytes[f] # NoBytes
  /\ hd.pc \in {"finish", "register"} /\ hd.file = f => bytes[f] # NoBytes
HandlerHasBytes == \A f \in Files \ torn : HasBytes(f)

\* No row is inserted, deleted or renamed.
RowsStand == \A f \in Files : (Registered(f)' <=> Registered(f)) /\ rows'[f].name = rows[f].name

LEMMA StatusStands ==
  ASSUME TypeOK, NEW f \in Files, NEW s, rows' = StatusSet(f, s)
  PROVE  RowsStand
<1>1. rows \in [Files -> Rows]
  BY DEF TypeOK, TablesOK
<1>2. CASE ~Registered(f)
  BY <1>2 DEF RowsStand, StatusSet, Registered
<1>3. CASE Registered(f)
  <2>1. rows' = [rows EXCEPT ![f] = [rows[f] EXCEPT !.status = s]]
    BY <1>1, <1>3 DEF StatusSet
  <2>2. rows[f].name # -1 /\ [rows[f] EXCEPT !.status = s].name = rows[f].name
    BY <1>1, <1>3 DEF Rows, Registered, NoRow, Names, StubName
  <2>3. \A g \in Files : rows'[g] = IF g = f THEN [rows[f] EXCEPT !.status = s] ELSE rows[g]
    BY <1>1, <2>1
  <2>4. NoRow.name = -1
    BY DEF NoRow
  <2>5. [rows[f] EXCEPT !.status = s] # NoRow
    BY <2>2, <2>4
  <2> QED
    BY <1>3, <2>2, <2>3, <2>5 DEF RowsStand, Registered
<1> QED
  BY <1>2, <1>3

\* A step that moves no session and no row keeps the invariant, if its runs resolve only
\* registered files and it stores nothing about the deleted ones.
LEMMA QuietStep ==
  ASSUME TypeOK, TypeOK', FileInv, RowsStand, UNCHANGED <<sess, upFile, upName, deleted, held>>,
         ids <= ids', hd'.file <= ids', HandlerAgrees',
         \A f \in deleted \ held : data'[f] = data[f] /\ idx'[f] = idx[f],
         \A t \in Threads :
           /\ th'[t].file <= ids'
           /\ th'[t].pc \in Holding =>
                /\ th'[t].file = th[t].file
                /\ th[t].pc \in Holding \/ Registered(th[t].file)
  PROVE  FileInv'
<1>1. /\ Files \subseteq Nat /\ ids \in Nat /\ ids' \in Nat /\ deleted \subseteq Files
      /\ \A u \in Uploads : upFile[u] \in Nat
      /\ \A u \in Uploads : Active(u) => upFile[u] \in Files
      /\ \A t \in Threads : th'[t].pc \in Holding => th'[t].file \in Files
  <2>1. \A t \in Threads : th'[t].pc \in Holding => th'[t].file \in Files
    BY TypeParts DEF TypeOK, ActorsOK, Holding
  <2>2. \A u \in Uploads : Active(u) => upFile[u] \in Files
    BY Facts, TypeParts DEF Active, SessionTypes, Uploads
  <2>3. \A u \in Uploads : upFile[u] \in Nat
    BY Facts, TypeParts DEF SessionTypes, NoFile
  <2>4. ids' \in Nat
    BY BoundsAssumption DEF TypeOK, ActorsOK
  <2> QED
    BY <2>1, <2>2, <2>3, <2>4, Facts, TypeParts DEF HistoryTypes
<1>2. Drawn'
  <2>1. ASSUME NEW u \in Uploads PROVE upFile'[u] <= ids'
    <3>1. upFile[u] <= ids /\ upFile' = upFile /\ upFile[u] \in Nat
      BY <1>1, <2>1 DEF FileInv, Drawn
    <3> QED
      BY <1>1, <3>1
  <2>2. ASSUME NEW f \in Files, Registered(f)' \/ f \in deleted' PROVE f <= ids'
    <3>1. Registered(f) \/ f \in deleted
      BY <2>2 DEF RowsStand
    <3>2. f <= ids /\ f \in Nat
      BY <1>1, <3>1 DEF FileInv, Drawn
    <3> QED
      BY <1>1, <3>2
  <2> QED
    BY <2>1, <2>2 DEF Drawn
<1>3. SessionsAgree'
  <2>1. \A u \in Uploads : Active(u)' <=> Active(u)
    BY DEF Active
  <2> QED
    BY <1>1, <2>1 DEF FileInv, SessionsAgree, RowsStand, Active
<1>4. RunsAgree'
  BY <1>1 DEF FileInv, RunsAgree, RowsStand, Active
<1>5. DeletedIsGone'
  BY <1>1 DEF FileInv, DeletedIsGone, RowsStand, Active, Registered
<1> QED
  BY <1>2, <1>3, <1>4, <1>5 DEF FileInv

\* A handler that is not under way, or goes on with the rows and sessions as they were.
LEMMA HandlerStands ==
  ASSUME TypeOK, FileInv, RowsStand, UNCHANGED <<sess, upFile, deleted>>,
         hd' = hd \/ hd' = NoHandler
  PROVE  HandlerAgrees'
<1>1. CASE hd' = NoHandler
  BY <1>1 DEF HandlerAgrees, NoHandler
<1>2. CASE hd' = hd
  BY <1>2, Facts DEF HandlerAgrees, RowsStand, FileInv
<1> QED
  BY <1>1, <1>2

LEMMA RowsUnchanged == UNCHANGED rows => RowsStand
  BY DEF RowsStand, Registered

\* The handlers that leave rows and sessions as they are.
LEMMA QuietHandlers ==
  ASSUME TypeOK, TypeOK', FileInv,
         \/ UNCHANGED vars \/ CompleteClear \/ CompletePlaceholder \/ DeleteBytes \/ DeleteIndex
         \/ HandlerRaises \/ Crash
         \/ \E u \in Uploads, c \in Contents : Put(u, c)
         \/ \E c \in Contents : WebWrite(c)
         \/ \E f \in Files : DeleteBegin(f)
         \/ \E u \in Uploads : CompleteBegin(u) /\ Registered(upFile[u])
  PROVE  FileInv'
<1>1. /\ \A t \in Threads : th[t].file <= ids
      /\ hd.file <= ids /\ ids \in Nat
      /\ \A u \in Uploads : upFile[u] <= ids
      /\ \A f \in Files : Registered(f) => f <= ids
  BY Facts DEF FileInv, Drawn
<1>2. ASSUME RowsStand, UNCHANGED <<sess, upFile, upName, deleted, held, th, ids>>,
             hd'.file <= ids, HandlerAgrees',
             \A f \in deleted \ held : data'[f] = data[f] /\ idx'[f] = idx[f]
      PROVE  FileInv'
  BY <1>1, <1>2, QuietStep
<1>3. ASSUME UNCHANGED rows, UNCHANGED <<sess, upFile, upName, deleted, held, th, ids>>,
             hd' = hd \/ hd' = NoHandler,
             \A f \in deleted \ held : data'[f] = data[f] /\ idx'[f] = idx[f]
      PROVE  FileInv'
  <2>1. hd'.file <= ids
    BY <1>1, <1>3 DEF NoHandler, NoFile
  <2> QED
    BY <1>2, <1>3, <2>1, HandlerStands, RowsUnchanged
<1>4. CASE UNCHANGED vars
  BY <1>3, <1>4 DEF vars, sessVars, storeVars, boundVars, histVars
<1>5. CASE HandlerRaises
  BY <1>3, <1>5 DEF HandlerRaises, sessVars, storeVars
<1>6. ASSUME NEW u \in Uploads, NEW c \in Contents, Put(u, c) PROVE FileInv'
  BY <1>3, <1>6 DEF Put, boundVars
<1>7. ASSUME \A f \in deleted \ held : data[f] = {} /\ idx[f] = {},
             data' = [data EXCEPT ![hd.file] = {}], idx' = [idx EXCEPT ![hd.file] = {}]
      PROVE  \A f \in deleted \ held : data'[f] = data[f] /\ idx'[f] = idx[f]
  BY <1>7, TypeParts DEF StoreTypes, HistoryTypes
<1>8. \A f \in deleted \ held : data[f] = {} /\ idx[f] = {}
  BY DEF FileInv, DeletedIsGone
<1>9. CASE CompleteClear \/ CompletePlaceholder
  <2>1. hd' = [hd EXCEPT !.pc = "placeholder"] \/ hd' = [hd EXCEPT !.pc = "finish"]
    BY <1>9 DEF CompleteClear, CompletePlaceholder
  <2>2. hd.pc \in {"clear", "placeholder"} /\ UNCHANGED <<sess, upFile, upName, deleted, held, th, ids, rows>>
    BY <1>9 DEF CompleteClear, CompletePlaceholder, sessVars, boundVars, histVars
  <2>3. hd'.file = hd.file /\ hd'.up = hd.up /\ hd'.pc \in {"placeholder", "finish"}
    BY <2>1, TypeParts DEF HandlerTypes
  <2>4. HandlerAgrees'
    BY <2>2, <2>3 DEF FileInv, HandlerAgrees, Registered
  <2>5. \A f \in deleted \ held : data'[f] = data[f] /\ idx'[f] = idx[f]
    BY <1>7, <1>8, <1>9 DEF CompleteClear, CompletePlaceholder
  <2> QED
    BY <1>1, <1>2, <2>2, <2>3, <2>4, <2>5, RowsUnchanged
<1>10. CASE DeleteIndex
  <2>1. hd'.file = hd.file /\ hd'.pc = "deleteRow"
    BY <1>10, TypeParts DEF DeleteIndex, HandlerTypes
  <2>2. HandlerAgrees'
    BY <2>1 DEF HandlerAgrees
  <2>3. \A f \in deleted \ held : data'[f] = data[f] /\ idx'[f] = idx[f]
    BY <1>7, <1>8, <1>10 DEF DeleteIndex
  <2> QED
    BY <1>1, <1>2, <1>10, <2>1, <2>2, <2>3, RowsUnchanged DEF DeleteIndex, sessVars, boundVars, histVars
<1>11. ASSUME NEW f \in Files, DeleteBegin(f) PROVE FileInv'
  <2>1. hd'.file = f /\ hd'.pc = "deleteBytes" /\ f <= ids
    BY <1>1, <1>11 DEF DeleteBegin
  <2>2. HandlerAgrees'
    BY <2>1 DEF HandlerAgrees
  <2> QED
    BY <1>2, <1>11, <2>1, <2>2, RowsUnchanged DEF DeleteBegin, sessVars, storeVars, boundVars
<1>12. ASSUME NEW u \in Uploads, CompleteBegin(u), Registered(upFile[u]) PROVE FileInv'
  <2>1. /\ hd'.pc = "clear" /\ hd'.file = upFile[u] /\ hd'.up = u /\ sess[u] = "pending"
        /\ UNCHANGED <<sess, upFile, upName, deleted, held, th, ids, data, idx>>
        /\ rows' = StatusSet(upFile[u], "uploaded")
    BY <1>12 DEF CompleteBegin, StatusSet, sessVars, storeVars, boundVars
  <2>2. upFile[u] \in Files
    BY <2>1, Facts, TypeParts DEF SessionTypes, Uploads
  <2>3. RowsStand
    BY <2>1, <2>2, StatusStands
  <2>4. HandlerAgrees'
    BY <1>12, <2>1, <2>2, <2>3 DEF HandlerAgrees, RowsStand
  <2> QED
    BY <1>1, <1>2, <2>1, <2>3, <2>4
<1>13. CASE Crash
  <2>1. /\ UNCHANGED <<rows, sess, upFile, upName, deleted, held, ids, data, idx>>
        /\ hd' = NoHandler /\ th' = [t \in Threads |-> NoRun]
    BY <1>13 DEF Crash, sessVars, storeVars
  <2>2. \A t \in Threads : th'[t].file <= ids' /\ th'[t].pc \notin Holding
    BY <1>1, <2>1 DEF NoRun, NoFile, Holding
  <2>3. RowsStand /\ HandlerAgrees' /\ hd'.file <= ids' /\ ids <= ids'
    BY <1>1, <2>1, RowsUnchanged, HandlerStands DEF NoHandler, NoFile
  <2> QED
    BY <2>1, <2>2, <2>3, QuietStep
<1>14. ASSUME NEW c \in Contents, WebWrite(c) PROVE FileInv'
  <2>1. /\ UNCHANGED <<rows, sess, upFile, upName, deleted, held, data, idx, th>>
        /\ hd' = [pc |-> "register", file |-> ids + 1, up |-> NoUpload] /\ ids' = ids + 1
        /\ ids < MaxFiles
    BY <1>14 DEF WebWrite, sessVars, histVars
  <2>2. ids + 1 \in Files
    BY <2>1, Facts DEF Files
  <2>3. ids + 1 \notin deleted /\ \A u \in Uploads : upFile[u] # ids + 1
    BY <1>1, <2>2, TypeParts, Facts DEF FileInv, Drawn, SessionTypes, NoFile
  <2>4. HandlerAgrees'
    BY <2>1, <2>3 DEF HandlerAgrees
  <2>5. \A t \in Threads : th'[t].file <= ids'
    BY <1>1, <2>1, Facts, TypeParts DEF RunTypes, NoFile
  <2> QED
    BY <1>1, <2>1, <2>4, <2>5, RowsUnchanged, QuietStep
<1>15. CASE DeleteBytes
  <2>1. hd'.file = hd.file /\ hd'.pc = "deleteIndex"
    BY <1>15, TypeParts DEF DeleteBytes, HandlerTypes
  <2>2. HandlerAgrees'
    BY <2>1 DEF HandlerAgrees
  <2> QED
    BY <1>1, <1>2, <1>15, <2>1, <2>2, RowsUnchanged DEF DeleteBytes, sessVars, boundVars, histVars
<1> QED
  BY <1>4, <1>5, <1>6, <1>9, <1>10, <1>11, <1>12, <1>13, <1>14, <1>15

\* The runs, but for a stub that brings a row back.
LEMMA QuietRuns ==
  ASSUME TypeOK, TypeOK', FileInv, NEW t \in Threads,
         \/ \E f \in Files : StartRun(t, f)
         \/ Mark(t) \/ Resolve(t) \/ Parse(t) \/ ClearIndex(t) \/ StoreData(t) \/ StoreIndex(t)
         \/ Raise(t) \/ AddCount(t) \/ MarkLost(t)
         \/ Stub(t) /\ Registered(th[t].file)
  PROVE  FileInv'
<1>1. /\ \A s \in Threads : th[s].file <= ids
      /\ hd.file <= ids /\ ids \in Nat
      /\ th \in [Threads -> [pc : RunSteps, file : Files \cup {NoFile}, got : OnDisk \cup {NoBytes}]]
  BY Facts, TypeParts DEF FileInv, Drawn, RunTypes
<1>2. /\ UNCHANGED <<sess, upFile, upName, deleted, held, ids, hd>>
      /\ \/ UNCHANGED rows
         \/ Mark(t) /\ \E s : rows' = StatusSet(th[t].file, s)
  BY DEF StartRun, Mark, Resolve, Parse, Stub, ClearIndex, StoreData, StoreIndex, Raise, AddCount,
         MarkLost, sessVars, boundVars, histVars
<1>3. RowsStand
  <2>1. Mark(t) => th[t].file \in Files
    BY Facts DEF Mark
  <2> QED
    BY <1>2, <2>1, StatusStands, RowsUnchanged
<1>4. \A f \in deleted \ held : data'[f] = data[f] /\ idx'[f] = idx[f]
  <2>1. \A f \in deleted \ held : th[t].pc \in Holding => th[t].file # f
    BY DEF FileInv, DeletedIsGone
  <2>2. CASE UNCHANGED <<data, idx>>
    BY <2>2
  <2>3. CASE ClearIndex(t) \/ StoreData(t) \/ StoreIndex(t) \/ Raise(t)
    <3>1. /\ th[t].pc \in Holding
          /\ \/ data' = data
             \/ \E d : data' = [data EXCEPT ![th[t].file] = d]
          /\ \/ idx' = idx
             \/ \E d : idx' = [idx EXCEPT ![th[t].file] = d]
      BY <2>3 DEF ClearIndex, StoreData, StoreIndex, Raise, Holding
    <3> QED
      BY <2>1, <3>1, TypeParts DEF StoreTypes, HistoryTypes
  <2> QED
    BY <2>2, <2>3 DEF StartRun, Mark, Resolve, Parse, Stub, AddCount, MarkLost, storeVars
<1>5. \E r : /\ th' = [th EXCEPT ![t] = r]
             /\ r.file <= ids
             /\ r.pc \in Holding => /\ r.file = th[t].file
                                    /\ th[t].pc \in Holding \/ Registered(th[t].file)
  <2>1. CASE th' = [th EXCEPT ![t] = NoRun]
    <3>1. NoRun.file <= ids /\ NoRun.pc \notin Holding
      BY <1>1 DEF NoRun, Holding, NoFile
    <3> QED
      BY <2>1, <3>1
  <2>2. ASSUME NEW l, th' = Goto(t, l),
               l \in Holding => th[t].pc \in Holding \/ Registered(th[t].file)
        PROVE  <1>5
    <3>1. th' = [th EXCEPT ![t] = [th[t] EXCEPT !.pc = l]]
      BY <1>1, <2>2 DEF Goto
    <3>2. [th[t] EXCEPT !.pc = l].file = th[t].file /\ [th[t] EXCEPT !.pc = l].pc = l
      BY <1>1
    <3> QED
      BY <1>1, <2>2, <3>1, <3>2
  <2>3. ASSUME NEW f \in Files, StartRun(t, f) PROVE <1>5
    <3>1. th' = [th EXCEPT ![t] = [NoRun EXCEPT !.pc = "mark", !.file = f]] /\ f <= ids
      BY <2>3 DEF StartRun
    <3>2. [NoRun EXCEPT !.pc = "mark", !.file = f].file = f
          /\ [NoRun EXCEPT !.pc = "mark", !.file = f].pc = "mark"
      BY DEF NoRun
    <3> QED
      BY <3>1, <3>2 DEF Holding
  <2>4. CASE Mark(t) \/ MarkLost(t) \/ AddCount(t)
    <3>1. th' = Goto(t, "resolve") \/ th' = Goto(t, "count") \/ th' = [th EXCEPT ![t] = NoRun]
      BY <2>4 DEF Mark, MarkLost, AddCount
    <3> QED
      BY <2>1, <2>2, <3>1 DEF Holding
  <2>5. CASE Resolve(t)
    <3>1. th' = Goto(t, "failed") \/ (Registered(th[t].file) /\ th' = Goto(t, "parse"))
      BY <2>5 DEF Resolve
    <3> QED
      BY <2>2, <3>1 DEF Holding
  <2>6. CASE Parse(t)
    <3>1. CASE th' = Goto(t, "failed")
      BY <2>2, <3>1 DEF Holding
    <3>2. CASE th' = [th EXCEPT ![t].pc = "stub", ![t].got = bytes[th[t].file]]
      <4> DEFINE r == [th[t] EXCEPT !.pc = "stub", !.got = bytes[th[t].file]]
      <4>1. th' = [th EXCEPT ![t] = r]
        BY <1>1, <3>2
      <4>2. r.file = th[t].file /\ th[t].pc \in Holding
        BY <1>1, <2>6 DEF Parse, Holding
      <4> QED
        BY <1>1, <4>1, <4>2
    <3> QED
      BY <2>6, <3>1, <3>2 DEF Parse
  <2>7. CASE Stub(t) \/ ClearIndex(t) \/ StoreData(t) \/ StoreIndex(t) \/ Raise(t)
    <3>1. th[t].pc \in Holding /\ \E l : th' = Goto(t, l)
      BY <2>7 DEF Stub, ClearIndex, StoreData, StoreIndex, Raise, Holding
    <3> QED
      BY <2>2, <3>1
  <2> QED
    BY <2>3, <2>4, <2>5, <2>6, <2>7
<1>6. \A s \in Threads :
        /\ th'[s].file <= ids'
        /\ th'[s].pc \in Holding =>
             /\ th'[s].file = th[s].file
             /\ th[s].pc \in Holding \/ Registered(th[s].file)
  BY <1>1, <1>2, <1>5
<1>7. HandlerAgrees'
  BY <1>2, <1>3, HandlerStands
<1> QED
  BY <1>1, <1>2, <1>3, <1>4, <1>6, <1>7, QuietStep

\* The steps that move a session or insert or delete a row.
LEMMA PresignStep ==
  ASSUME TypeOK, TypeOK', FileInv, NEW n \in Names, Presign(n)
  PROVE  FileInv'
<1>1. ups + 1 \in Uploads /\ ids \in Nat /\ ids' \in Nat /\ ids <= ids' /\ Files \subseteq Nat
      /\ deleted \subseteq Files
  BY Facts, TypeParts DEF Presign, Uploads, HistoryTypes
<1>2. /\ UNCHANGED <<rows, data, idx, hd, th, deleted, held>>
      /\ hd.pc = "idle"
      /\ upName' = [upName EXCEPT ![ups + 1] = n]
  BY DEF Presign, NoHandler, storeVars, histVars
<1>3. SessionTypes
  BY TypeParts
<1>4. \E f \in Files :
        /\ upFile' = [upFile EXCEPT ![ups + 1] = f]
        /\ f <= ids'
        /\ f \notin deleted \ held
        /\ \A u \in Uploads : sess'[u] = IF u = ups + 1 THEN "pending"
                                         ELSE IF upFile[u] = f /\ sess[u] # "none" THEN "gone"
                                         ELSE sess[u]
        /\ Registered(f) => rows[f].name = n
        /\ \A t \in Threads : th[t].pc \in Holding /\ ~Registered(th[t].file) => th[t].file # f
  <2>1. CASE Named(n) # {}
    <3>1. PICK f \in Named(n) : /\ sess' = [DropSessions(f) EXCEPT ![ups + 1] = "pending"]
                                /\ upFile' = [upFile EXCEPT ![ups + 1] = f]
      BY <2>1 DEF Presign
    <3>2. f \in Files /\ rows[f].name = n /\ Registered(f)
      BY DEF Named, Registered, NoRow, Names
    <3>3. f <= ids /\ f \notin deleted \ held
      BY <3>2 DEF FileInv, Drawn, DeletedIsGone, Registered
    <3>4. \A u \in Uploads : sess'[u] = IF u = ups + 1 THEN "pending"
                                        ELSE IF upFile[u] = f /\ sess[u] # "none" THEN "gone"
                                        ELSE sess[u]
      BY <1>1, <3>1 DEF DropSessions
    <3>5. \A t \in Threads : th[t].pc \in Holding /\ ~Registered(th[t].file) => th[t].file # f
      BY <3>2
    <3>6. f <= ids'
      BY <1>1, <3>2, <3>3
    <3> QED
      BY <3>1, <3>2, <3>3, <3>4, <3>5, <3>6
  <2>2. CASE Named(n) = {}
    <3>1. /\ sess' = [sess EXCEPT ![ups + 1] = "pending"]
          /\ upFile' = [upFile EXCEPT ![ups + 1] = ids + 1]
          /\ ids < MaxFiles /\ ids' = ids + 1
      BY <2>2 DEF Presign
    <3>2. ids + 1 \in Files
      BY <3>1, Facts DEF Files
    <3>3. ids + 1 \notin deleted /\ ~Registered(ids + 1)
      BY <1>1, <3>2 DEF FileInv, Drawn
    <3>4. \A u \in Uploads : upFile[u] # ids + 1
      BY <1>1, <1>3 DEF FileInv, Drawn, SessionTypes, NoFile
    <3>5. \A t \in Threads : th[t].pc \in Holding => th[t].file # ids + 1
      BY <1>1, Facts DEF FileInv, Drawn, Holding
    <3>6. \A u \in Uploads : sess'[u] = IF u = ups + 1 THEN "pending" ELSE sess[u]
      BY <1>1, <1>3, <3>1 DEF SessionTypes
    <3>7. ids + 1 <= ids'
      BY <1>1, <3>1
    <3> QED
      BY <3>1, <3>2, <3>3, <3>4, <3>5, <3>6, <3>7
  <2> QED
    BY <2>1, <2>2
<1>5. PICK f \in Files :
        /\ upFile' = [upFile EXCEPT ![ups + 1] = f]
        /\ f <= ids'
        /\ f \notin deleted \ held
        /\ \A u \in Uploads : sess'[u] = IF u = ups + 1 THEN "pending"
                                         ELSE IF upFile[u] = f /\ sess[u] # "none" THEN "gone"
                                         ELSE sess[u]
        /\ Registered(f) => rows[f].name = n
        /\ \A t \in Threads : th[t].pc \in Holding /\ ~Registered(th[t].file) => th[t].file # f
  BY <1>4
<1>6. \A u \in Uploads : /\ upFile'[u] = IF u = ups + 1 THEN f ELSE upFile[u]
                         /\ upName'[u] = IF u = ups + 1 THEN n ELSE upName[u]
  BY <1>1, <1>2, <1>3, <1>5 DEF SessionTypes
<1>7. \A u \in Uploads : u # ups + 1 /\ Active(u)' => Active(u) /\ sess'[u] = sess[u] /\ upFile[u] # f
  BY <1>5 DEF Active
<1>8. \A u \in Uploads : upFile[u] \in Nat /\ upFile[u] <= ids
  BY <1>3, Facts DEF FileInv, Drawn, SessionTypes, NoFile
<1>9. Drawn'
  <2>1. \A u \in Uploads : upFile'[u] <= ids'
    BY <1>1, <1>5, <1>6, <1>8
  <2>2. hd.file \in Nat /\ \A t \in Threads : th[t].file \in Nat
    BY Facts, TypeParts DEF HandlerTypes, RunTypes, NoFile
  <2> QED
    BY <1>1, <1>2, <2>1, <2>2 DEF FileInv, Drawn, Registered
<1>10. SessionsAgree'
  <2>1. \A u \in Uploads : sess'[u] = "uploaded" => u # ups + 1 /\ Active(u)'
    BY <1>5 DEF Active
  <2> QED
    BY <1>2, <1>5, <1>6, <1>7, <2>1 DEF FileInv, SessionsAgree, Registered
<1>11. HandlerAgrees'
  BY <1>2 DEF HandlerAgrees
<1>12. RunsAgree'
  BY <1>2, <1>5, <1>6, <1>7 DEF FileInv, RunsAgree, Registered
<1>13. DeletedIsGone'
  BY <1>2, <1>5, <1>6, <1>7 DEF FileInv, DeletedIsGone
<1> QED
  BY <1>9, <1>10, <1>11, <1>12, <1>13 DEF FileInv

LEMMA PresignRaisesStep ==
  ASSUME TypeOK, TypeOK', FileInv, NEW n \in Names, PresignRaises(n)
  PROVE  FileInv'
<1>1. PICK f \in Named(n) : sess' = DropSessions(f)
  BY DEF PresignRaises
<1>2. UNCHANGED <<rows, upFile, upName, data, idx, hd, th, ids, deleted, held>> /\ hd.pc = "idle"
  BY DEF PresignRaises, storeVars, histVars, NoHandler
<1>3. \A u \in Uploads : Active(u)' => Active(u) /\ sess'[u] = sess[u]
  BY <1>1 DEF Active, DropSessions
<1>4. Drawn' /\ HandlerAgrees'
  BY <1>2 DEF FileInv, Drawn, HandlerAgrees, Registered
<1>5. \A u \in Uploads : sess'[u] = "uploaded" => Active(u)'
  BY DEF Active
<1>6. SessionsAgree'
  BY <1>2, <1>3, <1>5 DEF FileInv, SessionsAgree, Registered
<1>7. RunsAgree' /\ DeletedIsGone'
  BY <1>2, <1>3 DEF FileInv, RunsAgree, DeletedIsGone, Registered
<1> QED
  BY <1>4, <1>6, <1>7 DEF FileInv

\* A row that is inserted for f with no session of another name, and no deletion of f.
LEMMA InsertStep ==
  ASSUME TypeOK, TypeOK', FileInv, NEW f \in Files, NEW n \in Names \cup {StubName}, f <= ids,
         f \notin deleted \ held,
         rows' = [rows EXCEPT ![f] = [name |-> n, status |-> "uploaded"]],
         UNCHANGED <<sess, upFile, upName, data, idx, ids, deleted, held>>,
         \A u \in Uploads : Active(u) /\ upFile[u] = f => upName[u] = n,
         hd'.file <= ids, HandlerAgrees',
         \A t \in Threads : /\ th'[t].file <= ids
                            /\ th'[t].pc \in Holding => th'[t].file = th[t].file /\ th[t].pc \in Holding
  PROVE  FileInv'
<1>1. \A g \in Files : rows'[g] = IF g = f THEN [name |-> n, status |-> "uploaded"] ELSE rows[g]
  BY DEF TypeOK, TablesOK
<1>2. [name |-> n, status |-> "uploaded"] # NoRow /\ [name |-> n, status |-> "uploaded"].name = n
  <2>1. [name |-> n, status |-> "uploaded"].status # NoRow.status
    BY DEF NoRow
  <2> QED
    BY <2>1
<1>3. \A g \in Files : Registered(g)' <=> Registered(g) \/ g = f
  BY <1>1, <1>2 DEF Registered
<1>4. \A u \in Uploads : Active(u) => upFile[u] \in Files
  BY Facts, TypeParts DEF Active, SessionTypes, Uploads
<1>5. \A u \in Uploads : Active(u)' <=> Active(u)
  BY DEF Active
<1>6. \A t \in Threads : th[t].pc \in Holding => th[t].file \in Files
  BY Facts DEF Holding
<1>7. deleted \subseteq Files
  BY TypeParts DEF HistoryTypes
<1>8. Drawn'
  BY <1>3 DEF FileInv, Drawn
<1>9. SessionsAgree'
  <2>1. \A u \in Uploads : sess[u] = "uploaded" => Active(u)
    BY DEF Active
  <2>2. \A u \in Uploads : Active(u) /\ Registered(upFile[u])' => rows'[upFile[u]].name = upName[u]
    BY <1>1, <1>2, <1>3, <1>4 DEF FileInv, SessionsAgree
  <2>3. \A u \in Uploads : sess[u] = "uploaded" => Registered(upFile[u])'
    BY <1>3, <1>4, <2>1 DEF FileInv, SessionsAgree
  <2> QED
    BY <1>5, <2>2, <2>3 DEF FileInv, SessionsAgree, Registered
<1>10. RunsAgree'
  BY <1>3, <1>5, <1>6 DEF FileInv, RunsAgree
<1>11. DeletedIsGone'
  BY <1>1, <1>5, <1>7 DEF FileInv, DeletedIsGone
<1> QED
  BY <1>8, <1>9, <1>10, <1>11 DEF FileInv

LEMMA CompleteNewStep ==
  ASSUME TypeOK, TypeOK', FileInv, NEW u \in Uploads, CompleteBegin(u), ~Registered(upFile[u])
  PROVE  FileInv'
<1> DEFINE f == upFile[u]
<1>1. /\ sess[u] = "pending" /\ f \in Files /\ f <= ids /\ upName[u] \in Names
      /\ f \notin deleted \ held
  BY Facts, TypeParts DEF CompleteBegin, SessionTypes, Uploads, FileInv, Drawn, DeletedIsGone, Active
<1>2. /\ rows' = [rows EXCEPT ![f] = [name |-> upName[u], status |-> "uploaded"]]
      /\ UNCHANGED <<sess, upFile, upName, data, idx, ids, th, deleted, held>>
      /\ hd' = [pc |-> "placeholder", file |-> f, up |-> u]
  BY DEF CompleteBegin, sessVars, storeVars, boundVars
<1>3. \A v \in Uploads : Active(v) /\ upFile[v] = f => upName[v] = upName[u]
  BY <1>1 DEF FileInv, SessionsAgree, Active
<1>4. rows'[f] # NoRow
  BY <1>1, <1>2, TypeParts DEF RowTypes, NoRow
<1>5. HandlerAgrees' /\ hd'.file <= ids
  BY <1>1, <1>2, <1>4 DEF HandlerAgrees, Registered
<1>6. \A t \in Threads : th[t].file <= ids
  BY DEF FileInv, Drawn
<1>7. upName[u] \in Names \cup {StubName}
  BY <1>1
<1> QED
  BY <1>1, <1>2, <1>3, <1>5, <1>6, <1>7, InsertStep

LEMMA WebRegisterStep ==
  ASSUME TypeOK, TypeOK', FileInv, WebRegister
  PROVE  FileInv'
<1>1. PICK n \in Names : rows' = [rows EXCEPT ![hd.file] = [name |-> n, status |-> "uploaded"]]
  BY DEF WebRegister
<1>2. /\ UNCHANGED <<sess, upFile, upName, data, idx, ids, th, deleted, held>> /\ hd' = NoHandler
      /\ hd.pc = "register"
  BY DEF WebRegister, sessVars, storeVars, boundVars, histVars
<1>3. hd.file \in Files /\ hd.file <= ids /\ hd.file \notin deleted
      /\ \A u \in Uploads : upFile[u] # hd.file
  BY <1>2, Facts DEF FileInv, Drawn, HandlerAgrees
<1>4. HandlerAgrees' /\ hd'.file <= ids /\ \A t \in Threads : th[t].file <= ids
  BY <1>2, Facts DEF FileInv, Drawn, HandlerAgrees, NoHandler, NoFile
<1> QED
  BY <1>1, <1>2, <1>3, <1>4, InsertStep

LEMMA StubStep ==
  ASSUME TypeOK, TypeOK', FileInv, NEW t \in Threads, Stub(t), ~Registered(th[t].file)
  PROVE  FileInv'
<1>1. /\ rows' = [rows EXCEPT ![th[t].file] = [name |-> StubName, status |-> "uploaded"]]
      /\ th' = Goto(t, "clear") /\ th[t].pc = "stub"
      /\ UNCHANGED <<sess, upFile, upName, data, idx, ids, hd, deleted, held>>
  BY DEF Stub, sessVars, storeVars, boundVars, histVars
<1>2. th[t].file \in Files /\ th[t].pc \in Holding
  BY <1>1, Facts DEF Holding
<1>3. /\ th[t].file <= ids /\ th[t].file \notin deleted \ held
      /\ \A u \in Uploads : Active(u) => upFile[u] # th[t].file
  BY <1>2 DEF FileInv, Drawn, RunsAgree, DeletedIsGone
<1>4. \A s \in Threads : /\ th'[s].file <= ids
                         /\ th'[s].pc \in Holding => th'[s].file = th[s].file /\ th[s].pc \in Holding
  BY <1>1, <1>2, TypeParts DEF RunTypes, Goto, FileInv, Drawn
<1>5. HandlerAgrees' /\ hd'.file <= ids
  <2>1. \A g \in Files : Registered(g) => Registered(g)'
    BY <1>1, <1>2, TypeParts DEF Registered, RowTypes
  <2>2. hd.pc \in {"clear", "placeholder", "finish"} => Registered(hd.file)'
    BY <1>1, <2>1, Facts DEF FileInv, HandlerAgrees
  <2> QED
    BY <1>1, <2>2 DEF FileInv, HandlerAgrees, Drawn, Registered
<1> QED
  BY <1>1, <1>2, <1>3, <1>4, <1>5, InsertStep

LEMMA CompleteFinishStep ==
  ASSUME TypeOK, TypeOK', FileInv, CompleteFinish
  PROVE  FileInv'
<1>1. /\ sess' = [sess EXCEPT ![hd.up] = "uploaded"] /\ hd' = NoHandler /\ hd.pc = "finish"
      /\ UNCHANGED <<rows, upFile, upName, data, idx, ids, th, deleted, held>>
  BY DEF CompleteFinish, storeVars, boundVars, histVars
<1>2. /\ hd.up \in Uploads /\ sess[hd.up] = "pending" /\ Registered(upFile[hd.up])
  BY <1>1, Facts DEF FileInv, HandlerAgrees
<1>3. \A u \in Uploads : /\ Active(u)' <=> Active(u)
                         /\ sess'[u] = "uploaded" => sess[u] = "uploaded" \/ u = hd.up
  BY <1>1, <1>2, TypeParts DEF Active, SessionTypes
<1>4. Drawn' /\ HandlerAgrees'
  BY <1>1, Facts DEF FileInv, Drawn, HandlerAgrees, NoHandler, NoFile, Registered
<1>5. SessionsAgree'
  BY <1>1, <1>2, <1>3 DEF FileInv, SessionsAgree, Registered
<1>6. RunsAgree' /\ DeletedIsGone'
  BY <1>1, <1>3 DEF FileInv, RunsAgree, DeletedIsGone, Registered
<1> QED
  BY <1>4, <1>5, <1>6 DEF FileInv

LEMMA DeleteRowStep ==
  ASSUME TypeOK, TypeOK', FileInv, DeleteRow
  PROVE  FileInv'
<1> DEFINE f == hd.file
<1>1. /\ rows' = [rows EXCEPT ![f] = NoRow] /\ sess' = DropSessions(f)
      /\ data' = [data EXCEPT ![f] = {}] /\ idx' = [idx EXCEPT ![f] = {}]
      /\ deleted' = deleted \cup {f}
      /\ held' = IF Holders(f) # {} THEN held \cup {f} ELSE held
      /\ hd' = NoHandler /\ UNCHANGED <<upFile, upName, ids, th>> /\ f \in Files /\ f <= ids
  BY Facts DEF DeleteRow, boundVars, FileInv, Drawn
<1>2. \A g \in Files : /\ rows'[g] = IF g = f THEN NoRow ELSE rows[g]
                       /\ data'[g] = IF g = f THEN {} ELSE data[g]
                       /\ idx'[g] = IF g = f THEN {} ELSE idx[g]
  BY <1>1, TypeParts DEF RowTypes, StoreTypes
<1>3. \A u \in Uploads : /\ Active(u)' => Active(u) /\ upFile[u] # f
                         /\ sess'[u] = "uploaded" => sess[u] = "uploaded" /\ upFile[u] # f
  BY <1>1 DEF Active, DropSessions
<1>4. \A g \in Files : Registered(g)' <=> Registered(g) /\ g # f
  BY <1>2 DEF Registered
<1>5. \A u \in Uploads : Active(u) => upFile[u] \in Files
  BY Facts, TypeParts DEF Active, SessionTypes, Uploads
<1>6. Drawn' /\ HandlerAgrees'
  BY <1>1, <1>4, Facts DEF FileInv, Drawn, HandlerAgrees, NoHandler, NoFile
<1>7. SessionsAgree'
  <2>1. \A u \in Uploads : sess[u] = "uploaded" => Active(u)
    BY DEF Active
  <2>2. \A u \in Uploads : sess'[u] = "uploaded" => Registered(upFile[u])'
    BY <1>1, <1>3, <1>4, <1>5, <2>1 DEF FileInv, SessionsAgree
  <2>3. \A u \in Uploads : Active(u)' /\ Registered(upFile[u])' => rows'[upFile[u]].name = upName[u]
    BY <1>1, <1>2, <1>3, <1>4, <1>5 DEF FileInv, SessionsAgree
  <2> QED
    BY <1>1, <1>3, <2>2, <2>3 DEF FileInv, SessionsAgree, Registered
<1>8. RunsAgree'
  <2>1. \A t \in Threads : th[t].pc \in Holding => th[t].file \in Files
    BY Facts DEF Holding
  <2> QED
    BY <1>1, <1>3, <1>4, <2>1 DEF FileInv, RunsAgree
<1>9. DeletedIsGone'
  <2>1. deleted \subseteq Files
    BY TypeParts DEF HistoryTypes
  <2>2. \A g \in deleted' \ held' : g # f => g \in deleted \ held
    BY <1>1
  <2>3. f \notin held' => \A t \in Threads : th[t].pc \in Holding => th[t].file # f
    BY <1>1 DEF Holders
  <2> QED
    BY <1>1, <1>2, <1>3, <2>1, <2>2, <2>3 DEF FileInv, DeletedIsGone
<1> QED
  BY <1>6, <1>7, <1>8, <1>9 DEF FileInv

LEMMA FileInit == Init => FileInv
<1> SUFFICES ASSUME Init PROVE FileInv
  OBVIOUS
<1>1. \A u \in Uploads : ~Active(u) /\ sess[u] # "uploaded" /\ upFile[u] = NoFile
  BY DEF Init, Active
<1>2. \A f \in Files : ~Registered(f)
  BY DEF Init, Registered
<1>3. hd.file = 0 /\ hd.pc = "idle" /\ ids = 0 /\ deleted = {}
      /\ \A t \in Threads : th[t].file = 0 /\ th[t].pc \notin Holding
  BY DEF Init, NoHandler, NoRun, NoFile, Holding
<1> QED
  BY <1>1, <1>2, <1>3 DEF FileInv, Drawn, SessionsAgree, HandlerAgrees, RunsAgree, DeletedIsGone, NoFile

LEMMA FileStep ==
  ASSUME TypeOK, TypeOK', FileInv, [Next]_vars
  PROVE  FileInv'
<1>1. CASE Handler
  <2>1. ASSUME NEW n \in Names, Presign(n) \/ PresignRaises(n) PROVE FileInv'
    BY <2>1, PresignStep, PresignRaisesStep
  <2>2. ASSUME NEW u \in Uploads, CompleteBegin(u) PROVE FileInv'
    BY <2>2, QuietHandlers, CompleteNewStep
  <2> QED
    BY <1>1, <2>1, <2>2, QuietHandlers, WebRegisterStep, CompleteFinishStep, DeleteRowStep DEF Handler
<1>2. ASSUME NEW t \in Threads, Run(t) \/ MarkLost(t) PROVE FileInv'
  <2>1. CASE Stub(t)
    BY <2>1, QuietRuns, StubStep
  <2> QED
    BY <1>2, <2>1, QuietRuns DEF Run
<1>3. CASE Crash \/ HandlerRaises \/ UNCHANGED vars
  BY <1>3, QuietHandlers
<1> QED
  BY <1>1, <1>2, <1>3 DEF Next

\* Sessions, rows, bytes, runs and the handler under way agree as FileInv says: the
\* inductive invariant behind the theorems below.
THEOREM FilesAgree == Spec => []FileInv
<1>1. TypeOK /\ TypeOK' /\ FileInv /\ [Next]_vars => FileInv'
  BY FileStep
<1> QED
  BY <1>1, FileInit, TypeCorrect, PTL DEF Spec

\* An acknowledged upload is a registered file of the name it was presigned for (complete,
\* presign, delete_kb_file).
THEOREM UploadsAreRegistered == Spec => []AckedIsRegistered
<1>1. TypeOK /\ FileInv => AckedIsRegistered
  <2> SUFFICES ASSUME TypeOK, FileInv, NEW u \in Uploads, sess[u] = "uploaded"
               PROVE  upFile[u] # NoFile /\ rows[upFile[u]].name = upName[u]
    BY DEF AckedIsRegistered
  <2>1. u <= ups
    BY Facts, TypeParts DEF SessionTypes, Uploads
  <2> QED
    BY <2>1, Facts DEF FileInv, SessionsAgree, Active
<1> QED
  BY <1>1, TypeCorrect, FilesAgree, PTL

\* A deletion that no run had overtaken is final (delete_file, ensure_kb_file_stub).
THEOREM DeletionIsFinal == Spec => []DeletedStaysDeleted
<1>1. FileInv => DeletedStaysDeleted
  BY DEF FileInv, DeletedIsGone, DeletedStaysDeleted
<1> QED
  BY <1>1, FilesAgree, PTL

-----------------------------------------------------------------------------
(* Files that are being imported.                                           *)

Working(t) == th[t].pc \notin {"idle", "mark", "count"}

\* Files stay marked no longer than the runs that mark them are at work.
LEMMA IndexingKept ==
  ASSUME IndexingIsRun, torn \subseteq torn',
         \A f \in Files : rows'[f].status = "indexing" => rows[f].status = "indexing",
         \A f \in Files \ torn', t \in Threads :
           rows'[f].status = "indexing" /\ th[t].file = f /\ Working(t)
             => th'[t].file = f /\ Working(t)'
  PROVE  IndexingIsRun'
  BY DEF IndexingIsRun, Working

LEMMA IndexingStep ==
  ASSUME TypeOK, IndexingIsRun, [Next]_vars
  PROVE  IndexingIsRun'
<1>1. /\ rows \in [Files -> Rows]
      /\ th \in [Threads -> [pc : RunSteps, file : Files \cup {NoFile}, got : OnDisk \cup {NoBytes}]]
  BY DEF TypeOK, TablesOK, ActorsOK
<1>2. ASSUME torn \subseteq torn', UNCHANGED th,
             \A f \in Files : rows'[f].status = "indexing" => rows[f].status = "indexing"
      PROVE  IndexingIsRun'
  BY <1>2, IndexingKept DEF Working
<1>3. ASSUME NEW t \in Threads, UNCHANGED torn,
             \A f \in Files : rows'[f].status = "indexing" => rows[f].status = "indexing",
             ~Working(t) \/ \E l \in RunSteps : l \notin {"idle", "mark", "count"} /\ th' = Goto(t, l),
             \E r : th' = [th EXCEPT ![t] = r]
      PROVE  IndexingIsRun'
  <2>1. ASSUME NEW s \in Threads, Working(s) PROVE th'[s].file = th[s].file /\ Working(s)'
    <3>1. CASE s # t
      BY <1>1, <1>3, <2>1, <3>1 DEF Working
    <3>2. CASE s = t
      BY <1>1, <1>3, <2>1, <3>2 DEF Working, Goto
    <3> QED
      BY <3>1, <3>2
  <2> QED
    BY <1>3, <2>1, IndexingKept
<1>4. ASSUME NEW t \in Threads, Mark(t) PROVE IndexingIsRun'
  <2>1. th[t].file \in Files /\ torn' = torn
    BY <1>4, Facts DEF Mark, histVars
  <2>2. CASE th[t].pc = "mark"
    <3>1. rows' = StatusSet(th[t].file, "indexing") /\ th' = Goto(t, "resolve")
      BY <1>4, <2>2 DEF Mark
    <3>2. \A g \in Files \ {th[t].file} : rows'[g] = rows[g]
      BY <1>1, <3>1 DEF StatusSet
    <3>3. th'[t].file = th[t].file /\ Working(t)' /\ \A s \in Threads \ {t} : th'[s] = th[s]
      BY <1>1, <3>1 DEF Goto, Working
    <3> QED
      BY <2>1, <2>2, <3>2, <3>3 DEF IndexingIsRun, Working
  <2>3. CASE th[t].pc # "mark"
    <3>1. PICK s \in {"ready", "failed"} : rows' = StatusSet(th[t].file, s)
      BY <1>4, <2>3 DEF Mark
    <3>2. \A s1 \in Threads \ {t} : th'[s1] = th[s1]
      BY <1>1, <1>4, <2>3 DEF Mark, Goto
    <3>3. rows'[th[t].file].status # "indexing"
      <4>1. CASE Registered(th[t].file)
        <5>1. rows' = [rows EXCEPT ![th[t].file] = [rows[th[t].file] EXCEPT !.status = s]]
          BY <1>1, <3>1, <4>1 DEF StatusSet
        <5>2. [rows[th[t].file] EXCEPT !.status = s].status = s
          BY <1>1, <2>1 DEF Rows, NoRow
        <5> QED
          BY <1>1, <2>1, <5>1, <5>2
      <4>2. CASE ~Registered(th[t].file)
        BY <3>1, <4>2 DEF StatusSet, Registered, NoRow
      <4> QED
        BY <4>1, <4>2
    <3>4. \A g \in Files \ {th[t].file} : rows'[g] = rows[g]
      BY <1>1, <3>1 DEF StatusSet
    <3> QED
      BY <2>1, <3>2, <3>3, <3>4, IndexingKept DEF Working
  <2> QED
    BY <2>2, <2>3
<1>5. ASSUME NEW t \in Threads, MarkLost(t) PROVE IndexingIsRun'
  <2>1. /\ torn' = torn \cup {th[t].file} /\ rows' = rows
        /\ \A s \in Threads \ {t} : th'[s] = th[s]
    BY <1>1, <1>5 DEF MarkLost, Goto
  <2> QED
    BY <2>1, IndexingKept DEF Working
<1>6. CASE Crash
  <2>1. torn' = torn \cup (({hd.file} \cup {th[t].file : t \in Threads}) \ {NoFile}) /\ rows' = rows
    BY <1>6 DEF Crash
  <2>2. \A f \in Files \ torn', t \in Threads : th[t].file # f
    BY <2>1, Facts
  <2> QED
    BY <2>1, <2>2, IndexingKept
<1>7. ASSUME NEW f \in Files, NEW r, r.status # "indexing", rows' = [rows EXCEPT ![f] = r]
      PROVE  \A g \in Files : rows'[g].status = "indexing" => rows[g].status = "indexing"
  BY <1>1, <1>7
<1>8. ASSUME NEW u \in Uploads, CompleteBegin(u) PROVE IndexingIsRun'
  <2>1. upFile[u] \in Files /\ UNCHANGED <<th, torn>>
    BY <1>8, Facts, TypeParts DEF CompleteBegin, SessionTypes, Uploads
  <2>2. CASE Registered(upFile[u])
    <3>1. rows' = [rows EXCEPT ![upFile[u]] = [rows[upFile[u]] EXCEPT !.status = "uploaded"]]
      BY <1>1, <1>8, <2>2 DEF CompleteBegin
    <3>2. [rows[upFile[u]] EXCEPT !.status = "uploaded"].status = "uploaded"
      BY <1>1, <2>1 DEF Rows, NoRow
    <3> QED
      BY <1>2, <1>7, <2>1, <3>1, <3>2
  <2>3. CASE ~Registered(upFile[u])
    <3>1. rows' = [rows EXCEPT ![upFile[u]] = [name |-> upName[u], status |-> "uploaded"]]
      BY <1>8, <2>3 DEF CompleteBegin
    <3> QED
      BY <1>2, <1>7, <2>1, <3>1
  <2> QED
    BY <2>2, <2>3
<1>9. CASE WebRegister
  <2>1. PICK n \in Names : rows' = [rows EXCEPT ![hd.file] = [name |-> n, status |-> "uploaded"]]
    BY <1>9 DEF WebRegister
  <2>2. hd.file \in Files /\ UNCHANGED <<th, torn>>
    BY <1>9, Facts DEF WebRegister, histVars
  <2> QED
    BY <1>2, <1>7, <2>1, <2>2
<1>10. CASE DeleteRow
  <2>1. rows' = [rows EXCEPT ![hd.file] = NoRow] /\ hd.file \in Files /\ UNCHANGED <<th, torn>>
    BY <1>10, Facts DEF DeleteRow
  <2>2. NoRow.status # "indexing"
    BY DEF NoRow
  <2> QED
    BY <1>2, <1>7, <2>1, <2>2
<1>11. ASSUME NEW t \in Threads, Stub(t) PROVE IndexingIsRun'
  <2>1. UNCHANGED torn /\ th' = Goto(t, "clear") /\ th[t].file \in Files
    BY <1>11, Facts DEF Stub, histVars
  <2>2. \A g \in Files : rows'[g].status = "indexing" => rows[g].status = "indexing"
    <3>1. \/ rows' = rows
          \/ rows' = [rows EXCEPT ![th[t].file] = [name |-> StubName, status |-> "uploaded"]]
      BY <1>11 DEF Stub
    <3> QED
      BY <1>7, <2>1, <3>1
  <2> QED
    BY <1>3, <2>1, <2>2 DEF Goto, RunSteps
<1>12. ASSUME NEW t \in Threads,
              \/ \E f \in Files : StartRun(t, f)
              \/ Resolve(t) \/ Parse(t) \/ ClearIndex(t) \/ StoreData(t) \/ StoreIndex(t)
              \/ Raise(t) \/ AddCount(t)
       PROVE  IndexingIsRun'
  <2>1. rows' = rows /\ torn' = torn
    BY <1>12 DEF StartRun, Resolve, Parse, ClearIndex, StoreData, StoreIndex, Raise, AddCount, histVars
  <2>2. CASE (\E f \in Files : StartRun(t, f)) \/ AddCount(t)
    <3>1. ~Working(t) /\ \E r : th' = [th EXCEPT ![t] = r]
      <4>1. NoRun.pc = "idle"
        BY DEF NoRun
      <4>2. th[t].pc \in {"idle", "count"}
        BY <2>2, <4>1 DEF StartRun, AddCount
      <4>3. \E r : th' = [th EXCEPT ![t] = r]
        BY <2>2 DEF StartRun, AddCount
      <4> QED
        BY <4>2, <4>3 DEF Working
    <3> QED
      BY <1>3, <2>1, <3>1
  <2>3. CASE Parse(t) /\ bytes[th[t].file] # NoBytes
    <3>1. th' = [th EXCEPT ![t] = [th[t] EXCEPT !.pc = "stub", !.got = bytes[th[t].file]]]
      BY <1>1, <2>3 DEF Parse
    <3>2. \A s \in Threads : th'[s].file = th[s].file /\ (Working(s) => Working(s)')
      BY <1>1, <3>1 DEF Working
    <3> QED
      BY <2>1, <3>2, IndexingKept
  <2>4. CASE \/ Resolve(t) \/ ClearIndex(t) \/ StoreData(t) \/ StoreIndex(t) \/ Raise(t)
             \/ Parse(t) /\ bytes[th[t].file] = NoBytes
    <3>1. \E l \in {"parse", "failed", "data", "index", "ready"} : th' = Goto(t, l)
      BY <2>4 DEF Resolve, ClearIndex, StoreData, StoreIndex, Raise, Parse
    <3> QED
      BY <1>3, <2>1, <3>1 DEF Goto, RunSteps
  <2> QED
    BY <1>12, <2>2, <2>3, <2>4
<1>13. ASSUME rows' = rows, th' = th, torn \subseteq torn' PROVE IndexingIsRun'
  BY <1>2, <1>13
<1>14. CASE HandlerRaises
  BY <1>13, <1>14 DEF HandlerRaises
<1>15. CASE \/ CompleteClear \/ CompletePlaceholder \/ CompleteFinish \/ DeleteBytes \/ DeleteIndex
            \/ UNCHANGED vars
  BY <1>13, <1>15 DEF CompleteClear, CompletePlaceholder, CompleteFinish, DeleteBytes, DeleteIndex,
                      vars, histVars
<1>16. ASSUME NEW n \in Names, Presign(n) \/ PresignRaises(n) PROVE IndexingIsRun'
  BY <1>13, <1>16 DEF Presign, PresignRaises, histVars
<1>17. ASSUME NEW u \in Uploads, NEW c \in Contents, Put(u, c) PROVE IndexingIsRun'
  BY <1>13, <1>17 DEF Put
<1>18. ASSUME NEW c \in Contents, WebWrite(c) PROVE IndexingIsRun'
  BY <1>13, <1>18 DEF WebWrite, histVars
<1>19. ASSUME NEW f \in Files, DeleteBegin(f) PROVE IndexingIsRun'
  BY <1>13, <1>19 DEF DeleteBegin
<1> QED
  BY <1>4, <1>5, <1>6, <1>8, <1>9, <1>10, <1>11, <1>12, <1>14, <1>15, <1>16, <1>17, <1>18, <1>19
     DEF Next, Handler, Run

\* No file stays marked indexing when its run is over, unless a fault took the mark (the
\* try around process_file).
THEOREM ImportsEndMarked == Spec => []NeverStuckIndexing
<1>1. Init => IndexingIsRun
  BY DEF Init, IndexingIsRun, NoRow
<1>2. TypeOK /\ IndexingIsRun /\ [Next]_vars => IndexingIsRun'
  BY IndexingStep
<1>3. IndexingIsRun => NeverStuckIndexing
  BY DEF IndexingIsRun, NeverStuckIndexing, Quiet, RunsOn
<1> QED
  BY <1>1, <1>2, <1>3, TypeCorrect, PTL DEF Spec

-----------------------------------------------------------------------------
(* Bytes.                                                                   *)

\* Nothing but the handler moves bytes and rows of its file.
LEMMA BytesKept ==
  ASSUME HandlerHasBytes, UNCHANGED hd, torn \subseteq torn',
         \A f \in Files : bytes[f] # NoBytes => bytes'[f] # NoBytes,
         \A f \in Files : Registered(f)' /\ ~IsStub(f)' => Registered(f) /\ ~IsStub(f)
  PROVE  HandlerHasBytes'
  BY DEF HandlerHasBytes, HasBytes

LEMMA BytesStep ==
  ASSUME TypeOK, HandlerHasBytes, [Next]_vars
  PROVE  HandlerHasBytes'
<1>1. /\ rows \in [Files -> Rows] /\ bytes \in [Files -> OnDisk \cup {NoBytes}]
      /\ hd.pc = "idle" => hd.file \notin Files
      /\ NoHandler.file \notin Files /\ NoHandler.pc = "idle"
      /\ hd \in [pc : HandlerSteps, file : Files \cup {NoFile}, up : Uploads \cup {NoUpload}]
  BY Facts DEF TypeOK, TablesOK, ActorsOK, NoHandler
<1>2. NoBytes \notin Contents /\ Empty # NoBytes
  BY ContentsAssumption
<1>3. ASSUME UNCHANGED <<hd, bytes>>, torn \subseteq torn', RowsStand PROVE HandlerHasBytes'
  BY <1>3, BytesKept DEF RowsStand, IsStub
<1>4. ASSUME NEW t \in Threads, Run(t) \/ MarkLost(t) PROVE HandlerHasBytes'
  <2>1. UNCHANGED <<hd, bytes>> /\ torn \subseteq torn'
    BY <1>4 DEF Run, StartRun, Mark, Resolve, Parse, Stub, ClearIndex, StoreData, StoreIndex,
                Raise, AddCount, MarkLost, storeVars, histVars
  <2>2. CASE Mark(t)
    <3>1. th[t].file \in Files /\ \E s : rows' = StatusSet(th[t].file, s)
      BY <2>2, Facts DEF Mark
    <3> QED
      BY <1>3, <2>1, <3>1, StatusStands
  <2>3. CASE Stub(t) /\ ~Registered(th[t].file)
    <3>1. rows' = [rows EXCEPT ![th[t].file] = [name |-> StubName, status |-> "uploaded"]]
      BY <2>3 DEF Stub
    <3>2. \A f \in Files : Registered(f)' /\ ~IsStub(f)' => Registered(f) /\ ~IsStub(f)
      BY <1>1, <3>1 DEF Registered, IsStub
    <3> QED
      BY <2>1, <3>2, BytesKept
  <2>4. CASE UNCHANGED rows
    BY <1>3, <2>1, <2>4, RowsUnchanged
  <2> QED
    BY <1>4, <2>2, <2>3, <2>4 DEF Run, StartRun, Resolve, Parse, Stub, ClearIndex, StoreData,
       StoreIndex, Raise, AddCount, MarkLost
<1>5. ASSUME NEW n \in Names, Presign(n) \/ PresignRaises(n) PROVE HandlerHasBytes'
  BY <1>3, <1>5, RowsUnchanged DEF Presign, PresignRaises, storeVars, histVars
<1>6. ASSUME NEW u \in Uploads, NEW c \in Contents, Put(u, c) PROVE HandlerHasBytes'
  <2>1. UNCHANGED <<hd, rows, torn>> /\ bytes' = [bytes EXCEPT ![upFile[u]] = c]
    BY <1>6 DEF Put
  <2>2. \A f \in Files : bytes[f] # NoBytes => bytes'[f] # NoBytes
    BY <1>1, <1>2, <2>1
  <2> QED
    BY <2>1, <2>2, BytesKept DEF Registered, IsStub
<1>7. CASE UNCHANGED vars
  BY <1>3, <1>7, RowsUnchanged DEF vars, storeVars, histVars
\* The handler's own steps: every file but its own stands.
<1>8. ASSUME torn \subseteq torn', NEW h \in Files \cup {NoFile}, hd'.file \in {h} \/ hd'.file \notin Files,
             hd.file \in {h} \/ hd.file \notin Files,
             \A f \in Files \ {h} : rows'[f] = rows[f] /\ bytes'[f] = bytes[f],
             h \in Files => h \in torn' \/ HasBytes(h)'
      PROVE  HandlerHasBytes'
  <2>1. ASSUME NEW f \in Files \ torn' PROVE HasBytes(f)'
    BY <1>8, <2>1 DEF HandlerHasBytes, HasBytes, Registered, IsStub
  <2> QED
    BY <2>1 DEF HandlerHasBytes
<1>9. ASSUME NEW u \in Uploads, CompleteBegin(u) PROVE HandlerHasBytes'
  <2>1. /\ hd'.file = upFile[u] /\ hd'.pc \in {"clear", "placeholder"}
        /\ upFile[u] \in Files /\ hd.file \notin Files /\ UNCHANGED <<bytes, torn>>
    BY <1>1, <1>9, Facts, TypeParts DEF CompleteBegin, SessionTypes, Uploads, storeVars
  <2>2. \A f \in Files \ {upFile[u]} : rows'[f] = rows[f]
    BY <1>1, <1>9 DEF CompleteBegin
  <2>3. \A f \in {upFile[u]} : HasBytes(f)'
    BY <2>1 DEF HasBytes
  <2> QED
    BY <1>8, <2>1, <2>2, <2>3
<1>10. CASE CompleteClear \/ DeleteIndex
  <2>1. /\ hd'.file = hd.file /\ hd'.pc \in {"placeholder", "deleteRow"} /\ hd.file \in Files
        /\ UNCHANGED <<rows, bytes, torn>>
    BY <1>1, <1>10, Facts DEF CompleteClear, DeleteIndex, histVars
  <2>2. HasBytes(hd.file)'
    BY <2>1 DEF HasBytes
  <2> QED
    BY <1>8, <2>1, <2>2
<1>11. CASE CompletePlaceholder
  <2>1. /\ hd'.file = hd.file /\ hd.file \in Files /\ UNCHANGED <<rows, torn>>
        /\ bytes' = IF bytes[hd.file] = NoBytes THEN [bytes EXCEPT ![hd.file] = Empty] ELSE bytes
    BY <1>1, <1>11, Facts DEF CompletePlaceholder, histVars
  <2>2. bytes'[hd.file] # NoBytes /\ \A f \in Files \ {hd.file} : bytes'[f] = bytes[f]
    BY <1>1, <1>2, <2>1
  <2>3. HasBytes(hd.file)'
    BY <2>1, <2>2 DEF HasBytes
  <2> QED
    BY <1>8, <2>1, <2>2, <2>3
<1>12. CASE CompleteFinish \/ WebRegister
  <2>1. /\ hd'.file \notin Files /\ hd.file \in Files /\ hd.pc \in {"finish", "register"}
        /\ UNCHANGED <<bytes, torn>> /\ \A f \in Files \ {hd.file} : rows'[f] = rows[f]
    BY <1>1, <1>12, Facts DEF CompleteFinish, WebRegister, storeVars, histVars
  <2>2. hd.file \in torn' \/ bytes'[hd.file] # NoBytes
    BY <2>1 DEF HandlerHasBytes, HasBytes
  <2>3. bytes'[hd.file] # NoBytes => \A f \in {hd.file} : HasBytes(f)'
    BY DEF HasBytes
  <2> QED
    BY <1>8, <2>1, <2>2, <2>3
<1>13. ASSUME NEW c \in Contents, WebWrite(c) PROVE HandlerHasBytes'
  <2>1. /\ hd' = [pc |-> "register", file |-> ids', up |-> NoUpload] /\ ids' \in Files
        /\ UNCHANGED <<rows, torn>> /\ bytes' = [bytes EXCEPT ![ids'] = c] /\ hd.file \notin Files
    BY <1>1, <1>13, Facts DEF WebWrite, Files, NoHandler, histVars
  <2>2. bytes'[ids'] # NoBytes /\ \A f \in Files \ {ids'} : bytes'[f] = bytes[f]
    BY <1>1, <1>2, <2>1
  <2>3. \A f \in {ids'} : HasBytes(f)'
    BY <2>2 DEF HasBytes
  <2> QED
    BY <1>8, <2>1, <2>2, <2>3
<1>14. ASSUME NEW f \in Files, DeleteBegin(f) PROVE HandlerHasBytes'
  <2>1. /\ hd' = [pc |-> "deleteBytes", file |-> f, up |-> NoUpload] /\ hd.file \notin Files
        /\ UNCHANGED <<rows, torn, bytes>>
    BY <1>1, <1>14 DEF DeleteBegin, storeVars
  <2>2. HasBytes(f)'
    BY <2>1 DEF HasBytes
  <2> QED
    BY <1>8, <2>1, <2>2
<1>15. CASE DeleteRow
  <2>1. /\ hd' = NoHandler /\ hd.file \in Files /\ UNCHANGED <<bytes, torn>>
        /\ rows' = [rows EXCEPT ![hd.file] = NoRow]
    BY <1>15, Facts DEF DeleteRow
  <2>2. \A f \in {hd.file} : HasBytes(f)'
    BY <1>1, <2>1 DEF HasBytes, Registered
  <2> QED
    BY <1>1, <1>8, <2>1, <2>2
<1>16. CASE Crash \/ HandlerRaises
  <2>1. /\ hd' = NoHandler /\ torn \subseteq torn' /\ UNCHANGED <<rows, bytes>>
        /\ hd.file \in Files => hd.file \in torn'
    BY <1>16, Facts DEF Crash, HandlerRaises, storeVars
  <2>2. hd.file \in Files \cup {NoFile}
    BY <1>1
  <2> QED
    BY <1>1, <1>8, <2>1, <2>2
<1>17. CASE DeleteBytes
  <2>1. /\ hd'.file = hd.file /\ hd'.pc = "deleteIndex" /\ hd.file \in Files
        /\ UNCHANGED <<rows, torn>> /\ \A f \in Files \ {hd.file} : bytes'[f] = bytes[f]
    BY <1>1, <1>17, Facts DEF DeleteBytes, histVars
  <2>2. HasBytes(hd.file)'
    BY <2>1 DEF HasBytes
  <2> QED
    BY <1>8, <2>1, <2>2
<1> QED
  BY <1>4, <1>5, <1>6, <1>7, <1>9, <1>10, <1>11, <1>12, <1>13, <1>14, <1>15, <1>16,
     <1>17 DEF Next, Handler

\* A registered file has its bytes, unless a deletion of it is under way or broke off
\* (delete_file, the placeholder of complete).
THEOREM FilesHaveBytes == Spec => []RegisteredHasBytes
<1>1. Init => HandlerHasBytes
  BY DEF Init, HandlerHasBytes, HasBytes, Registered, NoHandler
<1>2. TypeOK /\ HandlerHasBytes /\ [Next]_vars => HandlerHasBytes'
  BY BytesStep
<1>3. HandlerHasBytes => RegisteredHasBytes
  BY DEF HandlerHasBytes, HasBytes, RegisteredHasBytes
<1> QED
  BY <1>1, <1>2, <1>3, TypeCorrect, PTL DEF Spec

\* What was uploaded is kept, for any number of files, handlers, runs, crashes and raising
\* calls (UploadService, KnowledgeBaseService.delete_file).
THEOREM UploadsStayKept == Spec => []UploadsAreKept
  BY UploadsAreRegistered, FileNamesAreUnique, FilesHaveBytes, PTL DEF UploadsAreKept

-----------------------------------------------------------------------------
(* What the list shows.                                                     *)

NoChunks(f) == data[f] = {} /\ idx[f] = {}
Current(f) == data[f] = ChunksOf(bytes[f]) /\ idx[f] = ChunksOf(bytes[f])

\* The list shows f failed, or indexing without chunks, or with the chunks of its bytes.
Settled(f) ==
  rows[f].status = "failed" \/ (NoChunks(f) /\ rows[f].status # "ready") \/ Current(f)

\* How far a run has come with f.
Midway(f, r) ==
  /\ r.pc = "mark" /\ Registered(f) => Settled(f)
  /\ r.pc \in {"stub", "clear", "data", "index"} => r.got = bytes[f]
  /\ r.pc = "data" => NoChunks(f)
  /\ r.pc = "index" => data[f] = ChunksOf(bytes[f]) /\ idx[f] = {}
  /\ r.pc \in {"ready", "count"} => Current(f)

\* How far a handler has come with f.
Handled(f) ==
  /\ hd.pc \in {"clear", "placeholder", "finish"} => rows[f].status # "ready"
  /\ hd.pc \in {"placeholder", "finish"} => NoChunks(f)
  /\ hd.pc = "register" => ~Registered(f)

\* Whoever works on a file knows what of it is stored.
Tidy(f) ==
  /\ Quiet(f) /\ Registered(f) => Settled(f)
  /\ hd.file = f => Handled(f)
  /\ \A t \in Threads : th[t].file = f => Midway(f, th[t])

\* One worker at a time.
Solo(f) ==
  /\ \A s, t \in Threads : th[s].file = f /\ th[t].file = f => s = t
  /\ hd.file = f => \A t \in Threads : th[t].file # f

Undisturbed(f) == f \notin raced /\ f \notin torn /\ f \notin dirty

\* A file without a row has no chunks, one that was not raced for one worker at a time, and
\* what is stored of one that was not disturbed follows from how far that worker has come.
TidyOf(f) ==
  /\ ~Registered(f) => NoChunks(f)
  /\ f \notin raced => Solo(f)
  /\ Undisturbed(f) => Tidy(f)
TidyInv == \A f \in Files : TidyOf(f)

\* Ready files the run that marked them is done with.
Finished == {f \in Files : /\ rows[f].status = "ready"
                           /\ \A t \in Threads : th[t].file = f => th[t].pc # "count"}
FinishedAreCounted == torn = {} => Cardinality(Finished) <= fileCount

\* A step about g leaves the other files alone.
OnlyOf(g) ==
  /\ \A f \in Files \ {g} : /\ rows'[f] = rows[f] /\ bytes'[f] = bytes[f]
                            /\ data'[f] = data[f] /\ idx'[f] = idx[f]
  /\ \A t \in Threads : \/ th'[t] = th[t]
                        \/ th[t].file \in {g, NoFile} /\ th'[t].file \in {g, NoFile}
  /\ hd' = hd \/ (hd.file \in {g, NoFile} /\ hd'.file \in {g, NoFile})
  /\ raced \subseteq raced' /\ torn \subseteq torn' /\ dirty \subseteq dirty' \cup {g}

LEMMA Aside ==
  ASSUME TypeOK, NEW g, OnlyOf(g), NEW f \in Files, f # g, TidyOf(f)
  PROVE  TidyOf(f)'
<1>0. f # NoFile
  BY Facts
<1>1. /\ rows'[f] = rows[f] /\ bytes'[f] = bytes[f] /\ data'[f] = data[f] /\ idx'[f] = idx[f]
      /\ f \notin raced' => f \notin raced
      /\ f \notin torn' => f \notin torn
      /\ f \notin dirty' => f \notin dirty
  BY DEF OnlyOf
<1>2. \A t \in Threads : th[t].file = f \/ th'[t].file = f => th'[t] = th[t]
  BY <1>0 DEF OnlyOf
<1>3. hd.file = f \/ hd'.file = f => hd' = hd
  BY <1>0 DEF OnlyOf
<1>4. (Registered(f)' <=> Registered(f)) /\ (NoChunks(f)' <=> NoChunks(f))
      /\ (Settled(f)' <=> Settled(f)) /\ (Current(f)' <=> Current(f))
  BY <1>1 DEF Registered, NoChunks, Settled, Current
<1>5. Solo(f) => Solo(f)'
  BY <1>2, <1>3 DEF Solo
<1>6. Quiet(f)' <=> Quiet(f)
  BY <1>2, <1>3 DEF Quiet, RunsOn
<1>7. hd'.file = f /\ Handled(f) => Handled(f)'
  BY <1>1, <1>3, <1>4 DEF Handled
<1>8. ASSUME NEW t \in Threads, th'[t].file = f, Midway(f, th[t])
      PROVE  Midway(f, th[t])'
  <2>1. th'[t] = th[t]
    BY <1>2, <1>8
  <2> QED
    BY <1>1, <1>4, <1>8, <2>1 DEF Midway
<1>9. Tidy(f) => Tidy(f)'
  BY <1>2, <1>3, <1>4, <1>6, <1>7, <1>8 DEF Tidy
<1> QED
  BY <1>1, <1>4, <1>5, <1>9 DEF TidyOf, Undisturbed

\* A handler that takes on a file no run works on, goes on with its file or is done with it.
LEMMA HandlerKeeps ==
  ASSUME TypeOK, TidyInv, th' = th, NEW g \in Files, OnlyOf(g), hd'.file \in {g, NoFile},
         ~Registered(g)' => NoChunks(g)',
         g \in raced' \/ hd'.file \in {hd.file, NoFile} \/ \A t \in Threads : th[t].file # g,
         Undisturbed(g)' =>
           \/ hd'.file = g /\ Handled(g)'
           \/ /\ hd'.file # g /\ (Registered(g)' => Settled(g)')
              /\ \A t \in Threads : th[t].file # g
  PROVE  TidyInv'
<1>0. g # NoFile
  BY Facts
<1>1. \A f \in Files : f # g => TidyOf(f)'
  BY Aside DEF TidyInv
<1>2. g \notin raced' => Solo(g)'
  <2> SUFFICES ASSUME g \notin raced' PROVE Solo(g)'
    OBVIOUS
  <2>1. Solo(g)
    BY DEF TidyInv, TidyOf, OnlyOf
  <2> QED
    BY <1>0, <2>1 DEF Solo
<1>3. Undisturbed(g)' => Tidy(g)'
  <2> SUFFICES ASSUME Undisturbed(g)' PROVE Tidy(g)'
    OBVIOUS
  <2>1. Solo(g)'
    BY <1>2 DEF Undisturbed
  <2>2. hd'.file = g => \A t \in Threads : th[t].file # g
    BY <2>1 DEF Solo
  <2>3. \A t \in Threads : th'[t].file # g
    BY <2>2
  <2>4. hd'.file = g => Handled(g)'
    OBVIOUS
  <2>5. Quiet(g)' /\ Registered(g)' => Settled(g)'
    BY DEF Quiet
  <2> QED
    BY <2>3, <2>4, <2>5 DEF Tidy
<1>4. TidyOf(g)'
  BY <1>2, <1>3 DEF TidyOf
<1> QED
  BY <1>1, <1>4 DEF TidyInv

\* A step of a run that goes on with its file, or is done with it.
LEMMA RunKeeps ==
  ASSUME TypeOK, TidyInv, UNCHANGED <<hd, raced, dirty>>, torn \subseteq torn',
         NEW t \in Threads, NEW g \in Files, th[t].file = g,
         NEW r, th' = [th EXCEPT ![t] = r], r.file = g \/ r = NoRun,
         \A f \in Files \ {g} : /\ rows'[f] = rows[f] /\ bytes'[f] = bytes[f]
                                /\ data'[f] = data[f] /\ idx'[f] = idx[f],
         ~Registered(g)' => NoChunks(g)',
         Undisturbed(g)' /\ Midway(g, th[t]) =>
           (r.file = g /\ Midway(g, th[t])') \/ (r = NoRun /\ (Registered(g)' => Settled(g)'))
  PROVE  TidyInv'
<1>0. g # NoFile /\ NoRun.file = NoFile /\ r.file \in {g, NoFile}
  BY Facts DEF NoRun
<1>1. th'[t] = r /\ \A s \in Threads \ {t} : th'[s] = th[s]
  BY DEF TypeOK, ActorsOK
<1>2. OnlyOf(g)
  BY <1>0, <1>1 DEF OnlyOf
<1>3. \A f \in Files : f # g => TidyOf(f)'
  BY <1>2, Aside DEF TidyInv
<1>4. g \notin raced' => Solo(g) /\ Solo(g)'
  <2> SUFFICES ASSUME g \notin raced' PROVE Solo(g) /\ Solo(g)'
    OBVIOUS
  <2>1. Solo(g)
    BY DEF TidyInv, TidyOf
  <2> QED
    BY <1>0, <1>1, <2>1 DEF Solo
<1>5. ASSUME Undisturbed(g)' PROVE Tidy(g)'
  <2>1. Undisturbed(g) /\ Solo(g) /\ Solo(g)'
    BY <1>4, <1>5 DEF Undisturbed
  <2>2. Midway(g, th[t])
    BY <2>1 DEF TidyInv, TidyOf, Tidy
  <2>3. /\ r.file = g => Midway(g, th[t])'
        /\ r = NoRun /\ Registered(g)' => Settled(g)'
    BY <1>0, <1>5, <2>2
  <2>4. hd'.file # g
    BY <2>1 DEF Solo
  <2>5. \A s \in Threads : th'[s].file = g => s = t
    BY <1>1, <2>1 DEF Solo
  <2>6. ASSUME NEW s \in Threads, th'[s].file = g PROVE Midway(g, th[s])'
    <3>1. s = t /\ r.file = g
      BY <1>1, <2>5, <2>6
    <3> QED
      BY <2>3, <3>1
  <2>7. Quiet(g)' => r = NoRun
    BY <1>1 DEF Quiet, RunsOn
  <2> QED
    BY <2>3, <2>4, <2>6, <2>7 DEF Tidy
<1>6. TidyOf(g)'
  BY <1>4, <1>5 DEF TidyOf
<1> QED
  BY <1>3, <1>6 DEF TidyInv

\* The tables after an insert or an update of g's row.
LEMMA RowWritten ==
  ASSUME TypeOK, NEW g \in Files, NEW x, rows' = [rows EXCEPT ![g] = x]
  PROVE  rows'[g] = x /\ \A f \in Files \ {g} : rows'[f] = rows[f]
  BY DEF TypeOK, TablesOK

LEMMA RowInserted ==
  ASSUME TypeOK, NEW g \in Files, NEW n, rows' = [rows EXCEPT ![g] = [name |-> n, status |-> "uploaded"]]
  PROVE  /\ rows'[g].status = "uploaded" /\ Registered(g)'
         /\ \A f \in Files \ {g} : rows'[f] = rows[f]
<1>1. rows \in [Files -> Rows]
  BY DEF TypeOK, TablesOK
<1>2. rows'[g] = [name |-> n, status |-> "uploaded"] /\ \A f \in Files \ {g} : rows'[f] = rows[f]
  BY <1>1
<1>3. [name |-> n, status |-> "uploaded"].status = "uploaded" /\ NoRow.status = "none"
  BY DEF NoRow
<1> QED
  BY <1>2, <1>3 DEF Registered

LEMMA StatusWritten ==
  ASSUME TypeOK, NEW g \in Files, NEW s, Registered(g), s \in {"uploaded", "indexing", "ready", "failed"},
         rows' = [rows EXCEPT ![g].status = s]
  PROVE  /\ rows'[g].status = s /\ Registered(g)'
         /\ \A f \in Files \ {g} : rows'[f] = rows[f]
<1>1. rows \in [Files -> Rows]
  BY DEF TypeOK, TablesOK
<1>2. rows' = [rows EXCEPT ![g] = [rows[g] EXCEPT !.status = s]]
  BY <1>1
<1>3. rows'[g] = [rows[g] EXCEPT !.status = s] /\ \A f \in Files \ {g} : rows'[f] = rows[f]
  BY <1>2, RowWritten
<1>4. [rows[g] EXCEPT !.status = s].status = s /\ NoRow.status = "none"
  BY <1>1 DEF Rows, NoRow
<1>5. s # "none"
  OBVIOUS
<1> QED
  BY <1>3, <1>4, <1>5 DEF Registered

LEMMA ChunksCleared ==
  ASSUME TypeOK, NEW g \in Files, data' = [data EXCEPT ![g] = {}], idx' = [idx EXCEPT ![g] = {}]
  PROVE  NoChunks(g)' /\ \A f \in Files \ {g} : data'[f] = data[f] /\ idx'[f] = idx[f]
  BY DEF TypeOK, TablesOK, NoChunks

LEMMA BytesWritten ==
  ASSUME TypeOK, NEW g \in Files, NEW c, bytes' = [bytes EXCEPT ![g] = c]
  PROVE  \A f \in Files \ {g} : bytes'[f] = bytes[f]
  BY DEF TypeOK, TablesOK

LEMMA HandlerAt ==
  ASSUME TypeOK, NEW l, hd' = [hd EXCEPT !.pc = l]
  PROVE  hd'.pc = l /\ hd'.file = hd.file
  BY DEF TypeOK, ActorsOK

LEMMA TidyHandlers ==
  ASSUME TypeOK, FileInv, TidyInv,
         \/ \E u \in Uploads : CompleteBegin(u) \/ \E c \in Contents : Put(u, c)
         \/ \E c \in Contents : WebWrite(c)
         \/ \E f \in Files : DeleteBegin(f)
  PROVE  TidyInv'
<1>0. NoHandler.file = NoFile /\ \A f \in Files : f # NoFile
  BY Facts DEF NoHandler
<1>1. ASSUME NEW u \in Uploads, NEW c \in Contents, Put(u, c) PROVE TidyInv'
  <2>1. PICK g \in Files : upFile[u] = g
    BY <1>1, Facts DEF Put
  <2>2. /\ hd = NoHandler /\ hd' = hd /\ th' = th /\ rows' = rows /\ data' = data /\ idx' = idx
        /\ torn' = torn /\ dirty' = dirty \cup {g}
    BY <1>1, <2>1 DEF Put
  <2>3. raced \subseteq raced'
    BY <1>1 DEF Put, Race
  <2>4. \A f \in Files \ {g} : bytes'[f] = bytes[f]
    BY <1>1, <2>1, BytesWritten DEF Put
  <2>5. OnlyOf(g)
    BY <2>2, <2>3, <2>4 DEF OnlyOf
  <2>6. ~Registered(g)' => NoChunks(g)'
    BY <2>1, <2>2 DEF TidyInv, TidyOf, Registered, NoChunks
  <2>7. ~Undisturbed(g)'
    BY <2>2 DEF Undisturbed
  <2> QED
    BY <1>0, <2>1, <2>2, <2>5, <2>6, <2>7, HandlerKeeps
<1>2. ASSUME NEW u \in Uploads, CompleteBegin(u) PROVE TidyInv'
  <2>1. PICK g \in Files : upFile[u] = g
    BY <1>2, Facts, TypeParts DEF CompleteBegin, SessionTypes, Uploads
  <2>2. /\ hd = NoHandler /\ th' = th /\ data' = data /\ idx' = idx /\ bytes' = bytes
        /\ torn' = torn /\ raced' = Race(g) /\ dirty' = dirty \ {g}
    BY <1>2, <2>1 DEF CompleteBegin, storeVars
  <2>3. /\ hd'.file = g /\ hd'.pc \in {"clear", "placeholder"}
        /\ Registered(g) => hd'.pc = "clear"
    BY <1>2, <2>1 DEF CompleteBegin
  <2>4. rows'[g].status = "uploaded" /\ Registered(g)' /\ \A f \in Files \ {g} : rows'[f] = rows[f]
    <3>1. CASE Registered(g)
      <4>1. rows' = [rows EXCEPT ![g].status = "uploaded"]
        BY <1>2, <2>1, <3>1 DEF CompleteBegin
      <4> QED
        BY <2>1, <3>1, <4>1, StatusWritten
    <3>2. CASE ~Registered(g)
      <4>1. rows' = [rows EXCEPT ![g] = [name |-> upName[u], status |-> "uploaded"]]
        BY <1>2, <2>1, <3>2 DEF CompleteBegin
      <4> QED
        BY <4>1, RowInserted
    <3> QED
      BY <3>1, <3>2
  <2>5. raced \subseteq raced' /\ (g \in raced' \/ \A t \in Threads : th[t].file # g)
    BY <2>2 DEF Race, RunsOn
  <2>6. OnlyOf(g)
    BY <1>0, <2>2, <2>3, <2>4, <2>5 DEF OnlyOf
  <2>7. Handled(g)'
    <3>1. ~Registered(g) => NoChunks(g)'
      BY <2>1, <2>2 DEF TidyInv, TidyOf, NoChunks
    <3> QED
      BY <2>3, <2>4, <3>1 DEF Handled
  <2> QED
    BY <2>1, <2>2, <2>3, <2>4, <2>5, <2>6, <2>7, HandlerKeeps
<1>3. ASSUME NEW c \in Contents, WebWrite(c) PROVE TidyInv'
  <2>0. ids + 1 \in Files /\ ids + 1 > ids
    BY <1>3, Facts DEF WebWrite, Files
  <2>1. PICK g \in Files : g = ids + 1 /\ g > ids
    BY <2>0
  <2>2. /\ hd = NoHandler /\ th' = th /\ rows' = rows /\ data' = data /\ idx' = idx
        /\ torn' = torn /\ raced' = raced /\ dirty' = dirty
    BY <1>3 DEF WebWrite, histVars
  <2>3. bytes' = [bytes EXCEPT ![g] = c] /\ hd' = [pc |-> "register", file |-> g, up |-> NoUpload]
    BY <1>3, <2>1 DEF WebWrite
  <2>4. ~Registered(g) /\ \A t \in Threads : th[t].file # g
    <3>1. Drawn
      BY DEF FileInv
    <3>2. \A t \in Threads : th[t].file # g
      BY <2>1, <3>1, Facts DEF Drawn
    <3>3. ~Registered(g)
      BY <2>1, <3>1, Facts DEF Drawn, Registered
    <3> QED
      BY <3>2, <3>3
  <2>5. \A f \in Files \ {g} : bytes'[f] = bytes[f]
    BY <2>1, <2>3, BytesWritten
  <2>6. hd'.file = g /\ hd'.pc = "register"
    BY <2>3
  <2>7. OnlyOf(g)
    BY <1>0, <2>2, <2>5, <2>6 DEF OnlyOf
  <2>8. ~Registered(g)' /\ NoChunks(g)'
    BY <2>1, <2>2, <2>4 DEF TidyInv, TidyOf, NoChunks, Registered
  <2>9. Handled(g)'
    BY <2>6, <2>8 DEF Handled
  <2> QED
    BY <2>1, <2>2, <2>4, <2>6, <2>7, <2>8, <2>9, HandlerKeeps
<1>4. ASSUME NEW g \in Files, DeleteBegin(g) PROVE TidyInv'
  <2>1. /\ hd = NoHandler /\ th' = th /\ rows' = rows /\ data' = data /\ idx' = idx
        /\ torn' = torn /\ dirty' = dirty /\ raced' = Race(g)
        /\ hd' = [pc |-> "deleteBytes", file |-> g, up |-> NoUpload]
        /\ Registered(g)
    BY <1>4 DEF DeleteBegin, storeVars
  <2>2. bytes' = bytes
    BY <1>4 DEF DeleteBegin, storeVars
  <2>3. hd'.file = g /\ hd'.pc = "deleteBytes"
    BY <2>1
  <2>4. raced \subseteq raced' /\ (g \in raced' \/ \A t \in Threads : th[t].file # g)
    BY <2>1 DEF Race, RunsOn
  <2>5. OnlyOf(g)
    BY <1>0, <2>1, <2>2, <2>3, <2>4 DEF OnlyOf
  <2>6. Handled(g)' /\ Registered(g)'
    BY <2>1, <2>3 DEF Handled, Registered
  <2> QED
    BY <2>1, <2>3, <2>4, <2>5, <2>6, HandlerKeeps
<1> QED
  BY <1>1, <1>2, <1>3, <1>4

LEMMA TidyHandlersOn ==
  ASSUME TypeOK, FileInv, TidyInv,
         \/ CompleteClear \/ CompletePlaceholder \/ CompleteFinish \/ WebRegister
         \/ DeleteBytes \/ DeleteIndex \/ DeleteRow \/ HandlerRaises
  PROVE  TidyInv'
<1>0. NoHandler.file = NoFile /\ \A f \in Files : f # NoFile
  BY Facts DEF NoHandler
<1>1. PICK g \in Files : hd.file = g
  BY Facts, TypeParts DEF CompleteClear, CompletePlaceholder, CompleteFinish, WebRegister,
       DeleteBytes, DeleteIndex, DeleteRow, HandlerRaises, HandlerTypes
<1>b. th' = th /\ dirty' = dirty /\ torn \subseteq torn'
  BY DEF CompleteClear, CompletePlaceholder, CompleteFinish, WebRegister, DeleteBytes, DeleteIndex,
       DeleteRow, HandlerRaises, histVars
<1>c. raced \subseteq raced'
  BY DEF CompleteClear, CompletePlaceholder, CompleteFinish, WebRegister, DeleteBytes, DeleteIndex,
       DeleteRow, HandlerRaises, histVars, Race
<1>2. Undisturbed(g)' => Handled(g) /\ \A t \in Threads : th[t].file # g
  <2> SUFFICES ASSUME Undisturbed(g)' PROVE Handled(g) /\ \A t \in Threads : th[t].file # g
    OBVIOUS
  <2>1. Undisturbed(g)
    BY <1>b, <1>c DEF Undisturbed
  <2>2. Tidy(g) /\ Solo(g)
    BY <2>1 DEF TidyInv, TidyOf, Undisturbed
  <2> QED
    BY <1>1, <2>2 DEF Tidy, Solo
<1>3. ~Registered(g) => NoChunks(g)
  BY DEF TidyInv, TidyOf
<1>4. ASSUME hd' = NoHandler \/ hd'.file = g,
             \A f \in Files \ {g} : /\ rows'[f] = rows[f] /\ bytes'[f] = bytes[f]
                                    /\ data'[f] = data[f] /\ idx'[f] = idx[f],
             ~Registered(g)' => NoChunks(g)',
             Undisturbed(g)' => \/ hd'.file = g /\ Handled(g)'
                                \/ hd' = NoHandler /\ (Registered(g)' => Settled(g)')
      PROVE  TidyInv'
  <2>1. hd'.file \in {g, NoFile}
    BY <1>0, <1>4
  <2>2. OnlyOf(g)
    BY <1>1, <1>b, <1>c, <1>4, <2>1 DEF OnlyOf
  <2>3. Undisturbed(g)' =>
           \/ hd'.file = g /\ Handled(g)'
           \/ /\ hd'.file # g /\ (Registered(g)' => Settled(g)')
              /\ \A t \in Threads : th[t].file # g
    BY <1>0, <1>2, <1>4
  <2>4. hd'.file \in {hd.file, NoFile}
    BY <1>1, <2>1
  <2> QED
    BY <1>b, <1>4, <2>1, <2>2, <2>3, <2>4, HandlerKeeps
<1>5. CASE CompleteClear
  <2>1. hd.pc = "clear" /\ rows' = rows /\ bytes' = bytes /\ hd' = [hd EXCEPT !.pc = "placeholder"]
    BY <1>5 DEF CompleteClear
  <2>2. NoChunks(g)' /\ \A f \in Files \ {g} : data'[f] = data[f] /\ idx'[f] = idx[f]
    BY <1>1, <1>5, ChunksCleared DEF CompleteClear
  <2>3. hd'.pc = "placeholder" /\ hd'.file = g
    BY <1>1, <2>1, HandlerAt
  <2>4. Undisturbed(g)' => Handled(g)'
    BY <1>2, <2>1, <2>2, <2>3 DEF Handled
  <2> QED
    BY <1>4, <2>1, <2>2, <2>3, <2>4
<1>6. CASE CompletePlaceholder
  <2>1. hd.pc = "placeholder" /\ rows' = rows /\ data' = data /\ idx' = idx /\ hd' = [hd EXCEPT !.pc = "finish"]
    BY <1>6 DEF CompletePlaceholder
  <2>2. \A f \in Files \ {g} : bytes'[f] = bytes[f]
    BY <1>1, <1>6, BytesWritten DEF CompletePlaceholder
  <2>3. hd'.pc = "finish" /\ hd'.file = g
    BY <1>1, <2>1, HandlerAt
  <2>4. Undisturbed(g)' => Handled(g)'
    BY <1>2, <2>1, <2>3 DEF Handled, NoChunks
  <2>5. ~Registered(g)' => NoChunks(g)'
    BY <1>3, <2>1 DEF Registered, NoChunks
  <2> QED
    BY <1>4, <2>1, <2>2, <2>3, <2>4, <2>5
<1>7. CASE CompleteFinish
  <2>1. hd.pc = "finish" /\ rows' = rows /\ bytes' = bytes /\ data' = data /\ idx' = idx /\ hd' = NoHandler
    BY <1>7 DEF CompleteFinish, storeVars
  <2>2. Undisturbed(g)' => Settled(g)'
    BY <1>2, <2>1 DEF Handled, Settled, NoChunks
  <2>3. ~Registered(g)' => NoChunks(g)'
    BY <1>3, <2>1 DEF Registered, NoChunks
  <2> QED
    BY <1>4, <2>1, <2>2, <2>3
<1>8. CASE WebRegister
  <2>1. hd.pc = "register" /\ bytes' = bytes /\ data' = data /\ idx' = idx /\ hd' = NoHandler
    BY <1>8 DEF WebRegister, storeVars
  <2>2. PICK n \in Names : rows' = [rows EXCEPT ![g] = [name |-> n, status |-> "uploaded"]]
    BY <1>1, <1>8 DEF WebRegister
  <2>3. rows'[g].status = "uploaded" /\ \A f \in Files \ {g} : rows'[f] = rows[f]
    BY <2>2, RowInserted
  <2>4. Registered(g)'
    BY <2>2, RowInserted
  <2>5. Undisturbed(g)' => Settled(g)'
    <3>1. Undisturbed(g)' => NoChunks(g)
      BY <1>2, <1>3, <2>1 DEF Handled
    <3> QED
      BY <2>1, <2>3, <3>1 DEF Settled, NoChunks
  <2> QED
    BY <1>4, <2>1, <2>3, <2>4, <2>5
<1>9. CASE DeleteIndex
  <2>1. hd.pc = "deleteIndex" /\ rows' = rows /\ bytes' = bytes /\ hd' = [hd EXCEPT !.pc = "deleteRow"]
    BY <1>9 DEF DeleteIndex
  <2>2. NoChunks(g)' /\ \A f \in Files \ {g} : data'[f] = data[f] /\ idx'[f] = idx[f]
    BY <1>1, <1>9, ChunksCleared DEF DeleteIndex
  <2>3. hd'.pc = "deleteRow" /\ hd'.file = g
    BY <1>1, <2>1, HandlerAt
  <2>4. Handled(g)'
    BY <2>3 DEF Handled
  <2> QED
    BY <1>4, <2>1, <2>2, <2>3, <2>4
<1>10. CASE DeleteRow
  <2>1. bytes' = bytes /\ hd' = NoHandler /\ rows' = [rows EXCEPT ![g] = NoRow]
    BY <1>1, <1>10 DEF DeleteRow
  <2>2. NoChunks(g)' /\ \A f \in Files \ {g} : data'[f] = data[f] /\ idx'[f] = idx[f]
    BY <1>1, <1>10, ChunksCleared DEF DeleteRow
  <2>3. ~Registered(g)' /\ \A f \in Files \ {g} : rows'[f] = rows[f]
    BY <2>1, RowWritten DEF Registered
  <2> QED
    BY <1>4, <2>1, <2>2, <2>3
<1>11. CASE HandlerRaises
  <2>1. /\ rows' = rows /\ bytes' = bytes /\ data' = data /\ idx' = idx /\ hd' = NoHandler
        /\ torn' = torn \cup {g}
    BY <1>1, <1>11 DEF HandlerRaises, storeVars
  <2>2. ~Undisturbed(g)'
    BY <2>1 DEF Undisturbed
  <2>3. ~Registered(g)' => NoChunks(g)'
    BY <1>3, <2>1 DEF Registered, NoChunks
  <2> QED
    BY <1>4, <2>1, <2>2, <2>3
<1>12. CASE DeleteBytes
  <2>1. rows' = rows /\ data' = data /\ idx' = idx /\ hd' = [hd EXCEPT !.pc = "deleteIndex"]
    BY <1>12 DEF DeleteBytes
  <2>2. \A f \in Files \ {g} : bytes'[f] = bytes[f]
    BY <1>1, <1>12, BytesWritten DEF DeleteBytes
  <2>3. hd'.pc = "deleteIndex" /\ hd'.file = g
    BY <1>1, <2>1, HandlerAt
  <2>4. Handled(g)'
    BY <2>3 DEF Handled
  <2>5. ~Registered(g)' => NoChunks(g)'
    BY <1>3, <2>1 DEF Registered, NoChunks
  <2> QED
    BY <1>4, <2>1, <2>2, <2>3, <2>4, <2>5
<1> QED
  BY <1>5, <1>6, <1>7, <1>8, <1>9, <1>10, <1>11, <1>12

LEMMA RunAt ==
  ASSUME TypeOK, NEW t \in Threads, NEW l, th' = Goto(t, l)
  PROVE  /\ th'[t].pc = l /\ th'[t].file = th[t].file /\ th'[t].got = th[t].got
         /\ th' = [th EXCEPT ![t] = th'[t]]
  BY DEF TypeOK, ActorsOK, Goto

\* A step of a run to another of its steps.
LEMMA RunGoes ==
  ASSUME TypeOK, TidyInv, hd' = hd, raced' = raced, dirty' = dirty, torn \subseteq torn',
         NEW t \in Threads, NEW g \in Files, th[t].file = g, NEW l, th' = Goto(t, l),
         \A f \in Files \ {g} : /\ rows'[f] = rows[f] /\ bytes'[f] = bytes[f]
                                /\ data'[f] = data[f] /\ idx'[f] = idx[f],
         ~Registered(g)' => NoChunks(g)',
         Undisturbed(g)' /\ Midway(g, th[t]) => Midway(g, th[t])'
  PROVE  TidyInv'
<1>1. th' = [th EXCEPT ![t] = th'[t]] /\ th'[t].file = g
  BY RunAt
<1>2. ASSUME NEW r, th'[t] = r PROVE TidyInv'
  BY <1>1, <1>2, RunKeeps
<1> QED
  BY <1>2

\* A run that is done with its file.
LEMMA RunEnds ==
  ASSUME TypeOK, TidyInv, hd' = hd, raced' = raced, dirty' = dirty, torn \subseteq torn',
         NEW t \in Threads, NEW g \in Files, th[t].file = g, th' = [th EXCEPT ![t] = NoRun],
         \A f \in Files \ {g} : /\ rows'[f] = rows[f] /\ bytes'[f] = bytes[f]
                                /\ data'[f] = data[f] /\ idx'[f] = idx[f],
         ~Registered(g)' => NoChunks(g)',
         Undisturbed(g)' /\ Midway(g, th[t]) => (Registered(g)' => Settled(g)')
  PROVE  TidyInv'
  BY RunKeeps

LEMMA TidyMark ==
  ASSUME TypeOK, TidyInv, NEW t \in Threads, Mark(t)
  PROVE  TidyInv'
<1>1. PICK g \in Files : th[t].file = g
  BY Facts DEF Mark
<1>2. /\ hd' = hd /\ raced' = raced /\ dirty' = dirty /\ torn' = torn
      /\ data' = data /\ idx' = idx /\ bytes' = bytes
  BY DEF Mark, histVars, storeVars
<1>3. PICK s \in {"indexing", "ready", "failed"} :
        /\ rows' = StatusSet(g, s)
        /\ \/ th[t].pc = "mark" /\ th' = Goto(t, "resolve")
           \/ th[t].pc = "ready" /\ th' = Goto(t, "count")
           \/ s = "failed" /\ th[t].pc = "failed" /\ th' = [th EXCEPT ![t] = NoRun]
  BY <1>1 DEF Mark
<1>4. /\ \A f \in Files \ {g} : rows'[f] = rows[f]
      /\ Registered(g)' <=> Registered(g)
      /\ Registered(g) => rows'[g].status = s
  <2>1. CASE Registered(g)
    BY <1>3, <2>1, StatusWritten DEF StatusSet
  <2>2. CASE ~Registered(g)
    BY <1>3, <2>2 DEF StatusSet, Registered
  <2> QED
    BY <2>1, <2>2
<1>5. ~Registered(g)' => NoChunks(g)'
  BY <1>2, <1>4 DEF TidyInv, TidyOf, NoChunks
<1>6. CASE th' = Goto(t, "resolve")
  <2>1. Midway(g, th[t])'
    BY <1>6, RunAt DEF Midway
  <2> QED
    BY <1>1, <1>2, <1>4, <1>5, <1>6, <2>1, RunGoes
<1>7. CASE th[t].pc = "ready" /\ th' = Goto(t, "count")
  <2>1. th'[t].pc = "count"
    BY <1>7, RunAt
  <2>2. Midway(g, th[t]) => Midway(g, th[t])'
    BY <1>2, <1>7, <2>1 DEF Midway, Current
  <2> QED
    BY <1>1, <1>2, <1>4, <1>5, <1>7, <2>2, RunGoes
<1>8. CASE s = "failed" /\ th' = [th EXCEPT ![t] = NoRun]
  <2>1. Registered(g)' => Settled(g)'
    BY <1>4, <1>8 DEF Settled
  <2> QED
    BY <1>1, <1>2, <1>4, <1>5, <1>8, <2>1, RunEnds
<1> QED
  BY <1>3, <1>6, <1>7, <1>8

LEMMA TidyReads ==
  ASSUME TypeOK, TidyInv, NEW t \in Threads,
         Resolve(t) \/ Parse(t) \/ AddCount(t) \/ MarkLost(t)
  PROVE  TidyInv'
<1>1. PICK g \in Files : th[t].file = g
  BY Facts DEF Resolve, Parse, AddCount, MarkLost
<1>2. /\ hd' = hd /\ raced' = raced /\ dirty' = dirty /\ torn \subseteq torn'
      /\ rows' = rows /\ data' = data /\ idx' = idx /\ bytes' = bytes
  BY DEF Resolve, Parse, AddCount, MarkLost, histVars, storeVars
<1>3. ~Registered(g)' => NoChunks(g)'
  BY <1>2 DEF TidyInv, TidyOf, NoChunks, Registered
<1>4. ASSUME NEW l \in {"parse", "failed"}, th' = Goto(t, l) PROVE TidyInv'
  <2>1. Midway(g, th[t])'
    BY <1>4, RunAt DEF Midway
  <2> QED
    BY <1>1, <1>2, <1>3, <1>4, <2>1, RunGoes
<1>5. CASE Parse(t) /\ bytes[g] # NoBytes
  <2>1. th' = [th EXCEPT ![t].pc = "stub", ![t].got = bytes[g]]
    BY <1>1, <1>5 DEF Parse
  <2>2. th' = [th EXCEPT ![t] = [th[t] EXCEPT !.pc = "stub", !.got = bytes[g]]]
    BY <2>1 DEF TypeOK, ActorsOK
  <2>3. PICK r : r = [th[t] EXCEPT !.pc = "stub", !.got = bytes[g]]
    OBVIOUS
  <2>4. r.pc = "stub" /\ r.got = bytes[g] /\ r.file = g
    BY <1>1, <2>3 DEF TypeOK, ActorsOK
  <2>5. th'[t] = r
    BY <2>2, <2>3 DEF TypeOK, ActorsOK
  <2>6. Midway(g, th[t])'
    BY <1>2, <2>4, <2>5 DEF Midway
  <2>7. th' = [th EXCEPT ![t] = r]
    BY <2>2, <2>3
  <2> QED
    BY <1>1, <1>2, <1>3, <2>4, <2>6, <2>7, RunKeeps
<1>6. CASE AddCount(t)
  <2>1. th[t].pc = "count" /\ th' = [th EXCEPT ![t] = NoRun]
    BY <1>6 DEF AddCount
  <2>2. Midway(g, th[t]) => Settled(g)'
    BY <1>2, <2>1 DEF Midway, Current, Settled
  <2> QED
    BY <1>1, <1>2, <1>3, <2>1, <2>2, RunEnds
<1>7. CASE MarkLost(t)
  <2>1. torn' = torn \cup {g}
    BY <1>1, <1>7 DEF MarkLost
  <2>2. ~Undisturbed(g)'
    BY <2>1 DEF Undisturbed
  <2>3. \/ \E l \in {"resolve", "count"} : th' = Goto(t, l)
        \/ th' = [th EXCEPT ![t] = NoRun]
    BY <1>7 DEF MarkLost
  <2> QED
    BY <1>1, <1>2, <1>3, <2>2, <2>3, RunEnds, RunGoes
<1>8. CASE Resolve(t) \/ (Parse(t) /\ bytes[g] = NoBytes)
  BY <1>1, <1>4, <1>8 DEF Resolve, Parse
<1> QED
  BY <1>5, <1>6, <1>7, <1>8

LEMMA TidyStub ==
  ASSUME TypeOK, TidyInv, NEW t \in Threads, Stub(t)
  PROVE  TidyInv'
<1>1. PICK g \in Files : th[t].file = g
  BY Facts DEF Stub
<1>2. /\ hd' = hd /\ raced' = raced /\ dirty' = dirty /\ torn' = torn
      /\ data' = data /\ idx' = idx /\ bytes' = bytes
      /\ th[t].pc = "stub" /\ th' = Goto(t, "clear")
  BY DEF Stub, histVars, storeVars
<1>3. Registered(g)' /\ \A f \in Files \ {g} : rows'[f] = rows[f]
  <2>1. CASE Registered(g)
    BY <1>1, <2>1 DEF Stub, Registered
  <2>2. CASE ~Registered(g)
    <3>1. rows' = [rows EXCEPT ![g] = [name |-> StubName, status |-> "uploaded"]]
      BY <1>1, <2>2 DEF Stub
    <3> QED
      BY <3>1, RowInserted
  <2> QED
    BY <2>1, <2>2
<1>4. th'[t].pc = "clear" /\ th'[t].got = th[t].got
  BY <1>2, RunAt
<1>5. Midway(g, th[t]) => Midway(g, th[t])'
  BY <1>2, <1>4 DEF Midway
<1> QED
  BY <1>1, <1>2, <1>3, <1>5, RunGoes

LEMMA TidyClear ==
  ASSUME TypeOK, TidyInv, NEW t \in Threads, ClearIndex(t)
  PROVE  TidyInv'
<1>1. PICK g \in Files : th[t].file = g
  BY Facts DEF ClearIndex
<1>2. /\ hd' = hd /\ raced' = raced /\ dirty' = dirty /\ torn' = torn
      /\ rows' = rows /\ bytes' = bytes
      /\ th[t].pc = "clear" /\ th' = Goto(t, "data")
  BY DEF ClearIndex, histVars
<1>3. NoChunks(g)' /\ \A f \in Files \ {g} : data'[f] = data[f] /\ idx'[f] = idx[f]
  BY <1>1, ChunksCleared DEF ClearIndex
<1>4. th'[t].pc = "data" /\ th'[t].got = th[t].got
  BY <1>2, RunAt
<1>5. Midway(g, th[t]) => Midway(g, th[t])'
  BY <1>2, <1>3, <1>4 DEF Midway
<1> QED
  BY <1>1, <1>2, <1>3, <1>5, RunGoes

\* Chunks stored where there were none.
LEMMA UpsertedFresh ==
  ASSUME NEW c \in OnDisk, NEW d \in Upserted({}, c)
  PROVE  d = ChunksOf(c)
  BY ContentsAssumption DEF Upserted, ChunksOf, OnDisk

LEMMA TidyStores ==
  ASSUME TypeOK, TidyInv, NEW t \in Threads, StoreData(t) \/ StoreIndex(t) \/ Raise(t)
  PROVE  TidyInv'
<1>1. PICK g \in Files : th[t].file = g
  BY Facts DEF StoreData, StoreIndex, Raise, Holding
<1>2. /\ hd' = hd /\ raced' = raced /\ dirty' = dirty /\ torn' = torn
      /\ rows' = rows /\ bytes' = bytes
  BY DEF StoreData, StoreIndex, Raise, histVars
<1>3. ~Registered(g) => data[g] = {} /\ idx[g] = {}
  BY DEF TidyInv, TidyOf, NoChunks
<1>4. Registered(g)' <=> Registered(g)
  BY <1>2 DEF Registered
<1>5. data \in [Files -> SUBSET Contents] /\ idx \in [Files -> SUBSET Contents]
  BY DEF TypeOK, TablesOK
<1>6. th[t].pc \in {"data", "index"} => th[t].got \in OnDisk
  BY DEF TypeOK, ActorsOK
<1>7. CASE StoreData(t) /\ th' = Goto(t, "index")
  <2>1. PICK d \in Upserted(data[g], th[t].got) : data' = [data EXCEPT ![g] = d]
    BY <1>1, <1>7, RunAt DEF StoreData
  <2>2. th[t].pc = "data" /\ idx' = idx /\ (Registered(g) \/ th[t].got = Empty)
    BY <1>1, <1>7, RunAt DEF StoreData
  <2>3. data'[g] = d /\ \A f \in Files \ {g} : data'[f] = data[f]
    BY <1>5, <2>1
  <2>4. data[g] = {} => d = ChunksOf(th[t].got)
    BY <1>6, <2>1, <2>2, UpsertedFresh
  <2>5. ChunksOf(Empty) = {}
    BY ContentsAssumption DEF ChunksOf
  <2>6. ~Registered(g)' => NoChunks(g)'
    BY <1>3, <1>4, <2>2, <2>3, <2>4, <2>5 DEF NoChunks
  <2>7. th'[t].pc = "index" /\ th'[t].got = th[t].got
    BY <1>7, RunAt
  <2>8. Midway(g, th[t]) => Midway(g, th[t])'
    BY <1>2, <2>2, <2>3, <2>4, <2>7 DEF Midway, NoChunks
  <2> QED
    BY <1>1, <1>2, <1>7, <2>2, <2>3, <2>6, <2>8, RunGoes
<1>8. CASE StoreIndex(t) /\ th' = Goto(t, "ready")
  <2>1. PICK d \in Upserted(idx[g], th[t].got) : idx' = [idx EXCEPT ![g] = d]
    BY <1>1, <1>8, RunAt DEF StoreIndex
  <2>2. th[t].pc = "index" /\ data' = data /\ (data[g] # {} \/ th[t].got = Empty)
    BY <1>1, <1>8, RunAt DEF StoreIndex
  <2>3. idx'[g] = d /\ \A f \in Files \ {g} : idx'[f] = idx[f]
    BY <1>5, <2>1
  <2>4. idx[g] = {} => d = ChunksOf(th[t].got)
    BY <1>6, <2>1, <2>2, UpsertedFresh
  <2>5. ChunksOf(Empty) = {}
    BY ContentsAssumption DEF ChunksOf
  <2>6. ~Registered(g)' => NoChunks(g)'
    BY <1>3, <1>4, <2>2, <2>3, <2>4, <2>5 DEF NoChunks
  <2>7. th'[t].pc = "ready"
    BY <1>8, RunAt
  <2>8. Midway(g, th[t]) => Midway(g, th[t])'
    BY <1>2, <2>2, <2>3, <2>4, <2>7 DEF Midway, Current
  <2> QED
    BY <1>1, <1>2, <1>8, <2>2, <2>3, <2>6, <2>8, RunGoes
<1>9. CASE th' = Goto(t, "failed")
  <2>1. idx' = idx
    BY <1>9, RunAt DEF StoreData, StoreIndex, Raise
  <2>2. data' = data \/ (Registered(g) /\ \E d : data' = [data EXCEPT ![g] = d])
    BY <1>1, <1>9, RunAt DEF StoreData, StoreIndex, Raise
  <2>3. \A f \in Files \ {g} : data'[f] = data[f]
    BY <1>5, <2>2
  <2>4. ~Registered(g)' => NoChunks(g)'
    BY <1>3, <1>4, <2>1, <2>2 DEF NoChunks
  <2>5. Midway(g, th[t])'
    BY <1>9, RunAt DEF Midway
  <2> QED
    BY <1>1, <1>2, <1>9, <2>1, <2>3, <2>4, <2>5, RunGoes
<1> QED
  BY <1>7, <1>8, <1>9 DEF StoreData, StoreIndex, Raise

LEMMA TidyStart ==
  ASSUME TypeOK, TidyInv, NEW t \in Threads, NEW g \in Files, StartRun(t, g)
  PROVE  TidyInv'
<1>0. g # NoFile /\ NoRun.file = NoFile
  BY Facts DEF NoRun
<1>1. /\ hd' = hd /\ dirty' = dirty /\ torn' = torn /\ rows' = rows /\ bytes' = bytes
      /\ data' = data /\ idx' = idx /\ th[t] = NoRun
  BY DEF StartRun, storeVars
<1>2. raced \subseteq raced' /\ (g \notin raced' => Quiet(g))
  BY DEF StartRun, Race, Quiet
<1>3. PICK r : r = [NoRun EXCEPT !.pc = "mark", !.file = g]
  OBVIOUS
<1>4. r.pc = "mark" /\ r.file = g
  BY <1>3 DEF NoRun
<1>5. th'[t] = r /\ \A s \in Threads \ {t} : th'[s] = th[s]
  BY <1>3 DEF StartRun, TypeOK, ActorsOK
<1>6. OnlyOf(g)
  BY <1>0, <1>1, <1>2, <1>4, <1>5 DEF OnlyOf
<1>7. \A f \in Files : f # g => TidyOf(f)'
  BY <1>6, Aside DEF TidyInv
<1>8. g \notin raced' => Solo(g)'
  BY <1>1, <1>2, <1>5 DEF Solo, Quiet, RunsOn
<1>9. Undisturbed(g)' => Tidy(g)'
  <2> SUFFICES ASSUME Undisturbed(g)' PROVE Tidy(g)'
    OBVIOUS
  <2>1. Quiet(g) /\ Undisturbed(g)
    BY <1>1, <1>2 DEF Undisturbed
  <2>2. Registered(g) => Settled(g)
    BY <2>1 DEF TidyInv, TidyOf, Tidy
  <2>3. Registered(g)' => Settled(g)'
    BY <1>1, <2>2 DEF Registered, Settled, NoChunks, Current
  <2>4. \A s \in Threads : th'[s].file = g => s = t
    BY <1>5, <2>1 DEF Quiet, RunsOn
  <2>5. Midway(g, th[t])'
    BY <1>4, <1>5, <2>3 DEF Midway
  <2>6. ASSUME NEW s \in Threads, th'[s].file = g PROVE Midway(g, th[s])'
    BY <2>4, <2>5, <2>6
  <2>7. hd'.file # g
    BY <1>1, <2>1 DEF Quiet
  <2> QED
    BY <2>3, <2>6, <2>7 DEF Tidy
<1>10. ~Registered(g)' => NoChunks(g)'
  BY <1>1 DEF TidyInv, TidyOf, Registered, NoChunks
<1>11. TidyOf(g)'
  BY <1>8, <1>9, <1>10 DEF TidyOf
<1> QED
  BY <1>7, <1>11 DEF TidyInv

LEMMA TidyAsIs ==
  ASSUME TypeOK, TidyInv,
         (\E n \in Names : Presign(n) \/ PresignRaises(n)) \/ UNCHANGED vars
  PROVE  TidyInv'
<1>1. /\ hd' = hd /\ th' = th /\ raced' = raced /\ dirty' = dirty /\ torn' = torn /\ rows' = rows
      /\ bytes' = bytes /\ data' = data /\ idx' = idx
  BY DEF Presign, PresignRaises, vars, storeVars, histVars
<1>2. OnlyOf(NoFile)
  BY <1>1 DEF OnlyOf
<1>3. \A f \in Files : f # NoFile
  BY Facts
<1> QED
  BY <1>2, <1>3, Aside DEF TidyInv

LEMMA TidyCrash ==
  ASSUME TypeOK, TidyInv, Crash
  PROVE  TidyInv'
<1> SUFFICES ASSUME NEW f \in Files PROVE TidyOf(f)'
  BY DEF TidyInv
<1>1. /\ raced' = raced /\ dirty' = dirty /\ rows' = rows /\ bytes' = bytes /\ data' = data /\ idx' = idx
      /\ hd' = NoHandler /\ th' = [t \in Threads |-> NoRun]
  BY DEF Crash, storeVars
<1>2. f # NoFile /\ NoRun.file = NoFile /\ NoHandler.file = NoFile
  BY Facts DEF NoRun, NoHandler
<1>3. hd'.file # f /\ \A t \in Threads : th'[t].file # f
  BY <1>1, <1>2
<1>4. f \notin torn' => Quiet(f) /\ f \notin torn
  BY <1>2 DEF Crash, Quiet, RunsOn
<1>5. Solo(f)'
  BY <1>3 DEF Solo
<1>6. Undisturbed(f)' => Tidy(f)'
  <2>1. Undisturbed(f)' => Undisturbed(f) /\ Quiet(f)
    BY <1>1, <1>4 DEF Undisturbed
  <2>2. Undisturbed(f)' /\ Registered(f) => Settled(f)
    BY <2>1 DEF TidyInv, TidyOf, Tidy
  <2>3. Undisturbed(f)' /\ Registered(f)' => Settled(f)'
    BY <1>1, <2>2 DEF Registered, Settled, NoChunks, Current
  <2> QED
    BY <1>3, <2>3 DEF Tidy
<1>7. ~Registered(f)' => NoChunks(f)'
  BY <1>1 DEF TidyInv, TidyOf, Registered, NoChunks
<1> QED
  BY <1>5, <1>6, <1>7 DEF TidyOf

LEMMA TidyInit == Init => TidyInv
<1> SUFFICES ASSUME Init, NEW f \in Files PROVE TidyOf(f)
  BY DEF TidyInv
<1>1. f # NoFile /\ NoRun.file = NoFile /\ NoHandler.file = NoFile
  BY BoundsAssumption DEF Files, NoFile, NoRun, NoHandler
<1>2. ~Registered(f) /\ NoChunks(f) /\ hd.file # f /\ \A t \in Threads : th[t].file # f
  BY <1>1 DEF Init, Registered, NoChunks
<1> QED
  BY <1>2 DEF TidyOf, Solo, Tidy

LEMMA TidyStep ==
  ASSUME TypeOK, FileInv, TidyInv, [Next]_vars
  PROVE  TidyInv'
<1>1. CASE Handler
  BY <1>1, TidyAsIs, TidyHandlers, TidyHandlersOn DEF Handler
<1>2. ASSUME NEW t \in Threads, Run(t) \/ MarkLost(t) PROVE TidyInv'
  BY <1>2, TidyStart, TidyMark, TidyReads, TidyStub, TidyClear, TidyStores DEF Run
<1>3. CASE Crash \/ HandlerRaises \/ UNCHANGED vars
  BY <1>3, TidyCrash, TidyHandlersOn, TidyAsIs
<1> QED
  BY <1>1, <1>2, <1>3 DEF Next

\* What is stored of a file follows from how far its worker has come: the inductive
\* invariant behind the theorem below.
THEOREM FilesAreTidy == Spec => []TidyInv
<1>1. TypeOK /\ FileInv /\ TidyInv /\ [Next]_vars => TidyInv'
  BY TidyStep
<1> QED
  BY <1>1, TidyInit, TypeCorrect, FilesAgree, PTL DEF Spec

\* What the list shows as available answers searches with the chunks of the bytes on disk,
\* in both tables alike (_pg_file_status, complete, process_file).
THEOREM AvailableFilesAreCurrent == Spec => []AvailableIsCurrent
<1>1. TypeOK /\ TidyInv => AvailableIsCurrent
  <2> SUFFICES ASSUME TypeOK, TidyInv, NEW f \in Files \ (raced \cup torn \cup dirty),
                      Registered(f), Quiet(f), Shown(f) = "available"
               PROVE  data[f] = ChunksOf(bytes[f]) /\ idx[f] = ChunksOf(bytes[f])
    BY DEF AvailableIsCurrent
  <2>1. Settled(f)
    BY DEF TidyInv, TidyOf, Tidy, Undisturbed
  <2>2. rows[f].status # "failed" /\ (data[f] # {} \/ rows[f].status = "ready")
    BY DEF Shown
  <2> QED
    BY <2>1, <2>2 DEF Settled, NoChunks, Current
<1> QED
  BY <1>1, TypeCorrect, FilesAreTidy, PTL

LEMMA FinishedIsFinite ==
  ASSUME NEW S \in SUBSET Files
  PROVE  IsFiniteSet(S) /\ Cardinality(S) \in Nat
<1>1. IsFiniteSet(Files)
  BY BoundsAssumption, FS_Interval DEF Files
<1>2. IsFiniteSet(S)
  BY <1>1, FS_Subset
<1> QED
  BY <1>2, FS_CardinalityType

\* No row becomes ready unless a run is about to count it, and none leaves off counting.
ReadyKept ==
  /\ torn \subseteq torn' /\ fileCount' = fileCount
  /\ \A f \in Files : rows'[f].status = "ready" =>
       rows[f].status = "ready" \/ \E t \in Threads : th'[t].file = f /\ th'[t].pc = "count"
  /\ torn' = {} => \A t \in Threads : th[t].pc = "count" => th'[t] = th[t]

LEMMA ReadyHandlers ==
  ASSUME TypeOK, Handler \/ Crash \/ HandlerRaises \/ UNCHANGED vars
  PROVE  ReadyKept
<1>1. torn \subseteq torn' /\ fileCount' = fileCount
  BY DEF Handler, Presign, PresignRaises, Put, CompleteBegin, CompleteClear, CompletePlaceholder,
         CompleteFinish, WebWrite, WebRegister, DeleteBegin, DeleteBytes, DeleteIndex, DeleteRow, Crash,
         HandlerRaises, vars, histVars
<1>2. th' = th \/ Crash
  BY DEF Handler, Presign, PresignRaises, Put, CompleteBegin, CompleteClear, CompletePlaceholder,
         CompleteFinish, WebWrite, WebRegister, DeleteBegin, DeleteBytes, DeleteIndex, DeleteRow, HandlerRaises, vars
<1>3. torn' = {} => \A t \in Threads : th[t].pc = "count" => th'[t] = th[t]
  <2>1. CASE th' = th
    BY <2>1
  <2>2. CASE Crash
    <3>1. \A t \in Threads : th[t].pc = "count" => th[t].file # NoFile
      BY DEF TypeOK, ActorsOK
    <3>2. \A t \in Threads : th[t].pc = "count" => th[t].file \in torn'
      BY <2>2, <3>1 DEF Crash
    <3> QED
      BY <3>2
  <2> QED
    BY <1>2, <2>1, <2>2
<1>4. \A f \in Files : rows'[f].status = "ready" => rows[f].status = "ready"
  <2>1. CASE rows' = rows
    BY <2>1
  <2>2. ASSUME NEW u \in Uploads, CompleteBegin(u)
        PROVE  \A f \in Files : rows'[f].status = "ready" => rows[f].status = "ready"
    <3>1. PICK g \in Files : upFile[u] = g
      BY <2>2, Facts, TypeParts DEF CompleteBegin, SessionTypes, Uploads
    <3>2. \/ Registered(g) /\ rows' = [rows EXCEPT ![g].status = "uploaded"]
          \/ rows' = [rows EXCEPT ![g] = [name |-> upName[u], status |-> "uploaded"]]
      BY <2>2, <3>1 DEF CompleteBegin
    <3>3. rows'[g].status = "uploaded" /\ \A f \in Files \ {g} : rows'[f] = rows[f]
      BY <3>2, StatusWritten, RowInserted
    <3> QED
      BY <3>3
  <2>3. CASE WebRegister
    <3>1. PICK g \in Files : hd.file = g
      BY <2>3, Facts DEF WebRegister
    <3>2. PICK n \in Names : rows' = [rows EXCEPT ![g] = [name |-> n, status |-> "uploaded"]]
      BY <2>3, <3>1 DEF WebRegister
    <3>3. rows'[g].status = "uploaded" /\ \A f \in Files \ {g} : rows'[f] = rows[f]
      BY <3>2, RowInserted
    <3> QED
      BY <3>3
  <2>4. CASE DeleteRow
    <3>1. PICK g \in Files : hd.file = g
      BY <2>4, Facts DEF DeleteRow
    <3>2. rows' = [rows EXCEPT ![g] = NoRow]
      BY <2>4, <3>1 DEF DeleteRow
    <3>3. rows'[g] = NoRow /\ \A f \in Files \ {g} : rows'[f] = rows[f]
      BY <3>2, RowWritten
    <3>4. NoRow.status = "none"
      BY DEF NoRow
    <3> QED
      BY <3>3, <3>4
  <2> QED
    BY <2>1, <2>2, <2>3, <2>4 DEF Handler, Presign, PresignRaises, Put, CompleteClear, CompletePlaceholder,
       CompleteFinish, WebWrite, DeleteBegin, DeleteBytes, DeleteIndex, HandlerRaises, Crash, vars
<1> QED
  BY <1>1, <1>3, <1>4 DEF ReadyKept

LEMMA ReadyRuns ==
  ASSUME TypeOK, NEW t \in Threads, Run(t) \/ MarkLost(t), ~AddCount(t)
  PROVE  ReadyKept
<1>1. torn \subseteq torn' /\ fileCount' = fileCount
  BY DEF Run, StartRun, Mark, Resolve, Parse, Stub, ClearIndex, StoreData, StoreIndex, Raise, MarkLost,
         histVars
<1>2. th[t].pc # "count"
  <2>1. CASE \E f \in Files : StartRun(t, f)
    BY <2>1 DEF StartRun, NoRun
  <2>2. CASE Mark(t) \/ MarkLost(t)
    BY <2>2 DEF Mark, MarkLost
  <2>3. CASE Raise(t)
    BY <2>3 DEF Raise, Holding
  <2>4. CASE Resolve(t) \/ Parse(t) \/ Stub(t) \/ ClearIndex(t) \/ StoreData(t) \/ StoreIndex(t)
    BY <2>4 DEF Resolve, Parse, Stub, ClearIndex, StoreData, StoreIndex
  <2> QED
    BY <2>1, <2>2, <2>3, <2>4 DEF Run
<1>3. \A s \in Threads \ {t} : th'[s] = th[s]
  BY DEF Run, StartRun, Mark, Resolve, Parse, Stub, ClearIndex, StoreData, StoreIndex, Raise, MarkLost,
         Goto, TypeOK, ActorsOK
<1>4. \A f \in Files : rows'[f].status = "ready" =>
        rows[f].status = "ready" \/ \E s \in Threads : th'[s].file = f /\ th'[s].pc = "count"
  <2>1. CASE rows' = rows
    BY <2>1
  <2>2. CASE Mark(t)
    <3>1. PICK g \in Files : th[t].file = g
      BY <2>2, Facts DEF Mark
    <3>2. PICK x \in {"indexing", "ready", "failed"} :
            /\ rows' = StatusSet(g, x)
            /\ x = "ready" => th' = Goto(t, "count")
      BY <2>2, <3>1 DEF Mark
    <3>3. x = "ready" => th'[t].file = g /\ th'[t].pc = "count"
      BY <3>1, <3>2, RunAt
    <3>4. CASE Registered(g)
      <4>1. rows'[g].status = x /\ \A f \in Files \ {g} : rows'[f] = rows[f]
        BY <3>2, <3>4, StatusWritten DEF StatusSet
      <4> QED
        BY <3>3, <4>1
    <3>5. CASE ~Registered(g)
      BY <3>2, <3>5 DEF StatusSet
    <3> QED
      BY <3>4, <3>5
  <2>3. CASE Stub(t)
    <3>1. PICK g \in Files : th[t].file = g
      BY <2>3, Facts DEF Stub
    <3>2. rows' = rows \/ rows' = [rows EXCEPT ![g] = [name |-> StubName, status |-> "uploaded"]]
      BY <2>3, <3>1 DEF Stub
    <3>3. CASE rows' # rows
      <4>1. rows'[g].status = "uploaded" /\ \A f \in Files \ {g} : rows'[f] = rows[f]
        BY <3>2, <3>3, RowInserted
      <4> QED
        BY <4>1
    <3> QED
      BY <2>1, <3>3
  <2> QED
    BY <2>1, <2>2, <2>3 DEF Run, StartRun, Resolve, Parse, ClearIndex, StoreData, StoreIndex, Raise, MarkLost
<1> QED
  BY <1>1, <1>2, <1>3, <1>4 DEF ReadyKept

LEMMA FinishedStep ==
  ASSUME TypeOK, FinishedAreCounted, [Next]_vars
  PROVE  FinishedAreCounted'
<1>1. fileCount \in Nat
  BY DEF TypeOK, ActorsOK
<1>2. Finished \in SUBSET Files /\ Finished' \in SUBSET Files
  BY DEF Finished
<1>3. CASE ReadyKept
  <2> SUFFICES ASSUME torn' = {} PROVE (Cardinality(Finished) <= fileCount)'
    BY DEF FinishedAreCounted
  <2>1. Cardinality(Finished) <= fileCount
    BY <1>3 DEF FinishedAreCounted, ReadyKept
  <2>2. Finished' \subseteq Finished
    BY <1>3 DEF ReadyKept, Finished
  <2>3. Cardinality(Finished') <= Cardinality(Finished)
    BY <1>2, <2>2, FinishedIsFinite, FS_Subset
  <2>4. Cardinality(Finished') \in Nat /\ Cardinality(Finished) \in Nat
    BY <1>2, FinishedIsFinite
  <2>5. fileCount' = fileCount
    BY <1>3 DEF ReadyKept
  <2> QED
    BY <1>1, <2>1, <2>3, <2>4, <2>5
<1>4. ASSUME NEW t \in Threads, AddCount(t) PROVE FinishedAreCounted'
  <2> SUFFICES ASSUME torn' = {} PROVE (Cardinality(Finished) <= fileCount)'
    BY DEF FinishedAreCounted
  <2>1. /\ torn' = torn /\ rows' = rows /\ fileCount' = fileCount + 1 /\ th[t].pc = "count"
        /\ th' = [th EXCEPT ![t] = NoRun]
    BY <1>4 DEF AddCount, histVars
  <2>2. PICK g \in Files : th[t].file = g
    BY <2>1, Facts
  <2>3. Cardinality(Finished) <= fileCount
    BY <2>1 DEF FinishedAreCounted
  <2>4. \A s \in Threads \ {t} : th'[s] = th[s]
    BY <2>1 DEF TypeOK, ActorsOK
  <2>5. Finished' \subseteq Finished \cup {g}
    BY <2>1, <2>2, <2>4 DEF Finished
  <2>6. Finished \cup {g} \in SUBSET Files
    BY <1>2
  <2>7. Cardinality(Finished') <= Cardinality(Finished \cup {g})
    BY <2>5, <2>6, FinishedIsFinite, FS_Subset
  <2>8. Cardinality(Finished \cup {g}) = Cardinality(Finished) \/ Cardinality(Finished \cup {g}) = Cardinality(Finished) + 1
    BY <1>2, FinishedIsFinite, FS_AddElement
  <2>9. Cardinality(Finished') \in Nat /\ Cardinality(Finished) \in Nat /\ Cardinality(Finished \cup {g}) \in Nat
    BY <1>2, <2>6, FinishedIsFinite
  <2>10. fileCount' = fileCount + 1
    BY <2>1
  <2> QED
    BY <1>1, <2>3, <2>7, <2>8, <2>9, <2>10
<1>5. CASE Handler \/ Crash \/ HandlerRaises \/ UNCHANGED vars
  BY <1>3, <1>5, ReadyHandlers
<1>6. ASSUME NEW t \in Threads, Run(t) \/ MarkLost(t) PROVE FinishedAreCounted'
  BY <1>3, <1>4, <1>6, ReadyRuns
<1> QED
  BY <1>5, <1>6 DEF Next

\* Every file the list shows ready was counted (add_counts, resolve_file_count).
THEOREM ReadyFilesAreCounted == Spec => []ReadyIsCounted
<1>1. Init => FinishedAreCounted
  <2> SUFFICES ASSUME Init PROVE Cardinality(Finished) <= fileCount
    BY DEF FinishedAreCounted
  <2>1. Finished = {}
    BY DEF Init, Finished, NoRow
  <2> QED
    BY <2>1, FS_EmptySet DEF Init
<1>2. TypeOK /\ FinishedAreCounted /\ [Next]_vars => FinishedAreCounted'
  BY FinishedStep
<1>3. TypeOK /\ FinishedAreCounted => ReadyIsCounted
  <2> SUFFICES ASSUME TypeOK, Cardinality(Finished) <= fileCount
               PROVE  Cardinality({f \in Files : rows[f].status = "ready" /\ Quiet(f)}) <= fileCount
    BY DEF FinishedAreCounted, ReadyIsCounted
  <2> DEFINE S == {f \in Files : rows[f].status = "ready" /\ Quiet(f)}
  <2>1. S \subseteq Finished /\ Finished \in SUBSET Files /\ S \in SUBSET Files
    BY DEF Quiet, RunsOn, Finished
  <2> HIDE DEF S
  <2>2. Cardinality(S) <= Cardinality(Finished)
    BY <2>1, FinishedIsFinite, FS_Subset
  <2>3. Cardinality(S) \in Nat /\ Cardinality(Finished) \in Nat
    BY <2>1, FinishedIsFinite
  <2>4. fileCount \in Nat
    BY DEF TypeOK, ActorsOK
  <2>5. Cardinality(S) <= fileCount
    BY <2>2, <2>3, <2>4
  <2> QED
    BY <2>5 DEF S
<1> QED
  BY <1>1, <1>2, <1>3, TypeCorrect, PTL DEF Spec

\* What the list of files shows is so: available, indexing and ready mean what they say
\* (_pg_file_status, add_counts, the try around process_file).
THEOREM ListShowsWhatIs == Spec => []ShownIsTrue
<1>1. AvailableIsCurrent /\ NeverStuckIndexing /\ ReadyIsCounted => ShownIsTrue
  BY DEF ShownIsTrue
<1> QED
  BY <1>1, AvailableFilesAreCurrent, ImportsEndMarked, ReadyFilesAreCounted, PTL
=============================================================================
