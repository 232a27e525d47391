------------------------------ MODULE KbImages ------------------------------
(***************************************************************************)
(* The pictures of Markdown documents: ingest_markdown_images, which saves *)
(* what a text refers to under a key of its own and rewrites the           *)
(* reference; the rows that show them; and the deletion of documents, one  *)
(* or a batch of them, which unlinks what the rows show.                   *)
(*                                                                         *)
(* A text is the sequence of its references: to a picture on the server or *)
(* to a key of kb_images (as copied from an answer).  One to the web, or   *)
(* to nothing, is left as it is and adds nothing: there is none here.      *)
(***************************************************************************)
EXTENDS Integers, SequencesExt, FiniteSetsExt

CONSTANTS
  Documents,   \* ids of Markdown files of one knowledge base
  Locals,      \* pictures on the server that a text may name by their path
  MaxRefs,     \* bound: references of a text
  MaxKeys,     \* bound: pictures saved
  MaxRuns,     \* bound: imports begun
  MaxHalts     \* bound: crashes and database calls that raise

ASSUME KbImagesAssumption ==
  /\ Locals \cap Nat = {}
  /\ MaxRefs \in Nat \ {0} /\ MaxKeys \in Nat /\ MaxRuns \in Nat /\ MaxHalts \in Nat

Keys == 1 .. MaxKeys

VARIABLES
  refs,        \* the references of each text, none before it is uploaded
  status,      \* of each document's row: "none", "indexing" or "free"
  there,       \* documents whose bytes are on disk
  store,       \* keys on disk
  shows,       \* keys in each document's rows
  run,         \* the import of each document
  del,         \* the deletion under way: handlers do not interleave, imports are threads
  runs, halts,
  savers,      \* history: the document each key was saved for, in the order saved
  imported,    \* history: documents an import of which has begun
  disturbed    \* history: documents imported again, or whose import
               \* raised or met a deletion, or whose pictures were not found

imageVars == <<refs, status, there, store, shows, run, del, runs, halts, savers, imported, disturbed>>

NoImport == [pc |-> "none", at |-> 1, saved |-> {}, names |-> {}]
NoDelete == [pc |-> "none", ids |-> <<>>, held |-> {}]

ImagesIdle ==
  /\ refs = [f \in Documents |-> <<>>]
  /\ status = [f \in Documents |-> "none"]
  /\ there = {} /\ store = {}
  /\ shows = [f \in Documents |-> {}]
  /\ run = [f \in Documents |-> NoImport]
  /\ del = NoDelete
  /\ runs = 0 /\ halts = 0 /\ savers = <<>>
  /\ imported = {} /\ disturbed = {}

Exists(f) == status[f] # "none"
Importing(f) == run[f].pc # "none"
Deleting(f) == del.pc # "none" /\ Head(del.ids) = f

\* A text is uploaded and registered; it names no key that is not on disk.
Upload(f, text) ==
  /\ refs[f] = <<>> /\ del = NoDelete
  /\ Range(text) \subseteq Locals \cup store
  /\ refs' = [refs EXCEPT ![f] = text]
  /\ status' = [status EXCEPT ![f] = "free"]
  /\ there' = there \cup {f}
  /\ UNCHANGED <<store, shows, run, del, runs, halts, savers, imported, disturbed>>

-----------------------------------------------------------------------------
(* Importing.  At most one import of a document at a time.                  *)

\* The row is marked and found, and the bytes are there: they are read.
ImportText(f) ==
  /\ Exists(f) /\ f \in there /\ ~Importing(f) /\ runs < MaxRuns
  /\ run' = [run EXCEPT ![f] = [NoImport EXCEPT !.pc = "ingest"]]
  /\ status' = [status EXCEPT ![f] = "indexing"]
  /\ runs' = runs + 1
  /\ imported' = imported \cup {f}
  /\ disturbed' = IF f \in imported \/ Deleting(f)
                  THEN disturbed \cup {f} ELSE disturbed
  /\ UNCHANGED <<refs, there, store, shows, del, halts, savers>>

Ingesting(f) == run[f].pc = "ingest" /\ run[f].at <= Len(refs[f])
Ref(f) == refs[f][run[f].at]
KeysOf(f, ref) == {p.key : p \in {q \in run[f].saved : q.ref = ref}}
Rewritten(f, keys) == [run EXCEPT ![f].at = @ + 1, ![f].names = @ \cup keys]

\* A key is left as it is, on disk or not.
KeepRef(f) ==
  /\ Ingesting(f) /\ Ref(f) \notin Locals
  /\ run' = Rewritten(f, {Ref(f)})
  /\ UNCHANGED <<refs, status, there, store, shows, del, runs, halts, savers, imported, disturbed>>

\* key_by_ref: a reference met before is rewritten to the same key.
RepeatRef(f) ==
  /\ Ingesting(f) /\ Ref(f) \in Locals /\ KeysOf(f, Ref(f)) # {}
  /\ run' = Rewritten(f, KeysOf(f, Ref(f)))
  /\ UNCHANGED <<refs, status, there, store, shows, del, runs, halts, savers, imported, disturbed>>

Fresh == Len(savers) + 1

\* ImageStore.save: a key never used before.
SaveRef(f) ==
  /\ Ingesting(f) /\ Ref(f) \in Locals /\ KeysOf(f, Ref(f)) = {} /\ Fresh \in Keys
  /\ store' = store \cup {Fresh}
  /\ savers' = Append(savers, f)
  /\ run' = [Rewritten(f, {Fresh}) EXCEPT ![f].saved = @ \cup {[ref |-> Ref(f), key |-> Fresh]}]
  /\ UNCHANGED <<refs, status, there, shows, del, runs, halts, imported, disturbed>>

\* upsert_data_index begins: a row that is gone comes back, and the old rows go.
ReplaceRows(f) ==
  /\ run[f].pc = "ingest" /\ run[f].at > Len(refs[f])
  /\ status' = [status EXCEPT ![f] = IF Exists(f) THEN @ ELSE "free"]
  /\ shows' = [shows EXCEPT ![f] = {}]
  /\ run' = [run EXCEPT ![f].pc = "store"]
  /\ UNCHANGED <<refs, there, store, del, runs, halts, savers, imported, disturbed>>

\* The new rows are stored, under a row that has to be there, and the file is marked.
StoreRows(f) ==
  /\ run[f].pc = "store" /\ Exists(f)
  /\ shows' = [shows EXCEPT ![f] = run[f].names]
  /\ status' = [status EXCEPT ![f] = "free"]
  /\ run' = [run EXCEPT ![f] = NoImport]
  /\ UNCHANGED <<refs, there, store, del, runs, halts, savers, imported, disturbed>>

\* Parsing, embedding or storing raises: what was saved stays.
ImportRaises(f) ==
  /\ Importing(f)
  /\ run' = [run EXCEPT ![f] = NoImport]
  /\ status' = [status EXCEPT ![f] = IF Exists(f) THEN "free" ELSE @]
  /\ disturbed' = disturbed \cup {f}
  /\ UNCHANGED <<refs, there, store, shows, del, runs, halts, savers, imported>>

-----------------------------------------------------------------------------
(* Deleting.                                                                *)

Halt == halts < MaxHalts /\ halts' = halts + 1

\* Variant: the last id of a batch is kept.
AfterHead_KeepsIds ==
  IF Len(del.ids) = 1 THEN [NoDelete EXCEPT !.ids = del.ids]
  ELSE [NoDelete EXCEPT !.pc = "check", !.ids = Tail(del.ids)]

\* The document is done with or refused: on to the next.
AfterHead ==
  IF Len(del.ids) = 1 THEN NoDelete
  ELSE [NoDelete EXCEPT !.pc = "check", !.ids = Tail(del.ids)]

\* delete_file, or batch_delete_files.
Ask(ids) ==
  /\ del = NoDelete
  /\ del' = [NoDelete EXCEPT !.pc = "check", !.ids = ids]
  /\ UNCHANGED <<refs, status, there, store, shows, run, runs, halts, savers, imported, disturbed>>

Deletable(f) == status[f] = "free"

\* _ensure_pg_file_deletable: a document that is being imported, or is gone, is refused,
\* and a batch goes on with the next.
Refuse ==
  /\ del.pc = "check" /\ ~Deletable(Head(del.ids))
  /\ del' = AfterHead
  /\ UNCHANGED <<refs, status, there, store, shows, run, runs, halts, savers, imported, disturbed>>

Check ==
  /\ del.pc = "check" /\ Deletable(Head(del.ids))
  /\ del' = [del EXCEPT !.pc = "collect"]
  /\ UNCHANGED <<refs, status, there, store, shows, run, runs, halts, savers, imported, disturbed>>

\* Variant: only the first picture of the rows, the storage_key of a citation.
Collect_First ==
  /\ del.pc = "collect"
  /\ del' = [del EXCEPT !.pc = "bytes",
                        !.held = LET K == shows[Head(del.ids)]
                                    IN  IF K = {} THEN {} ELSE {Min(K)}]
  /\ UNCHANGED <<refs, status, there, store, shows, run, runs, halts, savers, imported, disturbed>>

\* _collect_file_image_storage_keys.
Collect ==
  /\ del.pc = "collect"
  /\ del' = [del EXCEPT !.pc = "bytes", !.held = shows[Head(del.ids)]]
  /\ UNCHANGED <<refs, status, there, store, shows, run, runs, halts, savers, imported, disturbed>>

\* The query raises: the deletion goes on as if there were no pictures.
CollectRaises ==
  /\ del.pc = "collect" /\ Halt
  /\ del' = [del EXCEPT !.pc = "bytes"]
  /\ disturbed' = disturbed \cup {Head(del.ids)}
  /\ UNCHANGED <<refs, status, there, store, shows, run, runs, savers, imported>>

\* Variant: the bytes are kept.
UnlinkFile_Later ==
  /\ del.pc = "bytes"
  /\ del' = [del EXCEPT !.pc = "pictures"]
  /\ UNCHANGED <<refs, status, there, store, shows, run, runs, halts, savers, imported, disturbed>>

\* _delete_pg_uploaded_file: first the file,
UnlinkFile ==
  /\ del.pc = "bytes"
  /\ there' = there \ {Head(del.ids)}
  /\ del' = [del EXCEPT !.pc = "pictures"]
  /\ UNCHANGED <<refs, status, store, shows, run, runs, halts, savers, imported, disturbed>>

\* then its pictures one by one, whoever else shows them,
UnlinkPicture(k) ==
  /\ del.pc = "pictures" /\ k \in del.held
  /\ store' = store \ {k}
  /\ del' = [del EXCEPT !.held = @ \ {k}]
  /\ UNCHANGED <<refs, status, there, shows, run, runs, halts, savers, imported, disturbed>>

\* then its rows,
ClearRows ==
  /\ del.pc = "pictures" /\ del.held = {}
  /\ shows' = [shows EXCEPT ![Head(del.ids)] = {}]
  /\ del' = [del EXCEPT !.pc = "row"]
  /\ UNCHANGED <<refs, status, there, store, run, runs, halts, savers, imported, disturbed>>

\* and its row, with what rows came meanwhile.
DropRow ==
  /\ del.pc = "row"
  /\ status' = [status EXCEPT ![Head(del.ids)] = "none"]
  /\ shows' = [shows EXCEPT ![Head(del.ids)] = {}]
  /\ del' = AfterHead
  /\ UNCHANGED <<refs, there, store, run, runs, halts, savers, imported, disturbed>>

\* What raises is no BusinessError and ends a batch as well.
DeleteRaises ==
  /\ del.pc \notin {"none", "collect"} /\ Halt
  /\ del' = NoDelete
  /\ UNCHANGED <<refs, status, there, store, shows, run, runs, savers, imported, disturbed>>

\* The process dies: rows being indexed stay so.
ImagesCrash ==
  /\ Halt
  /\ run' = [f \in Documents |-> NoImport]
  /\ del' = NoDelete
  /\ disturbed' = disturbed \cup {f \in Documents : Importing(f)}
  /\ UNCHANGED <<refs, status, there, store, shows, runs, savers, imported>>

Batches == {<<f>> : f \in Documents} \cup {ids \in Documents \X Documents : ids[1] # ids[2]}

ImagesNext ==
  \/ \E f \in Documents :
       \/ \E n \in 1 .. MaxRefs :
            \E text \in [1 .. n -> Locals \cup store] : Upload(f, text)
       \/ ImportText(f) \/ KeepRef(f) \/ RepeatRef(f) \/ SaveRef(f)
       \/ ReplaceRows(f) \/ StoreRows(f) \/ ImportRaises(f)
  \/ \E ids \in Batches : Ask(ids)
  \/ Refuse \/ Check \/ Collect \/ CollectRaises \/ UnlinkFile
  \/ \E k \in Keys : UnlinkPicture(k)
  \/ ClearRows \/ DropRow \/ DeleteRaises
  \/ ImagesCrash

-----------------------------------------------------------------------------
(* Properties.                                                              *)

SavedFor(f) == {k \in 1 .. Len(savers) : savers[k] = f}

\* Every variable has its type; nothing is on disk that was not saved.
KbImagesTypeOK ==
  /\ \A f \in Documents :
       /\ Range(refs[f]) \subseteq Locals \cup Keys
       /\ status[f] \in {"none", "indexing", "free"}
       /\ shows[f] \cup run[f].names \subseteq Keys
       /\ run[f].pc \in {"none", "ingest", "store"}
       /\ run[f].saved \subseteq [ref : Locals, key : Keys]
  /\ del.pc \in {"none", "check", "collect", "bytes", "pictures", "row"}
  /\ (del.pc = "none") <=> (del.ids = <<>>)
  /\ del.held \subseteq Keys
  /\ there \subseteq Documents /\ store \subseteq 1 .. Len(savers) /\ disturbed \subseteq Documents
  /\ imported \subseteq Documents
  /\ runs \in 0 .. MaxRuns /\ halts \in 0 .. MaxHalts

\* As long as a document's bytes are there, a picture its rows show is on disk, unless
\* another document that shows or showed it has been deleted: pictures copied from an
\* answer are shared, and nobody counts who shows them (_delete_pg_uploaded_file).
PicturesAreThere ==
  \A f \in there : \A k \in shows[f] \ store :
    \E g \in Documents \ {f} :
      g \notin there /\ (savers[k] = g \/ k \in Range(refs[g]))

\* A document that was imported once, and whose import neither raised nor met its
\* deletion, leaves no picture behind once it is deleted, however often the deletion broke
\* off before (_collect_file_image_storage_keys before anything is taken away).
NoPictureLeft ==
  \A f \in Documents \ disturbed :
    refs[f] # <<>> /\ ~Exists(f) /\ ~Importing(f) => SavedFor(f) \cap store = {}

\* However often a text shows a picture, an import saves it once (key_by_ref).
SavedOnce ==
  \A f \in Documents : \A p, q \in run[f].saved : p.ref = q.ref => p = q

\* No picture is on disk that nothing needs: none twice, none of a deleted document
\* (ingest_markdown_images, _delete_pg_uploaded_file).
NoneToSpare == NoPictureLeft /\ SavedOnce
=============================================================================
