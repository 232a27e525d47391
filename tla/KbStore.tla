------------------------------ MODULE KbStore -------------------------------
(***************************************************************************)
(* Knowledge bases and the documents indexed under their names: the        *)
(* metadata file of KnowledgeBaseRepository, the upload directory and the  *)
(* legacy vector file of each name, and the searches that read all three.  *)
(*                                                                         *)
(* The metadata file is replaced as a whole and atomically, and only       *)
(* handlers write it; handlers do not interleave.  What is hard is that    *)
(* one operation is several such writes and several files: an import or a  *)
(* search, in a thread of its own, may read between two of them, and a     *)
(* crash or a raising call may end the handler there (hd).  Directory      *)
(* and vector file are named by Slug(name), which is not injective: "a b"  *)
(* and "a_b" share both.                                                   *)
(***************************************************************************)
EXTENDS Integers, FiniteSets

CONSTANTS
  Names, Slugs, Slug,   \* Slug is the function _kb_dir and _vector_store_path apply
  Models,               \* embedding models chosen at creation
  Default,              \* the one the settings name, which needs no choosing
  NoModel,              \* backend_refs without embedding_model_id
  Missing,              \* no such name, entry, directory or file
  MaxKbs, MaxDocs,      \* bounds: knowledge bases and documents ever created
  MaxFaults             \* bound: crashes and raising calls

ASSUME NamesAssumption == Slug \in [Names -> Slugs] /\ Missing \notin Names
ASSUME ModelsAssumption == Default \notin Models /\ NoModel \notin Models \cup {Default}
ASSUME BoundsAssumption == MaxKbs \in Nat /\ MaxDocs \in Nat /\ MaxFaults \in Nat

Ids == 1 .. MaxKbs
Docs == 1 .. MaxDocs

VARIABLES
  entries,   \* the metadata file: id, model and documents of each name, or Missing
  dirs,      \* the documents in each directory, or Missing
  vecs,      \* the documents each vector file has chunks of, or Missing
  hd,        \* the handler under way
  ids, docs, faults,
  srch,      \* the search under way
  chosen,    \* history: the model of each id whose creation was acknowledged, or NoModel
  gone,      \* history: ids whose deletion was acknowledged
  owner,     \* history: the id each document was indexed for
  lost,      \* history: ids whose rename ended between its two metadata writes
  torn,      \* history: slugs an interrupted handler left, or renamed from such
  shared     \* history: slugs two knowledge bases had at a time

vars == <<entries, dirs, vecs, hd, ids, docs, faults, srch, chosen, gone, owner,
          lost, torn, shared>>
diskVars == <<entries, dirs, vecs>>
counters == <<ids, docs, faults>>
histVars == <<chosen, gone, owner, lost, torn, shared>>

NoMeta == [id |-> 0, model |-> NoModel, docs |-> {}]
Idle == [pc |-> "idle", old |-> Missing, new |-> Missing, meta |-> NoMeta, doc |-> 0]
NoSearch == [pc |-> "idle", id |-> 0, name |-> Missing, model |-> NoModel, found |-> {},
             crossed |-> FALSE]

Init ==
  /\ entries = [n \in Names |-> Missing]
  /\ dirs = [s \in Slugs |-> Missing]
  /\ vecs = [s \in Slugs |-> Missing]
  /\ hd = Idle
  /\ ids = 0 /\ docs = 0 /\ faults = 0
  /\ srch = NoSearch
  /\ chosen = [i \in Ids |-> NoModel]
  /\ owner = [d \in Docs |-> 0]
  /\ gone = {} /\ lost = {} /\ torn = {} /\ shared = {}

Listed(n) == entries[n] # Missing
With(i) == {n \in Names : Listed(n) /\ entries[n].id = i}
Holding(s) == {n \in Names : Listed(n) /\ Slug[n] = s}
Contents(x) == IF x = Missing THEN {} ELSE x

\* A rename or a deletion of i begins while a search of it is under way.
CrossSearch(i) ==
  srch' = IF srch.pc # "idle" /\ srch.id = i THEN [srch EXCEPT !.crossed = TRUE] ELSE srch

\* The handler goes on to step l.
Goto(l) == hd' = [hd EXCEPT !.pc = l]

-----------------------------------------------------------------------------
(* Creation: a directory, the metadata, and the metadata again with its     *)
(* model.  A name that is listed is refused.                                *)

\* Variant: the id of the new knowledge base is not a fresh one.
CreateBegin_SameId(n, m) ==
  /\ hd.pc = "idle" /\ ~Listed(n)
  /\ ids < MaxKbs
  /\ ids' = ids
  /\ dirs' = [dirs EXCEPT ![Slug[n]] = Contents(@)]
  /\ hd' = [Idle EXCEPT !.pc = "createSave", !.old = n, !.new = n,
                        !.meta = [id |-> ids + 1, model |-> m, docs |-> {}]]
  /\ shared' = IF Holding(Slug[n]) # {} THEN shared \cup {Slug[n]} ELSE shared
  /\ UNCHANGED <<entries, vecs, docs, faults, srch, chosen, gone, owner, lost, torn>>

\* mkdir(exist_ok): a directory that is there is taken over with what it holds.
CreateBegin(n, m) ==
  /\ hd.pc = "idle" /\ ~Listed(n)
  /\ ids < MaxKbs
  /\ ids' = ids + 1
  /\ dirs' = [dirs EXCEPT ![Slug[n]] = Contents(@)]
  /\ hd' = [Idle EXCEPT !.pc = "createSave", !.old = n, !.new = n,
                        !.meta = [id |-> ids + 1, model |-> m, docs |-> {}]]
  /\ shared' = IF Holding(Slug[n]) # {} THEN shared \cup {Slug[n]} ELSE shared
  /\ UNCHANGED <<entries, vecs, docs, faults, srch, chosen, gone, owner, lost, torn>>

CreateSave ==
  /\ hd.pc = "createSave"
  /\ entries' = [entries EXCEPT ![hd.new] = [hd.meta EXCEPT !.model = NoModel]]
  /\ Goto("createModel")
  /\ UNCHANGED <<dirs, vecs, counters, srch, histVars>>

CreateModel ==
  /\ hd.pc = "createModel"
  /\ entries' = [entries EXCEPT ![hd.new] = hd.meta]
  /\ chosen' = [chosen EXCEPT ![hd.meta.id] = hd.meta.model]
  /\ hd' = Idle
  /\ UNCHANGED <<dirs, vecs, counters, srch, gone, owner, lost, torn, shared>>

-----------------------------------------------------------------------------
(* update_kb with a new name (without one it saves the entry it read).      *)

\* A listed name is refused, and so is one whose directory is there.
RenameBegin(o, n) ==
  /\ hd.pc = "idle" /\ Listed(o) /\ ~Listed(n)
  /\ IF dirs[Slug[o]] = Missing THEN dirs' = dirs
     ELSE /\ dirs[Slug[n]] = Missing
          /\ dirs' = [dirs EXCEPT ![Slug[n]] = dirs[Slug[o]], ![Slug[o]] = Missing]
  /\ hd' = [Idle EXCEPT !.pc = "renameVec", !.old = o, !.new = n, !.meta = entries[o]]
  /\ shared' = IF Holding(Slug[n]) \ {o} # {} THEN shared \cup {Slug[n]} ELSE shared
  /\ torn' = IF Slug[o] \in torn \cup shared THEN torn \cup {Slug[n]} ELSE torn
  /\ CrossSearch(entries[o].id)
  /\ UNCHANGED <<entries, vecs, counters, chosen, gone, owner, lost>>

\* The records are written under the new name, if there are any -- and the rename is
\* refused, its directory already moved, if a file has that name.
RenameVec ==
  /\ hd.pc = "renameVec"
  /\ LET o == Slug[hd.old]
         n == Slug[hd.new]
     IN \/ vecs[o] = Missing /\ Goto("renameDrop") /\ UNCHANGED <<vecs, torn>>
        \/ /\ vecs[o] # Missing /\ vecs[n] # Missing
           /\ torn' = IF n \in torn \cup shared THEN torn \cup {o} ELSE torn
           /\ hd' = Idle /\ UNCHANGED vecs
        \/ /\ vecs[o] # Missing /\ vecs[n] = Missing
           /\ vecs' = [vecs EXCEPT ![n] = vecs[o]]
           /\ Goto("renameUnlink") /\ UNCHANGED torn
  /\ UNCHANGED <<entries, dirs, counters, srch, chosen, gone, owner, lost, shared>>

\* Variant: the records stay under the old name too.
RenameUnlink_Keeps ==
  /\ hd.pc = "renameUnlink"
  /\ Goto("renameDrop")
  /\ UNCHANGED <<diskVars, counters, srch, histVars>>

RenameUnlink ==
  /\ hd.pc = "renameUnlink"
  /\ vecs' = [vecs EXCEPT ![Slug[hd.old]] = Missing]
  /\ Goto("renameDrop")
  /\ UNCHANGED <<entries, dirs, counters, srch, histVars>>

\* Variant: the old entry stays.
RenameDrop_Keeps ==
  /\ hd.pc = "renameDrop"
  /\ Goto("renameSave")
  /\ UNCHANGED <<diskVars, counters, srch, histVars>>

\* repository.delete(old_name): from here to the next write no entry has the id.
RenameDrop ==
  /\ hd.pc = "renameDrop"
  /\ entries' = [entries EXCEPT ![hd.old] = Missing]
  /\ Goto("renameSave")
  /\ UNCHANGED <<dirs, vecs, counters, srch, histVars>>

RenameSave ==
  /\ hd.pc = "renameSave"
  /\ entries' = [entries EXCEPT ![hd.new] = hd.meta]
  /\ hd' = Idle
  /\ UNCHANGED <<dirs, vecs, counters, srch, histVars>>

-----------------------------------------------------------------------------
(* delete_kb.  The rows and chunks stored under the id are not touched.     *)

\* The files of the directory, whoever's they are ...
DeleteFiles(n) ==
  /\ hd.pc = "idle" /\ Listed(n)
  /\ dirs' = [dirs EXCEPT ![Slug[n]] = IF @ = Missing THEN Missing ELSE {}]
  /\ hd' = [Idle EXCEPT !.pc = "deleteDir", !.old = n, !.new = n, !.meta = entries[n]]
  /\ CrossSearch(entries[n].id)
  /\ UNCHANGED <<entries, vecs, counters, histVars>>

DeleteDir ==
  /\ hd.pc = "deleteDir"
  /\ dirs' = [dirs EXCEPT ![Slug[hd.old]] = Missing]
  /\ Goto("deleteVec")
  /\ UNCHANGED <<entries, vecs, counters, srch, histVars>>

\* Variant: the vector file stays.
DeleteVec_Keeps ==
  /\ hd.pc = "deleteVec"
  /\ Goto("deleteEntry")
  /\ UNCHANGED <<diskVars, counters, srch, histVars>>

DeleteVec ==
  /\ hd.pc = "deleteVec"
  /\ vecs' = [vecs EXCEPT ![Slug[hd.old]] = Missing]
  /\ Goto("deleteEntry")
  /\ UNCHANGED <<entries, dirs, counters, srch, histVars>>

DeleteEntry ==
  /\ hd.pc = "deleteEntry"
  /\ entries' = [entries EXCEPT ![hd.old] = Missing]
  /\ gone' = gone \cup {hd.meta.id}
  /\ hd' = Idle
  /\ UNCHANGED <<dirs, vecs, counters, srch, chosen, owner, lost, torn, shared>>

-----------------------------------------------------------------------------
(* Documents: a file, its records, its place in the metadata.  Documents    *)
(* have different file names.                                               *)

IndexFile(n) ==
  /\ hd.pc = "idle" /\ Listed(n)
  /\ docs < MaxDocs
  /\ docs' = docs + 1
  /\ dirs' = [dirs EXCEPT ![Slug[n]] = Contents(@) \cup {docs + 1}]
  /\ hd' = [pc |-> "indexVec", old |-> n, new |-> n, meta |-> entries[n], doc |-> docs + 1]
  /\ owner' = [owner EXCEPT ![docs + 1] = entries[n].id]
  /\ UNCHANGED <<entries, vecs, ids, faults, srch, chosen, gone, lost, torn, shared>>

IndexVec ==
  /\ hd.pc = "indexVec"
  /\ vecs' = [vecs EXCEPT ![Slug[hd.old]] = Contents(@) \cup {hd.doc}]
  /\ Goto("indexSave")
  /\ UNCHANGED <<entries, dirs, counters, srch, histVars>>

IndexSave ==
  /\ hd.pc = "indexSave"
  /\ entries' = [entries EXCEPT ![hd.old] = [hd.meta EXCEPT !.docs = @ \cup {hd.doc}]]
  /\ hd' = Idle
  /\ UNCHANGED <<dirs, vecs, counters, srch, histVars>>

DropFile(n, d) ==
  /\ hd.pc = "idle" /\ Listed(n)
  /\ d \in entries[n].docs
  /\ dirs' = [dirs EXCEPT ![Slug[n]] = IF @ = Missing THEN Missing ELSE @ \ {d}]
  /\ hd' = [pc |-> "dropVec", old |-> n, new |-> n, meta |-> entries[n], doc |-> d]
  /\ UNCHANGED <<entries, vecs, counters, srch, histVars>>

\* The store writes the file back, also when there was none.
DropVec ==
  /\ hd.pc = "dropVec"
  /\ vecs' = [vecs EXCEPT ![Slug[hd.old]] = Contents(@) \ {hd.doc}]
  /\ Goto("dropSave")
  /\ UNCHANGED <<entries, dirs, counters, srch, histVars>>

DropSave ==
  /\ hd.pc = "dropSave"
  /\ entries' = [entries EXCEPT ![hd.old] = [hd.meta EXCEPT !.docs = @ \ {hd.doc}]]
  /\ hd' = Idle
  /\ UNCHANGED <<dirs, vecs, counters, srch, histVars>>

-----------------------------------------------------------------------------
(* Searches for citations, and faults.                                      *)

\* resolve_kb_embedding_config: the settings' model stands in for a missing one.
ModelOf(n) == IF entries[n].model = NoModel THEN Default ELSE entries[n].model

\* _search_kb_citations looks an id up.  No entry: it cites nothing, and an import, which
\* looks up in the same way, embeds with Default.
SearchFind(i) ==
  /\ srch.pc = "idle"
  /\ chosen[i] # NoModel /\ i \notin gone
  /\ \E n \in With(i) :
       srch' = [NoSearch EXCEPT !.pc = "found", !.id = i, !.name = n,
                  !.crossed = hd.meta.id = i /\ (hd.old # hd.new \/ hd.pc \in
                                {"deleteDir", "deleteVec", "deleteEntry"})]
  /\ UNCHANGED <<diskVars, hd, counters, histVars>>

\* search requires the name, and takes the embedding model of what has it now.
SearchRequire ==
  /\ srch.pc = "found"
  /\ srch' = IF Listed(srch.name)
               THEN [srch EXCEPT !.pc = "required", !.model = ModelOf(srch.name)]
               ELSE NoSearch
  /\ UNCHANGED <<diskVars, hd, counters, histVars>>

\* The chunks stored under the id gave no hit: the vector file of the name is searched.
SearchVectors ==
  /\ srch.pc = "required"
  /\ srch' = [srch EXCEPT !.pc = "cited", !.found = Contents(vecs[Slug[srch.name]])]
  /\ UNCHANGED <<diskVars, hd, counters, histVars>>

SearchEnd ==
  /\ srch.pc = "cited"
  /\ srch' = NoSearch
  /\ UNCHANGED <<diskVars, hd, counters, histVars>>

\* The process dies, or a call of the handler raises: nothing is undone.  The search
\* dies with the process.
Interrupted ==
  /\ hd.pc # "idle"
  /\ faults < MaxFaults
  /\ faults' = faults + 1
  /\ torn' = torn \cup {Slug[hd.old], Slug[hd.new]}
  /\ lost' = IF hd.pc = "renameSave" THEN lost \cup {hd.meta.id} ELSE lost
  /\ hd' = Idle
  /\ srch' \in {srch, NoSearch}
  /\ UNCHANGED <<diskVars, ids, docs, chosen, gone, owner, shared>>

Next ==
  \/ \E n \in Names, m \in Models : CreateBegin(n, m)
  \/ CreateSave \/ CreateModel
  \/ \E o, n \in Names : RenameBegin(o, n)
  \/ RenameVec \/ RenameUnlink \/ RenameDrop \/ RenameSave
  \/ \E n \in Names : DeleteFiles(n)
  \/ DeleteDir \/ DeleteVec \/ DeleteEntry
  \/ \E n \in Names : IndexFile(n) \/ \E d \in Docs : DropFile(n, d)
  \/ IndexVec \/ IndexSave \/ DropVec \/ DropSave
  \/ \E i \in Ids : SearchFind(i)
  \/ SearchRequire \/ SearchVectors \/ SearchEnd
  \/ Interrupted

Spec == Init /\ [][Next]_vars

-----------------------------------------------------------------------------
(* Properties.                                                              *)

Metas == [id : Ids \cup {0}, model : Models \cup {NoModel}, docs : SUBSET Docs]
\* A missing entry, directory or file is none.
ASSUME MissingAssumption ==
  (\A m \in Metas : m # Missing) /\ \A ds \in SUBSET Docs : ds # Missing

Steps == {"idle", "createSave", "createModel", "renameVec", "renameUnlink", "renameDrop",
          "renameSave", "deleteDir", "deleteVec", "deleteEntry", "indexVec", "indexSave",
          "dropVec", "dropSave"}

\* Every variable has its type; a listed knowledge base has an id that was drawn.
TypeOK ==
  /\ entries \in [Names -> Metas \cup {Missing}]
  /\ \A n \in Names : Listed(n) => entries[n].id \in 1 .. ids
  /\ dirs \in [Slugs -> {Missing} \cup SUBSET Docs]
  /\ vecs \in [Slugs -> {Missing} \cup SUBSET Docs]
  /\ hd \in [pc : Steps, old : Names \cup {Missing}, new : Names \cup {Missing},
             meta : Metas, doc : Docs \cup {0}]
  /\ hd.pc # "idle" => hd.meta.id \in 1 .. ids
  /\ ids \in 0 .. MaxKbs /\ docs \in 0 .. MaxDocs /\ faults \in 0 .. MaxFaults
  /\ srch \in [pc : {"idle", "found", "required", "cited"}, id : Ids \cup {0},
               name : Names \cup {Missing}, model : Models \cup {Default, NoModel},
               found : SUBSET Docs, crossed : BOOLEAN]
  /\ chosen \in [Ids -> Models \cup {NoModel}]
  /\ owner \in [Docs -> Ids \cup {0}]
  /\ gone \subseteq Ids /\ lost \subseteq Ids
  /\ torn \subseteq Slugs /\ shared \subseteq Slugs

\* A knowledge base whose creation was acknowledged is listed under exactly one name
\* until its deletion is acknowledged, whatever is refused, raises or crashes meanwhile;
\* the only gap is a rename between its two writes (create_kb, update_kb, delete_kb).
KbKept ==
  \A i \in Ids \ (gone \cup lost) :
    chosen[i] # NoModel /\ ~(hd.pc = "renameSave" /\ hd.meta.id = i)
      => Cardinality(With(i)) = 1

\* Under a name that no interrupted handler and no second knowledge base touched, file
\* directory and vector file hold the documents the metadata lists, and nothing at all
\* when no knowledge base has the name: one created there starts empty, and searching
\* by name finds what is listed (index_document, delete_document, _rename_kb_assets,
\* delete_kb).
StoresMatch ==
  hd.pc = "idle" =>
    \A s \in Slugs \ (torn \cup shared) :
      LET listed == UNION {entries[n].docs : n \in Holding(s)}
      IN /\ Contents(dirs[s]) = listed /\ Contents(vecs[s]) = listed
         /\ Holding(s) = {} => dirs[s] = Missing /\ vecs[s] = Missing

\* Whenever an import or a search finds a knowledge base, it reads the model chosen when
\* it was created: chunks and queries are embedded alike.  An import that finds no entry
\* embeds with Default, in the gap of a rename only (create_kb, update_kb,
\* resolve_kb_embedding_config).
OneModel ==
  \A i \in Ids : \A n \in With(i) : chosen[i] # NoModel => ModelOf(n) = chosen[i]

\* A search by id, which goes by the name from its second step on, cites only documents of
\* that knowledge base and embeds with its model -- unless a rename or a deletion of it
\* crossed the search, or the name's files are torn or shared (_search_kb_citations, search).
CitesOwn ==
  srch.pc = "cited" /\ ~srch.crossed /\ Slug[srch.name] \notin torn \cup shared
    => srch.model = chosen[srch.id] /\ \A d \in srch.found : owner[d] = srch.id

\* Whatever is renamed or deleted meanwhile, a knowledge base is searched with its own model
\* and finds its own documents (resolve_kb_embedding_config, _search_kb_citations).
FindsItsOwn == OneModel /\ CitesOwn
=============================================================================
