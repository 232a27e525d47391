-------------------------- MODULE KbStore_proofs ---------------------------
(* Theorems about KbStore and Workspace, and about MCKbStore, which runs    *)
(* them side by side.  One handler at a time writes the knowledge bases: it *)
(* finds what it read still there, so what a name's files hold follows from *)
(* how far the handler with that name in hand has come.  Many servers write *)
(* the rows of the workspace: what each is in the midst of is part of the   *)
(* invariant.                                                               *)
EXTENDS MCKbStore, FiniteSetTheorems, TLAPS

(* Types, and what the handler under way knows.                             *)

Creating == {"createSave", "createModel"}
Renaming == {"renameVec", "renameUnlink", "renameDrop", "renameSave"}
Deleting == {"deleteDir", "deleteVec", "deleteEntry"}
Indexing == {"indexVec", "indexSave"}
Dropping == {"dropVec", "dropSave"}

Handlers == [pc : Steps, old : Names \cup {Missing}, new : Names \cup {Missing},
             meta : Metas, doc : Docs \cup {0}]
Searches == [pc : {"idle", "found", "required", "cited"}, id : Ids \cup {0},
             name : Names \cup {Missing}, model : Models \cup {Default, NoModel},
             found : SUBSET Docs, crossed : BOOLEAN]

\* Between two of its writes a handler finds the entry it read still there, or the place
\* it is about to take still empty: nothing else writes the metadata.
HandlerOK ==
  \/ hd = Idle
  \/ /\ hd.pc # "idle" /\ hd.old \in Names /\ hd.new \in Names
     /\ hd.meta.docs \subseteq 1 .. docs
     /\ hd.pc \in Creating =>
          /\ hd.old = hd.new /\ hd.meta.model # NoModel /\ hd.meta.docs = {}
          /\ chosen[hd.meta.id] = NoModel
     /\ hd.pc = "createSave" => ~Listed(hd.new) /\ With(hd.meta.id) = {}
     /\ hd.pc = "createModel" => entries[hd.new] = [hd.meta EXCEPT !.model = NoModel]
     /\ hd.pc \notin Creating \cup {"renameSave"} => entries[hd.old] = hd.meta
     /\ hd.pc \in Renaming => hd.old # hd.new /\ ~Listed(hd.new)
     /\ hd.pc = "renameSave" => ~Listed(hd.old) /\ With(hd.meta.id) = {}
     /\ hd.pc \in Deleting \cup Indexing \cup Dropping => hd.old = hd.new
     /\ hd.pc \in Indexing \cup Dropping => hd.doc \in 1 .. docs
     /\ hd.pc \notin Creating => chosen[hd.meta.id] \in {NoModel, hd.meta.model}

\* A search knows what it searches.
SearchOK == srch.pc # "idle" => srch.name \in Names /\ srch.id \in Ids

\* What a directory or a vector file may hold.
Stores == {Missing} \cup SUBSET Docs

LEMMA StoreFacts ==
  /\ Missing \in Stores /\ SUBSET Docs \subseteq Stores
  /\ \A x \in Stores : Contents(x) \in SUBSET Docs
<1>1. ASSUME NEW x \in Stores PROVE Contents(x) \in SUBSET Docs
  <2>1. CASE x = Missing
    BY <2>1 DEF Contents
  <2>2. CASE x # Missing
    <3>1. Contents(x) = x /\ x \in SUBSET Docs
      BY <1>1, <2>2 DEF Contents, Stores
    <3> QED
      BY <3>1
  <2> QED
    BY <2>1, <2>2
<1> QED
  BY <1>1 DEF Stores

LEMMA KbConstants ==
  /\ Slug \in [Names -> Slugs] /\ Missing \notin Names
  /\ Default \notin Models /\ NoModel \notin Models \cup {Default}
  /\ MaxKbs \in Nat /\ MaxDocs \in Nat /\ MaxFaults \in Nat
  /\ Missing \notin Metas /\ Missing \notin SUBSET Docs
  BY NamesAssumption, ModelsAssumption, BoundsAssumption, MissingAssumption

LEMMA KbTypes ==
  TypeOK =>
    /\ entries \in [Names -> Metas \cup {Missing}]
    /\ \A n \in Names : Listed(n) =>
         entries[n] \in Metas /\ entries[n].id \in 1 .. ids /\ entries[n].id \in Ids
    /\ dirs \in [Slugs -> Stores]
    /\ vecs \in [Slugs -> Stores]
    /\ hd \in Handlers /\ srch \in Searches
    /\ hd.pc # "idle" => hd.meta.id \in 1 .. ids /\ hd.meta.id \in Ids
    /\ ids \in 0 .. MaxKbs /\ docs \in 0 .. MaxDocs
    /\ chosen \in [Ids -> Models \cup {NoModel}] /\ owner \in [Docs -> Ids \cup {0}]
<1> SUFFICES ASSUME TypeOK
             PROVE  /\ \A n \in Names : Listed(n) =>
                         entries[n] \in Metas /\ entries[n].id \in Ids
                    /\ hd.pc # "idle" => hd.meta.id \in Ids
  BY DEF TypeOK, Handlers, Searches, Stores
<1>1. \A i \in 1 .. ids : i \in Ids
  BY KbConstants, SMT DEF TypeOK, Ids
<1> QED
  BY <1>1 DEF TypeOK, Listed

\* No handler leaves the variables' types.
LEMMA KbTypeNext == TypeOK /\ HandlerOK /\ SearchOK /\ [Next]_vars => TypeOK'
<1> SUFFICES ASSUME TypeOK, HandlerOK, SearchOK, [Next]_vars PROVE TypeOK'
  OBVIOUS
<1>0. /\ NoMeta \in Metas /\ Idle \in Handlers /\ Idle.pc = "idle"
      /\ NoSearch \in Searches
  BY SMT DEF NoMeta, Metas, Idle, Handlers, Steps, NoSearch, Searches
<1> DEFINE HandlerType == hd' \in Handlers /\ (hd'.pc # "idle" => hd'.meta.id \in 1 .. ids')
           EntriesType == /\ entries' \in [Names -> Metas \cup {Missing}]
                          /\ \A n \in Names : entries'[n] # Missing => entries'[n].id \in 1 .. ids'
           DirsType == dirs' \in [Slugs -> Stores]
           VecsType == vecs' \in [Slugs -> Stores]
           CountersType == ids' \in 0 .. MaxKbs /\ docs' \in 0 .. MaxDocs /\ faults' \in 0 .. MaxFaults
           SearchType == srch' \in Searches
           HistType == /\ chosen' \in [Ids -> Models \cup {NoModel}]
                       /\ owner' \in [Docs -> Ids \cup {0}]
                       /\ gone' \subseteq Ids /\ lost' \subseteq Ids
                       /\ torn' \subseteq Slugs /\ shared' \subseteq Slugs
<1>1. /\ HandlerType /\ EntriesType /\ DirsType /\ VecsType /\ CountersType /\ SearchType
         /\ HistType => TypeOK'
  BY DEF TypeOK, Listed, Handlers, Searches, Stores
<1>2. /\ UNCHANGED <<hd, ids>> => HandlerType
      /\ UNCHANGED <<entries, ids>> => EntriesType
      /\ UNCHANGED dirs => DirsType
      /\ UNCHANGED vecs => VecsType
      /\ UNCHANGED counters => CountersType
      /\ UNCHANGED srch => SearchType
      /\ UNCHANGED histVars => HistType
  BY KbTypes DEF TypeOK, Listed, Handlers, Searches, counters, histVars
<1>3. ASSUME NEW l \in Steps, Goto(l), hd.pc # "idle", ids' = ids PROVE HandlerType
  BY <1>3 DEF TypeOK, Handlers, Goto
<1>4. hd' = Idle => HandlerType
  BY <1>0
<1>5. /\ dirs \in [Slugs -> Stores] /\ vecs \in [Slugs -> Stores] /\ Missing \in Stores
      /\ SUBSET Docs \subseteq Stores /\ \A x \in Stores : Contents(x) \in SUBSET Docs
  BY KbTypes, StoreFacts
<1>6. ASSUME NEW i \in Ids \cup {0}, CrossSearch(i) PROVE SearchType
  BY <1>6 DEF CrossSearch, TypeOK, Searches
<1>7. hd.pc # "idle" => hd.old \in Names /\ hd.new \in Names /\ Slug[hd.old] \in Slugs
                        /\ Slug[hd.new] \in Slugs
  BY KbConstants DEF HandlerOK, Idle
<1>8. \A n \in Names : Slug[n] \in Slugs
  BY KbConstants
<1> USE <1>1, <1>2
<1>10. ASSUME NEW n \in Names, NEW m \in Models, CreateBegin(n, m) PROVE TypeOK'
  <2>1. ids' = ids + 1 /\ ids' \in 0 .. MaxKbs /\ ids + 1 \in Ids /\ ids + 1 \in 1 .. ids'
    BY <1>10, KbConstants, SMT DEF CreateBegin, TypeOK, Ids
  <2>2. [id |-> ids + 1, model |-> m, docs |-> {}] \in Metas
    BY <2>1 DEF Metas
  <2>3. HandlerType
    <3>1. hd' = [pc |-> "createSave", old |-> n, new |-> n,
                 meta |-> [id |-> ids + 1, model |-> m, docs |-> {}], doc |-> 0]
      BY <1>10 DEF CreateBegin, Idle
    <3> QED
      BY <2>1, <2>2, <3>1 DEF Handlers, Steps
  <2>4. EntriesType
    BY <1>10, <2>1, SMT DEF CreateBegin, TypeOK, Listed
  <2>5. DirsType
    BY <1>5, <1>8, <1>10 DEF CreateBegin
  <2>6. CountersType /\ HistType
    BY <1>8, <1>10, <2>1 DEF CreateBegin, TypeOK
  <2> QED
    BY <1>10, <2>3, <2>4, <2>5, <2>6 DEF CreateBegin
<1>11. CASE CreateSave
  <2>1. [hd.meta EXCEPT !.model = NoModel] \in Metas
        /\ [hd.meta EXCEPT !.model = NoModel].id = hd.meta.id
    BY <1>11 DEF TypeOK, Metas
  <2>2. EntriesType
    BY <1>11, <2>1 DEF CreateSave, TypeOK, Listed, counters
  <2> QED
    BY <1>3, <1>11, <2>2 DEF CreateSave, counters, Steps
<1>12. CASE CreateModel
  <2>1. EntriesType
    BY <1>12 DEF CreateModel, TypeOK, Listed, counters
  <2>2. HistType
    <3>1. hd.meta.model \in Models \cup {NoModel}
      BY DEF TypeOK, Metas
    <3> QED
      BY <1>12, <3>1 DEF CreateModel, TypeOK
  <2> QED
    BY <1>4, <1>12, <2>1, <2>2 DEF CreateModel
<1>13. ASSUME NEW o \in Names, NEW n \in Names, RenameBegin(o, n) PROVE TypeOK'
  <2>1. entries[o] \in Metas /\ entries[o].id \in 1 .. ids /\ entries[o].id \in Ids
    BY <1>13, KbTypes DEF RenameBegin
  <2>2. HandlerType
    <3>1. hd' = [pc |-> "renameVec", old |-> o, new |-> n, meta |-> entries[o], doc |-> 0]
      BY <1>13 DEF RenameBegin, Idle
    <3> QED
      BY <1>13, <2>1, <3>1 DEF RenameBegin, Handlers, Steps, counters
  <2>3. DirsType
    BY <1>5, <1>8, <1>13 DEF RenameBegin
  <2>4. SearchType /\ HistType
    BY <1>6, <1>8, <1>13, <2>1 DEF RenameBegin, TypeOK
  <2> QED
    BY <1>13, <2>2, <2>3, <2>4 DEF RenameBegin, counters
<1>14. CASE RenameVec
  <2>1. HandlerType
    BY <1>3, <1>4, <1>14 DEF RenameVec, Steps, counters
  <2>2. VecsType
    BY <1>5, <1>7, <1>14 DEF RenameVec
  <2>3. HistType
    BY <1>7, <1>14 DEF RenameVec, TypeOK
  <2> QED
    BY <1>14, <2>1, <2>2, <2>3 DEF RenameVec, counters
<1>15. CASE RenameUnlink \/ DeleteVec
  <2>1. VecsType
    BY <1>5, <1>15 DEF RenameUnlink, DeleteVec
  <2> QED
    BY <1>3, <1>15, <2>1 DEF RenameUnlink, DeleteVec, counters, Steps
<1>16. CASE RenameDrop
  <2>1. EntriesType
    BY <1>16 DEF RenameDrop, TypeOK, Listed, counters
  <2> QED
    BY <1>3, <1>16, <2>1 DEF RenameDrop, counters, Steps
<1>17. CASE RenameSave
  <2>1. EntriesType
    BY <1>17 DEF RenameSave, TypeOK, Listed, counters
  <2> QED
    BY <1>4, <1>17, <2>1 DEF RenameSave, counters
<1>18. ASSUME NEW n \in Names, DeleteFiles(n) PROVE TypeOK'
  <2>1. entries[n] \in Metas /\ entries[n].id \in 1 .. ids /\ entries[n].id \in Ids
    BY <1>18, KbTypes DEF DeleteFiles
  <2>2. HandlerType
    <3>1. hd' = [pc |-> "deleteDir", old |-> n, new |-> n, meta |-> entries[n], doc |-> 0]
      BY <1>18 DEF DeleteFiles, Idle
    <3> QED
      BY <1>18, <2>1, <3>1 DEF DeleteFiles, Handlers, Steps, counters
  <2>3. DirsType
    BY <1>5, <1>8, <1>18 DEF DeleteFiles
  <2>4. SearchType
    BY <1>6, <1>18, <2>1 DEF DeleteFiles
  <2> QED
    BY <1>18, <2>2, <2>3, <2>4 DEF DeleteFiles, counters
<1>19. CASE DeleteDir
  <2>1. DirsType
    BY <1>5, <1>19 DEF DeleteDir
  <2> QED
    BY <1>3, <1>19, <2>1 DEF DeleteDir, counters, Steps
<1>20. CASE DeleteEntry
  <2>1. EntriesType
    BY <1>20 DEF DeleteEntry, TypeOK, Listed, counters
  <2>2. HistType
    BY <1>20, KbTypes DEF DeleteEntry, TypeOK
  <2> QED
    BY <1>4, <1>20, <2>1, <2>2 DEF DeleteEntry, counters
<1>21. ASSUME NEW n \in Names, IndexFile(n) PROVE TypeOK'
  <2>1. entries[n] \in Metas /\ entries[n].id \in 1 .. ids /\ entries[n].id \in Ids
    BY <1>21, KbTypes DEF IndexFile
  <2>2. docs' \in 0 .. MaxDocs /\ docs + 1 \in Docs
    BY <1>21, KbConstants, SMT DEF IndexFile, TypeOK, Docs
  <2>3. HandlerType
    BY <1>21, <2>1, <2>2, SMT DEF IndexFile, Handlers, Steps
  <2>4. DirsType
    BY <1>5, <1>8, <1>21, <2>2 DEF IndexFile
  <2>5. CountersType /\ HistType
    BY <1>21, <2>1, <2>2 DEF IndexFile, TypeOK
  <2> QED
    BY <1>21, <2>3, <2>4, <2>5 DEF IndexFile
<1>22. ASSUME NEW n \in Names, NEW d \in Docs, DropFile(n, d) PROVE TypeOK'
  <2>1. entries[n] \in Metas /\ entries[n].id \in 1 .. ids
    BY <1>22, KbTypes DEF DropFile
  <2>2. HandlerType
    BY <1>22, <2>1, SMT DEF DropFile, Handlers, Steps, counters
  <2>3. DirsType
    <3>1. dirs[Slug[n]] # Missing => dirs[Slug[n]] \ {d} \in Stores
      BY <1>5, <1>8 DEF Stores
    <3> QED
      BY <1>5, <1>22, <3>1 DEF DropFile
  <2> QED
    BY <1>22, <2>2, <2>3 DEF DropFile, counters
<1>23. CASE IndexVec \/ DropVec
  <2>1. hd.doc \in Docs
    <3>1. hd.doc \in 1 .. docs
      BY <1>23 DEF HandlerOK, IndexVec, DropVec, Idle, Indexing, Dropping
    <3> QED
      BY <3>1, KbConstants, SMT DEF TypeOK, Docs
  <2>2. VecsType
    BY <1>5, <1>7, <1>23, <2>1 DEF IndexVec, DropVec
  <2> QED
    BY <1>3, <1>23, <2>2 DEF IndexVec, DropVec, counters, Steps
<1>24. CASE IndexSave \/ DropSave
  <2>1. hd.doc \in Docs
    <3>1. hd.doc \in 1 .. docs
      BY <1>24 DEF HandlerOK, IndexSave, DropSave, Idle, Indexing, Dropping
    <3> QED
      BY <3>1, KbConstants, SMT DEF TypeOK, Docs
  <2>2. /\ [hd.meta EXCEPT !.docs = @ \cup {hd.doc}] \in Metas
        /\ [hd.meta EXCEPT !.docs = @ \cup {hd.doc}].id = hd.meta.id
        /\ [hd.meta EXCEPT !.docs = @ \ {hd.doc}] \in Metas
        /\ [hd.meta EXCEPT !.docs = @ \ {hd.doc}].id = hd.meta.id
    BY <2>1 DEF TypeOK, Metas
  <2>3. EntriesType
    <3>1. PICK x \in Metas : entries' = [entries EXCEPT ![hd.old] = x] /\ x.id = hd.meta.id
      BY <1>24, <2>2 DEF IndexSave, DropSave
    <3> QED
      BY <1>24, <3>1 DEF IndexSave, DropSave, TypeOK, Listed, counters
  <2> QED
    BY <1>4, <1>24, <2>3 DEF IndexSave, DropSave, counters
<1>25. CASE (\E i \in Ids : SearchFind(i)) \/ SearchRequire \/ SearchVectors \/ SearchEnd
  <2>1. SearchType
    <3>1. ASSUME NEW i \in Ids, SearchFind(i) PROVE SearchType
      <4> DEFINE x == hd.meta.id = i /\ (hd.old # hd.new \/ hd.pc \in
                        {"deleteDir", "deleteVec", "deleteEntry"})
      <4>1. x \in BOOLEAN
        OBVIOUS
      <4> HIDE DEF x
      <4>2. PICK n \in Names : srch' = [NoSearch EXCEPT !.pc = "found", !.id = i, !.name = n,
                                                       !.crossed = x]
        BY <3>1 DEF SearchFind, With, x
      <4>3. srch' = [pc |-> "found", id |-> i, name |-> n, model |-> NoModel, found |-> {},
                     crossed |-> x]
        BY <4>2 DEF NoSearch
      <4> QED
        BY <4>1, <4>3 DEF Searches
    <3>2. CASE SearchRequire
      <4>1. Listed(srch.name) => ModelOf(srch.name) \in Models \cup {Default, NoModel}
        BY <3>2, KbTypes DEF ModelOf, SearchRequire, SearchOK, Metas
      <4>2. srch \in Searches
        BY KbTypes
      <4> QED
        BY <1>0, <3>2, <4>1, <4>2 DEF SearchRequire, Searches
    <3>3. CASE SearchVectors
      <4>1. Contents(vecs[Slug[srch.name]]) \in SUBSET Docs
        BY <1>5, <1>8, <3>3 DEF SearchOK, SearchVectors
      <4> QED
        BY <3>3, <4>1 DEF SearchVectors, TypeOK, Searches
    <3>4. CASE SearchEnd
      BY <1>0, <3>4 DEF SearchEnd
    <3> QED
      BY <1>25, <3>1, <3>2, <3>3, <3>4
  <2> QED
    BY <1>25, <2>1 DEF SearchFind, SearchRequire, SearchVectors, SearchEnd, diskVars, counters
<1>26. CASE Interrupted
  <2>1. CountersType
    BY <1>26, KbConstants, SMT DEF Interrupted, TypeOK
  <2>2. SearchType
    BY <1>0, <1>26 DEF Interrupted, TypeOK, Searches
  <2>3. HistType
    BY <1>7, <1>26, KbTypes DEF Interrupted, TypeOK
  <2> QED
    BY <1>4, <1>26, <2>1, <2>2, <2>3 DEF Interrupted, diskVars
<1>27. CASE UNCHANGED vars
  BY <1>27 DEF vars, counters, histVars
<1> QED
  BY <1>10, <1>11, <1>12, <1>13, <1>14, <1>15, <1>16, <1>17, <1>18, <1>19, <1>20, <1>21,
     <1>22, <1>23, <1>24, <1>25, <1>26, <1>27 DEF Next

-----------------------------------------------------------------------------
(* Names, ids and models.                                                   *)

\* No two entries have one id;
OneName ==
  \A n, m \in Names : Listed(n) /\ Listed(m) /\ entries[n].id = entries[m].id => n = m
\* an entry has the model that was chosen for its id, once the creation is acknowledged;
ModelKept == \A n \in Names : Listed(n) => chosen[entries[n].id] \in {NoModel, entries[n].model}
\* an id not drawn yet has none;
Undrawn == \A i \in Ids : i > ids => chosen[i] = NoModel
\* documents are drawn upwards too;
DocsDrawn == \A n \in Names : Listed(n) => entries[n].docs \subseteq 1 .. docs
\* and an id whose creation is acknowledged is listed but in the gap of a rename.
StillListed ==
  \A i \in Ids \ (gone \cup lost) :
    chosen[i] # NoModel /\ ~(hd.pc = "renameSave" /\ hd.meta.id = i) => With(i) # {}

KbInv == HandlerOK /\ SearchOK /\ OneName /\ ModelKept /\ Undrawn /\ DocsDrawn
         /\ StillListed

LEMMA SearchNext ==
  ASSUME TypeOK, SearchOK, [Next]_vars
  PROVE  SearchOK'
<1>1. \A i \in Ids : SearchFind(i) => SearchOK'
  BY DEF SearchFind, With, NoSearch, SearchOK
<1>2. SearchRequire \/ SearchVectors \/ SearchEnd => SearchOK'
  <2>1. srch \in Searches
    BY KbTypes
  <2>2. SearchRequire => SearchOK'
    BY <2>1 DEF SearchRequire, Searches, NoSearch, SearchOK
  <2>3. SearchVectors => SearchOK'
    BY <2>1 DEF SearchVectors, Searches, SearchOK
  <2>4. SearchEnd => SearchOK'
    BY DEF SearchEnd, NoSearch, SearchOK
  <2> QED
    BY <2>2, <2>3, <2>4
<1>3. Interrupted => SearchOK'
  BY DEF Interrupted, NoSearch, SearchOK
<1>4. \A i : CrossSearch(i) => SearchOK'
  BY KbTypes DEF CrossSearch, Searches, SearchOK
<1>5. UNCHANGED srch => SearchOK'
  BY DEF SearchOK
<1> QED
  BY <1>1, <1>2, <1>3, <1>4, <1>5
     DEF Next, vars, CreateBegin, CreateSave, CreateModel, RenameBegin, RenameVec, RenameUnlink,
         RenameDrop, RenameSave, DeleteFiles, DeleteDir, DeleteVec, DeleteEntry, IndexFile,
         DropFile, IndexVec, IndexSave, DropVec, DropSave

\* What a handler that begins reads is what the metadata say, and a new id is of none.
LEMMA BeginKeeps ==
  ASSUME TypeOK, KbInv, hd.pc = "idle", UNCHANGED <<entries, chosen, gone, lost>>,
         ids' \in {ids, ids + 1}, docs' \in {docs, docs + 1}, hd'.pc # "renameSave", HandlerOK', SearchOK'
  PROVE  KbInv'
<1>1. Undrawn'
  BY SMT DEF KbInv, Undrawn, TypeOK, Ids
<1>4. DocsDrawn'
  <2>1. 1 .. docs \subseteq 1 .. docs'
    BY SMT DEF TypeOK
  <2> QED
    BY <2>1 DEF KbInv, DocsDrawn, Listed
<1>2. OneName' /\ ModelKept'
  BY DEF KbInv, OneName, ModelKept, Listed
<1>3. StillListed'
  BY DEF KbInv, StillListed, With, Listed
<1> QED
  BY <1>1, <1>2, <1>3, <1>4 DEF KbInv

LEMMA KbBegin ==
  ASSUME TypeOK, KbInv, SearchOK',
         \/ \E n \in Names, m \in Models : CreateBegin(n, m)
         \/ \E o, n \in Names : RenameBegin(o, n)
         \/ \E n \in Names : DeleteFiles(n) \/ IndexFile(n) \/ \E d \in Docs : DropFile(n, d)
  PROVE  KbInv'
<1>0. ids \in Nat /\ docs \in Nat
  BY SMT DEF TypeOK
<1>1. ASSUME NEW n \in Names, NEW m \in Models, CreateBegin(n, m) PROVE KbInv'
  <2>1. hd' = [pc |-> "createSave", old |-> n, new |-> n,
               meta |-> [id |-> ids + 1, model |-> m, docs |-> {}], doc |-> 0]
    BY <1>1 DEF CreateBegin, Idle
  <2>2. ids + 1 \in Ids /\ ids + 1 > ids
    <3>1. ids < MaxKbs
      BY <1>1 DEF CreateBegin
    <3> QED
      BY <1>0, <3>1, KbConstants, SMT DEF Ids
  <2>3. chosen[ids + 1] = NoModel
    BY <2>2 DEF KbInv, Undrawn
  <2>4. With(ids + 1) = {}
    <3>1. \A k \in Names : Listed(k) => entries[k].id # ids + 1
      BY <1>0, SMT DEF TypeOK
    <3> QED
      BY <3>1 DEF With
  <2>5. m # NoModel
    BY KbConstants
  <2>8. /\ hd'.pc = "createSave" /\ hd'.old = n /\ hd'.new = n /\ hd'.meta.id = ids + 1
        /\ hd'.meta.model = m /\ hd'.meta.docs = {}
    BY <2>1
  <2>9. With(hd.meta.id)' = {} /\ ~Listed(hd.new)'
    BY <1>1, <2>4, <2>8 DEF CreateBegin, With, Listed
  <2>6. HandlerOK'
    BY <1>1, <2>3, <2>5, <2>8, <2>9
       DEF CreateBegin, HandlerOK, Creating, Renaming, Deleting, Indexing, Dropping, Listed, With
  <2>7. ids' \in {ids, ids + 1} /\ docs' \in {docs, docs + 1}
    BY <1>1 DEF CreateBegin
  <2> QED
    BY <1>1, <2>1, <2>6, <2>7, BeginKeeps DEF CreateBegin
<1>2. ASSUME NEW o \in Names, NEW n \in Names, RenameBegin(o, n) PROVE KbInv'
  <2>1. hd' = [pc |-> "renameVec", old |-> o, new |-> n, meta |-> entries[o], doc |-> 0]
    BY <1>2 DEF RenameBegin, Idle
  <2>2. chosen[entries[o].id] \in {NoModel, entries[o].model} /\ entries[o].docs \subseteq 1 .. docs
    BY <1>2 DEF KbInv, ModelKept, DocsDrawn, RenameBegin
  <2>8. /\ hd'.pc = "renameVec" /\ hd'.old = o /\ hd'.new = n /\ hd'.meta = entries[o]
        /\ o # n /\ entries' = entries /\ ~Listed(n)' /\ chosen' = chosen /\ docs' = docs
    BY <1>2, <2>1 DEF RenameBegin, Listed, counters
  <2>3. HandlerOK'
    BY <2>2, <2>8
       DEF HandlerOK, Creating, Renaming, Deleting, Indexing, Dropping, Listed, counters
  <2>4. ids' \in {ids, ids + 1} /\ docs' \in {docs, docs + 1}
    BY <1>2 DEF RenameBegin, counters
  <2> QED
    BY <1>2, <2>1, <2>3, <2>4, BeginKeeps DEF RenameBegin, counters
<1>3. ASSUME NEW n \in Names, DeleteFiles(n) PROVE KbInv'
  <2>1. hd' = [pc |-> "deleteDir", old |-> n, new |-> n, meta |-> entries[n], doc |-> 0]
    BY <1>3 DEF DeleteFiles, Idle
  <2>2. chosen[entries[n].id] \in {NoModel, entries[n].model} /\ entries[n].docs \subseteq 1 .. docs
    BY <1>3 DEF KbInv, ModelKept, DocsDrawn, DeleteFiles
  <2>3. HandlerOK'
    BY <1>3, <2>1, <2>2
       DEF DeleteFiles, HandlerOK, Creating, Renaming, Deleting, Indexing, Dropping, Listed,
           counters, histVars
  <2>4. ids' \in {ids, ids + 1} /\ docs' \in {docs, docs + 1}
    BY <1>3 DEF DeleteFiles, counters
  <2> QED
    BY <1>3, <2>1, <2>3, <2>4, BeginKeeps DEF DeleteFiles, histVars
<1>4. ASSUME NEW n \in Names, IndexFile(n) PROVE KbInv'
  <2>1. hd' = [pc |-> "indexVec", old |-> n, new |-> n, meta |-> entries[n], doc |-> docs + 1]
    BY <1>4 DEF IndexFile
  <2>5. entries[n].docs \subseteq 1 .. docs'
    BY <1>0, <1>4, SMT DEF KbInv, DocsDrawn, IndexFile
  <2>2. chosen[entries[n].id] \in {NoModel, entries[n].model}
    BY <1>4 DEF KbInv, ModelKept, IndexFile
  <2>3. docs + 1 \in 1 .. docs'
    BY <1>0, <1>4, SMT DEF IndexFile
  <2>4. HandlerOK'
    BY <1>4, <2>1, <2>2, <2>3, <2>5
       DEF IndexFile, HandlerOK, Creating, Renaming, Deleting, Indexing, Dropping, Listed
  <2>6. ids' \in {ids, ids + 1} /\ docs' \in {docs, docs + 1}
    BY <1>4 DEF IndexFile
  <2> QED
    BY <1>4, <2>1, <2>4, <2>6, BeginKeeps DEF IndexFile
<1>5. ASSUME NEW n \in Names, NEW d \in Docs, DropFile(n, d) PROVE KbInv'
  <2>1. hd' = [pc |-> "dropVec", old |-> n, new |-> n, meta |-> entries[n], doc |-> d]
    BY <1>5 DEF DropFile
  <2>2. chosen[entries[n].id] \in {NoModel, entries[n].model} /\ entries[n].docs \subseteq 1 .. docs
    BY <1>5 DEF KbInv, ModelKept, DocsDrawn, DropFile
  <2>3. HandlerOK'
    BY <1>5, <2>1, <2>2
       DEF DropFile, HandlerOK, Creating, Renaming, Deleting, Indexing, Dropping, Listed, counters,
           histVars
  <2>4. ids' \in {ids, ids + 1} /\ docs' \in {docs, docs + 1}
    BY <1>5 DEF DropFile, counters
  <2> QED
    BY <1>5, <2>1, <2>3, <2>4, BeginKeeps DEF DropFile, histVars
<1> QED
  BY <1>1, <1>2, <1>3, <1>4, <1>5

\* Steps that write no metadata: the handler goes on, or ends.
LEMMA KbMove ==
  ASSUME TypeOK, KbInv, SearchOK', UNCHANGED <<entries, chosen, gone, ids, docs>>,
         lost \subseteq lost', hd.pc = "renameSave" => hd.meta.id \in lost',
         hd.pc # "idle",
         \/ hd' = Idle
         \/ \E l \in Steps :
              /\ Goto(l) /\ hd.pc # "renameSave"
              /\ \E S \in {Renaming \ {"renameSave"}, Deleting, Indexing, Dropping} :
                   hd.pc \in S /\ l \in S
  PROVE  KbInv'
<1>1. HandlerOK'
  <2>1. CASE hd' = Idle
    BY <2>1 DEF HandlerOK
  <2>2. ASSUME NEW l \in Steps, Goto(l),
               NEW S \in {Renaming \ {"renameSave"}, Deleting, Indexing, Dropping},
               hd.pc \in S, l \in S
        PROVE  HandlerOK'
    <3>1. /\ hd'.pc = l /\ hd'.old = hd.old /\ hd'.new = hd.new /\ hd'.meta = hd.meta
          /\ hd'.doc = hd.doc
      BY <2>2, KbTypes DEF Goto, Handlers
    <3>2. HandlerOK /\ hd # Idle
      BY DEF KbInv, Idle
    <3>3. hd.pc \notin Creating \cup {"renameSave"} /\ l \notin Creating \cup {"renameSave", "idle"}
      BY <2>2 DEF Creating, Renaming, Deleting, Indexing, Dropping
    <3>4. /\ l \in Renaming => hd.pc \in Renaming
          /\ l \in Deleting \cup Indexing \cup Dropping => hd.pc \in Deleting \cup Indexing \cup Dropping
          /\ l \in Indexing \cup Dropping => hd.pc \in Indexing \cup Dropping
          /\ l # "createModel" /\ l # "createSave"
      BY <2>2 DEF Creating, Renaming, Deleting, Indexing, Dropping
    <3> QED
      BY <3>1, <3>2, <3>3, <3>4 DEF HandlerOK, Listed
  <2> QED
    BY <2>1, <2>2
<1>2. OneName' /\ ModelKept' /\ Undrawn' /\ DocsDrawn'
  BY DEF KbInv, OneName, ModelKept, Undrawn, DocsDrawn, Listed
<1>3. StillListed'
  BY DEF KbInv, StillListed, With, Listed
<1> QED
  BY <1>1, <1>2, <1>3 DEF KbInv

\* What becomes of the ids when one entry is written.
LEMMA WithAfter ==
  ASSUME TypeOK, NEW n \in Names, NEW x, x \in Metas \/ x = Missing,
         entries' = [entries EXCEPT ![n] = x]
  PROVE  /\ \A k \in Names \ {n} : entries'[k] = entries[k]
         /\ entries'[n] = x /\ (Listed(n)' <=> x # Missing)
         /\ \A k \in Names \ {n} : Listed(k)' <=> Listed(k)
         /\ \A i : With(i)' = (With(i) \ {n}) \cup (IF x # Missing /\ x.id = i THEN {n} ELSE {})
  BY KbTypes DEF Listed, With

\* A handler that writes an entry, or drops one, keeps what the others rely on.
LEMMA KbWrite ==
  ASSUME TypeOK, KbInv, SearchOK', HandlerOK', ids' = ids, docs' = docs, lost' = lost,
         gone \subseteq gone', NEW n \in Names, NEW x, x \in Metas \/ x = Missing,
         entries' = [entries EXCEPT ![n] = x],
         x # Missing => /\ x.docs \subseteq 1 .. docs /\ x.id \in 1 .. ids
                        /\ chosen'[x.id] \in {NoModel, x.model}
                        /\ \A k \in Names \ {n} : Listed(k) => entries[k].id # x.id,
         \A i \in Ids : chosen'[i] = chosen[i] \/ (x # Missing /\ x.id = i),
         Listed(n) => \/ entries[n].id \in gone'
                      \/ x # Missing /\ x.id = entries[n].id
                      \/ hd'.pc = "renameSave" /\ hd'.meta.id = entries[n].id,
         hd.pc = "renameSave" => x # Missing /\ x.id = hd.meta.id
  PROVE  KbInv'
<1>1. /\ \A k \in Names \ {n} : entries'[k] = entries[k] /\ (Listed(k)' <=> Listed(k))
      /\ entries'[n] = x /\ (Listed(n)' <=> x # Missing)
  BY WithAfter
<1>2. OneName'
  BY <1>1 DEF KbInv, OneName
<1>3. ModelKept'
  <2>1. ASSUME NEW k \in Names, k # n, Listed(k) PROVE chosen'[entries[k].id] \in {NoModel, entries[k].model}
    <3>1. chosen'[entries[k].id] = chosen[entries[k].id]
      BY <2>1, KbTypes
    <3> QED
      BY <2>1, <3>1 DEF KbInv, ModelKept
  <2> QED
    BY <1>1, <2>1 DEF ModelKept
<1>4. Undrawn'
  <2>1. x # Missing => \A i \in Ids : i > ids => i # x.id
    BY SMT DEF TypeOK, Ids
  <2> QED
    BY <2>1 DEF KbInv, Undrawn
<1>5. DocsDrawn'
  BY <1>1 DEF KbInv, DocsDrawn
<1>6. StillListed'
  <2> SUFFICES ASSUME NEW i \in Ids, i \notin gone', i \notin lost', chosen'[i] # NoModel,
                      ~(hd'.pc = "renameSave" /\ hd'.meta.id = i)
               PROVE  With(i)' # {}
    BY DEF StillListed
  <2>1. x # Missing /\ x.id = i => n \in With(i)'
    BY <1>1 DEF With
  <2>2. ASSUME ~(x # Missing /\ x.id = i) PROVE With(i)' # {}
    <3>1. chosen[i] # NoModel /\ ~(hd.pc = "renameSave" /\ hd.meta.id = i)
          /\ i \notin gone /\ i \notin lost
      BY <2>2
    <3>2. PICK m \in Names : Listed(m) /\ entries[m].id = i
      BY <3>1 DEF KbInv, StillListed, With
    <3>3. m # n
      BY <2>2, <3>2
    <3> QED
      BY <1>1, <3>2, <3>3 DEF With
  <2> QED
    BY <2>1, <2>2
<1> QED
  BY <1>2, <1>3, <1>4, <1>5, <1>6 DEF KbInv

LEMMA KbCreate ==
  ASSUME TypeOK, KbInv, SearchOK', CreateSave \/ CreateModel
  PROVE  KbInv'
<1>1. /\ hd.pc \in Creating /\ hd.new \in Names /\ hd.old = hd.new /\ hd.meta.id \in 1 .. ids
      /\ hd.meta \in Metas /\ hd.meta.model # NoModel /\ hd.meta.docs = {}
      /\ chosen[hd.meta.id] = NoModel /\ hd.meta.id \in Ids
      /\ UNCHANGED <<ids, docs, gone, lost>>
  <2>1. hd.pc \in Creating /\ UNCHANGED <<ids, docs, gone, lost>>
    BY DEF CreateSave, CreateModel, Creating, counters, histVars
  <2> QED
    BY <2>1, KbTypes DEF KbInv, HandlerOK, Idle, Creating, Handlers
<1>2. \A k \in Names \ {hd.new} : Listed(k) => entries[k].id # hd.meta.id
  <2>1. CASE hd.pc = "createSave"
    BY <2>1 DEF KbInv, HandlerOK, Idle, With, Creating
  <2>2. CASE hd.pc = "createModel"
    <3>1. entries[hd.new] = [hd.meta EXCEPT !.model = NoModel]
      BY <2>2 DEF KbInv, HandlerOK, Idle, Creating
    <3>2. Listed(hd.new) /\ entries[hd.new].id = hd.meta.id
      BY <1>1, <3>1, KbConstants DEF Listed, Metas
    <3> QED
      BY <1>1, <3>2 DEF KbInv, OneName
  <2> QED
    BY <1>1, <2>1, <2>2 DEF Creating
<1>3. CASE CreateSave
  <2> DEFINE x == [hd.meta EXCEPT !.model = NoModel]
  <2>1. x \in Metas /\ x # Missing /\ x.id = hd.meta.id /\ x.docs = {}
    BY <1>1, KbConstants DEF Metas
  <2>2. entries' = [entries EXCEPT ![hd.new] = x] /\ hd.pc = "createSave"
        /\ hd' = [hd EXCEPT !.pc = "createModel"] /\ UNCHANGED <<chosen, gone>>
    BY <1>3 DEF CreateSave, Goto, histVars
  <2>3. /\ hd'.pc = "createModel" /\ hd'.old = hd.old /\ hd'.new = hd.new /\ hd'.meta = hd.meta
        /\ hd'.doc = hd.doc
    BY <2>2, KbTypes DEF Handlers
  <2>4. entries'[hd.new] = x
    BY <1>1, <2>2, KbTypes
  <2>5. HandlerOK'
    BY <1>1, <2>2, <2>3, <2>4 DEF HandlerOK, Creating, Renaming, Deleting, Indexing, Dropping
  <2>6. ~Listed(hd.new)
    BY <2>2 DEF KbInv, HandlerOK, Idle
  <2> HIDE DEF x
  <2> QED
    BY <1>1, <1>2, <2>1, <2>2, <2>5, <2>6, KbWrite
<1>4. CASE CreateModel
  <2>1. entries' = [entries EXCEPT ![hd.new] = hd.meta] /\ hd.pc = "createModel" /\ hd' = Idle
        /\ chosen' = [chosen EXCEPT ![hd.meta.id] = hd.meta.model] /\ gone' = gone
    BY <1>4 DEF CreateModel
  <2>2. HandlerOK'
    BY <2>1 DEF HandlerOK
  <2>3. entries[hd.new].id = hd.meta.id
    BY <1>1, <2>1 DEF KbInv, HandlerOK, Idle, Creating, Metas
  <2>4. chosen'[hd.meta.id] = hd.meta.model /\ \A i \in Ids : i # hd.meta.id => chosen'[i] = chosen[i]
    BY <1>1, <2>1, KbTypes
  <2>5. hd.meta # Missing /\ \A i \in Ids : chosen'[i] = chosen[i] \/ hd.meta.id = i
    BY <1>1, <2>4, KbConstants
  <2>6. /\ hd.meta.docs \subseteq 1 .. docs /\ hd.meta.id \in 1 .. ids
        /\ chosen'[hd.meta.id] \in {NoModel, hd.meta.model} /\ hd.pc # "renameSave"
        /\ gone \subseteq gone' /\ UNCHANGED <<ids, docs, lost>>
    BY <1>1, <2>1, <2>4
  <2> QED
    BY <1>1, <1>2, <2>1, <2>2, <2>3, <2>5, <2>6, KbWrite
<1> QED
  BY <1>3, <1>4

LEMMA KbRename ==
  ASSUME TypeOK, KbInv, SearchOK', RenameDrop \/ RenameSave
  PROVE  KbInv'
<1>1. /\ hd.old \in Names /\ hd.new \in Names /\ hd.old # hd.new /\ hd.meta.id \in 1 .. ids
      /\ hd.meta \in Metas /\ hd.meta # Missing /\ hd.meta.docs \subseteq 1 .. docs
      /\ chosen[hd.meta.id] \in {NoModel, hd.meta.model} /\ ~Listed(hd.new)
      /\ UNCHANGED <<ids, docs, chosen, gone, lost>>
  <2>1. hd.pc \in {"renameDrop", "renameSave"} /\ UNCHANGED <<ids, docs, chosen, gone, lost>>
    BY DEF RenameDrop, RenameSave, counters, histVars
  <2> QED
    BY <2>1, KbTypes, KbConstants DEF KbInv, HandlerOK, Idle, Creating, Renaming, Handlers
<1>2. CASE RenameDrop
  <2>1. entries' = [entries EXCEPT ![hd.old] = Missing] /\ hd.pc = "renameDrop"
        /\ hd' = [hd EXCEPT !.pc = "renameSave"]
    BY <1>2 DEF RenameDrop, Goto
  <2>2. /\ hd'.pc = "renameSave" /\ hd'.old = hd.old /\ hd'.new = hd.new /\ hd'.meta = hd.meta
        /\ hd'.doc = hd.doc
    BY <2>1, KbTypes DEF Handlers
  <2>3. entries[hd.old] = hd.meta
    BY <2>1 DEF KbInv, HandlerOK, Idle, Creating
  <2>4. With(hd.meta.id)' = {} /\ ~Listed(hd.old)' /\ ~Listed(hd.new)'
    <3>1. /\ \A k \in Names \ {hd.old} : entries'[k] = entries[k] /\ (Listed(k)' <=> Listed(k))
          /\ ~Listed(hd.old)'
      BY <1>1, <2>1, KbTypes DEF Listed
    <3>2. \A k \in Names \ {hd.old} : Listed(k) => entries[k].id # hd.meta.id
      BY <1>1, <2>3 DEF KbInv, OneName, Listed
    <3> QED
      BY <1>1, <2>2, <3>1, <3>2 DEF With
  <2>5. HandlerOK'
    BY <1>1, <2>2, <2>4 DEF HandlerOK, Creating, Renaming, Deleting, Indexing, Dropping, With, Listed
  <2> QED
    BY <1>1, <2>1, <2>2, <2>3, <2>5, KbWrite
<1>3. CASE RenameSave
  <2>1. entries' = [entries EXCEPT ![hd.new] = hd.meta] /\ hd.pc = "renameSave" /\ hd' = Idle
    BY <1>3 DEF RenameSave
  <2>2. HandlerOK'
    BY <2>1 DEF HandlerOK
  <2>3. \A k \in Names : Listed(k) => entries[k].id # hd.meta.id
    BY <2>1 DEF KbInv, HandlerOK, Idle, With
  <2> QED
    BY <1>1, <2>1, <2>2, <2>3, KbWrite
<1> QED
  BY <1>2, <1>3

LEMMA KbSave ==
  ASSUME TypeOK, KbInv, SearchOK', DeleteEntry \/ IndexSave \/ DropSave
  PROVE  KbInv'
<1>1. /\ hd.old \in Names /\ hd.meta.id \in 1 .. ids /\ hd.meta.id \in Ids
      /\ hd.meta \in Metas /\ hd.meta # Missing /\ hd.meta.docs \subseteq 1 .. docs
      /\ chosen[hd.meta.id] \in {NoModel, hd.meta.model} /\ entries[hd.old] = hd.meta
      /\ hd' = Idle /\ hd.pc # "renameSave"
      /\ UNCHANGED <<ids, docs, chosen, lost>> /\ gone \subseteq gone'
  <2>1. /\ hd.pc \in {"deleteEntry", "indexSave", "dropSave"} /\ UNCHANGED <<ids, docs, chosen, lost>>
        /\ hd' = Idle /\ gone \subseteq gone'
    BY DEF DeleteEntry, IndexSave, DropSave, counters, histVars
  <2> QED
    BY <2>1, KbTypes, KbConstants
       DEF KbInv, HandlerOK, Idle, Creating, Handlers
<1>2. HandlerOK'
  BY <1>1 DEF HandlerOK
<1>3. \A k \in Names \ {hd.old} : Listed(k) => entries[k].id # hd.meta.id
  BY <1>1 DEF KbInv, OneName, Listed
<1>4. CASE DeleteEntry
  <2>1. entries' = [entries EXCEPT ![hd.old] = Missing] /\ hd.meta.id \in gone'
    BY <1>4 DEF DeleteEntry
  <2> QED
    BY <1>1, <1>2, <2>1, KbWrite
<1>5. CASE IndexSave \/ DropSave
  <2>1. hd.doc \in 1 .. docs /\ 1 .. docs \subseteq Docs
    <3>1. hd.doc \in 1 .. docs
      BY <1>5 DEF KbInv, HandlerOK, Idle, IndexSave, DropSave, Indexing, Dropping
    <3> QED
      BY <3>1, KbConstants, SMT DEF TypeOK, Docs
  <2>2. PICK x \in Metas : /\ entries' = [entries EXCEPT ![hd.old] = x] /\ x.id = hd.meta.id
                           /\ x.model = hd.meta.model /\ x.docs \subseteq 1 .. docs
    <3> DEFINE y == [hd.meta EXCEPT !.docs = @ \cup {hd.doc}]
               z == [hd.meta EXCEPT !.docs = @ \ {hd.doc}]
    <3>1. y \in Metas /\ y.id = hd.meta.id /\ y.model = hd.meta.model /\ y.docs \subseteq 1 .. docs
      BY <1>1, <2>1 DEF Metas
    <3>2. z \in Metas /\ z.id = hd.meta.id /\ z.model = hd.meta.model /\ z.docs \subseteq 1 .. docs
      BY <1>1, <2>1 DEF Metas
    <3>3. entries' = [entries EXCEPT ![hd.old] = y] \/ entries' = [entries EXCEPT ![hd.old] = z]
      BY <1>5 DEF IndexSave, DropSave
    <3> HIDE DEF y, z
    <3> QED
      BY <3>1, <3>2, <3>3
  <2>3. x # Missing
    BY KbConstants
  <2> QED
    BY <1>1, <1>2, <1>3, <2>2, <2>3, KbWrite
<1> QED
  BY <1>4, <1>5

\* Init holds of no knowledge base, and every step keeps the rest.
LEMMA KbInit == Init => TypeOK /\ KbInv
<1> SUFFICES ASSUME Init PROVE TypeOK /\ KbInv
  OBVIOUS
<1>1. hd = Idle /\ srch = NoSearch /\ \A n \in Names : ~Listed(n)
  BY DEF Init, Listed
<1>2. TypeOK
  <2>1. /\ entries \in [Names -> Metas \cup {Missing}] /\ dirs \in [Slugs -> {Missing} \cup SUBSET Docs]
        /\ vecs \in [Slugs -> {Missing} \cup SUBSET Docs]
        /\ chosen \in [Ids -> Models \cup {NoModel}] /\ owner \in [Docs -> Ids \cup {0}]
        /\ gone \subseteq Ids /\ lost \subseteq Ids /\ torn \subseteq Slugs /\ shared \subseteq Slugs
    BY DEF Init
  <2>2. ids \in 0 .. MaxKbs /\ docs \in 0 .. MaxDocs /\ faults \in 0 .. MaxFaults
    BY KbConstants, SMT DEF Init
  <2>3. NoMeta \in Metas
    BY DEF NoMeta, Metas
  <2>4. hd \in Handlers /\ hd.pc = "idle"
    BY <1>1, <2>3 DEF Idle, Handlers, Steps
  <2>5. srch \in Searches
    BY <1>1 DEF NoSearch, Searches
  <2> QED
    BY <1>1, <2>1, <2>2, <2>4, <2>5 DEF TypeOK, Handlers, Searches
<1>3. HandlerOK /\ SearchOK
  BY <1>1 DEF HandlerOK, SearchOK, NoSearch
<1>4. OneName /\ ModelKept /\ DocsDrawn
  BY <1>1 DEF OneName, ModelKept, DocsDrawn
<1>5. Undrawn /\ StillListed
  BY DEF Init, Undrawn, StillListed
<1> QED
  BY <1>2, <1>3, <1>4, <1>5 DEF KbInv

LEMMA KbNext == TypeOK /\ KbInv /\ [Next]_vars => TypeOK' /\ KbInv'
<1> SUFFICES ASSUME TypeOK, KbInv, [Next]_vars PROVE TypeOK' /\ KbInv'
  OBVIOUS
<1>1. TypeOK' /\ SearchOK'
  BY KbTypeNext, SearchNext DEF KbInv
<1>2. \/ \E n \in Names, m \in Models : CreateBegin(n, m)
      \/ \E o, n \in Names : RenameBegin(o, n)
      \/ \E n \in Names : DeleteFiles(n) \/ IndexFile(n) \/ \E d \in Docs : DropFile(n, d)
      => KbInv'
  BY <1>1, KbBegin
<1>3. CreateSave \/ CreateModel \/ RenameDrop \/ RenameSave \/ DeleteEntry \/ IndexSave \/ DropSave
      => KbInv'
  BY <1>1, KbCreate, KbRename, KbSave
<1>4. RenameVec \/ RenameUnlink \/ DeleteDir \/ DeleteVec \/ IndexVec \/ DropVec => KbInv'
  <2> SUFFICES ASSUME RenameVec \/ RenameUnlink \/ DeleteDir \/ DeleteVec \/ IndexVec \/ DropVec
               PROVE  KbInv'
    OBVIOUS
  <2>1. UNCHANGED <<entries, chosen, gone, ids, docs, lost>> /\ hd.pc # "idle" /\ hd.pc # "renameSave"
    BY DEF RenameVec, RenameUnlink, DeleteDir, DeleteVec, IndexVec, DropVec, counters, histVars
  <2>2. \/ hd' = Idle
        \/ hd.pc \in Renaming \ {"renameSave"} /\ \E l \in Renaming \ {"renameSave"} : Goto(l)
        \/ hd.pc \in Deleting /\ \E l \in Deleting : Goto(l)
        \/ hd.pc \in Indexing /\ \E l \in Indexing : Goto(l)
        \/ hd.pc \in Dropping /\ \E l \in Dropping : Goto(l)
    BY DEF RenameVec, RenameUnlink, DeleteDir, DeleteVec, IndexVec, DropVec, Renaming, Deleting,
           Indexing, Dropping
  <2>3. \/ hd' = Idle
        \/ \E l \in Steps :
              /\ Goto(l) /\ hd.pc # "renameSave"
              /\ \E S \in {Renaming \ {"renameSave"}, Deleting, Indexing, Dropping} :
                   hd.pc \in S /\ l \in S
    BY <2>1, <2>2 DEF Renaming, Deleting, Indexing, Dropping, Steps
  <2> QED
    BY <1>1, <2>1, <2>3, KbMove
<1>5. Interrupted => KbInv'
  <2> SUFFICES ASSUME Interrupted PROVE KbInv'
    OBVIOUS
  <2>1. /\ UNCHANGED <<entries, chosen, gone, ids, docs>> /\ hd.pc # "idle" /\ hd' = Idle
        /\ lost \subseteq lost'
        /\ hd.pc = "renameSave" => hd.meta.id \in lost'
    BY DEF Interrupted, diskVars
  <2> QED
    BY <1>1, <2>1, KbMove
<1>6. (\E i \in Ids : SearchFind(i)) \/ SearchRequire \/ SearchVectors \/ SearchEnd
      \/ UNCHANGED vars => KbInv'
  <2> SUFFICES ASSUME UNCHANGED <<entries, hd, chosen, gone, lost, ids, docs>> PROVE KbInv'
    BY DEF SearchFind, SearchRequire, SearchVectors, SearchEnd, diskVars, counters, histVars, vars
  <2>1. HandlerOK'
    BY DEF KbInv, HandlerOK, With, Listed
  <2>2. OneName' /\ ModelKept' /\ Undrawn' /\ DocsDrawn'
    BY DEF KbInv, OneName, ModelKept, Undrawn, DocsDrawn, Listed
  <2>3. StillListed'
    BY DEF KbInv, StillListed, With, Listed
  <2> QED
    BY <1>1, <2>1, <2>2, <2>3 DEF KbInv
<1> QED
  BY <1>1, <1>2, <1>3, <1>4, <1>5, <1>6 DEF Next

\* Every variable keeps its type, whatever is refused, raises or crashes.
THEOREM KbTypesHold == Spec => []TypeOK
<1>1. Spec => [](TypeOK /\ KbInv)
  BY KbInit, KbNext, PTL DEF Spec
<1> QED
  BY <1>1, PTL

\* A knowledge base whose creation was acknowledged has exactly one name until its deletion
\* is acknowledged (KbKept).
THEOREM KnowledgeBasesAreKept == Spec => []KbKept
<1>1. TypeOK /\ KbInv => KbKept
  <2> SUFFICES ASSUME TypeOK, KbInv, NEW i \in Ids \ (gone \cup lost), chosen[i] # NoModel,
                      ~(hd.pc = "renameSave" /\ hd.meta.id = i)
               PROVE  Cardinality(With(i)) = 1
    BY DEF KbKept
  <2>1. PICK n \in Names : n \in With(i)
    BY DEF KbInv, StillListed, With
  <2>2. With(i) = {n}
    BY <2>1 DEF With, KbInv, OneName
  <2> QED
    BY <2>2, FS_Singleton
<1>2. Spec => [](TypeOK /\ KbInv)
  BY KbInit, KbNext, PTL DEF Spec
<1> QED
  BY <1>1, <1>2, PTL

-----------------------------------------------------------------------------
(* Whose documents are listed, in hand and in the vector files.             *)

Owned(ds, i) == \A d \in ds : owner[d] = i

\* A document that is listed is owned by the knowledge base that lists it, and so is one
\* on its way there; and no vector file has a document that was not drawn yet.
OwnInv ==
  /\ \A n \in Names : Listed(n) => Owned(entries[n].docs, entries[n].id)
  /\ hd.pc # "idle" => Owned(hd.meta.docs, hd.meta.id)
  /\ hd.pc \in Indexing => owner[hd.doc] = hd.meta.id
  /\ \A s \in Slugs : Contents(vecs[s]) \subseteq 1 .. docs

\* Which entries a step may write, and what with.
LEMMA EntryWritten ==
  ASSUME TypeOK, KbInv, [Next]_vars
  PROVE  \/ entries' = entries
         \/ \E n \in Names, x \in Metas \cup {Missing} :
              /\ entries' = [entries EXCEPT ![n] = x] /\ n \in {hd.old, hd.new} /\ hd.pc # "idle"
              /\ x # Missing => /\ x.id = hd.meta.id
                                /\ \/ x.docs \subseteq hd.meta.docs
                                   \/ hd.pc \in Indexing /\ x.docs = hd.meta.docs \cup {hd.doc}
              /\ x = Missing => hd.pc \in Renaming \cup Deleting
<1>1. hd.pc # "idle" => hd.old \in Names /\ hd.new \in Names /\ hd.meta \in Metas
                        /\ hd.meta # Missing
  BY KbTypes, KbConstants DEF KbInv, HandlerOK, Idle, Handlers
<1>2. CASE CreateSave
  <2> DEFINE x == [hd.meta EXCEPT !.model = NoModel]
  <2>1. entries' = [entries EXCEPT ![hd.new] = x] /\ hd.pc # "idle"
    BY <1>2 DEF CreateSave
  <2>2. x \in Metas /\ x.id = hd.meta.id /\ x.docs = hd.meta.docs /\ x # Missing
    BY <1>1, <2>1, KbConstants DEF Metas
  <2> HIDE DEF x
  <2> QED
    BY <1>1, <2>1, <2>2
<1>3. CASE CreateModel \/ RenameSave
  BY <1>1, <1>3 DEF CreateModel, RenameSave
<1>4. CASE RenameDrop \/ DeleteEntry
  BY <1>1, <1>4 DEF RenameDrop, DeleteEntry, Renaming, Deleting
<1>5. CASE IndexSave \/ DropSave
  <2>1. hd.doc \in Docs
    <3>1. hd.doc \in 1 .. docs
      BY <1>5 DEF KbInv, HandlerOK, Idle, IndexSave, DropSave, Indexing, Dropping
    <3> QED
      BY <3>1, KbConstants, SMT DEF TypeOK, Docs
  <2> DEFINE y == [hd.meta EXCEPT !.docs = @ \cup {hd.doc}]
             z == [hd.meta EXCEPT !.docs = @ \ {hd.doc}]
  <2>2. hd.pc # "idle" /\ hd.meta \in Metas
    BY <1>1, <1>5 DEF IndexSave, DropSave
  <2>3. y \in Metas /\ y.id = hd.meta.id /\ y.docs = hd.meta.docs \cup {hd.doc}
        /\ y # Missing
    BY <2>1, <2>2, KbConstants DEF Metas
  <2>4. z \in Metas /\ z.id = hd.meta.id /\ z.docs \subseteq hd.meta.docs
        /\ z # Missing
    BY <2>1, <2>2, KbConstants DEF Metas
  <2>5. \/ entries' = [entries EXCEPT ![hd.old] = y] /\ hd.pc \in Indexing
        \/ entries' = [entries EXCEPT ![hd.old] = z]
    BY <1>5 DEF IndexSave, DropSave, Indexing
  <2> HIDE DEF y, z
  <2> QED
    BY <1>1, <2>2, <2>3, <2>4, <2>5
<1> QED
  BY <1>2, <1>3, <1>4, <1>5
     DEF Next, vars, diskVars, CreateBegin, RenameBegin, RenameVec, RenameUnlink, DeleteFiles,
         DeleteDir, DeleteVec, IndexFile, DropFile, IndexVec, DropVec, SearchFind, SearchRequire,
         SearchVectors, SearchEnd, Interrupted

\* What a handler has in hand after a step: what it had, what it read, or a new knowledge base.
LEMMA HandAfter ==
  ASSUME TypeOK, KbInv, [Next]_vars
  PROVE  \/ hd'.pc = "idle"
         \/ /\ hd.pc # "idle" /\ hd'.meta = hd.meta /\ hd'.old = hd.old /\ hd'.new = hd.new
            /\ hd'.doc = hd.doc /\ (hd'.pc \in Indexing => hd.pc \in Indexing)
            /\ hd'.pc \in Renaming \cup Deleting => hd.pc \in Renaming \cup Deleting
         \/ /\ hd.pc = "idle" /\ entries' = entries /\ hd'.pc \notin Indexing
            /\ hd'.meta.docs = {} \/ \E n \in Names : Listed(n) /\ hd'.meta = entries[n]
            /\ hd'.pc \in Renaming \cup Deleting => CrossSearch(hd'.meta.id)
         \/ \E n \in Names : IndexFile(n)
<1>0. Idle.pc = "idle"
  BY DEF Idle
<1>1. ASSUME NEW l \in Steps, Goto(l), hd.pc # "idle", l \in Indexing => hd.pc \in Indexing,
             l \in Renaming \cup Deleting => hd.pc \in Renaming \cup Deleting
      PROVE  /\ hd.pc # "idle" /\ hd'.meta = hd.meta /\ hd'.old = hd.old /\ hd'.new = hd.new
             /\ hd'.doc = hd.doc /\ (hd'.pc \in Indexing => hd.pc \in Indexing)
             /\ hd'.pc \in Renaming \cup Deleting => hd.pc \in Renaming \cup Deleting
  BY <1>1, KbTypes DEF Goto, Handlers
<1>2. ASSUME NEW n \in Names, NEW m \in Models, CreateBegin(n, m)
      PROVE  /\ hd.pc = "idle" /\ entries' = entries /\ hd'.pc \notin Indexing
             /\ hd'.meta.docs = {} /\ hd'.pc \notin Renaming \cup Deleting
  BY <1>2 DEF CreateBegin, Idle, Indexing, Renaming, Deleting
<1>3. ASSUME NEW o \in Names, NEW n \in Names, RenameBegin(o, n)
      PROVE  /\ hd.pc = "idle" /\ entries' = entries /\ hd'.pc \notin Indexing
             /\ Listed(o) /\ hd'.meta = entries[o] /\ CrossSearch(hd'.meta.id)
  BY <1>3 DEF RenameBegin, Idle, Indexing
<1>4. ASSUME NEW n \in Names, DeleteFiles(n)
      PROVE  /\ hd.pc = "idle" /\ entries' = entries /\ hd'.pc \notin Indexing
             /\ Listed(n) /\ hd'.meta = entries[n] /\ CrossSearch(hd'.meta.id)
  BY <1>4 DEF DeleteFiles, Idle, Indexing
<1>5. ASSUME NEW n \in Names, NEW d \in Docs, DropFile(n, d)
      PROVE  /\ hd.pc = "idle" /\ entries' = entries /\ hd'.pc \notin Indexing
             /\ Listed(n) /\ hd'.meta = entries[n] /\ hd'.pc \notin Renaming \cup Deleting
  BY <1>5 DEF DropFile, Indexing, Renaming, Deleting
<1>6. CASE CreateSave \/ RenameVec \/ RenameUnlink \/ RenameDrop \/ DeleteDir \/ DeleteVec
           \/ DropVec
  BY <1>0, <1>1, <1>6
     DEF CreateSave, RenameVec, RenameUnlink, RenameDrop, DeleteDir, DeleteVec, DropVec, Steps,
         Indexing, Renaming, Deleting
<1>7. CASE IndexVec
  BY <1>1, <1>7 DEF IndexVec, Steps, Indexing, Renaming, Deleting
<1>8. CASE CreateModel \/ RenameSave \/ DeleteEntry \/ IndexSave \/ DropSave \/ Interrupted
  BY <1>0, <1>8 DEF CreateModel, RenameSave, DeleteEntry, IndexSave, DropSave, Interrupted
<1>9. CASE (\E i \in Ids : SearchFind(i)) \/ SearchRequire \/ SearchVectors \/ SearchEnd
           \/ UNCHANGED vars
  BY <1>9 DEF SearchFind, SearchRequire, SearchVectors, SearchEnd, vars
<1> QED
  BY <1>2, <1>3, <1>4, <1>5, <1>6, <1>7, <1>8, <1>9 DEF Next

\* No counter runs back, no mark is taken away, and a document is owned once and for all.
LEMMA NothingForgotten ==
  ASSUME TypeOK, [Next]_vars
  PROVE  /\ 1 .. docs \subseteq 1 .. docs' /\ torn \subseteq torn' /\ shared \subseteq shared'
         /\ \A d \in 1 .. docs : owner'[d] = owner[d]
         /\ (\E n \in Names : IndexFile(n)) \/ (docs' = docs /\ owner' = owner)
<1>1. ASSUME NEW n \in Names, IndexFile(n)
      PROVE  1 .. docs \subseteq 1 .. docs' /\ \A d \in 1 .. docs : owner'[d] = owner[d]
  <2>1. docs' = docs + 1 /\ docs \in Nat /\ docs < MaxDocs
        /\ owner' = [owner EXCEPT ![docs + 1] = entries[n].id]
    BY <1>1, SMT DEF IndexFile, TypeOK
  <2>2. 1 .. docs \subseteq 1 .. docs' /\ docs + 1 \notin 1 .. docs /\ 1 .. docs \subseteq Docs
    BY <2>1, KbConstants, SMT DEF Docs
  <2> QED
    BY <2>1, <2>2, KbTypes
<1>2. (\E n \in Names : IndexFile(n)) \/ (docs' = docs /\ owner' = owner)
  BY DEF Next, vars, counters, histVars, CreateBegin, CreateSave, CreateModel, RenameBegin, RenameVec,
         RenameUnlink, RenameDrop, RenameSave, DeleteFiles, DeleteDir, DeleteVec, DeleteEntry,
         DropFile, IndexVec, IndexSave, DropVec, DropSave, SearchFind, SearchRequire,
         SearchVectors, SearchEnd, Interrupted
<1>3. torn \subseteq torn' /\ shared \subseteq shared'
  BY DEF Next, vars, counters, histVars, CreateBegin, CreateSave, CreateModel, RenameBegin, RenameVec,
         RenameUnlink, RenameDrop, RenameSave, DeleteFiles, DeleteDir, DeleteVec, DeleteEntry,
         IndexFile, DropFile, IndexVec, IndexSave, DropVec, DropSave, SearchFind, SearchRequire,
         SearchVectors, SearchEnd, Interrupted
<1> QED
  BY <1>1, <1>2, <1>3

LEMMA OwnNext ==
  ASSUME TypeOK, KbInv, OwnInv, [Next]_vars
  PROVE  OwnInv'
<1>0. /\ \A d \in 1 .. docs : owner'[d] = owner[d]
      /\ 1 .. docs \subseteq 1 .. docs'
  BY NothingForgotten
<1>1. hd.pc # "idle" => /\ hd.old \in Names /\ hd.new \in Names /\ hd.meta.docs \subseteq 1 .. docs
                        /\ hd.pc \in Indexing => hd.doc \in 1 .. docs
  BY DEF KbInv, HandlerOK, Idle
<1>2. \A n \in Names : Listed(n)' => Owned(entries[n].docs, entries[n].id)'
  <2>1. CASE entries' = entries
    BY <1>0, <2>1 DEF KbInv, DocsDrawn, OwnInv, Owned, Listed
  <2>2. ASSUME NEW n \in Names, NEW x \in Metas \cup {Missing},
               entries' = [entries EXCEPT ![n] = x], hd.pc # "idle",
               x # Missing => /\ x.id = hd.meta.id
                              /\ \/ x.docs \subseteq hd.meta.docs
                                 \/ hd.pc \in Indexing /\ x.docs = hd.meta.docs \cup {hd.doc}
        PROVE  \A k \in Names : Listed(k)' => Owned(entries[k].docs, entries[k].id)'
    <3>1. /\ \A k \in Names \ {n} : entries'[k] = entries[k] /\ (Listed(k)' <=> Listed(k))
          /\ entries'[n] = x /\ (Listed(n)' <=> x # Missing)
      BY <2>2, WithAfter
    <3>2. x # Missing => \A d \in x.docs : d \in 1 .. docs /\ owner[d] = x.id
      BY <1>1, <2>2 DEF OwnInv, Owned
    <3> QED
      BY <1>0, <3>1, <3>2 DEF KbInv, DocsDrawn, OwnInv, Owned
  <2> QED
    BY <2>1, <2>2, EntryWritten
<1>3. (hd'.pc # "idle" => Owned(hd.meta.docs, hd.meta.id)')
      /\ (hd'.pc \in Indexing => owner'[hd'.doc] = hd'.meta.id)
  <2>1. CASE hd'.pc = "idle"
    BY <2>1 DEF Indexing
  <2>2. CASE /\ hd.pc # "idle" /\ hd'.meta = hd.meta /\ hd'.old = hd.old /\ hd'.new = hd.new
             /\ hd'.doc = hd.doc /\ (hd'.pc \in Indexing => hd.pc \in Indexing)
    BY <1>0, <1>1, <2>2 DEF OwnInv, Owned
  <2>3. CASE /\ hd.pc = "idle" /\ entries' = entries /\ hd'.pc \notin Indexing
             /\ hd'.meta.docs = {} \/ \E n \in Names : Listed(n) /\ hd'.meta = entries[n]
    BY <1>0, <2>3 DEF OwnInv, Owned, KbInv, DocsDrawn
  <2>4. ASSUME NEW n \in Names, IndexFile(n)
        PROVE  Owned(hd.meta.docs, hd.meta.id)' /\ owner'[hd'.doc] = hd'.meta.id
    <3>1. Listed(n) /\ hd'.meta = entries[n] /\ hd'.doc = docs + 1
          /\ owner' = [owner EXCEPT ![docs + 1] = entries[n].id]
      BY <2>4 DEF IndexFile
    <3>2. docs + 1 \in Docs
      BY <2>4, KbConstants, SMT DEF IndexFile, TypeOK, Docs
    <3>3. owner'[docs + 1] = entries[n].id
      BY <3>1, <3>2, KbTypes
    <3> QED
      BY <1>0, <3>1, <3>3 DEF OwnInv, Owned, KbInv, DocsDrawn
  <2> QED
    BY <2>1, <2>2, <2>3, <2>4, HandAfter
<1>4. \A s \in Slugs : Contents(vecs[s])' \subseteq 1 .. docs'
  <2>0. vecs \in [Slugs -> Stores] /\ Contents(Missing) = {}
        /\ \A n \in Names : Slug[n] \in Slugs
    BY KbTypes, KbConstants DEF Contents
  <2>1. CASE vecs' = vecs
    BY <1>0, <2>1 DEF OwnInv, Contents
  <2>2. ASSUME NEW s \in Slugs, NEW x, vecs' = [vecs EXCEPT ![s] = x], Contents(x) \subseteq 1 .. docs
        PROVE  \A r \in Slugs : Contents(vecs'[r]) \subseteq 1 .. docs'
    <3>1. vecs'[s] = x /\ \A r \in Slugs \ {s} : vecs'[r] = vecs[r]
      BY <2>0, <2>2
    <3> QED
      BY <1>0, <2>2, <3>1 DEF OwnInv
  <2>3. CASE RenameVec
    BY <1>1, <2>0, <2>1, <2>2, <2>3 DEF RenameVec, OwnInv, Contents
  <2>4. CASE RenameUnlink \/ DeleteVec
    BY <1>1, <2>0, <2>2, <2>4 DEF RenameUnlink, DeleteVec, Contents
  <2>5. CASE IndexVec \/ DropVec
    <3>1. /\ hd.old \in Names /\ hd.doc \in 1 .. docs
          /\ \/ vecs' = [vecs EXCEPT ![Slug[hd.old]] = Contents(vecs[Slug[hd.old]]) \cup {hd.doc}]
             \/ vecs' = [vecs EXCEPT ![Slug[hd.old]] = Contents(vecs[Slug[hd.old]]) \ {hd.doc}]
      BY <2>5 DEF IndexVec, DropVec, KbInv, HandlerOK, Idle, Indexing, Dropping
    <3>2. Contents(vecs[Slug[hd.old]]) \subseteq 1 .. docs
      BY <2>0, <3>1 DEF OwnInv
    <3>3. \A X : X \subseteq 1 .. docs => Contents(X) \subseteq 1 .. docs
      BY DEF Contents
    <3> QED
      BY <2>0, <2>2, <3>1, <3>2, <3>3
  <2>6. vecs' = vecs \/ RenameVec \/ RenameUnlink \/ DeleteVec \/ IndexVec \/ DropVec
    BY DEF Next, vars, diskVars, counters, histVars, CreateBegin, CreateSave, CreateModel, RenameBegin,
         RenameDrop, RenameSave, DeleteFiles, DeleteDir, DeleteEntry,
         IndexFile, DropFile, IndexSave, DropSave, SearchFind, SearchRequire,
         SearchVectors, SearchEnd, Interrupted
  <2>7. (\A r \in Slugs : Contents(vecs'[r]) \subseteq 1 .. docs') =>
        \A s \in Slugs : Contents(vecs[s])' \subseteq 1 .. docs'
    BY DEF Contents
  <2> QED
    BY <2>1, <2>3, <2>4, <2>5, <2>6, <2>7
<1> QED
  BY <1>2, <1>3, <1>4 DEF OwnInv

-----------------------------------------------------------------------------
(* What the files of a name hold.                                           *)

\* Files that an interrupted handler or two knowledge bases may have touched.
Suspect == torn \cup shared
InHand(n) == hd.pc # "idle" /\ n \in {hd.old, hd.new}
Occupies(n) == Listed(n) \/ InHand(n)
DocsOf(n) == IF Listed(n) THEN entries[n].docs ELSE {}

\* Directory and vector file hold what is listed;
Ready(n) == dirs[Slug[n]] = DocsOf(n) /\ Contents(vecs[Slug[n]]) = DocsOf(n)

\* and those of a name a handler has in hand hold what it put there so far.
HandStores(n) ==
  /\ hd.pc \in Creating => Ready(n)
  /\ hd.pc \in Renaming /\ n = hd.old =>
       /\ dirs[Slug[n]] = Missing
       /\ hd.pc \in {"renameVec", "renameUnlink"} => Contents(vecs[Slug[n]]) = hd.meta.docs
       /\ hd.pc \in {"renameDrop", "renameSave"} => vecs[Slug[n]] = Missing
  /\ hd.pc \in Renaming /\ n = hd.new =>
       /\ dirs[Slug[n]] = hd.meta.docs
       /\ hd.pc = "renameVec" => vecs[Slug[n]] = Missing
       /\ hd.pc # "renameVec" => Contents(vecs[Slug[n]]) = hd.meta.docs
  /\ hd.pc \in {"deleteVec", "deleteEntry"} => dirs[Slug[n]] = Missing
  /\ hd.pc \in {"deleteDir", "deleteVec", "indexVec", "dropVec"} =>
       Contents(vecs[Slug[n]]) = hd.meta.docs
  /\ hd.pc = "deleteEntry" => vecs[Slug[n]] = Missing
  /\ hd.pc \in Indexing => dirs[Slug[n]] = hd.meta.docs \cup {hd.doc}
  /\ hd.pc = "indexSave" => Contents(vecs[Slug[n]]) = hd.meta.docs \cup {hd.doc}
  /\ hd.pc \in Dropping => dirs[Slug[n]] = hd.meta.docs \ {hd.doc}
  /\ hd.pc = "dropSave" => Contents(vecs[Slug[n]]) = hd.meta.docs \ {hd.doc}

\* No two names that are listed or in hand have the same files, unless these are suspect;
Apart ==
  \A n, m \in Names :
    Occupies(n) /\ Occupies(m) /\ Slug[n] = Slug[m] /\ Slug[n] \notin Suspect => n = m
\* a rename carries the suspicion with it;
Tainted == hd.pc \in Renaming /\ Slug[hd.old] \in Suspect => Slug[hd.new] \in Suspect
\* and where no name is listed or in hand there are no files.
Vacant ==
  \A s \in Slugs \ Suspect :
    (\A n \in Names : Slug[n] = s => ~Occupies(n)) => dirs[s] = Missing /\ vecs[s] = Missing
Stored ==
  \A n \in Names : Slug[n] \notin Suspect =>
    /\ Listed(n) /\ ~InHand(n) => Ready(n)
    /\ InHand(n) => HandStores(n)

SlugInv == Apart /\ Tainted /\ Vacant /\ Stored

\* A handler that goes on, or ends, answers for the files of its two names only.
LEMMA SlugContinue ==
  ASSUME TypeOK, KbInv, SlugInv, Suspect \subseteq Suspect', NEW o \in Names, NEW n \in Names,
         hd.pc # "idle", hd.old = o, hd.new = n,
         hd'.pc # "idle" => hd'.old = o /\ hd'.new = n,
         \A k \in Names \ {o, n} : entries'[k] = entries[k],
         \A s \in Slugs \ {Slug[o], Slug[n]} : dirs'[s] = dirs[s] /\ vecs'[s] = vecs[s],
         Tainted',
         \A h \in {o, n} : Slug[h] \notin Suspect' =>
           /\ hd'.pc # "idle" => HandStores(h)'
           /\ hd'.pc = "idle" /\ Listed(h)' => Ready(h)'
           /\ hd'.pc = "idle" /\ ~Listed(h)' => dirs'[Slug[h]] = Missing /\ vecs'[Slug[h]] = Missing
  PROVE  SlugInv'
<1>0. \A k \in Names : Slug[k] \in Slugs
  BY KbConstants
<1>1. /\ \A k \in Names \ {o, n} : /\ ~InHand(k) /\ ~InHand(k)'
                                   /\ (Listed(k)' <=> Listed(k)) /\ (Occupies(k)' <=> Listed(k))
                                   /\ DocsOf(k)' = DocsOf(k)
      /\ \A h \in {o, n} : Occupies(h) /\ InHand(h) /\ (InHand(h)' <=> hd'.pc # "idle")
  BY DEF InHand, Occupies, Listed, DocsOf
<1>2. \A k \in Names \ {o, n} : Listed(k) /\ Slug[k] \notin Suspect
                                => Slug[k] # Slug[o] /\ Slug[k] # Slug[n]
  BY <1>1 DEF SlugInv, Apart, Occupies
<1>3. Apart'
  <2> SUFFICES ASSUME NEW k \in Names, NEW m \in Names, Occupies(k)', Occupies(m)',
                      Slug[k] = Slug[m], Slug[k] \notin Suspect'
               PROVE  k = m
    BY DEF Apart
  <2>1. Occupies(k) /\ Occupies(m)
    BY <1>1 DEF Occupies
  <2> QED
    BY <2>1 DEF SlugInv, Apart
<1>4. Vacant'
  <2> SUFFICES ASSUME NEW s \in Slugs, s \notin Suspect',
                      \A k \in Names : Slug[k] = s => ~Occupies(k)'
               PROVE  dirs'[s] = Missing /\ vecs'[s] = Missing
    BY DEF Vacant
  <2>1. ASSUME NEW h \in {o, n}, Slug[h] = s PROVE dirs'[s] = Missing /\ vecs'[s] = Missing
    <3>1. ~Occupies(h)'
      BY <2>1
    <3>2. hd'.pc = "idle" /\ ~Listed(h)'
      BY <1>1, <3>1 DEF Occupies
    <3> QED
      BY <2>1, <3>2
  <2>2. CASE s \notin {Slug[o], Slug[n]}
    <3>1. \A k \in Names : Slug[k] = s => ~Occupies(k)
      BY <1>1, <2>2 DEF Occupies
    <3> QED
      BY <2>2, <3>1 DEF SlugInv, Vacant
  <2> QED
    BY <2>1, <2>2
<1>5. Stored'
  <2> SUFFICES ASSUME NEW k \in Names, Slug[k] \notin Suspect'
               PROVE  /\ Listed(k)' /\ ~InHand(k)' => Ready(k)'
                      /\ InHand(k)' => HandStores(k)'
    BY DEF Stored
  <2>1. CASE k \in {o, n}
    BY <1>1, <2>1
  <2>2. CASE k \notin {o, n}
    <3>1. Listed(k) => dirs'[Slug[k]] = dirs[Slug[k]] /\ vecs'[Slug[k]] = vecs[Slug[k]]
      BY <1>0, <1>2, <2>2
    <3>2. Listed(k) => Ready(k)
      BY <1>1, <2>2 DEF SlugInv, Stored
    <3> QED
      BY <1>1, <2>2, <3>1, <3>2 DEF Ready, Contents
  <2> QED
    BY <2>1, <2>2
<1> QED
  BY <1>3, <1>4, <1>5 DEF SlugInv

\* A handler that begins takes the files of a listed name, of a free one, or of both.
LEMMA SlugBegin ==
  ASSUME TypeOK, KbInv, SlugInv, Suspect \subseteq Suspect', NEW o \in Names, NEW n \in Names,
         hd.pc = "idle", hd'.pc # "idle", hd'.old = o, hd'.new = n,
         entries' = entries, vecs' = vecs, Listed(o) \/ o = n,
         \A s \in Slugs \ {Slug[o], Slug[n]} : dirs'[s] = dirs[s],
         \A k \in Names \ {o} : Listed(k) /\ Slug[k] = Slug[n] => Slug[n] \in Suspect',
         o # n /\ Slug[o] = Slug[n] => Slug[n] \in Suspect',
         Tainted',
         \A h \in {o, n} : Slug[h] \notin Suspect' => HandStores(h)'
  PROVE  SlugInv'
<1>0. \A k \in Names : Slug[k] \in Slugs
  BY KbConstants
<1>1. /\ \A k \in Names : (Listed(k)' <=> Listed(k)) /\ (Occupies(k) <=> Listed(k)) /\ ~InHand(k)
                          /\ (Occupies(k)' <=> Listed(k) \/ k \in {o, n}) /\ DocsOf(k)' = DocsOf(k)
                          /\ (InHand(k)' <=> k \in {o, n})
  BY DEF InHand, Occupies, Listed, DocsOf
<1>2. \A k \in Names \ {o, n} : Listed(k) /\ Slug[k] \notin Suspect'
                                => Slug[k] # Slug[o] /\ Slug[k] # Slug[n]
  <2>1. \A k \in Names \ {o, n} : Listed(k) /\ Slug[k] \notin Suspect' => Slug[k] # Slug[n]
    OBVIOUS
  <2>2. \A k \in Names \ {o, n} : Listed(k) /\ Listed(o) /\ Slug[k] \notin Suspect'
                                  => Slug[k] # Slug[o]
    BY <1>1 DEF SlugInv, Apart
  <2> QED
    BY <2>1, <2>2
<1>3. Apart'
  <2> SUFFICES ASSUME NEW k \in Names, NEW m \in Names, Occupies(k)', Occupies(m)',
                      Slug[k] = Slug[m], Slug[k] \notin Suspect'
               PROVE  k = m
    BY DEF Apart
  <2>1. CASE k \in {o, n} /\ m \in {o, n}
    BY <2>1
  <2>2. CASE k \notin {o, n} /\ m \notin {o, n}
    BY <1>1, <2>2 DEF SlugInv, Apart
  <2>3. CASE k \notin {o, n} /\ m \in {o, n}
    BY <1>1, <1>2, <2>3
  <2>4. CASE k \in {o, n} /\ m \notin {o, n}
    BY <1>1, <1>2, <2>4
  <2> QED
    BY <2>1, <2>2, <2>3, <2>4
<1>4. Vacant'
  <2> SUFFICES ASSUME NEW s \in Slugs, s \notin Suspect',
                      \A k \in Names : Slug[k] = s => ~Occupies(k)'
               PROVE  dirs'[s] = Missing /\ vecs'[s] = Missing
    BY DEF Vacant
  <2>1. s \notin {Slug[o], Slug[n]} /\ \A k \in Names : Slug[k] = s => ~Occupies(k)
    BY <1>1
  <2> QED
    BY <2>1 DEF SlugInv, Vacant
<1>5. Stored'
  <2> SUFFICES ASSUME NEW k \in Names, Slug[k] \notin Suspect'
               PROVE  /\ Listed(k)' /\ ~InHand(k)' => Ready(k)'
                      /\ InHand(k)' => HandStores(k)'
    BY DEF Stored
  <2>1. CASE k \in {o, n}
    BY <1>1, <2>1
  <2>2. CASE k \notin {o, n}
    <3>1. Listed(k) => dirs'[Slug[k]] = dirs[Slug[k]]
      BY <1>0, <1>2, <2>2
    <3>2. Listed(k) => Ready(k)
      BY <1>1, <2>2 DEF SlugInv, Stored
    <3> QED
      BY <1>1, <2>2, <3>1, <3>2 DEF Ready, Contents
  <2> QED
    BY <2>1, <2>2
<1> QED
  BY <1>3, <1>4, <1>5 DEF SlugInv

\* A listed name at rest, and one nobody has.
LEMMA AtRest ==
  ASSUME TypeOK, KbInv, SlugInv, hd.pc = "idle", NEW n \in Names, Slug[n] \notin Suspect
  PROVE  /\ Listed(n) => /\ dirs[Slug[n]] = entries[n].docs /\ dirs[Slug[n]] # Missing
                         /\ Contents(dirs[Slug[n]]) = entries[n].docs
                         /\ Contents(vecs[Slug[n]]) = entries[n].docs
                         /\ \A k \in Names \ {n} : Listed(k) => Slug[k] # Slug[n]
         /\ (\A k \in Names : Slug[k] = Slug[n] => ~Listed(k))
              => dirs[Slug[n]] = Missing /\ vecs[Slug[n]] = Missing
<1>1. ASSUME Listed(n)
      PROVE  /\ dirs[Slug[n]] = entries[n].docs /\ dirs[Slug[n]] # Missing
             /\ Contents(dirs[Slug[n]]) = entries[n].docs
             /\ Contents(vecs[Slug[n]]) = entries[n].docs
             /\ \A k \in Names \ {n} : Listed(k) => Slug[k] # Slug[n]
  <2>1. Ready(n)
    BY <1>1 DEF SlugInv, Stored, InHand
  <2>2. entries[n].docs \in SUBSET Docs
    BY <1>1, KbTypes DEF Metas
  <2>3. entries[n].docs # Missing
    BY <2>2, KbConstants
  <2>4. \A k \in Names \ {n} : Listed(k) => Slug[k] # Slug[n]
    BY <1>1 DEF SlugInv, Apart, Occupies
  <2> QED
    BY <1>1, <2>1, <2>3, <2>4 DEF Ready, DocsOf, Contents
<1>2. (\A k \in Names : Slug[k] = Slug[n] => ~Listed(k))
      => dirs[Slug[n]] = Missing /\ vecs[Slug[n]] = Missing
  <2>1. Slug[n] \in Slugs \ Suspect
    BY KbConstants
  <2> QED
    BY <2>1 DEF SlugInv, Vacant, Occupies, InHand
<1> QED
  BY <1>1, <1>2

LEMMA SlugBeginsCreate ==
  ASSUME TypeOK, KbInv, SlugInv, NEW n \in Names, NEW m \in Models, CreateBegin(n, m)
  PROVE  SlugInv'
<1>1. /\ hd'.pc = "createSave" /\ hd'.old = n /\ hd'.new = n /\ hd.pc = "idle" /\ ~Listed(n)
      /\ UNCHANGED <<entries, vecs, torn>> /\ dirs' = [dirs EXCEPT ![Slug[n]] = Contents(@)]
      /\ shared \subseteq shared'
      /\ Holding(Slug[n]) # {} => Slug[n] \in shared'
  BY DEF CreateBegin, Idle
<1>2. Suspect \subseteq Suspect'
  BY <1>1 DEF Suspect
<1>3. \A k \in Names \ {n} : Listed(k) /\ Slug[k] = Slug[n] => Slug[n] \in Suspect'
  BY <1>1 DEF Holding, Suspect
<1>4. /\ \A s \in Slugs \ {Slug[n]} : dirs'[s] = dirs[s]
      /\ dirs'[Slug[n]] = Contents(dirs[Slug[n]])
  BY <1>1, KbTypes, KbConstants
<1>5. Slug[n] \notin Suspect' => HandStores(n)'
  <2> SUFFICES ASSUME Slug[n] \notin Suspect' PROVE HandStores(n)'
    OBVIOUS
  <2>1. \A k \in Names : Slug[k] = Slug[n] => ~Listed(k)
    BY <1>1, <1>3
  <2>2. dirs[Slug[n]] = Missing /\ vecs[Slug[n]] = Missing
    BY <1>1, <1>2, <2>1, AtRest
  <2>3. Ready(n)'
    BY <1>1, <1>4, <2>2 DEF Ready, DocsOf, Contents, Listed
  <2> QED
    BY <1>1, <2>3 DEF HandStores, Creating, Renaming, Indexing, Dropping
<1>6. Tainted'
  BY <1>1 DEF Tainted, Renaming
<1> QED
  BY <1>1, <1>2, <1>3, <1>4, <1>5, <1>6, SlugBegin

LEMMA SlugBeginsRename ==
  ASSUME TypeOK, KbInv, SlugInv, NEW o \in Names, NEW n \in Names, RenameBegin(o, n)
  PROVE  SlugInv'
<1>1. /\ hd'.pc = "renameVec" /\ hd'.old = o /\ hd'.new = n /\ hd'.meta = entries[o]
      /\ hd.pc = "idle" /\ Listed(o) /\ ~Listed(n) /\ o # n
      /\ UNCHANGED <<entries, vecs>> /\ shared \subseteq shared' /\ torn \subseteq torn'
      /\ Holding(Slug[n]) \ {o} # {} => Slug[n] \in shared'
      /\ Slug[o] \in torn \cup shared => Slug[n] \in torn'
      /\ shared' \subseteq shared \cup {Slug[n]} /\ torn' \subseteq torn \cup {Slug[n]}
      /\ IF dirs[Slug[o]] = Missing THEN dirs' = dirs
         ELSE /\ dirs[Slug[n]] = Missing
              /\ dirs' = [dirs EXCEPT ![Slug[n]] = dirs[Slug[o]], ![Slug[o]] = Missing]
  BY DEF RenameBegin, Idle
<1>2. Suspect \subseteq Suspect' /\ Suspect' \subseteq Suspect \cup {Slug[n]}
  BY <1>1 DEF Suspect
<1>3. \A k \in Names \ {o} : Listed(k) /\ Slug[k] = Slug[n] => Slug[n] \in Suspect'
  BY <1>1 DEF Holding, Suspect
<1>4. Slug[o] \in Suspect => Slug[n] \in Suspect'
  BY <1>1 DEF Suspect
<1>5. Slug[o] = Slug[n] => Slug[n] \in Suspect'
  <2> SUFFICES ASSUME Slug[o] = Slug[n], Slug[o] \notin Suspect PROVE FALSE
    BY <1>4
  <2> QED
    BY <1>1, AtRest
<1>6. Slug[o] \in Slugs /\ Slug[n] \in Slugs /\ dirs \in [Slugs -> Stores]
  BY KbConstants, KbTypes
<1>7. /\ \A s \in Slugs \ {Slug[o], Slug[n]} : dirs'[s] = dirs[s]
      /\ dirs[Slug[o]] # Missing => /\ dirs'[Slug[o]] = Missing
                                    /\ Slug[n] # Slug[o] => dirs'[Slug[n]] = dirs[Slug[o]]
  BY <1>1, <1>6
<1>8. Slug[o] \notin Suspect => /\ dirs[Slug[o]] = entries[o].docs /\ dirs[Slug[o]] # Missing
                                /\ Contents(vecs[Slug[o]]) = entries[o].docs
  BY <1>1, AtRest
<1>9. Slug[o] \notin Suspect' => HandStores(o)'
  <2> SUFFICES ASSUME Slug[o] \notin Suspect' PROVE HandStores(o)'
    OBVIOUS
  <2>1. dirs'[Slug[o]] = Missing /\ Contents(vecs[Slug[o]])' = entries[o].docs
    BY <1>1, <1>2, <1>7, <1>8 DEF Contents
  <2> QED
    BY <1>1, <2>1 DEF HandStores, Creating, Renaming, Indexing, Dropping
<1>10. Slug[n] \notin Suspect' => HandStores(n)'
  <2> SUFFICES ASSUME Slug[n] \notin Suspect' PROVE HandStores(n)'
    OBVIOUS
  <2>1. Slug[o] \notin Suspect /\ Slug[o] # Slug[n] /\ Slug[n] \notin Suspect
    BY <1>2, <1>4, <1>5
  <2>2. dirs'[Slug[n]] = entries[o].docs
    BY <1>7, <1>8, <2>1
  <2>3. \A k \in Names : Slug[k] = Slug[n] => ~Listed(k)
    BY <1>3, <2>1
  <2>4. vecs'[Slug[n]] = Missing
    BY <1>1, <2>1, <2>3, AtRest
  <2> QED
    BY <1>1, <2>2, <2>4 DEF HandStores, Creating, Renaming, Indexing, Dropping
<1>11. Tainted'
  BY <1>1, <1>2, <1>4 DEF Tainted
<1> QED
  BY <1>1, <1>2, <1>3, <1>5, <1>7, <1>9, <1>10, <1>11, SlugBegin

LEMMA SlugBeginsOther ==
  ASSUME TypeOK, KbInv, SlugInv, NEW n \in Names,
         DeleteFiles(n) \/ IndexFile(n) \/ \E d \in Docs : DropFile(n, d)
  PROVE  SlugInv'
<1>1. /\ hd'.old = n /\ hd'.new = n /\ hd'.meta = entries[n] /\ hd.pc = "idle" /\ Listed(n)
      /\ UNCHANGED <<entries, vecs, torn, shared>>
      /\ \/ hd'.pc = "deleteDir"
         \/ /\ hd'.pc = "indexVec" /\ hd'.doc = docs + 1
            /\ dirs' = [dirs EXCEPT ![Slug[n]] = Contents(@) \cup {docs + 1}]
         \/ /\ hd'.pc = "dropVec"
            /\ dirs' = [dirs EXCEPT ![Slug[n]] = IF @ = Missing THEN Missing ELSE @ \ {hd'.doc}]
  <2>1. CASE DeleteFiles(n)
    BY <2>1 DEF DeleteFiles, Idle, histVars
  <2>2. CASE IndexFile(n)
    BY <2>2 DEF IndexFile
  <2>3. ASSUME NEW d \in Docs, DropFile(n, d)
        PROVE  /\ hd'.old = n /\ hd'.new = n /\ hd'.meta = entries[n] /\ hd.pc = "idle" /\ Listed(n)
               /\ UNCHANGED <<entries, vecs, torn, shared>> /\ hd'.pc = "dropVec" /\ hd'.doc = d
               /\ dirs' = [dirs EXCEPT ![Slug[n]] = IF @ = Missing THEN Missing ELSE @ \ {d}]
    BY <2>3 DEF DropFile, histVars
  <2> QED
    BY <2>1, <2>2, <2>3
<1>2. Suspect' = Suspect
  BY <1>1 DEF Suspect
<1>3. \A s \in Slugs \ {Slug[n]} : dirs'[s] = dirs[s]
  BY KbTypes, KbConstants DEF DeleteFiles, IndexFile, DropFile
<1>4. \A k \in Names \ {n} : Listed(k) /\ Slug[k] = Slug[n] => Slug[n] \in Suspect'
  BY <1>1, <1>2, AtRest
<1>5. Slug[n] \notin Suspect' => HandStores(n)'
  <2> SUFFICES ASSUME Slug[n] \notin Suspect PROVE HandStores(n)'
    BY <1>2
  <2>1. /\ dirs[Slug[n]] = entries[n].docs /\ dirs[Slug[n]] # Missing
        /\ Contents(dirs[Slug[n]]) = entries[n].docs
        /\ Contents(vecs[Slug[n]])' = entries[n].docs
    BY <1>1, AtRest DEF Contents
  <2>2. Slug[n] \in Slugs /\ dirs \in [Slugs -> Stores]
    BY KbTypes, KbConstants
  <2>3. /\ hd'.pc = "indexVec" => dirs'[Slug[n]] = entries[n].docs \cup {hd'.doc}
        /\ hd'.pc = "dropVec" => dirs'[Slug[n]] = entries[n].docs \ {hd'.doc}
    BY <1>1, <2>1, <2>2
  <2> QED
    BY <1>1, <2>1, <2>3 DEF HandStores, Creating, Renaming, Indexing, Dropping
<1>6. Tainted'
  BY <1>1 DEF Tainted, Renaming
<1>7. hd'.pc # "idle"
  BY <1>1
<1> QED
  BY <1>1, <1>2, <1>3, <1>4, <1>5, <1>6, <1>7, SlugBegin

\* What a handler finds in the files of its two names.
LEMMA HandFinds ==
  ASSUME TypeOK, KbInv, SlugInv, hd.pc # "idle"
  PROVE  /\ hd.old \in Names /\ hd.new \in Names /\ hd.meta \in Metas
         /\ Slug[hd.old] \in Slugs /\ Slug[hd.new] \in Slugs
         /\ \A h \in {hd.old, hd.new} : Slug[h] \notin Suspect => HandStores(h)
         /\ hd.pc \in Renaming => /\ hd.old # hd.new
                                  /\ Slug[hd.old] \in Suspect => Slug[hd.new] \in Suspect
                                  /\ Slug[hd.old] = Slug[hd.new] => Slug[hd.old] \in Suspect
         /\ hd.pc \notin Renaming => hd.old = hd.new
<1>1. /\ hd.old \in Names /\ hd.new \in Names /\ hd.meta \in Metas
      /\ hd.pc \in Renaming => hd.old # hd.new
      /\ hd.pc \notin Renaming => hd.old = hd.new
  <2>1. hd.pc \in Steps /\ hd.meta \in Metas
    BY KbTypes DEF Handlers
  <2> QED
    BY <2>1 DEF KbInv, HandlerOK, Idle, Steps, Creating, Renaming, Deleting, Indexing, Dropping
<1>2. Slug[hd.old] \in Slugs /\ Slug[hd.new] \in Slugs
  BY <1>1, KbConstants
<1>3. \A h \in {hd.old, hd.new} : (Slug[h] \notin Suspect => HandStores(h)) /\ Occupies(h)
  BY <1>1 DEF SlugInv, Stored, InHand, Occupies
<1> QED
  BY <1>1, <1>2, <1>3 DEF SlugInv, Tainted, Apart

LEMMA SlugCreates ==
  ASSUME TypeOK, KbInv, SlugInv, NEW n \in Names, hd.old = n, hd.new = n,
         CreateSave \/ CreateModel
  PROVE  SlugInv'
<1>1. /\ hd.pc \in Creating /\ UNCHANGED <<dirs, vecs, torn, shared>>
      /\ \/ hd.pc = "createSave" /\ hd'.pc = "createModel" /\ hd'.old = n /\ hd'.new = n
         \/ hd.pc = "createModel" /\ hd' = Idle
  BY KbTypes DEF CreateSave, CreateModel, Goto, Creating, Handlers, histVars
<1>2. hd.pc # "idle" /\ hd.pc \notin Renaming /\ Idle.pc = "idle"
  BY <1>1 DEF Creating, Renaming, Idle
<1>3. hd.meta.docs = {} /\ hd.meta \in Metas
  BY <1>1, <1>2, HandFinds DEF KbInv, HandlerOK, Idle
<1>4. PICK x \in Metas : entries' = [entries EXCEPT ![n] = x] /\ x.docs = {}
  <2> DEFINE y == [hd.meta EXCEPT !.model = NoModel]
  <2>1. y \in Metas /\ y.docs = {}
    BY <1>3 DEF Metas
  <2>2. entries' = [entries EXCEPT ![n] = y] \/ entries' = [entries EXCEPT ![n] = hd.meta]
    BY DEF CreateSave, CreateModel
  <2> HIDE DEF y
  <2> QED
    BY <1>3, <2>1, <2>2
<1>5. /\ \A k \in Names \ {n} : entries'[k] = entries[k]
      /\ Listed(n)' /\ DocsOf(n)' = {}
  <2>1. /\ \A k \in Names \ {n} : entries'[k] = entries[k]
        /\ entries'[n] = x /\ (Listed(n)' <=> x # Missing)
    BY <1>3, <1>4, WithAfter
  <2> QED
    BY <1>4, <2>1, KbConstants DEF DocsOf
<1>6. DocsOf(n) = {}
  <2>1. CASE hd.pc = "createSave"
    BY <2>1 DEF KbInv, HandlerOK, Idle, DocsOf
  <2>2. CASE hd.pc = "createModel"
    <3>1. entries[n] = [hd.meta EXCEPT !.model = NoModel]
      BY <2>2 DEF KbInv, HandlerOK, Idle
    <3> QED
      BY <1>3, <3>1 DEF DocsOf, Metas
  <2> QED
    BY <1>1, <2>1, <2>2 DEF Creating
<1>7. Suspect' = Suspect
  BY <1>1 DEF Suspect
<1>8. Slug[n] \notin Suspect' => Ready(n)'
  <2> SUFFICES ASSUME Slug[n] \notin Suspect PROVE Ready(n)'
    BY <1>7
  <2>1. Ready(n)
    BY <1>1, <1>2, HandFinds DEF HandStores
  <2> QED
    BY <1>1, <1>5, <1>6, <2>1 DEF Ready, Contents
<1>9. Slug[n] \notin Suspect' =>
        /\ hd'.pc # "idle" => HandStores(n)'
        /\ hd'.pc = "idle" => Ready(n)'
  <2>1. hd'.pc # "idle" => hd'.pc = "createModel"
    BY <1>1, <1>2
  <2> QED
    BY <1>8, <2>1 DEF HandStores, Creating, Renaming, Indexing, Dropping
<1>10. Tainted'
  BY <1>1, <1>2 DEF Tainted, Renaming
<1>11. hd'.pc # "idle" => hd'.old = n /\ hd'.new = n
  BY <1>1, <1>2, <1>3
<1> QED
  BY <1>1, <1>2, <1>3, <1>5, <1>7, <1>9, <1>10, <1>11, SlugContinue

\* The files of the old name become those of the new one.
LEMMA SlugRenames ==
  ASSUME TypeOK, KbInv, SlugInv, NEW o \in Names, NEW n \in Names, hd.old = o, hd.new = n,
         RenameVec \/ RenameUnlink \/ RenameDrop \/ RenameSave
  PROVE  SlugInv'
<1>0. hd.pc \in Renaming /\ hd.pc # "idle" /\ Idle.pc = "idle"
  BY DEF RenameVec, RenameUnlink, RenameDrop, RenameSave, Renaming, Idle
<1> DEFINE so == Slug[o]
           sn == Slug[n]
           ds == hd.meta.docs
<1>1. /\ so \in Slugs /\ sn \in Slugs /\ o # n
      /\ so \in Suspect => sn \in Suspect
      /\ so = sn => so \in Suspect
      /\ so \notin Suspect => HandStores(o)
      /\ sn \notin Suspect => HandStores(n)
      /\ hd.meta \in Metas /\ hd.meta # Missing
  BY <1>0, HandFinds, KbConstants
<1>2. vecs \in [Slugs -> Stores] /\ Contents(Missing) = {}
  BY KbTypes DEF Contents
<1>3. /\ so \notin Suspect =>
           /\ dirs[so] = Missing
           /\ hd.pc \in {"renameVec", "renameUnlink"} => Contents(vecs[so]) = ds
           /\ hd.pc \in {"renameDrop", "renameSave"} => vecs[so] = Missing
      /\ sn \notin Suspect =>
           /\ dirs[sn] = ds
           /\ hd.pc = "renameVec" => vecs[sn] = Missing
           /\ hd.pc # "renameVec" => Contents(vecs[sn]) = ds
  BY <1>0, <1>1 DEF HandStores
<1>4. ASSUME NEW l \in {"renameUnlink", "renameDrop", "renameSave"}, Goto(l)
      PROVE  /\ hd'.pc = l /\ hd'.old = o /\ hd'.new = n /\ hd'.meta = hd.meta
             /\ hd'.pc # "idle"
  BY <1>4, KbTypes DEF Goto, Handlers
\* What the next step expects of the two names' files, and why that is enough.
<1> DEFINE OldOK(l) == so \notin Suspect' =>
                         /\ dirs'[so] = Missing
                         /\ l = "renameUnlink" => Contents(vecs'[so]) = ds
                         /\ l # "renameUnlink" => vecs'[so] = Missing
           NewOK == sn \notin Suspect' => dirs'[sn] = ds /\ Contents(vecs'[sn]) = ds
<1>5. ASSUME NEW l \in {"renameUnlink", "renameDrop", "renameSave"}, Goto(l), OldOK(l), NewOK,
             Suspect' = Suspect
      PROVE  /\ Tainted'
             /\ \A h \in {o, n} : Slug[h] \notin Suspect' => HandStores(h)'
  <2>1. Tainted'
    BY <1>1, <1>4, <1>5 DEF Tainted
  <2>2. so \notin Suspect' => HandStores(o)'
    BY <1>1, <1>4, <1>5 DEF HandStores, Creating, Renaming, Indexing, Dropping, Contents
  <2>3. sn \notin Suspect' => HandStores(n)'
    BY <1>1, <1>4, <1>5 DEF HandStores, Creating, Renaming, Indexing, Dropping, Contents
  <2> QED
    BY <2>1, <2>2, <2>3
<1>6. CASE RenameVec /\ vecs[so] = Missing
  <2>1. hd.pc = "renameVec" /\ Goto("renameDrop") /\ UNCHANGED <<entries, dirs, vecs, torn, shared>>
    BY <1>6 DEF RenameVec
  <2>2. Suspect' = Suspect
    BY <2>1 DEF Suspect
  <2>3. so \notin Suspect => ds = {}
    BY <1>2, <1>3, <1>6, <2>1
  <2>4. OldOK("renameDrop") /\ NewOK
    BY <1>1, <1>2, <1>3, <1>6, <2>1, <2>2, <2>3
  <2>5. hd'.pc # "idle" /\ hd'.old = o /\ hd'.new = n
    BY <1>4, <2>1
  <2>6. /\ Tainted' /\ \A h \in {o, n} : Slug[h] \notin Suspect' => HandStores(h)'
    BY <1>5, <2>1, <2>2, <2>4
  <2> QED
    BY <1>0, <1>1, <2>1, <2>2, <2>5, <2>6, SlugContinue
<1>7. CASE RenameVec /\ vecs[so] # Missing /\ vecs[sn] # Missing
  <2>1. /\ hd.pc = "renameVec" /\ hd' = Idle /\ UNCHANGED <<entries, dirs, vecs, shared>>
        /\ torn' = IF sn \in torn \cup shared THEN torn \cup {so} ELSE torn
    BY <1>7 DEF RenameVec
  <2>2. Suspect \subseteq Suspect' /\ so \in Suspect' /\ sn \in Suspect'
    BY <1>3, <1>7, <2>1 DEF Suspect
  <2>3. Tainted'
    BY <1>0, <2>1 DEF Tainted, Renaming
  <2> QED
    BY <1>0, <1>1, <2>1, <2>2, <2>3, SlugContinue
<1>8. CASE RenameVec /\ vecs[so] # Missing /\ vecs[sn] = Missing
  <2>1. hd.pc = "renameVec" /\ Goto("renameUnlink") /\ UNCHANGED <<entries, dirs, torn, shared>>
        /\ vecs' = [vecs EXCEPT ![sn] = vecs[so]]
    BY <1>8 DEF RenameVec
  <2>2. Suspect' = Suspect
    BY <2>1 DEF Suspect
  <2>3. vecs'[sn] = vecs[so] /\ \A s \in Slugs \ {sn} : vecs'[s] = vecs[s]
    BY <1>1, <1>2, <2>1
  <2>4. vecs'[so] = vecs[so]
    BY <1>1, <1>8, <2>3
  <2>5. OldOK("renameUnlink") /\ NewOK
    BY <1>1, <1>3, <2>1, <2>2, <2>3, <2>4
  <2>6. hd'.pc # "idle" /\ hd'.old = o /\ hd'.new = n
    BY <1>4, <2>1
  <2>7. /\ Tainted' /\ \A h \in {o, n} : Slug[h] \notin Suspect' => HandStores(h)'
    BY <1>5, <2>1, <2>2, <2>5
  <2> QED
    BY <1>0, <1>1, <2>1, <2>2, <2>3, <2>6, <2>7, SlugContinue
<1>9. CASE RenameUnlink
  <2>1. hd.pc = "renameUnlink" /\ Goto("renameDrop") /\ UNCHANGED <<entries, dirs, torn, shared>>
        /\ vecs' = [vecs EXCEPT ![so] = Missing]
    BY <1>9 DEF RenameUnlink, histVars
  <2>2. Suspect' = Suspect
    BY <2>1 DEF Suspect
  <2>3. vecs'[so] = Missing /\ \A s \in Slugs \ {so} : vecs'[s] = vecs[s]
    BY <1>1, <1>2, <2>1
  <2>4. OldOK("renameDrop") /\ NewOK
    BY <1>1, <1>3, <2>1, <2>2, <2>3
  <2>5. hd'.pc # "idle" /\ hd'.old = o /\ hd'.new = n
    BY <1>4, <2>1
  <2>6. /\ Tainted' /\ \A h \in {o, n} : Slug[h] \notin Suspect' => HandStores(h)'
    BY <1>5, <2>1, <2>2, <2>4
  <2> QED
    BY <1>0, <1>1, <2>1, <2>2, <2>3, <2>5, <2>6, SlugContinue
<1>10. CASE RenameDrop
  <2>1. hd.pc = "renameDrop" /\ Goto("renameSave") /\ UNCHANGED <<dirs, vecs, torn, shared>>
        /\ entries' = [entries EXCEPT ![o] = Missing]
    BY <1>10 DEF RenameDrop, histVars
  <2>2. Suspect' = Suspect
    BY <2>1 DEF Suspect
  <2>3. \A k \in Names \ {o, n} : entries'[k] = entries[k]
    BY <2>1, KbTypes
  <2>4. OldOK("renameSave") /\ NewOK
    BY <1>1, <1>3, <2>1, <2>2
  <2>5. hd'.pc # "idle" /\ hd'.old = o /\ hd'.new = n
    BY <1>4, <2>1
  <2>6. /\ Tainted' /\ \A h \in {o, n} : Slug[h] \notin Suspect' => HandStores(h)'
    BY <1>5, <2>1, <2>2, <2>4
  <2> QED
    BY <1>0, <1>1, <2>1, <2>2, <2>3, <2>5, <2>6, SlugContinue
<1>11. CASE RenameSave
  <2>1. hd.pc = "renameSave" /\ hd' = Idle /\ UNCHANGED <<dirs, vecs, torn, shared>>
        /\ entries' = [entries EXCEPT ![n] = hd.meta]
    BY <1>11 DEF RenameSave, histVars
  <2>2. Suspect' = Suspect
    BY <2>1 DEF Suspect
  <2>3. /\ \A k \in Names \ {n} : entries'[k] = entries[k] /\ (Listed(k)' <=> Listed(k))
        /\ entries'[n] = hd.meta /\ Listed(n)'
    BY <1>1, <2>1, WithAfter
  <2>4. ~Listed(o)' /\ (so \notin Suspect' => dirs'[so] = Missing /\ vecs'[so] = Missing)
    <3>1. ~Listed(o)
      BY <2>1 DEF KbInv, HandlerOK, Idle
    <3> QED
      BY <1>1, <1>3, <2>1, <2>2, <2>3, <3>1
  <2>5. sn \notin Suspect' => Ready(n)'
    BY <1>1, <1>3, <2>1, <2>2, <2>3 DEF Ready, DocsOf, Contents
  <2>6. Tainted'
    BY <1>0, <2>1 DEF Tainted, Renaming
  <2>7. \A h \in {o, n} : Slug[h] \notin Suspect' =>
          /\ Listed(h)' => Ready(h)'
          /\ ~Listed(h)' => dirs'[Slug[h]] = Missing /\ vecs'[Slug[h]] = Missing
    BY <2>3, <2>4, <2>5
  <2> QED
    BY <1>0, <1>1, <2>1, <2>2, <2>3, <2>6, <2>7, SlugContinue
<1> QED
  <2>1. RenameVec => \/ vecs[so] = Missing
                     \/ vecs[so] # Missing /\ vecs[sn] # Missing
                     \/ vecs[so] # Missing /\ vecs[sn] = Missing
    OBVIOUS
  <2> QED
    BY <1>6, <1>7, <1>8, <1>9, <1>10, <1>11, <2>1

LEMMA SlugDeletes ==
  ASSUME TypeOK, KbInv, SlugInv, NEW n \in Names, hd.old = n, hd.new = n,
         DeleteDir \/ DeleteVec \/ DeleteEntry
  PROVE  SlugInv'
<1>0. hd.pc \in Deleting /\ hd.pc # "idle" /\ hd.pc \notin Renaming /\ Idle.pc = "idle"
      /\ UNCHANGED <<torn, shared>>
  BY DEF DeleteDir, DeleteVec, DeleteEntry, Deleting, Renaming, Idle, histVars
<1> DEFINE s == Slug[n]
<1>1. /\ s \in Slugs
      /\ s \notin Suspect => HandStores(n)
  BY <1>0, HandFinds
<1>2. s \notin Suspect =>
        /\ hd.pc \in {"deleteVec", "deleteEntry"} => dirs[s] = Missing
        /\ hd.pc \in {"deleteDir", "deleteVec"} => Contents(vecs[s]) = hd.meta.docs
        /\ hd.pc = "deleteEntry" => vecs[s] = Missing
  BY <1>1 DEF HandStores
<1>3. Suspect' = Suspect
  BY <1>0 DEF Suspect
<1>4. CASE DeleteDir
  <2>1. hd.pc = "deleteDir" /\ Goto("deleteVec") /\ UNCHANGED <<entries, vecs>>
        /\ dirs' = [dirs EXCEPT ![s] = Missing]
    BY <1>4 DEF DeleteDir
  <2>2. dirs'[s] = Missing /\ \A r \in Slugs \ {s} : dirs'[r] = dirs[r]
    BY <1>1, <2>1, KbTypes
  <2>3. hd'.pc = "deleteVec" /\ hd'.old = n /\ hd'.new = n /\ hd'.meta = hd.meta
    BY <1>1, <2>1, KbTypes DEF Goto, Handlers
  <2>4. s \notin Suspect' => HandStores(n)'
    BY <1>2, <1>3, <2>1, <2>2, <2>3
       DEF HandStores, Creating, Renaming, Indexing, Dropping, Contents
  <2>5. Tainted'
    BY <2>3 DEF Tainted, Renaming
  <2>6. hd'.pc # "idle"
    BY <2>3
  <2> QED
    BY <1>0, <1>1, <1>3, <2>1, <2>2, <2>3, <2>4, <2>5, <2>6, SlugContinue
<1>5. CASE DeleteVec
  <2>1. hd.pc = "deleteVec" /\ Goto("deleteEntry") /\ UNCHANGED <<entries, dirs>>
        /\ vecs' = [vecs EXCEPT ![s] = Missing]
    BY <1>5 DEF DeleteVec
  <2>2. vecs'[s] = Missing /\ \A r \in Slugs \ {s} : vecs'[r] = vecs[r]
    BY <1>1, <2>1, KbTypes
  <2>3. hd'.pc = "deleteEntry" /\ hd'.old = n /\ hd'.new = n /\ hd'.meta = hd.meta
    BY <1>1, <2>1, KbTypes DEF Goto, Handlers
  <2>4. s \notin Suspect' => HandStores(n)'
    BY <1>2, <1>3, <2>1, <2>2, <2>3
       DEF HandStores, Creating, Renaming, Indexing, Dropping, Contents
  <2>5. Tainted'
    BY <2>3 DEF Tainted, Renaming
  <2>6. hd'.pc # "idle"
    BY <2>3
  <2> QED
    BY <1>0, <1>1, <1>3, <2>1, <2>2, <2>3, <2>4, <2>5, <2>6, SlugContinue
<1>6. CASE DeleteEntry
  <2>1. hd.pc = "deleteEntry" /\ hd' = Idle /\ UNCHANGED <<dirs, vecs>>
        /\ entries' = [entries EXCEPT ![n] = Missing]
    BY <1>6 DEF DeleteEntry
  <2>2. ~Listed(n)' /\ \A k \in Names \ {n} : entries'[k] = entries[k]
    BY <1>1, <2>1, KbTypes DEF Listed
  <2>3. s \notin Suspect' => dirs'[s] = Missing /\ vecs'[s] = Missing
    BY <1>2, <1>3, <2>1
  <2>4. Tainted'
    BY <1>0, <2>1 DEF Tainted, Renaming
  <2> QED
    BY <1>0, <1>1, <1>3, <2>1, <2>2, <2>3, <2>4, SlugContinue
<1> QED
  BY <1>4, <1>5, <1>6

LEMMA SlugSaves ==
  ASSUME TypeOK, KbInv, SlugInv, NEW n \in Names, hd.old = n, hd.new = n,
         IndexVec \/ IndexSave \/ DropVec \/ DropSave
  PROVE  SlugInv'
<1>0. /\ hd.pc \in Indexing \cup Dropping /\ hd.pc # "idle" /\ hd.pc \notin Renaming
      /\ Idle.pc = "idle" /\ UNCHANGED <<dirs, torn, shared>>
  BY DEF IndexVec, IndexSave, DropVec, DropSave, Indexing, Dropping, Renaming, Idle, histVars
<1> DEFINE s == Slug[n]
<1>1. s \in Slugs /\ (s \notin Suspect => HandStores(n))
  BY <1>0, HandFinds
<1>2. s \notin Suspect =>
        /\ hd.pc \in {"indexVec", "dropVec"} => Contents(vecs[s]) = hd.meta.docs
        /\ hd.pc \in Indexing => dirs[s] = hd.meta.docs \cup {hd.doc}
        /\ hd.pc = "indexSave" => Contents(vecs[s]) = hd.meta.docs \cup {hd.doc}
        /\ hd.pc \in Dropping => dirs[s] = hd.meta.docs \ {hd.doc}
        /\ hd.pc = "dropSave" => Contents(vecs[s]) = hd.meta.docs \ {hd.doc}
  BY <1>1 DEF HandStores
<1>3. Suspect' = Suspect
  BY <1>0 DEF Suspect
<1>4. hd.meta \in Metas /\ hd.meta.docs \subseteq Docs /\ hd.doc \in Docs
  <2>1. hd.doc \in 1 .. docs
    BY <1>0 DEF KbInv, HandlerOK, Idle
  <2>2. 1 .. docs \subseteq Docs
    BY KbConstants, SMT DEF TypeOK, Docs
  <2> QED
    BY <1>0, <2>1, <2>2, HandFinds DEF Metas
<1>5. \A X : X \subseteq Docs => Contents(X) = X
  BY KbConstants DEF Contents
<1>6. CASE IndexVec \/ DropVec
  <2> DEFINE X == IF hd.pc = "indexVec" THEN Contents(vecs[s]) \cup {hd.doc}
                  ELSE Contents(vecs[s]) \ {hd.doc}
  <2>1. /\ \/ hd.pc = "indexVec" /\ Goto("indexSave")
           \/ hd.pc = "dropVec" /\ Goto("dropSave")
        /\ UNCHANGED entries /\ vecs' = [vecs EXCEPT ![s] = X]
    BY <1>6 DEF IndexVec, DropVec
  <2>2. vecs'[s] = X /\ \A r \in Slugs \ {s} : vecs'[r] = vecs[r]
    BY <1>1, <2>1, KbTypes
  <2>3. /\ \/ hd.pc = "indexVec" /\ hd'.pc = "indexSave"
           \/ hd.pc = "dropVec" /\ hd'.pc = "dropSave"
        /\ hd'.old = n /\ hd'.new = n /\ hd'.meta = hd.meta /\ hd'.doc = hd.doc
    BY <2>1, KbTypes DEF Goto, Handlers
  <2>4. s \notin Suspect =>
          Contents(vecs'[s]) = IF hd.pc = "indexVec" THEN hd.meta.docs \cup {hd.doc}
                               ELSE hd.meta.docs \ {hd.doc}
    <3>1. s \notin Suspect => X = IF hd.pc = "indexVec" THEN hd.meta.docs \cup {hd.doc}
                                  ELSE hd.meta.docs \ {hd.doc}
      BY <1>2, <2>3
    <3>2. s \notin Suspect => X \subseteq Docs
      BY <1>4, <3>1
    <3> QED
      BY <1>5, <2>2, <3>1, <3>2
  <2>5. s \notin Suspect' => HandStores(n)'
    <3> HIDE DEF X
    <3>1. Contents(vecs[s])' = Contents(vecs'[s])
      BY DEF Contents
    <3> QED
      BY <1>0, <1>2, <1>3, <2>3, <2>4, <3>1
         DEF HandStores, Creating, Renaming, Indexing, Dropping
  <2>6. Tainted' /\ hd'.pc # "idle"
    BY <2>3 DEF Tainted, Renaming
  <2> HIDE DEF X
  <2> QED
    BY <1>0, <1>1, <1>3, <2>1, <2>2, <2>3, <2>5, <2>6, SlugContinue
<1>7. CASE IndexSave \/ DropSave
  <2>1. PICK x \in Metas :
          /\ entries' = [entries EXCEPT ![n] = x]
          /\ x.docs = IF hd.pc = "indexSave" THEN hd.meta.docs \cup {hd.doc}
                      ELSE hd.meta.docs \ {hd.doc}
    <3> DEFINE y == [hd.meta EXCEPT !.docs = @ \cup {hd.doc}]
               z == [hd.meta EXCEPT !.docs = @ \ {hd.doc}]
    <3>1. y \in Metas /\ y.docs = hd.meta.docs \cup {hd.doc}
      BY <1>4 DEF Metas
    <3>2. z \in Metas /\ z.docs = hd.meta.docs \ {hd.doc}
      BY <1>4 DEF Metas
    <3>3. \/ hd.pc = "indexSave" /\ entries' = [entries EXCEPT ![n] = y]
          \/ hd.pc = "dropSave" /\ entries' = [entries EXCEPT ![n] = z]
      BY <1>7 DEF IndexSave, DropSave
    <3> HIDE DEF y, z
    <3> QED
      BY <3>1, <3>2, <3>3
  <2>2. hd.pc \in {"indexSave", "dropSave"} /\ hd' = Idle /\ UNCHANGED vecs
    BY <1>7 DEF IndexSave, DropSave
  <2>3. /\ \A k \in Names \ {n} : entries'[k] = entries[k]
        /\ Listed(n)' /\ DocsOf(n)' = x.docs
    <3>1. /\ \A k \in Names \ {n} : entries'[k] = entries[k]
          /\ entries'[n] = x /\ (Listed(n)' <=> x # Missing)
      BY <2>1, WithAfter
    <3> QED
      BY <2>1, <3>1, KbConstants DEF DocsOf
  <2>4. s \notin Suspect => dirs[s] = x.docs /\ Contents(vecs[s]) = x.docs
    BY <1>2, <2>1, <2>2 DEF Indexing, Dropping
  <2>5. s \notin Suspect' => Ready(n)'
    BY <1>0, <1>3, <2>2, <2>3, <2>4 DEF Ready, Contents
  <2>6. Tainted'
    BY <1>0, <2>2 DEF Tainted, Renaming
  <2> QED
    BY <1>0, <1>1, <1>3, <2>2, <2>3, <2>5, <2>6, SlugContinue
<1> QED
  BY <1>6, <1>7

\* A crash or a raising call leaves files behind, and they are suspect.
LEMMA SlugInterrupted ==
  ASSUME TypeOK, KbInv, SlugInv, NEW o \in Names, NEW n \in Names, hd.old = o, hd.new = n,
         Interrupted
  PROVE  SlugInv'
<1>1. hd.pc # "idle" /\ hd' = Idle /\ UNCHANGED <<entries, dirs, vecs, shared>>
      /\ torn' = torn \cup {Slug[o], Slug[n]} /\ Idle.pc = "idle"
  BY DEF Interrupted, Idle, diskVars
<1>2. Suspect \subseteq Suspect' /\ Slug[o] \in Suspect' /\ Slug[n] \in Suspect'
  BY <1>1 DEF Suspect
<1>3. Tainted'
  BY <1>1 DEF Tainted, Renaming
<1> QED
  BY <1>1, <1>2, <1>3, SlugContinue

LEMMA SlugNext ==
  ASSUME TypeOK, KbInv, SlugInv, [Next]_vars
  PROVE  SlugInv'
<1>1. \/ \E n \in Names, m \in Models : CreateBegin(n, m)
      \/ \E o, n \in Names : RenameBegin(o, n)
      \/ \E n \in Names : DeleteFiles(n) \/ IndexFile(n) \/ \E d \in Docs : DropFile(n, d)
      => SlugInv'
  BY SlugBeginsCreate, SlugBeginsRename, SlugBeginsOther
<1>2. hd.pc # "idle" => /\ hd.old \in Names /\ hd.new \in Names
                        /\ hd.pc \notin Renaming => hd.old = hd.new
  BY HandFinds
<1>3. CreateSave \/ CreateModel => SlugInv'
  <2>1. CreateSave \/ CreateModel => hd.pc # "idle" /\ hd.pc \notin Renaming
    BY DEF CreateSave, CreateModel, Renaming
  <2> QED
    BY <1>2, <2>1, SlugCreates
<1>4. RenameVec \/ RenameUnlink \/ RenameDrop \/ RenameSave => SlugInv'
  <2>1. RenameVec \/ RenameUnlink \/ RenameDrop \/ RenameSave => hd.pc # "idle"
    BY DEF RenameVec, RenameUnlink, RenameDrop, RenameSave
  <2> QED
    BY <1>2, <2>1, SlugRenames
<1>5. DeleteDir \/ DeleteVec \/ DeleteEntry => SlugInv'
  <2>1. DeleteDir \/ DeleteVec \/ DeleteEntry => hd.pc # "idle" /\ hd.pc \notin Renaming
    BY DEF DeleteDir, DeleteVec, DeleteEntry, Renaming
  <2> QED
    BY <1>2, <2>1, SlugDeletes
<1>6. IndexVec \/ IndexSave \/ DropVec \/ DropSave => SlugInv'
  <2>1. IndexVec \/ IndexSave \/ DropVec \/ DropSave => hd.pc # "idle" /\ hd.pc \notin Renaming
    BY DEF IndexVec, IndexSave, DropVec, DropSave, Renaming
  <2> QED
    BY <1>2, <2>1, SlugSaves
<1>7. Interrupted => SlugInv'
  <2>1. Interrupted => hd.pc # "idle"
    BY DEF Interrupted
  <2> QED
    BY <1>2, <2>1, SlugInterrupted
<1>8. (\E i \in Ids : SearchFind(i)) \/ SearchRequire \/ SearchVectors \/ SearchEnd
      \/ UNCHANGED vars => SlugInv'
  <2> SUFFICES ASSUME UNCHANGED <<entries, dirs, vecs, hd, torn, shared>> PROVE SlugInv'
    BY DEF SearchFind, SearchRequire, SearchVectors, SearchEnd, diskVars, histVars, vars
  <2>1. Suspect' = Suspect
    BY DEF Suspect
  <2>2. \A n \in Names : /\ Occupies(n)' <=> Occupies(n)
                         /\ InHand(n)' <=> InHand(n)
                         /\ Listed(n)' <=> Listed(n)
    BY DEF Occupies, InHand, Listed
  <2>3. \A n \in Names : Ready(n)' <=> Ready(n)
    BY DEF Ready, DocsOf, Listed, Contents
  <2>4. \A n \in Names : HandStores(n)' <=> HandStores(n)
    BY <2>3 DEF HandStores, Contents
  <2>5. Apart' /\ Tainted' /\ Vacant'
    BY <2>1, <2>2 DEF SlugInv, Apart, Tainted, Vacant
  <2>6. Stored'
    BY <2>1, <2>2, <2>3, <2>4 DEF SlugInv, Stored
  <2> QED
    BY <2>5, <2>6 DEF SlugInv
<1> QED
  BY <1>1, <1>3, <1>4, <1>5, <1>6, <1>7, <1>8 DEF Next

LEMMA SlugInit == Init => SlugInv
<1> SUFFICES ASSUME Init PROVE SlugInv
  OBVIOUS
<1>1. /\ hd.pc = "idle" /\ \A n \in Names : ~Listed(n) /\ ~Occupies(n) /\ ~InHand(n)
      /\ \A s \in Slugs : dirs[s] = Missing /\ vecs[s] = Missing
  BY DEF Init, Idle, Listed, Occupies, InHand
<1> QED
  BY <1>1 DEF SlugInv, Apart, Tainted, Vacant, Stored, Renaming

\* Files that no interrupted handler and no second knowledge base touched hold exactly what
\* the metadata list, between any two handlers (StoresMatch).
THEOREM StoresFollowTheList == Spec => []StoresMatch
<1>1. TypeOK /\ KbInv /\ SlugInv => StoresMatch
  <2> SUFFICES ASSUME TypeOK, KbInv, SlugInv, hd.pc = "idle", NEW s \in Slugs \ (torn \cup shared)
               PROVE  LET listed == UNION {entries[n].docs : n \in Holding(s)}
                      IN /\ Contents(dirs[s]) = listed /\ Contents(vecs[s]) = listed
                         /\ Holding(s) = {} => dirs[s] = Missing /\ vecs[s] = Missing
    BY DEF StoresMatch
  <2>1. CASE Holding(s) = {}
    <3>1. \A n \in Names : Slug[n] = s => ~Occupies(n)
      BY <2>1 DEF Holding, Occupies, InHand
    <3>2. dirs[s] = Missing /\ vecs[s] = Missing
      BY <3>1 DEF SlugInv, Vacant, Suspect
    <3> QED
      BY <2>1, <3>2 DEF Contents
  <2>2. ASSUME NEW n \in Holding(s)
        PROVE  /\ Holding(s) = {n} /\ Contents(dirs[s]) = entries[n].docs
               /\ Contents(vecs[s]) = entries[n].docs
    <3>1. n \in Names /\ Listed(n) /\ Slug[n] = s /\ Slug[n] \notin Suspect
      BY <2>2 DEF Holding, Suspect
    <3>2. /\ Contents(dirs[s]) = entries[n].docs /\ Contents(vecs[s]) = entries[n].docs
          /\ \A k \in Names \ {n} : Listed(k) => Slug[k] # s
      BY <3>1, AtRest
    <3> QED
      BY <3>1, <3>2 DEF Holding
  <2> QED
    BY <2>1, <2>2
<1>2. Spec => [](TypeOK /\ KbInv /\ SlugInv)
  <2>1. Init => TypeOK /\ KbInv /\ SlugInv
    BY KbInit, SlugInit
  <2>2. TypeOK /\ KbInv /\ SlugInv /\ [Next]_vars => (TypeOK /\ KbInv /\ SlugInv)'
    BY KbNext, SlugNext
  <2> QED
    BY <2>1, <2>2, PTL DEF Spec
<1> QED
  BY <1>1, <1>2, PTL

-----------------------------------------------------------------------------
(* Searches.                                                                *)

\* A search that no rename and no deletion crossed still has the name it found, and what it
\* read of it is of its knowledge base.
SearchInv ==
  srch.pc # "idle" /\ ~srch.crossed =>
    /\ chosen[srch.id] # NoModel
    /\ Listed(srch.name) /\ entries[srch.name].id = srch.id
    /\ hd.pc \in Renaming \cup Deleting => hd.meta.id # srch.id
    /\ srch.pc \in {"required", "cited"} => srch.model = chosen[srch.id]
    /\ srch.pc = "cited" =>
         /\ srch.found \subseteq 1 .. docs
         /\ Slug[srch.name] \notin Suspect => Owned(srch.found, srch.id)

\* If a handler has that name in hand it indexes or removes a document of it.
LEMMA SearchedInHand ==
  ASSUME TypeOK, KbInv, SearchInv, srch.pc # "idle", ~srch.crossed, InHand(srch.name)
  PROVE  hd.pc \in Indexing \cup Dropping /\ hd.meta = entries[srch.name]
         /\ hd.meta.id = srch.id /\ srch.name = hd.old
<1>1. /\ chosen[srch.id] # NoModel /\ Listed(srch.name) /\ entries[srch.name].id = srch.id
      /\ hd.pc \in Renaming \cup Deleting => hd.meta.id # srch.id
      /\ hd.pc # "idle" /\ srch.name \in {hd.old, hd.new} /\ hd.pc \in Steps /\ hd # Idle
  BY KbTypes DEF SearchInv, InHand, Handlers, Idle
<1>2. hd.pc \notin Creating
  <2>1. hd.pc # "createSave"
    BY <1>1 DEF KbInv, HandlerOK, Creating
  <2>2. ASSUME hd.pc = "createModel" PROVE FALSE
    <3>1. /\ entries[hd.new] = [hd.meta EXCEPT !.model = NoModel] /\ hd.old = hd.new
          /\ chosen[hd.meta.id] = NoModel
      BY <1>1, <2>2 DEF KbInv, HandlerOK, Creating
    <3>2. entries[hd.new].id = hd.meta.id
      BY <3>1, KbTypes DEF Handlers, Metas
    <3> QED
      BY <1>1, <3>1, <3>2
  <2> QED
    BY <2>1, <2>2 DEF Creating
<1>3. hd.pc \notin Renaming
  BY <1>1, <1>2 DEF KbInv, HandlerOK, Renaming
<1>4. hd.old = hd.new /\ entries[hd.old] = hd.meta
  BY <1>1, <1>2, <1>3
     DEF KbInv, HandlerOK, Steps, Creating, Renaming, Deleting, Indexing, Dropping
<1> QED
  BY <1>1, <1>2, <1>3, <1>4 DEF Steps, Creating, Renaming, Deleting, Indexing, Dropping

\* What other steps do to a search they do not cross.
LEMMA SearchUndisturbed ==
  ASSUME TypeOK, KbInv, SearchInv, [Next]_vars, srch' = srch
  PROVE  SearchInv'
<1> SUFFICES ASSUME srch.pc # "idle", ~srch.crossed PROVE SearchInv'
  BY DEF SearchInv
<1>0. srch.name \in Names /\ srch.id \in Ids
  BY DEF KbInv, SearchOK
<1>1. /\ chosen[srch.id] # NoModel /\ Listed(srch.name) /\ entries[srch.name].id = srch.id
      /\ hd.pc \in Renaming \cup Deleting => hd.meta.id # srch.id
  BY DEF SearchInv
<1>2. chosen'[srch.id] = chosen[srch.id]
  <2>1. CASE CreateModel
    <3>1. chosen[hd.meta.id] = NoModel
      BY <2>1 DEF CreateModel, KbInv, HandlerOK, Idle, Creating
    <3>2. chosen' = [chosen EXCEPT ![hd.meta.id] = hd.meta.model]
      BY <2>1 DEF CreateModel
    <3> QED
      BY <1>0, <1>1, <3>1, <3>2, KbTypes
  <2>2. CASE ~CreateModel
    BY <2>2 DEF Next, vars, diskVars, histVars, CreateBegin, CreateSave, RenameBegin, RenameVec,
         RenameUnlink, RenameDrop, RenameSave, DeleteFiles, DeleteDir, DeleteVec, DeleteEntry,
         IndexFile, DropFile, IndexVec, IndexSave, DropVec, DropSave, SearchFind, SearchRequire,
         SearchVectors, SearchEnd, Interrupted
  <2> QED
    BY <2>1, <2>2
<1>3. Listed(srch.name)' /\ entries'[srch.name].id = srch.id
  <2>1. CASE entries' = entries
    BY <1>1, <2>1 DEF Listed
  <2>2. ASSUME NEW n \in Names, NEW x \in Metas \cup {Missing},
               entries' = [entries EXCEPT ![n] = x], n \in {hd.old, hd.new}, hd.pc # "idle",
               x # Missing => x.id = hd.meta.id, x = Missing => hd.pc \in Renaming \cup Deleting
        PROVE  entries'[srch.name] # Missing /\ entries'[srch.name].id = srch.id
    <3>1. /\ \A k \in Names \ {n} : entries'[k] = entries[k]
          /\ entries'[n] = x
      BY <2>2, WithAfter
    <3>2. CASE n = srch.name
      <4>1. InHand(srch.name)
        BY <2>2, <3>2 DEF InHand
      <4>2. hd.pc \in Indexing \cup Dropping /\ hd.meta.id = srch.id
        BY <4>1, SearchedInHand
      <4>3. hd.pc \notin Renaming \cup Deleting
        BY <4>2 DEF Renaming, Deleting, Indexing, Dropping
      <4> QED
        BY <2>2, <3>1, <3>2, <4>2, <4>3
    <3>3. CASE n # srch.name
      BY <1>0, <1>1, <3>1, <3>3 DEF Listed
    <3> QED
      BY <3>2, <3>3
  <2>3. entries'[srch.name] # Missing /\ entries'[srch.name].id = srch.id
    BY <2>1, <2>2, <1>1, EntryWritten DEF Listed
  <2> QED
    BY <2>3 DEF Listed
<1>4. hd'.pc \in Renaming \cup Deleting => hd'.meta.id # srch.id
  <2>1. ASSUME NEW n \in Names, IndexFile(n) PROVE hd'.pc \notin Renaming \cup Deleting
    BY <2>1 DEF IndexFile, Renaming, Deleting
  <2>2. ASSUME NEW i, CrossSearch(i) PROVE i # srch.id
    <3>1. [srch EXCEPT !.crossed = TRUE].crossed
      BY KbTypes DEF Searches
    <3> QED
      BY <2>2, <3>1 DEF CrossSearch
  <2>3. "idle" \notin Renaming \cup Deleting
    BY DEF Renaming, Deleting
  <2> QED
    BY <1>1, <2>1, <2>2, <2>3, HandAfter
<1>5. srch.pc = "cited" =>
        /\ srch.found \subseteq 1 .. docs'
        /\ Slug[srch.name] \notin Suspect' => Owned(srch.found, srch.id)'
  BY NothingForgotten DEF SearchInv, Suspect, Owned
<1>6. srch.pc \in {"required", "cited"} => srch.model = chosen'[srch.id]
  BY <1>2 DEF SearchInv
<1>7. Owned(srch.found, srch.id)' <=> \A d \in srch.found : owner'[d] = srch.id
  BY DEF Owned
<1> QED
  BY <1>1, <1>2, <1>3, <1>4, <1>5, <1>6, <1>7 DEF SearchInv, Listed, Owned

\* The vector file of the name holds only documents of the knowledge base.
LEMMA FilesAreOwned ==
  ASSUME TypeOK, KbInv, OwnInv, SlugInv, SearchInv, srch.pc # "idle", ~srch.crossed,
         Slug[srch.name] \notin Suspect
  PROVE  Owned(Contents(vecs[Slug[srch.name]]), srch.id)
<1>1. srch.name \in Names /\ Listed(srch.name) /\ entries[srch.name].id = srch.id
  BY DEF KbInv, SearchOK, SearchInv
<1>2. Owned(entries[srch.name].docs, srch.id)
  BY <1>1 DEF OwnInv
<1>3. CASE ~InHand(srch.name)
  <2>1. Contents(vecs[Slug[srch.name]]) = entries[srch.name].docs
    BY <1>1, <1>3 DEF SlugInv, Stored, Ready, DocsOf
  <2> QED
    BY <1>2, <2>1
<1>4. CASE InHand(srch.name)
  <2>1. hd.pc \in Indexing \cup Dropping /\ hd.meta = entries[srch.name] /\ hd.meta.id = srch.id
    BY <1>4, SearchedInHand
  <2>2. HandStores(srch.name)
    BY <1>1, <1>4 DEF SlugInv, Stored
  <2>3. hd.pc \in Indexing => Owned(hd.meta.docs \cup {hd.doc}, srch.id)
    BY <1>2, <2>1 DEF OwnInv, Owned
  <2>4. Contents(vecs[Slug[srch.name]]) \subseteq hd.meta.docs
        \/ (hd.pc \in Indexing /\ Contents(vecs[Slug[srch.name]]) = hd.meta.docs \cup {hd.doc})
    BY <2>1, <2>2 DEF HandStores, Indexing, Dropping
  <2> QED
    BY <1>2, <2>1, <2>3, <2>4 DEF Owned
<1> QED
  BY <1>3, <1>4

LEMMA SearchSteps ==
  ASSUME TypeOK, KbInv, OwnInv, SlugInv, SearchInv,
         \/ \E i \in Ids : SearchFind(i)
         \/ SearchRequire \/ SearchVectors
  PROVE  SearchInv'
<1>0. UNCHANGED <<entries, vecs, hd, chosen, owner, docs, torn, shared>> /\ srch \in Searches
  BY KbTypes DEF SearchFind, SearchRequire, SearchVectors, diskVars, counters, histVars
<1>1. ASSUME NEW i \in Ids, SearchFind(i) PROVE SearchInv'
  <2> DEFINE x == hd.meta.id = i /\ (hd.old # hd.new \/ hd.pc \in
                    {"deleteDir", "deleteVec", "deleteEntry"})
  <2>1. ~x => (hd.pc \in Renaming \cup Deleting => hd.meta.id # i)
    BY DEF KbInv, HandlerOK, Idle, Renaming, Deleting
  <2> HIDE DEF x
  <2>2. PICK n \in With(i) :
          srch' = [NoSearch EXCEPT !.pc = "found", !.id = i, !.name = n, !.crossed = x]
    BY <1>1 DEF SearchFind, x
  <2>3. srch' = [pc |-> "found", id |-> i, name |-> n, model |-> NoModel, found |-> {},
                 crossed |-> x]
    BY <2>2 DEF NoSearch
  <2>4. srch'.pc = "found" /\ srch'.id = i /\ srch'.name = n /\ srch'.crossed = x
    BY <2>3
  <2>5. chosen[i] # NoModel /\ Listed(n) /\ entries[n].id = i
    BY <1>1 DEF SearchFind, With
  <2> QED
    BY <1>0, <2>1, <2>4, <2>5 DEF SearchInv, Listed
<1>2. CASE SearchRequire
  <2>0. srch.pc = "found" /\ (~Listed(srch.name) => srch' = NoSearch)
        /\ (Listed(srch.name) =>
              srch' = [srch EXCEPT !.pc = "required", !.model = ModelOf(srch.name)])
    BY <1>2 DEF SearchRequire
  <2>1. CASE ~Listed(srch.name)
    BY <2>0, <2>1 DEF SearchInv, NoSearch
  <2>2. CASE Listed(srch.name)
    <3>1. srch'.pc = "required" /\ srch'.id = srch.id /\ srch'.name = srch.name
          /\ srch'.model = ModelOf(srch.name) /\ srch'.crossed = srch.crossed
      BY <1>0, <2>0, <2>2 DEF Searches
    <3>2. ASSUME ~srch.crossed PROVE ModelOf(srch.name) = chosen[srch.id]
      <4>1. srch.name \in Names /\ chosen[srch.id] # NoModel /\ entries[srch.name].id = srch.id
        BY <2>0, <3>2 DEF KbInv, SearchOK, SearchInv
      <4>2. chosen[srch.id] \in {NoModel, entries[srch.name].model}
        BY <2>2, <4>1 DEF KbInv, ModelKept
      <4> QED
        BY <4>1, <4>2 DEF ModelOf
    <3> QED
      BY <1>0, <2>0, <3>1, <3>2 DEF SearchInv, Listed
  <2> QED
    BY <2>1, <2>2
<1>3. CASE SearchVectors
  <2> DEFINE X == Contents(vecs[Slug[srch.name]])
  <2>1. srch.pc = "required" /\ srch' = [srch EXCEPT !.pc = "cited", !.found = X]
    BY <1>3 DEF SearchVectors
  <2>2. X \subseteq 1 .. docs
    BY <2>1, KbConstants DEF OwnInv, KbInv, SearchOK
  <2>3. ~srch.crossed /\ Slug[srch.name] \notin Suspect => Owned(X, srch.id)
    BY <2>1, FilesAreOwned
  <2> HIDE DEF X
  <2>4. /\ srch'.pc = "cited" /\ srch'.id = srch.id /\ srch'.name = srch.name
        /\ srch'.model = srch.model /\ srch'.crossed = srch.crossed /\ srch'.found = X
    BY <1>0, <2>1 DEF Searches
  <2> QED
    BY <1>0, <2>1, <2>2, <2>3, <2>4 DEF SearchInv, Listed, Owned, Suspect
<1> QED
  BY <1>1, <1>2, <1>3

LEMMA SearchInvNext ==
  ASSUME TypeOK, KbInv, OwnInv, SlugInv, SearchInv, [Next]_vars
  PROVE  SearchInv'
<1>1. CASE (\E i \in Ids : SearchFind(i)) \/ SearchRequire \/ SearchVectors
  BY <1>1, SearchSteps
<1>2. CASE srch' = srch
  BY <1>2, SearchUndisturbed
<1>3. CASE srch'.pc = "idle" \/ srch'.crossed
  BY <1>3 DEF SearchInv
<1>4. \A i : CrossSearch(i) => srch' = srch \/ srch'.crossed
  BY KbTypes DEF CrossSearch, Searches
<1>5. NoSearch.pc = "idle"
  BY DEF NoSearch
<1> QED
  BY <1>1, <1>2, <1>3, <1>4, <1>5
     DEF Next, vars, CreateBegin, CreateSave, CreateModel, RenameBegin, RenameVec, RenameUnlink,
         RenameDrop, RenameSave, DeleteFiles, DeleteDir, DeleteVec, DeleteEntry, IndexFile,
         DropFile, IndexVec, IndexSave, DropVec, DropSave, SearchEnd, Interrupted

\* A knowledge base is searched with the model it was created with, and a search of it cites
\* only its documents, unless a rename or a deletion crossed it or its files are suspect
\* (FindsItsOwn).
THEOREM SearchesFindTheirOwn == Spec => []FindsItsOwn
<1>1. TypeOK /\ KbInv => OneModel
  <2> SUFFICES ASSUME KbInv, NEW i \in Ids, NEW n \in With(i), chosen[i] # NoModel
               PROVE  ModelOf(n) = chosen[i]
    BY DEF OneModel
  <2>1. chosen[i] \in {NoModel, entries[n].model}
    BY DEF With, KbInv, ModelKept
  <2> QED
    BY <2>1 DEF ModelOf
<1>2. TypeOK /\ KbInv /\ SearchInv => CitesOwn
  BY DEF CitesOwn, SearchInv, Suspect, Owned
<1>3. Init => TypeOK /\ KbInv /\ OwnInv /\ SlugInv /\ SearchInv
  <2>1. Init => OwnInv
    <3> SUFFICES ASSUME Init PROVE OwnInv
      OBVIOUS
    <3>1. hd.pc = "idle" /\ \A n \in Names : ~Listed(n)
      BY DEF Init, Idle, Listed
    <3>2. \A s \in Slugs : Contents(vecs[s]) = {}
      BY DEF Init, Contents
    <3> QED
      BY <3>1, <3>2 DEF OwnInv, Indexing
  <2>2. Init => SearchInv
    BY DEF Init, NoSearch, SearchInv
  <2> QED
    BY <2>1, <2>2, KbInit, SlugInit
<1>4. TypeOK /\ KbInv /\ OwnInv /\ SlugInv /\ SearchInv /\ [Next]_vars
      => (TypeOK /\ KbInv /\ OwnInv /\ SlugInv /\ SearchInv)'
  BY KbNext, OwnNext, SlugNext, SearchInvNext
<1>5. Spec => [](TypeOK /\ KbInv /\ OwnInv /\ SlugInv /\ SearchInv)
  BY <1>3, <1>4, PTL DEF Spec
<1> QED
  BY <1>1, <1>2, <1>5, PTL DEF FindsItsOwn

-----------------------------------------------------------------------------
(* What is arranged around the answers: rows that several servers write.    *)

Whole == [name : Labels, content : Texts, snippet : Texts]
Moves == [doing : {"move"}, conv : Rows, folder : Nat]
Deletes == [doing : {"delete"}, conv : Rows]
Updates == [doing : {"update"}, of : Rows, given : GivenFields, read : Whole]
Tasks == {Unoccupied} \cup Moves \cup Deletes \cup Bind \cup Updates

MadeInv ==
  /\ made \in [folders : 0 .. MaxRows, convs : 0 .. MaxRows, templates : 0 .. MaxRows]
  /\ spent \in [requests : 0 .. MaxCalls, faults : 0 .. MaxLosses]

FolderInv ==
  /\ folder \in [Rows -> Labels \cup {Absent}]
  /\ \A i \in Rows : folder[i] # Absent => i <= made.folders
  /\ \A i, j \in Rows : i # j /\ folder[i] # Absent => folder[i] # folder[j]

ConvInv ==
  /\ conv \in [Rows -> [status : {"none", "active", "deleted"}, folder : Nat]]
  /\ \A i \in Rows : IF i <= made.convs THEN conv[i].status # "none" /\ conv[i].folder \in Seen
                     ELSE conv[i] = NoConv

\* What a server is in the midst of concerns rows that were made.
AtInv ==
  /\ at \in [Servers -> Tasks]
  /\ \A s \in Servers :
       /\ at[s].doing \in {"move", "delete", "bind"} => at[s].conv \in Rows /\ at[s].conv <= made.convs
       /\ at[s].doing = "move" => at[s].folder \in Seen
       /\ at[s].doing = "update" => at[s].of \in Rows /\ at[s].of <= made.templates

\* A bind that nobody overlapped has switched off, or is still to, every link there was.
BindsAlone ==
  \A s \in Servers : Binds(s) /\ at[s].alone =>
    /\ Others(s) = {}
    /\ \A k \in Kbs : link[at[s].conv][k] # "none" => k \in at[s].off \cup DOMAIN at[s].wrote

LinkInv ==
  /\ link \in [Rows -> [Kbs -> {"none", "on", "off"}]]
  /\ bound \in [Rows -> [kbs : SUBSET Kbs, alone : BOOLEAN]]
  /\ BindsAlone /\ LastBindIsActive

TemplateInv ==
  /\ template \in [Rows -> Whole \cup {NoTemplate}]
  /\ \A i \in Rows : template[i] # NoTemplate => i <= made.templates
  /\ meant \in [Rows -> [row : Templates, raced : BOOLEAN]]
  /\ \A i, j \in Rows : i # j /\ template[i] # NoTemplate => template[i].name # template[j].name
  /\ LostOnlyToOverlap

WorkspaceInv == MadeInv /\ FolderInv /\ ConvInv /\ AtInv /\ LinkInv /\ TemplateInv

LEMMA WorkspaceConstants ==
  /\ MaxRows \in Nat /\ MaxCalls \in Nat /\ MaxLosses \in Nat
  /\ Absent \notin Labels /\ Absent \notin Texts
  BY WorkspaceAssumption

\* Rows are made, never unmade.
LEMMA MadeNext ==
  ASSUME WorkspaceInv, [WorkspaceNext]_workspaceVars
  PROVE  /\ MadeInv'
         /\ made'.folders \in {made.folders, made.folders + 1}
         /\ made'.convs \in {made.convs, made.convs + 1}
         /\ made'.templates \in {made.templates, made.templates + 1}
         /\ made.folders <= made'.folders /\ made.convs <= made'.convs
         /\ made.templates <= made'.templates /\ Seen \subseteq Seen'
         /\ made.folders \in Nat /\ made.convs \in Nat /\ made.templates \in Nat
<1>0. /\ made.folders \in 0 .. MaxRows /\ made.convs \in 0 .. MaxRows
      /\ made.templates \in 0 .. MaxRows
      /\ spent \in [requests : 0 .. MaxCalls, faults : 0 .. MaxLosses]
      /\ made \in [folders : 0 .. MaxRows, convs : 0 .. MaxRows, templates : 0 .. MaxRows]
  BY DEF WorkspaceInv, MadeInv
<1>1. /\ made.folders \in Nat /\ made.convs \in Nat /\ made.templates \in Nat
      /\ made.folders <= made.folders + 1 /\ made.convs <= made.convs + 1
      /\ made.templates <= made.templates + 1 /\ made.folders <= made.folders
      /\ made.convs <= made.convs /\ made.templates <= made.templates
      /\ 0 .. made.folders \subseteq 0 .. made.folders + 1
  BY <1>0, WorkspaceConstants, SMT
<1>2. Request => spent' \in [requests : 0 .. MaxCalls, faults : 0 .. MaxLosses]
  <2>1. spent.requests < MaxCalls => spent.requests + 1 \in 0 .. MaxCalls
    BY <1>0, WorkspaceConstants, SMT
  <2> QED
    BY <1>0, <2>1 DEF Request
<1>3. \A s : Lost(s) => spent' \in [requests : 0 .. MaxCalls, faults : 0 .. MaxLosses]
  <2>1. spent.faults < MaxLosses => spent.faults + 1 \in 0 .. MaxLosses
    BY <1>0, WorkspaceConstants, SMT
  <2> QED
    BY <1>0, <2>1 DEF Lost
<1>4. /\ made.folders < MaxRows => made.folders + 1 \in 0 .. MaxRows
      /\ made.convs < MaxRows => made.convs + 1 \in 0 .. MaxRows
      /\ made.templates < MaxRows => made.templates + 1 \in 0 .. MaxRows
  BY <1>0, WorkspaceConstants, SMT
<1>5. \/ made' = made
      \/ made' = [made EXCEPT !.folders = made.folders + 1] /\ made.folders < MaxRows
      \/ made' = [made EXCEPT !.convs = made.convs + 1] /\ made.convs < MaxRows
      \/ made' = [made EXCEPT !.templates = made.templates + 1] /\ made.templates < MaxRows
  BY DEF WorkspaceNext, workspaceVars, CreateFolder, RenameFolder, DeleteFolder, DeleteTemplate,
         CreateConv, CreateTemplate, MoveBegin, DeleteBegin, BindBegin, UpdateBegin, BindOff,
         MoveEnd, DeleteEnd, BindOn, BindCommit, BindDeadlock, UpdateEnd, Lost
<1>6. spent' = spent \/ Request \/ \E s \in Servers : Lost(s)
  BY DEF WorkspaceNext, workspaceVars, CreateFolder, RenameFolder, DeleteFolder, DeleteTemplate,
         CreateConv, CreateTemplate, MoveBegin, DeleteBegin, BindBegin, UpdateBegin, BindOff,
         MoveEnd, DeleteEnd, BindOn, BindCommit, BindDeadlock, UpdateEnd
<1>7. spent' \in [requests : 0 .. MaxCalls, faults : 0 .. MaxLosses]
  BY <1>0, <1>2, <1>3, <1>6
<1>8. /\ made' \in [folders : 0 .. MaxRows, convs : 0 .. MaxRows, templates : 0 .. MaxRows]
      /\ made'.folders \in {made.folders, made.folders + 1}
      /\ made'.convs \in {made.convs, made.convs + 1}
      /\ made'.templates \in {made.templates, made.templates + 1}
  BY <1>0, <1>4, <1>5
<1> QED
  BY <1>1, <1>7, <1>8 DEF MadeInv, Seen

LEMMA FolderNext ==
  ASSUME WorkspaceInv, [WorkspaceNext]_workspaceVars
  PROVE  FolderInv'
<1>0. /\ folder \in [Rows -> Labels \cup {Absent}] /\ made.folders <= made'.folders
      /\ \A i \in Rows : folder[i] # Absent => i <= made'.folders
      /\ \A i, j \in Rows : i # j /\ folder[i] # Absent => folder[i] # folder[j]
  <2>1. \A i \in Rows : i <= made.folders => i <= made'.folders
    BY MadeNext, SMT DEF Rows
  <2> QED
    BY <2>1, MadeNext DEF WorkspaceInv, FolderInv
<1>1. ASSUME NEW i \in Rows, NEW x \in Labels \cup {Absent}, folder' = [folder EXCEPT ![i] = x],
             x # Absent => i <= made'.folders /\ NameFree(folder, i, x)
      PROVE  FolderInv'
  <2>1. folder'[i] = x /\ \A j \in Rows \ {i} : folder'[j] = folder[j]
    BY <1>0, <1>1
  <2>2. x # Absent => \A j \in Rows \ {i} : folder[j] # x
    BY <1>0, <1>1 DEF NameFree
  <2>3. folder' \in [Rows -> Labels \cup {Absent}]
    BY <1>0, <1>1
  <2> QED
    BY <1>0, <1>1, <2>1, <2>2, <2>3 DEF FolderInv
<1>2. ASSUME NEW x \in Labels, CreateFolder(x) PROVE FolderInv'
  <2>1. made.folders + 1 \in Rows /\ made.folders + 1 <= made'.folders
    <3>1. made.folders < MaxRows /\ made'.folders = made.folders + 1
      BY <1>2 DEF CreateFolder, WorkspaceInv, MadeInv
    <3> QED
      BY <3>1, MadeNext, WorkspaceConstants, SMT DEF Rows
  <2> QED
    BY <1>1, <1>2, <2>1 DEF CreateFolder
<1>3. ASSUME NEW i \in Rows, NEW x \in Labels, RenameFolder(i, x) PROVE FolderInv'
  BY <1>0, <1>1, <1>3 DEF RenameFolder
<1>4. ASSUME NEW i \in Rows, DeleteFolder(i) PROVE FolderInv'
  BY <1>1, <1>4 DEF DeleteFolder
<1>5. folder' = folder => FolderInv'
  BY <1>0 DEF FolderInv
<1> QED
  BY <1>2, <1>3, <1>4, <1>5
     DEF WorkspaceNext, workspaceVars, tables, DeleteTemplate,
         CreateConv, CreateTemplate, MoveBegin, DeleteBegin, BindBegin, UpdateBegin, BindOff,
         MoveEnd, DeleteEnd, BindOn, BindCommit, BindDeadlock, UpdateEnd, Lost

\* Conversations; and a deleted one stays deleted.
LEMMA ConvNext ==
  ASSUME WorkspaceInv, [WorkspaceNext]_workspaceVars
  PROVE  /\ ConvInv'
         /\ \A c \in Rows : conv[c].status = "deleted" => conv'[c].status = "deleted"
<1> DEFINE Convs == [status : {"none", "active", "deleted"}, folder : Nat]
           Kept == \A c \in Rows : conv[c].status = "deleted" => conv'[c].status = "deleted"
<1>0. conv \in [Rows -> Convs] /\ made.convs \in Nat /\ made'.convs \in Nat
      /\ Seen \subseteq Seen' /\ Seen \subseteq Nat
      /\ \A i \in Rows : IF i <= made.convs THEN conv[i].status # "none" /\ conv[i].folder \in Seen
                         ELSE conv[i] = NoConv
  <2>1. made'.convs \in Nat
    BY MadeNext, SMT
  <2>2. Seen \subseteq Nat
    BY MadeNext, SMT DEF Seen
  <2> QED
    BY <2>1, <2>2, MadeNext DEF WorkspaceInv, ConvInv
<1> HIDE DEF Convs
<1>1. ASSUME NEW c \in Rows, NEW x \in Convs, conv' = [conv EXCEPT ![c] = x],
             made' = made, c <= made.convs, x.status # "none", x.folder \in Seen,
             conv[c].status = "deleted" => x.status = "deleted"
      PROVE  ConvInv' /\ Kept
  <2>1. conv'[c] = x /\ \A i \in Rows \ {c} : conv'[i] = conv[i]
    BY <1>0, <1>1
  <2>2. conv' \in [Rows -> Convs]
    BY <1>0, <1>1
  <2>3. \A i \in Rows : IF i <= made'.convs
                        THEN conv'[i].status # "none" /\ conv'[i].folder \in Seen'
                        ELSE conv'[i] = NoConv
    BY <1>0, <1>1, <2>1
  <2> QED
    BY <1>1, <2>1, <2>2, <2>3 DEF ConvInv, Convs
<1>2. conv' = conv /\ made'.convs = made.convs => ConvInv' /\ Kept
  BY <1>0 DEF ConvInv, Convs
<1>3. ASSUME NEW i \in Seen, CreateConv(i) PROVE ConvInv' /\ Kept
  <2> DEFINE n == made.convs + 1
             x == [status |-> "active", folder |-> i]
  <2>1. made.convs < MaxRows /\ made'.convs = n /\ conv' = [conv EXCEPT ![n] = x]
        /\ Seen' = Seen
    BY <1>3 DEF CreateConv, WorkspaceInv, MadeInv, Seen
  <2>2. n \in Rows /\ \A j \in Rows : (j <= n <=> j = n \/ j <= made.convs) /\ ~(n <= made.convs)
    BY <1>0, <2>1, WorkspaceConstants, SMT DEF Rows
  <2>3. x \in Convs /\ x.status = "active" /\ x.folder \in Seen
    BY <1>0 DEF Convs
  <2> HIDE DEF n, x
  <2>4. conv'[n] = x /\ (\A j \in Rows \ {n} : conv'[j] = conv[j]) /\ conv' \in [Rows -> Convs]
    BY <1>0, <2>1, <2>2, <2>3
  <2>5. conv[n].status # "deleted"
    BY <1>0, <2>2 DEF NoConv
  <2>6. \A j \in Rows : IF j <= made'.convs
                        THEN conv'[j].status # "none" /\ conv'[j].folder \in Seen'
                        ELSE conv'[j] = NoConv
    <3>1. ASSUME NEW j \in Rows PROVE IF j <= made'.convs
                        THEN conv'[j].status # "none" /\ conv'[j].folder \in Seen'
                        ELSE conv'[j] = NoConv
      <4>1. CASE j = n
        BY <2>1, <2>2, <2>3, <2>4, <4>1
      <4>2. CASE j # n
        <5>1. (j <= made'.convs <=> j <= made.convs) /\ conv'[j] = conv[j]
          BY <2>1, <2>2, <2>4, <4>2
        <5> QED
          BY <1>0, <2>1, <5>1
      <4> QED
        BY <4>1, <4>2
    <3> QED
      BY <3>1
  <2> QED
    BY <2>4, <2>5, <2>6 DEF ConvInv, Convs
<1>4. \A c \in Rows : conv[c].status \in {"active", "deleted"} => c <= made.convs
  BY <1>0 DEF NoConv
<1>5. ASSUME NEW s \in Servers, MoveEnd(s) PROVE ConvInv' /\ Kept
  <2>1. at[s].doing = "move" /\ at[s].conv \in Rows /\ at[s].folder \in Seen /\ made' = made
        /\ at[s].conv <= made.convs
    BY <1>5 DEF MoveEnd, WorkspaceInv, AtInv
  <2>2. CASE conv[at[s].conv].status = "active" /\ Accepted(at[s].folder)
    <3> DEFINE x == [conv[at[s].conv] EXCEPT !.folder = at[s].folder]
    <3>1. x \in Convs /\ x.status = "active" /\ x.folder \in Seen
      BY <1>0, <2>1, <2>2 DEF Convs
    <3>2. conv' = [conv EXCEPT ![at[s].conv] = x]
      BY <1>5, <2>2 DEF MoveEnd
    <3> HIDE DEF x
    <3> QED
      BY <1>1, <2>1, <2>2, <3>1, <3>2
  <2>3. CASE ~(conv[at[s].conv].status = "active" /\ Accepted(at[s].folder))
    BY <1>2, <1>5, <2>1, <2>3 DEF MoveEnd
  <2> QED
    BY <2>2, <2>3
<1>6. ASSUME NEW s \in Servers, DeleteEnd(s) PROVE ConvInv' /\ Kept
  <2>1. at[s].doing = "delete" /\ at[s].conv \in Rows /\ made' = made /\ at[s].conv <= made.convs
    BY <1>6 DEF DeleteEnd, WorkspaceInv, AtInv
  <2> DEFINE x == [conv[at[s].conv] EXCEPT !.status = "deleted"]
  <2>2. x \in Convs /\ x.status = "deleted" /\ x.folder \in Seen
    BY <1>0, <2>1 DEF Convs
  <2>3. conv' = [conv EXCEPT ![at[s].conv] = x]
    BY <1>6 DEF DeleteEnd
  <2> HIDE DEF x
  <2> QED
    BY <1>1, <2>1, <2>2, <2>3
<1>8. ASSUME NEW i \in Rows, DeleteFolder(i) PROVE ConvInv' /\ Kept
  <2> DEFINE out(c) == [conv[c] EXCEPT !.folder = 0]
             next(c) == IF FolderKey /\ conv[c].folder = i THEN out(c) ELSE conv[c]
  <2>1. made' = made /\ conv' = [c \in Rows |-> next(c)]
    BY <1>8 DEF DeleteFolder
  <2>2. \A c \in Rows : /\ out(c) \in Convs /\ out(c).status = conv[c].status
                        /\ out(c).folder = 0
    BY <1>0 DEF Convs
  <2>3. 0 \in Seen
    BY <1>0, MadeNext, SMT DEF Seen
  <2>4. \A c \in Rows : conv[c].folder = i => c <= made.convs
    <3>1. i # 0
      BY WorkspaceConstants, SMT DEF Rows
    <3> QED
      BY <1>0, <3>1 DEF NoConv
  <2> HIDE DEF out
  <2>5. \A c \in Rows : /\ conv'[c] \in Convs /\ conv'[c].status = conv[c].status
                        /\ \/ conv'[c] = conv[c]
                           \/ conv'[c].folder = 0 /\ c <= made.convs
    BY <1>0, <2>1, <2>2, <2>4
  <2>6. conv' \in [Rows -> Convs]
    BY <2>1, <2>5
  <2> HIDE DEF next
  <2>7. \A c \in Rows : IF c <= made'.convs
                        THEN conv'[c].status # "none" /\ conv'[c].folder \in Seen'
                        ELSE conv'[c] = NoConv
    BY <1>0, <2>1, <2>3, <2>5
  <2> QED
    BY <2>5, <2>6, <2>7 DEF ConvInv, Convs
<1>7. \/ conv' = conv /\ made'.convs = made.convs
      \/ \E i \in Seen : CreateConv(i)
      \/ \E i \in Rows : DeleteFolder(i)
      \/ \E s \in Servers : MoveEnd(s) \/ DeleteEnd(s)
  <2>1. (\E x \in Labels, y, z \in Texts : CreateTemplate(x, y, z)) \/ (\E x \in Labels : CreateFolder(x))
        => conv' = conv /\ made'.convs = made.convs
    BY DEF CreateTemplate, CreateFolder, WorkspaceInv, MadeInv
  <2> QED
    BY <2>1
     DEF WorkspaceNext, workspaceVars, tables, DeleteTemplate, RenameFolder,
         MoveBegin, DeleteBegin, BindBegin, UpdateBegin, BindOff,
         BindOn, BindCommit, BindDeadlock, UpdateEnd, Lost
<1> QED
  BY <1>2, <1>3, <1>5, <1>6, <1>7, <1>8

\* Writing a row of a bind.
LEMMA BindWrote ==
  ASSUME at \in [Servers -> Tasks], NEW s \in Servers, Binds(s), NEW k \in Kbs,
         NEW value \in {"on", "off"}, value = "on" => at[s].kbs # <<>>, Wrote(s, k, value)
  PROVE  /\ at' \in [Servers -> Tasks] /\ at'[s] \in Bind /\ Binds(s)'
         /\ at'[s].conv = at[s].conv /\ at'[s].alone = at[s].alone
         /\ at'[s].off = at[s].off \ {k}
         /\ DOMAIN at'[s].wrote = DOMAIN at[s].wrote \cup {k}
         /\ \A t \in Servers \ {s} : at'[t] = at[t]
<1>1. at[s] \in Bind
  BY DEF Binds, Tasks, Unoccupied, Moves, Deletes, Updates
<1> DEFINE a == at[s]
           W == [j \in DOMAIN a.wrote \cup {k} |-> IF j = k THEN value ELSE a.wrote[j]]
           O == a.off \ {k}
           K == IF value = "on" THEN Tail(a.kbs) ELSE a.kbs
<1>2. at' = [at EXCEPT ![s].wrote = W, ![s].off = O, ![s].kbs = K]
  BY DEF Wrote
<1>3. /\ a.doing = "bind" /\ a.conv \in Rows /\ a.kbs \in Seq(Kbs) /\ a.off \in SUBSET Kbs
      /\ a.alone \in BOOLEAN
  BY <1>1 DEF Bind
<1>4. \E d \in SUBSET Kbs : a.wrote \in [d -> {"on", "off"}]
  BY <1>1 DEF Bind
<1>5. \E d \in SUBSET Kbs : W \in [d -> {"on", "off"}]
  <2>1. PICK d \in SUBSET Kbs : a.wrote \in [d -> {"on", "off"}]
    BY <1>4
  <2>2. W \in [d \cup {k} -> {"on", "off"}]
    BY <2>1
  <2> QED
    BY <2>2
<1>6. O \in SUBSET Kbs /\ K \in Seq(Kbs) /\ DOMAIN W = DOMAIN a.wrote \cup {k}
  BY <1>3
<1> HIDE DEF W, O, K
<1> DEFINE next == [[[a EXCEPT !.wrote = W] EXCEPT !.off = O] EXCEPT !.kbs = K]
<1>7. at' = [at EXCEPT ![s] = next]
  BY <1>2
<1>8. next \in Bind
  <2> DEFINE Ws == UNION {[d -> {"on", "off"}] : d \in SUBSET Kbs}
             Ks == Seq(Kbs)
  <2>1. a \in [doing : {"bind"}, conv : Rows, kbs : Ks, off : SUBSET Kbs, wrote : Ws,
               alone : BOOLEAN] /\ W \in Ws /\ K \in Ks /\ O \in SUBSET Kbs
    BY <1>1, <1>5, <1>6 DEF Bind
  <2> HIDE DEF Ws, Ks
  <2>2. next \in [doing : {"bind"}, conv : Rows, kbs : Ks, off : SUBSET Kbs, wrote : Ws,
               alone : BOOLEAN]
    BY <2>1
  <2> QED
    BY <2>2 DEF Bind, Ws, Ks
<1>9. next.doing = "bind" /\ next.conv = a.conv /\ next.alone = a.alone /\ next.off = O /\ next.wrote = W
  BY <1>1 DEF Bind
<1> HIDE DEF next
<1>10. at'[s] = next /\ \A t \in Servers \ {s} : at'[t] = at[t]
  BY <1>7
<1>11. at' \in [Servers -> Tasks]
  BY <1>7, <1>8 DEF Tasks
<1> QED
  BY <1>6, <1>8, <1>9, <1>10, <1>11 DEF Binds, O

LEMMA BindWrites ==
  ASSUME at \in [Servers -> Tasks], NEW s \in Servers, BindOn(s) \/ \E k \in Kbs : BindOff(s, k)
  PROVE  \E k \in Kbs, value \in {"on", "off"} :
           Binds(s) /\ (value = "on" => at[s].kbs # <<>>) /\ Wrote(s, k, value)
<1>1. CASE BindOn(s)
  <2>1. at[s] \in Bind
    BY <1>1 DEF BindOn, Binds, Tasks, Unoccupied, Moves, Deletes, Updates
  <2>2. at[s].kbs \in Seq(Kbs) /\ at[s].kbs # <<>>
    BY <1>1, <2>1 DEF BindOn, Bind
  <2>3. Head(at[s].kbs) \in Kbs
    BY <2>2
  <2> QED
    BY <1>1, <2>2, <2>3 DEF BindOn
<1>2. CASE \E k \in Kbs : BindOff(s, k)
  BY <1>2 DEF BindOff
<1> QED
  BY <1>1, <1>2

\* What a step makes of the servers' tasks.
LEMMA AtNext ==
  ASSUME WorkspaceInv, [WorkspaceNext]_workspaceVars
  PROVE  AtInv'
<1> DEFINE OK(a) ==
      /\ a.doing \in {"move", "delete", "bind"} => a.conv \in Rows /\ a.conv <= made'.convs
      /\ a.doing = "move" => a.folder \in Seen'
      /\ a.doing = "update" => a.of \in Rows /\ a.of <= made'.templates
<1>0. at \in [Servers -> Tasks] /\ \A s \in Servers : OK(at[s])
  <2>1. /\ \A i \in Rows : i <= made.convs => i <= made'.convs
        /\ \A i \in Rows : i <= made.templates => i <= made'.templates
    BY MadeNext, SMT DEF Rows
  <2> QED
    BY <2>1, MadeNext DEF WorkspaceInv, AtInv
<1>1. ASSUME at' \in [Servers -> Tasks], \A s \in Servers : OK(at'[s]) PROVE AtInv'
  BY <1>1 DEF AtInv
<1> HIDE DEF OK
<1>2. ASSUME NEW s \in Servers, NEW a \in Tasks, OK(a), at' = [at EXCEPT ![s] = a] PROVE AtInv'
  <2>1. at'[s] = a /\ \A t \in Servers \ {s} : at'[t] = at[t]
    BY <1>0, <1>2
  <2> QED
    BY <1>0, <1>1, <1>2, <2>1
<1>3. ASSUME NEW s \in Servers, at' = [at EXCEPT ![s] = Unoccupied] PROVE AtInv'
  BY <1>2, <1>3 DEF Tasks, OK, Unoccupied
<1>4. \A c \in Rows : conv[c].status = "active" => c <= made'.convs
  <2>1. \A c \in Rows : conv[c].status = "active" => c <= made.convs
    BY DEF WorkspaceInv, ConvInv, NoConv
  <2> QED
    BY <2>1, MadeNext, SMT DEF Rows
<1>5. ASSUME NEW s \in Servers, NEW c \in Rows, NEW i \in Seen, MoveBegin(s, c, i) PROVE AtInv'
  <2> DEFINE a == [doing |-> "move", conv |-> c, folder |-> i]
  <2>1. at' = [at EXCEPT ![s] = a] /\ conv[c].status = "active"
    BY <1>5 DEF MoveBegin
  <2>2. i \in Nat /\ i \in Seen'
    BY MadeNext, SMT DEF Seen
  <2>3. a \in Tasks
    BY <2>2 DEF Tasks, Moves
  <2>4. OK(a)
    BY <1>4, <2>1, <2>2 DEF OK
  <2> HIDE DEF a
  <2> QED
    BY <1>2, <2>1, <2>3, <2>4
<1>6. ASSUME NEW s \in Servers, NEW c \in Rows, DeleteBegin(s, c) PROVE AtInv'
  <2> DEFINE a == [doing |-> "delete", conv |-> c]
  <2>1. at' = [at EXCEPT ![s] = a] /\ conv[c].status = "active"
    BY <1>6 DEF DeleteBegin
  <2>2. a \in Tasks
    BY DEF Tasks, Deletes
  <2>3. OK(a)
    BY <1>4, <2>1 DEF OK
  <2> HIDE DEF a
  <2> QED
    BY <1>2, <2>1, <2>2, <2>3
<1>7. ASSUME NEW s \in Servers, NEW t \in Rows, NEW g \in GivenFields, UpdateBegin(s, t, g)
      PROVE  AtInv'
  <2> DEFINE a == [doing |-> "update", of |-> t, given |-> g, read |-> template[t]]
  <2>1. at' = [at EXCEPT ![s] = a] /\ template[t] # NoTemplate /\ made' = made
    BY <1>7 DEF UpdateBegin
  <2>2. template[t] \in Whole /\ t <= made'.templates
    BY <2>1 DEF WorkspaceInv, TemplateInv
  <2>3. a \in Tasks
    BY <2>2 DEF Tasks, Updates
  <2>4. OK(a)
    BY <2>2 DEF OK
  <2> HIDE DEF a
  <2> QED
    BY <1>2, <2>1, <2>3, <2>4
<1>8. ASSUME NEW s \in Servers, NEW c \in Rows, NEW kbs \in KbLists, BindBegin(s, c, kbs)
      PROVE  AtInv'
  <2> DEFINE beside == {t \in Servers : Binds(t) /\ at[t].conv = c}
             a == [doing |-> "bind", conv |-> c, kbs |-> kbs,
                   off |-> {k \in Kbs : link[c][k] # "none"}, wrote |-> <<>>,
                   alone |-> beside = {}]
  <2>1. /\ conv[c].status = "active"
        /\ at' = [t \in Servers |-> IF t = s THEN a
                                    ELSE IF t \in beside THEN [at[t] EXCEPT !.alone = FALSE]
                                    ELSE at[t]]
    BY <1>8 DEF BindBegin
  <2>2. a \in Bind
    <3>1. kbs \in Seq(Kbs)
      <4>1. \A k \in Kbs : <<k>> \in Seq(Kbs)
        OBVIOUS
      <4>2. \A k, l \in Kbs : <<k, l>> \in Seq(Kbs)
        OBVIOUS
      <4>3. (\E k \in Kbs : kbs = <<k>>) \/ \E k, l \in Kbs : kbs = <<k, l>>
        BY DEF KbLists
      <4> QED
        BY <4>1, <4>2, <4>3
    <3>2. <<>> \in [{} -> {"on", "off"}]
      OBVIOUS
    <3>3. (beside = {}) \in BOOLEAN
      OBVIOUS
    <3> QED
      BY <3>1, <3>2, <3>3 DEF Bind
  <2>3. OK(a)
    BY <1>4, <2>1 DEF OK
  <2> HIDE DEF a
  <2>4. \A t \in beside : /\ [at[t] EXCEPT !.alone = FALSE] \in Bind
                          /\ OK([at[t] EXCEPT !.alone = FALSE])
    <3>1. ASSUME NEW t \in beside PROVE /\ [at[t] EXCEPT !.alone = FALSE] \in Bind
                                        /\ OK([at[t] EXCEPT !.alone = FALSE])
      <4>1. at[t] \in Bind
        BY <1>0 DEF Binds, Tasks, Unoccupied, Moves, Deletes, Updates
      <4>2. [at[t] EXCEPT !.alone = FALSE] \in Bind
        BY <4>1 DEF Bind
      <4>3. [at[t] EXCEPT !.alone = FALSE].conv = at[t].conv
            /\ [at[t] EXCEPT !.alone = FALSE].doing = at[t].doing /\ at[t].doing = "bind"
        BY <4>1 DEF Bind
      <4> QED
        BY <1>0, <4>2, <4>3 DEF OK
    <3> QED
      BY <3>1
  <2> HIDE DEF beside
  <2>5. \A t \in Servers : at'[t] \in Tasks /\ OK(at'[t])
    BY <1>0, <2>1, <2>2, <2>3, <2>4 DEF Tasks
  <2>6. at' \in [Servers -> Tasks]
    BY <2>1, <2>5
  <2> QED
    BY <1>1, <2>5, <2>6
<1>9. ASSUME NEW s \in Servers, BindOn(s) \/ \E k \in Kbs : BindOff(s, k) PROVE AtInv'
  <2>1. PICK k \in Kbs, value \in {"on", "off"} :
          Binds(s) /\ (value = "on" => at[s].kbs # <<>>) /\ Wrote(s, k, value)
    BY <1>0, <1>9, BindWrites
  <2>2. /\ at' \in [Servers -> Tasks] /\ at'[s].doing = "bind" /\ at'[s].conv = at[s].conv
        /\ \A t \in Servers \ {s} : at'[t] = at[t]
    BY <1>0, <2>1, BindWrote DEF Binds
  <2>3. OK(at'[s])
    BY <1>0, <2>1, <2>2 DEF OK, Binds
  <2> QED
    BY <1>0, <1>1, <2>2, <2>3
<1>10. at' = at => AtInv'
  BY <1>0, <1>1
<1> QED
  BY <1>3, <1>5, <1>6, <1>7, <1>8, <1>9, <1>10
     DEF WorkspaceNext, workspaceVars, CreateFolder, RenameFolder, DeleteFolder, DeleteTemplate,
         CreateConv, CreateTemplate, MoveEnd, DeleteEnd, BindCommit, BindDeadlock, UpdateEnd, Lost

\* What is bound: only a commit writes links, and a bind that nobody overlapped writes all
\* there were.
LEMMA LinkCommit ==
  ASSUME WorkspaceInv, NEW s \in Servers, BindCommit(s)
  PROVE  LinkInv'
<1> DEFINE c == at[s].conv
           w == at[s].wrote
           row == [k \in Kbs |-> IF k \in DOMAIN w THEN w[k] ELSE link[c][k]]
           next == [kbs |-> {k \in DOMAIN w : w[k] = "on"}, alone |-> at[s].alone]
<1>0. /\ link \in [Rows -> [Kbs -> {"none", "on", "off"}]] /\ at \in [Servers -> Tasks]
      /\ bound \in [Rows -> [kbs : SUBSET Kbs, alone : BOOLEAN]] /\ BindsAlone /\ LastBindIsActive
  BY DEF WorkspaceInv, LinkInv, AtInv
<1>1. at[s] \in Bind /\ c \in Rows /\ Binds(s) /\ at[s].off = {}
  BY <1>0 DEF BindCommit, WorkspaceInv, AtInv, Binds, Tasks, Unoccupied, Moves, Deletes, Updates
<1>2. PICK d \in SUBSET Kbs : w \in [d -> {"on", "off"}]
  BY <1>1 DEF Bind
<1>3. /\ row \in [Kbs -> {"none", "on", "off"}] /\ at[s].alone \in BOOLEAN
      /\ next \in [kbs : SUBSET Kbs, alone : BOOLEAN] /\ next.kbs = {k \in d : w[k] = "on"}
      /\ next.alone = at[s].alone /\ \A k \in Kbs : row[k] = IF k \in d THEN w[k] ELSE link[c][k]
  BY <1>0, <1>1, <1>2 DEF Bind
<1>4. link' = [link EXCEPT ![c] = row] /\ bound' = [bound EXCEPT ![c] = next]
      /\ at' = [at EXCEPT ![s] = Unoccupied]
  BY DEF BindCommit
<1>5. at[s].alone => \A k \in Kbs : link[c][k] # "none" => k \in d
  BY <1>0, <1>1, <1>2 DEF BindsAlone
<1> HIDE DEF row, next
<1>6. /\ link'[c] = row /\ bound'[c] = next
      /\ \A i \in Rows \ {c} : link'[i] = link[i] /\ bound'[i] = bound[i]
      /\ link' \in [Rows -> [Kbs -> {"none", "on", "off"}]]
      /\ bound' \in [Rows -> [kbs : SUBSET Kbs, alone : BOOLEAN]]
  BY <1>0, <1>1, <1>3, <1>4
<1>7. LastBindIsActive'
  <2>1. ASSUME NEW i \in Rows PROVE /\ bound'[i].kbs \subseteq Active(i)'
                                    /\ bound'[i].alone => Active(i)' = bound'[i].kbs
    <3>1. CASE i = c
      <4>1. Active(i)' = {k \in Kbs : row[k] = "on"}
        BY <1>6, <3>1 DEF Active
      <4>2. next.kbs \subseteq {k \in Kbs : row[k] = "on"}
        BY <1>2, <1>3
      <4>3. next.alone => {k \in Kbs : row[k] = "on"} \subseteq next.kbs
        BY <1>2, <1>3, <1>5
      <4> QED
        BY <1>6, <3>1, <4>1, <4>2, <4>3
    <3>2. CASE i # c
      BY <1>0, <1>6, <3>2 DEF LastBindIsActive, Active
    <3> QED
      BY <3>1, <3>2
  <2> QED
    BY <2>1 DEF LastBindIsActive
<1>8. BindsAlone'
  <2> SUFFICES ASSUME NEW t \in Servers, Binds(t)', at'[t].alone
               PROVE  /\ Others(t)' = {}
                      /\ \A k \in Kbs : link'[at'[t].conv][k] # "none"
                                        => k \in at'[t].off \cup DOMAIN at'[t].wrote
    BY DEF BindsAlone
  <2>1. \A r \in Servers : (r # s => at'[r] = at[r]) /\ (Binds(r)' => r # s)
    BY <1>0, <1>4 DEF Binds, Unoccupied
  <2>2. at'[t] = at[t] /\ t # s /\ Binds(t) /\ at[t].alone
    BY <2>1 DEF Binds
  <2>3. Others(t) = {} /\ at[t].conv # c
    BY <1>0, <1>1, <2>2 DEF BindsAlone, Others
  <2>4. Others(t)' = {}
    BY <2>1, <2>2, <2>3 DEF Others, Binds
  <2>5. at[t].conv \in Rows
    BY <2>2 DEF WorkspaceInv, AtInv, Binds
  <2> QED
    BY <1>0, <1>6, <2>2, <2>3, <2>4, <2>5 DEF BindsAlone
<1> QED
  BY <1>6, <1>7, <1>8 DEF LinkInv

LEMMA LinkNext ==
  ASSUME WorkspaceInv, [WorkspaceNext]_workspaceVars
  PROVE  LinkInv'
<1>0. /\ link \in [Rows -> [Kbs -> {"none", "on", "off"}]] /\ at \in [Servers -> Tasks]
      /\ bound \in [Rows -> [kbs : SUBSET Kbs, alone : BOOLEAN]] /\ BindsAlone /\ LastBindIsActive
  BY DEF WorkspaceInv, LinkInv, AtInv
<1>1. ASSUME UNCHANGED <<link, bound>>, BindsAlone' PROVE LinkInv'
  BY <1>0, <1>1 DEF LinkInv, LastBindIsActive, Active
<1>2. ASSUME UNCHANGED <<link, bound>>,
             \A t \in Servers : Binds(t)' => at'[t] = at[t] PROVE LinkInv'
  <2>1. \A t \in Servers : Binds(t)' => Binds(t) /\ at'[t] = at[t]
    BY <1>2 DEF Binds
  <2>2. \A t \in Servers : Binds(t)' => Others(t)' \subseteq Others(t)
    BY <2>1 DEF Others
  <2>3. BindsAlone'
    BY <1>0, <1>2, <2>1, <2>2 DEF BindsAlone
  <2> QED
    BY <1>1, <1>2, <2>3
<1>3. ASSUME NEW s \in Servers, NEW a, at' = [at EXCEPT ![s] = a], a.doing # "bind",
             UNCHANGED <<link, bound>>
      PROVE  LinkInv'
  BY <1>0, <1>2, <1>3 DEF Binds
<1>4. ASSUME NEW s \in Servers, NEW c \in Rows, NEW kbs \in KbLists, BindBegin(s, c, kbs)
      PROVE  LinkInv'
  <2> DEFINE beside == {t \in Servers : Binds(t) /\ at[t].conv = c}
             a == [doing |-> "bind", conv |-> c, kbs |-> kbs,
                   off |-> {k \in Kbs : link[c][k] # "none"}, wrote |-> <<>>,
                   alone |-> beside = {}]
  <2>1. /\ Free(s) /\ UNCHANGED <<link, bound>>
        /\ at' = [t \in Servers |-> IF t = s THEN a
                                    ELSE IF t \in beside THEN [at[t] EXCEPT !.alone = FALSE]
                                    ELSE at[t]]
    BY <1>4 DEF BindBegin, tables
  <2>2. s \notin beside
    BY <2>1 DEF Free, Binds
  <2>3. /\ a.doing = "bind" /\ a.conv = c /\ a.off = {k \in Kbs : link[c][k] # "none"}
        /\ a.alone <=> beside = {}
    OBVIOUS
  <2> HIDE DEF a
  <2>4. \A t \in beside : /\ ~at'[t].alone /\ at'[t].conv = c
    <3>1. ASSUME NEW t \in beside PROVE ~at'[t].alone /\ at'[t].conv = c
      <4>1. at[t] \in Bind
        BY <1>0 DEF Binds, Tasks, Unoccupied, Moves, Deletes, Updates
      <4>2. [at[t] EXCEPT !.alone = FALSE].conv = at[t].conv
            /\ [at[t] EXCEPT !.alone = FALSE].alone = FALSE
        BY <4>1 DEF Bind
      <4> QED
        BY <2>1, <2>2, <4>2
    <3> QED
      BY <3>1
  <2>5. at'[s] = a /\ \A t \in Servers \ (beside \cup {s}) : at'[t] = at[t]
    BY <2>1
  <2>6. \A t \in Servers \ (beside \cup {s}) : Binds(t) => at[t].conv # c
    OBVIOUS
  <2> SUFFICES ASSUME NEW t \in Servers, Binds(t)', at'[t].alone
               PROVE  /\ Others(t)' = {}
                      /\ \A k \in Kbs : link'[at'[t].conv][k] # "none"
                                        => k \in at'[t].off \cup DOMAIN at'[t].wrote
    BY <1>1, <2>1 DEF BindsAlone
  <2>7. CASE t = s
    <3>1. beside = {}
      BY <2>3, <2>5, <2>7
    <3> HIDE DEF beside
    <3>2. \A r \in Servers \ {s} : at'[r] = at[r] /\ ~(Binds(r) /\ at[r].conv = c)
      BY <2>5, <3>1 DEF beside
    <3>3. Others(t)' = {}
      BY <2>3, <2>5, <2>7, <3>2 DEF Others, Binds
    <3> QED
      BY <2>1, <2>3, <2>5, <2>7, <3>3
  <2>8. CASE t # s
    <3>1. t \notin beside /\ at'[t] = at[t] /\ Binds(t) /\ at[t].conv # c /\ at[t].alone
      BY <2>4, <2>5, <2>8 DEF Binds
    <3>2. Others(t) = {} /\ \A k \in Kbs : link[at[t].conv][k] # "none"
                                           => k \in at[t].off \cup DOMAIN at[t].wrote
      BY <1>0, <3>1 DEF BindsAlone
    <3>3. Others(t)' = {}
      <4> SUFFICES ASSUME NEW r \in Servers \ {t}, Binds(r)', at'[r].conv = at'[t].conv PROVE FALSE
        BY DEF Others
      <4>1. r # s /\ r \notin beside
        BY <2>3, <2>4, <2>5, <3>1
      <4>2. at'[r] = at[r]
        BY <2>5, <4>1
      <4> QED
        BY <3>1, <3>2, <4>2 DEF Others, Binds
    <3> QED
      BY <2>1, <3>1, <3>2, <3>3
  <2> QED
    BY <2>7, <2>8
<1>5. ASSUME NEW s \in Servers, BindOn(s) \/ \E k \in Kbs : BindOff(s, k) PROVE LinkInv'
  <2>1. PICK k \in Kbs, value \in {"on", "off"} :
          Binds(s) /\ (value = "on" => at[s].kbs # <<>>) /\ Wrote(s, k, value)
    BY <1>0, <1>5, BindWrites
  <2>2. /\ at'[s].conv = at[s].conv /\ at'[s].alone = at[s].alone /\ Binds(s)'
        /\ at'[s].off = at[s].off \ {k} /\ DOMAIN at'[s].wrote = DOMAIN at[s].wrote \cup {k}
        /\ \A t \in Servers \ {s} : at'[t] = at[t]
    BY <1>0, <2>1, BindWrote
  <2>3. UNCHANGED <<link, bound>>
    BY <1>5 DEF BindOn, BindOff, tables
  <2>4. \A t \in Servers : /\ Binds(t)' <=> Binds(t)
                           /\ Binds(t) => at'[t].conv = at[t].conv /\ at'[t].alone = at[t].alone
                                /\ at[t].off \cup DOMAIN at[t].wrote
                                     \subseteq at'[t].off \cup DOMAIN at'[t].wrote
    <3>1. ASSUME NEW t \in Servers
          PROVE  /\ Binds(t)' <=> Binds(t)
                 /\ Binds(t) => at'[t].conv = at[t].conv /\ at'[t].alone = at[t].alone
                                /\ at[t].off \cup DOMAIN at[t].wrote
                                     \subseteq at'[t].off \cup DOMAIN at'[t].wrote
      <4>1. CASE t = s
        BY <2>1, <2>2, <4>1
      <4>2. CASE t # s
        BY <2>2, <4>2 DEF Binds
      <4> QED
        BY <4>1, <4>2
    <3> QED
      BY <3>1
  <2>5. \A t \in Servers : Binds(t) => Others(t)' = Others(t)
    BY <2>4 DEF Others
  <2>6. BindsAlone'
    BY <1>0, <2>3, <2>4, <2>5 DEF BindsAlone
  <2> QED
    BY <1>1, <2>3, <2>6
<1>6. \A s \in Servers : BindCommit(s) => LinkInv'
  BY LinkCommit
<1>7. Unoccupied.doing # "bind"
  BY DEF Unoccupied
<1>8. ASSUME NEW s \in Servers, \/ \E c \in Rows, i \in Seen : MoveBegin(s, c, i)
                                \/ \E c \in Rows : DeleteBegin(s, c)
                                \/ \E t \in Rows, g \in GivenFields : UpdateBegin(s, t, g)
      PROVE  LinkInv'
  <2>1. /\ \A c, i : [doing |-> "move", conv |-> c, folder |-> i].doing # "bind"
        /\ \A c : [doing |-> "delete", conv |-> c].doing # "bind"
    OBVIOUS
  <2>2. ASSUME NEW c \in Rows, NEW i \in Seen, MoveBegin(s, c, i) PROVE LinkInv'
    BY <1>3, <2>1, <2>2 DEF MoveBegin, tables
  <2>3. ASSUME NEW c \in Rows, DeleteBegin(s, c) PROVE LinkInv'
    BY <1>3, <2>1, <2>3 DEF DeleteBegin, tables
  <2>4. ASSUME NEW t \in Rows, NEW g \in GivenFields, UpdateBegin(s, t, g) PROVE LinkInv'
    <3>1. [doing |-> "update", of |-> t, given |-> g, read |-> template[t]].doing # "bind"
      OBVIOUS
    <3> QED
      BY <1>3, <2>4, <3>1 DEF UpdateBegin, tables
  <2> QED
    BY <1>8, <2>2, <2>3, <2>4
<1>9. UNCHANGED <<at, link, bound>> => LinkInv'
  BY <1>2
<1> QED
  BY <1>3, <1>4, <1>5, <1>6, <1>7, <1>8, <1>9
     DEF WorkspaceNext, workspaceVars, tables, CreateFolder, RenameFolder, DeleteFolder,
         DeleteTemplate, CreateConv, CreateTemplate, MoveEnd, DeleteEnd, BindDeadlock, UpdateEnd,
         Lost

\* An update that overlapped nothing does what it meant.
LEMMA ResolvedAsMeant ==
  ASSUME NEW g \in GivenFields
  PROVE  /\ \A r \in Whole : Resolved(r, g) \in Whole /\ Resolved(r, g) = Meant(r, g)
         /\ \A r \in Templates : Meant(r, g) \in Templates
<1>0. /\ g.name \in Labels \cup {Absent} /\ g.content \in Texts \cup {Absent}
      /\ g.snippet \in Texts \cup {Absent}
  BY DEF GivenFields
<1>1. ASSUME NEW r \in Templates
      PROVE  /\ Meant(r, g) \in Templates
             /\ Meant(r, g).name = IF g.name = Absent THEN r.name ELSE g.name
             /\ Meant(r, g).content = IF g.content = Absent THEN r.content ELSE g.content
             /\ Meant(r, g).snippet = IF g.snippet # Absent THEN g.snippet
                                      ELSE IF g.content = Absent THEN r.snippet ELSE g.content
  <2> DEFINE set == IF g.content = Absent THEN r
                    ELSE [[r EXCEPT !.content = g.content] EXCEPT !.snippet = g.content]
             cut == IF g.snippet = Absent THEN set ELSE [set EXCEPT !.snippet = g.snippet]
  <2>1. /\ set \in Templates /\ set.name = r.name
        /\ set.content = IF g.content = Absent THEN r.content ELSE g.content
        /\ set.snippet = IF g.content = Absent THEN r.snippet ELSE g.content
    BY <1>0 DEF Templates
  <2>2. Meant(r, g) = IF g.name = Absent THEN cut ELSE [cut EXCEPT !.name = g.name]
    BY DEF Meant
  <2> HIDE DEF set
  <2>3. /\ cut \in Templates /\ cut.name = r.name /\ cut.content = set.content
        /\ cut.snippet = IF g.snippet # Absent THEN g.snippet ELSE set.snippet
    BY <1>0, <2>1 DEF Templates
  <2> HIDE DEF cut
  <2> QED
    BY <1>0, <2>1, <2>2, <2>3 DEF Templates
<1>2. ASSUME NEW r \in Whole PROVE Resolved(r, g) \in Whole /\ Resolved(r, g) = Meant(r, g)
  <2>1. /\ Resolved(r, g).name = IF g.name = Absent THEN r.name ELSE g.name
        /\ Resolved(r, g).content = IF g.content = Absent THEN r.content ELSE g.content
        /\ Resolved(r, g).snippet = IF g.snippet # Absent THEN g.snippet
                                    ELSE IF g.content = Absent THEN r.snippet ELSE g.content
    BY DEF Resolved
  <2>2. Resolved(r, g) \in Whole
    BY <1>0 DEF Resolved, Whole
  <2>3. Whole \subseteq Templates
    BY DEF Whole, Templates
  <2>4. \A a, x \in Templates :
          a.name = x.name /\ a.content = x.content /\ a.snippet = x.snippet => a = x
    BY DEF Templates
  <2> QED
    BY <1>1, <2>1, <2>2, <2>3, <2>4
<1> QED
  BY <1>1, <1>2

LEMMA TemplateNext ==
  ASSUME WorkspaceInv, [WorkspaceNext]_workspaceVars
  PROVE  TemplateInv'
<1> DEFINE Intents == [row : Templates, raced : BOOLEAN]
<1>0. /\ template \in [Rows -> Whole \cup {NoTemplate}] /\ meant \in [Rows -> Intents]
      /\ \A i \in Rows : template[i] # NoTemplate => i <= made'.templates
      /\ \A i, j \in Rows : i # j /\ template[i] # NoTemplate => template[i].name # template[j].name
      /\ \A i \in Rows : ~meant[i].raced => template[i] = meant[i].row
  <2>1. \A i \in Rows : i <= made.templates => i <= made'.templates
    BY MadeNext, SMT DEF Rows
  <2> QED
    BY <2>1 DEF WorkspaceInv, TemplateInv, LostOnlyToOverlap
<1>1. /\ NoTemplate \in Templates /\ Whole \subseteq Templates /\ NoTemplate.name = Absent
      /\ \A r \in Whole : r.name # Absent
  BY WorkspaceConstants DEF NoTemplate, Templates, Whole
<1> HIDE DEF Intents
<1>2. ASSUME NEW t \in Rows, NEW x \in Whole \cup {NoTemplate}, NEW m \in Intents,
             template' = [template EXCEPT ![t] = x], meant' = [meant EXCEPT ![t] = m],
             x # NoTemplate => t <= made'.templates /\ NameFree(TemplateNames, t, x.name),
             ~m.raced => m.row = x
      PROVE  TemplateInv'
  <2>1. /\ template'[t] = x /\ meant'[t] = m
        /\ \A i \in Rows \ {t} : template'[i] = template[i] /\ meant'[i] = meant[i]
        /\ template' \in [Rows -> Whole \cup {NoTemplate}] /\ meant' \in [Rows -> Intents]
    BY <1>0, <1>2
  <2>2. x # NoTemplate => \A j \in Rows \ {t} : template[j].name # x.name
    BY <1>2 DEF NameFree, TemplateNames
  <2>3. \A i, j \in Rows : i # j /\ template'[i] # NoTemplate => template'[i].name # template'[j].name
    <3> SUFFICES ASSUME NEW i \in Rows, NEW j \in Rows, i # j, template'[i] # NoTemplate
                 PROVE  template'[i].name # template'[j].name
      OBVIOUS
    <3>1. CASE i = t
      BY <2>1, <2>2, <3>1
    <3>2. CASE j = t
      <4>1. template[i] # NoTemplate /\ template[i].name # Absent
        BY <1>0, <1>1, <2>1, <3>2
      <4> QED
        BY <1>1, <2>1, <2>2, <3>2, <4>1
    <3>3. CASE i # t /\ j # t
      BY <1>0, <2>1, <3>3
    <3> QED
      BY <3>1, <3>2, <3>3
  <2>4. \A i \in Rows : /\ template'[i] # NoTemplate => i <= made'.templates
                        /\ ~meant'[i].raced => template'[i] = meant'[i].row
    BY <1>0, <1>2, <2>1
  <2> QED
    BY <2>1, <2>3, <2>4 DEF TemplateInv, LostOnlyToOverlap, Intents
<1>3. UNCHANGED <<template, meant>> => TemplateInv'
  BY <1>0 DEF TemplateInv, LostOnlyToOverlap, Intents
<1>4. \A m \in Intents, x \in Templates : [m EXCEPT !.row = x] \in Intents
                                          /\ [m EXCEPT !.row = x].row = x
  BY DEF Intents
<1>5. ASSUME NEW name \in Labels, NEW content \in Texts, NEW snippet \in Texts,
             CreateTemplate(name, content, snippet)
      PROVE  TemplateInv'
  <2> DEFINE t == made.templates + 1
             x == [name |-> name, content |-> content, snippet |-> snippet]
  <2>1. /\ made.templates < MaxRows /\ made'.templates = t /\ NameFree(TemplateNames, t, name)
        /\ template' = [template EXCEPT ![t] = x]
        /\ meant' = [meant EXCEPT ![t].row = x]
    BY <1>5 DEF CreateTemplate, WorkspaceInv, MadeInv
  <2>2. t \in Rows /\ t <= t
    BY <2>1, MadeNext, WorkspaceConstants, SMT DEF Rows
  <2>3. x \in Whole /\ x.name = name
    BY DEF Whole
  <2> HIDE DEF x, t
  <2>4. [meant[t] EXCEPT !.row = x] \in Intents /\ [meant[t] EXCEPT !.row = x].row = x
    BY <1>0, <1>1, <1>4, <2>2, <2>3
  <2>5. meant' = [meant EXCEPT ![t] = [meant[t] EXCEPT !.row = x]]
    BY <2>1
  <2> QED
    BY <1>2, <2>1, <2>2, <2>3, <2>4, <2>5
<1>6. ASSUME NEW t \in Rows, DeleteTemplate(t) PROVE TemplateInv'
  <2>1. [meant[t] EXCEPT !.row = NoTemplate] \in Intents
        /\ [meant[t] EXCEPT !.row = NoTemplate].row = NoTemplate
    BY <1>0, <1>1, <1>4
  <2>2. meant' = [meant EXCEPT ![t] = [meant[t] EXCEPT !.row = NoTemplate]]
        /\ template' = [template EXCEPT ![t] = NoTemplate]
    BY <1>6 DEF DeleteTemplate
  <2> QED
    BY <1>2, <2>1, <2>2
<1>7. ASSUME NEW s \in Servers, UpdateEnd(s) PROVE TemplateInv'
  <2> DEFINE t == at[s].of
             g == at[s].given
             x == Resolved(at[s].read, g)
             m == [row |-> Meant(meant[t].row, g),
                   raced |-> meant[t].raced \/ template[t] # at[s].read]
  <2>1. at[s].doing = "update" /\ at[s] \in Tasks /\ t \in Rows /\ t <= made.templates
    BY <1>7 DEF UpdateEnd, WorkspaceInv, AtInv
  <2>2. g \in GivenFields /\ at[s].read \in Whole
    BY <2>1 DEF Tasks, Unoccupied, Moves, Deletes, Bind, Updates
  <2>3. x \in Whole /\ x = Meant(at[s].read, g)
    BY <2>2, ResolvedAsMeant
  <2>4. meant[t].row \in Templates /\ (meant[t].raced \/ template[t] # at[s].read) \in BOOLEAN
    BY <1>0, <2>1 DEF Intents
  <2>5. Meant(meant[t].row, g) \in Templates
    BY <2>2, <2>4, ResolvedAsMeant
  <2>6. m \in Intents
    BY <2>4, <2>5 DEF Intents
  <2>7. ~m.raced => m.row = x
    BY <1>0, <2>1, <2>3
  <2>8. CASE template[t] # NoTemplate /\ NameFree(TemplateNames, t, x.name)
    <3>1. template' = [template EXCEPT ![t] = x] /\ meant' = [meant EXCEPT ![t] = m]
      BY <1>7, <2>8 DEF UpdateEnd
    <3> HIDE DEF x, m
    <3> QED
      BY <1>0, <1>2, <2>1, <2>3, <2>6, <2>7, <2>8, <3>1
  <2>9. CASE ~(template[t] # NoTemplate /\ NameFree(TemplateNames, t, x.name))
    BY <1>3, <1>7, <2>9 DEF UpdateEnd
  <2> QED
    BY <2>8, <2>9
<1> QED
  BY <1>3, <1>5, <1>6, <1>7
     DEF WorkspaceNext, workspaceVars, tables, CreateFolder, RenameFolder, DeleteFolder,
         CreateConv, MoveBegin, DeleteBegin, BindBegin, UpdateBegin, BindOff,
         MoveEnd, DeleteEnd, BindOn, BindCommit, BindDeadlock, Lost

-----------------------------------------------------------------------------
(* Theorems.                                                                *)

LEMMA WorkspaceStart == WorkspaceInit => WorkspaceInv
<1> SUFFICES ASSUME WorkspaceInit PROVE WorkspaceInv
  OBVIOUS
<1>1. MadeInv
  BY WorkspaceConstants, SMT DEF WorkspaceInit, MadeInv
<1>2. FolderInv
  BY DEF WorkspaceInit, FolderInv
<1>3. ConvInv
  <2>1. \A i \in Rows : ~(i <= made.convs)
    BY SMT DEF WorkspaceInit, Rows
  <2> QED
    BY <2>1 DEF WorkspaceInit, ConvInv, NoConv
<1>4. AtInv
  BY DEF WorkspaceInit, AtInv, Tasks, Unoccupied
<1>5. LinkInv
  <2>1. BindsAlone
    BY DEF WorkspaceInit, BindsAlone, Binds, Unoccupied
  <2>2. LastBindIsActive
    BY DEF WorkspaceInit, LastBindIsActive, Active
  <2> QED
    BY <2>1, <2>2 DEF WorkspaceInit, LinkInv
<1>6. TemplateInv
  <2>1. NoTemplate \in Templates
    BY DEF NoTemplate, Templates
  <2> QED
    BY <2>1 DEF WorkspaceInit, TemplateInv, LostOnlyToOverlap
<1> QED
  BY <1>1, <1>2, <1>3, <1>4, <1>5, <1>6 DEF WorkspaceInv

LEMMA WorkspaceStep == WorkspaceInv /\ [WorkspaceNext]_workspaceVars => WorkspaceInv'
  BY MadeNext, FolderNext, ConvNext, AtNext, LinkNext, TemplateNext DEF WorkspaceInv

LEMMA WorkspaceTypes == WorkspaceInv => WorkspaceTypeOK
<1> SUFFICES ASSUME WorkspaceInv PROVE WorkspaceTypeOK
  OBVIOUS
<1>1. \A i \in Rows : IF i <= made.convs
                      THEN conv[i] \in [status : {"active", "deleted"}, folder : Seen]
                      ELSE conv[i] = NoConv
  BY DEF WorkspaceInv, ConvInv
<1>2. \A s \in Servers : Busy(at[s])
  <2> SUFFICES ASSUME NEW s \in Servers PROVE Busy(at[s])
    OBVIOUS
  <2>0. /\ at[s] \in Tasks
        /\ at[s].doing \in {"move", "delete", "bind"} => at[s].conv \in Rows /\ at[s].conv <= made.convs
        /\ at[s].doing = "move" => at[s].folder \in Seen
        /\ at[s].doing = "update" => at[s].of \in Rows /\ at[s].of <= made.templates
    BY DEF WorkspaceInv, AtInv
  <2>1. \A i \in Rows : /\ i <= made.convs => i \in 1 .. made.convs
                        /\ i <= made.templates => i \in 1 .. made.templates
    BY SMT DEF Rows, WorkspaceInv, MadeInv
  <2>2. Whole \subseteq Templates
    BY DEF Whole, Templates
  <2>3. at[s] \in Moves => Busy(at[s])
    BY <2>0, <2>1 DEF Moves, Busy
  <2>4. at[s] \in Deletes => Busy(at[s])
    BY <2>0, <2>1 DEF Deletes, Busy
  <2>5. at[s] \in Bind => Busy(at[s])
    <3>1. at[s] \in Bind => at[s].doing = "bind"
      BY DEF Bind
    <3> QED
      BY <2>0, <3>1 DEF Busy
  <2>6. at[s] \in Updates => Busy(at[s])
    BY <2>0, <2>1, <2>2 DEF Updates, Busy
  <2> QED
    BY <2>0, <2>3, <2>4, <2>5, <2>6 DEF Tasks, Busy
<1>3. \A i \in Rows : template[i] \in Templates /\ (template[i] # NoTemplate => i <= made.templates)
  BY DEF WorkspaceInv, TemplateInv, Whole, Templates, NoTemplate
<1>4. \A i \in Rows : folder[i] # Absent => folder[i] \in Labels /\ i <= made.folders
  BY DEF WorkspaceInv, FolderInv
<1> QED
  BY <1>1, <1>2, <1>3, <1>4 DEF WorkspaceTypeOK, WorkspaceInv, MadeInv, LinkInv

\* Whatever several servers write at once, no name is there twice, what the last bind asked
\* for is active, and an update is lost only to one it overlapped (ServersAgree).
THEOREM ServersDoAgree == WorkspaceInit /\ [][WorkspaceNext]_workspaceVars => []ServersAgree
<1>1. WorkspaceInv => ServersAgree
  BY DEF WorkspaceInv, FolderInv, LinkInv, TemplateInv, ServersAgree, NamesAreUnique
<1>2. WorkspaceInit /\ [][WorkspaceNext]_workspaceVars => []WorkspaceInv
  BY WorkspaceStart, WorkspaceStep, PTL
<1> QED
  BY <1>1, <1>2, PTL

\* A deleted conversation stays deleted (DeletedStaysDeleted).
THEOREM DeletionIsFinal == WorkspaceInit /\ [][WorkspaceNext]_workspaceVars => DeletedStaysDeleted
<1>1. WorkspaceInv /\ [WorkspaceNext]_workspaceVars
      => [\A c \in Rows : conv[c].status = "deleted" => conv'[c].status = "deleted"]_workspaceVars
  BY ConvNext
<1>2. WorkspaceInit /\ [][WorkspaceNext]_workspaceVars => []WorkspaceInv
  BY WorkspaceStart, WorkspaceStep, PTL
<1> QED
  BY <1>1, <1>2, PTL DEF DeletedStaysDeleted

-----------------------------------------------------------------------------
(* Both kinds of behaviour.                                                 *)

\* Either kind of behaviour keeps the types of what it changes, and the other keeps its own
\* by staying as it began (BothTypeOK).
THEOREM BothTypesHold == BothSpec => []BothTypeOK
<1> DEFINE BothInv == TypeOK /\ KbInv /\ WorkspaceInv
<1>1. BothInit => BothInv
  BY KbInit, WorkspaceStart DEF BothInit
<1>2. BothInv /\ [BothNext]_<<part, vars, workspaceVars>> => BothInv'
  <2> SUFFICES ASSUME BothInv, [BothNext]_<<part, vars, workspaceVars>> PROVE BothInv'
    OBVIOUS
  <2>1. [Next]_vars /\ [WorkspaceNext]_workspaceVars
    BY DEF BothNext
  <2>2. TypeOK' /\ KbInv'
    BY <2>1, KbNext
  <2>3. WorkspaceInv'
    BY <2>1, WorkspaceStep
  <2> QED
    BY <2>2, <2>3
<1>3. BothInv => BothTypeOK
  BY WorkspaceTypes DEF BothTypeOK
<1> QED
  <2> HIDE DEF BothInv
  <2> QED
    BY <1>1, <1>2, <1>3, PTL DEF BothSpec
=============================================================================
