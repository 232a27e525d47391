----------------------------- MODULE Retrieval ------------------------------
(***************************************************************************)
(* From a parsed document to the sources under an answer: a file's import   *)
(* cuts the document into data rows and adds its pictures, a question       *)
(* searches the knowledge bases it names one after the other, merges what   *)
(* they found and numbers the citations, a hit test searches one knowledge  *)
(* base, and a citation's link is opened later.  Imports and deletions      *)
(* happen at any time, also between two searches of one question.           *)
(*                                                                          *)
(* A document is a sequence of pages; a page has the pieces the splitter     *)
(* makes of its text and its pictures.  The splitter's cuts, embeddings and  *)
(* scores are inputs; the rows are those of PgVectorStore.                  *)
(***************************************************************************)
EXTENDS Integers, Sequences, FiniteSets, FiniteSetsExt, Functions

CONSTANTS
  Kbs, Files, KbOf,   \* the file's knowledge base: [Files -> Kbs]
  Docs, Content,      \* parsed documents: [Docs -> Seq(Page)]
  ImageKeys,          \* keys of pictures on the server
  NoDoc,              \* a file without rows
  TopK,               \* RAG_TOP_K
  MaxAsked,           \* bound: knowledge bases named by one question
  MaxScore,           \* bound: distinct scores
  MaxImports          \* bound: imports and deletions in a behaviour

\* A page: the pieces the splitter makes of its text, and its pictures.
Page ==
  [pieces : Seq([blank : BOOLEAN, keys : Seq(ImageKeys)]),
   images : Seq([key : ImageKeys, described : BOOLEAN])]

ASSUME RetrievalAssumption ==
  /\ IsFiniteSet(Files) /\ KbOf \in [Files -> Kbs]
  /\ Content \in [Docs -> Seq(Page)] /\ NoDoc \notin Docs
  /\ TopK \in Nat \ {0} /\ MaxAsked \in Nat \ {0} /\ MaxScore \in Nat \ {0}
  /\ MaxImports \in Nat

VARIABLES
  doc,      \* per file, the document its rows are made of and how many of them are in
            \* t_fact_kb_data and in t_fact_kb_index
  phase,    \* of the request: "idle", "search", "answered", "tested"
  asked,    \* knowledge_base_ids of the question
  hits,     \* what was found so far, then the citations; each numbered by its place
  missed,   \* history: the best score of a text left out by each search
  opened,   \* what the citation's link showed, or what was not there
  imports   \* imports and deletions so far, for the bound

vars == <<doc, phase, asked, hits, missed, opened, imports>>
requestVars == <<phase, asked, hits, missed, opened>>

Pages(d) == Content[d]

-----------------------------------------------------------------------------
(* Sequences in an order.                                                   *)

\* The elements of a finite set, `before' being the pairs of them that are in order.
Ordered(S, before) ==
  [n \in 1 .. Cardinality(S) |-> CHOOSE x \in S : Cardinality({y \in S : <<y, x>> \in before}) = n - 1]

\* Numbers upwards, and places <<p, i>> of a document by page and place on the page.
Upwards(S) == Ordered(S, {p \in S \X S : p[1] < p[2]})
InDocument(S) ==
  Ordered(S, {p \in S \X S : \/ p[1][1] < p[2][1]
                             \/ p[1][1] = p[2][1] /\ p[1][2] < p[2][2]})

\* What a sequence has at some of its places.
Only(s, places) == LET at == Upwards(places) IN [n \in DOMAIN at |-> s[at[n]]]

-----------------------------------------------------------------------------
(* A document's rows.                                                       *)

\* The pieces that are not blank, in the document's order.
Pieces(d) ==
  InDocument(UNION {{<<p, i>> : i \in {j \in DOMAIN Pages(d)[p].pieces : ~Pages(d)[p].pieces[j].blank}} :
                      p \in DOMAIN Pages(d)})

\* The data chunks: a numbered chunk for each piece.
DataChunks(d) ==
  LET at == Pieces(d)
  IN [n \in DOMAIN at |->
        [data |-> <<"d", 0, n - 1>>, type |-> "text",
         keys |-> Pages(d)[at[n][1]].pieces[at[n][2]].keys, at |-> n - 1]]

\* The pictures in order, each by its page and its place on the page.
Images(d) ==
  InDocument(UNION {{<<p, i>> : i \in DOMAIN Pages(d)[p].images} : p \in DOMAIN Pages(d)})

Picture(d, i) == Pages(d)[Images(d)[i][1]].images[Images(d)[i][2]]

\* Variant: a picture's row is named by its place on the page alone.
ImageRow_NoPage(d, i) ==
  [data |-> <<"img", 0, Images(d)[i][2] - 1>>, type |-> "image",
   keys |-> <<Picture(d, i).key>>, at |-> Len(DataChunks(d)) + i - 1]

\* A picture's row: it follows the text.
ImageRow(d, i) ==
  [data |-> <<"img", Images(d)[i][1], Images(d)[i][2] - 1>>, type |-> "image",
   keys |-> <<Picture(d, i).key>>, at |-> Len(DataChunks(d)) + i - 1]

\* Pictures whose file cannot be read or whose description is refused are left out.
DataRecords(d) ==
  LET kept == Upwards({i \in DOMAIN Images(d) : Picture(d, i).described})
  IN DataChunks(d) \o [n \in DOMAIN kept |-> ImageRow(d, kept[n])]

Records == [d \in Docs |-> DataRecords(d)]

NoRows(d) == [of |-> d, data |-> 0, index |-> 0]
AllRows(d) == [of |-> d, data |-> Len(Records[d]), index |-> Len(Records[d])]

\* The first m rows of a file; `text' stands for the row's text, which no other row has.
RowsOf(f, m) ==
  LET d == doc[f].of
  IN {[file |-> f, data |-> Records[d][n].data, type |-> Records[d][n].type,
       keys |-> Records[d][n].keys, at |-> Records[d][n].at, text |-> <<d, n>>] : n \in 1 .. m}

\* upsert_data_index deletes the rows of the file, then inserts those of d, each in a
\* transaction of its own; it may end anywhere.  A deletion (d is NoDoc) inserts nothing.
Clear(f, d) ==
  /\ imports < MaxImports /\ imports' = imports + 1
  /\ doc' = [doc EXCEPT ![f] = NoRows(d)]
  /\ UNCHANGED requestVars

\* bulk_upsert_data: the next row.
StoreData(f) ==
  /\ doc[f].of # NoDoc /\ doc[f].data < Len(Records[doc[f].of])
  /\ doc' = [doc EXCEPT ![f].data = @ + 1]
  /\ UNCHANGED <<requestVars, imports>>

\* bulk_upsert_index, after all data rows: the next one can be found.
StoreIndex(f) ==
  /\ doc[f].of # NoDoc /\ doc[f].data = Len(Records[doc[f].of])
  /\ doc[f].index < doc[f].data
  /\ doc' = [doc EXCEPT ![f].index = @ + 1]
  /\ UNCHANGED <<requestVars, imports>>

-----------------------------------------------------------------------------
(* Searching one knowledge base.                                            *)

Keys(h) == Range(h.keys)
IsImage(h) == h.type = "image"

\* Sorted by score, the best first; hits of one score keep their order.
ByScore(s) ==
  LET at == Ordered(DOMAIN s, {p \in (DOMAIN s) \X (DOMAIN s) :
                                 \/ s[p[1]].score > s[p[2]].score
                                 \/ s[p[1]].score = s[p[2]].score /\ p[1] < p[2]})
  IN [n \in DOMAIN at |-> s[at[n]]]

Top(s, k) == SubSeq(s, 1, Min({k, Len(s)}))

\* A row that was found, with its score.
Hit(row, score) ==
  [file |-> row.file, data |-> row.data, type |-> row.type, keys |-> row.keys,
   text |-> row.text, score |-> score]

\* GROUP BY data row: whatever index rows of it matched, a row is found once.
Grouped(s) == IsInjective(s)

\* What ORDER BY score DESC LIMIT k may return for some scores of the rows: equal scores
\* come in any order.  `rest' is the best score of a text that was not returned, or 0.
SearchData(rows, k) ==
  LET places == 1 .. Min({k, Cardinality(rows)})
      Rests(found, score) ==
        IF \A r \in rows \ Range(found) : IsImage(r) THEN {0}
        ELSE 1 .. Min(Range(score))
  IN UNION {UNION {{[found |-> [i \in places |-> Hit(found[i], score[i])], rest |-> rest] :
                      rest \in Rests(found, score)} :
              score \in {v \in [places -> 1 .. MaxScore] : \A i, j \in places : i < j => v[i] >= v[j]}} :
       found \in {s \in [places -> rows] : Grouped(s)}}

\* Variant: pictures stay beside the text that shows them.
DropImages_Never(s) == s

\* No picture of its own where there is a text.
DropImages(s) ==
  LET texts == {i \in DOMAIN s : ~IsImage(s[i])}
  IN IF texts # {} THEN Only(s, texts) ELSE s

\* A hit is taken after the others.
Taking(acc, others, h) ==
  [selected |-> Append(others, h), seen |-> acc.seen \cup Keys(h), deferred |-> acc.deferred]

\* One turn of the first loop: texts are taken, pictures with new keys wait.
Take(acc, h) ==
  IF Keys(h) = {} THEN Taking(acc, acc.selected, h)
  ELSE IF Keys(h) \cap acc.seen # {}
    THEN IF IsImage(h) THEN acc
         ELSE Taking(acc, Only(acc.selected, {i \in DOMAIN acc.selected :
                                                \/ ~IsImage(acc.selected[i])
                                                \/ Keys(acc.selected[i]) \cap Keys(h) = {}}), h)
  ELSE IF IsImage(h) THEN [acc EXCEPT !.deferred = Append(@, h)]
  ELSE Taking(acc, acc.selected, h)

\* One turn of the second loop: a waiting picture whose key is still new.
TakeImage(acc, h) == IF Keys(h) \cap acc.seen # {} THEN acc ELSE Taking(acc, acc.selected, h)

\* The loops over what was found, and over the pictures that waited.
Taken(s) ==
  LET acc[n \in 0 .. Len(s)] ==
        IF n = 0 THEN [selected |-> <<>>, seen |-> {}, deferred |-> <<>>] ELSE Take(acc[n - 1], s[n])
  IN acc[Len(s)]

WithImages(first) ==
  LET acc[n \in 0 .. Len(first.deferred)] ==
        IF n = 0 THEN first ELSE TakeImage(acc[n - 1], first.deferred[n])
  IN acc[Len(first.deferred)]

\* postprocess_search_hits.  Rows of refused descriptions are never stored, so that its
\* first filter has nothing to do.
Postprocess(found, k) ==
  Top(ByScore(WithImages(Taken(ByScore(DropImages(found)))).selected), k)

\* The best score among the texts that are not shown; 0 when there is none.
BestMissed(result, kept) ==
  Max({result.rest} \cup {result.found[i].score :
        i \in {j \in DOMAIN result.found : /\ ~IsImage(result.found[j])
                                           /\ result.found[j] \notin Range(kept)}})

-----------------------------------------------------------------------------
(* A question, a hit test and a citation's link.                            *)

\* _resolve_kb_ids: the list is taken as it is, also with one id twice.
Ask(kbs) ==
  /\ phase = "idle"
  /\ phase' = "search" /\ asked' = kbs
  /\ UNCHANGED <<doc, hits, missed, opened, imports>>

Turn == Len(missed) + 1
FilesOf(k) == {f \in Files : KbOf[f] = k}
KbRows(k) == UNION {RowsOf(f, doc[f].index) : f \in FilesOf(k)}

\* The next knowledge base is searched in a thread.  What search and hit_test do when
\* nothing is found -- they search for documents under the knowledge base's name -- finds
\* nothing: only the data of an earlier version has such documents (KbStore has them).
Search ==
  /\ phase = "search" /\ Turn <= Len(asked)
  /\ \E result \in SearchData(KbRows(asked[Turn]), TopK) :
       LET kept == Postprocess(result.found, TopK)
       IN /\ hits' = hits \o kept
          /\ missed' = Append(missed, BestMissed(result, kept))
  /\ UNCHANGED <<doc, phase, asked, opened, imports>>

\* It was deleted, or the search raised: logged, and no hits.
SearchFails ==
  /\ phase = "search" /\ Turn <= Len(asked)
  /\ missed' = Append(missed, 0)
  /\ UNCHANGED <<doc, phase, asked, hits, opened, imports>>

\* Variant: the answer does not wait for every knowledge base.
Answer_Early ==
  /\ phase = "search"
  /\ phase' = "answered"
  /\ hits' = Top(ByScore(hits), TopK * Max({Len(asked), 1}))
  /\ UNCHANGED <<doc, asked, missed, opened, imports>>

\* The hits of all, the best first; citations_from_hits numbers them.
Answer ==
  /\ phase = "search" /\ Turn > Len(asked)
  /\ phase' = "answered"
  /\ hits' = Top(ByScore(hits), TopK * Max({Len(asked), 1}))
  /\ UNCHANGED <<doc, asked, missed, opened, imports>>

\* The places of what is of the files asked for; no files, no filter.
Wanted(found, fs) == {i \in DOMAIN found : fs = {} \/ found[i].file \in fs}

\* hit_test: of the best k of the knowledge base, those of the files asked for; they are
\* filtered and deduplicated afterwards.
HitTest(k, fs) ==
  /\ phase = "idle"
  /\ \E result \in SearchData(KbRows(k), TopK) :
       LET found == Only(result.found, Wanted(result.found, fs))
           kept == Postprocess(found, TopK)
       IN hits' = kept /\ missed' = <<BestMissed([result EXCEPT !.found = found], kept)>>
  /\ phase' = "tested" /\ asked' = <<k>>
  /\ UNCHANGED <<doc, opened, imports>>

\* A file's rows as list_data_by_file orders them.
Listed(f) ==
  LET rows == RowsOf(f, doc[f].data)
  IN Ordered(rows, {p \in rows \X rows : p[1].at < p[2].at})

Window(rows, n, context) ==
  [target |-> rows[n],
   before |-> SubSeq(rows, Max({1, n - context}), n - 1),
   after |-> SubSeq(rows, n + 1, Min({n + context, Len(rows)}))]

NotOpened == [citation |-> 0, shown |-> <<>>]

\* get_file_chunk_with_context, once in a behaviour: the chunk the citation's path names, with `context'
\* chunks on either side.  Nothing is shown when the file has no such chunk now.
Open(c, context) ==
  /\ phase = "answered" /\ opened = NotOpened
  /\ c \in DOMAIN hits
  /\ LET rows == Listed(hits[c].file)
         places == {n \in DOMAIN rows : rows[n].data = hits[c].data}
     IN opened' = [citation |-> c,
                   shown |-> IF places = {} THEN <<>> ELSE <<Window(rows, Min(places), context)>>]
  /\ UNCHANGED <<doc, phase, asked, hits, missed, imports>>

Init ==
  /\ doc \in [Files -> {NoRows(NoDoc)} \cup {AllRows(d) : d \in Docs}]
  /\ phase = "idle" /\ asked = <<>> /\ hits = <<>> /\ missed = <<>>
  /\ opened = NotOpened /\ imports = 0

Next ==
  \/ \E f \in Files : StoreData(f) \/ StoreIndex(f) \/ \E d \in Docs \cup {NoDoc} : Clear(f, d)
  \/ \E n \in 1 .. MaxAsked : \E kbs \in [1 .. n -> Kbs] : Ask(kbs)
  \/ Search \/ SearchFails \/ Answer
  \/ \E k \in Kbs : \E fs \in SUBSET FilesOf(k) : HitTest(k, fs)
  \/ \E c \in 1 .. MaxAsked * TopK, context \in 0 .. 1 : Open(c, context)

Spec == Init /\ [][Next]_vars

-----------------------------------------------------------------------------
(* The sources under an answer: build_message_sources.                      *)

\* The number of the n-th citation.
Index(n) == n

\* The numbers of the citations of each cited file, as files[].segmentIndexes.
SegmentIndexes(f) == {Index(n) : n \in {m \in DOMAIN hits : hits[m].file = f}}

\* figures[]: each key once, for the first citation that has it.
Figures ==
  UNION {{[ref |-> Index(n), key |-> key] :
            key \in Keys(hits[n]) \ UNION {Keys(hits[i]) : i \in 1 .. n - 1}} : n \in DOMAIN hits}

-----------------------------------------------------------------------------
(* Properties.                                                              *)

\* Every variable has its type; an answer has waited for every search and a link belongs
\* to a citation.
TypeOK ==
  /\ \A f \in Files : /\ doc[f].of \in Docs \cup {NoDoc}
                      /\ doc[f].index <= doc[f].data
                      /\ doc[f].data <= IF doc[f].of = NoDoc THEN 0 ELSE Len(Records[doc[f].of])
  /\ phase \in {"idle", "search", "answered", "tested"}
  /\ asked \in Seq(Kbs) /\ Len(asked) <= MaxAsked
  /\ \A n \in DOMAIN hits : hits[n].file \in Files /\ hits[n].score \in 1 .. MaxScore
  /\ Len(hits) <= TopK * Len(asked)
  /\ missed \in Seq(0 .. MaxScore)
  /\ IF phase \in {"answered", "tested"} THEN Len(missed) = Len(asked)
                                        ELSE Len(missed) <= Len(asked)
  /\ imports \in 0 .. MaxImports
  /\ opened.citation \in 0 .. Len(hits)

NamedOnce(k) == Cardinality({n \in DOMAIN asked : asked[n] = k}) = 1
SameKb(h, k) == KbOf[h.file] = k

\* What one search of a knowledge base returns shows a picture of its own only where it
\* shows no text, and no picture twice (postprocess_search_hits), whatever files were asked
\* for and however texts and pictures with one key are ordered.
PicturesStandAlone ==
  \A i, j \in DOMAIN hits :
    /\ i # j /\ KbOf[hits[i].file] = KbOf[hits[j].file] /\ NamedOnce(KbOf[hits[i].file])
    /\ IsImage(hits[i])
    => IsImage(hits[j]) /\ Keys(hits[i]) \cap Keys(hits[j]) = {}

\* Citations are sorted, and no text that was left out is better than a text of its
\* knowledge base that is cited (search_data, _retrieve_citations), even when pictures
\* that are dropped took places among the best k.
BestAreCited ==
  phase \in {"answered", "tested"} =>
    /\ \A i, j \in DOMAIN hits : i < j => hits[i].score >= hits[j].score
    /\ \A i \in DOMAIN hits, n \in DOMAIN asked :
         asked[n] = KbOf[hits[i].file] /\ NamedOnce(asked[n]) /\ ~IsImage(hits[i])
         => hits[i].score >= missed[n]

\* A chunk is cited no more often than its knowledge base was named (_resolve_kb_ids,
\* _retrieve_citations): imports between the searches add no second citation.
CitedAsNamed ==
  \A n \in DOMAIN hits :
    Cardinality({m \in DOMAIN hits : /\ hits[m].file = hits[n].file
                                     /\ hits[m].data = hits[n].data})
      <= Cardinality({m \in DOMAIN asked : asked[m] = KbOf[hits[n].file]})

\* The numbers in the sources lead back to the citations: a figure's number to a citation
\* with that picture, every picture to one figure, and a file's numbers to its citations,
\* each in one file (build_message_sources).
NumbersLeadBack ==
  phase = "answered" =>
    /\ \A fig \in Figures : fig.ref \in DOMAIN hits /\ fig.key \in Keys(hits[fig.ref])
    /\ \A n \in DOMAIN hits : \A key \in Keys(hits[n]) :
         Cardinality({fig \in Figures : fig.key = key}) = 1
    /\ \A n \in DOMAIN hits : \A f \in Files : n \in SegmentIndexes(f) <=> hits[n].file = f

\* A citation's link shows the cited text, or nothing, as long as the file's rows are made
\* of the document that was searched; what it shows around it are the rows just before and
\* just after, in order, the pictures last (get_file_chunk_with_context).
LinksHold ==
  \A n \in DOMAIN opened.shown :
    LET window == opened.shown[n]
        rows == window.before \o <<window.target>> \o window.after
    IN /\ window.target.text[1] = hits[opened.citation].text[1]
            => window.target.text = hits[opened.citation].text
       /\ \A i \in 1 .. Len(rows) - 1 :
            /\ rows[i + 1].text[2] = rows[i].text[2] + 1
            /\ IsImage(rows[i]) => IsImage(rows[i + 1])

\* A search leaves out nothing better than what it returns, pictures that are shown by a
\* text apart (postprocess_search_hits, _retrieve_citations).
HitsAreBest == PicturesStandAlone /\ BestAreCited

\* A citation stands for what was found: not oftener than found, under its own number, and
\* behind its link is the text that was cited (_retrieve_citations, build_message_sources,
\* get_file_chunk_with_context).
CitationsHold == CitedAsNamed /\ NumbersLeadBack /\ LinksHold
=============================================================================
