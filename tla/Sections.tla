------------------------------ MODULE Sections ------------------------------
(***************************************************************************)
(* From a parsed file to its data chunks and index texts: the DOCX parser, *)
(* which reads a document paragraph by paragraph; parse_markdown_text,     *)
(* line by line; the pages of a PDF's text layer; then ChunkingService.    *)
(*                                                                         *)
(* A document is a sequence of items: a heading, a heading of a page, a    *)
(* heading of a data index, a text, a table, or a stray mark, with or      *)
(* without a picture in it.  A text is its item's position, and is as long *)
(* as any other: sizes are counted in items, and the splitter of the       *)
(* library cuts where a chunk is full.  A heading has words of its own.    *)
(* A picture put at the end of a block stands for itself.  The overlap     *)
(* asked for is 0.                                                         *)
(***************************************************************************)
EXTENDS Integers, Sequences, SequencesExt, FiniteSets, FiniteSetsExt

CONSTANTS
  Pictures,     \* the pictures a document may have
  Bare,         \* no picture, no page, no heading
  MaxItems,     \* bound: items of a document
  ChunkItems,   \* how many items fit in a chunk
  IndexItems    \* how many fit in an index text

Formats == {"docx", "markdown", "pages"}
Plans == {"default", "page", "length"}
Kinds == {"heading", "page", "index", "text", "table", "mark"}

ASSUME SectionsAssumption ==
  /\ Bare \notin Pictures /\ Bare \notin Nat /\ Pictures \cap Nat = {} /\ IsFiniteSet(Pictures)
  /\ MaxItems \in Nat /\ ChunkItems \in Nat \ {0} /\ IndexItems \in Nat \ {0}

VARIABLES
  format, plan, items,   \* the document and how it is to be split: fixed
  related,               \* pictures the DOCX file holds, in its body or elsewhere
  at,                    \* the item to be read
  heading, page, body,   \* the section being read
  skipping,              \* in a data index
  cached,                \* pictures of the DOCX stored so far
  blocks, chunks, indexes

docVars == <<format, plan, items, related>>
sectionVars == <<docVars, at, heading, page, body, skipping, cached, blocks, chunks, indexes>>

Item == [kind : Kinds, picture : Pictures \cup {Bare}]
Positions == 1 .. Len(items)
IsHeading(i) == items[i].kind \in {"heading", "page", "index"}

\* What each format has: only DOCX has tables, marks and data indexes to skip, and only
\* Markdown headings of pages; in a text layer an item is a page.
Fits(f, item) ==
  CASE f = "docx" -> item.kind # "page"
    [] f = "markdown" -> item.kind \in {"heading", "page", "text"}
    [] f = "pages" -> item.kind \in {"text", "mark"} /\ item.picture = Bare

NoDocument ==
  /\ format = "markdown" /\ plan = "default" /\ items = <<>> /\ related = {}
SectionsIdle ==
  /\ at = 1 /\ heading = Bare /\ page = Bare /\ body = <<>> /\ skipping = FALSE
  /\ cached = {} /\ blocks = <<>> /\ chunks = <<>> /\ indexes = <<>>

SectionsInit ==
  /\ format \in Formats /\ plan \in Plans
  /\ items \in UNION {[1 .. n -> {item \in Item : Fits(format, item)}] : n \in 1 .. MaxItems}
  /\ related \in SUBSET Pictures
  /\ {items[i].picture : i \in 1 .. Len(items)} \ {Bare} \subseteq related
  /\ format # "docx" => related \subseteq {items[i].picture : i \in 1 .. Len(items)}
  /\ SectionsIdle

\* Lists one after the other, as extend makes them.
Joined(lists) ==
  LET all[n \in 0 .. Len(lists)] == IF n = 0 THEN <<>> ELSE all[n - 1] \o lists[n]
  IN  all[Len(lists)]

-----------------------------------------------------------------------------
(* Reading.                                                                 *)

Block(h, p, b) == [heading |-> h, page |-> p, body |-> b]

PictureStored == cached' = cached \cup ({items[at].picture} \ {Bare})

\* A section of a DOCX ends: without a body its heading is dropped.
FlushDocx ==
  IF body = <<>> THEN blocks' = blocks
  ELSE blocks' = Append(blocks, Block(heading, Bare, body))

\* _to_document at a heading: a picture in it is stored, and shown nowhere.
DocxHeading ==
  /\ format = "docx" /\ at \in Positions /\ items[at].kind \in {"heading", "index"}
  /\ FlushDocx
  /\ body' = <<>>
  /\ skipping' = (items[at].kind = "index")
  /\ heading' = IF items[at].kind = "index" THEN Bare ELSE at
  /\ PictureStored /\ at' = at + 1
  /\ UNCHANGED <<docVars, page, chunks, indexes>>

\* Variant: a table is skipped like a text.
DocxContent_SkipsTables ==
  /\ format = "docx" /\ at \in Positions /\ ~IsHeading(at)
  /\ body' = IF skipping \/ (items[at].kind = "mark" /\ items[at].picture = Bare)
             THEN body ELSE Append(body, at)
  /\ PictureStored /\ at' = at + 1
  /\ UNCHANGED <<docVars, heading, page, skipping, blocks, chunks, indexes>>

\* _to_document elsewhere: a mark with no letter or digit is passed over, a text in a
\* data index too; a table is not.
DocxContent ==
  /\ format = "docx" /\ at \in Positions /\ ~IsHeading(at)
  /\ body' = IF \/ items[at].kind = "mark" /\ items[at].picture = Bare
                \/ skipping /\ items[at].kind # "table"
             THEN body ELSE Append(body, at)
  /\ PictureStored /\ at' = at + 1
  /\ UNCHANGED <<docVars, heading, page, skipping, blocks, chunks, indexes>>

\* Pictures of the file that no paragraph or table held.
Orphans == related \ cached

\* They go to the last block.
WithOrphans(read) ==
  IF Orphans = {} THEN read
  ELSE IF read = <<>> THEN <<Block(Bare, Bare, SetToSeq(Orphans))>>
  ELSE LET last == read[Len(read)]
       IN  [read EXCEPT ![Len(read)] =
              Block(last.heading, last.page, last.body \o SetToSeq(Orphans))]

\* The words of every paragraph, headings and all.
AllWords == Joined([i \in Positions |-> IF items[i].kind = "table" THEN <<>> ELSE <<i>>])

\* The end of a DOCX: what is left is flushed and pictures met nowhere are added; with no
\* block at all the words are taken as they are.
DocxEnd ==
  /\ format = "docx" /\ at = Len(items) + 1
  /\ LET read == IF body = <<>> THEN blocks ELSE Append(blocks, Block(heading, Bare, body))
         shown == WithOrphans(read)
     IN  blocks' = IF shown = <<>> /\ AllWords # <<>> THEN <<Block(Bare, Bare, AllWords)>> ELSE shown
  /\ cached' = related
  /\ at' = at + 1
  /\ UNCHANGED <<docVars, heading, page, body, skipping, chunks, indexes>>

\* flush of parse_markdown_text: a heading makes a block even with nothing under it.
FlushMarkdown ==
  IF body = <<>> /\ heading = Bare THEN blocks
  ELSE Append(blocks, Block(heading, page, body))

\* A heading line: "Page n" sets the page, every other heading clears it.
MarkdownHeading ==
  /\ format = "markdown" /\ at \in Positions /\ IsHeading(at)
  /\ blocks' = FlushMarkdown
  /\ heading' = at /\ body' = <<>>
  /\ page' = IF items[at].kind = "page" THEN at ELSE Bare
  /\ at' = at + 1
  /\ UNCHANGED <<docVars, skipping, cached, chunks, indexes>>

MarkdownLine ==
  /\ format = "markdown" /\ at \in Positions /\ ~IsHeading(at)
  /\ body' = Append(body, at)
  /\ at' = at + 1
  /\ UNCHANGED <<docVars, heading, page, skipping, cached, blocks, chunks, indexes>>

MarkdownEnd ==
  /\ format = "markdown" /\ at = Len(items) + 1
  /\ blocks' = FlushMarkdown
  /\ at' = at + 1
  /\ UNCHANGED <<docVars, heading, page, body, skipping, cached, chunks, indexes>>

\* PdfDocumentParser.parse: a page is a block, even one with no text in it.
PageRead ==
  /\ format = "pages" /\ at \in Positions
  /\ blocks' = Append(blocks,
       Block(Bare, at, IF items[at].kind = "text" THEN <<at>> ELSE <<>>))
  /\ at' = at + 1
  /\ UNCHANGED <<docVars, heading, page, body, skipping, cached, chunks, indexes>>

PagesEnd ==
  /\ format = "pages" /\ at = Len(items) + 1
  /\ at' = at + 1
  /\ UNCHANGED <<docVars, heading, page, body, skipping, cached, blocks, chunks, indexes>>

-----------------------------------------------------------------------------
(* Splitting.                                                               *)

\* The library's splitter: runs of at most `size' items.
Cut(texts, size) ==
  [n \in 1 .. (Len(texts) + size - 1) \div size |->
     SubSeq(texts, (n - 1) * size + 1,
            IF n * size < Len(texts) THEN n * size ELSE Len(texts))]

Chunk(texts, p) == [texts |-> texts, page |-> p]
CutTo(texts, p) == LET runs == Cut(texts, ChunkItems)
                   IN  [n \in DOMAIN runs |-> Chunk(runs[n], p)]

Titled(block) == IF block.heading = Bare THEN <<>> ELSE <<block.heading>>

\* A block with a text, its heading before it.
Section(block) == IF block.body = <<>> THEN <<>> ELSE Titled(block) \o block.body

\* full_text: Markdown keeps every heading, a DOCX those of its blocks with a text.
FullText ==
  IF format = "markdown" THEN [i \in Positions |-> i]
  ELSE Joined([b \in DOMAIN blocks |-> Section(blocks[b])])

FirstPage == IF blocks = <<>> THEN Bare ELSE blocks[1].page

\* _split_markdown_sections: block after block.
BySection == Joined([b \in DOMAIN blocks |-> CutTo(Section(blocks[b]), blocks[b].page)])

\* _split_page: each block without its heading.
ByPage == Joined([b \in DOMAIN blocks |-> CutTo(blocks[b].body, blocks[b].page)])

\* _split_length, and default where no block has a heading: the whole text, said to be on
\* the first block's page.
ByLength == CutTo(FullText, FirstPage)

\* Variant: only where every block has a heading.
HasSections_All == \A b \in DOMAIN blocks : blocks[b].heading # Bare

\* _should_split_markdown.
HasSections == \E b \in DOMAIN blocks : blocks[b].heading # Bare

\* ChunkingService.split.
SplitBlocks ==
  /\ at = Len(items) + 2
  /\ chunks' = CASE plan = "page" -> ByPage
                 [] plan = "length" -> ByLength
                 [] plan = "default" -> IF HasSections THEN BySection ELSE ByLength
  /\ at' = at + 1
  /\ UNCHANGED <<docVars, heading, page, body, skipping, cached, blocks, indexes>>

\* _split_index_texts: the index texts of a chunk.
IndexesOf(c) ==
  LET runs == Cut(chunks[c].texts, IndexItems)
  IN  [n \in DOMAIN runs |-> [data |-> c, texts |-> runs[n]]]

\* build_indexes.
BuildIndexes ==
  /\ at = Len(items) + 3
  /\ indexes' = Joined([c \in DOMAIN chunks |-> IndexesOf(c)])
  /\ at' = at + 1
  /\ UNCHANGED <<docVars, heading, page, body, skipping, cached, blocks, chunks>>

SectionsNext ==
  \/ DocxHeading \/ DocxContent \/ DocxEnd
  \/ MarkdownHeading \/ MarkdownLine \/ MarkdownEnd
  \/ PageRead \/ PagesEnd
  \/ SplitBlocks \/ BuildIndexes

-----------------------------------------------------------------------------
(* Properties, of a document that has been read, split and indexed.         *)

SectionsDone == at = Len(items) + 4

\* The last heading above an item, itself if it is one, of any kind or of a page.
HeadingsUpTo(i) == {h \in 1 .. i : IsHeading(h)}
PagesUpTo(i) == {h \in 1 .. i : items[h].kind = "page"}
LastOf(S) == IF S = {} THEN Bare ELSE Max(S)

InDataIndex(i) ==
  LET h == LastOf(HeadingsUpTo(i)) IN h # Bare /\ items[h].kind = "index"
IsContent(i) ==
  items[i].kind \in {"text", "table"} \/ (items[i].kind = "mark" /\ items[i].picture # Bare)
HasContent(h) == \E i \in Positions : i > h /\ IsContent(i) /\ LastOf(HeadingsUpTo(i)) = h

\* How often an item or a picture is in these texts, of chunks or of indexes.
TimesIn(t, s) ==
  Cardinality(UNION {{<<n, k>> : k \in {j \in DOMAIN s[n].texts : s[n].texts[j] = t}} :
                       n \in DOMAIN s})

\* Every variable has its type.
SectionsTypeOK ==
  /\ format \in Formats /\ plan \in Plans /\ related \subseteq Pictures
  /\ at \in 1 .. Len(items) + 4 /\ skipping \in BOOLEAN /\ cached \subseteq related
  /\ {heading, page} \subseteq Positions \cup {Bare}
  /\ \A b \in DOMAIN blocks :
       /\ {blocks[b].heading, blocks[b].page} \subseteq Positions \cup {Bare}
       /\ Range(blocks[b].body) \subseteq Positions \cup Pictures
  /\ \A c \in DOMAIN chunks :
       /\ chunks[c].page \in Positions \cup {Bare}
       /\ Range(chunks[c].texts) \subseteq Positions \cup Pictures
  /\ \A n \in DOMAIN indexes : indexes[n].data \in DOMAIN chunks

\* Nothing that was written is lost or doubled on the way from a file to its index: each
\* text outside a data index, and each table anywhere, is in one chunk and in one index
\* text of it, whichever way the document is split (_to_document, parse_markdown_text,
\* ChunkingService.split, build_indexes).
TextsAreKept ==
  SectionsDone =>
    \A i \in Positions :
      (IsContent(i) /\ InDataIndex(i) => items[i].kind = "table") /\ IsContent(i) =>
        TimesIn(i, chunks) = 1 /\ TimesIn(i, indexes) = 1

\* By default the only heading a search cannot find is one with nothing written between
\* it and the next (flush, _split_markdown_sections).
HeadingsAreKept ==
  SectionsDone /\ plan = "default" =>
    \A h \in Positions :
      items[h].kind \in {"heading", "page"} /\ HasContent(h) => TimesIn(h, chunks) = 1

\* By default no chunk goes on past a heading, provided the document has one with a text
\* under it (_should_split_markdown, which looks at the blocks that were kept).
UnderItsHeading ==
  SectionsDone /\ plan = "default" /\
  (\E h \in Positions : items[h].kind \in {"heading", "page"} /\ HasContent(h)) =>
    \A c \in DOMAIN chunks :
      \A i, j \in Range(chunks[c].texts) \cap Positions :
        LastOf(HeadingsUpTo(i)) = LastOf(HeadingsUpTo(j))

\* Split by section or by page, a chunk that names a page has only texts of that page:
\* the page a citation shows (parse_markdown_text's current_page, _split_page).
PageIsTrue ==
  SectionsDone /\ (plan = "page" \/ (plan = "default" /\ format # "pages")) =>
    \A c \in DOMAIN chunks : chunks[c].page # Bare =>
      \A i \in Range(chunks[c].texts) :
        chunks[c].page = IF format = "pages" THEN i ELSE LastOf(PagesUpTo(i))

\* Every picture stored for a DOCX is in a chunk, unless it was only in headings or in
\* what a data index left out (_store_image, _append_orphan_images).
PicturesAreShown ==
  SectionsDone /\ format = "docx" =>
    \A p \in cached :
      LET holders == {i \in Positions : items[i].picture = p}
          open == {i \in holders : ~IsHeading(i) /\ (InDataIndex(i) => items[i].kind = "table")}
      IN  holders = {} \/ open # {} =>
            \E c \in DOMAIN chunks : Range(chunks[c].texts) \cap ({p} \cup open) # {}

\* Texts, headings and pictures of a document all come to its chunks (_to_document,
\* parse_markdown_text, ChunkingService.split).
NothingIsLost == TextsAreKept /\ HeadingsAreKept /\ PicturesAreShown

\* A chunk keeps to its section and to its page (_split_markdown_sections, _split_page).
ChunksKeepPlace == UnderItsHeading /\ PageIsTrue
=============================================================================
