------------------------------ MODULE MCIngest ------------------------------
(* What an import goes through, for TLC in one run: its options, the PDF    *)
(* that is converted, the document that is read and split, its pictures,    *)
(* and the file the rows end up in.  A behaviour is of one of the five, and *)
(* the others stay as they began.                                           *)
EXTENDS VectorFile, PdfParsing, ImportOptions, Sections, KbImages

CONSTANTS f1, f2, t1, t2, p1, p2, g1, g2, x

VARIABLE part

\* Text layers: none, a sparse one that could just be indexed, a long one that is noise.
TextOf(c, n, m) == [chars |-> c, noise |-> n, matches |-> m]
SomeLayers ==
  {NoText, TextOf(80, FALSE, {}), TextOf(120, TRUE, {})}
\* The model gives nothing, or as few characters as will do for a page, a refusal or not.
SomeAnswers == {NoText, TextOf(13, FALSE, {}), TextOf(13, FALSE, {1})}

Length(s, o, m) == [size |-> s, overlap |-> o, max |-> m]
SomeLengths ==
  {Length(100, 20, 300), Length(600, 100, 800), Length(400, 300, 200), Length(100, 100, 300)}
Plain ==
  [strategy |-> "default", mode |-> None, depth |-> None, length |-> None,
   separators |-> None, index |-> None, headings |-> None]
SomeOptions ==
  {[Plain EXCEPT !.strategy = "custom"],
   [Plain EXCEPT !.index = 512, !.length = Length(100, 20, 300)],
   [Plain EXCEPT !.length = Length(400, 300, 200)],
   [Plain EXCEPT !.length = Length(600, 100, 800), !.index = 512],
   [Plain EXCEPT !.strategy = "custom", !.mode = "length", !.length = Length(100, 20, 300)],
   [Plain EXCEPT !.strategy = "custom", !.mode = "separator", !.separators = "withEmpty"],
   [Plain EXCEPT !.strategy = "custom", !.mode = "paragraph", !.depth = 2, !.headings = TRUE]}
SomeParsings == {[textExtraction |-> TRUE, pdfEnhancement |-> FALSE]}

NoPdf == vlm = FALSE /\ key = FALSE /\ drawn = 0 /\ parses = 0 /\ PdfIdle
NoSections == NoDocument /\ SectionsIdle

\* Parsers that do the same, and documents that differ in nothing.
Alike == Permutations(Parsers) \cup Permutations(Documents)

IngestInit ==
  /\ Init
  /\ \/ part = "vectors"  /\ NoPdf   /\ NoSections
     \/ part = "pdf"      /\ PdfInit /\ NoSections
     \/ part = "options"  /\ NoPdf   /\ NoSections
     \/ part = "sections" /\ NoPdf   /\ SectionsInit
     \/ part = "pictures" /\ NoPdf   /\ NoSections
  /\ OptionsInit /\ ImagesIdle

IngestNext ==
  /\ \/ part = "vectors" /\ Next /\ UNCHANGED <<pdfVars, optionVars, sectionVars, imageVars>>
     \/ part = "pdf" /\ PdfNext /\ UNCHANGED <<vars, optionVars, sectionVars, imageVars>>
     \/ part = "options" /\ OptionsNext /\ UNCHANGED <<vars, pdfVars, sectionVars, imageVars>>
     \/ part = "sections" /\ SectionsNext /\ UNCHANGED <<vars, pdfVars, optionVars, imageVars>>
     \/ part = "pictures" /\ ImagesNext /\ UNCHANGED <<vars, pdfVars, optionVars, sectionVars>>
  /\ UNCHANGED part

IngestSpec ==
  IngestInit /\ [][IngestNext]_<<part, vars, pdfVars, optionVars, sectionVars, imageVars>>

\* Every variable of a conversion, of the options, of a document that is read and split and
\* of the pictures has its type.
IngestTypeOK == PdfTypeOK /\ OptionsTypeOK /\ SectionsTypeOK /\ KbImagesTypeOK
=============================================================================
