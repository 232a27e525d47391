----------------------------- MODULE PdfParsing -----------------------------
(***************************************************************************)
(* parse_pdf_with_options and PdfToMarkdownConverter: a PDF becomes the    *)
(* text of its text layer, or the Markdown a vision model writes page by   *)
(* page, or an error.  Import threads convert at once; all of one process  *)
(* share _REFUSAL_PATTERNS, a generator: a pattern is drawn from it once,  *)
(* by whichever check comes first.                                         *)
(*                                                                         *)
(* A text is its number of characters that are not blank, whether it is    *)
(* the noise of a text layer, and the patterns that match it.  A PDF has   *)
(* at least one page.                                                      *)
(***************************************************************************)
EXTENDS Integers, FiniteSetsExt

CONSTANTS
  Parsers,       \* the threads that parse
  NumPatterns,   \* how many refusal patterns there are
  Layers,        \* text layers a PDF may have
  Answers,       \* what the model may answer
  MaxPages,      \* bound: pages of a PDF
  MaxParses      \* bound: PDFs parsed

NoText == [chars |-> 0, noise |-> TRUE, matches |-> {}]
Text == [chars : Nat, noise : BOOLEAN, matches : SUBSET (1 .. NumPatterns)]

ASSUME PdfAssumption ==
  /\ NumPatterns \in Nat /\ MaxPages \in Nat \ {0} /\ MaxParses \in Nat
  /\ NoText \in Answers /\ NoText \in Layers
  /\ Answers \subseteq Text /\ Layers \subseteq Text

VARIABLES
  vlm, key,   \* VLM_ENABLED, OPENAI_API_KEY: fixed while the process runs
  drawn,      \* how many patterns the checks of this process have drawn
  parses,     \* how many PDFs have been taken up
  work        \* what each thread does

pdfVars == <<vlm, key, drawn, parses, work>>

\* The Markdown so far: how many pages, the characters of their texts and descriptions,
\* how many have a description, how many have neither, and what patterns match in it.
NoPages == [pages |-> 0, chars |-> 0, described |-> 0, bare |-> 0, matches |-> {}]

Stages == {"idle", "ocr", "native", "describe", "save", "judge", "returned"}
Savings == {"no", "part", "whole"}   \* of the Markdown beside the PDF
Results == {"none", "layer", "markdown", "error"}

NoWork ==
  [stage |-> "idle", extraction |-> FALSE, force |-> FALSE, layer |-> NoText,
   total |-> 0, read |-> NoText, doc |-> NoPages, saved |-> "no",
   raised |-> FALSE, result |-> "none"]

PdfIdle == work = [p \in Parsers |-> NoWork]

PdfInit ==
  /\ vlm \in BOOLEAN /\ key \in BOOLEAN
  /\ drawn = 0 /\ parses = 0
  /\ PdfIdle

-----------------------------------------------------------------------------
(* The numbers of the settings' defaults and of the code.                   *)

AutoEnhanceChars == 100   \* PDF_AUTO_ENHANCE_MIN_CHARS
SafeChars == 80
DocumentChars == 80       \* PDF_VLM_MIN_MARKDOWN_CHARS
PageChars == 13           \* page_markdown_min_chars of it
DescriptionChars == 12
BodyChars == 25
HeadingChars == 7         \* "##Page1"
PictureChars == 60        \* "![Page1](kb_images/<uuid>.png)"
CaptionChars == 9         \* the line above a description

\* The patterns not drawn yet that match the text.
Hit(t, d) == {k \in t.matches : k > d}

\* Long enough, and not the noise of a text layer: only then are patterns tried.
Worded(t, least) == t.chars >= least /\ ~t.noise

\* is_usable_vlm_markdown.
Usable(t, least, d) == Worded(t, least) /\ Hit(t, d) = {}

\* What a check leaves drawn: up to the pattern that matched, or all of them.
DrawnBy(t, least, d) ==
  IF ~Worded(t, least) THEN d
  ELSE IF Hit(t, d) = {} THEN NumPatterns
  ELSE Min(Hit(t, d))

\* legacy_doc_is_fallback_safe.
LayerIsSafe(w) == w.extraction /\ ~w.layer.noise /\ w.layer.chars >= SafeChars

-----------------------------------------------------------------------------
(* One page.                                                                *)

\* format_page_markdown_with_image: a page with its heading and picture always counts.
PutPage(doc, body, description) ==
  [pages |-> doc.pages + 1,
   chars |-> doc.chars + body.chars + description.chars,
   described |-> doc.described + (IF description = NoText THEN 0 ELSE 1),
   bare |-> doc.bare + (IF body = NoText /\ description = NoText THEN 1 ELSE 0),
   matches |-> doc.matches \cup body.matches \cup description.matches]

\* The document without pictures and without the lines above descriptions.
Words(doc) == doc.pages * HeadingChars + doc.chars

\* The document as one text; the lines of its pictures keep it from being noise.
Whole(doc) ==
  [chars |-> Words(doc) + doc.pages * PictureChars + doc.described * CaptionChars,
   noise |-> FALSE, matches |-> doc.matches]

\* Variant: pictures do not count towards the length.
DocumentIsUsable_Words(doc, d) ==
  \/ Usable([Whole(doc) EXCEPT !.chars = Words(doc)], DocumentChars, d)
  \/ Words(doc) >= BodyChars
  \/ doc.pages >= 2 /\ doc.described > 0

\* enhanced_document_is_usable: a document that is short, or refused, passes on its
\* words, or as two pages with a description.
DocumentIsUsable(doc, d) ==
  \/ Usable(Whole(doc), DocumentChars, d)
  \/ Words(doc) >= BodyChars
  \/ doc.pages >= 2 /\ doc.described > 0

\* The parse ends, with what is left beside the PDF; the page that was read is forgotten.
Return(p, result, left, raised) ==
  work' = [work EXCEPT ![p].stage = "returned", ![p].result = result, ![p].saved = left,
                       ![p].raised = raised, ![p].read = NoText]

\* A ValueError from elsewhere ends the parse: parse_pdf_with_options passes it on, however
\* good the text layer is.
PassOn(p) == Return(p, "error", work[p].saved, TRUE)

\* The page is done: the next one is read, or the Markdown is to be saved beside the PDF.
WithPage(w, body, description) ==
  LET doc == PutPage(w.doc, body, description)
      last == doc.pages = w.total
  IN  [w EXCEPT !.doc = doc, !.read = NoText,
                !.stage = IF last THEN "save" ELSE "ocr"]

\* A page with its body: its picture is described only where enhancement was asked for.
WithBody(w, body) ==
  IF w.force /\ key THEN [w EXCEPT !.read = body, !.stage = "describe"]
  ELSE WithPage(w, body, NoText)

-----------------------------------------------------------------------------
(* Actions.                                                                 *)

Reads(p) == work[p].stage \in {"ocr", "native", "describe"}

\* Enhancement is asked for, or the text layer is sparse and the model is enabled.
Enhances(extraction, force, layer) ==
  force \/ (extraction /\ layer.chars < AutoEnhanceChars /\ vlm)

\* parse_pdf_with_options up to the conversion.
ParseBegin(p) ==
  /\ work[p].stage \in {"idle", "returned"} /\ parses < MaxParses
  /\ parses' = parses + 1
  /\ \E extraction \in BOOLEAN, force \in BOOLEAN, layer \in Layers, total \in 1 .. MaxPages :
       LET w == [NoWork EXCEPT !.extraction = extraction, !.force = force,
                             !.layer = IF extraction THEN layer ELSE NoText,
                             !.total = total]
       IN  work' = [work EXCEPT ![p] =
             IF ~Enhances(extraction, force, layer)
             THEN [w EXCEPT !.stage = "returned",
                            !.result = IF extraction THEN "layer" ELSE "error"]
             ELSE IF force /\ ~key
             THEN [w EXCEPT !.stage = "returned", !.result = "error"]
             ELSE [w EXCEPT !.stage = "ocr"]]
  /\ UNCHANGED <<vlm, key, drawn>>

\* The text layer cannot be read; or it is all there is to do, and the report of it raises.
LayerFails(p) ==
  /\ work[p].stage \in {"idle", "returned"} /\ parses < MaxParses
  /\ parses' = parses + 1
  /\ \E force \in BOOLEAN, layer \in Layers, total \in 1 .. MaxPages :
       /\ layer = NoText \/ (layer.chars > 0 /\ ~Enhances(TRUE, force, layer))
       /\ work' = [work EXCEPT ![p] =
            [NoWork EXCEPT !.extraction = TRUE, !.force = force, !.layer = layer,
                           !.total = total, !.stage = "returned", !.result = "error",
                           !.raised = TRUE]]
  /\ UNCHANGED <<vlm, key, drawn>>

\* What VlmService gives back: nothing for a page outside its limits, for which no model
\* is asked and no key needed.
Given == IF key THEN Answers ELSE {NoText}

\* page_to_markdown: the model reads the page's picture.
ReadPicture(p) ==
  /\ work[p].stage = "ocr"
  /\ \E t \in Given :
       /\ drawn' = DrawnBy(t, PageChars, drawn)
       /\ work' = [work EXCEPT ![p] =
            IF Usable(t, PageChars, drawn) THEN WithBody(work[p], t)
            ELSE [work[p] EXCEPT !.read = t, !.stage = "native"]]
  /\ UNCHANGED <<vlm, key, parses>>

\* pdf_page_to_markdown: the model reads the page; if that will not do, what it read of
\* the picture is checked once more; if that will not do either, the page has no text.
ReadPage(p) ==
  /\ work[p].stage = "native"
  /\ \E t \in Given :
       LET once == DrawnBy(t, PageChars, drawn)
           read == work[p].read
       IN  IF Usable(t, PageChars, drawn)
           THEN /\ drawn' = once
                /\ work' = [work EXCEPT ![p] = WithBody(work[p], t)]
           ELSE /\ drawn' = DrawnBy(read, PageChars, once)
                /\ work' = [work EXCEPT ![p] =
                     WithBody(work[p], IF Usable(read, PageChars, once) THEN read ELSE NoText)]
  /\ UNCHANGED <<vlm, key, parses>>

\* describe_image: what the page's picture shows.
Describe(p) ==
  /\ work[p].stage = "describe"
  /\ \E t \in Answers :
       /\ drawn' = DrawnBy(t, DescriptionChars, drawn)
       /\ work' = [work EXCEPT ![p] =
            WithPage(work[p], work[p].read, IF Usable(t, DescriptionChars, drawn) THEN t ELSE NoText)]
  /\ UNCHANGED <<vlm, key, parses>>

\* save_enhanced_markdown.
Save(p) ==
  /\ work[p].stage = "save"
  /\ work' = [work EXCEPT ![p].stage = "judge", ![p].saved = "whole"]
  /\ UNCHANGED <<vlm, key, drawn, parses>>

InItsPlace(p) == IF LayerIsSafe(work[p]) THEN "layer" ELSE "error"

\* The converted document is returned, or the text layer in its place, or neither.
Judge(p) ==
  /\ work[p].stage = "judge"
  /\ drawn' = DrawnBy(Whole(work[p].doc), DocumentChars, drawn)
  /\ Return(p, IF DocumentIsUsable(work[p].doc, drawn) THEN "markdown" ELSE InItsPlace(p),
            work[p].saved, FALSE)
  /\ UNCHANGED <<vlm, key, parses>>

\* A page cannot be rendered, the model cannot be reached, no key is set (VlmError), the
\* report of a page does not reach the database, or the Markdown cannot be written, or not
\* to its end.
ConversionFails(p) ==
  /\ Reads(p) \/ work[p].stage = "save"
  /\ \E left \in IF Reads(p) THEN {"no"} ELSE {"no", "part"} :
       Return(p, InItsPlace(p), left, FALSE)
  /\ UNCHANGED <<vlm, key, drawn, parses>>

\* The report of a page is refused with a ValueError: the job is past parsing.
ReportRefused(p) ==
  /\ work[p].stage \in {"ocr", "save"} /\ work[p].doc.pages > 0
  /\ PassOn(p)
  /\ UNCHANGED <<vlm, key, drawn, parses>>

Checks(p) == Reads(p) \/ work[p].stage = "judge"

\* Two threads draw from the generator at once: the second one's check raises ValueError.
Collide(p) ==
  /\ Checks(p) /\ drawn < NumPatterns
  /\ \E q \in Parsers \ {p} : Checks(q)
  /\ PassOn(p)
  /\ UNCHANGED <<vlm, key, drawn, parses>>

PdfNext ==
  \E p \in Parsers :
    \/ ParseBegin(p) \/ LayerFails(p) \/ ReadPicture(p) \/ ReadPage(p) \/ Describe(p)
    \/ Save(p) \/ Judge(p) \/ ConversionFails(p) \/ ReportRefused(p) \/ Collide(p)

-----------------------------------------------------------------------------
(* Properties.                                                              *)

\* Every variable has its type.
PdfTypeOK ==
  /\ vlm \in BOOLEAN /\ key \in BOOLEAN
  /\ drawn \in 0 .. NumPatterns /\ parses \in 0 .. MaxParses
  /\ \A p \in Parsers :
       /\ work[p].stage \in Stages /\ work[p].result \in Results
       /\ work[p].layer \in Layers /\ work[p].total \in 0 .. MaxPages
       /\ work[p].read \in Answers
       /\ work[p].doc \in [pages : 0 .. work[p].total, chars : Nat, described : Nat,
                            bare : Nat, matches : SUBSET (1 .. NumPatterns)]
       /\ work[p].saved \in Savings
       /\ {work[p].extraction, work[p].force, work[p].raised} \subseteq BOOLEAN

Returned(p, result) == work[p].stage = "returned" /\ work[p].result = result
Converted(p) == work[p].total > 0 /\ work[p].doc.pages = work[p].total

\* A conversion that went through all its pages and was saved is returned whenever one of
\* them has a text or a description, however short, and even with none of either from two
\* pages on: what the thresholds for a page and for a document make of each other
\* (enhanced_document_is_usable, page_markdown_min_chars).
WordsAreReturned ==
  \A p \in Parsers :
    work[p].stage = "returned" /\ work[p].saved = "whole" /\ ~work[p].raised =>
      (work[p].result = "markdown" <=>
         work[p].total >= 2 \/ work[p].doc.bare < work[p].total)

\* A PDF whose text layer could be indexed fails to import only for want of a key or by a
\* ValueError from elsewhere (two threads met in the refusal patterns, the job refused a
\* report), whatever the model answers or fails to, and also when the Markdown cannot be
\* written (parse_pdf_with_options, legacy_doc_is_fallback_safe).
GoodLayerIsKept ==
  \A p \in Parsers :
    Returned(p, "error") /\ LayerIsSafe(work[p]) =>
      work[p].raised \/ (work[p].force /\ ~key)

\* What is beside the PDF, if only a part, comes from a conversion of all its pages: one that
\* fails midway leaves nothing; and what is returned as Markdown is there as a whole
\* (convert, save_enhanced_markdown).
MarkdownIsWhole ==
  \A p \in Parsers :
    /\ work[p].saved # "no" => Converted(p)
    /\ Returned(p, "markdown") => work[p].saved = "whole"

\* An answer that the refusal patterns know is in no document (is_usable_vlm_markdown).
RefusalsAreRefused ==
  \A p \in Parsers :
    Returned(p, "markdown") => work[p].doc.matches = {}

\* A conversion loses nothing: not what the model read, not a layer that would have done,
\* not a page (parse_pdf_with_options, PdfToMarkdownConverter.convert).
ConversionKeeps == WordsAreReturned /\ GoodLayerIsKept /\ MarkdownIsWhole
=============================================================================
