---------------------------- MODULE ImportOptions ---------------------------
(***************************************************************************)
(* How an import is to be carried out, from the request that asks for it   *)
(* to the splitter: the schemas' validators, ChunkingConfig, the JSON in   *)
(* the job's option row, what the runner makes of it, and what a retry     *)
(* keeps or replaces.  Jobs are numbered; the file stays the same.         *)
(*                                                                         *)
(* Separators are a plain one, or a list with an empty one in it, which    *)
(* the schema lets through.                                                *)
(***************************************************************************)
EXTENDS Integers, Functions, SequencesExt

CONSTANTS
  None,           \* a field that is absent
  Lengths,        \* length options a client may send
  IndexSizes,     \* index sizes a client may send
  Sent,           \* chunking options clients send
  SentParsings,   \* parsing options clients send
  Names,          \* values of chunkStrategy, which is any string
  FileKinds,      \* subset of {"pdf", "headed", "plain"}
  MaxJobs         \* bound: jobs

Strategies == {"default", "custom", "page", "whole"}
Modes == {"paragraph", "length", "separator"}
Separators == {"plain", "withEmpty"}
Parsings == [textExtraction : BOOLEAN, pdfEnhancement : BOOLEAN]

Maybe(S) == S \cup {None}

\* ChunkingOptions as it is sent, with the metadata and parsing beside it.
Options ==
  [strategy : Strategies, mode : Maybe(Modes), depth : Maybe({2}), length : Maybe(Lengths),
   separators : Maybe(Separators), index : Maybe(IndexSizes), headings : Maybe(BOOLEAN)]

ASSUME OptionsAssumption ==
  /\ Lengths \subseteq [size : Nat, overlap : Nat, max : Nat]
  /\ IndexSizes \subseteq Nat /\ MaxJobs \in Nat
  /\ Sent \subseteq Options /\ SentParsings \subseteq Parsings
  /\ FileKinds \subseteq {"pdf", "headed", "plain"}

\* An absent field has no value that a field may have.
ASSUME NoneAssumption ==
  /\ None \notin Nat /\ None \notin BOOLEAN /\ None \notin Parsings
  /\ None \notin Strategies \cup Modes \cup Separators \cup Names

VARIABLES
  file,    \* the kind of the file to be imported
  jobs,    \* the jobs: what their configs come from, their rows, what they ran with
  left     \* a web import was answered with an error and left its file behind

optionVars == <<file, jobs, left>>

-----------------------------------------------------------------------------
(* What a request is turned into.                                           *)

\* LengthChunkConfig's validators.
LengthIsValid(length) ==
  /\ length.size > 0 /\ length.max > 0
  /\ length.overlap < length.size /\ length.size <= length.max

\* ChunkingOptions' validators: custom names a mode, and the mode's own options are there.
IsValid(o) ==
  /\ o.strategy # "whole"
  /\ o.length # None => LengthIsValid(o.length)
  /\ o.strategy = "custom" =>
       CASE o.mode = None -> FALSE
         [] o.mode = "paragraph" -> o.depth # None
         [] o.mode = "length" -> o.length # None
         [] o.mode = "separator" -> o.separators # None
  /\ o.index # None /\ o.length # None => o.index <= o.length.max

DefaultParsing == [textExtraction |-> TRUE, pdfEnhancement |-> TRUE]

\* The fields of a ChunkingConfig, and what from_dict puts for an absent one.
Default ==
  [strategy |-> "default", mode |-> None, chunkSize |-> None, overlap |-> None,
   maxChunkSize |-> None, separators |-> None, paragraphMaxDepth |-> None,
   indexSize |-> 512, metaHeadings |-> FALSE, parsing |-> DefaultParsing]

\* from_chunking_options: without options only the name of the strategy is taken over.
ConfigOf(o, name, headings, parsing) ==
  LET base == [Default EXCEPT !.metaHeadings = headings,
                              !.parsing = IF parsing = None THEN DefaultParsing ELSE parsing]
  IN  IF o = None THEN [base EXCEPT !.strategy = name]
      ELSE [base EXCEPT
             !.strategy = o.strategy, !.mode = o.mode, !.paragraphMaxDepth = o.depth,
             !.separators = o.separators,
             !.indexSize = IF o.index = None THEN 512 ELSE o.index,
             !.chunkSize = IF o.length = None THEN None ELSE o.length.size,
             !.overlap = IF o.length = None THEN None ELSE o.length.overlap,
             !.maxChunkSize = IF o.length = None THEN None ELSE o.length.max,
             !.metaHeadings = IF o.headings = None THEN headings ELSE o.headings]

\* to_dict writes what is there; from_dict reads it back.
ToDict(config) == Restrict(config, {k \in DOMAIN config : config[k] # None})
FromDict(dict) == [k \in DOMAIN Default |-> IF k \in DOMAIN dict THEN dict[k] ELSE Default[k]]

-----------------------------------------------------------------------------
(* What the runner and the splitter make of it.                             *)

RagChunkSize == 800
RagOverlap == 120

\* process_file: headings go before the index texts of a file that has some, and of every
\* PDF whose enhancement was asked for.
WithHeadings(config) ==
  IF file = "headed" \/ (file = "pdf" /\ config.parsing.pdfEnhancement)
  THEN FromDict([ToDict(config) EXCEPT !.metaHeadings = TRUE])
  ELSE config

OrElse(value, default) == IF value = None THEN default ELSE value

\* The size and the overlap the splitter is made with.
SplitSize(config) ==
  IF config.strategy = "custom" /\ config.mode = "length"
  THEN OrElse(config.chunkSize, RagChunkSize)
  ELSE OrElse(config.maxChunkSize, RagChunkSize)

SplitOverlap(config) ==
  IF config.strategy = "default" \/ (config.strategy = "custom" /\ config.mode = "length")
  THEN OrElse(config.overlap, RagOverlap)
  ELSE 0

\* split refuses strategies it does not know, and str.split an empty separator.
Splits(config) ==
  \/ config.strategy \in {"default", "page"}
  \/ /\ config.strategy = "custom"
     /\ \/ config.mode \in {"paragraph", "length"}
        \/ config.mode = "separator" /\ config.separators = "plain"

-----------------------------------------------------------------------------
(* Actions.                                                                 *)

OptionsInit ==
  /\ file \in FileKinds
  /\ jobs = <<>> /\ left = FALSE

\* The job and its option row.
InsertConfig(retryOf, config, sent, repeats) ==
  jobs' = Append(jobs,
    [retryOf |-> retryOf, config |-> ToDict(config), sent |-> sent, repeats |-> repeats,
     status |-> "queued", used |-> None, refused |-> FALSE])

\* POST import-jobs: the name beside the options is overwritten by theirs; a name alone
\* is only checked not to be whole.
PostImport(o, name, headings, parsing) ==
  /\ jobs = <<>> /\ ~left
  /\ IF o = None THEN name # "whole" ELSE IsValid(o)
  /\ InsertConfig(0, ConfigOf(o, name, headings, parsing), o, FALSE)
  /\ UNCHANGED <<file, left>>

\* POST web-imports, once the page is stored and registered.  With parsing and no options
\* ChunkingConfig.default is handed the request's own parsing, which has no to_dict.
PostWeb(o, name, parsing) ==
  /\ jobs = <<>> /\ ~left /\ file # "pdf"
  /\ o # None => IsValid(o)
  /\ IF o = None /\ (parsing # None \/ name = "whole")
     THEN left' = TRUE /\ UNCHANGED jobs
     ELSE InsertConfig(0, ConfigOf(o, name, o = None, parsing), o, FALSE) /\ UNCHANGED left
  /\ UNCHANGED file

\* Variant: a retry that names nothing starts from the default.
PostRetry_Default(o, name, headings, parsing) ==
  /\ Len(jobs) < MaxJobs
  /\ o # None => IsValid(o)
  /\ \E j \in 1 .. Len(jobs) :
       /\ jobs[j].status \in {"failed", "cancelled"}
       /\ InsertConfig(j, ConfigOf(o, OrElse(name, "default"), OrElse(headings, FALSE), parsing),
                       IF o = None /\ parsing = None THEN jobs[j].sent ELSE o,
                       o = None /\ parsing = None)
  /\ UNCHANGED <<file, left>>

\* POST :retry: options or parsing make a new config; with neither the source's is kept,
\* whatever else the request names.
PostRetry(o, name, headings, parsing) ==
  /\ Len(jobs) < MaxJobs
  /\ o # None => IsValid(o)
  /\ \E j \in 1 .. Len(jobs) :
       /\ jobs[j].status \in {"failed", "cancelled"}
       /\ IF o = None /\ parsing = None
          THEN InsertConfig(j, FromDict(jobs[j].config), jobs[j].sent, TRUE)
          ELSE /\ o = None => name # "whole"
               /\ InsertConfig(j, ConfigOf(o, OrElse(name, "default"), OrElse(headings, FALSE),
                                           parsing), o, FALSE)
  /\ UNCHANGED <<file, left>>

\* The job runs: it splits the file or fails there, fails of something else, or is
\* cancelled.
RunConfig(j) ==
  /\ jobs[j].status = "queued"
  /\ LET config == WithHeadings(FromDict(jobs[j].config))
     IN  \E status \in {"split", "failed", "cancelled"} :
           /\ status = "split" => Splits(config)
           /\ jobs' = [jobs EXCEPT ![j].used = config, ![j].status = status,
                                   ![j].refused = (status = "failed" /\ ~Splits(config))]
  /\ UNCHANGED <<file, left>>

OptionsNext ==
  \/ \E o \in Maybe(Sent), name \in Names, parsing \in Maybe(SentParsings) :
       \/ \E headings \in BOOLEAN : PostImport(o, name, headings, parsing)
       \/ PostWeb(o, name, parsing)
  \/ \E o \in Maybe(Sent), name \in Maybe(Names), headings \in Maybe(BOOLEAN),
          parsing \in Maybe(SentParsings) :
       PostRetry(o, name, headings, parsing)
  \/ \E j \in 1 .. Len(jobs) : RunConfig(j)

-----------------------------------------------------------------------------
(* Properties.                                                              *)

\* Every variable has its type; a row has no null in it.
OptionsTypeOK ==
  /\ file \in FileKinds /\ left \in BOOLEAN
  /\ \A j \in 1 .. Len(jobs) :
       /\ jobs[j].retryOf \in 0 .. j - 1
       /\ DOMAIN jobs[j].config \subseteq DOMAIN Default
       /\ None \notin Range(jobs[j].config)
       /\ jobs[j].sent \in Maybe(Sent)
       /\ jobs[j].status \in {"queued", "split", "failed", "cancelled"}

\* A job that splitting refuses was made from a name of a strategy alone, or from a list
\* of separators with an empty one: whatever else the validators let through can be
\* carried out, in every retry too (_validate_chunking, ChunkingService.split).
ValidOptionsSplit ==
  \A j \in 1 .. Len(jobs) :
    jobs[j].refused => jobs[j].sent = None \/ jobs[j].sent.separators = "withEmpty"

\* The splitter never gets an overlap as large as its chunks, which it refuses, though
\* each strategy takes its size and its overlap from a different place
\* (_validate_bounds, _split_default, _split_length).
OverlapBelowSize ==
  \A j \in 1 .. Len(jobs) :
    jobs[j].used # None => SplitOverlap(jobs[j].used) < SplitSize(jobs[j].used)

\* A retry without options or parsing splits as the job it repeats did, and it does so
\* after any number of retries (ImportJobService.retry, get_chunking_config).
RetrySplitsAlike ==
  \A j \in 1 .. Len(jobs) :
    LET i == jobs[j].retryOf
    IN  jobs[j].repeats /\ jobs[j].used # None => jobs[j].used = jobs[i].used

\* What options name is what the job runs with, however often it went through the
\* database: the strategy, the index size, the depth, and headings if they were asked for
\* (from_chunking_options, to_dict, from_dict, process_file).
RunsAsAsked ==
  \A j \in 1 .. Len(jobs) :
    LET o == jobs[j].sent
        used == jobs[j].used
    IN  o # None /\ used # None =>
          /\ used.strategy = o.strategy /\ used.mode = o.mode
          /\ used.paragraphMaxDepth = o.depth /\ used.separators = o.separators
          /\ o.index # None => used.indexSize = o.index
          /\ o.length # None => used.chunkSize = o.length.size /\ used.maxChunkSize = o.length.max
          /\ o.headings = TRUE => used.metaHeadings

\* A job runs with what was asked for, in every retry, and can (ChunkingConfig,
\* ImportJobService.retry, ChunkingService.split).
OptionsAreCarriedOut ==
  ValidOptionsSplit /\ OverlapBelowSize /\ RetrySplitsAlike /\ RunsAsAsked
=============================================================================
