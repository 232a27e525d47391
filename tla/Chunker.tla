------------------------------ MODULE Chunker -------------------------------
(***************************************************************************)
(* TextChunker.split: windows of chunk_size characters, each overlapping   *)
(* the one before it, over a stripped text.  Only where a text is blank    *)
(* and where it is not matters here: a text is its length and the set of   *)
(* its blank positions.  One step is one turn of the loop.                 *)
(***************************************************************************)
EXTENDS Integers

CONSTANTS MaxSize, MaxLength   \* bounds: the chunk size and the length of a text

ASSUME SplitAssumption == MaxSize \in Nat \ {0} /\ MaxLength \in Nat

VARIABLES
  size, overlap,   \* what the chunker was made with
  length, blank,   \* the text, stripped
  start, index,    \* the loop's variables
  chunks,          \* the chunks so far
  running          \* the loop has not ended

textVars == <<size, overlap, length, blank>>
loopVars == <<textVars, start, index, chunks, running>>

\* __init__ refuses other sizes; split returns at once for an empty text.
Split ==
  /\ size \in 1 .. MaxSize
  /\ overlap \in 0 .. MaxSize /\ overlap < size
  /\ length \in 0 .. MaxLength
  /\ blank \in SUBSET (0 .. length - 1)
  /\ 0 \notin blank /\ length - 1 \notin blank
  /\ start = 0 /\ index = 0
  /\ chunks = {}
  /\ running = (length > 0)

Stride == size - overlap

\* The end of the window at start.
End == IF start + size < length THEN start + size ELSE length

\* A window that is blank throughout is no chunk and takes no number.
NewChunks ==
  IF \A p \in start .. End - 1 : p \in blank THEN {}
  ELSE {[id |-> index, start |-> start, end |-> End]}

\* Variant: what is left after a blank window is not looked at.
Loop_StopsAtBlank ==
  /\ running
  /\ chunks' = chunks \cup NewChunks
  /\ index' = IF NewChunks = {} THEN index ELSE index + 1
  /\ IF End = length \/ NewChunks = {}
       THEN running' = FALSE /\ start' = start
       ELSE running' = TRUE /\ start' = start + Stride
  /\ UNCHANGED textVars

\* A turn: the window that reaches the end of the text is the last one.
Loop ==
  /\ running
  /\ chunks' = chunks \cup NewChunks
  /\ index' = IF NewChunks = {} THEN index ELSE index + 1
  /\ IF End = length
       THEN running' = FALSE /\ start' = start
       ELSE running' = TRUE /\ start' = start + Stride
  /\ UNCHANGED textVars

SplitSpec == Split /\ [][Loop]_loopVars

-----------------------------------------------------------------------------
(* Properties.                                                              *)

Positions == 0 .. length - 1
Has(c, p) == c.start <= p /\ p < c.end

\* Every variable has its type; the loop's start never leaves the text.
SplitTypeOK ==
  /\ size \in 1 .. MaxSize /\ overlap \in 0 .. size - 1
  /\ length \in 0 .. MaxLength
  /\ blank \subseteq Positions
  /\ start \in Nat /\ (running => start < length)
  /\ index \in Nat
  /\ chunks \subseteq [id : Nat, start : Nat, end : Nat]
  /\ running \in BOOLEAN

\* When the loop has ended, every character that is not blank is in a chunk, whatever
\* blank windows were left out (split).
AllCovered ==
  ~running => \A p \in Positions \ blank : \E c \in chunks : Has(c, p)

\* Chunks are at most as long as asked for, and each one begins and ends behind the one
\* before it: none repeats what another has already (the break at the end of the text).
NoneContained ==
  /\ \A c \in chunks : c.start < c.end /\ c.end <= c.start + size
  /\ \A c, d \in chunks : c.id < d.id => c.start < d.start /\ c.end < d.end

\* Neighbours share exactly `overlap' characters, unless all between them is blank: what
\* follows a boundary is found together with what is before it (split).
NeighboursOverlap ==
  \A c, d \in chunks : d.id = c.id + 1 =>
    \/ c.end - d.start = overlap
    \/ \A p \in c.end .. d.start + overlap - 1 : p \in blank

\* Every turn of the loop moves the window forward or is the last: no overlap the
\* constructor accepts makes split run forever (__init__, split).
Advances == [][running' => start < start']_loopVars

\* The chunks of a text have all of it, none within another, each with the asked overlap
\* to the next (split).
ChunksCover == AllCovered /\ NoneContained /\ NeighboursOverlap
=============================================================================
