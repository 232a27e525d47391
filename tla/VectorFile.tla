----------------------------- MODULE VectorFile -----------------------------
(***************************************************************************)
(* One knowledge base's <id>.dataindex.json in JsonVectorStore.  Every     *)
(* change loads the whole file, changes the rows of one file id in memory, *)
(* writes everything to <id>.dataindex.tmp and renames that over the file. *)
(* There is no lock, and all writers -- import threads, and the handler    *)
(* that deletes a file -- use the same temporary name.                     *)
(*                                                                         *)
(* The directory maps the two names to inodes.  A writer keeps the inode   *)
(* it opened, also when another writer's rename moves it under the final   *)
(* name.  The rows of a file id, in "data" and "index" alike, are one      *)
(* version: the number of the operation that stored them.                  *)
(***************************************************************************)
EXTENDS Integers, FiniteSets

CONSTANTS
  Files,      \* file ids of the knowledge base
  Writers,    \* threads that call the store
  Blank,      \* a file open() has truncated
  Torn,       \* bytes that are not JSON
  MaxOps,     \* bound: operations ever begun
  MaxFaults   \* bound: crashes and failing writes

ASSUME BoundsAssumption == Files # {} /\ MaxOps \in Nat /\ MaxFaults \in Nat
ASSUME NotJsonAssumption ==
  Blank # Torn /\ {Blank, Torn} \cap [Files -> 0 .. MaxOps] = {}

Gone == 0                \* no row of the file
NoInode == 0
Inodes == 1 .. MaxOps    \* an operation opens at most one new file
Versions == 0 .. MaxOps
Tables == [Files -> Versions]
Bytes == Tables \cup {Blank, Torn}
NoRows == [f \in Files |-> Gone]

VARIABLES
  content,    \* what each inode holds
  path, tmp,  \* the inodes the two names stand for
  inodes,     \* inodes created
  w,          \* the operation of each writer
  ops, faults,
  acked,      \* history: what the last operation that returned left of each file
  suspect,    \* history: files whose last operation overlapped another one
  over,       \* history: writers whose operation overlaps another one
  overlaps    \* history: two operations did overlap

vars == <<content, path, tmp, inodes, w, ops, faults, acked, suspect, over, overlaps>>
diskVars == <<content, path, tmp, inodes>>
histVars == <<suspect, over, overlaps>>

SomeFile == CHOOSE f \in Files : TRUE
Idle == [pc |-> "idle", file |-> SomeFile, ver |-> Gone, copy |-> NoRows, ino |-> NoInode]
Busy == {t \in Writers : w[t].pc # "idle"}

Init ==
  /\ content = [i \in Inodes |-> Blank]
  /\ path = NoInode /\ tmp = NoInode /\ inodes = 0
  /\ w = [t \in Writers |-> Idle]
  /\ ops = 0 /\ faults = 0
  /\ acked = NoRows
  /\ suspect = {} /\ over = {} /\ overlaps = FALSE

\* What _load_dataindex parses; it raises unless the file is JSON.
Stored == IF path = NoInode THEN NoRows ELSE content[path]
Readable == Stored \in Tables

-----------------------------------------------------------------------------
\* An operation begins while others are under way: all of them are suspect.
Overlap(t, f) ==
  IF Busy = {}
    THEN /\ over' = over \ {t}
         /\ UNCHANGED <<suspect, overlaps>>
    ELSE /\ over' = over \cup Busy \cup {t}
         /\ suspect' = suspect \cup {w[s].file : s \in Busy} \cup {f}
         /\ overlaps' = TRUE

\* _load_dataindex, and the rows of file f filtered out and, for an upsert, replaced.
Load(t, f, v) ==
  /\ w[t].pc = "idle" /\ ops < MaxOps
  /\ Readable
  /\ w' = [w EXCEPT ![t] = [pc |-> "loaded", file |-> f, ver |-> v,
                            copy |-> [Stored EXCEPT ![f] = v], ino |-> NoInode]]
  /\ ops' = ops + 1
  /\ Overlap(t, f)
  /\ UNCHANGED <<diskVars, faults, acked>>

\* upsert_data_index and delete_file.  On a file that is not JSON they raise at once.
Upsert(t, f) == Load(t, f, ops + 1)
DeleteFile(t, f) == Load(t, f, Gone)

\* Variant: the file is written in place.
Open_InPlace(t) ==
  /\ w[t].pc = "loaded"
  /\ IF path # NoInode
       THEN /\ content' = [content EXCEPT ![path] = Blank]
            /\ w' = [w EXCEPT ![t].pc = "opened", ![t].ino = path]
            /\ UNCHANGED <<path, tmp, inodes>>
       ELSE /\ inodes < MaxOps
            /\ inodes' = inodes + 1
            /\ path' = inodes + 1
            /\ w' = [w EXCEPT ![t].pc = "opened", ![t].ino = inodes + 1]
            /\ UNCHANGED <<content, tmp>>
  /\ UNCHANGED <<ops, faults, acked, histVars>>

\* write_text opens the temporary file: it truncates the one that is there -- left over
\* by a crash or another writer's own -- or creates one.
Open(t) ==
  /\ w[t].pc = "loaded"
  /\ IF tmp # NoInode
       THEN /\ content' = [content EXCEPT ![tmp] = Blank]
            /\ w' = [w EXCEPT ![t].pc = "opened", ![t].ino = tmp]
            /\ UNCHANGED <<tmp, inodes>>
       ELSE /\ inodes < MaxOps
            /\ inodes' = inodes + 1
            /\ tmp' = inodes + 1
            /\ w' = [w EXCEPT ![t].pc = "opened", ![t].ino = inodes + 1]
            /\ UNCHANGED content
  /\ UNCHANGED <<path, ops, faults, acked, histVars>>

\* Bytes written from the start of an inode: on a truncated one they are all there is.
\* Where another writer wrote since, the longer text's tail shows, or pieces of both
\* that happen to be JSON.
Written(old, new) ==
  CASE old = Blank -> {new}
    [] old = Torn  -> {new, Torn}
    [] OTHER       -> {Torn} \cup {[f \in Files |-> IF f \in part THEN new[f] ELSE old[f]] :
                                     part \in SUBSET Files}

\* write_text writes and closes the file.
Write(t) ==
  /\ w[t].pc = "opened"
  /\ \E bs \in Written(content[w[t].ino], w[t].copy) :
       content' = [content EXCEPT ![w[t].ino] = bs]
  /\ w' = [w EXCEPT ![t].pc = "written"]
  /\ UNCHANGED <<path, tmp, inodes, ops, faults, acked, histVars>>

\* tmp.replace(path) moves whatever has the temporary name; the operation returns.
Replace(t) ==
  /\ w[t].pc = "written"
  /\ tmp # NoInode
  /\ path' = tmp
  /\ tmp' = NoInode
  /\ acked' = [acked EXCEPT ![w[t].file] = w[t].ver]
  /\ suspect' = IF t \in over THEN suspect ELSE suspect \ {w[t].file}
  /\ w' = [w EXCEPT ![t] = Idle]
  /\ UNCHANGED <<content, inodes, ops, faults, over, overlaps>>

\* Another writer moved it away: FileNotFoundError, the operation raises.
ReplaceRaises(t) ==
  /\ w[t].pc = "written"
  /\ tmp = NoInode
  /\ w' = [w EXCEPT ![t] = Idle]
  /\ UNCHANGED <<diskVars, ops, faults, acked, histVars>>

\* The disk is full: part of the bytes are written, the operation raises.
WriteRaises(t) ==
  /\ w[t].pc = "opened"
  /\ faults < MaxFaults
  /\ faults' = faults + 1
  /\ content' = [content EXCEPT ![w[t].ino] = Torn]
  /\ w' = [w EXCEPT ![t] = Idle]
  /\ UNCHANGED <<path, tmp, inodes, ops, acked, histVars>>

\* The process dies and is started again.
Crash ==
  /\ Busy # {}
  /\ faults < MaxFaults
  /\ faults' = faults + 1
  /\ w' = [t \in Writers |-> Idle]
  /\ UNCHANGED <<diskVars, ops, acked, histVars>>

Next ==
  \/ \E t \in Writers :
       \/ \E f \in Files : Upsert(t, f) \/ DeleteFile(t, f)
       \/ Open(t) \/ Write(t) \/ Replace(t) \/ ReplaceRaises(t) \/ WriteRaises(t)
  \/ Crash

Spec == Init /\ [][Next]_vars

-----------------------------------------------------------------------------
(* Properties.                                                              *)

Ops == [pc : {"idle", "loaded", "opened", "written"}, file : Files, ver : Versions,
        copy : Tables, ino : Inodes \cup {NoInode}]

\* Every variable has its type; a writer past its open has an inode.
TypeOK ==
  /\ content \in [Inodes -> Bytes]
  /\ inodes \in 0 .. MaxOps
  /\ path \in 0 .. inodes /\ tmp \in 0 .. inodes
  /\ w \in [Writers -> Ops]
  /\ \A t \in Writers : w[t].pc \in {"opened", "written"} => w[t].ino \in 1 .. inodes
  /\ ops \in 0 .. MaxOps /\ faults \in 0 .. MaxFaults
  /\ acked \in Tables
  /\ suspect \subseteq Files /\ over \subseteq Writers /\ overlaps \in BOOLEAN

\* A file whose last operation overlapped no other has exactly the rows that operation
\* left, whatever overlapping operations, crashes and failed writes came before or after
\* on it and on other files: importing a file again, alone, repairs it (upsert_data_index,
\* delete_file, _save_dataindex).
StoredIsKept ==
  Readable => \A f \in Files \ suspect : Stored[f] = acked[f]

\* The file a search reads is always JSON -- while it is being rewritten, after a crash
\* and on a full disk too -- unless two operations once overlapped (_save_dataindex).
BrokenOnlyByOverlap == ~Readable => overlaps

\* The file always can be read and has what was stored last, operations that overlap apart
\* (_load_dataindex, _save_dataindex).
FileIsKept == StoredIsKept /\ BrokenOnlyByOverlap
=============================================================================
