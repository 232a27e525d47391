---------------------------- MODULE Ingest_proofs ----------------------------
(***************************************************************************)
(* Theorems about what an import goes through and their proofs: the vector *)
(* file, for any number of files, writers, operations and faults; the      *)
(* conversion of PDFs, for any pages, parsers and patterns; the options,   *)
(* for any that clients may send; the sections, chunks and index texts of  *)
(* documents of any length; the pictures of any documents.                 *)
(***************************************************************************)
EXTENDS MCIngest, FiniteSetTheorems, WellFoundedInduction, TLAPS

-----------------------------------------------------------------------------
(* The vector file (VectorFile).                                            *)

Past(t) == w[t].pc \in {"opened", "written"}

\* The names stand for different inodes, and an inode not created yet is blank.
Disk ==
  /\ tmp # NoInode => tmp # path
  /\ \A i \in Inodes : i > inodes => content[i] = Blank

\* An operation that overlaps no other is alone, and its temporary file is its own.
Alone ==
  \A t \in Writers : w[t].pc # "idle" /\ t \notin over =>
    /\ \A s \in Writers \ {t} : w[s].pc = "idle"
    /\ Past(t) => tmp = w[t].ino
    /\ w[t].pc = "opened" => content[w[t].ino] = Blank
    /\ w[t].pc = "written" => content[w[t].ino] = w[t].copy

\* An operation that overlaps another one has made its file suspect.
Suspected ==
  \A t \in Writers : w[t].pc # "idle" /\ t \in over => w[t].file \in suspect /\ overlaps

\* What an operation will write, and what is in the files it may move or write into, is
\* right about all files but its own and the suspect ones.
Right(rows, t) == \A f \in Files \ (suspect \cup {w[t].file}) : rows[f] = acked[f]
Copies ==
  \A t \in Writers : w[t].pc # "idle" =>
    /\ w[t].copy[w[t].file] = w[t].ver
    /\ Right(w[t].copy, t)
Moved ==
  \A t \in Writers : Past(t) =>
    \A i \in {w[t].ino, tmp} \ {NoInode} : content[i] \in Tables => Right(content[i], t)

VectorInv ==
  /\ TypeOK /\ Disk /\ Alone /\ Suspected /\ Copies /\ Moved
  /\ StoredIsKept /\ BrokenOnlyByOverlap

-----------------------------------------------------------------------------
\* Members of the sets, as facts.
LEMMA Facts ==
  ASSUME TypeOK
  PROVE  /\ MaxOps \in Nat /\ inodes \in Nat /\ inodes <= MaxOps /\ ops \in Nat
         /\ NoRows \in Tables /\ Blank \notin Tables /\ Torn \notin Tables
         /\ Idle \in Ops /\ Idle.pc = "idle"
         /\ \A t \in Writers : /\ w[t] \in Ops /\ w[t].copy \in Tables
                               /\ w[t].file \in Files /\ w[t].ver \in Versions
         /\ \A t \in Writers : Past(t) => w[t].ino \in Inodes /\ w[t].ino <= inodes /\ w[t].ino # NoInode
         /\ path # NoInode => path \in Inodes /\ path <= inodes
         /\ tmp # NoInode => tmp \in Inodes /\ tmp <= inodes
<1>1. MaxOps \in Nat /\ SomeFile \in Files
  BY BoundsAssumption DEF SomeFile
<1>2. 0 \in Versions
  BY <1>1 DEF Versions
<1>3. NoRows \in Tables
  BY <1>2 DEF NoRows, Gone, Tables
<1>4. Blank \notin Tables /\ Torn \notin Tables
  BY NotJsonAssumption DEF Tables, Versions
<1>5. Idle \in Ops /\ Idle.pc = "idle"
  BY <1>1, <1>2, <1>3 DEF Idle, Ops, Gone
<1>6. \A t \in Writers : /\ w[t] \in Ops /\ w[t].copy \in Tables
                         /\ w[t].file \in Files /\ w[t].ver \in Versions
  BY DEF TypeOK, Ops
<1>7. inodes \in Nat /\ inodes <= MaxOps /\ ops \in Nat /\ path \in 0 .. inodes /\ tmp \in 0 .. inodes
  BY <1>1 DEF TypeOK
<1>8. \A t \in Writers : Past(t) => w[t].ino \in Inodes /\ w[t].ino <= inodes /\ w[t].ino # NoInode
  BY <1>1, <1>7 DEF TypeOK, Past, Inodes, NoInode
<1>9. /\ path # NoInode => path \in Inodes /\ path <= inodes
      /\ tmp # NoInode => tmp \in Inodes /\ tmp <= inodes
  BY <1>1, <1>7 DEF Inodes, NoInode
<1> QED
  BY <1>1, <1>3, <1>4, <1>5, <1>6, <1>7, <1>8, <1>9

LEMMA VectorInit == Init => VectorInv
<1> SUFFICES ASSUME Init PROVE VectorInv
  OBVIOUS
<1> USE DEF Init
<1>1. MaxOps \in Nat /\ MaxFaults \in Nat /\ SomeFile \in Files
  BY BoundsAssumption DEF SomeFile
<1>2. NoRows \in Tables
  BY <1>1 DEF NoRows, Gone, Tables, Versions
<1>3. Idle \in Ops /\ Idle.pc = "idle"
  BY <1>1, <1>2 DEF Idle, Ops, Gone, Versions
<1>4. TypeOK
  <2>1. content \in [Inodes -> Bytes] /\ w \in [Writers -> Ops] /\ acked \in Tables
    BY <1>2, <1>3 DEF Bytes
  <2>2. \A t \in Writers : w[t].pc \notin {"opened", "written"}
    BY <1>3
  <2>3. /\ inodes \in 0 .. MaxOps /\ path \in 0 .. inodes /\ tmp \in 0 .. inodes
        /\ ops \in 0 .. MaxOps /\ faults \in 0 .. MaxFaults
    BY <1>1 DEF NoInode
  <2>4. suspect \subseteq Files /\ over \subseteq Writers /\ overlaps \in BOOLEAN
    OBVIOUS
  <2> QED
    BY <2>1, <2>2, <2>3, <2>4 DEF TypeOK
<1>5. \A t \in Writers : w[t].pc = "idle"
  BY <1>3
<1>6. Disk /\ Alone /\ Suspected /\ Copies /\ Moved
  BY <1>5 DEF Disk, Alone, Suspected, Copies, Moved, Past, NoInode
<1>7. Stored = NoRows
  BY DEF Stored
<1>8. StoredIsKept /\ BrokenOnlyByOverlap
  BY <1>2, <1>7 DEF StoredIsKept, BrokenOnlyByOverlap, Readable
<1> QED
  BY <1>4, <1>6, <1>8 DEF VectorInv

-----------------------------------------------------------------------------
\* An operation begins.
LEMMA LoadStep ==
  ASSUME VectorInv, NEW t \in Writers, NEW f \in Files, NEW v \in Versions, Load(t, f, v)
  PROVE  VectorInv'
<1> USE DEF VectorInv
<1> DEFINE op == [pc |-> "loaded", file |-> f, ver |-> v,
                  copy |-> [Stored EXCEPT ![f] = v], ino |-> NoInode]
<1>1. /\ w[t].pc = "idle" /\ ops < MaxOps /\ Readable /\ w' = [w EXCEPT ![t] = op]
      /\ ops' = ops + 1 /\ Overlap(t, f) /\ UNCHANGED <<content, path, tmp, inodes, faults, acked>>
  BY DEF Load, diskVars
<1>2. Stored \in Tables /\ [Stored EXCEPT ![f] = v] \in Tables
  BY <1>1 DEF Readable, Tables
<1>3. op \in Ops
  BY <1>2 DEF Ops
<1>4. /\ op.pc = "loaded" /\ op.file = f /\ op.ver = v
      /\ op.copy[f] = v /\ \A g \in Files \ {f} : op.copy[g] = Stored[g]
  BY <1>2 DEF Tables
<1> HIDE DEF op
<1>5. w' \in [Writers -> Ops] /\ w'[t] = op /\ \A s \in Writers \ {t} : w'[s] = w[s]
  BY <1>1, <1>3 DEF TypeOK
<1>6. Busy \subseteq Writers /\ t \notin Busy
  BY <1>1 DEF Busy
<1>7. /\ suspect \subseteq suspect' /\ suspect' \subseteq Files /\ over' \subseteq Writers
      /\ overlaps' \in BOOLEAN /\ (overlaps => overlaps')
      /\ Busy = {} => t \notin over'
      /\ Busy # {} => /\ t \in over' /\ f \in suspect' /\ overlaps'
                      /\ \A s \in Busy : s \in over' /\ w[s].file \in suspect'
  <2>1. CASE Busy = {}
    BY <1>1, <2>1 DEF Overlap, TypeOK
  <2>2. CASE Busy # {}
    <3>1. /\ over' = over \cup Busy \cup {t}
          /\ suspect' = suspect \cup {w[s].file : s \in Busy} \cup {f}
          /\ overlaps' = TRUE
      BY <1>1, <2>2 DEF Overlap
    <3>2. \A s \in Busy : w[s].file \in Files
      BY <1>6, Facts
    <3> QED
      BY <1>6, <2>2, <3>1, <3>2 DEF TypeOK
  <2> QED
    BY <2>1, <2>2
<1>8. TypeOK'
  <2>1. ops' \in 0 .. MaxOps
    BY <1>1, Facts
  <2>2. \A s \in Writers : Past(s)' => s # t /\ Past(s)
    BY <1>4, <1>5 DEF Past
  <2>3. \A s \in Writers : w'[s].pc \in {"opened", "written"} => w'[s].ino \in 1 .. inodes'
    BY <1>1, <1>5, <2>2 DEF TypeOK, Past
  <2> QED
    BY <1>1, <1>5, <1>7, <2>1, <2>3 DEF TypeOK
<1>9. \A s \in Writers : s # t => (s \in Busy <=> w'[s].pc # "idle")
  BY <1>5 DEF Busy
<1>10. Disk'
  BY <1>1 DEF Disk
<1>11. Alone'
  <2> SUFFICES ASSUME NEW s \in Writers, w'[s].pc # "idle", s \notin over'
               PROVE  s = t /\ \A r \in Writers \ {t} : w'[r].pc = "idle"
    BY <1>4, <1>5 DEF Alone, Past
  <2>1. Busy = {}
    BY <1>7, <1>9
  <2> QED
    BY <1>9, <2>1
<1>12. Suspected'
  <2> SUFFICES ASSUME NEW s \in Writers, w'[s].pc # "idle", s \in over'
               PROVE  w'[s].file \in suspect' /\ overlaps'
    BY DEF Suspected
  <2>1. CASE s = t
    BY <1>4, <1>5, <1>7, <2>1
  <2>2. CASE s # t
    BY <1>5, <1>7, <1>9, <2>2
  <2> QED
    BY <2>1, <2>2
<1>13. Copies'
  <2> SUFFICES ASSUME NEW s \in Writers, w'[s].pc # "idle"
               PROVE  w'[s].copy[w'[s].file] = w'[s].ver /\ Right(w[s].copy, s)'
    BY DEF Copies, Right
  <2>1. CASE s = t
    <3>1. \A g \in Files \ (suspect' \cup {f}) : op.copy[g] = acked'[g]
      BY <1>1, <1>4, <1>7 DEF StoredIsKept
    <3> QED
      BY <1>4, <1>5, <2>1, <3>1 DEF Right
  <2>2. CASE s # t
    BY <1>1, <1>5, <1>7, <2>2 DEF Copies, Right
  <2> QED
    BY <2>1, <2>2
<1>14. Moved'
  <2>1. \A s \in Writers : Past(s)' => s # t /\ Past(s) /\ w'[s] = w[s]
    BY <1>4, <1>5 DEF Past
  <2> QED
    BY <1>1, <1>7, <2>1 DEF Moved, Right
<1>15. StoredIsKept' /\ BrokenOnlyByOverlap'
  BY <1>1, <1>7 DEF StoredIsKept, BrokenOnlyByOverlap, Stored, Readable
<1> QED
  BY <1>8, <1>10, <1>11, <1>12, <1>13, <1>14, <1>15

-----------------------------------------------------------------------------
\* The temporary file is opened.
LEMMA OpenStep ==
  ASSUME VectorInv, NEW t \in Writers, Open(t)
  PROVE  VectorInv'
<1> USE DEF VectorInv
<1> DEFINE i == IF tmp # NoInode THEN tmp ELSE inodes + 1
<1>1. /\ w[t].pc = "loaded"
      /\ UNCHANGED <<path, ops, faults, acked, suspect, over, overlaps>>
  BY DEF Open, histVars
<1>2. /\ i \in Inodes /\ i # NoInode /\ i # path /\ tmp' = i /\ i <= inodes'
      /\ inodes' \in Nat /\ inodes <= inodes' /\ inodes' <= MaxOps
      /\ content'[i] = Blank /\ content' \in [Inodes -> Bytes]
      /\ \A j \in Inodes \ {i} : content'[j] = content[j]
      /\ w' = [w EXCEPT ![t] = [w[t] EXCEPT !.pc = "opened", !.ino = i]]
  <2>1. content \in [Inodes -> Bytes] /\ Blank \in Bytes /\ w \in [Writers -> Ops]
    BY DEF TypeOK, Bytes
  <2>2. CASE tmp # NoInode
    <3>1. content' = [content EXCEPT ![tmp] = Blank] /\ tmp' = tmp /\ inodes' = inodes
          /\ w' = [w EXCEPT ![t] = [w[t] EXCEPT !.pc = "opened", !.ino = tmp]]
      BY <2>1, <2>2 DEF Open
    <3>2. tmp \in Inodes /\ tmp <= inodes /\ tmp # path /\ inodes \in Nat /\ inodes <= MaxOps
      BY <2>2, Facts DEF Disk
    <3>3. content'[tmp] = Blank /\ content' \in [Inodes -> Bytes]
          /\ \A j \in Inodes \ {tmp} : content'[j] = content[j]
      BY <2>1, <3>1, <3>2
    <3> QED
      BY <2>2, <3>1, <3>2, <3>3
  <2>3. CASE tmp = NoInode
    <3>1. inodes < MaxOps /\ inodes' = inodes + 1 /\ tmp' = inodes + 1 /\ content' = content
          /\ w' = [w EXCEPT ![t] = [w[t] EXCEPT !.pc = "opened", !.ino = inodes + 1]]
      BY <2>1, <2>3 DEF Open
    <3>2. inodes + 1 \in Inodes /\ inodes + 1 # path /\ inodes + 1 # NoInode
      BY <3>1, Facts DEF Inodes, NoInode, TypeOK
    <3>3. content[inodes + 1] = Blank
      BY <3>2, Facts DEF Disk
    <3> QED
      BY <2>1, <2>3, <3>1, <3>2, <3>3, Facts
  <2> QED
    BY <2>2, <2>3
<1> HIDE DEF i
<1> DEFINE op == [w[t] EXCEPT !.pc = "opened", !.ino = i]
<1>3. /\ op \in Ops /\ op.pc = "opened" /\ op.ino = i
      /\ op.file = w[t].file /\ op.ver = w[t].ver /\ op.copy = w[t].copy
  BY <1>2, Facts DEF Ops
<1>4. w' \in [Writers -> Ops] /\ w'[t] = op /\ \A s \in Writers \ {t} : w'[s] = w[s]
  BY <1>2, <1>3 DEF TypeOK
<1> HIDE DEF op
<1>5. Past(t)' /\ w[t].pc # "idle" /\ \A s \in Writers \ {t} : Past(s)' <=> Past(s)
  BY <1>1, <1>3, <1>4 DEF Past
<1>6. TypeOK'
  <2>1. \A s \in Writers : w'[s].pc \in {"opened", "written"} => w'[s].ino \in 1 .. inodes'
    <3> SUFFICES ASSUME NEW s \in Writers, Past(s)'
                 PROVE  w'[s].ino \in Inodes /\ w'[s].ino <= inodes'
      BY <1>2, Facts DEF Past, Inodes
    <3>1. CASE s = t
      BY <1>2, <1>3, <1>4, <3>1
    <3>2. CASE s # t
      BY <1>2, <1>4, <1>5, <3>2, Facts DEF Inodes
    <3> QED
      BY <3>1, <3>2
  <2>2. inodes' \in 0 .. MaxOps /\ tmp' \in 0 .. inodes' /\ path' \in 0 .. inodes'
    BY <1>1, <1>2, Facts DEF TypeOK, Inodes
  <2> QED
    BY <1>1, <1>2, <1>4, <2>1, <2>2 DEF TypeOK
<1>7. Disk'
  BY <1>1, <1>2, Facts DEF Disk, Inodes
<1>8. Alone'
  <2> SUFFICES ASSUME NEW s \in Writers, w'[s].pc # "idle", s \notin over
               PROVE  s = t /\ \A r \in Writers \ {t} : w'[r].pc = "idle"
    BY <1>1, <1>2, <1>3, <1>4 DEF Alone, Past
  <2> QED
    BY <1>4, <1>5 DEF Alone
<1>9. Suspected' /\ Copies'
  BY <1>1, <1>3, <1>4, <1>5 DEF Suspected, Copies, Right
<1>10. Moved'
  <2> SUFFICES ASSUME NEW s \in Writers, Past(s)', NEW j \in {w'[s].ino, i},
                      content'[j] \in Tables
               PROVE  Right(content[j], s)'
    BY <1>2 DEF Moved
  <2>1. j # i
    BY <1>2, Facts
  <2>2. s # t /\ Past(s) /\ w'[s] = w[s] /\ j = w[s].ino
    BY <1>3, <1>4, <1>5, <2>1
  <2>3. content'[j] = content[j] /\ j # NoInode
    BY <1>2, <2>1, <2>2, Facts
  <2> QED
    BY <1>1, <2>2, <2>3 DEF Moved, Right
<1>11. Stored' = Stored
  BY <1>1, <1>2, Facts DEF Stored
<1>12. StoredIsKept' /\ BrokenOnlyByOverlap'
  BY <1>1, <1>11 DEF StoredIsKept, BrokenOnlyByOverlap, Readable
<1> QED
  BY <1>6, <1>7, <1>8, <1>9, <1>10, <1>12

-----------------------------------------------------------------------------
\* What Written leaves where JSON is left: each row from one of the two tables.
LEMMA WrittenRows ==
  ASSUME NEW old \in Bytes, NEW new \in Tables, NEW bs \in Written(old, new)
  PROVE  /\ bs \in Bytes
         /\ bs \in Tables => \A f \in Files : bs[f] = new[f] \/ (old \in Tables /\ bs[f] = old[f])
<1>1. CASE old = Blank
  BY <1>1 DEF Written, Bytes
<1>2. CASE old # Blank /\ old = Torn
  <2>1. bs = new \/ bs = Torn
    BY <1>2 DEF Written
  <2>2. Torn \notin Tables
    BY NotJsonAssumption DEF Tables, Versions
  <2> QED
    BY <2>1, <2>2 DEF Bytes
<1>3. CASE old # Blank /\ old # Torn
  <2>1. old \in Tables /\ Torn \notin Tables
    BY <1>3, NotJsonAssumption DEF Bytes, Tables, Versions
  <2>2. bs = Torn \/ \E field \in SUBSET Files : bs = [f \in Files |-> IF f \in field THEN new[f] ELSE old[f]]
    BY <1>3 DEF Written
  <2>3. CASE bs = Torn
    BY <2>1, <2>3 DEF Bytes
  <2>4. ASSUME NEW field \in SUBSET Files, bs = [f \in Files |-> IF f \in field THEN new[f] ELSE old[f]]
        PROVE  bs \in Tables /\ \A f \in Files : bs[f] = new[f] \/ bs[f] = old[f]
    BY <2>1, <2>4 DEF Tables
  <2> QED
    BY <2>1, <2>2, <2>3, <2>4 DEF Bytes
<1> QED
  BY <1>1, <1>2, <1>3

\* The bytes are written.
LEMMA WriteStep ==
  ASSUME VectorInv, NEW t \in Writers, Write(t)
  PROVE  VectorInv'
<1> USE DEF VectorInv
<1> DEFINE i == w[t].ino
<1>1. /\ w[t].pc = "opened" /\ w \in [Writers -> Ops]
      /\ w' = [w EXCEPT ![t] = [w[t] EXCEPT !.pc = "written"]]
      /\ UNCHANGED <<path, tmp, inodes, ops, faults, acked, suspect, over, overlaps>>
  BY DEF Write, histVars, TypeOK
<1>2. PICK bs \in Written(content[i], w[t].copy) : content' = [content EXCEPT ![i] = bs]
  BY DEF Write
<1>3. Past(t) /\ i \in Inodes /\ i <= inodes /\ i # NoInode /\ w[t].copy \in Tables
      /\ content \in [Inodes -> Bytes] /\ content[i] \in Bytes
  BY <1>1, Facts DEF Past, TypeOK
<1>4. /\ bs \in Bytes
      /\ bs \in Tables => \A f \in Files : \/ bs[f] = w[t].copy[f]
                                           \/ content[i] \in Tables /\ bs[f] = content[i][f]
  BY <1>3, WrittenRows
<1>5. content' \in [Inodes -> Bytes] /\ content'[i] = bs /\ \A j \in Inodes \ {i} : content'[j] = content[j]
  BY <1>2, <1>3, <1>4
<1> DEFINE op == [w[t] EXCEPT !.pc = "written"]
<1>6. /\ op \in Ops /\ op.pc = "written" /\ op.ino = i
      /\ op.file = w[t].file /\ op.ver = w[t].ver /\ op.copy = w[t].copy
  BY <1>1, Facts DEF Ops
<1>7. w' \in [Writers -> Ops] /\ w'[t] = op /\ \A s \in Writers \ {t} : w'[s] = w[s]
  BY <1>1, <1>6
<1> HIDE DEF op
<1>8. \A s \in Writers : (Past(s)' <=> Past(s)) /\ w'[s].ino = w[s].ino /\ w'[s].file = w[s].file
                         /\ w'[s].copy = w[s].copy /\ w'[s].ver = w[s].ver
                         /\ (w'[s].pc # "idle" <=> w[s].pc # "idle")
  BY <1>1, <1>6, <1>7 DEF Past
<1>9. TypeOK'
  <2>1. \A s \in Writers : w'[s].pc \in {"opened", "written"} => w'[s].ino \in 1 .. inodes'
    BY <1>1, <1>8 DEF TypeOK, Past
  <2> QED
    BY <1>1, <1>5, <1>7, <2>1 DEF TypeOK
<1>10. Disk'
  <2>1. \A j \in Inodes : j > inodes => j # i
    BY <1>3, Facts DEF Inodes
  <2> QED
    BY <1>1, <1>5, <2>1 DEF Disk
\* What is written is right about all files but the writer's and the suspect ones.
<1>11. bs \in Tables => \A f \in Files \ (suspect \cup {w[t].file}) : bs[f] = acked[f]
  BY <1>1, <1>3, <1>4 DEF Copies, Moved, Right
<1>12. t \notin over => /\ bs = w[t].copy /\ i # path
                        /\ \A s \in Writers \ {t} : w[s].pc = "idle"
  <2> SUFFICES ASSUME t \notin over PROVE bs = w[t].copy /\ i # path
                                          /\ \A s \in Writers \ {t} : w[s].pc = "idle"
    OBVIOUS
  <2>1. content[i] = Blank /\ tmp = i /\ \A s \in Writers \ {t} : w[s].pc = "idle"
    BY <1>1, <1>3 DEF Alone
  <2>2. Written(Blank, w[t].copy) = {w[t].copy}
    BY NotJsonAssumption DEF Written
  <2>3. bs = w[t].copy
    BY <1>2, <2>1, <2>2
  <2> QED
    BY <1>3, <2>1, <2>3 DEF Disk
<1>13. t \in over => w[t].file \in suspect /\ overlaps
  BY <1>1 DEF Suspected
<1> HIDE DEF i
<1>14. Alone'
  <2> SUFFICES ASSUME NEW s \in Writers, w'[s].pc # "idle", s \notin over
               PROVE  /\ \A r \in Writers \ {s} : w'[r].pc = "idle"
                      /\ Past(s)' => tmp = w'[s].ino
                      /\ w'[s].pc = "opened" => content'[w'[s].ino] = Blank
                      /\ w'[s].pc = "written" => content'[w'[s].ino] = w'[s].copy
    BY <1>1 DEF Alone
  <2>1. w[s].pc # "idle" /\ w[t].pc # "idle"
    BY <1>1, <1>8
  <2>2. s = t
    BY <2>1 DEF Alone
  <2>3. /\ \A r \in Writers \ {t} : w[r].pc = "idle"
        /\ tmp = w[t].ino
    BY <1>3, <2>1, <2>2 DEF Alone
  <2> QED
    BY <1>5, <1>6, <1>7, <1>8, <1>12, <2>2, <2>3
<1>15. Suspected' /\ Copies'
  BY <1>1, <1>8 DEF Suspected, Copies, Right
<1>16. Moved'
  <2> SUFFICES ASSUME NEW s \in Writers, Past(s), NEW j \in {w[s].ino, tmp} \ {NoInode},
                      content'[j] \in Tables,
                      NEW f \in Files \ (suspect \cup {w[s].file})
               PROVE  content'[j][f] = acked[f]
    BY <1>1, <1>8 DEF Moved, Right
  <2>1. j \in Inodes
    BY Facts
  <2>2. CASE j = i
    <3>1. f # w[t].file
      <4>1. CASE s = t
        BY <4>1
      <4>2. CASE s # t
        <5>1. w[s].pc # "idle"
          BY DEF Past
        <5> QED
          BY <1>12, <1>13, <4>2, <5>1
      <4> QED
        BY <4>1, <4>2
    <3> QED
      BY <1>5, <1>11, <2>2, <3>1
  <2>3. CASE j # i
    BY <1>5, <2>1, <2>3 DEF Moved, Right
  <2> QED
    BY <2>2, <2>3
<1>17. StoredIsKept' /\ BrokenOnlyByOverlap'
  <2>1. CASE path = i
    <3>1. t \in over /\ Stored' = bs
      BY <1>1, <1>3, <1>5, <1>12, <2>1 DEF Stored
    <3> QED
      BY <1>1, <1>11, <1>13, <3>1 DEF StoredIsKept, BrokenOnlyByOverlap, Readable
  <2>2. CASE path # i
    <3>1. Stored' = Stored
      BY <1>1, <1>5, <2>2, Facts DEF Stored
    <3> QED
      BY <1>1, <3>1 DEF StoredIsKept, BrokenOnlyByOverlap, Readable
  <2> QED
    BY <2>1, <2>2
<1> QED
  BY <1>9, <1>10, <1>14, <1>15, <1>16, <1>17

-----------------------------------------------------------------------------
\* The temporary name becomes the file.
LEMMA ReplaceStep ==
  ASSUME VectorInv, NEW t \in Writers, Replace(t)
  PROVE  VectorInv'
<1> USE DEF VectorInv
<1>1. /\ w[t].pc = "written" /\ tmp # NoInode /\ path' = tmp /\ tmp' = NoInode
      /\ acked' = [acked EXCEPT ![w[t].file] = w[t].ver]
      /\ suspect' = IF t \in over THEN suspect ELSE suspect \ {w[t].file}
      /\ w' = [w EXCEPT ![t] = Idle]
      /\ UNCHANGED <<content, inodes, ops, faults, over, overlaps>>
  BY DEF Replace
<1>2. /\ Past(t) /\ w[t].pc # "idle" /\ tmp \in Inodes /\ tmp <= inodes /\ inodes \in Nat
      /\ w[t].file \in Files /\ w[t].ver \in Versions /\ Idle \in Ops /\ Idle.pc = "idle"
  BY <1>1, Facts DEF Past
<1>3. w' \in [Writers -> Ops] /\ w'[t].pc = "idle" /\ \A s \in Writers \ {t} : w'[s] = w[s]
  BY <1>1, <1>2 DEF TypeOK
<1>4. /\ acked' \in Tables /\ acked'[w[t].file] = w[t].ver
      /\ \A f \in Files \ {w[t].file} : acked'[f] = acked[f]
  BY <1>1, <1>2 DEF TypeOK, Tables
<1>5. \A s \in Writers : w'[s].pc # "idle" => s # t /\ w'[s] = w[s] /\ (Past(s)' <=> Past(s))
  BY <1>3 DEF Past
<1>6. TypeOK'
  <2>1. path' \in 0 .. inodes' /\ tmp' \in 0 .. inodes'
    BY <1>1, <1>2 DEF Inodes, NoInode
  <2>2. \A s \in Writers : w'[s].pc \in {"opened", "written"} => w'[s].ino \in 1 .. inodes'
    BY <1>1, <1>5 DEF TypeOK
  <2>3. suspect' \subseteq Files
    BY <1>1 DEF TypeOK
  <2> QED
    BY <1>1, <1>3, <1>4, <2>1, <2>2, <2>3 DEF TypeOK
<1>7. Disk'
  BY <1>1 DEF Disk
\* Others are only there when the operation overlaps, and its file is suspect then.
<1>8. ASSUME NEW s \in Writers, w'[s].pc # "idle"
      PROVE  /\ t \in over /\ s \in over /\ w[t].file \in suspect /\ suspect' = suspect
             /\ w'[s] = w[s] /\ w[s].pc # "idle"
  <2>1. s # t /\ w'[s] = w[s] /\ w[s].pc # "idle"
    BY <1>5, <1>8
  <2>2. t \in over /\ s \in over
    BY <1>2, <2>1 DEF Alone
  <2> QED
    BY <1>1, <1>2, <2>1, <2>2 DEF Suspected
<1>9. Alone' /\ Suspected'
  BY <1>1, <1>8 DEF Alone, Suspected
<1>10. Copies'
  <2> SUFFICES ASSUME NEW s \in Writers, w'[s].pc # "idle"
               PROVE  w'[s].copy[w'[s].file] = w'[s].ver /\ Right(w[s].copy, s)'
    BY DEF Copies, Right
  <2> QED
    BY <1>4, <1>8 DEF Copies, Right
<1>11. Moved'
  <2> SUFFICES ASSUME NEW s \in Writers, Past(s)', NEW j \in {w'[s].ino} \ {NoInode},
                      content'[j] \in Tables
               PROVE  Right(content[j], s)'
    BY <1>1 DEF Moved
  <2>1. w'[s].pc # "idle" /\ Past(s)
    BY <1>5 DEF Past
  <2>2. Right(content[j], s)
    BY <1>1, <1>8, <2>1 DEF Moved
  <2> QED
    BY <1>1, <1>4, <1>8, <2>1, <2>2 DEF Right
<1>12. Stored' = content[tmp]
  BY <1>1 DEF Stored
<1>13. StoredIsKept' /\ BrokenOnlyByOverlap'
  <2>1. CASE t \in over
    <3>1. w[t].file \in suspect /\ suspect' = suspect /\ overlaps
      BY <1>1, <1>2, <2>1 DEF Suspected
    <3>2. content[tmp] \in Tables => \A f \in Files \ suspect : content[tmp][f] = acked'[f]
      BY <1>1, <1>2, <1>4, <3>1 DEF Moved, Right
    <3> QED
      BY <1>1, <1>12, <3>1, <3>2 DEF StoredIsKept, BrokenOnlyByOverlap, Readable
  <2>2. CASE t \notin over
    <3>1. content[tmp] = w[t].copy /\ w[t].copy \in Tables
      BY <1>1, <1>2, <2>2, Facts DEF Alone
    <3>2. suspect' = suspect \ {w[t].file}
      BY <1>1, <2>2
    <3>3. \A f \in Files \ suspect' : w[t].copy[f] = acked'[f]
      BY <1>2, <1>4, <3>2 DEF Copies, Right
    <3> QED
      BY <1>12, <3>1, <3>3 DEF StoredIsKept, BrokenOnlyByOverlap, Readable
  <2> QED
    BY <2>1, <2>2
<1> QED
  BY <1>6, <1>7, <1>9, <1>10, <1>11, <1>13

-----------------------------------------------------------------------------
\* Operations that end without a rename.
LEMMA EndingStep ==
  ASSUME VectorInv,
         \/ Crash
         \/ \E t \in Writers : ReplaceRaises(t) \/ WriteRaises(t)
  PROVE  VectorInv'
<1> USE DEF VectorInv
<1>1. PICK E \in SUBSET Writers :
        /\ w' = [s \in Writers |-> IF s \in E THEN Idle ELSE w[s]]
        /\ UNCHANGED <<path, tmp, inodes, ops, acked, suspect, over, overlaps>>
        /\ faults' \in 0 .. MaxFaults
        /\ \/ content' = content
           \/ \E t \in E : Past(t) /\ content' = [content EXCEPT ![w[t].ino] = Torn]
  <2>0. w \in [Writers -> Ops] /\ faults \in Nat /\ MaxFaults \in Nat /\ faults <= MaxFaults
    BY BoundsAssumption DEF TypeOK
  <2>1. CASE Crash
    <3>1. w' = [s \in Writers |-> IF s \in Writers THEN Idle ELSE w[s]]
      BY <2>1 DEF Crash
    <3> QED
      BY <2>0, <2>1, <3>1 DEF Crash, diskVars, histVars
  <2>2. ASSUME NEW t \in Writers, ReplaceRaises(t) \/ WriteRaises(t)
        PROVE  /\ w' = [s \in Writers |-> IF s \in {t} THEN Idle ELSE w[s]]
               /\ UNCHANGED <<path, tmp, inodes, ops, acked, suspect, over, overlaps>>
               /\ faults' \in 0 .. MaxFaults
               /\ \/ content' = content
                  \/ Past(t) /\ content' = [content EXCEPT ![w[t].ino] = Torn]
    BY <2>0, <2>2 DEF ReplaceRaises, WriteRaises, diskVars, histVars, Past
  <2> QED
    BY <2>1, <2>2
<1>2. \A s \in Writers : w'[s].pc # "idle" => s \notin E /\ w'[s] = w[s] /\ (Past(s)' <=> Past(s))
  BY <1>1, Facts DEF Past
<1>3. w' \in [Writers -> Ops]
  BY <1>1, Facts
<1>4. \/ content' = content
      \/ \E t \in E : /\ Past(t) /\ w[t].ino \in Inodes /\ w[t].ino <= inodes
                      /\ content'[w[t].ino] = Torn
                      /\ \A j \in Inodes \ {w[t].ino} : content'[j] = content[j]
  BY <1>1, Facts DEF TypeOK
<1>5. TypeOK'
  <2>1. content' \in [Inodes -> Bytes]
    BY <1>1 DEF TypeOK, Bytes
  <2>2. \A s \in Writers : w'[s].pc \in {"opened", "written"} => w'[s].ino \in 1 .. inodes'
    BY <1>1, <1>2 DEF TypeOK
  <2> QED
    BY <1>1, <1>3, <2>1, <2>2 DEF TypeOK
<1>6. Disk'
  BY <1>1, <1>4, Facts DEF Disk, Inodes
\* An operation that is alone still has its own file.
<1>7. \A s \in Writers : w'[s].pc # "idle" /\ s \notin over => content' = content
  <2> SUFFICES ASSUME NEW s \in Writers, w'[s].pc # "idle", s \notin over,
                      NEW t \in E, Past(t)
               PROVE  FALSE
    BY <1>1
  <2>1. t \in Writers /\ t # s /\ w[t].pc # "idle" /\ w[s].pc # "idle"
    BY <1>2 DEF Past
  <2> QED
    BY <2>1 DEF Alone
<1>8. Alone'
  <2> SUFFICES ASSUME NEW s \in Writers, w'[s].pc # "idle", s \notin over
               PROVE  /\ \A r \in Writers \ {s} : w'[r].pc = "idle"
                      /\ Past(s)' => tmp = w'[s].ino
                      /\ w'[s].pc = "opened" => content'[w'[s].ino] = Blank
                      /\ w'[s].pc = "written" => content'[w'[s].ino] = w'[s].copy
    BY <1>1 DEF Alone
  <2>1. w'[s] = w[s] /\ content' = content /\ (Past(s)' <=> Past(s))
    BY <1>2, <1>7
  <2>2. \A r \in Writers \ {s} : w[r].pc = "idle" /\ w'[r].pc = "idle"
    BY <1>2, <2>1 DEF Alone
  <2> QED
    BY <2>1, <2>2 DEF Alone
<1>9. Suspected' /\ Copies'
  BY <1>1, <1>2 DEF Suspected, Copies, Right
<1>10. \A j \in Inodes : content'[j] \in Tables => content'[j] = content[j]
  BY <1>4, Facts
<1>11. Moved'
  <2> SUFFICES ASSUME NEW s \in Writers, Past(s)', NEW j \in {w'[s].ino, tmp} \ {NoInode},
                      content'[j] \in Tables
               PROVE  Right(content[j], s)'
    BY <1>1 DEF Moved
  <2>1. Past(s) /\ w'[s] = w[s]
    BY <1>2 DEF Past
  <2>2. j \in Inodes
    BY <2>1, Facts
  <2> QED
    BY <1>1, <1>10, <2>1, <2>2 DEF Moved, Right
<1>12. \/ Stored' = Stored
       \/ Stored' = Torn /\ overlaps
  <2>1. CASE content' = content
    BY <1>1, <2>1 DEF Stored
  <2>2. ASSUME NEW t \in E, Past(t), w[t].ino \in Inodes, content'[w[t].ino] = Torn,
               \A j \in Inodes \ {w[t].ino} : content'[j] = content[j]
        PROVE  Stored' = Stored \/ (Stored' = Torn /\ overlaps)
    <3>1. CASE path = w[t].ino
      <4>1. w[t].pc # "idle" /\ w[t].ino # NoInode
        BY <2>2, Facts DEF Past
      <4>2. t \in over
        BY <2>2, <3>1, <4>1 DEF Alone, Disk
      <4> QED
        BY <1>1, <2>2, <3>1, <4>1, <4>2 DEF Suspected, Stored
    <3>2. CASE path # w[t].ino
      <4>1. CASE path = NoInode
        BY <1>1, <4>1 DEF Stored
      <4>2. CASE path # NoInode
        BY <1>1, <2>2, <3>2, <4>2, Facts DEF Stored
      <4> QED
        BY <4>1, <4>2
    <3> QED
      BY <3>1, <3>2
  <2> QED
    BY <1>4, <2>1, <2>2
<1>13. StoredIsKept' /\ BrokenOnlyByOverlap'
  BY <1>1, <1>12, Facts DEF StoredIsKept, BrokenOnlyByOverlap, Readable
<1> QED
  BY <1>5, <1>6, <1>8, <1>9, <1>11, <1>13

-----------------------------------------------------------------------------
LEMMA VectorNext ==
  ASSUME VectorInv, Next
  PROVE  VectorInv'
<1>1. Gone \in Versions /\ (ops < MaxOps => ops + 1 \in Versions)
  BY Facts DEF VectorInv, Gone, Versions
<1>2. ASSUME NEW t \in Writers, NEW f \in Files, Upsert(t, f) \/ DeleteFile(t, f)
      PROVE  VectorInv'
  <2>1. ops < MaxOps
    BY <1>2 DEF Upsert, DeleteFile, Load
  <2> QED
    BY <1>1, <1>2, <2>1, LoadStep DEF Upsert, DeleteFile
<1>3. CASE \E t \in Writers : Open(t)
  BY <1>3, OpenStep
<1>4. CASE \E t \in Writers : Write(t)
  BY <1>4, WriteStep
<1>5. CASE \E t \in Writers : Replace(t)
  BY <1>5, ReplaceStep
<1>6. CASE Crash \/ \E t \in Writers : ReplaceRaises(t) \/ WriteRaises(t)
  BY <1>6, EndingStep
<1> QED
  BY <1>2, <1>3, <1>4, <1>5, <1>6 DEF Next

LEMMA VectorStutter ==
  ASSUME VectorInv, UNCHANGED vars
  PROVE  VectorInv'
  BY DEF vars, VectorInv, TypeOK, Disk, Alone, Suspected, Copies, Moved, Right, Past,
         StoredIsKept, BrokenOnlyByOverlap, Stored, Readable

LEMMA VectorInvariant == Spec => []VectorInv
<1>1. VectorInv /\ [Next]_vars => VectorInv'
  BY VectorNext, VectorStutter
<1> QED
  BY VectorInit, <1>1, PTL DEF Spec

-----------------------------------------------------------------------------
\* The variables of VectorFile have their types; a writer past its open has an inode.
THEOREM TypeCorrect == Spec => []TypeOK
  BY VectorInvariant, PTL DEF VectorInv

\* What a lone operation stored stays, through the overlaps, crashes and failed writes of
\* operations on other files; and a file imported again alone is right again.
THEOREM LoneOperationsAreKept == Spec => []StoredIsKept
  BY VectorInvariant, PTL DEF VectorInv

\* Without overlapping operations the file is JSON at every moment.
THEOREM FileIsJson == Spec => []BrokenOnlyByOverlap
  BY VectorInvariant, PTL DEF VectorInv

\* The file is readable and has what was stored last, operations that overlap apart
\* (JsonVectorStore).
THEOREM FileStaysKept == Spec => []FileIsKept
  BY LoneOperationsAreKept, FileIsJson, PTL DEF FileIsKept

-----------------------------------------------------------------------------
(* A PDF that is converted (PdfParsing).                                    *)

Tallies ==
  [pages : Nat, chars : Nat, described : Nat, bare : Nat, matches : SUBSET (1 .. NumPatterns)]

Works ==
  [stage : Stages, extraction : BOOLEAN, force : BOOLEAN, layer : Layers, total : 0 .. MaxPages,
   read : Answers, doc : Tallies, saved : Savings, raised : BOOLEAN, result : Results]

\* Every pattern that matches has been drawn: no check of this process finds it again.
Seen(t, d) == \A k \in t.matches : k <= d

\* A page that is not bare has brought enough characters to pass alone.
Tallied(doc) ==
  /\ doc.bare <= doc.pages
  /\ doc.bare = doc.pages => doc.chars = 0 /\ doc.described = 0
  /\ doc.bare < doc.pages =>
       doc.chars >= PageChars \/ (doc.chars >= DescriptionChars /\ doc.described >= 1)

Reading(v) == v.stage \in {"ocr", "native", "describe"}
Spared(v) == v.total >= 2 \/ v.doc.bare < v.total

\* What a thread has made of its PDF so far.
Kept(v, d, k) ==
  /\ v.doc.pages <= v.total /\ Tallied(v.doc) /\ Seen(v.doc, d)
  /\ v.stage = "idle" => v.doc.pages = 0
  /\ Reading(v) => v.doc.pages < v.total
  /\ Reading(v) \/ v.stage \in {"save", "judge"} => ~v.raised
  /\ v.stage = "describe" => Seen(v.read, d) /\ (v.read = NoText \/ v.read.chars >= PageChars)
  /\ v.stage = "judge" => v.saved = "whole"
  /\ v.stage = "save" \/ v.saved # "no" => v.total > 0 /\ v.doc.pages = v.total
  /\ v.stage = "returned" =>
       /\ v.result = "markdown" => v.saved = "whole"
       /\ v.result = "error" /\ LayerIsSafe(v) => v.raised \/ (v.force /\ ~k)
       /\ v.saved = "whole" /\ ~v.raised => (v.result = "markdown" <=> Spared(v))

PdfTypes ==
  /\ vlm \in BOOLEAN /\ key \in BOOLEAN
  /\ drawn \in 0 .. NumPatterns /\ parses \in 0 .. MaxParses
  /\ work \in [Parsers -> Works]

PdfInv == PdfTypes /\ \A p \in Parsers : Kept(work[p], drawn, key)

-----------------------------------------------------------------------------
\* A set of numbers that is not empty has a least one.
LEMMA LeastOf ==
  ASSUME NEW S \in SUBSET Nat, S # {}
  PROVE  Min(S) \in S /\ \A n \in S : Min(S) <= n
<1>1. PICK m \in S : \A n \in S : ~(<<n, m>> \in OpToRel(<, Nat))
  BY WFMin, NatLessThanWellFounded
<1>2. m \in Nat /\ \A n \in S : n \in Nat
  OBVIOUS
<1>3. \A n \in S : ~(n < m)
  BY <1>1, <1>2, Zenon DEF OpToRel
<1>4. \A n \in S : m <= n
  BY <1>2, <1>3
<1> QED
  BY <1>1, <1>4 DEF Min

\* A check draws at least what was drawn, and all of them where it finds nothing to refuse.
LEMMA DrawnGrows ==
  ASSUME NEW t, t.matches \subseteq 1 .. NumPatterns, NEW least, NEW d \in 0 .. NumPatterns
  PROVE  /\ DrawnBy(t, least, d) \in 0 .. NumPatterns /\ d <= DrawnBy(t, least, d)
         /\ Usable(t, least, d) => Seen(t, DrawnBy(t, least, d))
<1>1. NumPatterns \in Nat
  BY PdfAssumption
<1>2. Hit(t, d) \in SUBSET Nat /\ Hit(t, d) \subseteq 1 .. NumPatterns
  BY <1>1 DEF Hit
<1>3. CASE Worded(t, least) /\ Hit(t, d) # {}
  <2>1. Min(Hit(t, d)) \in Hit(t, d)
    BY <1>2, <1>3, LeastOf
  <2>2. Min(Hit(t, d)) \in 1 .. NumPatterns /\ Min(Hit(t, d)) > d
    BY <2>1, <1>2 DEF Hit
  <2>3. DrawnBy(t, least, d) = Min(Hit(t, d))
    BY <1>3 DEF DrawnBy
  <2> QED
    BY <1>1, <1>3, <2>2, <2>3 DEF Usable
<1>4. CASE Worded(t, least) /\ Hit(t, d) = {}
  <2>1. DrawnBy(t, least, d) = NumPatterns
    BY <1>4 DEF DrawnBy
  <2>2. Seen(t, NumPatterns)
    BY <1>1 DEF Seen
  <2> QED
    BY <1>1, <2>1, <2>2
<1>5. CASE ~Worded(t, least)
  <2>1. DrawnBy(t, least, d) = d
    BY <1>5 DEF DrawnBy
  <2> QED
    BY <1>1, <1>5, <2>1 DEF Usable
<1> QED
  BY <1>3, <1>4, <1>5

\* What was kept stays kept when more is drawn.
LEMMA DrawingKeeps ==
  ASSUME NEW v \in Works, NEW k, NEW d \in Nat, NEW e \in Nat, d <= e, Kept(v, d, k)
  PROVE  Kept(v, e, k)
<1>1. v.doc.matches \subseteq Nat /\ v.read.matches \subseteq Nat
  BY PdfAssumption DEF Works, Tallies, Text
<1>2. \A t : Seen(t, d) /\ t.matches \subseteq Nat => Seen(t, e)
  BY DEF Seen
<1> QED
  BY <1>1, <1>2 DEF Kept

\* A thread that goes on keeps the invariant if its own work does.
LEMMA OneParser ==
  ASSUME PdfInv, NEW p \in Parsers, NEW v \in Works, work' = [work EXCEPT ![p] = v],
         UNCHANGED <<vlm, key>>, parses' \in 0 .. MaxParses,
         drawn' \in 0 .. NumPatterns, drawn <= drawn', Kept(v, drawn', key)
  PROVE  PdfInv'
<1>1. NumPatterns \in Nat
  BY PdfAssumption
<1>2. PdfTypes'
  BY DEF PdfInv, PdfTypes
<1>3. ASSUME NEW q \in Parsers PROVE Kept(work'[q], drawn', key')
  <2>1. CASE q = p
    BY <2>1 DEF PdfInv, PdfTypes
  <2>2. CASE q # p
    <3>1. work'[q] = work[q] /\ work[q] \in Works /\ Kept(work[q], drawn, key)
      BY <2>2 DEF PdfInv, PdfTypes
    <3>2. drawn \in Nat /\ drawn' \in Nat
      BY <1>1 DEF PdfInv, PdfTypes
    <3> QED
      BY <3>1, <3>2, DrawingKeeps
  <2> QED
    BY <2>1, <2>2
<1> QED
  BY <1>2, <1>3 DEF PdfInv

-----------------------------------------------------------------------------
(* One page.                                                                *)

\* The answers a page may be made of.
GoodBody(t) == t = NoText \/ t.chars >= PageChars
GoodDescription(t) == t = NoText \/ t.chars >= DescriptionChars

LEMMA AnswerFacts ==
  ASSUME NEW t \in Answers
  PROVE  /\ t.chars \in Nat /\ t.matches \subseteq 1 .. NumPatterns /\ t.matches \subseteq Nat
         /\ NoText \in Answers /\ NoText \in Layers
         /\ NoText.chars = 0 /\ NoText.noise = TRUE /\ NoText.matches = {}
         /\ \A d : Seen(NoText, d)
<1>1. t.chars \in Nat /\ t.matches \subseteq 1 .. NumPatterns
  BY PdfAssumption DEF Text
<1>2. NumPatterns \in Nat
  BY PdfAssumption
<1> QED
  BY <1>1, <1>2, PdfAssumption DEF NoText, Seen

\* What a page adds to the tally.
LEMMA PageTallied ==
  ASSUME NEW doc \in Tallies, Tallied(doc), NEW d \in Nat, Seen(doc, d),
         NEW b \in Answers, GoodBody(b), Seen(b, d),
         NEW s \in Answers, GoodDescription(s), Seen(s, d)
  PROVE  /\ PutPage(doc, b, s) \in Tallies /\ Tallied(PutPage(doc, b, s))
         /\ Seen(PutPage(doc, b, s), d) /\ PutPage(doc, b, s).pages = doc.pages + 1
<1> DEFINE more == IF s = NoText THEN 0 ELSE 1
           bare == IF b = NoText /\ s = NoText THEN 1 ELSE 0
<1>1. /\ b.chars \in Nat /\ s.chars \in Nat
      /\ b.matches \subseteq 1 .. NumPatterns /\ s.matches \subseteq 1 .. NumPatterns
      /\ (b = NoText => b.chars = 0) /\ (s = NoText => s.chars = 0)
  BY AnswerFacts
<1>2. /\ doc.pages \in Nat /\ doc.chars \in Nat /\ doc.described \in Nat /\ doc.bare \in Nat
      /\ doc.matches \subseteq 1 .. NumPatterns
  BY DEF Tallies
<1>3. PutPage(doc, b, s) =
        [pages |-> doc.pages + 1, chars |-> doc.chars + b.chars + s.chars,
         described |-> doc.described + more, bare |-> doc.bare + bare,
         matches |-> doc.matches \cup b.matches \cup s.matches]
  BY DEF PutPage
<1>4. more \in Nat /\ bare \in Nat
  OBVIOUS
<1>5. PutPage(doc, b, s) \in Tallies
  <2> HIDE DEF more, bare
  <2> QED
    BY <1>1, <1>2, <1>3, <1>4 DEF Tallies
<1>6. Tallied(PutPage(doc, b, s))
  <2>1. CASE b = NoText /\ s = NoText
    BY <1>1, <1>2, <1>3, <2>1 DEF Tallied
  <2>2. CASE b # NoText
    BY <1>1, <1>2, <1>3, <2>2 DEF Tallied, GoodBody, PageChars
  <2>3. CASE b = NoText /\ s # NoText
    BY <1>1, <1>2, <1>3, <2>3 DEF Tallied, GoodDescription, DescriptionChars
  <2> QED
    BY <2>1, <2>2, <2>3
<1>7. Seen(PutPage(doc, b, s), d)
  BY <1>3 DEF Seen
<1> QED
  BY <1>3, <1>5, <1>6, <1>7

\* A page is done.
LEMMA PageDone ==
  ASSUME NEW v \in Works, NEW d \in Nat, NEW k, Kept(v, d, k), Reading(v),
         NEW b \in Answers, GoodBody(b), Seen(b, d),
         NEW s \in Answers, GoodDescription(s), Seen(s, d)
  PROVE  WithPage(v, b, s) \in Works /\ Kept(WithPage(v, b, s), d, k)
<1>1. PICK doc \in Tallies :
        /\ doc = PutPage(v.doc, b, s) /\ Tallied(doc) /\ Seen(doc, d)
        /\ doc.pages = v.doc.pages + 1
  BY PageTallied DEF Kept, Works
<1>2. /\ v.total \in Nat /\ v.doc.pages \in Nat /\ v.doc.pages < v.total /\ ~v.raised
  BY PdfAssumption DEF Kept, Works, Tallies
<1>3. CASE doc.pages = v.total
  <2>1. WithPage(v, b, s) =
          [v EXCEPT !.doc = doc, !.read = NoText, !.stage = "save"]
    BY <1>1, <1>3 DEF WithPage
  <2>2. PICK y \in Works : y = WithPage(v, b, s)
    BY <2>1, AnswerFacts DEF Works, Stages
  <2>3. /\ y.doc = doc /\ y.saved = v.saved /\ y.stage = "save"
        /\ y.total = v.total /\ y.raised = v.raised
    BY <2>1, <2>2 DEF Works
  <2>4. Kept(y, d, k)
    BY <1>1, <1>2, <1>3, <2>3 DEF Kept, Reading
  <2> QED
    BY <2>2, <2>4
<1>4. CASE doc.pages # v.total
  <2>1. WithPage(v, b, s) =
          [v EXCEPT !.doc = doc, !.read = NoText, !.stage = "ocr"]
    BY <1>1, <1>4 DEF WithPage
  <2>2. PICK y \in Works : y = WithPage(v, b, s)
    BY <2>1, AnswerFacts DEF Works, Stages
  <2>3. /\ y.doc = doc /\ y.saved = v.saved /\ y.stage = "ocr"
        /\ y.total = v.total /\ y.raised = v.raised
    BY <2>1, <2>2 DEF Works
  <2>4. Kept(y, d, k)
    BY <1>1, <1>2, <1>4, <2>3 DEF Kept, Reading
  <2> QED
    BY <2>2, <2>4
<1> QED
  BY <1>3, <1>4

\* A page has its body.
LEMMA BodyDone ==
  ASSUME NEW v \in Works, NEW d \in Nat, NEW k, Kept(v, d, k), Reading(v),
         NEW b \in Answers, GoodBody(b), Seen(b, d)
  PROVE  WithBody(v, b) \in Works /\ Kept(WithBody(v, b), d, k)
<1>1. CASE v.force /\ key
  <2>1. WithBody(v, b) = [v EXCEPT !.read = b, !.stage = "describe"]
    BY <1>1 DEF WithBody
  <2>2. PICK y \in Works : y = WithBody(v, b)
    BY <2>1 DEF Works, Stages
  <2>3. /\ y.doc = v.doc /\ y.saved = v.saved /\ y.stage = "describe" /\ y.read = b
        /\ y.total = v.total /\ y.raised = v.raised
    BY <2>1, <2>2 DEF Works
  <2>4. Kept(y, d, k)
    BY <2>3 DEF Kept, Reading, GoodBody
  <2> QED
    BY <2>2, <2>4
<1>2. CASE ~(v.force /\ key)
  <2>1. WithBody(v, b) = WithPage(v, b, NoText)
    BY <1>2 DEF WithBody
  <2>2. NoText \in Answers /\ GoodDescription(NoText) /\ Seen(NoText, d)
    BY AnswerFacts DEF GoodDescription
  <2> QED
    BY <2>1, <2>2, PageDone
<1> QED
  BY <1>1, <1>2

\* A document of two pages passes, and one of a page that is not bare.
LEMMA DocumentPasses ==
  ASSUME NEW doc \in Tallies, Tallied(doc), NEW d \in Nat, Seen(doc, d), doc.pages > 0
  PROVE  DocumentIsUsable(doc, d) <=> doc.pages >= 2 \/ doc.bare < doc.pages
<1>1. /\ doc.pages \in Nat /\ doc.chars \in Nat /\ doc.described \in Nat /\ doc.bare \in Nat
      /\ doc.matches \subseteq Nat
  BY PdfAssumption DEF Tallies
<1>2. Whole(doc).chars = doc.pages * 67 + doc.chars + doc.described * 9
  BY <1>1 DEF Whole, Words, HeadingChars, PictureChars, CaptionChars
<1>3. Whole(doc).noise = FALSE /\ Hit(Whole(doc), d) = {}
  BY <1>1 DEF Whole, Hit, Seen
<1>4. Usable(Whole(doc), DocumentChars, d) <=> Whole(doc).chars >= 80
  BY <1>3 DEF Usable, Worded, DocumentChars
<1>5. Words(doc) = doc.pages * 7 + doc.chars
  BY <1>1 DEF Words, HeadingChars
<1>6. DocumentIsUsable(doc, d) <=>
        \/ doc.pages * 67 + doc.chars + doc.described * 9 >= 80
        \/ doc.pages * 7 + doc.chars >= 25
        \/ doc.pages >= 2 /\ doc.described > 0
  BY <1>2, <1>4, <1>5 DEF DocumentIsUsable, BodyChars
<1>7. CASE doc.pages >= 2
  BY <1>1, <1>6, <1>7
<1>8. CASE doc.pages = 1 /\ doc.bare < doc.pages
  BY <1>1, <1>6, <1>8 DEF Tallied, PageChars, DescriptionChars
<1>9. CASE doc.pages = 1 /\ doc.bare = doc.pages
  BY <1>1, <1>6, <1>9 DEF Tallied
<1> QED
  BY <1>1, <1>7, <1>8, <1>9 DEF Tallied

-----------------------------------------------------------------------------
(* The steps of a conversion.                                               *)

\* A thread that has no PDF.
LEMMA NoWorkFacts ==
  /\ NoWork \in Works
  /\ NoWork.stage = "idle" /\ NoWork.doc = NoPages /\ NoWork.saved = "no"
  /\ NoWork.raised = FALSE /\ NoWork.result = "none" /\ NoWork.total = 0
  /\ Tallied(NoPages) /\ NoPages.pages = 0
  /\ \A d \in Nat : Seen(NoPages, d)
<1>1. NoPages \in Tallies /\ Tallied(NoPages) /\ NoPages.pages = 0
  BY DEF NoPages, Tallies, Tallied
<1>2. NoText \in Answers /\ NoText \in Layers /\ 0 \in 0 .. MaxPages
  BY PdfAssumption
<1>3. NoWork \in Works
  BY <1>1, <1>2 DEF NoWork, Works, Stages, Savings, Results
<1>4. /\ NoWork.stage = "idle" /\ NoWork.doc = NoPages /\ NoWork.saved = "no"
      /\ NoWork.raised = FALSE /\ NoWork.result = "none" /\ NoWork.total = 0
  BY DEF NoWork
<1>5. \A d \in Nat : Seen(NoPages, d)
  BY DEF Seen, NoPages
<1> QED
  BY <1>1, <1>3, <1>4, <1>5

\* No PDF has been taken up.
LEMMA PdfBegins ==
  ASSUME PdfIdle, vlm \in BOOLEAN, key \in BOOLEAN, drawn = 0, parses = 0
  PROVE  PdfInv
<1>1. Kept(NoWork, 0, key)
  BY NoWorkFacts DEF Kept, Reading
<1>2. drawn \in 0 .. NumPatterns /\ parses \in 0 .. MaxParses
  BY PdfAssumption
<1> QED
  BY <1>1, <1>2, NoWorkFacts DEF PdfIdle, PdfInv, PdfTypes

\* What the invariant says of one thread.
LEMMA WorkFacts ==
  ASSUME PdfInv, NEW p \in Parsers
  PROVE  /\ work[p] \in Works /\ Kept(work[p], drawn, key) /\ work[p].read \in Answers
         /\ drawn \in Nat /\ drawn \in 0 .. NumPatterns /\ NumPatterns \in Nat
         /\ parses \in 0 .. MaxParses
         /\ \A t \in Answers : t.matches \subseteq 1 .. NumPatterns
<1>1. NumPatterns \in Nat
  BY PdfAssumption
<1>2. \A t \in Answers : t.matches \subseteq 1 .. NumPatterns
  BY AnswerFacts
<1>3. /\ work[p] \in Works /\ Kept(work[p], drawn, key)
      /\ drawn \in 0 .. NumPatterns /\ parses \in 0 .. MaxParses
  BY DEF PdfInv, PdfTypes
<1>4. work[p].read \in Answers
  BY <1>3 DEF Works
<1> QED
  BY <1>1, <1>2, <1>3, <1>4

\* A PDF that has just been taken up: to be converted, or done with at once.
Taken(extraction, force, layer, total) ==
  [NoWork EXCEPT !.extraction = extraction, !.force = force, !.layer = layer, !.total = total]

LEMMA TakenUp ==
  ASSUME NEW extraction \in BOOLEAN, NEW force \in BOOLEAN, NEW layer \in Layers,
         NEW total \in 1 .. MaxPages, NEW d \in Nat, NEW v, v = Taken(extraction, force, layer, total)
  PROVE  /\ v \in Works
         /\ \A y : y = [v EXCEPT !.stage = "ocr"] => y \in Works /\ Kept(y, d, key)
         /\ \A y : y = [v EXCEPT !.stage = "returned", !.result = "layer"] =>
              y \in Works /\ Kept(y, d, key)
         /\ ~extraction \/ (force /\ ~key) =>
              \A y : y = [v EXCEPT !.stage = "returned", !.result = "error"] =>
                y \in Works /\ Kept(y, d, key)
         /\ \A y : y = [v EXCEPT !.stage = "returned", !.result = "error", !.raised = TRUE] =>
              y \in Works /\ Kept(y, d, key)
<1>1. v \in Works
  <2>1. total \in 0 .. MaxPages
    BY PdfAssumption
  <2> QED
    BY <2>1, NoWorkFacts DEF Works, Taken
<1>2. /\ v.extraction = extraction /\ v.force = force /\ v.total = total
      /\ v.doc = NoPages /\ v.saved = "no" /\ v.raised = FALSE /\ v.result = "none"
  BY NoWorkFacts DEF Works, Taken
<1>3. total > 0 /\ total \in Nat
  BY PdfAssumption
<1>4. ASSUME NEW y, y = [v EXCEPT !.stage = "ocr"]
      PROVE  y \in Works /\ Kept(y, d, key)
  <2>1. y \in Works
    BY <1>1, <1>4 DEF Works, Stages, Results
  <2>2. /\ y.stage = "ocr" /\ y.total = total
        /\ y.doc = NoPages /\ y.saved = "no" /\ y.raised = FALSE
    BY <1>1, <1>2, <1>4 DEF Works
  <2> QED
    BY <1>3, <2>1, <2>2, NoWorkFacts DEF Kept, Reading
<1>5. ASSUME NEW y, y = [v EXCEPT !.stage = "returned", !.result = "layer"]
      PROVE  y \in Works /\ Kept(y, d, key)
  <2>1. y \in Works
    BY <1>1, <1>5 DEF Works, Stages, Results
  <2>2. /\ y.stage = "returned" /\ y.total = total /\ y.result = "layer"
        /\ y.doc = NoPages /\ y.saved = "no" /\ y.raised = FALSE
    BY <1>1, <1>2, <1>5 DEF Works
  <2> QED
    BY <1>3, <2>1, <2>2, NoWorkFacts DEF Kept, Reading
<1>6. ASSUME NEW y, y = [v EXCEPT !.stage = "returned", !.result = "error"],
             ~extraction \/ (force /\ ~key)
      PROVE  y \in Works /\ Kept(y, d, key)
  <2>1. y \in Works
    BY <1>1, <1>6 DEF Works, Stages, Results
  <2>2. /\ y.stage = "returned" /\ y.total = total /\ y.result = "error"
        /\ y.doc = NoPages /\ y.saved = "no" /\ y.raised = FALSE
        /\ y.extraction = extraction /\ y.force = force
    BY <1>1, <1>2, <1>6 DEF Works
  <2> QED
    BY <1>3, <1>6, <2>1, <2>2, NoWorkFacts DEF Kept, Reading, LayerIsSafe
<1>7. ASSUME NEW y, y = [v EXCEPT !.stage = "returned", !.result = "error", !.raised = TRUE]
      PROVE  y \in Works /\ Kept(y, d, key)
  <2>1. y \in Works
    BY <1>1, <1>7 DEF Works, Stages, Results
  <2>2. /\ y.stage = "returned" /\ y.total = total /\ y.result = "error"
        /\ y.doc = NoPages /\ y.saved = "no" /\ y.raised = TRUE
    BY <1>1, <1>2, <1>7 DEF Works
  <2> QED
    BY <1>3, <2>1, <2>2, NoWorkFacts DEF Kept, Reading
<1> QED
  BY <1>1, <1>4, <1>5, <1>6, <1>7

LEMMA ParseBeginStep ==
  ASSUME PdfInv, NEW p \in Parsers, ParseBegin(p)
  PROVE  PdfInv'
<1>1. PICK extraction \in BOOLEAN, force \in BOOLEAN, layer \in Layers, total \in 1 .. MaxPages :
        work' = [work EXCEPT ![p] =
          IF ~Enhances(extraction, force, layer)
          THEN [[NoWork EXCEPT !.extraction = extraction, !.force = force,
                               !.layer = IF extraction THEN layer ELSE NoText,
                               !.total = total]
                  EXCEPT !.stage = "returned", !.result = IF extraction THEN "layer" ELSE "error"]
          ELSE IF force /\ ~key
          THEN [[NoWork EXCEPT !.extraction = extraction, !.force = force,
                               !.layer = IF extraction THEN layer ELSE NoText,
                               !.total = total]
                  EXCEPT !.stage = "returned", !.result = "error"]
          ELSE [[NoWork EXCEPT !.extraction = extraction, !.force = force,
                               !.layer = IF extraction THEN layer ELSE NoText,
                               !.total = total]
                  EXCEPT !.stage = "ocr"]]
  BY Zenon DEF ParseBegin
<1>2. PICK first : first = IF extraction THEN layer ELSE NoText
  OBVIOUS
<1>3. first \in Layers
  BY <1>2, PdfAssumption
<1>4. drawn \in Nat /\ drawn \in 0 .. NumPatterns /\ parses \in 0 .. MaxParses
  BY WorkFacts
<1>5. PICK v : v = Taken(extraction, force, first, total)
  OBVIOUS
<1>6. /\ \A y : y = [v EXCEPT !.stage = "ocr"] => y \in Works /\ Kept(y, drawn, key)
      /\ \A y : y = [v EXCEPT !.stage = "returned", !.result = "layer"] =>
           y \in Works /\ Kept(y, drawn, key)
      /\ ~extraction \/ (force /\ ~key) =>
           \A y : y = [v EXCEPT !.stage = "returned", !.result = "error"] =>
             y \in Works /\ Kept(y, drawn, key)
  BY <1>3, <1>4, <1>5, TakenUp
<1>7. \E y \in Works : work' = [work EXCEPT ![p] = y] /\ Kept(y, drawn, key)
  <2>1. CASE ~Enhances(extraction, force, layer) /\ extraction
    <3>1. PICK y : y = [v EXCEPT !.stage = "returned", !.result = "layer"]
      OBVIOUS
    <3>2. work' = [work EXCEPT ![p] = y]
      BY <1>1, <1>2, <1>5, <2>1, <3>1, Zenon DEF Taken
    <3>3. y \in Works /\ Kept(y, drawn, key)
      BY <1>6, <2>1, <3>1
    <3> QED
      BY <3>2, <3>3
  <2>2. CASE ~Enhances(extraction, force, layer) /\ ~extraction
    <3>1. PICK y : y = [v EXCEPT !.stage = "returned", !.result = "error"]
      OBVIOUS
    <3>2. work' = [work EXCEPT ![p] = y]
      BY <1>1, <1>2, <1>5, <2>2, <3>1, Zenon DEF Taken
    <3>3. y \in Works /\ Kept(y, drawn, key)
      <4>1. ~extraction \/ (force /\ ~key)
        BY <2>2
      <4> QED
        BY <3>1, <4>1, <1>6
    <3> QED
      BY <3>2, <3>3
  <2>3. CASE Enhances(extraction, force, layer) /\ force /\ ~key
    <3>1. PICK y : y = [v EXCEPT !.stage = "returned", !.result = "error"]
      OBVIOUS
    <3>2. work' = [work EXCEPT ![p] = y]
      BY <1>1, <1>2, <1>5, <2>3, <3>1, Zenon DEF Taken
    <3>3. y \in Works /\ Kept(y, drawn, key)
      <4>1. ~extraction \/ (force /\ ~key)
        BY <2>3
      <4> QED
        BY <3>1, <4>1, <1>6
    <3> QED
      BY <3>2, <3>3
  <2>4. CASE Enhances(extraction, force, layer) /\ ~(force /\ ~key)
    <3>1. PICK y : y = [v EXCEPT !.stage = "ocr"]
      OBVIOUS
    <3>2. work' = [work EXCEPT ![p] = y]
      BY <1>1, <1>2, <1>5, <2>4, <3>1, Zenon DEF Taken
    <3>3. y \in Works /\ Kept(y, drawn, key)
      BY <1>6, <2>4, <3>1
    <3> QED
      BY <3>2, <3>3
  <2> QED
    BY <2>1, <2>2, <2>3, <2>4
<1>8. parses' \in 0 .. MaxParses /\ UNCHANGED <<vlm, key, drawn>>
  BY <1>4, PdfAssumption DEF ParseBegin
<1>9. drawn' \in 0 .. NumPatterns /\ drawn <= drawn' /\ drawn' = drawn
  BY <1>4, <1>8
<1>10. PICK y \in Works : work' = [work EXCEPT ![p] = y] /\ Kept(y, drawn', key)
  BY <1>7, <1>9
<1> QED
  BY <1>8, <1>9, <1>10, OneParser

LEMMA LayerFailsStep ==
  ASSUME PdfInv, NEW p \in Parsers, LayerFails(p)
  PROVE  PdfInv'
<1>1. PICK force \in BOOLEAN, layer \in Layers, total \in 1 .. MaxPages :
        work' = [work EXCEPT ![p] =
          [NoWork EXCEPT !.extraction = TRUE, !.force = force, !.layer = layer,
                         !.total = total, !.stage = "returned", !.result = "error",
                         !.raised = TRUE]]
  BY DEF LayerFails
<1>2. drawn \in Nat /\ drawn \in 0 .. NumPatterns /\ parses \in 0 .. MaxParses
  BY WorkFacts
<1>3. PICK v : v = Taken(TRUE, force, layer, total)
  OBVIOUS
<1>4. PICK y : y = [v EXCEPT !.stage = "returned", !.result = "error", !.raised = TRUE]
  OBVIOUS
<1>5. y \in Works /\ Kept(y, drawn, key)
  BY <1>2, <1>3, <1>4, TakenUp
<1>6. work' = [work EXCEPT ![p] = y]
  BY <1>1, <1>3, <1>4, Zenon DEF Taken
<1>7. parses' \in 0 .. MaxParses /\ UNCHANGED <<vlm, key, drawn>>
  BY <1>2, PdfAssumption DEF LayerFails
<1>8. drawn' \in 0 .. NumPatterns /\ drawn <= drawn' /\ Kept(y, drawn', key)
  BY <1>2, <1>5, <1>7
<1> QED
  BY <1>5, <1>6, <1>7, <1>8, OneParser

\* The answers a check lets pass.
LEMMA UsableIsGood ==
  ASSUME NEW t \in Answers, NEW d
  PROVE  /\ Usable(t, PageChars, d) => GoodBody(t)
         /\ Usable(t, DescriptionChars, d) => GoodDescription(t)
  BY DEF Usable, Worded, GoodBody, GoodDescription

LEMMA ReadPictureStep ==
  ASSUME PdfInv, NEW p \in Parsers, ReadPicture(p)
  PROVE  PdfInv'
<1>1. /\ work[p] \in Works /\ Kept(work[p], drawn, key) /\ drawn \in Nat
      /\ drawn \in 0 .. NumPatterns /\ NumPatterns \in Nat /\ parses \in 0 .. MaxParses
  BY WorkFacts
<1>2. PICK t \in Answers :
        /\ drawn' = DrawnBy(t, PageChars, drawn)
        /\ work' = [work EXCEPT ![p] =
             IF Usable(t, PageChars, drawn) THEN WithBody(work[p], t)
             ELSE [work[p] EXCEPT !.read = t, !.stage = "native"]]
  BY PdfAssumption DEF ReadPicture, Given
<1>3. t.matches \subseteq 1 .. NumPatterns
  BY AnswerFacts
<1>4. /\ drawn' \in 0 .. NumPatterns /\ drawn <= drawn' /\ drawn' \in Nat
      /\ Usable(t, PageChars, drawn) => Seen(t, drawn')
  <2>1. /\ drawn' \in 0 .. NumPatterns /\ drawn <= drawn'
        /\ Usable(t, PageChars, drawn) => Seen(t, drawn')
    BY <1>1, <1>2, <1>3, DrawnGrows
  <2> QED
    BY <1>1, <2>1
<1>5. Kept(work[p], drawn', key)
  BY <1>1, <1>4, DrawingKeeps
<1>6. work[p].stage = "ocr" /\ Reading(work[p]) /\ UNCHANGED <<vlm, key, parses>>
  BY DEF ReadPicture, Reading
<1>7. CASE Usable(t, PageChars, drawn)
  <2>1. PICK y \in Works : y = WithBody(work[p], t) /\ Kept(y, drawn', key)
    BY <1>1, <1>4, <1>5, <1>6, <1>7, UsableIsGood, BodyDone
  <2>2. work' = [work EXCEPT ![p] = y]
    BY <1>2, <1>7, <2>1
  <2> QED
    BY <1>1, <1>4, <1>6, <2>1, <2>2, OneParser
<1>8. CASE ~Usable(t, PageChars, drawn)
  <2>1. PICK y : y = [work[p] EXCEPT !.read = t, !.stage = "native"]
    OBVIOUS
  <2>2. work' = [work EXCEPT ![p] = y]
    BY <1>2, <1>8, <2>1, Zenon
  <2>3. y \in Works
    BY <1>1, <2>1 DEF Works, Stages
  <2>4. /\ y.stage = "native" /\ y.doc = work[p].doc /\ y.total = work[p].total
        /\ y.saved = work[p].saved /\ y.raised = work[p].raised
    BY <1>1, <2>1 DEF Works
  <2>5. Kept(y, drawn', key)
    BY <1>5, <1>6, <2>4 DEF Kept, Reading
  <2> QED
    BY <1>1, <1>4, <1>6, <2>2, <2>3, <2>5, OneParser
<1> QED
  BY <1>7, <1>8

LEMMA ReadPageStep ==
  ASSUME PdfInv, NEW p \in Parsers, ReadPage(p)
  PROVE  PdfInv'
<1>1. /\ work[p] \in Works /\ Kept(work[p], drawn, key) /\ drawn \in Nat
      /\ work[p].read \in Answers
      /\ drawn \in 0 .. NumPatterns /\ NumPatterns \in Nat /\ parses \in 0 .. MaxParses
  BY WorkFacts
<1>2. PICK t \in Answers :
        IF Usable(t, PageChars, drawn)
        THEN /\ drawn' = DrawnBy(t, PageChars, drawn)
             /\ work' = [work EXCEPT ![p] = WithBody(work[p], t)]
        ELSE /\ drawn' = DrawnBy(work[p].read, PageChars, DrawnBy(t, PageChars, drawn))
             /\ work' = [work EXCEPT ![p] =
                  WithBody(work[p],
                    IF Usable(work[p].read, PageChars, DrawnBy(t, PageChars, drawn))
                    THEN work[p].read ELSE NoText)]
  BY PdfAssumption DEF ReadPage, Given
<1>3. t.matches \subseteq 1 .. NumPatterns /\ work[p].read.matches \subseteq 1 .. NumPatterns
  BY <1>1, AnswerFacts
<1>4. PICK once \in 0 .. NumPatterns :
        /\ once = DrawnBy(t, PageChars, drawn) /\ drawn <= once
        /\ Usable(t, PageChars, drawn) => Seen(t, once)
  BY <1>1, <1>3, DrawnGrows
<1>5. Reading(work[p]) /\ UNCHANGED <<vlm, key, parses>>
  BY DEF ReadPage, Reading
<1>6. \E b \in Answers :
        /\ work' = [work EXCEPT ![p] = WithBody(work[p], b)] /\ GoodBody(b) /\ Seen(b, drawn')
        /\ drawn' \in 0 .. NumPatterns /\ drawn <= drawn'
  <2>1. CASE Usable(t, PageChars, drawn)
    BY <1>2, <1>4, <2>1, UsableIsGood
  <2>2. CASE ~Usable(t, PageChars, drawn)
    <3>1. drawn' = DrawnBy(work[p].read, PageChars, once)
      BY <1>2, <1>4, <2>2
    <3>2. /\ drawn' \in 0 .. NumPatterns /\ once <= drawn'
          /\ Usable(work[p].read, PageChars, once) => Seen(work[p].read, drawn')
      BY <1>3, <3>1, DrawnGrows
    <3>3. drawn <= drawn'
      BY <1>1, <1>4, <3>2
    <3>4. CASE Usable(work[p].read, PageChars, once)
      <4>1. work' = [work EXCEPT ![p] = WithBody(work[p], work[p].read)]
        BY <1>2, <1>4, <2>2, <3>4
      <4> QED
        BY <1>1, <3>2, <3>3, <3>4, <4>1, UsableIsGood
    <3>5. CASE ~Usable(work[p].read, PageChars, once)
      <4>1. work' = [work EXCEPT ![p] = WithBody(work[p], NoText)]
        BY <1>2, <1>4, <2>2, <3>5
      <4> QED
        BY <1>1, <3>2, <3>3, <4>1, AnswerFacts DEF GoodBody
    <3> QED
      BY <3>4, <3>5
  <2> QED
    BY <2>1, <2>2
<1>7. PICK b \in Answers :
        /\ work' = [work EXCEPT ![p] = WithBody(work[p], b)] /\ GoodBody(b) /\ Seen(b, drawn')
        /\ drawn' \in 0 .. NumPatterns /\ drawn <= drawn'
  BY <1>6
<1>8. drawn' \in Nat
  BY <1>1, <1>7
<1>9. Kept(work[p], drawn', key)
  BY <1>1, <1>7, <1>8, DrawingKeeps
<1>10. PICK y \in Works : y = WithBody(work[p], b) /\ Kept(y, drawn', key)
  BY <1>1, <1>5, <1>7, <1>8, <1>9, BodyDone
<1> QED
  BY <1>1, <1>5, <1>7, <1>10, OneParser

LEMMA DescribeStep ==
  ASSUME PdfInv, NEW p \in Parsers, Describe(p)
  PROVE  PdfInv'
<1>1. /\ work[p] \in Works /\ Kept(work[p], drawn, key) /\ drawn \in Nat
      /\ work[p].read \in Answers
      /\ drawn \in 0 .. NumPatterns /\ NumPatterns \in Nat /\ parses \in 0 .. MaxParses
  BY WorkFacts
<1>2. PICK t \in Answers :
        /\ drawn' = DrawnBy(t, DescriptionChars, drawn)
        /\ work' = [work EXCEPT ![p] =
             WithPage(work[p], work[p].read,
                      IF Usable(t, DescriptionChars, drawn) THEN t ELSE NoText)]
  BY DEF Describe
<1>3. t.matches \subseteq 1 .. NumPatterns
  BY AnswerFacts
<1>4. /\ drawn' \in 0 .. NumPatterns /\ drawn <= drawn'
      /\ Usable(t, DescriptionChars, drawn) => Seen(t, drawn')
  BY <1>1, <1>2, <1>3, DrawnGrows
<1>5. drawn' \in Nat
  BY <1>1, <1>4
<1>6. Kept(work[p], drawn', key)
  BY <1>1, <1>4, <1>5, DrawingKeeps
<1>7. /\ work[p].stage = "describe" /\ Reading(work[p]) /\ UNCHANGED <<vlm, key, parses>>
      /\ GoodBody(work[p].read) /\ Seen(work[p].read, drawn')
  BY <1>6 DEF Describe, Reading, Kept, GoodBody
<1>8. PICK s \in Answers :
        /\ work' = [work EXCEPT ![p] = WithPage(work[p], work[p].read, s)]
        /\ GoodDescription(s) /\ Seen(s, drawn')
  <2>1. CASE Usable(t, DescriptionChars, drawn)
    BY <1>2, <1>4, <2>1, UsableIsGood
  <2>2. CASE ~Usable(t, DescriptionChars, drawn)
    BY <1>2, <2>2, AnswerFacts DEF GoodDescription
  <2> QED
    BY <2>1, <2>2
<1>9. PICK y \in Works : y = WithPage(work[p], work[p].read, s) /\ Kept(y, drawn', key)
  BY <1>1, <1>5, <1>6, <1>7, <1>8, PageDone
<1> QED
  BY <1>1, <1>4, <1>7, <1>8, <1>9, OneParser

LEMMA JudgeStep ==
  ASSUME PdfInv, NEW p \in Parsers, Judge(p)
  PROVE  PdfInv'
<1>1. /\ work[p] \in Works /\ Kept(work[p], drawn, key) /\ drawn \in Nat
      /\ drawn \in 0 .. NumPatterns /\ NumPatterns \in Nat /\ parses \in 0 .. MaxParses
  BY WorkFacts
<1>2. work[p].stage = "judge" /\ UNCHANGED <<vlm, key, parses>>
  BY DEF Judge
<1>3. PICK doc \in Tallies : doc = work[p].doc
  BY <1>1 DEF Works
<1>4. /\ Tallied(doc) /\ Seen(doc, drawn) /\ doc.pages = work[p].total /\ doc.pages > 0
      /\ work[p].saved = "whole" /\ ~work[p].raised
  BY <1>1, <1>2, <1>3 DEF Kept
<1>5. drawn' \in 0 .. NumPatterns /\ drawn <= drawn' /\ drawn' \in Nat
  <2>1. Whole(doc).matches \subseteq 1 .. NumPatterns
    BY DEF Whole, Tallies
  <2>2. drawn' = DrawnBy(Whole(doc), DocumentChars, drawn)
    BY <1>3 DEF Judge
  <2>3. drawn' \in 0 .. NumPatterns /\ drawn <= drawn'
    BY <1>1, <2>1, <2>2, DrawnGrows
  <2> QED
    BY <1>1, <2>3
<1>6. PICK result \in {"markdown", "layer", "error"} :
        /\ Return(p, result, work[p].saved, FALSE)
        /\ result = "markdown" <=> DocumentIsUsable(doc, drawn)
        /\ result = "error" => ~LayerIsSafe(work[p])
  BY <1>3 DEF Judge, InItsPlace
<1>7. result = "markdown" <=> Spared(work[p])
  <2>1. DocumentIsUsable(doc, drawn) <=> doc.pages >= 2 \/ doc.bare < doc.pages
    BY <1>1, <1>4, DocumentPasses
  <2> QED
    BY <1>3, <1>4, <1>6, <2>1 DEF Spared
<1>8. PICK y \in Works :
        y = [work[p] EXCEPT !.stage = "returned", !.result = result, !.saved = work[p].saved,
                            !.raised = FALSE, !.read = NoText]
  BY <1>1, AnswerFacts DEF Works, Stages, Results
<1>9. work' = [work EXCEPT ![p] = y]
  BY <1>1, <1>6, <1>8 DEF Return, PdfInv, PdfTypes
<1>10. /\ y.stage = "returned" /\ y.result = result /\ y.doc = work[p].doc
       /\ y.total = work[p].total /\ y.saved = work[p].saved /\ y.raised = FALSE
       /\ y.extraction = work[p].extraction /\ y.layer = work[p].layer
  BY <1>1, <1>8 DEF Works
<1>11. Kept(work[p], drawn', key)
  BY <1>1, <1>5, DrawingKeeps
<1>12. LayerIsSafe(y) <=> LayerIsSafe(work[p])
  BY <1>10 DEF LayerIsSafe
<1>13. Spared(y) <=> Spared(work[p])
  BY <1>10 DEF Spared
<1>14. Kept(y, drawn', key)
  BY <1>4, <1>6, <1>7, <1>10, <1>11, <1>12, <1>13 DEF Kept, Reading
<1> QED
  BY <1>1, <1>2, <1>5, <1>9, <1>14, OneParser

\* The Markdown is saved.
LEMMA SaveStep ==
  ASSUME PdfInv, NEW p \in Parsers, Save(p)
  PROVE  PdfInv'
<1>1. /\ work[p] \in Works /\ Kept(work[p], drawn, key)
      /\ drawn \in Nat /\ drawn \in 0 .. NumPatterns /\ parses \in 0 .. MaxParses
  BY WorkFacts
<1>2. work[p].stage = "save" /\ UNCHANGED <<vlm, key, drawn, parses>>
  BY DEF Save
<1>3. PICK y \in Works : y = [work[p] EXCEPT !.stage = "judge", !.saved = "whole"]
  BY <1>1 DEF Works, Stages, Savings
<1>4. work' = [work EXCEPT ![p] = y]
  BY <1>1, <1>3 DEF Save, PdfInv, PdfTypes
<1>5. /\ y.stage = "judge" /\ y.doc = work[p].doc /\ y.total = work[p].total
      /\ y.saved = "whole" /\ y.raised = work[p].raised
  BY <1>1, <1>3 DEF Works
<1>6. Kept(y, drawn, key)
  BY <1>1, <1>2, <1>5 DEF Kept, Reading
<1>7. drawn' \in 0 .. NumPatterns /\ drawn <= drawn' /\ Kept(y, drawn', key)
  BY <1>1, <1>2, <1>6
<1>8. parses' \in 0 .. MaxParses
  BY <1>1, <1>2
<1> QED
  BY <1>2, <1>3, <1>4, <1>7, <1>8, OneParser

\* A conversion that ends before its document is judged, or by a ValueError from elsewhere.
LEMMA BrokenOff ==
  ASSUME PdfInv, NEW p \in Parsers,
         NEW result \in {"layer", "error"}, NEW kept \in Savings, NEW raised \in BOOLEAN,
         result = "error" => raised \/ ~LayerIsSafe(work[p]),
         raised \/ kept # "whole",
         kept # "no" => work[p].total > 0 /\ work[p].doc.pages = work[p].total,
         Return(p, result, kept, raised), UNCHANGED <<vlm, key, drawn, parses>>
  PROVE  PdfInv'
<1>1. /\ work[p] \in Works /\ Kept(work[p], drawn, key) /\ drawn \in Nat
      /\ drawn \in 0 .. NumPatterns /\ parses \in 0 .. MaxParses
  BY WorkFacts
<1>2. PICK y \in Works :
        y = [work[p] EXCEPT !.stage = "returned", !.result = result, !.saved = kept,
                            !.raised = raised, !.read = NoText]
  BY <1>1, AnswerFacts DEF Works, Stages, Results
<1>3. work' = [work EXCEPT ![p] = y]
  BY <1>1, <1>2 DEF Return, PdfInv, PdfTypes
<1>4. /\ y.stage = "returned" /\ y.result = result /\ y.doc = work[p].doc
      /\ y.total = work[p].total /\ y.saved = kept /\ y.raised = raised
      /\ y.extraction = work[p].extraction /\ y.layer = work[p].layer
  BY <1>1, <1>2 DEF Works
<1>5. LayerIsSafe(y) <=> LayerIsSafe(work[p])
  BY <1>4 DEF LayerIsSafe
<1>6. /\ y.doc.pages <= y.total /\ Tallied(y.doc) /\ Seen(y.doc, drawn)
      /\ y.saved # "no" => y.total > 0 /\ y.doc.pages = y.total
  BY <1>1, <1>4 DEF Kept
<1>7. y.result # "markdown" /\ (y.result = "error" /\ LayerIsSafe(y) => y.raised)
  BY <1>4, <1>5
<1>8. Kept(y, drawn, key)
  BY <1>4, <1>6, <1>7 DEF Kept, Reading
<1>9. drawn' \in 0 .. NumPatterns /\ drawn <= drawn' /\ Kept(y, drawn', key)
  BY <1>1, <1>8
<1>10. parses' \in 0 .. MaxParses
  BY <1>1
<1> QED
  BY <1>2, <1>3, <1>9, <1>10, OneParser

LEMMA ConversionFailsStep ==
  ASSUME PdfInv, NEW p \in Parsers, ConversionFails(p)
  PROVE  PdfInv'
<1>1. work[p] \in Works /\ Kept(work[p], drawn, key)
  BY WorkFacts
<1>2. UNCHANGED <<vlm, key, drawn, parses>>
  BY DEF ConversionFails
<1>3. PICK kept \in {"no", "part"} :
        /\ kept # "no" => work[p].stage = "save"
        /\ Return(p, InItsPlace(p), kept, FALSE)
  BY DEF ConversionFails
<1>4. PICK result \in {"layer", "error"} :
        result = InItsPlace(p) /\ (result = "error" => ~LayerIsSafe(work[p]))
  BY DEF InItsPlace
<1>5. /\ kept \in Savings /\ kept # "whole" /\ Return(p, result, kept, FALSE)
      /\ kept # "no" => work[p].total > 0 /\ work[p].doc.pages = work[p].total
  BY <1>1, <1>3, <1>4 DEF Savings, Kept
<1> QED
  BY <1>2, <1>4, <1>5, BrokenOff

\* What parse_pdf_with_options passes on leaves what was saved.
LEMMA PassedOn ==
  ASSUME PdfInv, NEW p \in Parsers, PassOn(p), UNCHANGED <<vlm, key, drawn, parses>>
  PROVE  PdfInv'
<1>1. work[p] \in Works /\ Kept(work[p], drawn, key)
  BY WorkFacts
<1>2. PICK kept \in Savings : kept = work[p].saved
  BY <1>1 DEF Works
<1>3. kept # "no" => work[p].total > 0 /\ work[p].doc.pages = work[p].total
  BY <1>1, <1>2 DEF Kept
<1>4. Return(p, "error", kept, TRUE)
  BY <1>2 DEF PassOn
<1> QED
  BY <1>3, <1>4, BrokenOff

LEMMA PdfSteps == PdfInv /\ [PdfNext]_pdfVars => PdfInv'
<1> SUFFICES ASSUME PdfInv, [PdfNext]_pdfVars PROVE PdfInv'
  OBVIOUS
<1>1. ASSUME NEW p \in Parsers, ParseBegin(p) PROVE PdfInv'
  BY <1>1, ParseBeginStep
<1>2. ASSUME NEW p \in Parsers, ReadPicture(p) PROVE PdfInv'
  BY <1>2, ReadPictureStep
<1>3. ASSUME NEW p \in Parsers, ReadPage(p) PROVE PdfInv'
  BY <1>3, ReadPageStep
<1>4. ASSUME NEW p \in Parsers, Describe(p) PROVE PdfInv'
  BY <1>4, DescribeStep
<1>5. ASSUME NEW p \in Parsers, Judge(p) PROVE PdfInv'
  BY <1>5, JudgeStep
<1>6. ASSUME NEW p \in Parsers, ConversionFails(p) PROVE PdfInv'
  BY <1>6, ConversionFailsStep
<1>7. ASSUME NEW p \in Parsers, ReportRefused(p) \/ Collide(p) PROVE PdfInv'
  BY <1>7, PassedOn DEF ReportRefused, Collide
<1>8. ASSUME NEW p \in Parsers, LayerFails(p) PROVE PdfInv'
  BY <1>8, LayerFailsStep
<1>9. ASSUME NEW p \in Parsers, Save(p) PROVE PdfInv'
  BY <1>9, SaveStep
<1>10. CASE UNCHANGED pdfVars
  BY <1>10 DEF pdfVars, PdfInv, PdfTypes
<1> QED
  BY <1>1, <1>2, <1>3, <1>4, <1>5, <1>6, <1>7, <1>8, <1>9, <1>10 DEF PdfNext

\* What the invariant says of what is returned.
LEMMA PdfKeeps == PdfInv => ConversionKeeps /\ PdfTypeOK
<1> SUFFICES ASSUME PdfInv PROVE ConversionKeeps /\ PdfTypeOK
  OBVIOUS
<1>1. WordsAreReturned
  BY WorkFacts DEF WordsAreReturned, Kept, Spared
<1>2. GoodLayerIsKept
  BY WorkFacts DEF GoodLayerIsKept, Returned, Kept
<1>3. MarkdownIsWhole
  BY WorkFacts DEF MarkdownIsWhole, Returned, Converted, Kept
<1>4. PdfTypeOK
  <2>1. ASSUME NEW p \in Parsers
        PROVE  /\ work[p].stage \in Stages /\ work[p].result \in Results
               /\ work[p].layer \in Layers /\ work[p].total \in 0 .. MaxPages
               /\ work[p].read \in Answers
               /\ work[p].saved \in Savings
               /\ {work[p].extraction, work[p].force, work[p].raised} \subseteq BOOLEAN
    BY WorkFacts DEF Works
  <2>2. ASSUME NEW p \in Parsers
        PROVE  work[p].doc \in [pages : 0 .. work[p].total, chars : Nat, described : Nat,
                                 bare : Nat, matches : SUBSET (1 .. NumPatterns)]
    <3>1. work[p].doc \in Tallies /\ work[p].doc.pages <= work[p].total /\ work[p].total \in Nat
      BY WorkFacts, PdfAssumption DEF Works, Kept
    <3> QED
      BY <3>1 DEF Tallies
  <2> QED
    BY <2>1, <2>2 DEF PdfTypeOK, PdfInv, PdfTypes
<1> QED
  BY <1>1, <1>2, <1>3, <1>4 DEF ConversionKeeps

-----------------------------------------------------------------------------
(* An import's options (ImportOptions).                                     *)

\* The configs there are: what is never absent, and what may be.
Configs ==
  [strategy : Strategies \cup Names, mode : Maybe(Modes), chunkSize : Maybe(Nat),
   overlap : Maybe(Nat), maxChunkSize : Maybe(Nat), separators : Maybe(Separators),
   paragraphMaxDepth : Maybe({2}), indexSize : Nat, metaHeadings : BOOLEAN, parsing : Parsings]

Fields ==
  {"strategy", "mode", "chunkSize", "overlap", "maxChunkSize", "separators",
   "paragraphMaxDepth", "indexSize", "metaHeadings", "parsing"}

LEMMA FieldsOf ==
  ASSUME NEW c \in Configs
  PROVE  /\ DOMAIN c = Fields /\ DOMAIN Default = Fields
         /\ c = [k \in Fields |-> c[k]]
<1>1. DOMAIN c = Fields
  BY DEF Configs, Fields
<1>2. DOMAIN Default = Fields
  BY DEF Default, Fields
<1>3. c = [k \in Fields |-> c[k]]
  BY <1>1 DEF Configs
<1> QED
  BY <1>1, <1>2, <1>3

\* What a config never lacks.
LEMMA Present ==
  ASSUME NEW c \in Configs, NEW k \in Fields, c[k] = None
  PROVE  Default[k] = None
<1>1. c.strategy # None /\ c.indexSize # None /\ c.metaHeadings # None /\ c.parsing # None
  BY NoneAssumption DEF Configs
<1>2. k \in {"mode", "chunkSize", "overlap", "maxChunkSize", "separators", "paragraphMaxDepth"}
  BY <1>1 DEF Fields
<1> QED
  BY <1>2 DEF Default

\* A row keeps the config: reading it back gives what was written.
LEMMA RoundTrip ==
  ASSUME NEW c \in Configs
  PROVE  FromDict(ToDict(c)) = c
<1> DEFINE S == {k \in Fields : c[k] # None}
<1>1. ToDict(c) = [k \in S |-> c[k]]
  BY FieldsOf DEF ToDict, Restrict
<1>2. FromDict(ToDict(c)) =
        [k \in Fields |-> IF k \in S THEN ToDict(c)[k] ELSE Default[k]]
  BY <1>1, FieldsOf DEF FromDict
<1>3. \A k \in Fields : (IF k \in S THEN ToDict(c)[k] ELSE Default[k]) = c[k]
  BY <1>1, Present
<1> QED
  BY <1>2, <1>3, FieldsOf

-----------------------------------------------------------------------------
(* What a request asks for is in its config.                                *)

\* A config that was made from these options, which are valid, or from none.
MadeFrom(c, o) ==
  /\ o = None =>
       /\ c.mode = None /\ c.chunkSize = None /\ c.overlap = None /\ c.maxChunkSize = None
  /\ o # None =>
       /\ o \in Sent /\ IsValid(o)
       /\ c.strategy = o.strategy /\ c.mode = o.mode
       /\ c.paragraphMaxDepth = o.depth /\ c.separators = o.separators
       /\ o.index # None => c.indexSize = o.index
       /\ o.length # None =>
            /\ c.chunkSize = o.length.size /\ c.overlap = o.length.overlap
            /\ c.maxChunkSize = o.length.max
       /\ o.length = None => c.chunkSize = None /\ c.overlap = None /\ c.maxChunkSize = None
       /\ o.headings = TRUE => c.metaHeadings = TRUE

LEMMA ConfigIsMade ==
  ASSUME NEW o \in Maybe(Sent), o # None => IsValid(o), NEW name \in Names \cup {"default"},
         NEW headings \in BOOLEAN, NEW parsing \in Maybe(SentParsings)
  PROVE  /\ ConfigOf(o, name, headings, parsing) \in Configs
         /\ MadeFrom(ConfigOf(o, name, headings, parsing), o)
<1> DEFINE parse == IF parsing = None THEN DefaultParsing ELSE parsing
<1>1. parse \in Parsings
  BY OptionsAssumption DEF DefaultParsing, Parsings, Maybe
<1>2. PICK base \in Configs :
        /\ base = [Default EXCEPT !.metaHeadings = headings, !.parsing = parse]
        /\ base.mode = None /\ base.chunkSize = None /\ base.overlap = None
        /\ base.maxChunkSize = None
  <2> HIDE DEF parse
  <2>1. /\ Default \in Configs /\ Default.mode = None /\ Default.chunkSize = None
        /\ Default.overlap = None /\ Default.maxChunkSize = None
    BY DEF Default, DefaultParsing, Parsings, Configs, Maybe, Strategies
  <2>2. PICK v : v = [Default EXCEPT !.metaHeadings = headings, !.parsing = parse]
    OBVIOUS
  <2>3. v \in Configs /\ v.mode = None /\ v.chunkSize = None /\ v.overlap = None /\ v.maxChunkSize = None
    BY <1>1, <2>1, <2>2 DEF Configs
  <2> QED
    BY <2>2, <2>3
<1>3. CASE o = None
  <2>1. ConfigOf(o, name, headings, parsing) = [base EXCEPT !.strategy = name]
    BY <1>2, <1>3 DEF ConfigOf
  <2>2. PICK c \in Configs : c = [base EXCEPT !.strategy = name]
    BY DEF Configs, Strategies
  <2>3. /\ c.mode = None /\ c.chunkSize = None /\ c.overlap = None /\ c.maxChunkSize = None
    BY <1>2, <2>2 DEF Configs
  <2> QED
    BY <1>3, <2>1, <2>2, <2>3 DEF MadeFrom
<1>4. CASE o # None
  <2>1. /\ o \in Sent /\ o.strategy \in Strategies /\ o.mode \in Maybe(Modes)
        /\ o.depth \in Maybe({2}) /\ o.separators \in Maybe(Separators)
        /\ o.index = None \/ o.index \in Nat
        /\ o.length = None \/ o.length \in [size : Nat, overlap : Nat, max : Nat]
        /\ o.headings \in Maybe(BOOLEAN)
    BY <1>4, OptionsAssumption DEF Maybe, Options
  <2> DEFINE index == IF o.index = None THEN 512 ELSE o.index
             size == IF o.length = None THEN None ELSE o.length.size
             overlap == IF o.length = None THEN None ELSE o.length.overlap
             max == IF o.length = None THEN None ELSE o.length.max
             show == IF o.headings = None THEN headings ELSE o.headings
  <2>2. ConfigOf(o, name, headings, parsing) =
          [base EXCEPT
             !.strategy = o.strategy, !.mode = o.mode, !.paragraphMaxDepth = o.depth,
             !.separators = o.separators, !.indexSize = index,
             !.chunkSize = size, !.overlap = overlap, !.maxChunkSize = max,
             !.metaHeadings = show]
    BY <1>2, <1>4 DEF ConfigOf
  <2>3. index \in Nat /\ size \in Maybe(Nat) /\ overlap \in Maybe(Nat) /\ max \in Maybe(Nat)
    BY <2>1 DEF Maybe
  <2>4. show \in BOOLEAN
    BY <2>1 DEF Maybe
  <2>5. o.headings = TRUE => show = TRUE
    BY NoneAssumption
  <2>6. /\ o.index # None => index = o.index
        /\ o.length # None => size = o.length.size /\ overlap = o.length.overlap /\ max = o.length.max
        /\ o.length = None => size = None /\ overlap = None /\ max = None
    OBVIOUS
  <2> HIDE DEF index, size, overlap, max, show
  <2>7. PICK c : c = ConfigOf(o, name, headings, parsing)
    OBVIOUS
  <2>8. c \in Configs
    BY <2>1, <2>2, <2>3, <2>4, <2>7 DEF Configs
  <2>9. /\ c.strategy = o.strategy /\ c.mode = o.mode /\ c.paragraphMaxDepth = o.depth
        /\ c.separators = o.separators /\ c.indexSize = index
        /\ c.chunkSize = size /\ c.overlap = overlap /\ c.maxChunkSize = max
        /\ c.metaHeadings = show
    BY <2>2, <2>7 DEF Configs
  <2> QED
    BY <1>4, <2>1, <2>5, <2>6, <2>7, <2>8, <2>9 DEF MadeFrom
<1> QED
  BY <1>3, <1>4

-----------------------------------------------------------------------------
(* What the runner makes of a config.                                       *)

\* Headings that are put before index texts change nothing else.
LEMMA HeadingsChangeNothing ==
  ASSUME NEW c \in Configs, NEW o, MadeFrom(c, o)
  PROVE  WithHeadings(c) \in Configs /\ MadeFrom(WithHeadings(c), o)
<1>1. PICK h : h = [c EXCEPT !.metaHeadings = TRUE]
  OBVIOUS
<1>2. /\ h \in Configs
      /\ h.strategy = c.strategy /\ h.mode = c.mode /\ h.paragraphMaxDepth = c.paragraphMaxDepth
      /\ h.separators = c.separators /\ h.indexSize = c.indexSize
      /\ h.chunkSize = c.chunkSize /\ h.overlap = c.overlap /\ h.maxChunkSize = c.maxChunkSize
      /\ h.metaHeadings = TRUE
  BY <1>1 DEF Configs
<1>3. MadeFrom(h, o)
  BY <1>2 DEF MadeFrom
<1>4. [ToDict(c) EXCEPT !.metaHeadings = TRUE] = ToDict(h)
  <2>1. \A k \in Fields : h[k] = IF k = "metaHeadings" THEN TRUE ELSE c[k]
    BY <1>1, FieldsOf
  <2>2. "metaHeadings" \in Fields /\ c["metaHeadings"] # None /\ TRUE # None
    BY NoneAssumption DEF Fields, Configs
  <2>3. {k \in Fields : h[k] # None} = {k \in Fields : c[k] # None}
    BY <2>1, <2>2
  <2>4. PICK S : S = {k \in Fields : c[k] # None}
    OBVIOUS
  <2>5. S \subseteq Fields /\ "metaHeadings" \in S
    BY <2>2, <2>4
  <2>6. ToDict(c) = [k \in S |-> c[k]] /\ ToDict(h) = [k \in S |-> h[k]]
    BY <1>2, <2>3, <2>4, FieldsOf DEF ToDict, Restrict
  <2>7. [ToDict(c) EXCEPT !.metaHeadings = TRUE] =
          [k \in S |-> IF k = "metaHeadings" THEN TRUE ELSE c[k]]
    BY <2>5, <2>6
  <2> QED
    BY <2>1, <2>5, <2>6, <2>7
<1>5. FromDict([ToDict(c) EXCEPT !.metaHeadings = TRUE]) = h
  BY <1>2, <1>4, RoundTrip
<1>6. WithHeadings(c) = h \/ WithHeadings(c) = c
  BY <1>5 DEF WithHeadings
<1> QED
  BY <1>2, <1>3, <1>6

\* What options name can be carried out, unless there is an empty separator.
LEMMA ValidSplits ==
  ASSUME NEW c \in Configs, NEW o, MadeFrom(c, o), ~Splits(c)
  PROVE  o = None \/ o.separators = "withEmpty"
<1> SUFFICES ASSUME o # None PROVE o.separators = "withEmpty"
  OBVIOUS
<1>1. /\ o \in Options /\ IsValid(o) /\ c.strategy = o.strategy /\ c.mode = o.mode
      /\ c.separators = o.separators
  BY OptionsAssumption DEF MadeFrom
<1>2. /\ o.strategy \in Strategies /\ o.mode \in Maybe(Modes) /\ o.separators \in Maybe(Separators)
  BY <1>1 DEF Options
<1>3. o.strategy = "custom"
  BY <1>1, <1>2 DEF IsValid, Splits, Strategies
<1>4. o.mode # None /\ (o.mode = "separator" => o.separators # None)
  BY <1>1, <1>3, NoneAssumption DEF IsValid, Modes
<1> QED
  BY <1>1, <1>2, <1>3, <1>4 DEF Splits, Maybe, Modes, Separators

\* The overlap is below the size.
LEMMA OverlapFits ==
  ASSUME NEW c \in Configs, NEW o, MadeFrom(c, o)
  PROVE  SplitOverlap(c) < SplitSize(c)
<1>1. CASE o = None
  BY <1>1, NoneAssumption DEF MadeFrom, SplitOverlap, SplitSize, OrElse, RagChunkSize, RagOverlap, Modes
<1>2. CASE o # None
  <2>1. /\ o \in Options /\ IsValid(o) /\ c.strategy = o.strategy /\ c.mode = o.mode
        /\ o.length # None =>
             /\ c.chunkSize = o.length.size /\ c.overlap = o.length.overlap
             /\ c.maxChunkSize = o.length.max
        /\ o.length = None => c.chunkSize = None /\ c.overlap = None /\ c.maxChunkSize = None
    BY <1>2, OptionsAssumption DEF MadeFrom
  <2>2. CASE o.length = None
    <3>1. ~(c.strategy = "custom" /\ c.mode = "length")
      BY <2>1, <2>2, NoneAssumption DEF IsValid, Modes
    <3> QED
      BY <2>1, <2>2, <3>1 DEF SplitOverlap, SplitSize, OrElse, RagChunkSize, RagOverlap
  <2>3. CASE o.length # None
    <3>1. o.length \in [size : Nat, overlap : Nat, max : Nat]
      BY <2>1, <2>3, OptionsAssumption DEF Options, Maybe
    <3>2. /\ o.length.size > 0 /\ o.length.max > 0
          /\ o.length.overlap < o.length.size /\ o.length.size <= o.length.max
      BY <2>1, <2>3 DEF IsValid, LengthIsValid
    <3>3. /\ o.length.size \in Nat /\ o.length.overlap \in Nat /\ o.length.max \in Nat
          /\ o.length.size # None /\ o.length.overlap # None /\ o.length.max # None
      BY <3>1, NoneAssumption
    <3> QED
      BY <2>1, <2>3, <3>2, <3>3 DEF SplitOverlap, SplitSize, OrElse
  <2> QED
    BY <2>2, <2>3
<1> QED
  BY <1>1, <1>2

-----------------------------------------------------------------------------
(* Jobs.                                                                    *)

Rows == {ToDict(c) : c \in Configs}
JobStatuses == {"queued", "split", "failed", "cancelled"}
JobRows ==
  [retryOf : Nat, config : Rows, sent : Maybe(Sent), repeats : BOOLEAN,
   status : JobStatuses, used : Maybe(Configs), refused : BOOLEAN]

\* A job runs with what its row says, and its row with what was asked for.
Carried(job) ==
  /\ MadeFrom(FromDict(job.config), job.sent)
  /\ job.status = "queued" => job.used = None /\ job.refused = FALSE
  /\ job.status # "queued" => job.used = WithHeadings(FromDict(job.config))
  /\ job.refused => ~Splits(job.used)

\* A retry comes after the job it repeats, which has run.
Repeated(js, j) ==
  /\ js[j].retryOf < j
  /\ js[j].repeats =>
       /\ js[j].retryOf > 0
       /\ js[j].config = js[js[j].retryOf].config /\ js[js[j].retryOf].status # "queued"

OptionsInv ==
  /\ file \in FileKinds /\ left \in BOOLEAN /\ jobs \in Seq(JobRows)
  /\ \A j \in 1 .. Len(jobs) : Carried(jobs[j]) /\ Repeated(jobs, j)

LEMMA RowFacts ==
  ASSUME NEW row \in Rows
  PROVE  FromDict(row) \in Configs /\ ToDict(FromDict(row)) = row
<1>1. PICK c \in Configs : row = ToDict(c)
  BY DEF Rows
<1> QED
  BY <1>1, RoundTrip

LEMMA OptionsBegin == OptionsInit => OptionsInv
<1> SUFFICES ASSUME OptionsInit PROVE OptionsInv
  OBVIOUS
<1>1. jobs = <<>> /\ jobs \in Seq(JobRows) /\ Len(jobs) = 0
  BY DEF OptionsInit
<1>2. 1 .. Len(jobs) = {}
  BY <1>1
<1>3. file \in FileKinds /\ left \in BOOLEAN
  BY DEF OptionsInit
<1> QED
  BY <1>1, <1>2, <1>3 DEF OptionsInv

\* A job is made.
LEMMA InsertStep ==
  ASSUME OptionsInv, NEW retryOf \in 0 .. Len(jobs), NEW c \in Configs, NEW o \in Maybe(Sent),
         NEW repeats \in BOOLEAN, MadeFrom(c, o), InsertConfig(retryOf, c, o, repeats),
         repeats => /\ retryOf > 0 /\ ToDict(c) = jobs[retryOf].config
                    /\ jobs[retryOf].status # "queued",
         file' = file, left' \in BOOLEAN
  PROVE  OptionsInv'
<1> DEFINE job == [retryOf |-> retryOf, config |-> ToDict(c), sent |-> o, repeats |-> repeats,
                   status |-> "queued", used |-> None, refused |-> FALSE]
<1>1. jobs' = Append(jobs, job)
  BY DEF InsertConfig
<1>2. jobs \in Seq(JobRows) /\ Len(jobs) \in Nat
  BY DEF OptionsInv
<1>3. job \in JobRows
  BY <1>2 DEF JobRows, Rows, JobStatuses, Maybe
<1>4. /\ job.retryOf = retryOf /\ job.config = ToDict(c) /\ job.sent = o /\ job.repeats = repeats
      /\ job.status = "queued" /\ job.used = None /\ job.refused = FALSE
  OBVIOUS
<1> HIDE DEF job
<1>5. /\ jobs' \in Seq(JobRows) /\ Len(jobs') = Len(jobs) + 1 /\ jobs'[Len(jobs) + 1] = job
      /\ \A j \in 1 .. Len(jobs) : jobs'[j] = jobs[j]
  BY <1>1, <1>2, <1>3
<1>6. Carried(job)'
  BY <1>4, RoundTrip DEF Carried
<1>7. ASSUME NEW j \in 1 .. Len(jobs') PROVE Carried(jobs[j])' /\ Repeated(jobs, j)'
  <2>1. CASE j = Len(jobs) + 1
    <3>1. Repeated(jobs', j)
      BY <1>2, <1>4, <1>5, <2>1 DEF Repeated
    <3> QED
      BY <1>5, <1>6, <2>1, <3>1
  <2>2. CASE j # Len(jobs) + 1
    <3>1. j \in 1 .. Len(jobs)
      BY <1>2, <1>5, <2>2
    <3>2. Carried(jobs[j]) /\ Repeated(jobs, j) /\ jobs[j] \in JobRows
      BY <1>2, <3>1 DEF OptionsInv
    <3>3. jobs[j].retryOf \in Nat
      BY <3>2 DEF JobRows
    <3>4. Repeated(jobs', j)
      BY <1>2, <1>5, <3>1, <3>2, <3>3 DEF Repeated
    <3>5. Carried(jobs[j])'
      BY <1>5, <3>1, <3>2 DEF Carried, WithHeadings
    <3> QED
      BY <3>4, <3>5
  <2> QED
    BY <2>1, <2>2
<1> QED
  BY <1>5, <1>7 DEF OptionsInv

LEMMA PostImportStep ==
  ASSUME OptionsInv, NEW o \in Maybe(Sent), NEW name \in Names, NEW headings \in BOOLEAN,
         NEW parsing \in Maybe(SentParsings), PostImport(o, name, headings, parsing)
  PROVE  OptionsInv'
<1>1. /\ o # None => IsValid(o)
      /\ InsertConfig(0, ConfigOf(o, name, headings, parsing), o, FALSE)
      /\ file' = file /\ left' = left
  BY DEF PostImport
<1>2. PICK c \in Configs : c = ConfigOf(o, name, headings, parsing) /\ MadeFrom(c, o)
  BY <1>1, ConfigIsMade
<1>3. left' \in BOOLEAN /\ 0 \in 0 .. Len(jobs)
  BY <1>1 DEF OptionsInv
<1> QED
  BY <1>1, <1>2, <1>3, InsertStep

LEMMA PostWebStep ==
  ASSUME OptionsInv, NEW o \in Maybe(Sent), NEW name \in Names,
         NEW parsing \in Maybe(SentParsings), PostWeb(o, name, parsing)
  PROVE  OptionsInv'
<1>1. (o # None => IsValid(o)) /\ file' = file
  BY DEF PostWeb
<1>2. CASE left' = TRUE /\ UNCHANGED jobs
  BY <1>1, <1>2 DEF OptionsInv, Carried, WithHeadings, Repeated
<1>3. CASE InsertConfig(0, ConfigOf(o, name, o = None, parsing), o, FALSE) /\ UNCHANGED left
  <2>1. (o = None) \in BOOLEAN
    OBVIOUS
  <2>2. PICK c \in Configs : c = ConfigOf(o, name, o = None, parsing) /\ MadeFrom(c, o)
    BY <1>1, <2>1, ConfigIsMade
  <2>3. left' \in BOOLEAN /\ 0 \in 0 .. Len(jobs)
    BY <1>3 DEF OptionsInv
  <2> QED
    BY <1>1, <1>3, <2>2, <2>3, InsertStep
<1> QED
  BY <1>2, <1>3 DEF PostWeb

LEMMA PostRetryStep ==
  ASSUME OptionsInv, NEW o \in Maybe(Sent), NEW name \in Maybe(Names),
         NEW headings \in Maybe(BOOLEAN), NEW parsing \in Maybe(SentParsings),
         PostRetry(o, name, headings, parsing)
  PROVE  OptionsInv'
<1>1. (o # None => IsValid(o)) /\ file' = file /\ left' = left
  BY DEF PostRetry
<1>2. PICK j \in 1 .. Len(jobs) :
        /\ jobs[j].status \in {"failed", "cancelled"}
        /\ IF o = None /\ parsing = None
           THEN InsertConfig(j, FromDict(jobs[j].config), jobs[j].sent, TRUE)
           ELSE /\ o = None => name # "whole"
                /\ InsertConfig(j, ConfigOf(o, OrElse(name, "default"), OrElse(headings, FALSE),
                                            parsing), o, FALSE)
  BY DEF PostRetry
<1>3. /\ jobs[j] \in JobRows /\ Carried(jobs[j]) /\ left' \in BOOLEAN
      /\ j \in 0 .. Len(jobs) /\ j > 0
  BY <1>1 DEF OptionsInv
<1>4. CASE o = None /\ parsing = None
  <2>1. jobs[j].config \in Rows /\ jobs[j].sent \in Maybe(Sent)
    BY <1>3 DEF JobRows
  <2>2. PICK c \in Configs : c = FromDict(jobs[j].config) /\ ToDict(c) = jobs[j].config
    BY <2>1, RowFacts
  <2>3. MadeFrom(c, jobs[j].sent)
    BY <1>3, <2>2 DEF Carried
  <2>4. InsertConfig(j, c, jobs[j].sent, TRUE) /\ jobs[j].status # "queued"
    BY <1>2, <1>4, <2>2
  <2> QED
    BY <1>1, <1>3, <2>1, <2>2, <2>3, <2>4, InsertStep
<1>5. CASE ~(o = None /\ parsing = None)
  <2>1. OrElse(name, "default") \in Names \cup {"default"} /\ OrElse(headings, FALSE) \in BOOLEAN
    BY DEF OrElse, Maybe
  <2>2. PICK c \in Configs :
          /\ c = ConfigOf(o, OrElse(name, "default"), OrElse(headings, FALSE), parsing)
          /\ MadeFrom(c, o)
    BY <1>1, <2>1, ConfigIsMade
  <2> QED
    BY <1>1, <1>2, <1>3, <1>5, <2>2, InsertStep
<1> QED
  BY <1>4, <1>5

LEMMA RunConfigStep ==
  ASSUME OptionsInv, NEW j \in 1 .. Len(jobs), RunConfig(j)
  PROVE  OptionsInv'
<1>1. PICK config : config = WithHeadings(FromDict(jobs[j].config))
  OBVIOUS
<1>2. PICK ended \in {"split", "failed", "cancelled"}, refused \in BOOLEAN :
        /\ refused => ~Splits(config)
        /\ jobs' = [jobs EXCEPT ![j].used = config, ![j].status = ended, ![j].refused = refused]
        /\ file' = file /\ left' = left
  BY <1>1 DEF RunConfig
<1>3. /\ jobs \in Seq(JobRows) /\ Len(jobs) \in Nat /\ jobs[j] \in JobRows /\ Carried(jobs[j])
      /\ Repeated(jobs, j)
  BY DEF OptionsInv
<1>4. config \in Configs
  BY <1>1, <1>3, RowFacts, HeadingsChangeNothing DEF Carried, JobRows
<1>5. PICK job : job = [jobs[j] EXCEPT !.used = config, !.status = ended, !.refused = refused]
  OBVIOUS
<1>6. /\ job \in JobRows
      /\ job.retryOf = jobs[j].retryOf /\ job.config = jobs[j].config /\ job.sent = jobs[j].sent
      /\ job.repeats = jobs[j].repeats
      /\ job.used = config /\ job.status = ended /\ job.refused = refused
  BY <1>3, <1>4, <1>5 DEF JobRows, JobStatuses, Maybe
<1>7. jobs' = [jobs EXCEPT ![j] = job]
  BY <1>2, <1>3, <1>5
<1>8. /\ jobs' \in Seq(JobRows) /\ Len(jobs') = Len(jobs) /\ jobs'[j] = job
      /\ \A k \in 1 .. Len(jobs) : k # j => jobs'[k] = jobs[k]
  BY <1>3, <1>6, <1>7
<1>9. \A k \in 1 .. Len(jobs) :
        /\ jobs'[k].retryOf = jobs[k].retryOf /\ jobs'[k].config = jobs[k].config
        /\ jobs'[k].repeats = jobs[k].repeats
        /\ jobs[k].status # "queued" => jobs'[k].status # "queued"
  BY <1>2, <1>6, <1>8
<1>10. Carried(jobs[j])'
  BY <1>1, <1>2, <1>3, <1>6, <1>8 DEF Carried, WithHeadings
<1>11. ASSUME NEW k \in 1 .. Len(jobs') PROVE Carried(jobs[k])' /\ Repeated(jobs, k)'
  <2>0. k \in 1 .. Len(jobs)
    BY <1>8
  <2>1. Carried(jobs[k]) /\ Repeated(jobs, k) /\ jobs[k].retryOf \in Nat
    <3>1. Carried(jobs[k]) /\ Repeated(jobs, k)
      BY <2>0 DEF OptionsInv
    <3>2. jobs[k] \in JobRows
      BY <1>3, <2>0
    <3> QED
      BY <3>1, <3>2 DEF JobRows
  <2>2. Carried(jobs[k])'
    <3>1. CASE k = j
      BY <1>10, <3>1
    <3>2. CASE k # j
      BY <1>2, <1>8, <2>0, <2>1, <3>2 DEF Carried, WithHeadings
    <3> QED
      BY <3>1, <3>2
  <2>3. Repeated(jobs', k)
    BY <1>3, <1>9, <2>0, <2>1 DEF Repeated
  <2> QED
    BY <2>2, <2>3
<1> QED
  BY <1>2, <1>8, <1>11 DEF OptionsInv

LEMMA OptionsSteps == OptionsInv /\ [OptionsNext]_optionVars => OptionsInv'
<1> SUFFICES ASSUME OptionsInv, [OptionsNext]_optionVars PROVE OptionsInv'
  OBVIOUS
<1>1. ASSUME NEW o \in Maybe(Sent), NEW name \in Names, NEW parsing \in Maybe(SentParsings),
             NEW headings \in BOOLEAN, PostImport(o, name, headings, parsing)
      PROVE  OptionsInv'
  BY <1>1, PostImportStep
<1>2. ASSUME NEW o \in Maybe(Sent), NEW name \in Names, NEW parsing \in Maybe(SentParsings),
             PostWeb(o, name, parsing)
      PROVE  OptionsInv'
  BY <1>2, PostWebStep
<1>3. ASSUME NEW o \in Maybe(Sent), NEW name \in Maybe(Names), NEW headings \in Maybe(BOOLEAN),
             NEW parsing \in Maybe(SentParsings), PostRetry(o, name, headings, parsing)
      PROVE  OptionsInv'
  BY <1>3, PostRetryStep
<1>4. ASSUME NEW j \in 1 .. Len(jobs), RunConfig(j)
      PROVE  OptionsInv'
  BY <1>4, RunConfigStep
<1>5. CASE UNCHANGED optionVars
  BY <1>5 DEF optionVars, OptionsInv, Carried, WithHeadings, Repeated
<1> QED
  BY <1>1, <1>2, <1>3, <1>4, <1>5 DEF OptionsNext

\* What the invariant says of what jobs ran with.
LEMMA OptionsKept == OptionsInv => OptionsAreCarriedOut /\ OptionsTypeOK
<1> SUFFICES ASSUME OptionsInv PROVE OptionsAreCarriedOut /\ OptionsTypeOK
  OBVIOUS
<1>1. ASSUME NEW j \in 1 .. Len(jobs)
      PROVE  /\ jobs[j] \in JobRows /\ Carried(jobs[j]) /\ Repeated(jobs, j)
             /\ jobs[j].config \in Rows /\ FromDict(jobs[j].config) \in Configs
             /\ jobs[j].used # None =>
                  /\ jobs[j].status # "queued" /\ jobs[j].used \in Configs
                  /\ MadeFrom(jobs[j].used, jobs[j].sent)
  <2>1. jobs[j] \in JobRows /\ Carried(jobs[j]) /\ Repeated(jobs, j)
    BY DEF OptionsInv
  <2>2. jobs[j].config \in Rows
    BY <2>1 DEF JobRows
  <2>3. FromDict(jobs[j].config) \in Configs
    BY <2>2, RowFacts
  <2>4. ASSUME jobs[j].used # None
        PROVE  /\ jobs[j].status # "queued" /\ jobs[j].used \in Configs
               /\ MadeFrom(jobs[j].used, jobs[j].sent)
    BY <2>1, <2>3, <2>4, HeadingsChangeNothing DEF Carried
  <2> QED
    BY <2>1, <2>2, <2>3, <2>4
<1>2. ValidOptionsSplit
  <2>1. ASSUME NEW j \in 1 .. Len(jobs), jobs[j].refused
        PROVE  jobs[j].sent = None \/ jobs[j].sent.separators = "withEmpty"
    <3>1. jobs[j].status # "queued" /\ ~Splits(jobs[j].used)
      BY <1>1, <2>1 DEF Carried
    <3>2. jobs[j].used \in Configs /\ MadeFrom(jobs[j].used, jobs[j].sent)
      BY <1>1, <3>1, HeadingsChangeNothing DEF Carried
    <3> QED
      BY <3>1, <3>2, ValidSplits
  <2> QED
    BY <2>1 DEF ValidOptionsSplit
<1>3. OverlapBelowSize
  BY <1>1, OverlapFits DEF OverlapBelowSize
<1>4. RetrySplitsAlike
  <2>1. ASSUME NEW j \in 1 .. Len(jobs), jobs[j].repeats, jobs[j].used # None
        PROVE  jobs[j].used = jobs[jobs[j].retryOf].used
    <3>1. /\ jobs[j].retryOf \in 1 .. Len(jobs) /\ jobs[j].config = jobs[jobs[j].retryOf].config
          /\ jobs[jobs[j].retryOf].status # "queued"
      BY <1>1, <2>1 DEF Repeated, JobRows, OptionsInv
    <3>2. jobs[j].used = WithHeadings(FromDict(jobs[j].config))
      BY <1>1, <2>1 DEF Carried
    <3>3. jobs[jobs[j].retryOf].used = WithHeadings(FromDict(jobs[jobs[j].retryOf].config))
      BY <1>1, <3>1 DEF Carried
    <3> QED
      BY <3>1, <3>2, <3>3
  <2> QED
    BY <2>1 DEF RetrySplitsAlike
<1>5. RunsAsAsked
  <2>1. ASSUME NEW j \in 1 .. Len(jobs), jobs[j].sent # None, jobs[j].used # None
        PROVE  MadeFrom(jobs[j].used, jobs[j].sent)
    BY <1>1, <2>1
  <2> QED
    BY <2>1 DEF RunsAsAsked, MadeFrom
<1>6. OptionsTypeOK
  <2>1. ASSUME NEW j \in 1 .. Len(jobs)
        PROVE  /\ jobs[j].retryOf \in 0 .. j - 1 /\ jobs[j].sent \in Maybe(Sent)
               /\ jobs[j].status \in {"queued", "split", "failed", "cancelled"}
    BY <1>1 DEF Repeated, JobRows, JobStatuses, OptionsInv
  <2>2. ASSUME NEW j \in 1 .. Len(jobs)
        PROVE  DOMAIN jobs[j].config \subseteq DOMAIN Default /\ None \notin Range(jobs[j].config)
    <3>1. PICK c \in Configs : jobs[j].config = ToDict(c)
      BY <1>1 DEF Rows
    <3>2. jobs[j].config = [k \in {k \in Fields : c[k] # None} |-> c[k]]
      BY <3>1, FieldsOf DEF ToDict, Restrict
    <3>3. DOMAIN Default = Fields
      BY FieldsOf
    <3> QED
      BY <3>2, <3>3 DEF Range
  <2> QED
    BY <2>1, <2>2 DEF OptionsTypeOK, OptionsInv
<1> QED
  BY <1>2, <1>3, <1>4, <1>5, <1>6 DEF OptionsAreCarriedOut

-----------------------------------------------------------------------------
(* The pictures of documents (KbImages).                                    *)

Imports ==
  [pc : {"none", "ingest", "store"}, at : Nat \ {0},
   saved : SUBSET [ref : Locals, key : Keys], names : SUBSET Keys]
Deletes ==
  [pc : {"none", "check", "collect", "bytes", "pictures", "row"},
   ids : Seq(Documents), held : SUBSET Keys]

ImagesTypes ==
  /\ refs \in [Documents -> Seq(Locals \cup Keys)]
  /\ status \in [Documents -> {"none", "indexing", "free"}]
  /\ there \subseteq Documents /\ store \subseteq 1 .. Len(savers)
  /\ shows \in [Documents -> SUBSET Keys] /\ run \in [Documents -> Imports]
  /\ del \in Deletes /\ (del.pc = "none" <=> del.ids = <<>>)
  /\ runs \in 0 .. MaxRuns /\ halts \in 0 .. MaxHalts
  /\ savers \in Seq(Documents) /\ Len(savers) <= MaxKeys
  /\ imported \subseteq Documents /\ disturbed \subseteq Documents

\* The keys a document saved or names.
Mine(f) ==
  {k \in 1 .. Len(savers) : savers[k] = f \/ \E n \in 1 .. Len(refs[f]) : refs[f][n] = k}

\* What a document shows is its own, or was when it was deleted.
OwnedBy(f) ==
  /\ refs[f] = <<>> => f \notin there \cup imported /\ \A k \in 1 .. Len(savers) : savers[k] # f
  /\ \A n \in 1 .. Len(refs[f]) : refs[f][n] \in Locals \cup 1 .. Len(savers)
  /\ shows[f] \subseteq Mine(f) /\ run[f].names \subseteq Mine(f)
  /\ \A p \in run[f].saved : p.key \in 1 .. Len(savers) /\ savers[p.key] = f

\* So is what a deletion unlinks, whose document's bytes are gone by then.
Handed ==
  /\ del.pc # "none" => del.held \subseteq Mine(Head(del.ids))
  /\ del.pc \notin {"bytes", "pictures"} => del.held = {}
  /\ del.pc = "pictures" => Head(del.ids) \notin there

\* A picture that is gone was that of a document whose bytes are.
Unlinked == \A k \in (1 .. Len(savers)) \ store : \E g \in Documents \ there : k \in Mine(g)

Owned == (\A f \in Documents : OwnedBy(f)) /\ Handed /\ Unlinked

\* Of a document that nothing disturbed, what was saved for it and is on disk is with its
\* import, in its rows or in the hands of its deletion.
Accounted ==
  \A f \in Documents \ disturbed :
    /\ f \notin imported => SavedFor(f) = {} /\ ~Importing(f)
    /\ Importing(f) => /\ status[f] = "indexing" /\ SavedFor(f) \subseteq run[f].names
                       /\ Deleting(f) => del.pc = "check"
    /\ ~Importing(f) => SavedFor(f) \cap store \subseteq shows[f]
    /\ ~Exists(f) => SavedFor(f) \cap store = {}
    /\ Deleting(f) =>
         /\ del.pc \in {"bytes", "pictures"} => SavedFor(f) \cap store \subseteq del.held
         /\ del.pc = "row" => SavedFor(f) \cap store = {}

ImagesInv == ImagesTypes /\ Owned /\ Accounted /\ SavedOnce

-----------------------------------------------------------------------------
LEMMA ImageFacts ==
  ASSUME ImagesTypes
  PROVE  /\ NoImport \in Imports /\ NoDelete \in Deletes
         /\ MaxKeys \in Nat /\ Len(savers) \in Nat /\ 1 .. Len(savers) \subseteq Keys
         /\ \A k \in 1 .. Len(savers) : savers[k] \in Documents
         /\ \A f \in Documents :
              /\ run[f] \in Imports /\ refs[f] \in Seq(Locals \cup Keys) /\ Len(refs[f]) \in Nat
              /\ SavedFor(f) \subseteq Mine(f) /\ Mine(f) \subseteq 1 .. Len(savers)
              /\ shows[f] \subseteq Keys /\ status[f] \in {"none", "indexing", "free"}
         /\ del.ids \in Seq(Documents) /\ del.held \subseteq Keys
         /\ del.pc # "none" => Head(del.ids) \in Documents /\ Len(del.ids) \in Nat \ {0}
<1>1. NoImport \in Imports
  BY DEF NoImport, Imports
<1>2. NoDelete \in Deletes
  <2>1. <<>> \in Seq(Documents)
    OBVIOUS
  <2> QED
    BY <2>1 DEF NoDelete, Deletes
<1>3. MaxKeys \in Nat /\ Len(savers) \in Nat /\ 1 .. Len(savers) \subseteq Keys
  BY KbImagesAssumption DEF ImagesTypes, Keys
<1>4. \A k \in 1 .. Len(savers) : savers[k] \in Documents
  BY DEF ImagesTypes
<1>5. \A f \in Documents : SavedFor(f) \subseteq Mine(f) /\ Mine(f) \subseteq 1 .. Len(savers)
  BY DEF SavedFor, Mine
<1>6. \A f \in Documents :
        /\ run[f] \in Imports /\ refs[f] \in Seq(Locals \cup Keys) /\ Len(refs[f]) \in Nat
        /\ shows[f] \subseteq Keys /\ status[f] \in {"none", "indexing", "free"}
  BY DEF ImagesTypes
<1>7. del.ids \in Seq(Documents) /\ del.held \subseteq Keys
  BY DEF ImagesTypes, Deletes
<1>8. del.pc # "none" => Head(del.ids) \in Documents /\ Len(del.ids) \in Nat \ {0}
  BY <1>7 DEF ImagesTypes
<1> QED
  BY <1>1, <1>2, <1>3, <1>4, <1>5, <1>6, <1>7, <1>8

LEMMA ImagesBegin == ImagesIdle => ImagesInv
<1> SUFFICES ASSUME ImagesIdle PROVE ImagesInv
  OBVIOUS
<1>1. Len(savers) = 0 /\ savers \in Seq(Documents) /\ 1 .. Len(savers) = {} /\ MaxKeys \in Nat
  BY KbImagesAssumption DEF ImagesIdle
<1>2. NoImport \in Imports
  BY DEF NoImport, Imports
<1>3. del \in Deletes /\ del.pc = "none" /\ del.ids = <<>> /\ del.held = {}
  <2>1. <<>> \in Seq(Documents)
    OBVIOUS
  <2> QED
    BY <2>1 DEF ImagesIdle, NoDelete, Deletes
<1>4. refs \in [Documents -> Seq(Locals \cup Keys)] /\ \A f \in Documents : 1 .. Len(refs[f]) = {}
  <2>1. <<>> \in Seq(Locals \cup Keys) /\ 1 .. Len(<<>>) = {}
    OBVIOUS
  <2> QED
    BY <2>1 DEF ImagesIdle
<1>5. \A f \in Documents : /\ shows[f] = {} /\ run[f].names = {} /\ run[f].saved = {}
                           /\ ~Importing(f) /\ status[f] = "none"
  BY DEF ImagesIdle, NoImport, Importing
<1>6. ImagesTypes
  BY <1>1, <1>2, <1>3, <1>4, KbImagesAssumption DEF ImagesIdle, ImagesTypes
<1>7. Owned
  BY <1>1, <1>3, <1>4, <1>5 DEF ImagesIdle, Owned, OwnedBy, Handed, Unlinked
<1>8. Accounted /\ SavedOnce
  BY <1>1, <1>3, <1>5 DEF Accounted, SavedOnce, SavedFor, Deleting
<1> QED
  BY <1>6, <1>7, <1>8 DEF ImagesInv

-----------------------------------------------------------------------------
(* Uploading and importing.                                                 *)

LEMMA UploadStep ==
  ASSUME ImagesInv, NEW f \in Documents, NEW m \in 1 .. MaxRefs,
         NEW text \in [1 .. m -> Locals \cup store], Upload(f, text)
  PROVE  ImagesInv'
<1>1. /\ ImagesTypes /\ Owned /\ Accounted /\ SavedOnce /\ refs[f] = <<>> /\ del = NoDelete
      /\ refs' = [refs EXCEPT ![f] = text] /\ status' = [status EXCEPT ![f] = "free"]
      /\ there' = there \cup {f}
      /\ UNCHANGED <<store, shows, run, del, runs, halts, savers, imported, disturbed>>
  BY DEF ImagesInv, Upload
<1>2. m \in Nat /\ store \subseteq Keys /\ store \subseteq 1 .. Len(savers)
  <2>1. m \in Nat
    BY KbImagesAssumption
  <2>2. store \subseteq 1 .. Len(savers)
    BY <1>1 DEF ImagesTypes
  <2> QED
    BY <1>1, <2>1, <2>2, ImageFacts
<1>3. text \in Seq(Locals \cup Keys) /\ Len(text) = m
  <2>1. text \in [1 .. m -> Locals \cup Keys]
    BY <1>2
  <2> QED
    BY <1>2, <2>1
<1>4. ImagesTypes'
  BY <1>1, <1>3 DEF ImagesTypes
<1>5. \A g \in Documents \ {f} : refs'[g] = refs[g] /\ Mine(g)' = Mine(g) /\ status'[g] = status[g]
  <2>1. \A g \in Documents \ {f} : refs'[g] = refs[g] /\ status'[g] = status[g]
    BY <1>1 DEF ImagesTypes
  <2> QED
    BY <1>1, <2>1 DEF Mine
<1>6. refs'[f] = text /\ status'[f] = "free" /\ Mine(f) = {}
  <2>1. \A k \in 1 .. Len(savers) : savers[k] # f
    BY <1>1 DEF Owned, OwnedBy
  <2>2. 1 .. Len(refs[f]) = {}
    BY <1>1
  <2>3. refs'[f] = text /\ status'[f] = "free"
    BY <1>1 DEF ImagesTypes
  <2> QED
    BY <2>1, <2>2, <2>3 DEF Mine
<1>7. Owned'
  <2>1. ASSUME NEW g \in Documents PROVE OwnedBy(g)'
    <3>1. CASE g # f
      BY <1>1, <1>5, <3>1 DEF Owned, OwnedBy
    <3>2. refs'[f] # <<>>
      BY <1>2, <1>3, <1>6
    <3>3. \A n \in 1 .. Len(refs'[f]) : refs'[f][n] \in Locals \cup 1 .. Len(savers)
      BY <1>2, <1>3, <1>6
    <3>4. shows[f] = {} /\ run[f].names = {} /\ run[f].saved = {}
      BY <1>1, <1>6 DEF Owned, OwnedBy
    <3>5. CASE g = f
      BY <1>1, <3>2, <3>3, <3>4, <3>5 DEF OwnedBy
    <3> QED
      BY <3>1, <3>5
  <2>2. Unlinked'
    BY <1>1, <1>5, <1>6 DEF Owned, Unlinked
  <2>3. Handed'
    BY <1>1 DEF NoDelete, Handed
  <2> QED
    BY <2>1, <2>2, <2>3 DEF Owned
<1>8. Accounted'
  <2>1. \A g \in Documents : SavedFor(g)' = SavedFor(g)
    BY <1>1 DEF SavedFor
  <2>2. SavedFor(f) = {} /\ ~Deleting(f)' /\ Importing(f)' = Importing(f)
    BY <1>1, <1>6, ImageFacts DEF Deleting, NoDelete, Importing
  <2>3. \A g \in Documents : Importing(g)' = Importing(g) /\ Deleting(g)' = Deleting(g)
    BY <1>1 DEF Deleting, Importing
  <2>4. f \notin disturbed => ~Importing(f)
    BY <1>1 DEF Accounted, Owned, OwnedBy
  <2> QED
    BY <1>1, <1>5, <1>6, <2>1, <2>2, <2>3, <2>4 DEF Accounted, Exists
<1>9. SavedOnce'
  BY <1>1 DEF SavedOnce
<1> QED
  BY <1>4, <1>7, <1>8, <1>9 DEF ImagesInv

LEMMA ImportTextStep ==
  ASSUME ImagesInv, NEW f \in Documents, ImportText(f)
  PROVE  ImagesInv'
<1>1. /\ ImagesTypes /\ Owned /\ Accounted /\ SavedOnce
      /\ Exists(f) /\ f \in there /\ ~Importing(f) /\ runs < MaxRuns /\ runs' = runs + 1
      /\ status' = [status EXCEPT ![f] = "indexing"] /\ imported' = imported \cup {f}
      /\ disturbed \subseteq disturbed' /\ disturbed' \subseteq disturbed \cup {f}
      /\ f \in imported \/ Deleting(f) => f \in disturbed'
      /\ UNCHANGED <<refs, there, store, shows, del, halts, savers>>
  BY DEF ImagesInv, ImportText
<1>2. PICK r : r = [NoImport EXCEPT !.pc = "ingest"]
  OBVIOUS
<1>3. r \in Imports /\ r.pc = "ingest" /\ r.saved = {} /\ r.names = {} /\ r.pc # "none"
  BY <1>2 DEF NoImport, Imports
<1>4. run' = [run EXCEPT ![f] = r]
  BY <1>2 DEF ImportText
<1>5. run'[f] = r /\ status'[f] = "indexing" /\ \A g \in Documents \ {f} : run'[g] = run[g] /\ status'[g] = status[g]
  BY <1>1, <1>4 DEF ImagesTypes
<1>6. ImagesTypes'
  BY <1>1, <1>3, <1>4, KbImagesAssumption DEF ImagesTypes
<1>7. \A g \in Documents : Mine(g)' = Mine(g) /\ SavedFor(g)' = SavedFor(g)
  BY <1>1 DEF Mine, SavedFor
<1>8. Owned'
  <2>1. \A g \in Documents : OwnedBy(g)'
    BY <1>1, <1>3, <1>5, <1>7 DEF Owned, OwnedBy
  <2>2. Handed' /\ Unlinked'
    BY <1>1, <1>7, ImageFacts DEF Owned, Handed, Unlinked
  <2> QED
    BY <2>1, <2>2 DEF Owned
<1>9. Accounted'
  BY <1>1, <1>3, <1>5, <1>7 DEF Accounted, Importing, Exists, Deleting
<1>10. SavedOnce'
  BY <1>1, <1>3, <1>5 DEF SavedOnce
<1> QED
  BY <1>6, <1>8, <1>9, <1>10 DEF ImagesInv

\* A reference is rewritten to keys that are the document's own.
LEMMA RewriteStep ==
  ASSUME ImagesInv, NEW f \in Documents, NEW keys \in SUBSET Mine(f), Ingesting(f),
         run' = Rewritten(f, keys),
         UNCHANGED <<refs, status, there, store, shows, del, runs, halts, savers, imported, disturbed>>
  PROVE  ImagesInv'
<1>1. ImagesTypes /\ Owned /\ Accounted /\ SavedOnce
  BY DEF ImagesInv
<1>2. PICK r : r = [run[f] EXCEPT !.at = @ + 1, !.names = @ \cup keys]
  OBVIOUS
<1>3. run[f] \in Imports /\ keys \subseteq Keys
  BY <1>1, ImageFacts
<1>4. /\ r \in Imports /\ r.pc = run[f].pc /\ r.saved = run[f].saved /\ r.names = run[f].names \cup keys
  <2>1. run[f].at + 1 \in Nat \ {0} /\ run[f].names \cup keys \in SUBSET Keys
    BY <1>3 DEF Imports
  <2>2. /\ r.pc = run[f].pc /\ r.saved = run[f].saved /\ r.names = run[f].names \cup keys
        /\ r.at = run[f].at + 1 /\ DOMAIN r = DOMAIN run[f]
    BY <1>2, <1>3 DEF Imports
  <2>3. r \in Imports
    BY <1>2, <1>3, <2>1 DEF Imports
  <2> QED
    BY <2>2, <2>3
<1>5. run' = [run EXCEPT ![f] = r]
  BY <1>1, <1>2 DEF Rewritten, ImagesTypes
<1>6. run'[f] = r /\ \A g \in Documents \ {f} : run'[g] = run[g]
  BY <1>1, <1>5 DEF ImagesTypes
<1>7. ImagesTypes'
  BY <1>1, <1>4, <1>5 DEF ImagesTypes
<1>8. \A g \in Documents : Mine(g)' = Mine(g) /\ SavedFor(g)' = SavedFor(g)
  BY DEF Mine, SavedFor
<1>9. Owned'
  <2>1. \A g \in Documents : OwnedBy(g)'
    BY <1>1, <1>4, <1>6, <1>8 DEF Owned, OwnedBy
  <2>2. Handed' /\ Unlinked'
    BY <1>1, <1>8, ImageFacts DEF Owned, Handed, Unlinked
  <2> QED
    BY <2>1, <2>2 DEF Owned
<1>10. Accounted'
  BY <1>1, <1>4, <1>6, <1>8 DEF Accounted, Importing, Exists, Deleting
<1>11. SavedOnce'
  BY <1>1, <1>4, <1>6 DEF SavedOnce
<1> QED
  BY <1>7, <1>9, <1>10, <1>11 DEF ImagesInv

LEMMA KeepRefStep ==
  ASSUME ImagesInv, NEW f \in Documents, KeepRef(f)
  PROVE  ImagesInv'
<1>1. ImagesTypes /\ Owned /\ run[f] \in Imports /\ Len(refs[f]) \in Nat
  BY ImageFacts DEF ImagesInv
<1>2. run[f].at \in 1 .. Len(refs[f]) /\ Ref(f) = refs[f][run[f].at] /\ Ref(f) \notin Locals
  BY <1>1 DEF KeepRef, Ingesting, Ref, Imports
<1>3. Ref(f) \in Mine(f)
  BY <1>1, <1>2 DEF Owned, OwnedBy, Mine
<1> QED
  BY <1>3, RewriteStep DEF KeepRef

LEMMA RepeatRefStep ==
  ASSUME ImagesInv, NEW f \in Documents, RepeatRef(f)
  PROVE  ImagesInv'
<1>1. ImagesTypes /\ Owned
  BY DEF ImagesInv
<1>2. KeysOf(f, Ref(f)) \subseteq Mine(f)
  BY <1>1 DEF KeysOf, Owned, OwnedBy, Mine
<1> QED
  BY <1>2, RewriteStep DEF RepeatRef

LEMMA SaveRefStep ==
  ASSUME ImagesInv, NEW f \in Documents, SaveRef(f)
  PROVE  ImagesInv'
<1>1. /\ ImagesTypes /\ Owned /\ Accounted /\ SavedOnce /\ Ingesting(f) /\ Importing(f)
      /\ Ref(f) \in Locals /\ KeysOf(f, Ref(f)) = {} /\ Fresh \in Keys
      /\ store' = store \cup {Fresh} /\ savers' = Append(savers, f)
      /\ UNCHANGED <<refs, status, there, shows, del, runs, halts, imported, disturbed>>
  BY DEF ImagesInv, SaveRef, Ingesting, Importing
<1>2. /\ Len(savers) \in Nat /\ Fresh = Len(savers) + 1 /\ Len(savers') = Fresh /\ MaxKeys \in Nat
      /\ 1 .. Len(savers') = (1 .. Len(savers)) \cup {Fresh} /\ Fresh \notin 1 .. Len(savers)
      /\ Fresh \notin store
  <2>1. savers \in Seq(Documents) /\ Len(savers) \in Nat /\ MaxKeys \in Nat
    BY <1>1, KbImagesAssumption DEF ImagesTypes
  <2>2. Fresh = Len(savers) + 1 /\ Len(savers') = Fresh
    BY <1>1, <2>1 DEF Fresh
  <2>3. 1 .. Len(savers') = (1 .. Len(savers)) \cup {Fresh} /\ Fresh \notin 1 .. Len(savers)
    BY <2>1, <2>2
  <2> QED
    BY <1>1, <2>1, <2>2, <2>3 DEF ImagesTypes
<1>3. savers'[Fresh] = f /\ \A k \in 1 .. Len(savers) : savers'[k] = savers[k]
  BY <1>1, <1>2 DEF ImagesTypes
<1>4. PICK p : p = [ref |-> Ref(f), key |-> Fresh]
  OBVIOUS
<1>5. PICK r : r = [run[f] EXCEPT !.at = @ + 1, !.names = @ \cup {Fresh}, !.saved = @ \cup {p}]
  OBVIOUS
<1>6. run[f] \in Imports /\ p \in [ref : Locals, key : Keys] /\ p.ref = Ref(f) /\ p.key = Fresh
  BY <1>1, <1>4, ImageFacts
<1>7. /\ r \in Imports /\ r.pc = run[f].pc /\ r.saved = run[f].saved \cup {p}
      /\ r.names = run[f].names \cup {Fresh}
  <2>1. /\ run[f].at + 1 \in Nat \ {0} /\ run[f].names \cup {Fresh} \in SUBSET Keys
        /\ run[f].saved \cup {p} \in SUBSET [ref : Locals, key : Keys]
    BY <1>1, <1>6 DEF Imports
  <2>2. /\ r.pc = run[f].pc /\ r.saved = run[f].saved \cup {p} /\ r.names = run[f].names \cup {Fresh}
        /\ r.at = run[f].at + 1
    BY <1>5, <1>6 DEF Imports
  <2>3. r \in Imports
    BY <1>5, <1>6, <2>1 DEF Imports
  <2> QED
    BY <2>2, <2>3
<1>8. run' = [run EXCEPT ![f] = r]
  BY <1>1, <1>4, <1>5 DEF SaveRef, Rewritten, ImagesTypes
<1>9. run'[f] = r /\ \A g \in Documents \ {f} : run'[g] = run[g]
  BY <1>1, <1>8 DEF ImagesTypes
<1>10. ImagesTypes'
  <2>1. savers' \in Seq(Documents) /\ Len(savers') <= MaxKeys
    BY <1>1, <1>2 DEF ImagesTypes, Keys
  <2>2. store' \subseteq 1 .. Len(savers')
    BY <1>1, <1>2 DEF ImagesTypes
  <2>3. run' \in [Documents -> Imports]
    BY <1>1, <1>7, <1>8 DEF ImagesTypes
  <2> QED
    BY <1>1, <2>1, <2>2, <2>3 DEF ImagesTypes
<1>11. /\ SavedFor(f)' = SavedFor(f) \cup {Fresh}
       /\ \A g \in Documents \ {f} : SavedFor(g)' = SavedFor(g)
  BY <1>2, <1>3 DEF SavedFor
<1>12. /\ \A g \in Documents : Mine(g) \subseteq Mine(g)'
       /\ Fresh \in Mine(f)'
  BY <1>1, <1>2, <1>3 DEF Mine
<1>13. Owned'
  <2>1. ASSUME NEW g \in Documents PROVE OwnedBy(g)'
    <3>1. run'[g].names \subseteq Mine(g)' /\ shows[g] \subseteq Mine(g)'
      BY <1>1, <1>7, <1>9, <1>12 DEF Owned, OwnedBy
    <3>2. \A q \in run'[g].saved : q.key \in 1 .. Len(savers') /\ savers'[q.key] = g
      BY <1>1, <1>2, <1>3, <1>6, <1>7, <1>9 DEF Owned, OwnedBy
    <3>3. \A n \in 1 .. Len(refs[g]) : refs[g][n] \in Locals \cup 1 .. Len(savers')
      BY <1>1, <1>2 DEF Owned, OwnedBy
    <3>4. refs[f] # <<>>
      BY <1>1, ImageFacts DEF Ingesting, Imports
    <3>5. refs[g] = <<>> => g \notin there \cup imported /\ \A k \in 1 .. Len(savers') : savers'[k] # g
      BY <1>1, <1>2, <1>3, <3>4 DEF Owned, OwnedBy
    <3> QED
      BY <1>1, <3>1, <3>2, <3>3, <3>5 DEF OwnedBy
  <2>2. Handed'
    BY <1>1, <1>12, ImageFacts DEF Owned, Handed
  <2>3. Unlinked'
    BY <1>1, <1>2, <1>12 DEF Owned, Unlinked
  <2> QED
    BY <2>1, <2>2, <2>3 DEF Owned
<1>14. Accounted'
  <2>1. ASSUME NEW g \in Documents \ disturbed, g # f PROVE SavedFor(g)' \cap store' = SavedFor(g) \cap store
    BY <1>1, <1>2, <1>11, <2>1 DEF SavedFor
  <2>2. ~Exists(f) => f \in disturbed
    BY <1>1 DEF Accounted, Exists
  <2> QED
    BY <1>1, <1>7, <1>9, <1>11, <2>1, <2>2 DEF Accounted, Importing, Exists, Deleting
<1>15. SavedOnce'
  <2>1. \A q \in run[f].saved : q.ref # Ref(f)
    BY <1>1 DEF KeysOf
  <2> QED
    BY <1>1, <1>6, <1>7, <1>9, <2>1 DEF SavedOnce
<1> QED
  BY <1>10, <1>13, <1>14, <1>15 DEF ImagesInv

\* The import goes on, or ends, with rows of its own and what it has saved accounted for.
LEMMA RunStep ==
  ASSUME ImagesInv, NEW f \in Documents, NEW r \in Imports, NEW rows \in SUBSET Mine(f),
         NEW s \in {"indexing", "free"},
         Importing(f), r.saved \subseteq run[f].saved, r.names \subseteq run[f].names,
         run' = [run EXCEPT ![f] = r], shows' = [shows EXCEPT ![f] = rows],
         status' = [status EXCEPT ![f] = s],
         f \notin disturbed => \/ r.pc = "none" /\ run[f].names \subseteq rows
                               \/ r.pc # "none" /\ r.names = run[f].names /\ s = status[f],
         UNCHANGED <<refs, there, store, del, runs, halts, savers, imported, disturbed>>
  PROVE  ImagesInv'
<1>1. ImagesTypes /\ Owned /\ Accounted /\ SavedOnce
  BY DEF ImagesInv
<1>2. rows \subseteq Keys /\ SavedFor(f) \subseteq Mine(f)
  BY <1>1, ImageFacts
<1>3. /\ run'[f] = r /\ shows'[f] = rows /\ status'[f] = s
      /\ \A g \in Documents \ {f} : run'[g] = run[g] /\ shows'[g] = shows[g] /\ status'[g] = status[g]
  BY <1>1 DEF ImagesTypes
<1>4. ImagesTypes'
  BY <1>1, <1>2 DEF ImagesTypes
<1>5. \A g \in Documents : Mine(g)' = Mine(g) /\ SavedFor(g)' = SavedFor(g)
  BY DEF Mine, SavedFor
<1>6. Owned'
  <2>1. \A g \in Documents : OwnedBy(g)'
    BY <1>1, <1>3, <1>5 DEF Owned, OwnedBy
  <2>2. Handed' /\ Unlinked'
    BY <1>1, <1>5, ImageFacts DEF Owned, Handed, Unlinked
  <2> QED
    BY <2>1, <2>2 DEF Owned
<1>7. Accounted'
  BY <1>1, <1>3, <1>5 DEF Accounted, Importing, Exists, Deleting
<1>8. SavedOnce'
  BY <1>1, <1>3 DEF SavedOnce
<1> QED
  BY <1>4, <1>6, <1>7, <1>8 DEF ImagesInv

LEMMA ReplaceRowsStep ==
  ASSUME ImagesInv, NEW f \in Documents, ReplaceRows(f)
  PROVE  ImagesInv'
<1>1. ImagesTypes /\ Accounted /\ run[f] \in Imports /\ Importing(f) /\ run[f].pc = "ingest"
  BY ImageFacts DEF ImagesInv, ReplaceRows, Importing
<1>2. PICK r : r = [run[f] EXCEPT !.pc = "store"]
  OBVIOUS
<1>3. r \in Imports /\ r.pc = "store" /\ r.saved = run[f].saved /\ r.names = run[f].names
  BY <1>1, <1>2 DEF Imports
<1>4. PICK s : s = IF Exists(f) THEN status[f] ELSE "free"
  OBVIOUS
<1>5. s \in {"indexing", "free"} /\ (f \notin disturbed => s = status[f])
  BY <1>1, <1>4, ImageFacts DEF Exists, Accounted
<1>6. run' = [run EXCEPT ![f] = r] /\ shows' = [shows EXCEPT ![f] = {}] /\ status' = [status EXCEPT ![f] = s]
  BY <1>1, <1>2, <1>4 DEF ReplaceRows, ImagesTypes
<1>7. /\ {} \in SUBSET Mine(f) /\ r.saved \subseteq run[f].saved /\ r.names \subseteq run[f].names
      /\ f \notin disturbed => r.pc # "none" /\ r.names = run[f].names /\ s = status[f]
  BY <1>3, <1>5
<1>8. UNCHANGED <<refs, there, store, del, runs, halts, savers, imported, disturbed>>
  BY DEF ReplaceRows
<1> QED
  BY <1>1, <1>3, <1>5, <1>6, <1>7, <1>8, RunStep

LEMMA StoreRowsStep ==
  ASSUME ImagesInv, NEW f \in Documents, StoreRows(f)
  PROVE  ImagesInv'
<1>1. ImagesTypes /\ Owned /\ run[f] \in Imports /\ Importing(f) /\ NoImport \in Imports
  BY ImageFacts DEF ImagesInv, StoreRows, Importing
<1>2. run[f].names \in SUBSET Mine(f)
  BY <1>1 DEF Owned, OwnedBy
<1>3. NoImport.saved = {} /\ NoImport.names = {} /\ NoImport.pc = "none"
  BY DEF NoImport
<1> QED
  BY <1>1, <1>2, <1>3, RunStep DEF StoreRows

LEMMA ImportRaisesStep ==
  ASSUME ImagesInv, NEW f \in Documents, ImportRaises(f)
  PROVE  ImagesInv'
<1>1. /\ ImagesTypes /\ Owned /\ Accounted /\ SavedOnce /\ NoImport \in Imports
      /\ run' = [run EXCEPT ![f] = NoImport] /\ disturbed' = disturbed \cup {f}
      /\ UNCHANGED <<refs, there, store, shows, del, runs, halts, savers, imported>>
  BY ImageFacts DEF ImagesInv, ImportRaises
<1>2. NoImport.saved = {} /\ NoImport.names = {} /\ NoImport.pc = "none"
  BY DEF NoImport
<1>3. /\ run'[f] = NoImport
      /\ \A g \in Documents \ {f} : run'[g] = run[g] /\ status'[g] = status[g]
      /\ status' \in [Documents -> {"none", "indexing", "free"}]
  BY <1>1 DEF ImagesTypes, ImportRaises
<1>4. ImagesTypes'
  BY <1>1, <1>3 DEF ImagesTypes
<1>5. \A g \in Documents : Mine(g)' = Mine(g) /\ SavedFor(g)' = SavedFor(g)
  BY <1>1 DEF Mine, SavedFor
<1>6. Owned'
  <2>1. \A g \in Documents : OwnedBy(g)'
    BY <1>1, <1>2, <1>3, <1>5 DEF Owned, OwnedBy
  <2>2. Handed' /\ Unlinked'
    BY <1>1, <1>5, ImageFacts DEF Owned, Handed, Unlinked
  <2> QED
    BY <2>1, <2>2 DEF Owned
<1>7. Accounted'
  BY <1>1, <1>3, <1>5 DEF Accounted, Importing, Exists, Deleting
<1>8. SavedOnce'
  BY <1>1, <1>2, <1>3 DEF SavedOnce
<1> QED
  BY <1>4, <1>6, <1>7, <1>8 DEF ImagesInv

-----------------------------------------------------------------------------
(* Deleting.                                                                *)

\* The deletion goes on, and what it holds is right.
LEMMA DeleteStep ==
  ASSUME ImagesInv, NEW d \in Deletes, d.pc = "none" <=> d.ids = <<>>, del' = d,
         d.pc # "none" => d.held \subseteq Mine(Head(d.ids)),
         d.pc \notin {"bytes", "pictures"} => d.held = {},
         d.pc = "pictures" => Head(d.ids) \notin there,
         d.pc \notin {"none", "check"} => ~Importing(Head(d.ids)) \/ Head(d.ids) \in disturbed',
         d.pc \in {"bytes", "pictures"} =>
           \/ SavedFor(Head(d.ids)) \cap store \subseteq d.held
           \/ Head(d.ids) \in disturbed',
         d.pc # "row",
         disturbed \subseteq disturbed', disturbed' \subseteq Documents, halts' \in 0 .. MaxHalts,
         UNCHANGED <<refs, status, there, store, shows, run, runs, savers, imported>>
  PROVE  ImagesInv'
<1>1. ImagesTypes /\ Owned /\ Accounted /\ SavedOnce
  BY DEF ImagesInv
<1>2. d.pc # "none" => Head(d.ids) \in Documents
  BY DEF Deletes
<1>3. ImagesTypes'
  BY <1>1 DEF ImagesTypes
<1>4. \A g \in Documents : Mine(g)' = Mine(g) /\ SavedFor(g)' = SavedFor(g)
  BY DEF Mine, SavedFor
<1>5. Owned'
  <2>1. \A g \in Documents : OwnedBy(g)'
    BY <1>1, <1>4 DEF Owned, OwnedBy
  <2>2. Handed' /\ Unlinked'
    BY <1>1, <1>2, <1>4 DEF Owned, Handed, Unlinked
  <2> QED
    BY <2>1, <2>2 DEF Owned
<1>6. Accounted'
  <2>1. ASSUME NEW g \in Documents \ disturbed', d.pc # "none", Head(d.ids) = g
        PROVE  /\ Importing(g) => d.pc = "check"
               /\ d.pc \in {"bytes", "pictures"} => SavedFor(g) \cap store \subseteq d.held
    BY <2>1
  <2>2. ASSUME NEW g \in Documents \ disturbed'
        PROVE  /\ g \notin imported => SavedFor(g) = {} /\ ~Importing(g)
               /\ Importing(g) => status[g] = "indexing" /\ SavedFor(g) \subseteq run[g].names
               /\ ~Importing(g) => SavedFor(g) \cap store \subseteq shows[g]
               /\ ~Exists(g) => SavedFor(g) \cap store = {}
    BY <1>1 DEF Accounted
  <2>3. \A g \in Documents : Importing(g)' = Importing(g) /\ Exists(g)' = Exists(g)
    BY DEF Importing, Exists
  <2> QED
    BY <1>4, <2>1, <2>2, <2>3 DEF Accounted, Deleting
<1>7. SavedOnce'
  BY <1>1 DEF SavedOnce
<1> QED
  BY <1>3, <1>5, <1>6, <1>7 DEF ImagesInv

LEMMA NextIds ==
  ASSUME ImagesInv, del.pc # "none"
  PROVE  /\ AfterHead \in Deletes /\ AfterHead.pc \in {"none", "check"} /\ AfterHead.held = {}
         /\ AfterHead.pc = "none" <=> AfterHead.ids = <<>>
<1>1. ImagesTypes /\ NoDelete \in Deletes
  BY ImageFacts DEF ImagesInv
<1>2. CASE Len(del.ids) = 1
  BY <1>1, <1>2 DEF AfterHead, NoDelete
<1>3. CASE Len(del.ids) # 1
  <2>1. del.ids \in Seq(Documents) /\ Len(del.ids) \in Nat \ {0}
    BY <1>1, ImageFacts
  <2>2. Tail(del.ids) \in Seq(Documents) /\ Tail(del.ids) # <<>>
    <3>1. del.ids # <<>> /\ Len(del.ids) - 1 # 0
      BY <1>3, <2>1
    <3>2. Tail(del.ids) \in Seq(Documents) /\ Len(Tail(del.ids)) = Len(del.ids) - 1
      BY <2>1, <3>1
    <3> QED
      BY <3>1, <3>2
  <2>3. AfterHead = [NoDelete EXCEPT !.pc = "check", !.ids = Tail(del.ids)]
    BY <1>3 DEF AfterHead
  <2> QED
    BY <2>2, <2>3 DEF NoDelete, Deletes
<1> QED
  BY <1>2, <1>3

LEMMA AskStep ==
  ASSUME ImagesInv, NEW ids \in Batches, Ask(ids)
  PROVE  ImagesInv'
<1>1. ImagesTypes
  BY DEF ImagesInv
<1>2. ids \in Seq(Documents) /\ ids # <<>>
  <2>1. ASSUME NEW f \in Documents, ids = <<f>> PROVE ids \in Seq(Documents) /\ ids # <<>>
    BY <2>1
  <2>2. ASSUME ids \in Documents \X Documents PROVE ids \in Seq(Documents) /\ ids # <<>>
    <3>1. PICK f \in Documents, g \in Documents : ids = <<f, g>>
      BY <2>2
    <3> QED
      BY <3>1
  <2> QED
    BY <2>1, <2>2 DEF Batches
<1>3. PICK d : d = [NoDelete EXCEPT !.pc = "check", !.ids = ids]
  OBVIOUS
<1>4. d \in Deletes /\ d.pc = "check" /\ d.ids = ids /\ d.held = {}
  BY <1>2, <1>3 DEF NoDelete, Deletes
<1>5. del' = d /\ UNCHANGED <<refs, status, there, store, shows, run, runs, halts, savers, imported, disturbed>>
  BY <1>3 DEF Ask
<1> QED
  BY <1>1, <1>2, <1>4, <1>5, DeleteStep DEF ImagesTypes

LEMMA RefuseStep == ASSUME ImagesInv, Refuse PROVE ImagesInv'
<1>1. ImagesTypes /\ del.pc # "none"
  BY DEF ImagesInv, Refuse
<1>2. PICK d : d = AfterHead
  OBVIOUS
<1>3. d \in Deletes /\ d.pc \in {"none", "check"} /\ d.held = {} /\ (d.pc = "none" <=> d.ids = <<>>)
  BY <1>1, <1>2, NextIds
<1>4. del' = d /\ UNCHANGED <<refs, status, there, store, shows, run, runs, halts, savers, imported, disturbed>>
  BY <1>2 DEF Refuse
<1> QED
  BY <1>1, <1>3, <1>4, DeleteStep DEF ImagesTypes

LEMMA CheckStep == ASSUME ImagesInv, Check PROVE ImagesInv'
<1>1. /\ ImagesTypes /\ Owned /\ Accounted /\ del \in Deletes /\ del.pc = "check" /\ del.held = {}
      /\ Head(del.ids) \in Documents /\ status[Head(del.ids)] = "free" /\ del.ids # <<>>
  BY ImageFacts DEF ImagesInv, Check, Deletable, Owned, Handed, ImagesTypes
<1>2. PICK d : d = [del EXCEPT !.pc = "collect"]
  OBVIOUS
<1>3. d \in Deletes /\ d.pc = "collect" /\ d.ids = del.ids /\ d.held = {}
  BY <1>1, <1>2 DEF Deletes
<1>4. ~Importing(Head(d.ids)) \/ Head(d.ids) \in disturbed
  BY <1>1, <1>3 DEF Accounted
<1>5. del' = d /\ UNCHANGED <<refs, status, there, store, shows, run, runs, halts, savers, imported, disturbed>>
  BY <1>2 DEF Check
<1> QED
  BY <1>1, <1>3, <1>4, <1>5, DeleteStep DEF ImagesTypes

LEMMA CollectStep == ASSUME ImagesInv, Collect PROVE ImagesInv'
<1>1. /\ ImagesTypes /\ Owned /\ Accounted /\ del \in Deletes /\ del.pc = "collect"
      /\ Head(del.ids) \in Documents /\ del.ids # <<>>
      /\ shows[Head(del.ids)] \subseteq Mine(Head(del.ids)) /\ shows[Head(del.ids)] \subseteq Keys
  BY ImageFacts DEF ImagesInv, Collect, Owned, OwnedBy, ImagesTypes
<1>2. PICK d : d = [del EXCEPT !.pc = "bytes", !.held = shows[Head(del.ids)]]
  OBVIOUS
<1>3. d \in Deletes /\ d.pc = "bytes" /\ d.ids = del.ids /\ d.held = shows[Head(d.ids)]
  BY <1>1, <1>2 DEF Deletes
<1>4. \/ Head(d.ids) \in disturbed
      \/ ~Importing(Head(d.ids)) /\ SavedFor(Head(d.ids)) \cap store \subseteq d.held
  BY <1>1, <1>3 DEF Accounted, Deleting
<1>5. del' = d /\ UNCHANGED <<refs, status, there, store, shows, run, runs, halts, savers, imported, disturbed>>
  BY <1>2 DEF Collect
<1> QED
  BY <1>1, <1>3, <1>4, <1>5, DeleteStep DEF ImagesTypes

LEMMA CollectRaisesStep == ASSUME ImagesInv, CollectRaises PROVE ImagesInv'
<1>1. /\ ImagesTypes /\ Owned /\ del \in Deletes /\ del.pc = "collect" /\ del.held = {}
      /\ Head(del.ids) \in Documents /\ del.ids # <<>>
  BY ImageFacts DEF ImagesInv, CollectRaises, Owned, Handed, ImagesTypes
<1>2. PICK d : d = [del EXCEPT !.pc = "bytes"]
  OBVIOUS
<1>3. d \in Deletes /\ d.pc = "bytes" /\ d.ids = del.ids /\ d.held = {}
  BY <1>1, <1>2 DEF Deletes
<1>4. /\ del' = d /\ disturbed' = disturbed \cup {Head(del.ids)}
      /\ UNCHANGED <<refs, status, there, store, shows, run, runs, savers, imported>>
  BY <1>2 DEF CollectRaises
<1>5. halts' \in 0 .. MaxHalts
  BY <1>1, KbImagesAssumption DEF ImagesTypes, CollectRaises, Halt
<1>6. Head(d.ids) \in disturbed' /\ disturbed \subseteq disturbed' /\ disturbed' \subseteq Documents
  BY <1>1, <1>3, <1>4 DEF ImagesTypes
<1> QED
  BY <1>1, <1>3, <1>4, <1>5, <1>6, DeleteStep

LEMMA DeleteRaisesStep == ASSUME ImagesInv, DeleteRaises PROVE ImagesInv'
<1>1. ImagesTypes /\ NoDelete \in Deletes
  BY ImageFacts DEF ImagesInv
<1>2. NoDelete.pc = "none" /\ NoDelete.ids = <<>> /\ NoDelete.held = {}
  BY DEF NoDelete
<1>3. halts' \in 0 .. MaxHalts
  BY <1>1, KbImagesAssumption DEF ImagesTypes, DeleteRaises, Halt
<1>4. del' = NoDelete /\ UNCHANGED <<refs, status, there, store, shows, run, runs, savers, imported, disturbed>>
  BY DEF DeleteRaises
<1> QED
  BY <1>1, <1>2, <1>3, <1>4, DeleteStep DEF ImagesTypes

LEMMA UnlinkFileStep == ASSUME ImagesInv, UnlinkFile PROVE ImagesInv'
<1>1. /\ ImagesTypes /\ Owned /\ Accounted /\ SavedOnce /\ del \in Deletes /\ del.pc = "bytes"
      /\ Head(del.ids) \in Documents /\ del.ids # <<>>
  BY ImageFacts DEF ImagesInv, UnlinkFile, ImagesTypes
<1>2. PICK d : d = [del EXCEPT !.pc = "pictures"]
  OBVIOUS
<1>3. d \in Deletes /\ d.pc = "pictures" /\ d.ids = del.ids /\ d.held = del.held
  BY <1>1, <1>2 DEF Deletes
<1>4. /\ del' = d /\ there' = there \ {Head(del.ids)}
      /\ UNCHANGED <<refs, status, store, shows, run, runs, halts, savers, imported, disturbed>>
  BY <1>2 DEF UnlinkFile
<1>5. ImagesTypes'
  BY <1>1, <1>3, <1>4 DEF ImagesTypes
<1>6. \A g \in Documents : Mine(g)' = Mine(g) /\ SavedFor(g)' = SavedFor(g)
  BY <1>4 DEF Mine, SavedFor
<1>7. Owned'
  <2>1. \A g \in Documents : OwnedBy(g)'
    BY <1>1, <1>4, <1>6 DEF Owned, OwnedBy
  <2>2. Handed'
    BY <1>1, <1>3, <1>4, <1>6 DEF Owned, Handed
  <2>3. Unlinked'
    BY <1>1, <1>4, <1>6 DEF Owned, Unlinked
  <2> QED
    BY <2>1, <2>2, <2>3 DEF Owned
<1>8. Accounted'
  BY <1>1, <1>3, <1>4, <1>6 DEF Accounted, Deleting, Importing, Exists
<1>9. SavedOnce'
  BY <1>1, <1>4 DEF SavedOnce
<1> QED
  BY <1>5, <1>7, <1>8, <1>9 DEF ImagesInv

LEMMA UnlinkPictureStep ==
  ASSUME ImagesInv, NEW k \in Keys, UnlinkPicture(k)
  PROVE  ImagesInv'
<1>1. /\ ImagesTypes /\ Owned /\ Accounted /\ SavedOnce /\ del \in Deletes /\ del.pc = "pictures"
      /\ Head(del.ids) \in Documents /\ del.ids # <<>> /\ k \in del.held
      /\ k \in Mine(Head(del.ids)) /\ Head(del.ids) \notin there
  BY ImageFacts DEF ImagesInv, UnlinkPicture, ImagesTypes, Owned, Handed
<1>2. PICK d : d = [del EXCEPT !.held = @ \ {k}]
  OBVIOUS
<1>3. d \in Deletes /\ d.pc = "pictures" /\ d.ids = del.ids /\ d.held = del.held \ {k}
  BY <1>1, <1>2 DEF Deletes
<1>4. /\ del' = d /\ store' = store \ {k}
      /\ UNCHANGED <<refs, status, there, shows, run, runs, halts, savers, imported, disturbed>>
  BY <1>2 DEF UnlinkPicture
<1>5. ImagesTypes'
  BY <1>1, <1>3, <1>4 DEF ImagesTypes
<1>6. \A g \in Documents : Mine(g)' = Mine(g) /\ SavedFor(g)' = SavedFor(g)
  BY <1>4 DEF Mine, SavedFor
<1>7. Owned'
  <2>1. \A g \in Documents : OwnedBy(g)'
    BY <1>1, <1>4, <1>6 DEF Owned, OwnedBy
  <2>2. Handed'
    BY <1>1, <1>3, <1>4, <1>6 DEF Owned, Handed
  <2>3. Unlinked'
    BY <1>1, <1>4, <1>6 DEF Owned, Unlinked
  <2> QED
    BY <2>1, <2>2, <2>3 DEF Owned
<1>8. Accounted'
  BY <1>1, <1>3, <1>4, <1>6 DEF Accounted, Deleting, Importing, Exists
<1>9. SavedOnce'
  BY <1>1, <1>4 DEF SavedOnce
<1> QED
  BY <1>5, <1>7, <1>8, <1>9 DEF ImagesInv

LEMMA ClearRowsStep == ASSUME ImagesInv, ClearRows PROVE ImagesInv'
<1>1. /\ ImagesTypes /\ Owned /\ Accounted /\ SavedOnce /\ del \in Deletes /\ del.pc = "pictures"
      /\ Head(del.ids) \in Documents /\ del.ids # <<>> /\ del.held = {}
  BY ImageFacts DEF ImagesInv, ClearRows, ImagesTypes
<1>2. PICK d : d = [del EXCEPT !.pc = "row"]
  OBVIOUS
<1>3. d \in Deletes /\ d.pc = "row" /\ d.ids = del.ids /\ d.held = {}
  BY <1>1, <1>2 DEF Deletes
<1>4. /\ del' = d /\ shows' = [shows EXCEPT ![Head(del.ids)] = {}]
      /\ UNCHANGED <<refs, status, there, store, run, runs, halts, savers, imported, disturbed>>
  BY <1>2 DEF ClearRows
<1>5. shows'[Head(del.ids)] = {} /\ \A g \in Documents \ {Head(del.ids)} : shows'[g] = shows[g]
  BY <1>1, <1>4 DEF ImagesTypes
<1>6. ImagesTypes'
  BY <1>1, <1>3, <1>4 DEF ImagesTypes
<1>7. \A g \in Documents : Mine(g)' = Mine(g) /\ SavedFor(g)' = SavedFor(g)
  BY <1>4 DEF Mine, SavedFor
<1>8. Owned'
  <2>1. \A g \in Documents : OwnedBy(g)'
    BY <1>1, <1>4, <1>5, <1>7 DEF Owned, OwnedBy
  <2>2. Handed'
    BY <1>1, <1>3, <1>4, <1>7 DEF Owned, Handed
  <2>3. Unlinked'
    BY <1>1, <1>4, <1>7 DEF Owned, Unlinked
  <2> QED
    BY <2>1, <2>2, <2>3 DEF Owned
<1>9. Accounted'
  BY <1>1, <1>3, <1>4, <1>5, <1>7 DEF Accounted, Deleting, Importing, Exists
<1>10. SavedOnce'
  BY <1>1, <1>4 DEF SavedOnce
<1> QED
  BY <1>6, <1>8, <1>9, <1>10 DEF ImagesInv

LEMMA DropRowStep == ASSUME ImagesInv, DropRow PROVE ImagesInv'
<1>1. /\ ImagesTypes /\ Owned /\ Accounted /\ SavedOnce /\ del.pc = "row"
      /\ Head(del.ids) \in Documents
  BY ImageFacts DEF ImagesInv, DropRow
<1>2. PICK d : d = AfterHead
  OBVIOUS
<1>3. d \in Deletes /\ d.pc \in {"none", "check"} /\ d.held = {} /\ (d.pc = "none" <=> d.ids = <<>>)
  BY <1>1, <1>2, NextIds
<1>4. /\ del' = d /\ shows' = [shows EXCEPT ![Head(del.ids)] = {}]
      /\ status' = [status EXCEPT ![Head(del.ids)] = "none"]
      /\ UNCHANGED <<refs, there, store, run, runs, halts, savers, imported, disturbed>>
  BY <1>2 DEF DropRow
<1>5. /\ shows'[Head(del.ids)] = {} /\ status'[Head(del.ids)] = "none"
      /\ \A g \in Documents \ {Head(del.ids)} : shows'[g] = shows[g] /\ status'[g] = status[g]
  BY <1>1, <1>4 DEF ImagesTypes
<1>6. ImagesTypes'
  BY <1>1, <1>3, <1>4 DEF ImagesTypes
<1>7. \A g \in Documents : Mine(g)' = Mine(g) /\ SavedFor(g)' = SavedFor(g)
  BY <1>4 DEF Mine, SavedFor
<1>8. Owned'
  <2>1. \A g \in Documents : OwnedBy(g)'
    BY <1>1, <1>4, <1>5, <1>7 DEF Owned, OwnedBy
  <2>2. Handed'
    <3>1. d.held \subseteq Mine(Head(d.ids))'
      BY <1>3
    <3> QED
      BY <1>3, <1>4, <3>1 DEF Handed
  <2>3. Unlinked'
    BY <1>1, <1>4, <1>7 DEF Owned, Unlinked
  <2> QED
    BY <2>1, <2>2, <2>3 DEF Owned
<1>9. Accounted'
  <2>1. Head(del.ids) \notin disturbed =>
          ~Importing(Head(del.ids)) /\ SavedFor(Head(del.ids)) \cap store = {}
    BY <1>1 DEF Accounted, Deleting
  <2> QED
    BY <1>1, <1>3, <1>4, <1>5, <1>7, <2>1 DEF Accounted, Deleting, Importing, Exists
<1>10. SavedOnce'
  BY <1>1, <1>4 DEF SavedOnce
<1> QED
  BY <1>6, <1>8, <1>9, <1>10 DEF ImagesInv

LEMMA ImagesCrashStep == ASSUME ImagesInv, ImagesCrash PROVE ImagesInv'
<1>1. /\ ImagesTypes /\ Owned /\ Accounted /\ SavedOnce /\ NoImport \in Imports /\ NoDelete \in Deletes
      /\ run' = [f \in Documents |-> NoImport] /\ del' = NoDelete
      /\ disturbed' = disturbed \cup {f \in Documents : Importing(f)}
      /\ UNCHANGED <<refs, status, there, store, shows, runs, savers, imported>>
  BY ImageFacts DEF ImagesInv, ImagesCrash
<1>2. /\ NoDelete.pc = "none" /\ NoDelete.ids = <<>> /\ NoDelete.held = {}
      /\ NoImport.pc = "none" /\ NoImport.saved = {} /\ NoImport.names = {}
  BY DEF NoDelete, NoImport
<1>3. halts' \in 0 .. MaxHalts
  BY <1>1, KbImagesAssumption DEF ImagesTypes, ImagesCrash, Halt
<1>4. ImagesTypes'
  BY <1>1, <1>2, <1>3 DEF ImagesTypes
<1>5. \A g \in Documents : Mine(g)' = Mine(g) /\ SavedFor(g)' = SavedFor(g) /\ run'[g] = NoImport
  BY <1>1 DEF Mine, SavedFor
<1>6. Owned'
  <2>1. \A g \in Documents : OwnedBy(g)'
    BY <1>1, <1>2, <1>5 DEF Owned, OwnedBy
  <2>2. Handed'
    BY <1>1, <1>2 DEF Handed
  <2>3. Unlinked'
    BY <1>1, <1>5 DEF Owned, Unlinked
  <2> QED
    BY <2>1, <2>2, <2>3 DEF Owned
<1>7. Accounted'
  BY <1>1, <1>2, <1>5 DEF Accounted, Deleting, Importing, Exists
<1>8. SavedOnce'
  BY <1>2, <1>5 DEF SavedOnce
<1> QED
  BY <1>4, <1>6, <1>7, <1>8 DEF ImagesInv

LEMMA ImagesSteps == ImagesInv /\ [ImagesNext]_imageVars => ImagesInv'
<1> SUFFICES ASSUME ImagesInv, [ImagesNext]_imageVars PROVE ImagesInv'
  OBVIOUS
<1>1. ASSUME NEW f \in Documents,
             \/ \E n \in 1 .. MaxRefs : \E text \in [1 .. n -> Locals \cup store] : Upload(f, text)
             \/ ImportText(f) \/ KeepRef(f) \/ RepeatRef(f) \/ SaveRef(f)
             \/ ReplaceRows(f) \/ StoreRows(f) \/ ImportRaises(f)
      PROVE  ImagesInv'
  BY <1>1, UploadStep, ImportTextStep, KeepRefStep, RepeatRefStep, SaveRefStep,
     ReplaceRowsStep, StoreRowsStep, ImportRaisesStep
<1>2. ASSUME NEW ids \in Batches, Ask(ids) PROVE ImagesInv'
  BY <1>2, AskStep
<1>3. ASSUME NEW k \in Keys, UnlinkPicture(k) PROVE ImagesInv'
  BY <1>3, UnlinkPictureStep
<1>4. CASE \/ Refuse \/ Check \/ Collect \/ CollectRaises \/ UnlinkFile
           \/ ClearRows \/ DropRow \/ DeleteRaises \/ ImagesCrash
  BY <1>4, RefuseStep, CheckStep, CollectStep, CollectRaisesStep, UnlinkFileStep,
     ClearRowsStep, DropRowStep, DeleteRaisesStep, ImagesCrashStep
<1>5. CASE UNCHANGED imageVars
  BY <1>5 DEF imageVars, ImagesInv, ImagesTypes, Owned, OwnedBy, Handed, Unlinked, Mine,
     Accounted, SavedOnce, SavedFor, Importing, Exists, Deleting
<1> QED
  BY <1>1, <1>2, <1>3, <1>4, <1>5 DEF ImagesNext

LEMMA ImagesKept == ImagesInv => PicturesAreThere /\ NoneToSpare /\ KbImagesTypeOK
<1> SUFFICES ASSUME ImagesInv PROVE PicturesAreThere /\ NoneToSpare /\ KbImagesTypeOK
  OBVIOUS
<1>1. ImagesTypes /\ Owned /\ Accounted /\ SavedOnce
  BY DEF ImagesInv
<1>2. \A f \in Documents : \A k \in Mine(f) : savers[k] = f \/ k \in Range(refs[f])
  <2>1. ASSUME NEW f \in Documents, NEW n \in 1 .. Len(refs[f]) PROVE refs[f][n] \in Range(refs[f])
    BY <1>1 DEF Range, ImagesTypes
  <2> QED
    BY <2>1 DEF Mine
<1>3. PicturesAreThere
  <2>1. ASSUME NEW f \in there, NEW k \in shows[f] \ store
        PROVE  \E g \in Documents \ {f} : g \notin there /\ (savers[k] = g \/ k \in Range(refs[g]))
    <3>1. k \in (1 .. Len(savers)) \ store
      BY <1>1, ImageFacts DEF Owned, OwnedBy, ImagesTypes
    <3>2. PICK g \in Documents \ there : k \in Mine(g)
      BY <1>1, <3>1 DEF Owned, Unlinked
    <3> QED
      BY <1>2, <3>2
  <2> QED
    BY <2>1 DEF PicturesAreThere
<1>4. NoneToSpare
  BY <1>1 DEF Accounted, NoneToSpare, NoPictureLeft
<1>5. KbImagesTypeOK
  <2>1. ASSUME NEW f \in Documents PROVE Range(refs[f]) \subseteq Locals \cup Keys
    BY <1>1 DEF Range, ImagesTypes
  <2>2. ASSUME NEW f \in Documents
        PROVE  /\ status[f] \in {"none", "indexing", "free"}
               /\ shows[f] \cup run[f].names \subseteq Keys
               /\ run[f].pc \in {"none", "ingest", "store"}
               /\ run[f].saved \subseteq [ref : Locals, key : Keys]
    BY <1>1, ImageFacts DEF Imports
  <2>3. /\ del.pc \in {"none", "check", "collect", "bytes", "pictures", "row"} /\ del.held \subseteq Keys
    BY <1>1 DEF ImagesTypes, Deletes
  <2> QED
    BY <1>1, <2>1, <2>2, <2>3 DEF KbImagesTypeOK, ImagesTypes
<1> QED
  BY <1>1, <1>3, <1>4, <1>5
-----------------------------------------------------------------------------
(* Documents, their sections, chunks and index texts (Sections): lists.     *)

\* A list is a function on its places.
LEMMA ListHas ==
  ASSUME NEW X, NEW s \in Seq(X)
  PROVE  Len(s) \in Nat /\ DOMAIN s = 1 .. Len(s) /\ \A i \in 1 .. Len(s) : s[i] \in X
  OBVIOUS

\* A function on 1 .. N is a list.
LEMMA MakesList ==
  ASSUME NEW X, NEW N \in Nat, NEW s \in [1 .. N -> X]
  PROVE  s \in Seq(X) /\ Len(s) = N
  OBVIOUS

\* What one list after another has.
LEMMA OneAfterOther ==
  ASSUME NEW X, NEW s \in Seq(X), NEW t \in Seq(X)
  PROVE  /\ s \o t \in Seq(X) /\ Len(s \o t) = Len(s) + Len(t)
         /\ \A n \in 1 .. Len(s) : (s \o t)[n] = s[n]
         /\ \A n \in 1 .. Len(t) : (s \o t)[Len(s) + n] = t[n]
  OBVIOUS

\* What follows from one number to the next holds of all.
LEMMA StepByStep ==
  ASSUME NEW N \in Nat, NEW T, 0 \in T, \A n \in 0 .. N - 1 : n \in T => n + 1 \in T
  PROVE  \A n \in 0 .. N : n \in T
<1> SUFFICES ASSUME NEW bad \in SUBSET Nat, bad = (0 .. N) \ T, bad # {} PROVE FALSE
  <2>1. (0 .. N) \ T \in SUBSET Nat
    OBVIOUS
  <2> QED
    BY <2>1
<1>1. PICK b \in bad : \A n \in bad : ~(<<n, b>> \in OpToRel(<, Nat))
  BY WFMin, NatLessThanWellFounded
<1>2. b \in 0 .. N /\ b \notin T /\ \A n \in bad : ~(n < b)
  BY <1>1, Zenon DEF OpToRel
<1>3. b # 0
  BY <1>2
<1>4. b - 1 \in 0 .. N - 1 /\ b - 1 \in Nat /\ b - 1 < b /\ b - 1 \in 0 .. N /\ (b - 1) + 1 = b
  BY <1>2, <1>3
<1>5. b - 1 \in T
  BY <1>2, <1>4
<1> QED
  BY <1>2, <1>4, <1>5

\* The loop of Joined over the first N lists.
IsJoin(g, s, N) == g = [n \in 0 .. N |-> IF n = 0 THEN <<>> ELSE g[n - 1] \o s[n]]
JoinOf(g, s, N) == /\ g[0] = <<>>
                   /\ \A n \in 1 .. N : g[n] = g[n - 1] \o s[n]

\* Joined starts with nothing and goes on list by list.
LEMMA JoinedIsLoop ==
  ASSUME NEW s, Len(s) \in Nat
  PROVE  \E all : JoinOf(all, s, Len(s)) /\ Joined(s) = all[Len(s)]
<1>1. PICK T : T = {N \in 0 .. Len(s) : \E g : IsJoin(g, s, N)}
  OBVIOUS
<1>2. 0 \in T
  <2>1. PICK g : g = [n \in 0 .. 0 |-> <<>>]
    OBVIOUS
  <2>2. IsJoin(g, s, 0)
    <3>1. \A n \in 0 .. 0 : n = 0
      OBVIOUS
    <3> QED
      BY <2>1, <3>1 DEF IsJoin
  <2>3. 0 \in 0 .. Len(s)
    OBVIOUS
  <2> QED
    BY <1>1, <2>2, <2>3, Zenon
<1>3. ASSUME NEW N \in 0 .. Len(s) - 1, N \in T PROVE N + 1 \in T
  <2>1. PICK g : IsJoin(g, s, N)
    BY <1>1, <1>3, Zenon
  <2>2. PICK h : h = [n \in 0 .. N + 1 |-> IF n = 0 THEN <<>> ELSE g[n - 1] \o s[n]]
    OBVIOUS
  <2>3. \A n \in 0 .. N : g[n] = IF n = 0 THEN <<>> ELSE g[n - 1] \o s[n]
    BY <2>1 DEF IsJoin
  <2>4. \A n \in 0 .. N : h[n] = g[n]
    <3>1. \A n \in 0 .. N : n \in 0 .. N + 1
      OBVIOUS
    <3> QED
      BY <2>2, <2>3, <3>1, Zenon
  <2>5. \A n \in 0 .. N + 1 : n # 0 => n - 1 \in 0 .. N
    OBVIOUS
  <2>6. h = [n \in 0 .. N + 1 |-> IF n = 0 THEN <<>> ELSE h[n - 1] \o s[n]]
    BY <2>2, <2>4, <2>5, Zenon
  <2>7. IsJoin(h, s, N + 1)
    BY <2>6, Zenon DEF IsJoin
  <2>8. N + 1 \in 0 .. Len(s)
    OBVIOUS
  <2> QED
    BY <1>1, <2>7, <2>8, Zenon
<1>4. Len(s) \in T
  <2>1. PICK L \in Nat : L = Len(s)
    OBVIOUS
  <2>2. \A n \in 0 .. L - 1 : n \in T => n + 1 \in T
    BY <1>3, <2>1
  <2>3. \A n \in 0 .. L : n \in T
    BY <1>2, <2>2, StepByStep
  <2> QED
    BY <2>1, <2>3
<1>5. PICK acc : acc = CHOOSE g : g = [n \in 0 .. Len(s) |-> IF n = 0 THEN <<>> ELSE g[n - 1] \o s[n]]
  OBVIOUS
<1>6. acc = [n \in 0 .. Len(s) |-> IF n = 0 THEN <<>> ELSE acc[n - 1] \o s[n]]
  BY <1>1, <1>4, <1>5, Zenon DEF IsJoin
<1>7. Joined(s) = acc[Len(s)]
  BY <1>5, Zenon DEF Joined
<1>8. JoinOf(acc, s, Len(s))
  <2>1. /\ 0 \in 0 .. Len(s)
        /\ \A n \in 1 .. Len(s) : n \in 0 .. Len(s) /\ n # 0
    OBVIOUS
  <2>2. \A n \in 0 .. Len(s) : acc[n] = IF n = 0 THEN <<>> ELSE acc[n - 1] \o s[n]
    BY <1>6, Zenon
  <2> QED
    BY <2>1, <2>2, Zenon DEF JoinOf
<1> QED
  BY <1>7, <1>8, Zenon

-----------------------------------------------------------------------------
(* What joined lists have.                                                  *)

\* A member of the first N lists, and its place.
Has(s, N, b, m, v) == b \in 1 .. N /\ m \in 1 .. Len(s[b]) /\ s[b][m] = v

\* All is of these lists, all of them is in it, and each of its places is another of theirs.
Comes(all, s, N) == \A c \in 1 .. Len(all) : \E b, m : Has(s, N, b, m, all[c])
Brings(all, s, N) == \A b, m, v : Has(s, N, b, m, v) => \E c \in 1 .. Len(all) : all[c] = v
Apart(all, s, N) ==
  \A c, d \in 1 .. Len(all) : c # d =>
    \E b, m, e, n : Has(s, N, b, m, all[c]) /\ Has(s, N, e, n, all[d]) /\ ~(b = e /\ m = n)
Follows(all, s, N) == Comes(all, s, N) /\ Brings(all, s, N) /\ Apart(all, s, N)

\* A further list adds what it has, after the rest.
LEMMA FollowsOn ==
  ASSUME NEW X, NEW s, NEW N \in Nat, NEW all \in Seq(X), Follows(all, s, N), s[N + 1] \in Seq(X),
         NEW more, more = all \o s[N + 1]
  PROVE  more \in Seq(X) /\ Follows(more, s, N + 1)
<1>1. PICK t \in Seq(X) : t = s[N + 1]
  OBVIOUS
<1>2. PICK A \in Nat, M \in Nat : A = Len(all) /\ M = Len(t)
  OBVIOUS
<1>a. PICK one : one = all \o t
  OBVIOUS
<1>b. one = more
  BY <1>1, <1>a
<1>3. /\ one \in Seq(X) /\ Len(one) = A + M
      /\ \A n \in 1 .. A : one[n] = all[n]
      /\ \A n \in 1 .. M : one[A + n] = t[n]
  <2>2. /\ all \o t \in Seq(X) /\ Len(all \o t) = Len(all) + Len(t)
        /\ \A n \in 1 .. Len(all) : (all \o t)[n] = all[n]
        /\ \A n \in 1 .. Len(t) : (all \o t)[Len(all) + n] = t[n]
    BY OneAfterOther
  <2> QED
    BY <1>2, <1>a, <2>2
<1>4. \A b, m, v : Has(s, N, b, m, v) => Has(s, N + 1, b, m, v) /\ b # N + 1
  BY DEF Has
<1>5. \A m \in 1 .. M : Has(s, N + 1, N + 1, m, t[m])
  BY <1>1, <1>2 DEF Has
<1>6. \A b, m, v : Has(s, N + 1, b, m, v) => Has(s, N, b, m, v) \/ (m \in 1 .. M /\ v = t[m])
  <2> SUFFICES ASSUME NEW b, NEW m, NEW v, Has(s, N + 1, b, m, v)
               PROVE  Has(s, N, b, m, v) \/ (m \in 1 .. M /\ v = t[m])
    OBVIOUS
  <2>1. b \in 1 .. N + 1 /\ m \in 1 .. Len(s[b]) /\ s[b][m] = v
    BY Zenon DEF Has
  <2>2. CASE b = N + 1
    BY <1>1, <1>2, <2>1, <2>2
  <2>3. CASE b # N + 1
    <3>1. b \in 1 .. N
      BY <2>1, <2>3
    <3> QED
      BY <2>1, <3>1, Zenon DEF Has
  <2> QED
    BY <2>2, <2>3
<1>7. \A c \in 1 .. A + M : c \in 1 .. A \/ \E n \in 1 .. M : c = A + n
  <2> SUFFICES ASSUME NEW c \in 1 .. A + M, c \notin 1 .. A PROVE \E n \in 1 .. M : c = A + n
    OBVIOUS
  <2>1. c - A \in 1 .. M /\ c = A + (c - A)
    OBVIOUS
  <2> QED
    BY <2>1
<1>8. /\ \A n \in 1 .. A : n \in 1 .. A + M
      /\ \A n \in 1 .. M : A + n \in 1 .. A + M
  OBVIOUS
<1>9. \A c \in 1 .. A : \E b, m : Has(s, N, b, m, one[c])
  BY <1>2, <1>3, Zenon DEF Follows, Comes
<1>10. \A n \in 1 .. M : Has(s, N + 1, N + 1, n, one[A + n])
  BY <1>3, <1>5
<1>11. Comes(one, s, N + 1)
  <2> SUFFICES ASSUME NEW c \in 1 .. A + M PROVE \E b, m : Has(s, N + 1, b, m, one[c])
    BY <1>3, Zenon DEF Comes
  <2>1. CASE c \in 1 .. A
    BY <1>4, <1>9, <2>1, Zenon
  <2>2. CASE \E n \in 1 .. M : c = A + n
    BY <1>10, <2>2, Zenon
  <2> QED
    BY <1>7, <2>1, <2>2
<1>12. Brings(one, s, N + 1)
  <2> SUFFICES ASSUME NEW b, NEW m, NEW v, Has(s, N + 1, b, m, v)
               PROVE  \E c \in 1 .. A + M : one[c] = v
    BY <1>3, Zenon DEF Brings
  <2>1. CASE Has(s, N, b, m, v)
    <3>1. PICK c \in 1 .. A : all[c] = v
      BY <1>2, <2>1, Zenon DEF Follows, Brings
    <3> QED
      BY <1>3, <1>8, <3>1
  <2>2. CASE m \in 1 .. M /\ v = t[m]
    BY <1>3, <1>8, <2>2
  <2> QED
    BY <1>6, <2>1, <2>2
<1>13. Apart(one, s, N + 1)
  <2> SUFFICES ASSUME NEW c \in 1 .. A + M, NEW d \in 1 .. A + M, c # d
               PROVE  \E b, m, e, n : /\ Has(s, N + 1, b, m, one[c]) /\ Has(s, N + 1, e, n, one[d])
                                      /\ ~(b = e /\ m = n)
    BY <1>3, Zenon DEF Apart
  <2>1. CASE c \in 1 .. A /\ d \in 1 .. A
    <3>1. one[c] = all[c] /\ one[d] = all[d]
      BY <1>3, <2>1
    <3>2. PICK b, m, e, n : Has(s, N, b, m, all[c]) /\ Has(s, N, e, n, all[d]) /\ ~(b = e /\ m = n)
      BY <1>2, <2>1, Zenon DEF Follows, Apart
    <3>3. Has(s, N + 1, b, m, one[c]) /\ Has(s, N + 1, e, n, one[d])
      BY <1>4, <3>1, <3>2
    <3> QED
      BY <3>2, <3>3, Zenon
  <2>2. CASE c \in 1 .. A /\ \E n \in 1 .. M : d = A + n
    BY <1>4, <1>9, <1>10, <2>2, Zenon
  <2>3. CASE d \in 1 .. A /\ \E n \in 1 .. M : c = A + n
    BY <1>4, <1>9, <1>10, <2>3, Zenon
  <2>4. CASE (\E n \in 1 .. M : c = A + n) /\ (\E n \in 1 .. M : d = A + n)
    <3>1. PICK m \in 1 .. M : c = A + m
      BY <2>4
    <3>2. PICK n \in 1 .. M : d = A + n
      BY <2>4
    <3>3. m # n
      BY <3>1, <3>2
    <3> QED
      BY <1>10, <3>1, <3>2, <3>3, Zenon
  <2> QED
    BY <1>7, <2>1, <2>2, <2>3, <2>4
<1> QED
  BY <1>3, <1>11, <1>12, <1>13, <1>b, Zenon DEF Follows

\* Joined lists have what the lists have.
LEMMA JoinedFollows ==
  ASSUME NEW X, NEW s, NEW L \in Nat, Len(s) = L, \A b \in 1 .. L : s[b] \in Seq(X)
  PROVE  Joined(s) \in Seq(X) /\ Follows(Joined(s), s, L)
<1>1. PICK all : JoinOf(all, s, L) /\ Joined(s) = all[L]
  BY JoinedIsLoop
<1>2. PICK T : T = {n \in 0 .. L : all[n] \in Seq(X) /\ Follows(all[n], s, n)}
  OBVIOUS
<1>3. 0 \in T
  <2>0. all[0] = <<>>
    BY <1>1, Zenon DEF JoinOf
  <2>1. all[0] \in Seq(X) /\ Len(all[0]) = 0 /\ 1 .. 0 = {} /\ 0 \in 0 .. L
    BY <2>0
  <2>2. Follows(all[0], s, 0)
    BY <2>1, Zenon DEF Follows, Comes, Brings, Apart, Has
  <2> QED
    BY <1>2, <2>1, <2>2, Zenon
<1>4. \A n \in 0 .. L - 1 : n \in T => n + 1 \in T
  <2> SUFFICES ASSUME NEW n \in 0 .. L - 1, n \in T PROVE n + 1 \in T
    OBVIOUS
  <2>1. n + 1 \in 1 .. L /\ (n + 1) - 1 = n /\ n + 1 \in 0 .. L /\ n \in Nat
    OBVIOUS
  <2>2. PICK one : one = all[n]
    OBVIOUS
  <2>a. PICK more : more = all[n + 1]
    OBVIOUS
  <2>b. \A i \in 1 .. L : all[i] = all[i - 1] \o s[i]
    BY <1>1, Zenon DEF JoinOf
  <2>3. more = one \o s[n + 1] /\ s[n + 1] \in Seq(X)
    BY <2>1, <2>2, <2>a, <2>b
  <2>4. one \in Seq(X) /\ Follows(one, s, n)
    BY <1>2, <2>2, Zenon
  <2>5. more \in Seq(X) /\ Follows(more, s, n + 1)
    BY <2>1, <2>3, <2>4, FollowsOn
  <2> QED
    BY <1>2, <2>1, <2>5, <2>a, Zenon
<1>5. L \in T
  <2>1. L \in 0 .. L /\ L \in Nat
    OBVIOUS
  <2> QED
    BY <1>3, <1>4, <2>1, StepByStep
<1> QED
  BY <1>1, <1>2, <1>5, Zenon

-----------------------------------------------------------------------------
(* Texts that are cut.                                                      *)

\* A place of a list is in one run of it.
LEMMA RunOf ==
  ASSUME NEW size \in Nat \ {0}, NEW L \in Nat, NEW i \in 1 .. L
  PROVE  \E n \in Nat \ {0}, k \in 1 .. size : i = (n - 1) * size + k
<1>1. PICK q \in Nat : q = (i - 1) \div size /\ size * q <= i - 1 /\ i - 1 < size * q + size
  <2>1. PICK j \in Nat : j = i - 1
    OBVIOUS
  <2>2. PICK p : p = j \div size
    OBVIOUS
  <2>3. p \in Nat /\ size * p <= j /\ j < size * p + size
    BY <2>2
  <2> QED
    BY <2>1, <2>2, <2>3
<1>2. PICK r \in Int : r = size * q
  OBVIOUS
<1>3. (q + 1) - 1 = q /\ q + 1 \in Nat \ {0} /\ q * size = r
  BY <1>2
<1>4. i - r \in 1 .. size /\ r + (i - r) = i
  BY <1>1, <1>2
<1> QED
  BY <1>3, <1>4

\* Runs that are not the same share no place.
LEMMA RunsApart ==
  ASSUME NEW size \in Nat \ {0}, NEW n \in Nat, NEW p \in Nat, NEW k \in 1 .. size, NEW q \in 1 .. size,
         ~(n = p /\ k = q)
  PROVE  (n - 1) * size + k # (p - 1) * size + q
<1>1. ASSUME NEW a \in Nat, NEW b \in Nat, a < b, NEW i \in 1 .. size, NEW j \in 1 .. size
      PROVE  (a - 1) * size + i < (b - 1) * size + j
  <2>1. PICK d \in Nat : b = a + 1 + d
    <3>1. b - a - 1 \in Nat /\ b = a + 1 + (b - a - 1)
      BY <1>1
    <3> QED
      BY <3>1
  <2>2. PICK u \in Int, v \in Nat : u = (a - 1) * size /\ v = d * size
    OBVIOUS
  <2>3. (b - 1) * size = u + size + v
    <3>1. b - 1 = (a - 1) + 1 + d
      BY <2>1
    <3>2. ((a - 1) + 1 + d) * size = (a - 1) * size + size + d * size
      OBVIOUS
    <3> QED
      BY <2>2, <3>1, <3>2
  <2> QED
    BY <2>2, <2>3
<1>2. CASE n = p
  <2>1. PICK u \in Int : u = (n - 1) * size
    OBVIOUS
  <2>2. u + k # u + q
    BY <1>2
  <2> QED
    BY <1>2, <2>1, <2>2
<1>3. CASE n < p
  <2>1. (n - 1) * size + k < (p - 1) * size + q
    BY <1>1, <1>3
  <2>2. PICK u \in Int, v \in Int : u = (n - 1) * size + k /\ v = (p - 1) * size + q
    OBVIOUS
  <2> QED
    BY <2>1, <2>2
<1>4. CASE p < n
  <2>1. (p - 1) * size + q < (n - 1) * size + k
    BY <1>1, <1>4
  <2>2. PICK u \in Int, v \in Int : u = (n - 1) * size + k /\ v = (p - 1) * size + q
    OBVIOUS
  <2> QED
    BY <2>1, <2>2
<1> QED
  BY <1>2, <1>3, <1>4

\* How many runs there are, and where each begins and ends.
LEMMA RunBounds ==
  ASSUME NEW size \in Nat \ {0}, NEW L \in Nat, NEW N, N = (L + size - 1) \div size
  PROVE  /\ N \in Nat
         /\ \A n \in 1 .. N : n * size = (n - 1) * size + size /\ (n - 1) * size \in Nat /\ (n - 1) * size < L
         /\ \A n \in Nat \ {0} : (n - 1) * size < L => n \in 1 .. N
<1>1. PICK M \in Nat : M = L + size - 1
  OBVIOUS
<1>2. PICK K : K = M \div size
  OBVIOUS
<1>3. K \in Nat /\ size * K <= M /\ M < size * K + size /\ K = N
  BY <1>1, <1>2
<1>4. ASSUME NEW n \in Nat \ {0}
      PROVE  n * size = (n - 1) * size + size /\ (n - 1) * size \in Nat
  <2>1. PICK j \in Nat : j = n - 1
    OBVIOUS
  <2>2. n = j + 1 /\ (j + 1) * size = j * size + size /\ j * size \in Nat
    BY <2>1
  <2> QED
    BY <2>1, <2>2
<1>5. ASSUME NEW n \in 1 .. K PROVE (n - 1) * size < L
  <2>1. n \in Nat \ {0}
    OBVIOUS
  <2>2. PICK d \in Nat : K = n + d
    <3>1. K - n \in Nat /\ K = n + (K - n)
      BY <1>3
    <3> QED
      BY <3>1
  <2>3. PICK u \in Nat, v \in Nat : u = n * size /\ v = d * size
    BY <2>1
  <2>4. size * K = u + v
    BY <2>1, <2>2, <2>3
  <2>5. (n - 1) * size = u - size
    BY <1>4, <2>1, <2>3
  <2> QED
    BY <1>1, <1>3, <2>3, <2>4, <2>5
<1>6. ASSUME NEW n \in Nat \ {0}, (n - 1) * size < L PROVE n \in 1 .. K
  <2> SUFFICES ASSUME n > K PROVE FALSE
    BY <1>3
  <2>1. PICK d \in Nat : n = K + 1 + d
    <3>1. n - K - 1 \in Nat /\ n = K + 1 + (n - K - 1)
      BY <1>3
    <3> QED
      BY <3>1
  <2>2. PICK u \in Nat, v \in Nat : u = size * K /\ v = d * size
    BY <1>3
  <2>3. (n - 1) * size = u + v
    <3>1. n - 1 = K + d
      BY <1>3, <2>1
    <3>2. (K + d) * size = size * K + d * size
      BY <1>3
    <3> QED
      BY <2>2, <3>1, <3>2
  <2> QED
    BY <1>1, <1>3, <1>6, <2>2, <2>3
<1> QED
  BY <1>3, <1>4, <1>5, <1>6

\* What a part of a list has.
LEMMA SubSeqHas ==
  ASSUME NEW X, NEW s \in Seq(X), NEW a \in Nat, NEW b \in Nat, 1 <= a, a <= b + 1, b <= Len(s)
  PROVE  /\ SubSeq(s, a, b) \in Seq(X) /\ Len(SubSeq(s, a, b)) = b - a + 1
         /\ \A i \in 1 .. b - a + 1 : SubSeq(s, a, b)[i] = s[(a - 1) + i]
  OBVIOUS

\* Where a place of a run is in the list.
PlaceOf(n, k, size) == (n - 1) * size + k

\* What the runs of a list are: of it, all of it, and no place twice.
CutOf(cuts, t) ==
  /\ \A n, k, v : Has(cuts, Len(cuts), n, k, v) => \E i \in 1 .. Len(t) : t[i] = v
  /\ \A i \in 1 .. Len(t) : \E n, k : Has(cuts, Len(cuts), n, k, t[i])
  /\ \A n, k, v, p, q, u :
       Has(cuts, Len(cuts), n, k, v) /\ Has(cuts, Len(cuts), p, q, u) /\ ~(n = p /\ k = q) =>
         \E i, j \in 1 .. Len(t) : i # j /\ t[i] = v /\ t[j] = u

LEMMA CutHolds ==
  ASSUME NEW X, NEW t \in Seq(X), NEW size \in Nat \ {0}, NEW cuts, cuts = Cut(t, size)
  PROVE  cuts \in Seq(Seq(X)) /\ CutOf(cuts, t)
<1>1. PICK L \in Nat : L = Len(t)
  OBVIOUS
<1>2. PICK N : N = (L + size - 1) \div size
  OBVIOUS
<1>3. /\ N \in Nat
      /\ \A n \in 1 .. N : n * size = (n - 1) * size + size /\ (n - 1) * size \in Nat /\ (n - 1) * size < L
      /\ \A n \in Nat \ {0} : (n - 1) * size < L => n \in 1 .. N
  BY <1>2, RunBounds
<1>4. PICK start : start = [n \in 1 .. N |-> (n - 1) * size]
  OBVIOUS
<1>5. PICK end : end = [n \in 1 .. N |-> IF n * size < L THEN n * size ELSE L]
  OBVIOUS
<1>6. ASSUME NEW n \in 1 .. N
      PROVE  /\ start[n] \in Nat /\ start[n] < L /\ end[n] \in Nat /\ end[n] <= L /\ start[n] <= end[n]
             /\ end[n] - start[n] <= size
             /\ end[n] = IF n * size < L THEN n * size ELSE L
             /\ end[n] - start[n] = size \/ end[n] = L
  <2>1. PICK u \in Nat : u = (n - 1) * size /\ n * size = u + size /\ u < L
    BY <1>3
  <2>2. start[n] = u /\ end[n] = IF u + size < L THEN u + size ELSE L
    BY <1>4, <1>5, <2>1
  <2> QED
    BY <2>1, <2>2
<1>7. /\ Len(cuts) = N /\ cuts \in Seq(Seq(X))
      /\ \A n \in 1 .. N : cuts[n] = SubSeq(t, start[n] + 1, end[n])
  <2>1. cuts = [n \in 1 .. N |->
                 SubSeq(t, (n - 1) * size + 1, IF n * size < L THEN n * size ELSE L)]
    BY <1>1, <1>2, Zenon DEF Cut
  <2>2. \A n \in 1 .. N : cuts[n] = SubSeq(t, start[n] + 1, end[n])
    BY <1>4, <1>5, <2>1, Zenon
  <2>3. ASSUME NEW n \in 1 .. N PROVE cuts[n] \in Seq(X)
    <3>1. PICK a \in Nat, b \in Nat : a = start[n] + 1 /\ b = end[n]
      BY <1>6
    <3>2. 1 <= a /\ a <= b + 1 /\ b <= Len(t)
      BY <1>1, <1>6, <3>1
    <3>3. SubSeq(t, a, b) \in Seq(X)
      BY <3>2, SubSeqHas
    <3> QED
      BY <2>2, <3>1, <3>3
  <2>4. cuts \in [1 .. N -> Seq(X)]
    BY <2>1, <2>3
  <2> QED
    BY <1>3, <2>2, <2>4, MakesList
<1>8. ASSUME NEW n \in 1 .. N
      PROVE  /\ Len(cuts[n]) = end[n] - start[n]
             /\ \A k \in 1 .. end[n] - start[n] : cuts[n][k] = t[start[n] + k]
  <2>1. PICK a \in Nat, b \in Nat : a = start[n] + 1 /\ b = end[n]
    BY <1>6
  <2>2. 1 <= a /\ a <= b + 1 /\ b <= Len(t) /\ b - a + 1 = end[n] - start[n] /\ a - 1 = start[n]
    <3>1. PICK u \in Nat : u = start[n] /\ u <= b
      BY <1>6, <2>1
    <3>2. b <= Len(t)
      BY <1>1, <1>6, <2>1
    <3>3. 1 <= a /\ a <= b + 1 /\ b - a + 1 = b - u /\ a - 1 = u
      BY <2>1, <3>1
    <3> QED
      BY <2>1, <3>1, <3>2, <3>3
  <2>3. PICK one : one = SubSeq(t, a, b)
    OBVIOUS
  <2>4. Len(one) = b - a + 1 /\ \A i \in 1 .. b - a + 1 : one[i] = t[(a - 1) + i]
    BY <2>2, <2>3, SubSeqHas
  <2>5. cuts[n] = one
    BY <1>7, <2>1, <2>3
  <2> QED
    BY <2>2, <2>4, <2>5
<1>9. \A n, k, v : Has(cuts, Len(cuts), n, k, v) =>
        /\ n \in Nat /\ k \in 1 .. size
        /\ PlaceOf(n, k, size) \in 1 .. L /\ t[PlaceOf(n, k, size)] = v
  <2> SUFFICES ASSUME NEW n, NEW k, NEW v, Has(cuts, Len(cuts), n, k, v)
               PROVE  /\ n \in Nat /\ k \in 1 .. size
                      /\ PlaceOf(n, k, size) \in 1 .. L /\ t[PlaceOf(n, k, size)] = v
    OBVIOUS
  <2>1. n \in 1 .. N /\ k \in 1 .. Len(cuts[n]) /\ cuts[n][k] = v
    BY <1>7, Zenon DEF Has
  <2>2. k \in 1 .. end[n] - start[n] /\ v = t[start[n] + k]
    BY <1>8, <2>1
  <2>3. k \in 1 .. size /\ start[n] + k \in 1 .. L
    BY <1>6, <2>1, <2>2
  <2>4. start[n] + k = PlaceOf(n, k, size)
    BY <1>4, <2>1 DEF PlaceOf
  <2> QED
    BY <2>1, <2>2, <2>3, <2>4
<1>10. ASSUME NEW i \in 1 .. L PROVE \E n, k : Has(cuts, Len(cuts), n, k, t[i])
  <2>1. PICK n \in Nat \ {0}, k \in 1 .. size : i = (n - 1) * size + k
    BY RunOf
  <2>2. PICK u \in Int : u = (n - 1) * size
    BY <2>1
  <2>3. n \in 1 .. N
    <3>1. u < L
      BY <2>1, <2>2
    <3> QED
      BY <1>3, <2>2, <3>1
  <2>4. start[n] = u /\ k \in 1 .. end[n] - start[n]
    BY <1>4, <1>6, <2>1, <2>2, <2>3
  <2>5. Len(cuts[n]) = end[n] - start[n] /\ cuts[n][k] = t[u + k]
    BY <1>8, <2>3, <2>4
  <2>6. Has(cuts, N, n, k, t[i])
    BY <2>1, <2>2, <2>3, <2>4, <2>5 DEF Has
  <2> QED
    BY <1>7, <2>6
<1>11. \A n, k, v, p, q, u :
         Has(cuts, Len(cuts), n, k, v) /\ Has(cuts, Len(cuts), p, q, u) /\ ~(n = p /\ k = q) =>
           \E i, j \in 1 .. L : i # j /\ t[i] = v /\ t[j] = u
  <2> SUFFICES ASSUME NEW n, NEW k, NEW v, NEW p, NEW q, NEW u,
                      Has(cuts, Len(cuts), n, k, v), Has(cuts, Len(cuts), p, q, u), ~(n = p /\ k = q)
               PROVE  \E i, j \in 1 .. L : i # j /\ t[i] = v /\ t[j] = u
    OBVIOUS
  <2>1. PlaceOf(n, k, size) # PlaceOf(p, q, size)
    BY <1>9, RunsApart DEF PlaceOf
  <2> QED
    <3>1. PICK i \in 1 .. L : i = PlaceOf(n, k, size) /\ t[i] = v
      BY <1>9
    <3>2. PICK j \in 1 .. L : j = PlaceOf(p, q, size) /\ t[j] = u
      BY <1>9
    <3> QED
      BY <2>1, <3>1, <3>2
<1>12. \A n, k, v : Has(cuts, Len(cuts), n, k, v) => \E i \in 1 .. L : t[i] = v
  <2> SUFFICES ASSUME NEW n, NEW k, NEW v, Has(cuts, Len(cuts), n, k, v)
               PROVE  \E i \in 1 .. L : t[i] = v
    OBVIOUS
  <2>1. PlaceOf(n, k, size) \in 1 .. L /\ t[PlaceOf(n, k, size)] = v
    BY <1>9
  <2> QED
    BY <2>1
<1>13. CutOf(cuts, t)
  <2>1. \A n, k, v : Has(cuts, Len(cuts), n, k, v) => \E i \in 1 .. Len(t) : t[i] = v
    BY <1>1, <1>12
  <2>2. \A i \in 1 .. Len(t) : \E n, k : Has(cuts, Len(cuts), n, k, t[i])
    BY <1>1, <1>10
  <2>3. \A n, k, v, p, q, u :
          Has(cuts, Len(cuts), n, k, v) /\ Has(cuts, Len(cuts), p, q, u) /\ ~(n = p /\ k = q) =>
            \E i, j \in 1 .. Len(t) : i # j /\ t[i] = v /\ t[j] = u
    BY <1>1, <1>11
  <2> QED
    BY <2>1, <2>2, <2>3, Zenon DEF CutOf
<1> QED
  BY <1>7, <1>13

-----------------------------------------------------------------------------
(* Chunks, and index texts, made from the texts of blocks, or of chunks.     *)

\* A text is in a chunk, at this place of it.
InTexts(all, c, k, v) == c \in 1 .. Len(all) /\ k \in 1 .. Len(all[c].texts) /\ all[c].texts[k] = v

\* A text is at one place at most: of the lists, of the chunks.
Once(src, L, v) == \A b, i, e, j : Has(src, L, b, i, v) /\ Has(src, L, e, j, v) => b = e /\ i = j
OnceIn(all, v) == \A c, k, d, l : InTexts(all, c, k, v) /\ InTexts(all, d, l, v) => c = d /\ k = l

\* The lists are made of the runs of the texts.
CutUp(s, src, size, L) ==
  \A b \in 1 .. L : /\ Len(s[b]) = Len(Cut(src[b], size))
                    /\ \A n \in 1 .. Len(s[b]) : s[b][n].texts = Cut(src[b], size)[n]

\* A chunk is of this block.
OfBlock(all, s, src, L, c, b) ==
  /\ b \in 1 .. L
  /\ \E m \in 1 .. Len(s[b]) : all[c] = s[b][m]
  /\ \A k, v : InTexts(all, c, k, v) => \E i : Has(src, L, b, i, v)

\* What chunks made of blocks have.
MadeOf(all, s, src, L) ==
  /\ \A c \in 1 .. Len(all) : \E b : OfBlock(all, s, src, L, c, b)
  /\ \A b, i, v : Has(src, L, b, i, v) => \E c, k : InTexts(all, c, k, v)
  /\ \A v : Once(src, L, v) => OnceIn(all, v)

\* The runs of the texts of a block are its chunks.
RunsOf(s, src, size, L, b, cuts) ==
  /\ cuts = Cut(src[b], size) /\ CutOf(cuts, src[b])
  /\ \A m, e, k, v : Has(s, L, b, m, e) /\ k \in 1 .. Len(e.texts) /\ e.texts[k] = v =>
       Has(cuts, Len(cuts), m, k, v)
  /\ \A m, k, v : Has(cuts, Len(cuts), m, k, v) =>
       Has(s, L, b, m, s[b][m]) /\ k \in 1 .. Len(s[b][m].texts) /\ s[b][m].texts[k] = v

LEMMA RunHas ==
  ASSUME NEW X, NEW Y, NEW size \in Nat \ {0}, NEW L \in Nat, NEW s, NEW src,
         \A b \in 1 .. L : s[b] \in Seq(Y) /\ src[b] \in Seq(X), CutUp(s, src, size, L),
         NEW b \in 1 .. L
  PROVE  \E cuts : RunsOf(s, src, size, L, b, cuts)
<1>0. PICK cuts : cuts = Cut(src[b], size)
  OBVIOUS
<1>1. CutOf(cuts, src[b])
  <2>1. PICK t \in Seq(X) : t = src[b]
    OBVIOUS
  <2>2. PICK rs : rs = Cut(t, size)
    OBVIOUS
  <2>3. CutOf(rs, t)
    BY <2>2, CutHolds
  <2> QED
    BY <1>0, <2>1, <2>2, <2>3
<1>2. Len(s[b]) = Len(cuts) /\ \A n \in 1 .. Len(s[b]) : s[b][n].texts = cuts[n]
  BY <1>0, Zenon DEF CutUp
<1>3. \A m, e, k, v : Has(s, L, b, m, e) /\ k \in 1 .. Len(e.texts) /\ e.texts[k] = v =>
        Has(cuts, Len(cuts), m, k, v)
  <2> SUFFICES ASSUME NEW m, NEW e, NEW k, NEW v,
                      Has(s, L, b, m, e), k \in 1 .. Len(e.texts), e.texts[k] = v
               PROVE  Has(cuts, Len(cuts), m, k, v)
    OBVIOUS
  <2>1. m \in 1 .. Len(s[b]) /\ s[b][m] = e
    BY Zenon DEF Has
  <2>2. m \in 1 .. Len(cuts) /\ e.texts = cuts[m]
    BY <1>2, <2>1
  <2> QED
    BY <2>2, Zenon DEF Has
<1>4. \A m, k, v : Has(cuts, Len(cuts), m, k, v) =>
        Has(s, L, b, m, s[b][m]) /\ k \in 1 .. Len(s[b][m].texts) /\ s[b][m].texts[k] = v
  <2> SUFFICES ASSUME NEW m, NEW k, NEW v, Has(cuts, Len(cuts), m, k, v)
               PROVE  Has(s, L, b, m, s[b][m]) /\ k \in 1 .. Len(s[b][m].texts) /\ s[b][m].texts[k] = v
    OBVIOUS
  <2>1. m \in 1 .. Len(cuts) /\ k \in 1 .. Len(cuts[m]) /\ cuts[m][k] = v
    BY Zenon DEF Has
  <2>2. m \in 1 .. Len(s[b]) /\ s[b][m].texts = cuts[m]
    BY <1>2, <2>1
  <2>3. Has(s, L, b, m, s[b][m])
    BY <2>2, Zenon DEF Has
  <2> QED
    BY <2>1, <2>2, <2>3
<1> QED
  BY <1>0, <1>1, <1>3, <1>4, Zenon DEF RunsOf

LEMMA ChunksMadeOf ==
  ASSUME NEW X, NEW Y, NEW size \in Nat \ {0}, NEW L \in Nat, NEW s, NEW src, Len(s) = L,
         \A b \in 1 .. L : s[b] \in Seq(Y) /\ src[b] \in Seq(X), CutUp(s, src, size, L),
         NEW all, all = Joined(s)
  PROVE  all \in Seq(Y) /\ MadeOf(all, s, src, L)
<1>1. all \in Seq(Y) /\ Comes(all, s, L) /\ Brings(all, s, L) /\ Apart(all, s, L)
  BY JoinedFollows, Zenon DEF Follows
<1>a. \A b \in 1 .. L : \E cuts : RunsOf(s, src, size, L, b, cuts)
  BY RunHas
<1>2. ASSUME NEW c \in 1 .. Len(all), NEW b, NEW m, Has(s, L, b, m, all[c])
      PROVE  /\ \A k, v : InTexts(all, c, k, v) => \E i : Has(src, L, b, i, v)
             /\ OfBlock(all, s, src, L, c, b)
  <2>1. b \in 1 .. L /\ m \in 1 .. Len(s[b]) /\ all[c] = s[b][m]
    BY <1>2, Zenon DEF Has
  <2>2. PICK cuts : RunsOf(s, src, size, L, b, cuts)
    BY <1>a, <2>1
  <2>3. \A k, v : InTexts(all, c, k, v) => \E i : Has(src, L, b, i, v)
    <3> SUFFICES ASSUME NEW k, NEW v, InTexts(all, c, k, v) PROVE \E i : Has(src, L, b, i, v)
      OBVIOUS
    <3>1. k \in 1 .. Len(all[c].texts) /\ all[c].texts[k] = v
      BY Zenon DEF InTexts
    <3>a. CutOf(cuts, src[b]) /\ \A n, e, j, u : Has(s, L, b, n, e) /\ j \in 1 .. Len(e.texts) /\ e.texts[j] = u =>
                                  Has(cuts, Len(cuts), n, j, u)
      BY <2>2, Zenon DEF RunsOf
    <3>2. Has(cuts, Len(cuts), m, k, v) /\ CutOf(cuts, src[b])
      BY <1>2, <3>1, <3>a
    <3>3. PICK i \in 1 .. Len(src[b]) : src[b][i] = v
      BY <3>2, Zenon DEF CutOf
    <3> QED
      BY <2>1, <3>3, Zenon DEF Has
  <2> QED
    BY <2>1, <2>3, Zenon DEF OfBlock
<1>3. \A c \in 1 .. Len(all) : \E b : OfBlock(all, s, src, L, c, b)
  BY <1>1, <1>2, Zenon DEF Comes
<1>4. \A b, i, v : Has(src, L, b, i, v) => \E c, k : InTexts(all, c, k, v)
  <2> SUFFICES ASSUME NEW b, NEW i, NEW v, Has(src, L, b, i, v) PROVE \E c, k : InTexts(all, c, k, v)
    OBVIOUS
  <2>1. b \in 1 .. L /\ i \in 1 .. Len(src[b]) /\ src[b][i] = v
    BY Zenon DEF Has
  <2>2. PICK cuts : RunsOf(s, src, size, L, b, cuts)
    BY <1>a, <2>1
  <2>3. CutOf(cuts, src[b])
    BY <2>2, Zenon DEF RunsOf
  <2>4. PICK n, k : Has(cuts, Len(cuts), n, k, v)
    BY <2>1, <2>3, Zenon DEF CutOf
  <2>5. Has(s, L, b, n, s[b][n]) /\ k \in 1 .. Len(s[b][n].texts) /\ s[b][n].texts[k] = v
    BY <2>2, <2>4, Zenon DEF RunsOf
  <2>6. PICK c \in 1 .. Len(all) : all[c] = s[b][n]
    BY <1>1, <2>5, Zenon DEF Brings
  <2>7. InTexts(all, c, k, v)
    BY <2>5, <2>6 DEF InTexts
  <2> QED
    BY <2>7
<1>5. ASSUME NEW v, Once(src, L, v) PROVE OnceIn(all, v)
  <2> SUFFICES ASSUME NEW c, NEW k, NEW d, NEW l, InTexts(all, c, k, v), InTexts(all, d, l, v)
               PROVE  c = d /\ k = l
    BY Zenon DEF OnceIn
  <2>1. /\ c \in 1 .. Len(all) /\ k \in 1 .. Len(all[c].texts) /\ all[c].texts[k] = v
        /\ d \in 1 .. Len(all) /\ l \in 1 .. Len(all[d].texts) /\ all[d].texts[l] = v
    BY Zenon DEF InTexts
  <2>2. ASSUME NEW b, NEW m, NEW e, NEW n, Has(s, L, b, m, all[c]), Has(s, L, e, n, all[d])
        PROVE  b = e /\ m = n /\ k = l
    <3>1. b \in 1 .. L /\ e \in 1 .. L
      BY <2>2, Zenon DEF Has
    <3>2. PICK cuts : RunsOf(s, src, size, L, b, cuts)
      BY <1>a, <3>1
    <3>3. PICK cuts2 : RunsOf(s, src, size, L, e, cuts2)
      BY <1>a, <3>1
    <3>4. CutOf(cuts, src[b]) /\ Has(cuts, Len(cuts), m, k, v)
      BY <2>1, <2>2, <3>2, Zenon DEF RunsOf
    <3>5. CutOf(cuts2, src[e]) /\ Has(cuts2, Len(cuts2), n, l, v)
      BY <2>1, <2>2, <3>3, Zenon DEF RunsOf
    <3>6. b = e
      <4>1. PICK i \in 1 .. Len(src[b]) : src[b][i] = v
        BY <3>4, Zenon DEF CutOf
      <4>2. PICK j \in 1 .. Len(src[e]) : src[e][j] = v
        BY <3>5, Zenon DEF CutOf
      <4>3. Has(src, L, b, i, v) /\ Has(src, L, e, j, v)
        BY <3>1, <4>1, <4>2, Zenon DEF Has
      <4> QED
        BY <1>5, <4>3, Zenon DEF Once
    <3>7. ASSUME ~(m = n /\ k = l) PROVE FALSE
      <4>1. cuts = cuts2
        BY <3>2, <3>3, <3>6, Zenon DEF RunsOf
      <4>a. Has(cuts, Len(cuts), n, l, v)
        BY <3>5, <4>1
      <4>2. PICK i \in 1 .. Len(src[b]), j \in 1 .. Len(src[b]) : i # j /\ src[b][i] = v /\ src[b][j] = v
        <5>1. \A n1, k1, v1, n2, k2, v2 :
                Has(cuts, Len(cuts), n1, k1, v1) /\ Has(cuts, Len(cuts), n2, k2, v2) /\ ~(n1 = n2 /\ k1 = k2) =>
                  \E i, j \in 1 .. Len(src[b]) : i # j /\ src[b][i] = v1 /\ src[b][j] = v2
          BY <3>4, Zenon DEF CutOf
        <5> QED
          BY <3>4, <3>7, <4>a, <5>1
      <4>3. Has(src, L, b, i, v) /\ Has(src, L, b, j, v)
        BY <3>1, <4>2, Zenon DEF Has
      <4> QED
        BY <1>5, <4>2, <4>3, Zenon DEF Once
    <3> QED
      BY <3>6, <3>7
  <2>3. CASE c = d
    <3>1. PICK b, m : Has(s, L, b, m, all[c])
      BY <1>1, <2>1, Zenon DEF Comes
    <3> QED
      BY <2>2, <2>3, <3>1
  <2>4. CASE c # d
    <3>1. PICK b, m, e, n : Has(s, L, b, m, all[c]) /\ Has(s, L, e, n, all[d]) /\ ~(b = e /\ m = n)
      BY <1>1, <2>1, <2>4, Zenon DEF Apart
    <3> QED
      BY <2>2, <3>1
  <2> QED
    BY <2>3, <2>4
<1> QED
  BY <1>1, <1>3, <1>4, <1>5, Zenon DEF MadeOf

-----------------------------------------------------------------------------
(* A document d of a format f, whose file holds the pictures of r.           *)

\* The greatest of some numbers is the one that is greatest.
LEMMA MaxIs ==
  ASSUME NEW S \in SUBSET Nat, NEW m \in S, \A n \in S : n <= m
  PROVE  Max(S) = m
<1>1. PICK c : c = CHOOSE n \in S : \A k \in S : n >= k
  OBVIOUS
<1>2. m \in S /\ \A k \in S : m >= k
  OBVIOUS
<1>3. c \in S /\ \A k \in S : c >= k
  BY <1>1, <1>2, Zenon
<1>4. c = m
  BY <1>2, <1>3
<1> QED
  BY <1>1, <1>4, Zenon DEF Max

HeadIn(d, i) == d[i].kind \in {"heading", "page", "index"}
HeadsIn(d, i) == {h \in 1 .. i : HeadIn(d, h)}
AboveIn(d, i) == LastOf(HeadsIn(d, i))
PagesIn(d, i) == {h \in 1 .. i : d[h].kind = "page"}
IndexIn(d, i) == AboveIn(d, i) # Bare /\ d[AboveIn(d, i)].kind = "index"
ContentIn(d, i) == d[i].kind \in {"text", "table"} \/ (d[i].kind = "mark" /\ d[i].picture # Bare)
KeptIn(d, i) == ContentIn(d, i) /\ (IndexIn(d, i) => d[i].kind = "table")

\* The heading and the page of the section below a heading.
TitleOf(d, h) == IF h # Bare /\ d[h].kind = "index" THEN Bare ELSE h
PageOf(d, h) == IF h # Bare /\ d[h].kind = "page" THEN h ELSE Bare

DocumentOK(f, d, r) ==
  /\ f \in Formats /\ d \in Seq(Item) /\ r \subseteq Pictures
  /\ \A i \in 1 .. Len(d) : Fits(f, d[i]) /\ (d[i].picture # Bare => d[i].picture \in r)

LEMMA DocumentHas ==
  ASSUME NEW f, NEW d, NEW r, DocumentOK(f, d, r)
  PROVE  /\ Len(d) \in Nat /\ Bare \notin Nat /\ Bare \notin Pictures /\ Pictures \cap Nat = {}
         /\ \A i \in 1 .. Len(d) : d[i].kind \in Kinds /\ d[i].picture \in Pictures \cup {Bare}
         /\ f = "docx" => \A i \in 1 .. Len(d) : d[i].kind # "page"
         /\ f = "markdown" => \A i \in 1 .. Len(d) : d[i].kind \in {"heading", "page", "text"}
         /\ f = "pages" => \A i \in 1 .. Len(d) : d[i].kind \in {"text", "mark"} /\ d[i].picture = Bare
<1>1. d \in Seq(Item) /\ Len(d) \in Nat
  BY DEF DocumentOK
<1>2. \A i \in 1 .. Len(d) : d[i] \in Item
  <2> HIDE DEF Item
  <2> QED
    BY <1>1, ListHas
<1>3. \A i \in 1 .. Len(d) : Fits(f, d[i])
  BY Zenon DEF DocumentOK
<1>4. \A i \in 1 .. Len(d) : d[i].kind \in Kinds /\ d[i].picture \in Pictures \cup {Bare}
  BY <1>2 DEF Item
<1>5. f = "docx" => \A i \in 1 .. Len(d) : d[i].kind # "page"
  BY <1>3, Zenon DEF Fits
<1>6. f = "markdown" => \A i \in 1 .. Len(d) : d[i].kind \in {"heading", "page", "text"}
  BY <1>3 DEF Fits
<1>7. f = "pages" => \A i \in 1 .. Len(d) : d[i].kind \in {"text", "mark"} /\ d[i].picture = Bare
  BY <1>3 DEF Fits
<1> QED
  BY <1>1, <1>4, <1>5, <1>6, <1>7, SectionsAssumption

\* What is above an item: itself, or what is above the one before it.
AboveRules(d, n) ==
  /\ HeadIn(d, n) => AboveIn(d, n) = n
  /\ ~HeadIn(d, n) => AboveIn(d, n) = AboveIn(d, n - 1)

LEMMA AboveGoesOn ==
  ASSUME NEW d, NEW n \in Nat \ {0}
  PROVE  AboveRules(d, n)
<1>1. CASE HeadIn(d, n)
  <2>1. PICK S \in SUBSET Nat : S = HeadsIn(d, n)
    <3>1. \A h \in 1 .. n : h \in Nat
      OBVIOUS
    <3>2. \A h \in HeadsIn(d, n) : h \in Nat
      BY <3>1 DEF HeadsIn
    <3> QED
      BY <3>2
  <2>2. n \in S /\ \A k \in S : k <= n
    BY <1>1, <2>1 DEF HeadsIn
  <2>3. Max(S) = n
    BY <2>2, MaxIs
  <2>4. AboveIn(d, n) = n
    BY <2>1, <2>2, <2>3 DEF AboveIn, LastOf
  <2> QED
    BY <1>1, <2>4 DEF AboveRules
<1>2. CASE ~HeadIn(d, n)
  <2>1. \A h \in 1 .. n : HeadIn(d, h) => h \in 1 .. n - 1
    BY <1>2
  <2>2. \A h \in 1 .. n - 1 : h \in 1 .. n
    OBVIOUS
  <2>3. HeadsIn(d, n) = HeadsIn(d, n - 1)
    BY <2>1, <2>2, Zenon DEF HeadsIn
  <2> QED
    BY <1>2, <2>3, Zenon DEF AboveRules, AboveIn
<1> QED
  BY <1>1, <1>2

\* Nothing, or the last heading of all.
LastAbove(d, n) ==
  \/ AboveIn(d, n) = Bare /\ HeadsIn(d, n) = {}
  \/ /\ AboveIn(d, n) \in HeadsIn(d, n) /\ \A k \in HeadsIn(d, n) : k <= AboveIn(d, n)

LEMMA AboveIsLast ==
  ASSUME NEW d, NEW L \in Nat
  PROVE  \A n \in 0 .. L : LastAbove(d, n)
<1>1. PICK T : T = {n \in 0 .. L : LastAbove(d, n)}
  OBVIOUS
<1>2. 0 \in T
  <2>1. HeadsIn(d, 0) = {} /\ 0 \in 0 .. L
    BY DEF HeadsIn
  <2>2. AboveIn(d, 0) = Bare
    BY <2>1, Zenon DEF AboveIn, LastOf
  <2> QED
    BY <1>1, <2>1, <2>2, Zenon DEF LastAbove
<1>3. \A n \in 0 .. L - 1 : n \in T => n + 1 \in T
  <2> SUFFICES ASSUME NEW n \in 0 .. L - 1, n \in T PROVE n + 1 \in T
    OBVIOUS
  <2>1. PICK m \in Nat \ {0} : m = n + 1 /\ m \in 0 .. L /\ m - 1 = n
    <3>1. n + 1 \in Nat \ {0} /\ n + 1 \in 0 .. L /\ (n + 1) - 1 = n
      OBVIOUS
    <3> QED
      BY <3>1
  <2>2. LastAbove(d, n) /\ AboveRules(d, m)
    BY <1>1, AboveGoesOn
  <2>3. CASE HeadIn(d, m)
    <3>1. AboveIn(d, m) = m
      BY <2>2, <2>3, Zenon DEF AboveRules
    <3>2. m \in HeadsIn(d, m) /\ \A k \in HeadsIn(d, m) : k <= m
      BY <2>3 DEF HeadsIn
    <3>3. LastAbove(d, m)
      BY <3>1, <3>2, Zenon DEF LastAbove
    <3> QED
      BY <1>1, <2>1, <3>3, Zenon
  <2>4. CASE ~HeadIn(d, m)
    <3>1. AboveIn(d, m) = AboveIn(d, n)
      BY <2>1, <2>2, <2>4, Zenon DEF AboveRules
    <3>2. HeadsIn(d, m) = HeadsIn(d, n)
      <4>1. \A h \in 1 .. m : HeadIn(d, h) => h \in 1 .. n
        BY <2>1, <2>4
      <4>2. \A h \in 1 .. n : h \in 1 .. m
        BY <2>1
      <4> QED
        BY <4>1, <4>2, Zenon DEF HeadsIn
    <3>3. LastAbove(d, m)
      BY <2>2, <3>1, <3>2, Zenon DEF LastAbove
    <3> QED
      BY <1>1, <2>1, <3>3, Zenon
  <2> QED
    BY <2>3, <2>4
<1>4. L \in T
  <2>1. \A n \in 0 .. L : n \in T
    BY <1>2, <1>3, StepByStep
  <2> QED
    BY <2>1
<1> QED
  <2>1. \A n \in 0 .. L : n \in T
    BY <1>2, <1>3, StepByStep
  <2> QED
    BY <1>1, <2>1, Zenon

\* Under the heading of a page, an item is on that page.
LEMMA PageIsLast ==
  ASSUME NEW d, NEW i \in Nat, AboveIn(d, i) # Bare, d[AboveIn(d, i)].kind = "page"
  PROVE  LastOf(PagesIn(d, i)) = AboveIn(d, i)
<1>1. LastAbove(d, i)
  <2>1. i \in 0 .. i
    OBVIOUS
  <2> QED
    BY <2>1, AboveIsLast
<1>2. PICK h : h = AboveIn(d, i)
  OBVIOUS
<1>3. h \in HeadsIn(d, i) /\ \A k \in HeadsIn(d, i) : k <= h
  BY <1>1, <1>2, Zenon DEF LastAbove
<1>4. PICK S \in SUBSET Nat : S = PagesIn(d, i)
  <2>1. \A k \in 1 .. i : k \in Nat
    OBVIOUS
  <2>2. \A k \in PagesIn(d, i) : k \in Nat
    BY <2>1 DEF PagesIn
  <2> QED
    BY <2>2
<1>5. h \in S
  BY <1>2, <1>3, <1>4 DEF PagesIn, HeadsIn
<1>6. \A k \in S : k <= h
  <2>1. \A k \in S : k \in HeadsIn(d, i)
    BY <1>4 DEF PagesIn, HeadsIn, HeadIn
  <2> QED
    BY <1>3, <2>1
<1>7. Max(S) = h
  BY <1>5, <1>6, MaxIs
<1> QED
  BY <1>2, <1>4, <1>5, <1>7 DEF LastOf

-----------------------------------------------------------------------------
(* Blocks.                                                                  *)

\* One more at the end of a list.
LEMMA AppendHas ==
  ASSUME NEW X, NEW s \in Seq(X), NEW e \in X
  PROVE  /\ Append(s, e) \in Seq(X) /\ Len(Append(s, e)) = Len(s) + 1
         /\ \A n \in 1 .. Len(s) : Append(s, e)[n] = s[n]
         /\ Append(s, e)[Len(s) + 1] = e
  OBVIOUS

Places(d) == 1 .. Len(d)
Shown(d) == Places(d) \cup Pictures
PlaceOrBare(d) == Places(d) \cup {Bare}
BlockSet(d) == [heading : PlaceOrBare(d), page : PlaceOrBare(d), body : Seq(Shown(d))]

Holds(s, v) == \E j \in 1 .. Len(s) : s[j] = v

\* A number of a block: its heading's, or that of an item in its body.
NumOf(block, v) == v \in Nat /\ (block.heading = v \/ Holds(block.body, v))

\* A block is of the section below h.
BlockUnder(f, d, block, h) ==
  /\ h \in PlaceOrBare(d) /\ block.heading = TitleOf(d, h) /\ (h # Bare => HeadIn(d, h))
  /\ \A j \in 1 .. Len(block.body) : block.body[j] \in Nat =>
       ~HeadIn(d, block.body[j]) /\ AboveIn(d, block.body[j]) = h
  /\ \A i, j \in 1 .. Len(block.body) :
       i < j /\ block.body[i] \in Nat /\ block.body[j] \in Nat => block.body[i] < block.body[j]
  /\ f = "docx" => block.body # <<>>
  /\ f # "docx" => \A j \in 1 .. Len(block.body) : block.body[j] \in Nat
  /\ f = "pages" => block.page \in Nat /\ \A j \in 1 .. Len(block.body) : block.body[j] = block.page
  /\ f # "pages" => block.page = PageOf(d, h)

\* The blocks read from the first n items: of their types, each of a section, in the order
\* of the document, with all that is to be kept.
Typed(d, bs) == bs \in Seq(BlockSet(d))
Placed(f, d, bs) == \A b \in 1 .. Len(bs) : \E h : BlockUnder(f, d, bs[b], h)
UpTo(bs, n) == \A b \in 1 .. Len(bs) : \A v : NumOf(bs[b], v) => v <= n
InOrder(bs) ==
  \A b, c \in 1 .. Len(bs) : b < c => \A u, v : NumOf(bs[b], u) /\ NumOf(bs[c], v) => u < v
Covered(d, bs, n) ==
  \A i \in 1 .. n : KeptIn(d, i) => \E b \in 1 .. Len(bs) : Holds(bs[b].body, i)
BlocksRead(f, d, n, bs) ==
  Typed(d, bs) /\ Placed(f, d, bs) /\ UpTo(bs, n) /\ InOrder(bs) /\ Covered(d, bs, n)

\* The body that is being read, and the block it would make.
BodyOK(d, n, b) ==
  /\ b \in Seq(Places(d))
  /\ \A j \in 1 .. Len(b) : b[j] <= n /\ ~HeadIn(d, b[j]) /\ AboveIn(d, b[j]) = AboveIn(d, n)
  /\ \A i, j \in 1 .. Len(b) : i < j => b[i] < b[j]
BlockNow(d, n, b) == Block(TitleOf(d, AboveIn(d, n)), PageOf(d, AboveIn(d, n)), b)
AfterAll(bs, block) ==
  \A b \in 1 .. Len(bs) : \A u, v : NumOf(bs[b], u) /\ NumOf(block, v) => u < v
CoveredWith(d, bs, b, n) ==
  \A i \in 1 .. n : KeptIn(d, i) => Holds(b, i) \/ \E c \in 1 .. Len(bs) : Holds(bs[c].body, i)
PartRead(f, d, n, b, bs) ==
  /\ BodyOK(d, n, b) /\ Typed(d, bs) /\ Placed(f, d, bs) /\ UpTo(bs, n) /\ InOrder(bs)
  /\ AfterAll(bs, BlockNow(d, n, b)) /\ CoveredWith(d, bs, b, n)

\* What is in the blocks, or in one more, is in all of them.
Grown(bs, block, more) ==
  \A i : (\E b \in 1 .. Len(bs) : Holds(bs[b].body, i)) \/ Holds(block.body, i) =>
         \E b \in 1 .. Len(more) : Holds(more[b].body, i)
NumsTo(block, n) == \A v : NumOf(block, v) => v <= n

\* What is above an item, by its type.
LEMMA AboveType ==
  ASSUME NEW f, NEW d, NEW r, DocumentOK(f, d, r), NEW n \in 0 .. Len(d)
  PROVE  /\ AboveIn(d, n) \in PlaceOrBare(d)
         /\ AboveIn(d, n) # Bare => /\ HeadIn(d, AboveIn(d, n)) /\ AboveIn(d, n) <= n
                                    /\ AboveIn(d, n) \in Nat /\ AboveIn(d, n) \in 1 .. Len(d)
<1>1. Len(d) \in Nat
  BY DocumentHas
<1>2. LastAbove(d, n)
  BY <1>1, AboveIsLast
<1>3. CASE AboveIn(d, n) = Bare
  BY <1>3, Zenon DEF PlaceOrBare
<1>4. CASE AboveIn(d, n) # Bare
  <2>1. AboveIn(d, n) \in HeadsIn(d, n)
    BY <1>2, <1>4, Zenon DEF LastAbove
  <2>2. PICK h : h = AboveIn(d, n)
    OBVIOUS
  <2>3. h \in 1 .. n /\ HeadIn(d, h)
    BY <2>1, <2>2, Zenon DEF HeadsIn
  <2>4. h \in 1 .. Len(d) /\ h <= n /\ h \in Nat
    BY <1>1, <2>3
  <2> QED
    BY <2>2, <2>3, <2>4 DEF PlaceOrBare, Places
<1> QED
  BY <1>3, <1>4

\* The block a flush makes.
LEMMA NowHas ==
  ASSUME NEW f, NEW d, NEW r, DocumentOK(f, d, r), NEW n \in 0 .. Len(d), NEW b, BodyOK(d, n, b),
         f # "pages", f = "docx" => b # <<>>,
         NEW block, block = BlockNow(d, n, b)
  PROVE  /\ block \in BlockSet(d) /\ BlockUnder(f, d, block, AboveIn(d, n))
         /\ block.body = b /\ NumsTo(block, n)
<1>1. PICK h : h = AboveIn(d, n)
  OBVIOUS
<1>2. /\ Len(d) \in Nat /\ Bare \notin Nat /\ h \in PlaceOrBare(d)
      /\ h # Bare => HeadIn(d, h) /\ h <= n /\ h \in Nat /\ h \in 1 .. Len(d)
  BY <1>1, AboveType, DocumentHas
<1>3. TitleOf(d, h) \in {h, Bare} /\ PageOf(d, h) \in {h, Bare}
  BY DEF TitleOf, PageOf
<1>4. block.heading = TitleOf(d, h) /\ block.page = PageOf(d, h) /\ block.body = b
  BY <1>1 DEF BlockNow, Block
<1>5. block = [heading |-> TitleOf(d, h), page |-> PageOf(d, h), body |-> b]
  BY <1>1, Zenon DEF BlockNow, Block
<1>6. /\ b \in Seq(Places(d))
      /\ \A j \in 1 .. Len(b) : b[j] <= n /\ ~HeadIn(d, b[j]) /\ AboveIn(d, b[j]) = h
      /\ \A i, j \in 1 .. Len(b) : i < j => b[i] < b[j]
  BY <1>1, Zenon DEF BodyOK
<1>7. \A j \in 1 .. Len(b) : b[j] \in 1 .. Len(d) /\ b[j] \in Nat
  BY <1>2, <1>6 DEF Places
<1>8. b \in Seq(Shown(d))
  BY <1>6 DEF Shown
<1>9. {h, Bare} \subseteq PlaceOrBare(d)
  BY <1>2 DEF PlaceOrBare
<1>10. block \in BlockSet(d)
  BY <1>3, <1>5, <1>8, <1>9 DEF BlockSet
<1>11. BlockUnder(f, d, block, h)
  BY <1>2, <1>4, <1>6, Zenon, <1>7 DEF BlockUnder
<1>12. \A v : NumOf(block, v) => v <= n
  <2> SUFFICES ASSUME NEW v, NumOf(block, v) PROVE v <= n
    OBVIOUS
  <2>1. v \in Nat /\ (TitleOf(d, h) = v \/ \E j \in 1 .. Len(b) : b[j] = v)
    BY <1>4, Zenon DEF NumOf, Holds
  <2> QED
    BY <1>2, <1>3, <1>6, <2>1
<1> QED
  BY <1>1, <1>4, <1>10, <1>11, <1>12 DEF NumsTo

\* A block after the others keeps their order.
LEMMA BlockAdded ==
  ASSUME NEW f, NEW d, NEW bs, NEW n, Typed(d, bs), Placed(f, d, bs), UpTo(bs, n), InOrder(bs),
         NEW block \in BlockSet(d), NEW h, BlockUnder(f, d, block, h), AfterAll(bs, block),
         NumsTo(block, n),
         NEW more, more = Append(bs, block)
  PROVE  /\ Typed(d, more) /\ Placed(f, d, more) /\ UpTo(more, n) /\ InOrder(more)
         /\ Grown(bs, block, more)
<1>1. PICK L \in Nat : L = Len(bs)
  BY DEF Typed
<1>2. /\ more \in Seq(BlockSet(d)) /\ Len(more) = L + 1
      /\ \A b \in 1 .. L : more[b] = bs[b]
      /\ more[L + 1] = block
  <2> HIDE DEF BlockSet
  <2> QED
    BY <1>1, AppendHas DEF Typed
<1>3. \A b \in 1 .. L + 1 : b \in 1 .. L \/ b = L + 1
  OBVIOUS
<1>4. (\A b \in 1 .. L : b \in 1 .. L + 1) /\ L + 1 \in 1 .. L + 1
  OBVIOUS
<1>5. \A b, c \in 1 .. L + 1 : b < c => b \in 1 .. L
  OBVIOUS
<1>6. Placed(f, d, more)
  <2>1. \A b \in 1 .. L : \E k : BlockUnder(f, d, bs[b], k)
    BY <1>1, Zenon DEF Placed
  <2>2. \A b \in 1 .. L + 1 : \E k : BlockUnder(f, d, more[b], k)
    <3> SUFFICES ASSUME NEW b \in 1 .. L + 1 PROVE \E k : BlockUnder(f, d, more[b], k)
      OBVIOUS
    <3>1. CASE b \in 1 .. L
      BY <1>2, <2>1, <3>1
    <3>2. CASE b = L + 1
      <4>1. BlockUnder(f, d, more[b], h)
        BY <1>2, <3>2
      <4> QED
        BY <4>1
    <3> QED
      BY <1>3, <3>1, <3>2
  <2> QED
    BY <1>2, <2>2, Zenon DEF Placed
<1>7. UpTo(more, n)
  <2>1. \A b \in 1 .. L : \A v : NumOf(bs[b], v) => v <= n
    BY <1>1, Zenon DEF UpTo
  <2>a. \A v : NumOf(block, v) => v <= n
    BY Zenon DEF NumsTo
  <2>2. \A b \in 1 .. L + 1 : \A v : NumOf(more[b], v) => v <= n
    BY <1>2, <1>3, <2>1, <2>a
  <2> QED
    BY <1>2, <2>2, Zenon DEF UpTo
<1>8. InOrder(more)
  <2>1. \A b, c \in 1 .. L : b < c => \A u, v : NumOf(bs[b], u) /\ NumOf(bs[c], v) => u < v
    BY <1>1, Zenon DEF InOrder
  <2>2. \A b \in 1 .. L : \A u, v : NumOf(bs[b], u) /\ NumOf(block, v) => u < v
    BY <1>1, Zenon DEF AfterAll
  <2>3. ASSUME NEW b \in 1 .. L + 1, NEW c \in 1 .. L + 1, b < c, NEW u, NEW v,
               NumOf(more[b], u), NumOf(more[c], v)
        PROVE  u < v
    <3>1. b \in 1 .. L /\ NumOf(bs[b], u)
      BY <1>2, <1>5, <2>3
    <3>2. CASE c \in 1 .. L
      BY <1>2, <2>1, <2>3, <3>1, <3>2
    <3>3. CASE c = L + 1
      BY <1>2, <2>2, <2>3, <3>1, <3>3
    <3> QED
      BY <1>3, <3>2, <3>3
  <2> QED
    BY <1>2, <2>3, Zenon DEF InOrder
<1>9. ASSUME NEW i, (\E b \in 1 .. L : Holds(bs[b].body, i)) \/ Holds(block.body, i)
      PROVE  \E b \in 1 .. L + 1 : Holds(more[b].body, i)
  BY <1>2, <1>4, <1>9
<1>10. Grown(bs, block, more)
  BY <1>1, <1>2, <1>9, Zenon DEF Grown
<1> QED
  BY <1>1, <1>2, <1>6, <1>7, <1>8, <1>10 DEF Typed

-----------------------------------------------------------------------------
(* Reading.                                                                 *)

\* A section that ends makes a block.
LEMMA FlushGives ==
  ASSUME NEW f, NEW d, NEW r, DocumentOK(f, d, r), NEW n \in 0 .. Len(d), NEW b, NEW bs,
         PartRead(f, d, n, b, bs), f # "pages", f = "docx" => b # <<>>
  PROVE  BlocksRead(f, d, n, Append(bs, BlockNow(d, n, b)))
<1>1. PICK block : block = BlockNow(d, n, b)
  OBVIOUS
<1>2. PICK more : more = Append(bs, block)
  OBVIOUS
<1>3. /\ BodyOK(d, n, b) /\ Typed(d, bs) /\ Placed(f, d, bs) /\ UpTo(bs, n) /\ InOrder(bs)
      /\ AfterAll(bs, block) /\ CoveredWith(d, bs, b, n)
  BY <1>1, Zenon DEF PartRead
<1>4. /\ block \in BlockSet(d) /\ BlockUnder(f, d, block, AboveIn(d, n))
      /\ block.body = b /\ NumsTo(block, n)
  BY <1>1, <1>3, NowHas
<1>5. /\ Typed(d, more) /\ Placed(f, d, more) /\ UpTo(more, n) /\ InOrder(more)
      /\ Grown(bs, block, more)
  <2> HIDE DEF BlockSet
  <2> QED
    BY <1>2, <1>3, <1>4, BlockAdded
<1>6. Covered(d, more, n)
  <2>1. \A i \in 1 .. n : KeptIn(d, i) => Holds(b, i) \/ \E c \in 1 .. Len(bs) : Holds(bs[c].body, i)
    BY <1>3, Zenon DEF CoveredWith
  <2>2. \A i \in 1 .. n : KeptIn(d, i) => \E c \in 1 .. Len(more) : Holds(more[c].body, i)
    BY <1>4, <1>5, <2>1 DEF Grown
  <2> QED
    BY <2>2, Zenon DEF Covered
<1> QED
  BY <1>1, <1>2, <1>5, <1>6 DEF BlocksRead

\* Or none, when it had no body.
LEMMA NothingToFlush ==
  ASSUME NEW f, NEW d, NEW n, NEW bs, PartRead(f, d, n, <<>>, bs)
  PROVE  BlocksRead(f, d, n, bs)
<1>1. \A i : ~Holds(<<>>, i)
  BY DEF Holds
<1>2. Covered(d, bs, n)
  BY <1>1, Zenon DEF PartRead, CoveredWith, Covered
<1> QED
  BY <1>2, Zenon DEF PartRead, BlocksRead

\* No number is in an empty body, nor before the first heading.
LEMMA NumOfNow ==
  ASSUME NEW d, NEW n, NEW b, NEW v, NumOf(BlockNow(d, n, b), v)
  PROVE  v \in Nat /\ (v = TitleOf(d, AboveIn(d, n)) \/ Holds(b, v))
  BY DEF NumOf, BlockNow, Block

\* A heading opens a section.
LEMMA HeadingOpens ==
  ASSUME NEW f, NEW d, NEW r, DocumentOK(f, d, r), NEW n \in Nat, n + 1 \in 1 .. Len(d), NEW bs,
         BlocksRead(f, d, n, bs), HeadIn(d, n + 1)
  PROVE  PartRead(f, d, n + 1, <<>>, bs)
<1>1. PICK m \in Nat \ {0} : m = n + 1 /\ m - 1 = n /\ m \in 1 .. Len(d)
  <2>1. n + 1 \in Nat \ {0} /\ (n + 1) - 1 = n
    OBVIOUS
  <2> QED
    BY <2>1
<1>2. AboveIn(d, m) = m /\ HeadIn(d, m)
  BY <1>1, AboveGoesOn DEF AboveRules
<1>3. Typed(d, bs) /\ Placed(f, d, bs) /\ UpTo(bs, n) /\ InOrder(bs) /\ Covered(d, bs, n)
  BY Zenon DEF BlocksRead
<1>4. BodyOK(d, m, <<>>)
  BY DEF BodyOK
<1>5. \A b \in 1 .. Len(bs) : \A u : NumOf(bs[b], u) => u <= n /\ u \in Nat
  <2>1. \A block, u : NumOf(block, u) => u \in Nat
    BY Zenon DEF NumOf
  <2> QED
    BY <1>3, <2>1, Zenon DEF UpTo
<1>6. UpTo(bs, m)
  <2>a. \A u \in Nat : u <= n => u <= m
    BY <1>1
  <2>1. \A b \in 1 .. Len(bs) : \A u : NumOf(bs[b], u) => u <= m
    BY <1>5, <2>a, Zenon
  <2> QED
    BY <2>1, Zenon DEF UpTo
<1>7. AfterAll(bs, BlockNow(d, m, <<>>))
  <2>1. \A v : ~Holds(<<>>, v)
    BY DEF Holds
  <2>2. \A v : NumOf(BlockNow(d, m, <<>>), v) => v = m
    <3> SUFFICES ASSUME NEW v, NumOf(BlockNow(d, m, <<>>), v) PROVE v = m
      OBVIOUS
    <3>1. v \in Nat /\ v = TitleOf(d, m)
      BY <1>2, <2>1, NumOfNow
    <3>2. TitleOf(d, m) \in {m, Bare} /\ Bare \notin Nat
      BY SectionsAssumption DEF TitleOf
    <3> QED
      BY <3>1, <3>2
  <2>a. \A u \in Nat : u <= n => u < m
    BY <1>1
  <2>3. \A b \in 1 .. Len(bs) : \A u : NumOf(bs[b], u) => u < m
    BY <1>5, <2>a, Zenon
  <2> QED
    BY <2>2, <2>3, Zenon DEF AfterAll
<1>8. CoveredWith(d, bs, <<>>, m)
  <2>1. ~KeptIn(d, m)
    BY <1>2 DEF KeptIn, ContentIn, HeadIn
  <2>2. \A i \in 1 .. m : i \in 1 .. n \/ i = m
    BY <1>1
  <2>3. \A i \in 1 .. n : KeptIn(d, i) => \E c \in 1 .. Len(bs) : Holds(bs[c].body, i)
    BY <1>3, Zenon DEF Covered
  <2> QED
    BY <2>1, <2>2, <2>3, Zenon DEF CoveredWith
<1>9. PartRead(f, d, m, <<>>, bs)
  BY <1>3, <1>4, <1>6, <1>7, <1>8, Zenon DEF PartRead
<1> QED
  BY <1>1, <1>9

\* An item is added to the body, or is none to be kept.
LEMMA ItemRead ==
  ASSUME NEW f, NEW d, NEW r, DocumentOK(f, d, r), NEW n \in Nat, n + 1 \in 1 .. Len(d),
         NEW b, NEW bs, PartRead(f, d, n, b, bs), ~HeadIn(d, n + 1),
         NEW more, more = Append(b, n + 1) \/ (more = b /\ ~KeptIn(d, n + 1))
  PROVE  PartRead(f, d, n + 1, more, bs)
<1>1. PICK m \in Nat \ {0} : m = n + 1 /\ m - 1 = n /\ m \in Places(d)
  <2>1. n + 1 \in Nat \ {0} /\ (n + 1) - 1 = n /\ n + 1 \in Places(d)
    BY DEF Places
  <2> QED
    BY <2>1
<1>2. AboveIn(d, m) = AboveIn(d, n) /\ ~HeadIn(d, m)
  BY <1>1, AboveGoesOn DEF AboveRules
<1>3. /\ BodyOK(d, n, b) /\ Typed(d, bs) /\ Placed(f, d, bs) /\ UpTo(bs, n) /\ InOrder(bs)
      /\ AfterAll(bs, BlockNow(d, n, b)) /\ CoveredWith(d, bs, b, n)
  BY Zenon DEF PartRead
<1>4. /\ b \in Seq(Places(d))
      /\ \A j \in 1 .. Len(b) : b[j] <= n /\ ~HeadIn(d, b[j]) /\ AboveIn(d, b[j]) = AboveIn(d, n)
      /\ \A i, j \in 1 .. Len(b) : i < j => b[i] < b[j]
  BY <1>3, Zenon DEF BodyOK
<1>5. PICK L \in Nat : L = Len(b)
  BY <1>4
<1>6. \A j \in 1 .. L : b[j] \in Nat /\ b[j] \in Places(d)
  <2>1. Len(d) \in Nat
    BY DocumentHas
  <2> QED
    BY <1>4, <1>5, <2>1 DEF Places
<1>7. \/ more = b /\ ~KeptIn(d, m)
      \/ /\ more \in Seq(Places(d)) /\ Len(more) = L + 1 /\ more[L + 1] = m
         /\ \A j \in 1 .. L : more[j] = b[j]
  <2>1. CASE more = Append(b, m)
    <3> HIDE DEF Places
    <3>1. /\ Append(b, m) \in Seq(Places(d)) /\ Len(Append(b, m)) = Len(b) + 1
          /\ \A j \in 1 .. Len(b) : Append(b, m)[j] = b[j]
          /\ Append(b, m)[Len(b) + 1] = m
      BY <1>1, <1>4, AppendHas
    <3> QED
      BY <1>5, <2>1, <3>1
  <2> QED
    BY <1>1, <2>1
<1>8. BodyOK(d, m, more)
  <2>1. CASE more = b
    <3>1. \A j \in 1 .. L : b[j] <= m
      BY <1>1, <1>4, <1>5, <1>6
    <3>2. \A j \in 1 .. Len(more) : more[j] <= m /\ ~HeadIn(d, more[j]) /\ AboveIn(d, more[j]) = AboveIn(d, m)
      BY <1>2, <1>4, <1>5, <2>1, <3>1
    <3> QED
      BY <1>4, <2>1, <3>2, Zenon DEF BodyOK
  <2>2. CASE /\ more \in Seq(Places(d)) /\ Len(more) = L + 1 /\ more[L + 1] = m
             /\ \A j \in 1 .. L : more[j] = b[j]
    <3>1. \A j \in 1 .. L + 1 : j \in 1 .. L \/ j = L + 1
      OBVIOUS
    <3>2. \A j \in 1 .. L : b[j] <= m /\ b[j] < m
      BY <1>1, <1>4, <1>5, <1>6
    <3>3. \A j \in 1 .. L + 1 :
            more[j] <= m /\ ~HeadIn(d, more[j]) /\ AboveIn(d, more[j]) = AboveIn(d, m)
      <4> SUFFICES ASSUME NEW j \in 1 .. L + 1
                   PROVE  more[j] <= m /\ ~HeadIn(d, more[j]) /\ AboveIn(d, more[j]) = AboveIn(d, m)
        OBVIOUS
      <4>1. CASE j \in 1 .. L
        BY <1>2, <1>4, <1>5, <2>2, <3>2, <4>1
      <4>2. CASE j = L + 1
        BY <1>2, <2>2, <4>2
      <4> QED
        BY <3>1, <4>1, <4>2
    <3>4. ASSUME NEW i \in 1 .. L + 1, NEW j \in 1 .. L + 1, i < j PROVE more[i] < more[j]
      <4>1. i \in 1 .. L
        BY <3>4
      <4>2. CASE j \in 1 .. L
        BY <1>4, <1>5, <2>2, <3>4, <4>1, <4>2
      <4>3. CASE j = L + 1
        BY <2>2, <3>2, <4>1, <4>3
      <4> QED
        BY <3>1, <4>2, <4>3
    <3> QED
      BY <2>2, <3>3, <3>4, Zenon DEF BodyOK
  <2> QED
    BY <1>7, <2>1, <2>2
<1>9. \A v : Holds(more, v) => Holds(b, v) \/ v = m
  <2>1. CASE more = b
    BY <2>1
  <2>2. CASE /\ more \in Seq(Places(d)) /\ Len(more) = L + 1 /\ more[L + 1] = m
             /\ \A j \in 1 .. L : more[j] = b[j]
    <3>1. \A j \in 1 .. L + 1 : j \in 1 .. L \/ j = L + 1
      OBVIOUS
    <3>2. \A j \in 1 .. L + 1 : (\E i \in 1 .. L : more[j] = b[i]) \/ more[j] = m
      BY <2>2, <3>1
    <3> QED
      BY <1>5, <2>2, <3>2 DEF Holds
  <2> QED
    BY <1>7, <2>1, <2>2
<1>10. \A v : Holds(b, v) => Holds(more, v)
  <2>1. CASE more = b
    BY <2>1
  <2>2. CASE /\ more \in Seq(Places(d)) /\ Len(more) = L + 1 /\ more[L + 1] = m
             /\ \A j \in 1 .. L : more[j] = b[j]
    <3>1. \A j \in 1 .. L : j \in 1 .. L + 1
      OBVIOUS
    <3> QED
      BY <1>5, <2>2, <3>1 DEF Holds
  <2> QED
    BY <1>7, <2>1, <2>2
<1>11. KeptIn(d, m) => Holds(more, m)
  <2>1. L + 1 \in 1 .. L + 1
    OBVIOUS
  <2> QED
    BY <1>7, <2>1 DEF Holds
<1>12. \A c \in 1 .. Len(bs) : \A u : NumOf(bs[c], u) => u <= n /\ u \in Nat
  <2>1. \A block, u : NumOf(block, u) => u \in Nat
    BY Zenon DEF NumOf
  <2> QED
    BY <1>3, <2>1, Zenon DEF UpTo
<1>13. UpTo(bs, m)
  <2>a. \A u \in Nat : u <= n => u <= m
    BY <1>1
  <2>1. \A c \in 1 .. Len(bs) : \A u : NumOf(bs[c], u) => u <= m
    BY <1>12, <2>a, Zenon
  <2> QED
    BY <2>1, Zenon DEF UpTo
<1>14. AfterAll(bs, BlockNow(d, m, more))
  <2>1. ASSUME NEW v, NumOf(BlockNow(d, m, more), v)
        PROVE  NumOf(BlockNow(d, n, b), v) \/ v = m
    <3>1. v \in Nat /\ (v = TitleOf(d, AboveIn(d, n)) \/ Holds(more, v))
      BY <1>2, <2>1, NumOfNow
    <3>2. v \in Nat /\ (v = TitleOf(d, AboveIn(d, n)) \/ Holds(b, v)) => NumOf(BlockNow(d, n, b), v)
      BY DEF NumOf, BlockNow, Block
    <3> QED
      BY <1>9, <3>1, <3>2
  <2>a. \A u \in Nat : u <= n => u < m
    BY <1>1
  <2>2. \A c \in 1 .. Len(bs) : \A u : NumOf(bs[c], u) => u < m
    BY <1>12, <2>a, Zenon
  <2>3. \A c \in 1 .. Len(bs) : \A u, v : NumOf(bs[c], u) /\ NumOf(BlockNow(d, n, b), v) => u < v
    BY <1>3, Zenon DEF AfterAll
  <2>4. ASSUME NEW c \in 1 .. Len(bs), NEW u, NEW v, NumOf(bs[c], u), NumOf(BlockNow(d, m, more), v)
        PROVE  u < v
    <3>1. NumOf(BlockNow(d, n, b), v) \/ v = m
      BY <2>1, <2>4
    <3> QED
      BY <2>2, <2>3, <2>4, <3>1
  <2> QED
    BY <2>4, Zenon DEF AfterAll
<1>15. CoveredWith(d, bs, more, m)
  <2>1. \A i \in 1 .. m : i \in 1 .. n \/ i = m
    BY <1>1
  <2>2. \A i \in 1 .. n : KeptIn(d, i) => Holds(b, i) \/ \E c \in 1 .. Len(bs) : Holds(bs[c].body, i)
    BY <1>3, Zenon DEF CoveredWith
  <2>3. \A i \in 1 .. m : KeptIn(d, i) => Holds(more, i) \/ \E c \in 1 .. Len(bs) : Holds(bs[c].body, i)
    BY <1>10, <1>11, <2>1, <2>2
  <2> QED
    BY <2>3, Zenon DEF CoveredWith
<1>16. PartRead(f, d, m, more, bs)
  BY <1>3, <1>8, <1>13, <1>14, <1>15, Zenon DEF PartRead
<1> QED
  BY <1>1, <1>16

\* A page of a text layer is a block of its own.
LEMMA PageAdded ==
  ASSUME NEW f, NEW d, NEW r, DocumentOK(f, d, r), f = "pages", NEW n \in Nat, n + 1 \in 1 .. Len(d),
         NEW bs, PartRead(f, d, n, <<>>, bs),
         NEW block, block = Block(Bare, n + 1, IF d[n + 1].kind = "text" THEN <<n + 1>> ELSE <<>>)
  PROVE  PartRead(f, d, n + 1, <<>>, Append(bs, block))
<1>1. PICK m \in Nat \ {0} : m = n + 1 /\ m \in Places(d)
  <2>1. n + 1 \in Nat \ {0} /\ n + 1 \in Places(d)
    BY DEF Places
  <2> QED
    BY <2>1
<1>2. PICK one : one = IF d[m].kind = "text" THEN <<m>> ELSE <<>>
  OBVIOUS
<1>3. block = [heading |-> Bare, page |-> m, body |-> one]
  BY <1>1, <1>2 DEF Block
<1>4. one \in Seq(Shown(d)) /\ \A j \in 1 .. Len(one) : one[j] = m /\ j = 1
  <2>1. m \in Shown(d)
    BY <1>1 DEF Shown
  <2> HIDE DEF Shown
  <2>2. CASE d[m].kind = "text"
    <3>1. one = <<m>>
      BY <1>2, <2>2
    <3>2. one \in Seq(Shown(d)) /\ Len(one) = 1 /\ one[1] = m
      BY <2>1, <3>1
    <3>3. \A j \in 1 .. 1 : j = 1
      OBVIOUS
    <3> QED
      BY <3>2, <3>3
  <2>3. CASE d[m].kind # "text"
    <3>1. one = <<>>
      BY <1>2, <2>3
    <3>2. one \in Seq(Shown(d)) /\ Len(one) = 0 /\ 1 .. 0 = {}
      BY <3>1
    <3> QED
      BY <3>2
  <2> QED
    BY <2>2, <2>3
<1>5. block.heading = Bare /\ block.page = m /\ block.body = one
  BY <1>3
<1>6. block \in BlockSet(d)
  <2>1. Bare \in PlaceOrBare(d) /\ m \in PlaceOrBare(d)
    BY <1>1 DEF PlaceOrBare
  <2> QED
    BY <1>3, <1>4, <2>1 DEF BlockSet
<1>7. /\ Len(d) \in Nat /\ Bare \notin Nat
      /\ \A i \in 1 .. Len(d) : d[i].kind \in {"text", "mark"} /\ d[i].picture = Bare
  BY DocumentHas
<1>8. \A i \in 1 .. Len(d) : ~HeadIn(d, i)
  BY <1>7 DEF HeadIn
<1>9. AboveIn(d, m) = Bare
  <2>1. m \in 0 .. Len(d)
    BY <1>1, <1>7 DEF Places
  <2> QED
    BY <1>8, <2>1, AboveType
<1>10. BlockUnder(f, d, block, Bare)
  <2>1. Bare \in PlaceOrBare(d) /\ block.heading = TitleOf(d, Bare)
    BY <1>5 DEF PlaceOrBare, TitleOf
  <2>2. \A j \in 1 .. Len(block.body) : block.body[j] = m
    BY <1>4, <1>5
  <2>3. \A i, j \in 1 .. Len(block.body) : ~(i < j)
    BY <1>4, <1>5
  <2>4. ~HeadIn(d, m) /\ m \in Nat
    BY <1>1, <1>8 DEF Places
  <2> QED
    BY <1>5, <1>9, <2>1, <2>2, <2>3, <2>4 DEF BlockUnder
<1>11. /\ Typed(d, bs) /\ Placed(f, d, bs) /\ UpTo(bs, n) /\ InOrder(bs)
       /\ CoveredWith(d, bs, <<>>, n)
  BY Zenon DEF PartRead
<1>12. \A block2, u : NumOf(block2, u) => u \in Nat
  BY Zenon DEF NumOf
<1>13. \A c \in 1 .. Len(bs) : \A u : NumOf(bs[c], u) => u <= n /\ u \in Nat
  BY <1>11, <1>12, Zenon DEF UpTo
<1>14. (\A u \in Nat : u <= n => u <= m /\ u < m) /\ m <= m
  BY <1>1
<1>15. UpTo(bs, m)
  <2>1. \A c \in 1 .. Len(bs) : \A u : NumOf(bs[c], u) => u <= m
    BY <1>13, <1>14, Zenon
  <2> QED
    BY <2>1, Zenon DEF UpTo
<1>16. \A v : NumOf(block, v) => v = m
  <2> SUFFICES ASSUME NEW v, NumOf(block, v) PROVE v = m
    OBVIOUS
  <2>1. v \in Nat /\ (v = Bare \/ \E j \in 1 .. Len(one) : one[j] = v)
    BY <1>5, Zenon DEF NumOf, Holds
  <2> QED
    BY <1>4, <1>7, <2>1
<1>17. AfterAll(bs, block)
  <2>1. \A c \in 1 .. Len(bs) : \A u, v : NumOf(bs[c], u) /\ NumOf(block, v) => u < v
    BY <1>13, <1>14, <1>16
  <2> QED
    BY <2>1, Zenon DEF AfterAll
<1>18. NumsTo(block, m)
  BY <1>14, <1>16 DEF NumsTo
<1>19. PICK more : more = Append(bs, block)
  OBVIOUS
<1>20. /\ Typed(d, more) /\ Placed(f, d, more) /\ UpTo(more, m) /\ InOrder(more)
       /\ Grown(bs, block, more)
  <2> HIDE DEF BlockSet
  <2> QED
    BY <1>6, <1>10, <1>11, <1>15, <1>17, <1>18, <1>19, BlockAdded
<1>21. BodyOK(d, m, <<>>)
  BY DEF BodyOK
<1>22. AfterAll(more, BlockNow(d, m, <<>>))
  <2>1. \A v : ~Holds(<<>>, v)
    BY DEF Holds
  <2>2. TitleOf(d, AboveIn(d, m)) = Bare
    BY <1>9 DEF TitleOf
  <2>3. \A v : ~NumOf(BlockNow(d, m, <<>>), v)
    BY <1>7, <2>1, <2>2, NumOfNow
  <2> QED
    BY <2>3, Zenon DEF AfterAll
<1>23. CoveredWith(d, more, <<>>, m)
  <2>1. \A i \in 1 .. m : i \in 1 .. n \/ i = m
    BY <1>1
  <2>2. \A v : ~Holds(<<>>, v)
    BY DEF Holds
  <2>3. KeptIn(d, m) => Holds(block.body, m)
    <3>1. SUFFICES ASSUME KeptIn(d, m) PROVE Holds(block.body, m)
      OBVIOUS
    <3>2. d[m].kind = "text"
      BY <1>1, <1>7, <3>1 DEF KeptIn, ContentIn, Places
    <3>3. one = <<m>>
      BY <1>2, <3>2
    <3>4. 1 \in 1 .. Len(one) /\ one[1] = m
      BY <3>3
    <3> QED
      BY <1>5, <3>4 DEF Holds
  <2>4. \A i \in 1 .. n : KeptIn(d, i) => Holds(<<>>, i) \/ \E c \in 1 .. Len(bs) : Holds(bs[c].body, i)
    BY <1>11, Zenon DEF CoveredWith
  <2>5. \A i \in 1 .. m : KeptIn(d, i) => \E c \in 1 .. Len(more) : Holds(more[c].body, i)
    BY <1>20, <2>1, <2>2, <2>3, <2>4 DEF Grown
  <2> QED
    BY <2>5, Zenon DEF CoveredWith
<1>24. PartRead(f, d, m, <<>>, more)
  BY <1>20, <1>21, <1>22, <1>23, Zenon DEF PartRead
<1> QED
  BY <1>1, <1>19, <1>24

-----------------------------------------------------------------------------
(* A document that has been read.                                           *)

\* A text of a block: an item or picture of its body, or its heading over one.
TextIn(block, v) ==
  Holds(block.body, v) \/ (block.body # <<>> /\ block.heading # Bare /\ v = block.heading)

HoldersIn(d, p) == {i \in 1 .. Len(d) : d[i].picture = p}
OpenIn(d, p) == {i \in HoldersIn(d, p) : ~HeadIn(d, i) /\ (IndexIn(d, i) => d[i].kind = "table")}

\* The page of a block is that of its texts.
PageOK(f, d, block) ==
  /\ block.page # Bare =>
       \A v : TextIn(block, v) => block.page = IF f = "pages" THEN v ELSE LastOf(PagesIn(d, v))
  /\ f # "pages" /\ block.heading = Bare => block.page = Bare
\* A picture that is to be shown is, or an item that holds it.
PictureOK(d, bs, p) ==
  HoldersIn(d, p) = {} \/ OpenIn(d, p) # {} =>
    \E b \in 1 .. Len(bs) : \E v : Holds(bs[b].body, v) /\ (v = p \/ v \in OpenIn(d, p))
SomeKept(d) == \E i \in 1 .. Len(d) : KeptIn(d, i)

ReadOK(f, d, r, bs) ==
  /\ Typed(d, bs)
  /\ \A b \in 1 .. Len(bs) : PageOK(f, d, bs[b])
  /\ f = "docx" => \A p \in r : PictureOK(d, bs, p)
  /\ SomeKept(d) => Placed(f, d, bs) /\ InOrder(bs) /\ Covered(d, bs, Len(d))

LEMMA PagesOK ==
  ASSUME NEW f, NEW d, NEW r, DocumentOK(f, d, r), NEW block \in BlockSet(d),
         NEW h, BlockUnder(f, d, block, h)
  PROVE  PageOK(f, d, block)
<1>1. /\ h \in PlaceOrBare(d) /\ block.heading = TitleOf(d, h) /\ (h # Bare => HeadIn(d, h))
      /\ \A j \in 1 .. Len(block.body) : block.body[j] \in Nat =>
           ~HeadIn(d, block.body[j]) /\ AboveIn(d, block.body[j]) = h
      /\ f # "docx" => \A j \in 1 .. Len(block.body) : block.body[j] \in Nat
      /\ f = "pages" => block.page \in Nat /\ \A j \in 1 .. Len(block.body) : block.body[j] = block.page
      /\ f # "pages" => block.page = PageOf(d, h)
  BY Zenon DEF BlockUnder
<1>2. /\ Len(d) \in Nat /\ Bare \notin Nat /\ f \in Formats
      /\ f = "docx" => \A i \in 1 .. Len(d) : d[i].kind # "page"
      /\ f = "pages" => \A i \in 1 .. Len(d) : d[i].kind \in {"text", "mark"}
  BY DocumentHas DEF DocumentOK
<1>3. h # Bare => h \in 1 .. Len(d) /\ h \in Nat /\ h \in Nat \ {0}
  BY <1>1, <1>2 DEF PlaceOrBare, Places
<1>4. CASE f = "pages"
  <2>1. h = Bare
    BY <1>1, <1>2, <1>3, <1>4 DEF HeadIn
  <2>2. block.heading = Bare
    BY <1>1, <2>1 DEF TitleOf
  <2>3. \A v : TextIn(block, v) => block.page = v
    BY <1>1, <1>4, <2>2 DEF TextIn, Holds
  <2> QED
    BY <1>4, <2>2, <2>3, Zenon DEF PageOK
<1>5. CASE f # "pages"
  <2>1. block.page = PageOf(d, h)
    BY <1>1, <1>5
  <2>2. block.heading = Bare => block.page = Bare
    BY <1>1, <2>1 DEF TitleOf, PageOf
  <2>3. ASSUME block.page # Bare, NEW v, TextIn(block, v) PROVE block.page = LastOf(PagesIn(d, v))
    <3>1. h # Bare /\ d[h].kind = "page" /\ block.page = h
      BY <2>1, <2>3 DEF PageOf
    <3>2. block.heading = h
      BY <1>1, <3>1 DEF TitleOf
    <3>3. f # "docx"
      BY <1>2, <1>3, <3>1
    <3>4. v \in Nat /\ AboveIn(d, v) = h
      <4>1. CASE Holds(block.body, v)
        BY <1>1, <3>3, <4>1 DEF Holds
      <4>2. CASE v = h
        <5>1. AboveIn(d, h) = h
          BY <1>1, <1>3, <3>1, AboveGoesOn DEF AboveRules
        <5> QED
          BY <1>3, <3>1, <4>2, <5>1
      <4> QED
        BY <2>3, <3>2, <4>1, <4>2, Zenon DEF TextIn
    <3>5. LastOf(PagesIn(d, v)) = AboveIn(d, v)
      BY <3>1, <3>4, PageIsLast
    <3> QED
      BY <3>1, <3>4, <3>5
  <2> QED
    BY <1>5, <2>2, <2>3, Zenon DEF PageOK
<1> QED
  BY <1>4, <1>5

-----------------------------------------------------------------------------
(* The end of a DOCX.                                                       *)

\* A list of the members of a set has them all.
LEMMA ListOfSet ==
  ASSUME NEW S, IsFiniteSet(S)
  PROVE  /\ SetToSeq(S) \in Seq(S) /\ \A v \in S : Holds(SetToSeq(S), v)
         /\ S # {} => SetToSeq(S) # <<>>
<1>1. PICK N \in Nat : N = Cardinality(S) /\ ExistsBijection(1 .. N, S)
  BY FS_CardinalityType
<1>2. \E g \in [1 .. N -> S] : IsInjective(g)
  <2>1. PICK g : g \in Bijection(1 .. N, S)
    BY <1>1 DEF ExistsBijection
  <2>2. g \in [1 .. N -> S] /\ IsInjective(g)
    BY <2>1 DEF Bijection, Injection, IsInjective
  <2> QED
    BY <2>2
<1>3. PICK q : q = CHOOSE g \in [1 .. N -> S] : IsInjective(g)
  OBVIOUS
<1>4. q \in [1 .. N -> S] /\ IsInjective(q)
  BY <1>2, <1>3, Zenon
<1>5. q = SetToSeq(S)
  BY <1>1, <1>3, Zenon DEF SetToSeq
<1>6. q \in Surjection(1 .. N, S)
  <2>1. q \in Injection(1 .. N, S)
    BY <1>4 DEF Injection, IsInjective
  <2>2. IsFiniteSet(1 .. N) /\ Cardinality(1 .. N) = N
    BY <1>1, FS_Interval
  <2> QED
    BY <1>1, <2>1, <2>2, FS_Injection
<1>7. \A v \in S : \E j \in 1 .. N : q[j] = v
  BY <1>6 DEF Surjection
<1>8. q \in Seq(S) /\ Len(q) = N
  BY <1>4, MakesList
<1>9. \A v \in S : Holds(q, v)
  BY <1>7, <1>8, Zenon DEF Holds
<1>10. S # {} => q # <<>>
  <2>1. \A v : ~Holds(<<>>, v)
    BY DEF Holds
  <2> QED
    BY <1>9, <2>1
<1> QED
  BY <1>5, <1>8, <1>9, <1>10

\* The last block gets what follows.
LastGets(bs, ps) ==
  [bs EXCEPT ![Len(bs)] = Block(bs[Len(bs)].heading, bs[Len(bs)].page, bs[Len(bs)].body \o ps)]
HasAll(ps, more) == \A v : Holds(ps, v) => \E b \in 1 .. Len(more) : Holds(more[b].body, v)

\* Pictures at the end of the last block change nothing else.
LEMMA PicturesLast ==
  ASSUME NEW f, NEW d, NEW r, DocumentOK(f, d, r), f = "docx", NEW n, NEW bs, BlocksRead(f, d, n, bs),
         bs # <<>>, NEW ps \in Seq(Pictures),
         NEW more, more = LastGets(bs, ps)
  PROVE  BlocksRead(f, d, n, more) /\ HasAll(ps, more)
<1>1. /\ Typed(d, bs) /\ Placed(f, d, bs) /\ UpTo(bs, n) /\ InOrder(bs) /\ Covered(d, bs, n)
  BY Zenon DEF BlocksRead
<1>2. PICK L \in Nat : L = Len(bs) /\ L \in 1 .. L
  <2> HIDE DEF BlockSet
  <2>1. bs \in Seq(BlockSet(d))
    BY <1>1 DEF Typed
  <2> QED
    BY <2>1
<1>3. \A b \in 1 .. L : bs[b] \in BlockSet(d)
  <2> HIDE DEF BlockSet
  <2> QED
    BY <1>1, <1>2, ListHas DEF Typed
<1>4. PICK b0 \in Seq(Shown(d)) : b0 = bs[L].body
  BY <1>2, <1>3 DEF BlockSet
<1>5. PICK b1 : b1 = b0 \o ps
  OBVIOUS
<1>6. PICK A \in Nat, M \in Nat : A = Len(b0) /\ M = Len(ps)
  OBVIOUS
<1>7. /\ b1 \in Seq(Shown(d)) /\ Len(b1) = A + M
      /\ \A j \in 1 .. A : b1[j] = b0[j]
      /\ \A j \in 1 .. M : b1[A + j] = ps[j]
  <2>1. ps \in Seq(Shown(d))
    BY DEF Shown
  <2> HIDE DEF Shown
  <2>2. /\ b0 \o ps \in Seq(Shown(d)) /\ Len(b0 \o ps) = Len(b0) + Len(ps)
        /\ \A j \in 1 .. Len(b0) : (b0 \o ps)[j] = b0[j]
        /\ \A j \in 1 .. Len(ps) : (b0 \o ps)[Len(b0) + j] = ps[j]
    BY <2>1, OneAfterOther
  <2> QED
    BY <1>5, <1>6, <2>2
<1>8. PICK last : last = [heading |-> bs[L].heading, page |-> bs[L].page, body |-> b1]
  OBVIOUS
<1>9. /\ last \in BlockSet(d)
      /\ last.heading = bs[L].heading /\ last.page = bs[L].page /\ last.body = b1
  BY <1>2, <1>3, <1>7, <1>8 DEF BlockSet
<1>10. more = [bs EXCEPT ![L] = last]
  BY <1>2, <1>4, <1>5, <1>8 DEF Block, LastGets
<1>11. /\ more \in Seq(BlockSet(d)) /\ Len(more) = L /\ more[L] = last
       /\ \A b \in 1 .. L : b # L => more[b] = bs[b]
  <2> HIDE DEF BlockSet
  <2>1. bs \in Seq(BlockSet(d))
    BY <1>1 DEF Typed
  <2> QED
    BY <1>2, <1>9, <1>10, <2>1
<1>12. \A j \in 1 .. A + M : b1[j] \in Nat => j \in 1 .. A /\ b0[j] \in Nat /\ b1[j] = b0[j]
  <2> SUFFICES ASSUME NEW j \in 1 .. A + M, b1[j] \in Nat PROVE j \in 1 .. A /\ b0[j] \in Nat /\ b1[j] = b0[j]
    OBVIOUS
  <2>1. j \in 1 .. A \/ (j - A \in 1 .. M /\ A + (j - A) = j)
    OBVIOUS
  <2>2. \A i \in 1 .. M : ps[i] \in Pictures /\ ps[i] \notin Nat
    BY <1>6, SectionsAssumption
  <2>3. j \in 1 .. A
    BY <1>7, <2>1, <2>2
  <2> QED
    BY <1>7, <2>3
<1>13. \A v : NumOf(last, v) => NumOf(bs[L], v)
  <2> SUFFICES ASSUME NEW v, NumOf(last, v) PROVE NumOf(bs[L], v)
    OBVIOUS
  <2>1. v \in Nat /\ (bs[L].heading = v \/ Holds(b1, v))
    BY <1>9, Zenon DEF NumOf
  <2>2. Holds(b1, v) => Holds(b0, v)
    BY <1>6, <1>7, <1>12, <2>1 DEF Holds
  <2> QED
    BY <1>4, <2>1, <2>2, Zenon DEF NumOf
<1>14. \A b \in 1 .. L : \A v : NumOf(more[b], v) => NumOf(bs[b], v)
  BY <1>11, <1>13
<1>16. /\ \A v : Holds(b0, v) => Holds(b1, v)
       /\ \A v : Holds(ps, v) => Holds(b1, v)
  <2>1. (\A j \in 1 .. A : j \in 1 .. A + M) /\ (\A j \in 1 .. M : A + j \in 1 .. A + M)
    OBVIOUS
  <2>2. \A v : Holds(b0, v) => Holds(b1, v)
    BY <1>6, <1>7, <2>1 DEF Holds
  <2>3. \A v : Holds(ps, v) => Holds(b1, v)
    BY <1>6, <1>7, <2>1 DEF Holds
  <2> QED
    BY <2>2, <2>3
<1>17. \A b \in 1 .. L : \A v : Holds(bs[b].body, v) => Holds(more[b].body, v)
  BY <1>4, <1>9, <1>11, <1>16
<1>19. \A v : Holds(ps, v) => Holds(more[L].body, v)
  BY <1>9, <1>11, <1>16
<1>20. UpTo(more, n)
  <2>1. \A b \in 1 .. L : \A v : NumOf(bs[b], v) => v <= n
    BY <1>1, <1>2, Zenon DEF UpTo
  <2>2. \A b \in 1 .. L : \A v : NumOf(more[b], v) => v <= n
    BY <1>14, <2>1, Zenon
  <2> QED
    BY <1>11, <2>2, Zenon DEF UpTo
<1>21. InOrder(more)
  <2>1. \A b, c \in 1 .. L : b < c => \A u, v : NumOf(bs[b], u) /\ NumOf(bs[c], v) => u < v
    BY <1>1, <1>2, Zenon DEF InOrder
  <2>2. \A b, c \in 1 .. L : b < c => \A u, v : NumOf(more[b], u) /\ NumOf(more[c], v) => u < v
    BY <1>14, <2>1, Zenon
  <2> QED
    BY <1>11, <2>2, Zenon DEF InOrder
<1>22. Covered(d, more, n)
  <2>1. \A i \in 1 .. n : KeptIn(d, i) => \E b \in 1 .. L : Holds(bs[b].body, i)
    BY <1>1, <1>2, Zenon DEF Covered
  <2>2. \A i \in 1 .. n : KeptIn(d, i) => \E b \in 1 .. L : Holds(more[b].body, i)
    BY <1>17, <2>1, Zenon
  <2> QED
    BY <1>11, <2>2, Zenon DEF Covered
<1>23. Placed(f, d, more)
  <2>1. ASSUME NEW b \in 1 .. L PROVE \E h : BlockUnder(f, d, more[b], h)
    <3>1. PICK h : BlockUnder(f, d, bs[b], h)
      BY <1>1, <1>2, Zenon DEF Placed
    <3>2. CASE b # L
      BY <1>11, <3>1, <3>2
    <3>3. CASE b = L
      <4>1. /\ h \in PlaceOrBare(d) /\ bs[L].heading = TitleOf(d, h) /\ (h # Bare => HeadIn(d, h))
            /\ \A j \in 1 .. Len(bs[L].body) : bs[L].body[j] \in Nat =>
                 ~HeadIn(d, bs[L].body[j]) /\ AboveIn(d, bs[L].body[j]) = h
            /\ \A i, j \in 1 .. Len(bs[L].body) :
                 i < j /\ bs[L].body[i] \in Nat /\ bs[L].body[j] \in Nat => bs[L].body[i] < bs[L].body[j]
            /\ f = "docx" => bs[L].body # <<>>
            /\ f # "pages" => bs[L].page = PageOf(d, h)
        BY <3>1, <3>3, Zenon DEF BlockUnder
      <4>2. /\ \A j \in 1 .. A : b0[j] \in Nat => ~HeadIn(d, b0[j]) /\ AboveIn(d, b0[j]) = h
            /\ \A i, j \in 1 .. A : i < j /\ b0[i] \in Nat /\ b0[j] \in Nat => b0[i] < b0[j]
        BY <1>4, <1>6, <4>1
      <4>3. \A j \in 1 .. A + M : b1[j] \in Nat => ~HeadIn(d, b1[j]) /\ AboveIn(d, b1[j]) = h
        BY <1>12, <4>2
      <4>4. \A i, j \in 1 .. A + M : i < j /\ b1[i] \in Nat /\ b1[j] \in Nat => b1[i] < b1[j]
        BY <1>12, <4>2
      <4>5. b1 # <<>>
        <5>1. b0 # <<>>
          BY <1>4, <4>1
        <5>2. A # 0
          BY <1>6, <5>1
        <5> QED
          BY <1>7, <5>2
      <4>6. last.heading = TitleOf(d, h) /\ last.page = PageOf(d, h) /\ last.body = b1 /\ Len(b1) = A + M
        BY <1>7, <1>9, <4>1
      <4>7. BlockUnder(f, d, last, h)
        BY <4>1, <4>3, <4>4, <4>5, <4>6, Zenon DEF BlockUnder
      <4> QED
        BY <1>11, <3>3, <4>7
    <3> QED
      BY <3>2, <3>3
  <2> QED
    BY <1>11, <2>1, Zenon DEF Placed
<1>24. BlocksRead(f, d, n, more)
  BY <1>11, <1>20, <1>21, <1>22, <1>23, Zenon DEF BlocksRead, Typed
<1> QED
  BY <1>2, <1>11, <1>19, <1>24 DEF HasAll

\* No block, and nothing to keep.
LEMMA NoBlocks ==
  ASSUME NEW d, NEW n, Covered(d, <<>>, n)
  PROVE  \A i \in 1 .. n : ~KeptIn(d, i)
<1>1. PICK none : none = <<>>
  OBVIOUS
<1>2. 1 .. Len(none) = {}
  BY <1>1
<1>3. Covered(d, none, n)
  BY <1>1
<1> QED
  BY <1>2, <1>3, Zenon DEF Covered

\* Without a block the pictures make one.
LEMMA PicturesAlone ==
  ASSUME NEW f, NEW d, NEW r, DocumentOK(f, d, r), f = "docx", NEW n, BlocksRead(f, d, n, <<>>),
         NEW ps \in Seq(Pictures), ps # <<>>,
         NEW block, block = Block(Bare, Bare, ps)
  PROVE  BlocksRead(f, d, n, <<block>>) /\ HasAll(ps, <<block>>)
<1>1. block = [heading |-> Bare, page |-> Bare, body |-> ps]
  BY DEF Block
<1>2. block.heading = Bare /\ block.page = Bare /\ block.body = ps
  BY <1>1
<1>3. block \in BlockSet(d)
  BY <1>1 DEF BlockSet, PlaceOrBare, Shown
<1>4. PICK one : one = <<block>>
  OBVIOUS
<1>5. one \in Seq(BlockSet(d)) /\ Len(one) = 1 /\ one[1] = block /\ 1 .. 1 = {1}
  <2> HIDE DEF BlockSet
  <2> QED
    BY <1>3, <1>4
<1>6. \A j \in 1 .. Len(ps) : ps[j] \in Pictures /\ ps[j] \notin Nat
  BY SectionsAssumption
<1>7. \A v : ~NumOf(block, v)
  <2>1. Bare \notin Nat
    BY SectionsAssumption
  <2> QED
    BY <1>2, <1>6, <2>1 DEF NumOf, Holds
<1>8. BlockUnder(f, d, block, Bare)
  <2>1. Bare \in PlaceOrBare(d) /\ TitleOf(d, Bare) = Bare /\ PageOf(d, Bare) = Bare
    BY DEF PlaceOrBare, TitleOf, PageOf
  <2> QED
    BY <1>2, <1>6, <2>1 DEF BlockUnder
<1>9. Covered(d, one, n)
  <2>1. \A i \in 1 .. n : ~KeptIn(d, i)
    <3>1. Covered(d, <<>>, n)
      BY Zenon DEF BlocksRead
    <3> QED
      BY <3>1, NoBlocks
  <2> QED
    BY <2>1, Zenon DEF Covered
<1>10. BlocksRead(f, d, n, one)
  <2>1. Placed(f, d, one)
    BY <1>5, <1>8 DEF Placed
  <2>2. UpTo(one, n)
    BY <1>5, <1>7 DEF UpTo
  <2>3. InOrder(one)
    BY <1>5 DEF InOrder
  <2> QED
    BY <1>5, <1>9, <2>1, <2>2, <2>3 DEF BlocksRead, Typed
<1>11. \A v : Holds(ps, v) => Holds(one[1].body, v)
  BY <1>2, <1>5
<1> QED
  BY <1>4, <1>5, <1>10, <1>11 DEF HasAll

\* Blocks that have it all are the document.
LEMMA ReadIs ==
  ASSUME NEW f, NEW d, NEW r, DocumentOK(f, d, r), NEW bs, BlocksRead(f, d, Len(d), bs),
         f = "docx" => \A p \in r : PictureOK(d, bs, p)
  PROVE  ReadOK(f, d, r, bs)
<1>1. /\ Typed(d, bs) /\ Placed(f, d, bs) /\ InOrder(bs) /\ Covered(d, bs, Len(d))
  BY Zenon DEF BlocksRead
<1>2. ASSUME NEW b \in 1 .. Len(bs) PROVE PageOK(f, d, bs[b])
  <2>1. bs[b] \in BlockSet(d)
    <3> HIDE DEF BlockSet
    <3> QED
      BY <1>1, ListHas DEF Typed
  <2>2. PICK h : BlockUnder(f, d, bs[b], h)
    BY <1>1, Zenon DEF Placed
  <2> HIDE DEF BlockSet
  <2> QED
    BY <2>1, <2>2, PagesOK
<1> QED
  BY <1>1, <1>2, Zenon DEF ReadOK

\* An item that shows a picture is one to keep.
LEMMA OpenIsKept ==
  ASSUME NEW f, NEW d, NEW r, DocumentOK(f, d, r), NEW p \in r, NEW i \in OpenIn(d, p)
  PROVE  i \in 1 .. Len(d) /\ KeptIn(d, i)
<1>1. i \in 1 .. Len(d) /\ d[i].picture = p /\ ~HeadIn(d, i) /\ (IndexIn(d, i) => d[i].kind = "table")
  BY Zenon DEF OpenIn, HoldersIn
<1>2. p # Bare
  BY SectionsAssumption DEF DocumentOK
<1>3. d[i].kind \in Kinds
  BY <1>1, DocumentHas
<1> QED
  BY <1>1, <1>2, <1>3 DEF KeptIn, ContentIn, HeadIn, Kinds

\* Pictures that no item holds are in the blocks, and so are those that one to keep holds.
LEMMA PicturesOK ==
  ASSUME NEW f, NEW d, NEW r, DocumentOK(f, d, r), NEW bs, Covered(d, bs, Len(d)),
         NEW p \in r, HoldersIn(d, p) = {} => \E b \in 1 .. Len(bs) : Holds(bs[b].body, p)
  PROVE  PictureOK(d, bs, p)
<1>1. CASE HoldersIn(d, p) = {}
  BY <1>1, Zenon DEF PictureOK, OpenIn
<1>2. CASE OpenIn(d, p) # {}
  <2>1. PICK i \in OpenIn(d, p) : TRUE
    BY <1>2
  <2>2. i \in 1 .. Len(d) /\ KeptIn(d, i)
    BY OpenIsKept
  <2>3. \E b \in 1 .. Len(bs) : Holds(bs[b].body, i)
    BY <2>2, Zenon DEF Covered
  <2> QED
    BY <2>1, <2>3, Zenon DEF PictureOK
<1>3. CASE HoldersIn(d, p) # {} /\ OpenIn(d, p) = {}
  BY <1>3, Zenon DEF PictureOK
<1> QED
  BY <1>1, <1>2, <1>3

\* What the pictures make of the blocks.
WithPictures(bs, orphans) ==
  IF orphans = {} THEN bs
  ELSE IF bs = <<>> THEN <<Block(Bare, Bare, SetToSeq(orphans))>>
  ELSE [bs EXCEPT ![Len(bs)] =
          Block(bs[Len(bs)].heading, bs[Len(bs)].page, bs[Len(bs)].body \o SetToSeq(orphans))]

LEMMA PicturesAdded ==
  ASSUME NEW f, NEW d, NEW r, DocumentOK(f, d, r), f = "docx", NEW n, NEW bs, BlocksRead(f, d, n, bs),
         NEW orphans \in SUBSET r, NEW more, more = WithPictures(bs, orphans)
  PROVE  /\ BlocksRead(f, d, n, more)
         /\ \A v \in orphans : \E b \in 1 .. Len(more) : Holds(more[b].body, v)
<1>1. CASE orphans = {}
  BY <1>1 DEF WithPictures
<1>2. CASE orphans # {}
  <2>1. orphans \subseteq Pictures /\ IsFiniteSet(orphans)
    <3>1. orphans \in SUBSET Pictures
      BY Zenon DEF DocumentOK
    <3> QED
      BY <3>1, FS_Subset, SectionsAssumption
  <2>2. PICK ps : ps = SetToSeq(orphans)
    OBVIOUS
  <2>3. ps \in Seq(orphans) /\ (\A v \in orphans : Holds(ps, v)) /\ ps # <<>>
    BY <1>2, <2>1, <2>2, ListOfSet
  <2>4. ps \in Seq(Pictures)
    BY <2>1, <2>3
  <2>5. CASE bs = <<>>
    <3>1. PICK block : block = Block(Bare, Bare, ps)
      OBVIOUS
    <3>2. more = <<block>>
      BY <1>2, <2>2, <2>5, <3>1, Zenon DEF WithPictures
    <3>3. BlocksRead(f, d, n, <<>>)
      BY <2>5
    <3>4. BlocksRead(f, d, n, <<block>>) /\ HasAll(ps, <<block>>)
      BY <2>3, <2>4, <3>1, <3>3, PicturesAlone
    <3> QED
      BY <2>3, <3>2, <3>4 DEF HasAll
  <2>6. CASE bs # <<>>
    <3>1. more = LastGets(bs, ps)
      BY <1>2, <2>2, <2>6, Zenon DEF WithPictures, LastGets
    <3>2. BlocksRead(f, d, n, more) /\ HasAll(ps, more)
      BY <2>4, <2>6, <3>1, PicturesLast
    <3> QED
      BY <2>3, <3>2 DEF HasAll
  <2> QED
    BY <2>5, <2>6
<1> QED
  BY <1>1, <1>2

\* The words of the paragraphs, where nothing else was found.
LEMMA WordsAreRead ==
  ASSUME NEW f, NEW d, NEW r, DocumentOK(f, d, r), f = "docx", BlocksRead(f, d, Len(d), <<>>),
         \A p \in r : HoldersIn(d, p) # {},
         NEW words \in Seq(Places(d))
  PROVE  ReadOK(f, d, r, <<Block(Bare, Bare, words)>>)
<1>1. PICK block : block = Block(Bare, Bare, words)
  OBVIOUS
<1>2. block = [heading |-> Bare, page |-> Bare, body |-> words]
  BY <1>1 DEF Block
<1>3. block.heading = Bare /\ block.page = Bare
  BY <1>2
<1>4. block \in BlockSet(d)
  <2>1. words \in Seq(Shown(d))
    BY DEF Shown
  <2> QED
    BY <1>2, <2>1 DEF BlockSet, PlaceOrBare
<1>5. PICK one : one = <<block>>
  OBVIOUS
<1>6. one \in Seq(BlockSet(d)) /\ Len(one) = 1 /\ one[1] = block /\ 1 .. 1 = {1}
  <2> HIDE DEF BlockSet
  <2> QED
    BY <1>4, <1>5
<1>7. \A i \in 1 .. Len(d) : ~KeptIn(d, i)
  <2>1. Covered(d, <<>>, Len(d))
    BY Zenon DEF BlocksRead
  <2> QED
    BY <2>1, NoBlocks
<1>8. ASSUME NEW p \in r PROVE PictureOK(d, one, p)
  <2>1. OpenIn(d, p) = {}
    BY <1>7, OpenIsKept
  <2> QED
    BY <2>1, Zenon DEF PictureOK
<1>9. PageOK(f, d, block)
  BY <1>3 DEF PageOK
<1>10. ~SomeKept(d)
  BY <1>7 DEF SomeKept
<1>11. ReadOK(f, d, r, one)
  <2>1. Typed(d, one)
    BY <1>6 DEF Typed
  <2>2. \A b \in 1 .. Len(one) : PageOK(f, d, one[b])
    BY <1>6, <1>9
  <2> QED
    BY <1>8, <1>10, <2>1, <2>2, Zenon DEF ReadOK
<1> QED
  BY <1>1, <1>5, <1>11

-----------------------------------------------------------------------------
(* Splitting.                                                               *)

OnPage(f, d, page1, v) == page1 = IF f = "pages" THEN v ELSE LastOf(PagesIn(d, v))
HasTextIn(d, h) == \E i \in 1 .. Len(d) : i > h /\ ContentIn(d, i) /\ AboveIn(d, i) = h
Heads(d) == {h \in 1 .. Len(d) : d[h].kind \in {"heading", "page"} /\ HasTextIn(d, h)}
ToShow(d, r) == {p \in r : HoldersIn(d, p) = {} \/ OpenIn(d, p) # {}}
ByPages(f, q) == q = "page" \/ (q = "default" /\ f # "pages")

\* The texts that are cut, of L blocks, by a plan q: what is to be kept, once; headings; of
\* one section each; on their pages; pictures.
SourceKept(d, src, L) == \A v \in 1 .. Len(d) : KeptIn(d, v) => \E b, k : Has(src, L, b, k, v)
SourceOnce(d, src, L) == SomeKept(d) => \A v \in Nat : Once(src, L, v)
SourceHeads(d, src, L) == \A h \in Heads(d) : \E b, k : Has(src, L, b, k, h)
SourceUnder(d, src, L) ==
  \A b, i, j, u, v :
    Has(src, L, b, i, u) /\ Has(src, L, b, j, v) /\ u \in 1 .. Len(d) /\ v \in 1 .. Len(d) =>
      AboveIn(d, u) = AboveIn(d, v)
SourcePages(f, d, src, pg, L) ==
  \A b \in 1 .. L : pg[b] # Bare => \A k, v : Has(src, L, b, k, v) => OnPage(f, d, pg[b], v)
SourcePictures(d, r, src, L) ==
  \A p \in ToShow(d, r) : \E b, k, v : Has(src, L, b, k, v) /\ (v = p \/ v \in OpenIn(d, p))
SourceOK(f, q, d, r, src, pg, L) ==
  /\ SourceKept(d, src, L) /\ SourceOnce(d, src, L)
  /\ q = "default" => SourceHeads(d, src, L)
  /\ q = "default" /\ Heads(d) # {} => SourceUnder(d, src, L)
  /\ ByPages(f, q) => SourcePages(f, d, src, pg, L)
  /\ f = "docx" => SourcePictures(d, r, src, L)

\* The same of chunks.
ChunkSet(d) == [texts : Seq(Shown(d)), page : PlaceOrBare(d)]
ChunksKept(d, cs) == \A v \in 1 .. Len(d) : KeptIn(d, v) => \E c, k : InTexts(cs, c, k, v)
ChunksOnce(d, cs) == SomeKept(d) => \A v \in Nat : OnceIn(cs, v)
ChunksHeads(d, cs) == \A h \in Heads(d) : \E c, k : InTexts(cs, c, k, h)
ChunksUnder(d, cs) ==
  \A c, i, j, u, v :
    InTexts(cs, c, i, u) /\ InTexts(cs, c, j, v) /\ u \in 1 .. Len(d) /\ v \in 1 .. Len(d) =>
      AboveIn(d, u) = AboveIn(d, v)
ChunksPages(f, d, cs) ==
  \A c \in 1 .. Len(cs) : cs[c].page # Bare =>
    \A k, v : InTexts(cs, c, k, v) => OnPage(f, d, cs[c].page, v)
ChunksPictures(d, r, cs) ==
  \A p \in ToShow(d, r) : \E c, k, v : InTexts(cs, c, k, v) /\ (v = p \/ v \in OpenIn(d, p))
ChunksOK(f, q, d, r, cs) ==
  /\ cs \in Seq(ChunkSet(d)) /\ ChunksKept(d, cs) /\ ChunksOnce(d, cs)
  /\ q = "default" => ChunksHeads(d, cs)
  /\ q = "default" /\ Heads(d) # {} => ChunksUnder(d, cs)
  /\ ByPages(f, q) => ChunksPages(f, d, cs)
  /\ f = "docx" => ChunksPictures(d, r, cs)

\* The texts and pages of blocks.
SourceSet(d, src, pg, L) == \A b \in 1 .. L : src[b] \in Seq(Shown(d)) /\ pg[b] \in PlaceOrBare(d)

\* What a text is cut to.
LEMMA CutToHas ==
  ASSUME NEW d, NEW t \in Seq(Shown(d)), NEW p \in PlaceOrBare(d), NEW made, made = CutTo(t, p)
  PROVE  /\ made \in Seq(ChunkSet(d)) /\ Len(made) = Len(Cut(t, ChunkItems))
         /\ \A n \in 1 .. Len(made) : made[n].texts = Cut(t, ChunkItems)[n] /\ made[n].page = p
<1>1. ChunkItems \in Nat \ {0}
  BY SectionsAssumption
<1>2. PICK cuts : cuts = Cut(t, ChunkItems)
  OBVIOUS
<1>3. cuts \in Seq(Seq(Shown(d)))
  BY <1>1, <1>2, CutHolds
<1>4. PICK N \in Nat : N = Len(cuts) /\ DOMAIN cuts = 1 .. N
  <2> HIDE DEF Shown
  <2> QED
    BY <1>3
<1>5. \A n \in 1 .. N : cuts[n] \in Seq(Shown(d))
  <2> HIDE DEF Shown
  <2> QED
    BY <1>3, <1>4
<1>6. made = [n \in 1 .. N |-> [texts |-> cuts[n], page |-> p]]
  BY <1>2, <1>4 DEF CutTo, Chunk
<1>7. ASSUME NEW n \in 1 .. N
      PROVE  [texts |-> cuts[n], page |-> p] \in ChunkSet(d)
  BY <1>5 DEF ChunkSet
<1>8. made \in [1 .. N -> ChunkSet(d)]
  BY <1>6, <1>7
<1>9. made \in Seq(ChunkSet(d)) /\ Len(made) = N
  BY <1>8, MakesList
<1>10. \A n \in 1 .. N : made[n].texts = cuts[n] /\ made[n].page = p
  BY <1>6
<1> QED
  BY <1>2, <1>4, <1>9, <1>10

\* The lists of chunks of L texts and pages.
ListsCut(s, src, pg, L) == Len(s) = L /\ \A b \in 1 .. L : s[b] = CutTo(src[b], pg[b])

ListsOK(d, s, src, pg, L) ==
  /\ \A b \in 1 .. L : s[b] \in Seq(ChunkSet(d)) /\ src[b] \in Seq(Shown(d))
  /\ CutUp(s, src, ChunkItems, L) /\ Len(s) = L
  /\ \A b \in 1 .. L : \A m \in 1 .. Len(s[b]) : s[b][m].page = pg[b]

LEMMA ListsHave ==
  ASSUME NEW d, NEW L \in Nat, NEW src, NEW pg, SourceSet(d, src, pg, L), NEW s, ListsCut(s, src, pg, L)
  PROVE  ListsOK(d, s, src, pg, L)
<1>1. ASSUME NEW b \in 1 .. L
      PROVE  /\ src[b] \in Seq(Shown(d)) /\ s[b] \in Seq(ChunkSet(d))
             /\ Len(s[b]) = Len(Cut(src[b], ChunkItems))
             /\ \A n \in 1 .. Len(s[b]) : s[b][n].texts = Cut(src[b], ChunkItems)[n]
             /\ \A n \in 1 .. Len(s[b]) : s[b][n].page = pg[b]
  <2>1. PICK t \in Seq(Shown(d)) : t = src[b]
    BY Zenon DEF SourceSet
  <2>2. PICK p \in PlaceOrBare(d) : p = pg[b]
    BY Zenon DEF SourceSet
  <2>3. PICK made : made = CutTo(t, p)
    OBVIOUS
  <2>4. /\ made \in Seq(ChunkSet(d)) /\ Len(made) = Len(Cut(t, ChunkItems))
        /\ \A n \in 1 .. Len(made) : made[n].texts = Cut(t, ChunkItems)[n] /\ made[n].page = p
    BY <2>3, CutToHas
  <2>5. made = s[b]
    BY <2>1, <2>2, <2>3, Zenon DEF ListsCut
  <2> QED
    BY <2>1, <2>2, <2>4, <2>5
<1>2. CutUp(s, src, ChunkItems, L)
  BY <1>1, Zenon DEF CutUp
<1>3. Len(s) = L
  BY Zenon DEF ListsCut
<1> QED
  BY <1>1, <1>2, <1>3, Zenon DEF ListsOK

\* Chunks have what the texts have that they are made of.
LEMMA ChunksFrom ==
  ASSUME NEW f, NEW q, NEW d, NEW r, NEW L \in Nat, NEW src, NEW pg,
         SourceSet(d, src, pg, L), SourceOK(f, q, d, r, src, pg, L),
         NEW s, ListsCut(s, src, pg, L), NEW cs, cs = Joined(s)
  PROVE  ChunksOK(f, q, d, r, cs)
<1>1. /\ \A b \in 1 .. L : s[b] \in Seq(ChunkSet(d)) /\ src[b] \in Seq(Shown(d))
      /\ CutUp(s, src, ChunkItems, L) /\ Len(s) = L
      /\ \A b \in 1 .. L : \A m \in 1 .. Len(s[b]) : s[b][m].page = pg[b]
  <2>1. ListsOK(d, s, src, pg, L)
    BY ListsHave
  <2> QED
    BY <2>1, Zenon DEF ListsOK
<1>2. cs \in Seq(ChunkSet(d)) /\ MadeOf(cs, s, src, L)
  <2>1. ChunkItems \in Nat \ {0}
    BY SectionsAssumption
  <2> HIDE DEF ChunkSet, Shown
  <2> QED
    BY <1>1, <2>1, ChunksMadeOf
<1>3. /\ \A c \in 1 .. Len(cs) : \E b : OfBlock(cs, s, src, L, c, b)
      /\ \A b, i, v : Has(src, L, b, i, v) => \E c, k : InTexts(cs, c, k, v)
      /\ \A v : Once(src, L, v) => OnceIn(cs, v)
  BY <1>2, Zenon DEF MadeOf
<1>4. /\ SourceKept(d, src, L) /\ SourceOnce(d, src, L)
      /\ q = "default" => SourceHeads(d, src, L)
      /\ q = "default" /\ Heads(d) # {} => SourceUnder(d, src, L)
      /\ ByPages(f, q) => SourcePages(f, d, src, pg, L)
      /\ f = "docx" => SourcePictures(d, r, src, L)
  BY Zenon DEF SourceOK
<1>5. ChunksKept(d, cs)
  BY <1>3, <1>4, Zenon DEF SourceKept, ChunksKept
<1>6. ChunksOnce(d, cs)
  BY <1>3, <1>4, Zenon DEF SourceOnce, ChunksOnce
<1>7. SourceHeads(d, src, L) => ChunksHeads(d, cs)
  BY <1>3, Zenon DEF SourceHeads, ChunksHeads
<1>8. SourcePictures(d, r, src, L) => ChunksPictures(d, r, cs)
  <2> SUFFICES ASSUME SourcePictures(d, r, src, L), NEW p \in ToShow(d, r)
               PROVE  \E c, k, v : InTexts(cs, c, k, v) /\ (v = p \/ v \in OpenIn(d, p))
    BY Zenon DEF ChunksPictures
  <2>1. PICK b, i, v : Has(src, L, b, i, v) /\ (v = p \/ v \in OpenIn(d, p))
    BY Zenon DEF SourcePictures
  <2>2. PICK c, k : InTexts(cs, c, k, v)
    BY <1>3, <2>1
  <2> QED
    BY <2>1, <2>2
<1>9. SourceUnder(d, src, L) => ChunksUnder(d, cs)
  <2>1. ASSUME SourceUnder(d, src, L), NEW c, NEW i, NEW j, NEW u \in 1 .. Len(d), NEW v \in 1 .. Len(d),
               InTexts(cs, c, i, u), InTexts(cs, c, j, v)
        PROVE  AboveIn(d, u) = AboveIn(d, v)
    <3>1. c \in 1 .. Len(cs)
      BY <2>1, Zenon DEF InTexts
    <3>2. PICK b : OfBlock(cs, s, src, L, c, b)
      BY <1>3, <3>1
    <3>3. \A k, t : InTexts(cs, c, k, t) => \E m : Has(src, L, b, m, t)
      BY <3>2, Zenon DEF OfBlock
    <3>4. PICK m : Has(src, L, b, m, u)
      BY <2>1, <3>3
    <3>5. PICK n : Has(src, L, b, n, v)
      BY <2>1, <3>3
    <3>6. \A e, k, l, t, z :
            Has(src, L, e, k, t) /\ Has(src, L, e, l, z) /\ t \in 1 .. Len(d) /\ z \in 1 .. Len(d) =>
              AboveIn(d, t) = AboveIn(d, z)
      BY <2>1, Zenon DEF SourceUnder
    <3> QED
      BY <3>4, <3>5, <3>6
  <2>2. SourceUnder(d, src, L) =>
          \A c, i, j, u, v :
            InTexts(cs, c, i, u) /\ InTexts(cs, c, j, v) /\ u \in 1 .. Len(d) /\ v \in 1 .. Len(d) =>
              AboveIn(d, u) = AboveIn(d, v)
    BY <2>1
  <2> QED
    BY <2>2, Zenon DEF ChunksUnder
<1>10. SourcePages(f, d, src, pg, L) => ChunksPages(f, d, cs)
  <2> SUFFICES ASSUME SourcePages(f, d, src, pg, L), NEW c \in 1 .. Len(cs), cs[c].page # Bare,
                      NEW k, NEW v, InTexts(cs, c, k, v)
               PROVE  OnPage(f, d, cs[c].page, v)
    BY Zenon DEF ChunksPages
  <2>1. PICK b : OfBlock(cs, s, src, L, c, b)
    BY <1>3
  <2>2. PICK m \in 1 .. Len(s[b]) : b \in 1 .. L /\ cs[c] = s[b][m]
    BY <2>1, Zenon DEF OfBlock
  <2>3. cs[c].page = pg[b]
    BY <1>1, <2>2
  <2>4. PICK i : Has(src, L, b, i, v)
    BY <2>1, Zenon DEF OfBlock
  <2>5. OnPage(f, d, pg[b], v)
    BY <2>2, <2>3, <2>4, Zenon DEF SourcePages
  <2> QED
    BY <2>3, <2>5
<1> QED
  BY <1>2, <1>4, <1>5, <1>6, <1>7, <1>8, <1>9, <1>10, Zenon DEF ChunksOK

-----------------------------------------------------------------------------
(* The texts of a document that has been read.                              *)

\* A text is made of a block: of its types, of what is in it, with all of its body, and,
\* where there is something to keep, no number of it twice.
PartOf(d, block, t) ==
  /\ t \in Seq(Shown(d)) /\ \A v : Holds(t, v) => TextIn(block, v)
  /\ \A v : Holds(block.body, v) => Holds(t, v)
OnceEach(t) == \A i, j \in 1 .. Len(t) : t[i] \in Nat /\ t[i] = t[j] => i = j
WholeOf(block, t) == \A v : TextIn(block, v) => Holds(t, v)

LEMMA BodyIsPart ==
  ASSUME NEW f, NEW d, NEW block \in BlockSet(d)
  PROVE  /\ PartOf(d, block, block.body)
         /\ \A h : BlockUnder(f, d, block, h) => OnceEach(block.body)
<1>1. block.body \in Seq(Shown(d))
  BY DEF BlockSet
<1>2. PartOf(d, block, block.body)
  BY <1>1, Zenon DEF PartOf, TextIn
<1>3. ASSUME NEW h, BlockUnder(f, d, block, h) PROVE OnceEach(block.body)
  <2>1. PICK t \in Seq(Shown(d)) : t = block.body
    BY <1>1
  <2>2. \A i, j \in 1 .. Len(t) : i < j /\ t[i] \in Nat /\ t[j] \in Nat => t[i] < t[j]
    BY <1>3, <2>1, Zenon DEF BlockUnder
  <2>3. \A i, j \in 1 .. Len(t) : i < j \/ j < i \/ i = j
    OBVIOUS
  <2>4. \A u \in Nat : ~(u < u)
    OBVIOUS
  <2>5. ASSUME NEW i \in 1 .. Len(t), NEW j \in 1 .. Len(t), t[i] \in Nat, t[i] = t[j] PROVE i = j
    BY <2>2, <2>3, <2>4, <2>5
  <2> QED
    BY <2>1, <2>5, Zenon DEF OnceEach
<1> QED
  BY <1>2, <1>3

LEMMA SectionIsPart ==
  ASSUME NEW f, NEW d, NEW r, DocumentOK(f, d, r), NEW block \in BlockSet(d)
  PROVE  /\ PartOf(d, block, Section(block)) /\ WholeOf(block, Section(block))
         /\ \A h : BlockUnder(f, d, block, h) => OnceEach(Section(block))
<1>1. PICK t \in Seq(Shown(d)) : t = block.body
  BY DEF BlockSet
<1>a. /\ PartOf(d, block, t)
      /\ \A h : BlockUnder(f, d, block, h) => OnceEach(t)
  BY <1>1, BodyIsPart
<1>2. CASE t = <<>> \/ block.heading = Bare
  <2>1. Section(block) = t
    <3>1. t = <<>> => Section(block) = t
      BY <1>1, Zenon DEF Section
    <3>2. t # <<>> /\ block.heading = Bare => Section(block) = <<>> \o t
      BY <1>1, Zenon DEF Section, Titled
    <3>3. <<>> \o t = t
      <4> HIDE DEF Shown
      <4> QED
        OBVIOUS
    <3> QED
      BY <1>2, <3>1, <3>2, <3>3
  <2>2. WholeOf(block, t)
    BY <1>1, <1>2, Zenon DEF WholeOf, TextIn
  <2> QED
    BY <1>a, <2>1, <2>2
<1>3. CASE t # <<>> /\ block.heading # Bare
  <2>1. PICK k : k = block.heading
    OBVIOUS
  <2>2. k \in 1 .. Len(d) /\ k \in Shown(d)
    <3>1. k \in PlaceOrBare(d)
      BY <2>1 DEF BlockSet
    <3> QED
      BY <1>3, <2>1, <3>1 DEF PlaceOrBare, Places, Shown
  <2>3. PICK all : all = Section(block)
    OBVIOUS
  <2>4. all = <<k>> \o t
    BY <1>1, <1>3, <2>1, <2>3, Zenon DEF Section, Titled
  <2>5. /\ all \in Seq(Shown(d)) /\ Len(all) = Len(t) + 1 /\ all[1] = k
        /\ \A n \in 1 .. Len(t) : all[n + 1] = t[n]
    <3> HIDE DEF Shown
    <3> QED
      BY <2>2, <2>4
  <2>6. PICK N \in Nat : N = Len(t)
    OBVIOUS
  <2>7. \A n \in 1 .. N + 1 : n = 1 \/ \E m \in 1 .. N : n = m + 1
    <3>1. \A n \in 1 .. N + 1 : n = 1 \/ (n - 1 \in 1 .. N /\ n = (n - 1) + 1)
      OBVIOUS
    <3> QED
      BY <3>1
  <2>8. (\A m \in 1 .. N : m + 1 \in 1 .. N + 1) /\ 1 \in 1 .. N + 1
    OBVIOUS
  <2>9. \A v : Holds(all, v) => Holds(t, v) \/ v = k
    BY <2>5, <2>6, <2>7 DEF Holds
  <2>10. \A v : Holds(t, v) \/ v = k => Holds(all, v)
    BY <2>5, <2>6, <2>8 DEF Holds
  <2>11. PartOf(d, block, all)
    <3>1. \A v : Holds(all, v) => TextIn(block, v)
      BY <1>1, <1>3, <2>1, <2>9, Zenon DEF TextIn
    <3> QED
      BY <1>1, <2>5, <2>10, <3>1, Zenon DEF PartOf
  <2>12. WholeOf(block, all)
    BY <1>1, <2>1, <2>10, Zenon DEF WholeOf, TextIn
  <2>13. ASSUME NEW h, BlockUnder(f, d, block, h) PROVE OnceEach(all)
    <3>1. /\ OnceEach(t) /\ block.heading = TitleOf(d, h) /\ (h # Bare => HeadIn(d, h))
          /\ \A j \in 1 .. Len(t) : t[j] \in Nat => ~HeadIn(d, t[j])
      BY <1>1, <1>a, <2>13, Zenon DEF BlockUnder
    <3>2. k = h /\ HeadIn(d, k)
      BY <1>3, <2>1, <3>1 DEF TitleOf
    <3>3. \A j \in 1 .. N : t[j] # k
      BY <2>2, <2>6, <3>1, <3>2
    <3>4. \A i, j \in 1 .. N : t[i] \in Nat /\ t[i] = t[j] => i = j
      BY <2>6, <3>1, Zenon DEF OnceEach
    <3>5. ASSUME NEW i \in 1 .. N + 1, NEW j \in 1 .. N + 1, all[i] \in Nat, all[i] = all[j] PROVE i = j
      <4>1. CASE i = 1 /\ j = 1
        BY <4>1
      <4>2. ASSUME NEW m \in 1 .. N, i = m + 1, j = 1 PROVE FALSE
        BY <2>5, <2>6, <3>3, <3>5, <4>2
      <4>3. ASSUME NEW m \in 1 .. N, j = m + 1, i = 1 PROVE FALSE
        BY <2>5, <2>6, <3>3, <3>5, <4>3
      <4>4. ASSUME NEW m \in 1 .. N, NEW n \in 1 .. N, i = m + 1, j = n + 1 PROVE i = j
        <5>1. all[i] = t[m] /\ all[j] = t[n]
          BY <2>5, <2>6, <4>4
        <5>2. m = n
          BY <3>4, <3>5, <5>1
        <5> QED
          BY <4>4, <5>2
      <4> QED
        BY <2>7, <4>1, <4>2, <4>3, <4>4
    <3>6. Len(all) = N + 1
      BY <2>5, <2>6
    <3> QED
      BY <3>5, <3>6, Zenon DEF OnceEach
  <2> QED
    BY <2>3, <2>11, <2>12, <2>13
<1> QED
  BY <1>2, <1>3

\* A heading over something to keep is that of a block with a text.
LEMMA HeadsTitle ==
  ASSUME NEW f, NEW d, NEW r, DocumentOK(f, d, r), NEW bs, ReadOK(f, d, r, bs), NEW h \in Heads(d)
  PROVE  SomeKept(d) /\ \E b \in 1 .. Len(bs) : bs[b].heading = h /\ h # Bare /\ TextIn(bs[b], h)
<1>1. h \in 1 .. Len(d) /\ d[h].kind \in {"heading", "page"} /\ HasTextIn(d, h)
  BY Zenon DEF Heads
<1>2. PICK i \in 1 .. Len(d) : ContentIn(d, i) /\ AboveIn(d, i) = h
  BY <1>1, Zenon DEF HasTextIn
<1>3. Bare \notin Nat /\ Len(d) \in Nat
  BY DocumentHas
<1>4. h # Bare
  BY <1>1, <1>3
<1>5. KeptIn(d, i)
  <2>1. ~IndexIn(d, i)
    BY <1>1, <1>2 DEF IndexIn
  <2> QED
    BY <1>2, <2>1, Zenon DEF KeptIn
<1>6. SomeKept(d)
  BY <1>5, Zenon DEF SomeKept
<1>7. Placed(f, d, bs) /\ Covered(d, bs, Len(d))
  BY <1>6, Zenon DEF ReadOK
<1>8. PICK b \in 1 .. Len(bs) : Holds(bs[b].body, i)
  BY <1>5, <1>7, Zenon DEF Covered
<1>9. PICK k : BlockUnder(f, d, bs[b], k)
  BY <1>7, Zenon DEF Placed
<1>10. PICK j \in 1 .. Len(bs[b].body) : bs[b].body[j] = i
  BY <1>8, Zenon DEF Holds
<1>11. i \in Nat
  BY <1>3
<1>12. AboveIn(d, i) = k /\ bs[b].heading = TitleOf(d, k)
  BY <1>9, <1>10, <1>11, Zenon DEF BlockUnder
<1>13. bs[b].heading = h
  BY <1>1, <1>2, <1>12 DEF TitleOf
<1>14. bs[b].body # <<>>
  <2>1. PICK t : t = bs[b].body
    OBVIOUS
  <2>2. t = <<>> => 1 .. Len(t) = {}
    OBVIOUS
  <2> QED
    BY <1>10, <2>1, <2>2
<1> QED
  BY <1>4, <1>6, <1>13, <1>14, Zenon DEF TextIn

\* The texts and pages of these blocks, with their headings or without.
PartsOf(d, bs, src, pg) ==
  \A b \in 1 .. Len(bs) : /\ PartOf(d, bs[b], src[b]) /\ pg[b] = bs[b].page
                          /\ SomeKept(d) => OnceEach(src[b])
WholesOf(bs, src) == \A b \in 1 .. Len(bs) : WholeOf(bs[b], src[b])

\* What texts have that are made of the blocks of a document.
LEMMA SourceFrom ==
  ASSUME NEW f, NEW q, NEW d, NEW r, DocumentOK(f, d, r), NEW bs, ReadOK(f, d, r, bs),
         NEW src, NEW pg, PartsOf(d, bs, src, pg), q = "default" => WholesOf(bs, src)
  PROVE  SourceSet(d, src, pg, Len(bs)) /\ SourceOK(f, q, d, r, src, pg, Len(bs))
<1>1. PICK L \in Nat : L = Len(bs)
  BY DEF ReadOK, Typed
<1>2. \A b \in 1 .. L : bs[b] \in BlockSet(d)
  <2> HIDE DEF BlockSet
  <2> QED
    BY <1>1, ListHas DEF ReadOK, Typed
<1>3. \A b \in 1 .. L : PartOf(d, bs[b], src[b]) /\ pg[b] = bs[b].page
  BY <1>1, Zenon DEF PartsOf
<1>4. SourceSet(d, src, pg, L)
  <2>1. ASSUME NEW b \in 1 .. L PROVE src[b] \in Seq(Shown(d)) /\ pg[b] \in PlaceOrBare(d)
    <3>1. src[b] \in Seq(Shown(d))
      BY <1>3, Zenon DEF PartOf
    <3>2. bs[b].page \in PlaceOrBare(d)
      BY <1>2 DEF BlockSet
    <3> QED
      BY <1>3, <3>1, <3>2
  <2> QED
    BY <2>1, Zenon DEF SourceSet
<1>5. \A b, k, v : Has(src, L, b, k, v) => b \in 1 .. L /\ TextIn(bs[b], v) /\ k \in 1 .. Len(src[b]) /\ src[b][k] = v
  <2>1. \A b, k, v : Has(src, L, b, k, v) => b \in 1 .. L /\ k \in 1 .. Len(src[b]) /\ src[b][k] = v
    BY Zenon DEF Has
  <2>2. \A b \in 1 .. L : \A v : Holds(src[b], v) => TextIn(bs[b], v)
    BY <1>3, Zenon DEF PartOf
  <2>3. \A b \in 1 .. L : \A k, v : k \in 1 .. Len(src[b]) /\ src[b][k] = v => TextIn(bs[b], v)
    BY <2>2, Zenon DEF Holds
  <2> QED
    BY <2>1, <2>3
<1>6. \A b \in 1 .. L : \A v : Holds(src[b], v) => \E k : Has(src, L, b, k, v)
  BY Zenon DEF Holds, Has
<1>7. \A b \in 1 .. L : \A v : Holds(bs[b].body, v) => \E k : Has(src, L, b, k, v)
  BY <1>3, <1>6, Zenon DEF PartOf
<1>8. SomeKept(d) => Placed(f, d, bs) /\ InOrder(bs) /\ Covered(d, bs, Len(d))
  BY Zenon DEF ReadOK
<1>9. SourceKept(d, src, L)
  <2> SUFFICES ASSUME NEW v \in 1 .. Len(d), KeptIn(d, v) PROVE \E b, k : Has(src, L, b, k, v)
    BY Zenon DEF SourceKept
  <2>1. PICK b \in 1 .. L : Holds(bs[b].body, v)
    BY <1>1, <1>8, Zenon DEF SomeKept, Covered
  <2> QED
    BY <1>7, <2>1
<1>10. SourceOnce(d, src, L)
  <2> SUFFICES ASSUME SomeKept(d), NEW v \in Nat PROVE Once(src, L, v)
    BY Zenon DEF SourceOnce
  <2>1. \A b, c \in 1 .. L : b < c => \A u, t : NumOf(bs[b], u) /\ NumOf(bs[c], t) => u < t
    BY <1>1, <1>8, Zenon DEF InOrder
  <2>2. \A b \in 1 .. L : OnceEach(src[b])
    BY <1>1, Zenon DEF PartsOf
  <2>3. \A b \in 1 .. L : TextIn(bs[b], v) => NumOf(bs[b], v)
    BY Zenon DEF TextIn, NumOf
  <2>4. \A b, c \in 1 .. L : b < c \/ c < b \/ b = c
    OBVIOUS
  <2>5. ~(v < v)
    OBVIOUS
  <2> SUFFICES ASSUME NEW b, NEW i, NEW e, NEW j, Has(src, L, b, i, v), Has(src, L, e, j, v)
               PROVE  b = e /\ i = j
    BY Zenon DEF Once
  <2>6. /\ b \in 1 .. L /\ TextIn(bs[b], v) /\ i \in 1 .. Len(src[b]) /\ src[b][i] = v
        /\ e \in 1 .. L /\ TextIn(bs[e], v) /\ j \in 1 .. Len(src[e]) /\ src[e][j] = v
    BY <1>5
  <2>7. b = e
    BY <2>1, <2>3, <2>4, <2>5, <2>6
  <2>8. i = j
    BY <2>2, <2>6, <2>7, Zenon DEF OnceEach
  <2> QED
    BY <2>7, <2>8
<1>11. q = "default" => SourceHeads(d, src, L)
  <2> SUFFICES ASSUME q = "default", NEW h \in Heads(d) PROVE \E b, k : Has(src, L, b, k, h)
    BY Zenon DEF SourceHeads
  <2>1. PICK b \in 1 .. L : TextIn(bs[b], h)
    BY <1>1, HeadsTitle
  <2>2. Holds(src[b], h)
    BY <1>1, <2>1, Zenon DEF WholesOf, WholeOf
  <2> QED
    BY <1>6, <2>2
<1>12. Heads(d) # {} => SourceUnder(d, src, L)
  <2>0. SUFFICES ASSUME Heads(d) # {} PROVE SourceUnder(d, src, L)
    OBVIOUS
  <2>1. SomeKept(d)
    <3>1. PICK h \in Heads(d) : TRUE
      BY <2>0
    <3> QED
      BY HeadsTitle
  <2>2. ASSUME NEW b \in 1 .. L, NEW h, BlockUnder(f, d, bs[b], h), NEW v \in 1 .. Len(d), TextIn(bs[b], v)
        PROVE  AboveIn(d, v) = h
    <3>1. Bare \notin Nat /\ v \in Nat \ {0}
      BY DocumentHas
    <3>2. /\ bs[b].heading = TitleOf(d, h) /\ (h # Bare => HeadIn(d, h))
          /\ \A j \in 1 .. Len(bs[b].body) : bs[b].body[j] \in Nat => AboveIn(d, bs[b].body[j]) = h
      BY <2>2, Zenon DEF BlockUnder
    <3>3. CASE Holds(bs[b].body, v)
      BY <3>1, <3>2, <3>3 DEF Holds
    <3>4. CASE bs[b].heading # Bare /\ v = bs[b].heading
      <4>1. v = h /\ HeadIn(d, v)
        BY <3>2, <3>4 DEF TitleOf
      <4>2. AboveRules(d, v)
        BY <3>1, AboveGoesOn
      <4> QED
        BY <4>1, <4>2, Zenon DEF AboveRules
    <3> QED
      BY <2>2, <3>3, <3>4, Zenon DEF TextIn
  <2>3. ASSUME NEW b, NEW i, NEW j, NEW u \in 1 .. Len(d), NEW v \in 1 .. Len(d),
               Has(src, L, b, i, u), Has(src, L, b, j, v)
        PROVE  AboveIn(d, u) = AboveIn(d, v)
    <3>1. b \in 1 .. L /\ TextIn(bs[b], u) /\ TextIn(bs[b], v)
      BY <1>5, <2>3
    <3>2. PICK h : BlockUnder(f, d, bs[b], h)
      BY <1>1, <1>8, <2>1, <3>1, Zenon DEF Placed
    <3> QED
      BY <2>2, <3>1, <3>2
  <2>4. \A b, i, j, u, v :
          Has(src, L, b, i, u) /\ Has(src, L, b, j, v) /\ u \in 1 .. Len(d) /\ v \in 1 .. Len(d) =>
            AboveIn(d, u) = AboveIn(d, v)
    BY <2>3
  <2> QED
    BY <2>4, Zenon DEF SourceUnder
<1>13. SourcePages(f, d, src, pg, L)
  <2> SUFFICES ASSUME NEW b \in 1 .. L, pg[b] # Bare, NEW k, NEW v, Has(src, L, b, k, v)
               PROVE  OnPage(f, d, pg[b], v)
    BY Zenon DEF SourcePages
  <2>1. PageOK(f, d, bs[b]) /\ pg[b] = bs[b].page
    BY <1>1, <1>3, Zenon DEF ReadOK
  <2>2. TextIn(bs[b], v)
    BY <1>5
  <2>3. bs[b].page = IF f = "pages" THEN v ELSE LastOf(PagesIn(d, v))
    BY <2>1, <2>2, Zenon DEF PageOK
  <2> QED
    BY <2>1, <2>3, Zenon DEF OnPage
<1>14. f = "docx" => SourcePictures(d, r, src, L)
  <2> SUFFICES ASSUME f = "docx", NEW p \in ToShow(d, r)
               PROVE  \E b, k, v : Has(src, L, b, k, v) /\ (v = p \/ v \in OpenIn(d, p))
    BY Zenon DEF SourcePictures
  <2>1. p \in r /\ (HoldersIn(d, p) = {} \/ OpenIn(d, p) # {})
    BY Zenon DEF ToShow
  <2>2. PictureOK(d, bs, p)
    BY <2>1, Zenon DEF ReadOK
  <2>3. PICK b, v : b \in 1 .. L /\ Holds(bs[b].body, v) /\ (v = p \/ v \in OpenIn(d, p))
    BY <1>1, <2>1, <2>2, Zenon DEF PictureOK
  <2> QED
    BY <1>7, <2>3
<1>15. SourceOK(f, q, d, r, src, pg, L)
  BY <1>9, <1>10, <1>11, <1>12, <1>13, <1>14, Zenon DEF SourceOK
<1> QED
  BY <1>1, <1>4, <1>15

\* A list of one list.
LEMMA OneList ==
  ASSUME NEW X, NEW t \in Seq(X)
  PROVE  /\ \A b, k, v : Has(<<t>>, 1, b, k, v) <=> b = 1 /\ k \in 1 .. Len(t) /\ t[k] = v
         /\ Joined(<<t>>) = t
<1>1. PICK s : s = <<t>>
  OBVIOUS
<1>2. Len(s) = 1 /\ s[1] = t /\ 1 .. 1 = {1}
  BY <1>1
<1>3. \A b, k, v : Has(s, 1, b, k, v) <=> b = 1 /\ k \in 1 .. Len(t) /\ t[k] = v
  BY <1>2 DEF Has
<1>4. PICK all : JoinOf(all, s, 1) /\ Joined(s) = all[1]
  <2>1. Len(s) \in Nat
    BY <1>2
  <2>2. \E all : JoinOf(all, s, Len(s)) /\ Joined(s) = all[Len(s)]
    BY <2>1, JoinedIsLoop
  <2> QED
    BY <1>2, <2>2
<1>5. all[0] = <<>> /\ all[1] = all[0] \o s[1]
  <2>1. 1 - 1 = 0 /\ 1 \in 1 .. 1
    OBVIOUS
  <2> QED
    BY <1>4, <2>1 DEF JoinOf
<1>6. <<>> \o t = t
  OBVIOUS
<1> QED
  BY <1>1, <1>2, <1>3, <1>4, <1>5, <1>6

\* The whole text of a document, and its first page.
WholeText(f, d, bs) ==
  IF f = "markdown" THEN [i \in Places(d) |-> i] ELSE Joined([b \in DOMAIN bs |-> Section(bs[b])])
FirstOf(bs) == IF bs = <<>> THEN Bare ELSE bs[1].page

\* A text that has what is to be kept once, and a page it is on.
TextOK(f, q, d, r, all, p) ==
  /\ all \in Seq(Shown(d)) /\ p \in PlaceOrBare(d)
  /\ \A v \in 1 .. Len(d) : KeptIn(d, v) => Holds(all, v)
  /\ SomeKept(d) => OnceEach(all)
  /\ f = "docx" => \A u \in ToShow(d, r) : \E v : Holds(all, v) /\ (v = u \/ v \in OpenIn(d, u))
  /\ q = "page" \/ q = "default" => Heads(d) = {}
  /\ ByPages(f, q) => p = Bare

LEMMA WholeTextSource ==
  ASSUME NEW f, NEW q, NEW d, NEW r, NEW all, NEW p, TextOK(f, q, d, r, all, p)
  PROVE  SourceSet(d, <<all>>, <<p>>, 1) /\ SourceOK(f, q, d, r, <<all>>, <<p>>, 1)
<1>1. /\ all \in Seq(Shown(d)) /\ p \in PlaceOrBare(d)
      /\ \A v \in 1 .. Len(d) : KeptIn(d, v) => Holds(all, v)
      /\ SomeKept(d) => OnceEach(all)
      /\ f = "docx" => \A u \in ToShow(d, r) : \E v : Holds(all, v) /\ (v = u \/ v \in OpenIn(d, u))
      /\ q = "page" \/ q = "default" => Heads(d) = {}
      /\ ByPages(f, q) => p = Bare
  BY Zenon DEF TextOK
<1>2. PICK src, pg : src = <<all>> /\ pg = <<p>>
  OBVIOUS
<1>3. src[1] = all /\ pg[1] = p /\ \A b \in 1 .. 1 : b = 1
  BY <1>2
<1>4. \A b, k, v : Has(src, 1, b, k, v) <=> b = 1 /\ k \in 1 .. Len(all) /\ all[k] = v
  <2> HIDE DEF Shown
  <2> QED
    BY <1>1, <1>2, OneList
<1>5. SourceSet(d, src, pg, 1)
  BY <1>1, <1>3, Zenon DEF SourceSet
<1>6. \A v : Holds(all, v) => \E b, k : Has(src, 1, b, k, v)
  BY <1>4, Zenon DEF Holds
<1>7. SourceKept(d, src, 1)
  BY <1>1, <1>6, Zenon DEF SourceKept
<1>8. SourceOnce(d, src, 1)
  <2> SUFFICES ASSUME SomeKept(d), NEW v \in Nat, NEW b, NEW i, NEW e, NEW j,
                      Has(src, 1, b, i, v), Has(src, 1, e, j, v)
               PROVE  b = e /\ i = j
    BY Zenon DEF SourceOnce, Once
  <2>1. b = 1 /\ e = 1 /\ i \in 1 .. Len(all) /\ j \in 1 .. Len(all) /\ all[i] = v /\ all[j] = v
    BY <1>4
  <2>2. OnceEach(all)
    BY <1>1
  <2>3. i = j
    BY <2>1, <2>2, Zenon DEF OnceEach
  <2> QED
    BY <2>1, <2>3
<1>9. q = "default" => SourceHeads(d, src, 1)
  BY <1>1, Zenon DEF SourceHeads
<1>10. q = "default" => Heads(d) = {}
  BY <1>1
<1>11. ByPages(f, q) => SourcePages(f, d, src, pg, 1)
  BY <1>1, <1>3, Zenon DEF SourcePages
<1>12. f = "docx" => SourcePictures(d, r, src, 1)
  BY <1>1, <1>6, Zenon DEF SourcePictures
<1>13. SourceOK(f, q, d, r, src, pg, 1)
  BY <1>7, <1>8, <1>9, <1>10, <1>11, <1>12, Zenon DEF SourceOK
<1> QED
  BY <1>2, <1>5, <1>13

\* The whole text has what the document has.
LEMMA TextIsWhole ==
  ASSUME NEW f, NEW q, NEW d, NEW r, DocumentOK(f, d, r), NEW bs, ReadOK(f, d, r, bs),
         q = "length" \/ (q = "default" /\ \A b \in 1 .. Len(bs) : bs[b].heading = Bare),
         NEW all, all = WholeText(f, d, bs), NEW p, p = FirstOf(bs)
  PROVE  TextOK(f, q, d, r, all, p)
<1>1. PICK L \in Nat : L = Len(bs) /\ DOMAIN bs = 1 .. L
  BY DEF ReadOK, Typed
<1>2. \A b \in 1 .. L : bs[b] \in BlockSet(d)
  <2> HIDE DEF BlockSet
  <2> QED
    BY <1>1, ListHas DEF ReadOK, Typed
<1>3. bs # <<>> => 1 \in 1 .. L
  <2>1. bs \in Seq(BlockSet(d))
    BY Zenon DEF ReadOK, Typed
  <2> HIDE DEF BlockSet
  <2> QED
    BY <1>1, <2>1
<1>4. p \in PlaceOrBare(d)
  <2>1. bs # <<>> => bs[1].page \in PlaceOrBare(d)
    BY <1>2, <1>3 DEF BlockSet
  <2> QED
    BY <2>1 DEF FirstOf, PlaceOrBare
<1>5. q = "page" \/ q = "default" => Heads(d) = {}
  <2>1. ASSUME NEW h \in Heads(d), q = "page" \/ q = "default" PROVE FALSE
    BY <1>1, <2>1, HeadsTitle
  <2> QED
    BY <2>1
<1>6. ByPages(f, q) => p = Bare
  <2> SUFFICES ASSUME ByPages(f, q), bs # <<>> PROVE bs[1].page = Bare
    BY Zenon DEF FirstOf
  <2>1. f # "pages" /\ bs[1].heading = Bare
    BY <1>1, <1>3 DEF ByPages
  <2>2. PageOK(f, d, bs[1])
    BY <1>1, <1>3, Zenon DEF ReadOK
  <2> QED
    BY <2>1, <2>2, Zenon DEF PageOK
<1>7. CASE f = "markdown"
  <2>1. all = [i \in 1 .. Len(d) |-> i]
    BY <1>7, Zenon DEF WholeText, Places
  <2>2. PICK N \in Nat : N = Len(d)
    BY DocumentHas
  <2>3. all \in [1 .. N -> Shown(d)] /\ \A i \in 1 .. N : all[i] = i
    BY <2>1, <2>2 DEF Shown, Places
  <2>4. all \in Seq(Shown(d)) /\ Len(all) = N
    <3> HIDE DEF Shown
    <3> QED
      BY <2>3, MakesList
  <2>5. \A v \in 1 .. N : Holds(all, v)
    BY <2>3, <2>4, Zenon DEF Holds
  <2>6. OnceEach(all)
    BY <2>3, <2>4 DEF OnceEach
  <2>7. f # "docx"
    BY <1>7
  <2> QED
    BY <1>4, <1>5, <1>6, <2>2, <2>4, <2>5, <2>6, <2>7, Zenon DEF TextOK
<1>8. CASE f # "markdown"
  <2>1. PICK src : src = [b \in 1 .. L |-> Section(bs[b])]
    OBVIOUS
  <2>2. PICK pg : pg = [b \in 1 .. L |-> bs[b].page]
    OBVIOUS
  <2>3. (\A b \in 1 .. L : src[b] = Section(bs[b]) /\ pg[b] = bs[b].page) /\ Len(src) = L
    BY <2>1, <2>2
  <2>4. all = Joined(src)
    BY <1>1, <1>8, <2>1, Zenon DEF WholeText
  <2>5. PartsOf(d, bs, src, pg) /\ WholesOf(bs, src)
    <3>1. ASSUME NEW b \in 1 .. L
          PROVE  /\ PartOf(d, bs[b], src[b]) /\ pg[b] = bs[b].page /\ WholeOf(bs[b], src[b])
                 /\ SomeKept(d) => OnceEach(src[b])
      <4>1. PICK block \in BlockSet(d) : block = bs[b]
        BY <1>2
      <4>2. /\ PartOf(d, block, Section(block)) /\ WholeOf(block, Section(block))
            /\ \A h : BlockUnder(f, d, block, h) => OnceEach(Section(block))
        BY SectionIsPart
      <4>3. SomeKept(d) => \E h : BlockUnder(f, d, block, h)
        BY <1>1, <4>1, Zenon DEF ReadOK, Placed
      <4> QED
        BY <2>3, <4>1, <4>2, <4>3
    <3> QED
      BY <1>1, <3>1, Zenon DEF PartsOf, WholesOf
  <2>6. SourceSet(d, src, pg, L) /\ SourceOK(f, q, d, r, src, pg, L)
    BY <1>1, <2>5, SourceFrom
  <2>7. \A b \in 1 .. L : src[b] \in Seq(Shown(d))
    BY <2>6, Zenon DEF SourceSet
  <2>8. all \in Seq(Shown(d)) /\ Follows(all, src, L)
    <3> HIDE DEF Shown
    <3> QED
      BY <2>3, <2>4, <2>7, JoinedFollows
  <2>9. /\ \A b, m, v : Has(src, L, b, m, v) => \E c \in 1 .. Len(all) : all[c] = v
        /\ \A c, e \in 1 .. Len(all) : c # e =>
             \E b, m, k, n : Has(src, L, b, m, all[c]) /\ Has(src, L, k, n, all[e]) /\ ~(b = k /\ m = n)
    BY <2>8, Zenon DEF Follows, Brings, Apart
  <2>10. \A v \in 1 .. Len(d) : KeptIn(d, v) => Holds(all, v)
    <3>1. \A v \in 1 .. Len(d) : KeptIn(d, v) => \E b, k : Has(src, L, b, k, v)
      BY <2>6, Zenon DEF SourceOK, SourceKept
    <3> QED
      BY <2>9, <3>1, Zenon DEF Holds
  <2>11. SomeKept(d) => OnceEach(all)
    <3>1. ASSUME SomeKept(d), NEW i \in 1 .. Len(all), NEW j \in 1 .. Len(all), all[i] \in Nat, all[i] = all[j],
                 i # j
          PROVE  FALSE
      <4>1. PICK v \in Nat : v = all[i] /\ v = all[j]
        BY <3>1
      <4>2. Once(src, L, v)
        BY <2>6, <3>1, Zenon DEF SourceOK, SourceOnce
      <4>3. PICK b, m, k, n : Has(src, L, b, m, all[i]) /\ Has(src, L, k, n, all[j]) /\ ~(b = k /\ m = n)
        BY <2>9, <3>1
      <4>4. Has(src, L, b, m, v) /\ Has(src, L, k, n, v)
        BY <4>1, <4>3
      <4> QED
        BY <4>2, <4>3, <4>4, Zenon DEF Once
    <3>2. SomeKept(d) => \A i, j \in 1 .. Len(all) : all[i] \in Nat /\ all[i] = all[j] => i = j
      BY <3>1
    <3> QED
      BY <3>2, Zenon DEF OnceEach
  <2>12. f = "docx" => \A u \in ToShow(d, r) : \E v : Holds(all, v) /\ (v = u \/ v \in OpenIn(d, u))
    <3>1. f = "docx" => \A u \in ToShow(d, r) : \E b, k, v : Has(src, L, b, k, v) /\ (v = u \/ v \in OpenIn(d, u))
      BY <2>6, Zenon DEF SourceOK, SourcePictures
    <3> QED
      BY <2>9, <3>1, Zenon DEF Holds
  <2> QED
    BY <1>4, <1>5, <1>6, <2>8, <2>10, <2>11, <2>12, Zenon DEF TextOK
<1> QED
  BY <1>7, <1>8

-----------------------------------------------------------------------------
(* The chunks and index texts of a document that has been read.             *)

ByParts(src, pg, L) == Joined([b \in 1 .. L |-> CutTo(src[b], pg[b])])
Bodies(bs) == [b \in 1 .. Len(bs) |-> bs[b].body]
Sectioned(bs) == [b \in 1 .. Len(bs) |-> Section(bs[b])]
PagesOf(bs) == [b \in 1 .. Len(bs) |-> bs[b].page]

LEMMA PartsSplit ==
  ASSUME NEW f, NEW q, NEW d, NEW r, DocumentOK(f, d, r), NEW bs, ReadOK(f, d, r, bs),
         NEW src, NEW pg, PartsOf(d, bs, src, pg), q = "default" => WholesOf(bs, src)
  PROVE  ChunksOK(f, q, d, r, ByParts(src, pg, Len(bs)))
<1>1. PICK L \in Nat : L = Len(bs)
  BY DEF ReadOK, Typed
<1>2. SourceSet(d, src, pg, L) /\ SourceOK(f, q, d, r, src, pg, L)
  BY <1>1, SourceFrom
<1>3. PICK s : s = [b \in 1 .. L |-> CutTo(src[b], pg[b])]
  OBVIOUS
<1>4. ListsCut(s, src, pg, L)
  BY <1>3 DEF ListsCut
<1>5. PICK cs : cs = Joined(s)
  OBVIOUS
<1>6. ChunksOK(f, q, d, r, cs)
  BY <1>2, <1>4, <1>5, ChunksFrom
<1> QED
  BY <1>1, <1>3, <1>5, <1>6, Zenon DEF ByParts

LEMMA BodiesAndWholes ==
  ASSUME NEW f, NEW d, NEW r, DocumentOK(f, d, r), NEW bs, ReadOK(f, d, r, bs)
  PROVE  /\ PartsOf(d, bs, Bodies(bs), PagesOf(bs)) /\ PartsOf(d, bs, Sectioned(bs), PagesOf(bs))
         /\ WholesOf(bs, Sectioned(bs))
<1>1. \A b \in 1 .. Len(bs) : bs[b] \in BlockSet(d)
  <2> HIDE DEF BlockSet
  <2> QED
    BY ListHas DEF ReadOK, Typed
<1>2. ASSUME NEW b \in 1 .. Len(bs)
      PROVE  /\ PartOf(d, bs[b], Bodies(bs)[b]) /\ PagesOf(bs)[b] = bs[b].page
             /\ PartOf(d, bs[b], Sectioned(bs)[b]) /\ WholeOf(bs[b], Sectioned(bs)[b])
             /\ SomeKept(d) => OnceEach(Bodies(bs)[b]) /\ OnceEach(Sectioned(bs)[b])
  <2>1. PICK block \in BlockSet(d) : block = bs[b]
    BY <1>1
  <2>2. /\ PartOf(d, block, Section(block)) /\ WholeOf(block, Section(block))
        /\ \A h : BlockUnder(f, d, block, h) => OnceEach(Section(block))
    BY SectionIsPart
  <2>3. /\ PartOf(d, block, block.body)
        /\ \A h : BlockUnder(f, d, block, h) => OnceEach(block.body)
    BY BodyIsPart
  <2>4. SomeKept(d) => \E h : BlockUnder(f, d, block, h)
    BY <2>1, Zenon DEF ReadOK, Placed
  <2>5. Bodies(bs)[b] = block.body /\ Sectioned(bs)[b] = Section(block) /\ PagesOf(bs)[b] = block.page
    BY <2>1, Zenon DEF Bodies, Sectioned, PagesOf
  <2> QED
    BY <2>1, <2>2, <2>3, <2>4, <2>5
<1>3. PartsOf(d, bs, Bodies(bs), PagesOf(bs))
  BY <1>2, Zenon DEF PartsOf
<1>4. PartsOf(d, bs, Sectioned(bs), PagesOf(bs))
  BY <1>2, Zenon DEF PartsOf
<1>5. WholesOf(bs, Sectioned(bs))
  BY <1>2, Zenon DEF WholesOf
<1> QED
  BY <1>3, <1>4, <1>5

LEMMA WholeSplit ==
  ASSUME NEW f, NEW q, NEW d, NEW r, NEW all, NEW p, TextOK(f, q, d, r, all, p)
  PROVE  ChunksOK(f, q, d, r, CutTo(all, p))
<1>1. SourceSet(d, <<all>>, <<p>>, 1) /\ SourceOK(f, q, d, r, <<all>>, <<p>>, 1)
  BY WholeTextSource
<1>2. all \in Seq(Shown(d)) /\ p \in PlaceOrBare(d)
  BY Zenon DEF TextOK
<1>3. PICK made : made = CutTo(all, p)
  OBVIOUS
<1>4. made \in Seq(ChunkSet(d))
  BY <1>2, <1>3, CutToHas
<1>5. Joined(<<made>>) = made
  <2> HIDE DEF ChunkSet
  <2> QED
    BY <1>4, OneList
<1>6. PICK s, src, pg : s = <<made>> /\ src = <<all>> /\ pg = <<p>>
  OBVIOUS
<1>7. ListsCut(s, src, pg, 1)
  <2>1. Len(s) = 1 /\ s[1] = made /\ src[1] = all /\ pg[1] = p /\ \A b \in 1 .. 1 : b = 1
    BY <1>6
  <2> QED
    BY <1>3, <2>1, Zenon DEF ListsCut
<1>8. PICK cs : cs = Joined(s)
  OBVIOUS
<1>9. SourceSet(d, src, pg, 1) /\ SourceOK(f, q, d, r, src, pg, 1) /\ 1 \in Nat
  BY <1>1, <1>6
<1>10. ChunksOK(f, q, d, r, cs)
  BY <1>7, <1>8, <1>9, ChunksFrom
<1> QED
  BY <1>3, <1>5, <1>6, <1>8, <1>10

\* What a plan makes of the blocks.
ChunksOf(f, q, d, bs) ==
  CASE q = "page" -> ByParts(Bodies(bs), PagesOf(bs), Len(bs))
    [] q = "length" -> CutTo(WholeText(f, d, bs), FirstOf(bs))
    [] q = "default" -> IF \E b \in 1 .. Len(bs) : bs[b].heading # Bare
                        THEN ByParts(Sectioned(bs), PagesOf(bs), Len(bs))
                        ELSE CutTo(WholeText(f, d, bs), FirstOf(bs))

LEMMA SplitOK ==
  ASSUME NEW f, NEW q \in Plans, NEW d, NEW r, DocumentOK(f, d, r), NEW bs, ReadOK(f, d, r, bs)
  PROVE  ChunksOK(f, q, d, r, ChunksOf(f, q, d, bs))
<1>1. q = "page" \/ q = "length" \/ q = "default"
  BY DEF Plans
<1>2. /\ PartsOf(d, bs, Bodies(bs), PagesOf(bs)) /\ PartsOf(d, bs, Sectioned(bs), PagesOf(bs))
      /\ WholesOf(bs, Sectioned(bs))
  BY BodiesAndWholes
<1>3. CASE q = "page"
  <2>1. q # "default"
    BY <1>3
  <2>2. ChunksOK(f, q, d, r, ByParts(Bodies(bs), PagesOf(bs), Len(bs)))
    BY <1>2, <2>1, PartsSplit
  <2>3. ChunksOf(f, q, d, bs) = ByParts(Bodies(bs), PagesOf(bs), Len(bs))
    BY <1>3 DEF ChunksOf
  <2> QED
    BY <2>2, <2>3
<1>4. CASE q = "default" /\ \E b \in 1 .. Len(bs) : bs[b].heading # Bare
  <2>1. ChunksOK(f, q, d, r, ByParts(Sectioned(bs), PagesOf(bs), Len(bs)))
    BY <1>2, PartsSplit
  <2>2. ChunksOf(f, q, d, bs) = ByParts(Sectioned(bs), PagesOf(bs), Len(bs))
    BY <1>4 DEF ChunksOf
  <2> QED
    BY <2>1, <2>2
<1>5. CASE q = "length" \/ (q = "default" /\ ~\E b \in 1 .. Len(bs) : bs[b].heading # Bare)
  <2>1. PICK all, p : all = WholeText(f, d, bs) /\ p = FirstOf(bs)
    OBVIOUS
  <2>2. q = "length" \/ (q = "default" /\ \A b \in 1 .. Len(bs) : bs[b].heading = Bare)
    BY <1>5
  <2>3. TextOK(f, q, d, r, all, p)
    BY <2>1, <2>2, TextIsWhole
  <2>4. ChunksOK(f, q, d, r, CutTo(all, p))
    BY <2>3, WholeSplit
  <2>5. ChunksOf(f, q, d, bs) = CutTo(all, p)
    BY <1>5, <2>1 DEF ChunksOf
  <2> QED
    BY <2>4, <2>5
<1> QED
  BY <1>1, <1>3, <1>4, <1>5

\* The index texts of chunks.
IndexesIn(cs, c) ==
  [n \in DOMAIN Cut(cs[c].texts, IndexItems) |->
     [data |-> c, texts |-> Cut(cs[c].texts, IndexItems)[n]]]
AllIndexes(cs) == Joined([c \in DOMAIN cs |-> IndexesIn(cs, c)])
IndexSet(d, cs) == [data : DOMAIN cs, texts : Seq(Shown(d))]

\* They are those of chunks, with what is to be kept, once.
IndexesOK(d, cs, xs) ==
  /\ xs \in Seq(IndexSet(d, cs)) /\ ChunksKept(d, xs) /\ ChunksOnce(d, xs)

LEMMA IndexesHave ==
  ASSUME NEW f, NEW q, NEW d, NEW r, NEW cs, ChunksOK(f, q, d, r, cs), NEW xs, xs = AllIndexes(cs)
  PROVE  IndexesOK(d, cs, xs)
<1>1. cs \in Seq(ChunkSet(d)) /\ ChunksKept(d, cs) /\ ChunksOnce(d, cs)
  BY Zenon DEF ChunksOK
<1>2. PICK L \in Nat : L = Len(cs) /\ DOMAIN cs = 1 .. L
  <2> HIDE DEF ChunkSet
  <2> QED
    BY <1>1
<1>3. \A c \in 1 .. L : cs[c].texts \in Seq(Shown(d))
  <2>1. \A c \in 1 .. L : cs[c] \in ChunkSet(d)
    <3> HIDE DEF ChunkSet
    <3> QED
      BY <1>1, <1>2, ListHas
  <2> QED
    BY <2>1 DEF ChunkSet
<1>4. IndexItems \in Nat \ {0}
  BY SectionsAssumption
<1>5. PICK src : src = [c \in 1 .. L |-> cs[c].texts]
  OBVIOUS
<1>6. \A c \in 1 .. L : src[c] = cs[c].texts /\ src[c] \in Seq(Shown(d))
  BY <1>3, <1>5
<1>7. PICK s : s = [c \in 1 .. L |-> IndexesIn(cs, c)]
  OBVIOUS
<1>8. xs = Joined(s)
  BY <1>2, <1>7, Zenon DEF AllIndexes
<1>9. Len(s) = L /\ \A c \in 1 .. L : s[c] = IndexesIn(cs, c)
  BY <1>7
<1>10. ASSUME NEW c \in 1 .. L
       PROVE  /\ s[c] \in Seq(IndexSet(d, cs)) /\ Len(s[c]) = Len(Cut(src[c], IndexItems))
              /\ \A n \in 1 .. Len(s[c]) : s[c][n].texts = Cut(src[c], IndexItems)[n]
  <2>1. PICK t \in Seq(Shown(d)) : t = src[c] /\ t = cs[c].texts
    BY <1>6
  <2>2. PICK cuts : cuts = Cut(t, IndexItems)
    OBVIOUS
  <2>3. cuts \in Seq(Seq(Shown(d)))
    BY <1>4, <2>2, CutHolds
  <2>4. PICK N \in Nat : N = Len(cuts) /\ DOMAIN cuts = 1 .. N
    <3> HIDE DEF Shown
    <3> QED
      BY <2>3
  <2>5. \A n \in 1 .. N : cuts[n] \in Seq(Shown(d))
    <3> HIDE DEF Shown
    <3> QED
      BY <2>3, <2>4
  <2>6. PICK made : made = [n \in 1 .. N |-> [data |-> c, texts |-> cuts[n]]]
    OBVIOUS
  <2>7. made = s[c]
    BY <1>9, <2>1, <2>2, <2>4, <2>6, Zenon DEF IndexesIn
  <2>8. \A n \in 1 .. N : [data |-> c, texts |-> cuts[n]] \in IndexSet(d, cs)
    BY <1>2, <2>5 DEF IndexSet
  <2>9. made \in [1 .. N -> IndexSet(d, cs)]
    BY <2>6, <2>8
  <2>10. made \in Seq(IndexSet(d, cs)) /\ Len(made) = N
    BY <2>9, MakesList
  <2>11. \A n \in 1 .. N : made[n].texts = cuts[n]
    BY <2>6
  <2> QED
    BY <2>1, <2>2, <2>4, <2>7, <2>10, <2>11
<1>11. CutUp(s, src, IndexItems, L)
  BY <1>10, Zenon DEF CutUp
<1>12. xs \in Seq(IndexSet(d, cs)) /\ MadeOf(xs, s, src, L)
  <2>1. \A c \in 1 .. L : s[c] \in Seq(IndexSet(d, cs)) /\ src[c] \in Seq(Shown(d))
    BY <1>6, <1>10
  <2> HIDE DEF IndexSet, Shown
  <2> QED
    BY <1>4, <1>8, <1>9, <1>11, <2>1, ChunksMadeOf
<1>13. /\ \A b, i, v : Has(src, L, b, i, v) => \E c, k : InTexts(xs, c, k, v)
       /\ \A v : Once(src, L, v) => OnceIn(xs, v)
  BY <1>12, Zenon DEF MadeOf
<1>14. \A c, k, v : InTexts(cs, c, k, v) <=> Has(src, L, c, k, v)
  BY <1>2, <1>6 DEF InTexts, Has
<1>15. ChunksKept(d, xs)
  BY <1>1, <1>13, <1>14, Zenon DEF ChunksKept
<1>16. ChunksOnce(d, xs)
  <2>1. \A v : OnceIn(cs, v) => Once(src, L, v)
    BY <1>14, Zenon DEF OnceIn, Once
  <2> QED
    BY <1>1, <1>13, <2>1, Zenon DEF ChunksOnce
<1> QED
  BY <1>12, <1>15, <1>16, Zenon DEF IndexesOK

-----------------------------------------------------------------------------
(* Reading, step by step.                                                   *)

\* After n items: the section that is open, its page, its body, the pictures met so far,
\* the blocks.
BeingRead(f, d, n, h, p, b, s, c, bs) ==
  /\ PartRead(f, d, n, b, bs) /\ h = TitleOf(d, AboveIn(d, n)) /\ p = PageOf(d, AboveIn(d, n))
  /\ s = IndexIn(d, n) /\ (f = "pages" => b = <<>>)
  /\ \A v \in c : HoldersIn(d, v) # {}

\* What a flush makes.
Flushed(f, h, p, b, bs) ==
  IF (IF f = "docx" THEN b = <<>> ELSE b = <<>> /\ h = Bare) THEN bs
  ELSE Append(bs, Block(h, IF f = "docx" THEN Bare ELSE p, b))

LEMMA FlushRead ==
  ASSUME NEW f, NEW d, NEW r, DocumentOK(f, d, r), f # "pages", NEW n \in 0 .. Len(d),
         NEW h, NEW p, NEW b, NEW s, NEW c, NEW bs, BeingRead(f, d, n, h, p, b, s, c, bs)
  PROVE  BlocksRead(f, d, n, Flushed(f, h, p, b, bs))
<1>1. /\ PartRead(f, d, n, b, bs) /\ h = TitleOf(d, AboveIn(d, n)) /\ p = PageOf(d, AboveIn(d, n))
  BY Zenon DEF BeingRead
<1>2. CASE IF f = "docx" THEN b = <<>> ELSE b = <<>> /\ h = Bare
  <2>1. Flushed(f, h, p, b, bs) = bs /\ b = <<>>
    BY <1>2, Zenon DEF Flushed
  <2>2. PartRead(f, d, n, <<>>, bs)
    BY <1>1, <2>1
  <2>3. BlocksRead(f, d, n, bs)
    BY <2>2, NothingToFlush
  <2> QED
    BY <2>1, <2>3
<1>3. CASE ~(IF f = "docx" THEN b = <<>> ELSE b = <<>> /\ h = Bare)
  <2>1. Flushed(f, h, p, b, bs) = Append(bs, Block(h, IF f = "docx" THEN Bare ELSE p, b))
    BY <1>3, Zenon DEF Flushed
  <2>2. f = "docx" => b # <<>>
    BY <1>3
  <2>3. f = "docx" => p = Bare
    <3>1. f = "docx" => \A i \in 1 .. Len(d) : d[i].kind # "page"
      BY DocumentHas
    <3>2. AboveIn(d, n) # Bare => AboveIn(d, n) \in 1 .. Len(d)
      BY AboveType
    <3> QED
      BY <1>1, <3>1, <3>2 DEF PageOf
  <2>4. Flushed(f, h, p, b, bs) = Append(bs, BlockNow(d, n, b))
    BY <1>1, <2>1, <2>3, Zenon DEF BlockNow
  <2>5. BlocksRead(f, d, n, Append(bs, BlockNow(d, n, b)))
    BY <1>1, <2>2, FlushGives
  <2> QED
    BY <2>4, <2>5
<1> QED
  BY <1>2, <1>3

\* The pictures met after one more item.
LEMMA PictureMet ==
  ASSUME NEW f, NEW d, NEW r, DocumentOK(f, d, r), NEW m \in 1 .. Len(d),
         NEW c \in SUBSET r, \A v \in c : HoldersIn(d, v) # {},
         NEW c2, c2 = c \cup ({d[m].picture} \ {Bare})
  PROVE  c2 \in SUBSET r /\ \A v \in c2 : HoldersIn(d, v) # {}
<1>1. d[m].picture # Bare => d[m].picture \in r
  BY Zenon DEF DocumentOK
<1>2. m \in HoldersIn(d, d[m].picture)
  BY Zenon DEF HoldersIn
<1> QED
  BY <1>1, <1>2

\* A heading closes a section and opens the next.
LEMMA HeadingNext ==
  ASSUME NEW f, NEW d, NEW r, DocumentOK(f, d, r), f # "pages",
         NEW n \in Nat, NEW m, m = n + 1, m \in 1 .. Len(d), HeadIn(d, m),
         NEW h, NEW p, NEW b, NEW s, NEW c, NEW bs, BeingRead(f, d, n, h, p, b, s, c, bs),
         NEW c2, \A v \in c2 : HoldersIn(d, v) # {},
         NEW s2, s2 = (d[m].kind = "index"), NEW h2, h2 = TitleOf(d, m), NEW q2, q2 = PageOf(d, m)
  PROVE  /\ BeingRead(f, d, m, h2, q2, <<>>, s2, c2, Flushed(f, h, p, b, bs))
         /\ Typed(d, Flushed(f, h, p, b, bs))
<1>1. n \in 0 .. Len(d) /\ m \in Nat \ {0} /\ m \in Nat /\ Bare \notin Nat
  <2>1. Len(d) \in Nat /\ Bare \notin Nat
    BY DocumentHas
  <2> QED
    BY <2>1
<1>2. BlocksRead(f, d, n, Flushed(f, h, p, b, bs))
  BY <1>1, FlushRead
<1>3. PartRead(f, d, n + 1, <<>>, Flushed(f, h, p, b, bs))
  BY <1>2, HeadingOpens
<1>4. AboveIn(d, m) = m
  <2>1. AboveRules(d, m)
    BY <1>1, AboveGoesOn
  <2> QED
    BY <2>1, Zenon DEF AboveRules
<1>5. s2 = IndexIn(d, m)
  <2>1. m # Bare
    BY <1>1
  <2>2. IndexIn(d, m) = (d[m].kind = "index")
    BY <1>4, <2>1 DEF IndexIn
  <2> QED
    BY <2>2
<1>6. PartRead(f, d, m, <<>>, Flushed(f, h, p, b, bs))
  BY <1>3
<1>7. Typed(d, Flushed(f, h, p, b, bs))
  BY <1>2, Zenon DEF BlocksRead
<1> QED
  BY <1>4, <1>5, <1>6, <1>7, Zenon DEF BeingRead

\* An item goes on with its section.
LEMMA ItemNext ==
  ASSUME NEW f, NEW d, NEW r, DocumentOK(f, d, r), f # "pages",
         NEW n \in Nat, NEW m, m = n + 1, m \in 1 .. Len(d), ~HeadIn(d, m),
         NEW h, NEW p, NEW b, NEW s, NEW c, NEW bs, BeingRead(f, d, n, h, p, b, s, c, bs),
         NEW c2, \A v \in c2 : HoldersIn(d, v) # {},
         NEW more, more = Append(b, m) \/ (more = b /\ ~KeptIn(d, m))
  PROVE  BeingRead(f, d, m, h, p, more, s, c2, bs)
<1>1. m \in Nat \ {0} /\ n = m - 1
  OBVIOUS
<1>2. AboveIn(d, m) = AboveIn(d, n)
  <2>1. AboveRules(d, m)
    BY <1>1, AboveGoesOn
  <2> QED
    BY <1>1, <2>1, Zenon DEF AboveRules
<1>3. /\ PartRead(f, d, n, b, bs) /\ h = TitleOf(d, AboveIn(d, n)) /\ p = PageOf(d, AboveIn(d, n))
      /\ s = IndexIn(d, n)
  BY Zenon DEF BeingRead
<1>4. PartRead(f, d, n + 1, more, bs)
  BY <1>3, ItemRead
<1>5. IndexIn(d, m) = IndexIn(d, n)
  BY <1>2, Zenon DEF IndexIn
<1>6. PartRead(f, d, m, more, bs)
  BY <1>4
<1> QED
  BY <1>2, <1>3, <1>5, <1>6, Zenon DEF BeingRead

\* The block of a page.
PageBlock(d, m) == Block(Bare, m, IF d[m].kind = "text" THEN <<m>> ELSE <<>>)

\* A page is read.
LEMMA PageNext ==
  ASSUME NEW f, NEW d, NEW r, DocumentOK(f, d, r), f = "pages",
         NEW n \in Nat, NEW m, m = n + 1, m \in 1 .. Len(d),
         NEW h, NEW p, NEW b, NEW s, NEW c, NEW bs, BeingRead(f, d, n, h, p, b, s, c, bs),
         NEW more, more = Append(bs, PageBlock(d, m))
  PROVE  BeingRead(f, d, m, h, p, b, s, c, more) /\ Typed(d, more)
<1>1. m \in Nat \ {0} /\ n = m - 1
  OBVIOUS
<1>2. ~HeadIn(d, m)
  <2>1. d[m].kind \in {"text", "mark"}
    BY DocumentHas
  <2> QED
    BY <2>1 DEF HeadIn
<1>3. AboveIn(d, m) = AboveIn(d, n)
  <2>1. AboveRules(d, m)
    BY <1>1, AboveGoesOn
  <2> QED
    BY <1>1, <1>2, <2>1, Zenon DEF AboveRules
<1>4. /\ PartRead(f, d, n, b, bs) /\ h = TitleOf(d, AboveIn(d, n)) /\ p = PageOf(d, AboveIn(d, n))
      /\ s = IndexIn(d, n) /\ b = <<>> /\ \A v \in c : HoldersIn(d, v) # {}
  BY Zenon DEF BeingRead
<1>5. IndexIn(d, m) = IndexIn(d, n)
  BY <1>3, Zenon DEF IndexIn
<1>6. PICK block : block = Block(Bare, n + 1, IF d[n + 1].kind = "text" THEN <<n + 1>> ELSE <<>>)
  OBVIOUS
<1>7. PartRead(f, d, n, <<>>, bs)
  BY <1>4
<1>8. PartRead(f, d, n + 1, <<>>, Append(bs, block))
  BY <1>6, <1>7, PageAdded
<1>9. more = Append(bs, block)
  BY <1>6 DEF PageBlock
<1>10. PartRead(f, d, m, b, more)
  BY <1>4, <1>8, <1>9
<1>11. Typed(d, more)
  BY <1>10, Zenon DEF PartRead
<1> QED
  BY <1>3, <1>4, <1>5, <1>10, <1>11, Zenon DEF BeingRead

\* A document other than a DOCX has been read.
LEMMA ReadEnds ==
  ASSUME NEW f, NEW d, NEW r, DocumentOK(f, d, r), f # "docx", NEW n, n = Len(d),
         NEW h, NEW p, NEW b, NEW s, NEW c, NEW bs, BeingRead(f, d, n, h, p, b, s, c, bs),
         NEW read, read = IF f = "pages" THEN bs ELSE Flushed(f, h, p, b, bs)
  PROVE  ReadOK(f, d, r, read)
<1>1. n \in 0 .. Len(d)
  <2>1. Len(d) \in Nat
    BY DocumentHas
  <2> QED
    BY <2>1
<1>2. BlocksRead(f, d, n, read)
  <2>1. CASE f # "pages"
    <3>1. BlocksRead(f, d, n, Flushed(f, h, p, b, bs))
      BY <1>1, <2>1, FlushRead
    <3> QED
      BY <2>1, <3>1
  <2>2. CASE f = "pages"
    <3>1. PartRead(f, d, n, b, bs) /\ b = <<>>
      BY <2>2, Zenon DEF BeingRead
    <3>2. PartRead(f, d, n, <<>>, bs)
      BY <3>1
    <3> QED
      BY <2>2, <3>2, NothingToFlush
  <2> QED
    BY <2>1, <2>2
<1>3. BlocksRead(f, d, Len(d), read)
  BY <1>2
<1> QED
  BY <1>3, ReadIs

\* Where nothing else was found the words are taken.
OrWords(shown, words) == IF shown = <<>> /\ words # <<>> THEN <<Block(Bare, Bare, words)>> ELSE shown

\* A DOCX has been read, and pictures met nowhere are added.
LEMMA DocxRead ==
  ASSUME NEW f, NEW d, NEW r, DocumentOK(f, d, r), f = "docx", NEW n, n = Len(d),
         NEW h, NEW p, NEW b, NEW s, NEW c, NEW bs, BeingRead(f, d, n, h, p, b, s, c, bs),
         NEW words \in Seq(Places(d)),
         NEW orphans, orphans = r \ c, NEW shown, shown = WithPictures(Flushed(f, h, p, b, bs), orphans),
         NEW read, read = OrWords(shown, words)
  PROVE  ReadOK(f, d, r, read)
<1>1. n \in 0 .. Len(d)
  <2>1. Len(d) \in Nat
    BY DocumentHas
  <2> QED
    BY <2>1
<1>2. BlocksRead(f, d, n, Flushed(f, h, p, b, bs))
  BY <1>1, FlushRead
<1>3. PICK first, unmet, with : first = Flushed(f, h, p, b, bs) /\ unmet = orphans /\ with = shown
  OBVIOUS
<1>4. BlocksRead(f, d, n, first) /\ unmet \in SUBSET r /\ with = WithPictures(first, unmet)
  BY <1>2, <1>3
<1>5. BlocksRead(f, d, n, shown) /\ \A v \in unmet : \E k \in 1 .. Len(shown) : Holds(shown[k].body, v)
  <2>1. BlocksRead(f, d, n, with) /\ \A v \in unmet : \E k \in 1 .. Len(with) : Holds(with[k].body, v)
    BY <1>4, PicturesAdded
  <2> QED
    BY <1>3, <2>1
<1>6. BlocksRead(f, d, Len(d), shown)
  BY <1>5
<1>7. \A v \in r : HoldersIn(d, v) = {} => v \in unmet
  BY <1>3, Zenon DEF BeingRead
<1>8. CASE shown = <<>> /\ words # <<>>
  <2>1. read = <<Block(Bare, Bare, words)>>
    BY <1>8 DEF OrWords
  <2>2. \A v \in r : HoldersIn(d, v) # {}
    <3>1. \A v \in unmet : FALSE
      <4>1. 1 .. Len(shown) = {}
        <5>1. Len(shown) = 0
          BY <1>8
        <5> QED
          BY <5>1
      <4> QED
        BY <1>5, <4>1
    <3> QED
      BY <1>7, <3>1
  <2>3. BlocksRead(f, d, Len(d), <<>>)
    BY <1>6, <1>8
  <2>4. ReadOK(f, d, r, <<Block(Bare, Bare, words)>>)
    BY <2>2, <2>3, WordsAreRead
  <2> QED
    BY <2>1, <2>4
<1>9. CASE ~(shown = <<>> /\ words # <<>>)
  <2>1. read = shown
    BY <1>9 DEF OrWords
  <2>2. Covered(d, shown, Len(d))
    BY <1>6, Zenon DEF BlocksRead
  <2>3. ASSUME NEW v \in r PROVE PictureOK(d, shown, v)
    <3>1. HoldersIn(d, v) = {} => \E k \in 1 .. Len(shown) : Holds(shown[k].body, v)
      BY <1>5, <1>7
    <3> QED
      BY <2>2, <3>1, PicturesOK
  <2>4. ReadOK(f, d, r, shown)
    BY <1>6, <2>3, ReadIs
  <2> QED
    BY <2>1, <2>4
<1> QED
  BY <1>8, <1>9

-----------------------------------------------------------------------------
(* The invariant.                                                           *)

\* What holds at each item, and after reading, splitting and indexing.
SectionTypes(d, r, h, p, s, c, bs) ==
  /\ h \in PlaceOrBare(d) /\ p \in PlaceOrBare(d) /\ s \in BOOLEAN /\ c \in SUBSET r /\ Typed(d, bs)
SectionPhases(f, q, d, r, a, h, p, b, s, c, bs, cs, xs) ==
  \/ a \in 1 .. Len(d) + 1 /\ BeingRead(f, d, a - 1, h, p, b, s, c, bs) /\ cs = <<>> /\ xs = <<>>
  \/ a = Len(d) + 2 /\ ReadOK(f, d, r, bs) /\ cs = <<>> /\ xs = <<>>
  \/ a = Len(d) + 3 /\ ChunksOK(f, q, d, r, cs) /\ xs = <<>>
  \/ a = Len(d) + 4 /\ ChunksOK(f, q, d, r, cs) /\ IndexesOK(d, cs, xs)
SectionsOK(f, q, d, r, a, h, p, b, s, c, bs, cs, xs) ==
  /\ DocumentOK(f, d, r) /\ q \in Plans
  /\ SectionTypes(d, r, h, p, s, c, bs) /\ SectionPhases(f, q, d, r, a, h, p, b, s, c, bs, cs, xs)

SectionsInv ==
  SectionsOK(format, plan, items, related, at, heading, page, body, skipping, cached,
             blocks, chunks, indexes)

\* While it reads, everything has its type.
LEMMA ReadingTypes ==
  ASSUME NEW f, NEW d, NEW r, DocumentOK(f, d, r), NEW n \in 0 .. Len(d),
         NEW h, NEW p, NEW b, NEW s, NEW c \in SUBSET r, NEW bs, BeingRead(f, d, n, h, p, b, s, c, bs)
  PROVE  SectionTypes(d, r, h, p, s, c, bs)
<1>1. PICK k : k = AboveIn(d, n)
  OBVIOUS
<1>2. k \in PlaceOrBare(d) /\ Bare \in PlaceOrBare(d)
  BY <1>1, AboveType DEF PlaceOrBare
<1>3. h = TitleOf(d, k) /\ p = PageOf(d, k) /\ PartRead(f, d, n, b, bs)
  BY <1>1, Zenon DEF BeingRead
<1>4. h \in PlaceOrBare(d) /\ p \in PlaceOrBare(d)
  <2>1. h \in {k, Bare} /\ p \in {k, Bare}
    BY <1>3 DEF TitleOf, PageOf
  <2> QED
    BY <1>2, <2>1
<1>5. s \in BOOLEAN
  <2>1. s = IndexIn(d, n)
    BY Zenon DEF BeingRead
  <2> QED
    BY <2>1 DEF IndexIn
<1>6. Typed(d, bs)
  BY <1>3, Zenon DEF PartRead
<1> QED
  BY <1>4, <1>5, <1>6, Zenon DEF SectionTypes

LEMMA GoesOnReading ==
  ASSUME NEW f, NEW q \in Plans, NEW d, NEW r, DocumentOK(f, d, r), NEW n \in 0 .. Len(d),
         NEW h, NEW p, NEW b, NEW s, NEW c \in SUBSET r, NEW bs, BeingRead(f, d, n, h, p, b, s, c, bs),
         NEW a, a = n + 1
  PROVE  SectionsOK(f, q, d, r, a, h, p, b, s, c, bs, <<>>, <<>>)
<1>1. SectionTypes(d, r, h, p, s, c, bs)
  BY ReadingTypes
<1>2. a \in 1 .. Len(d) + 1 /\ a - 1 = n
  <2>1. Len(d) \in Nat
    BY DocumentHas
  <2> QED
    BY <2>1
<1>3. BeingRead(f, d, a - 1, h, p, b, s, c, bs)
  BY <1>2
<1>4. SectionPhases(f, q, d, r, a, h, p, b, s, c, bs, <<>>, <<>>)
  BY <1>2, <1>3, Zenon DEF SectionPhases
<1> QED
  BY <1>1, <1>4, Zenon DEF SectionsOK

\* Nothing has been read.
LEMMA ReadingBegins ==
  ASSUME NEW f, NEW q \in Plans, NEW d, NEW r, DocumentOK(f, d, r)
  PROVE  SectionsOK(f, q, d, r, 1, Bare, Bare, <<>>, FALSE, {}, <<>>, <<>>, <<>>)
<1>1. Len(d) \in Nat /\ Bare \notin Nat
  BY DocumentHas
<1>2. AboveIn(d, 0) = Bare
  BY <1>1, AboveType
<1>3. TitleOf(d, Bare) = Bare /\ PageOf(d, Bare) = Bare
  BY DEF TitleOf, PageOf
<1>4. FALSE = IndexIn(d, 0)
  BY <1>2 DEF IndexIn
<1>5. PICK none : none = <<>>
  OBVIOUS
<1>6. none \in Seq(Places(d)) /\ none \in Seq(BlockSet(d)) /\ 1 .. Len(none) = {}
  BY <1>5
<1>7. BodyOK(d, 0, none)
  BY <1>6, Zenon DEF BodyOK
<1>8. Typed(d, none) /\ Placed(f, d, none) /\ UpTo(none, 0) /\ InOrder(none)
  BY <1>6, Zenon DEF Typed, Placed, UpTo, InOrder
<1>9. AfterAll(none, BlockNow(d, 0, none))
  BY <1>6, Zenon DEF AfterAll
<1>10. CoveredWith(d, none, none, 0)
  <2>1. 1 .. 0 = {}
    OBVIOUS
  <2> QED
    BY <2>1, Zenon DEF CoveredWith
<1>11. PartRead(f, d, 0, none, none)
  BY <1>7, <1>8, <1>9, <1>10, Zenon DEF PartRead
<1>12. BeingRead(f, d, 0, Bare, Bare, none, FALSE, {}, none)
  BY <1>2, <1>3, <1>4, <1>5, <1>11, Zenon DEF BeingRead
<1>13. SectionsOK(f, q, d, r, 1, Bare, Bare, none, FALSE, {}, none, <<>>, <<>>)
  <2>1. 0 \in 0 .. Len(d) /\ 1 = 0 + 1
    BY <1>1
  <2> QED
    BY <1>12, <2>1, GoesOnReading
<1> QED
  BY <1>5, <1>13

\* Before the invariant's phases, apart.
LEMMA WhileReading ==
  ASSUME NEW f, NEW q, NEW d, NEW r, NEW a, NEW h, NEW p, NEW b, NEW s, NEW c, NEW bs, NEW cs, NEW xs,
         SectionsOK(f, q, d, r, a, h, p, b, s, c, bs, cs, xs),
         a \in 1 .. Len(d) \/ a = Len(d) + 1
  PROVE  /\ DocumentOK(f, d, r) /\ q \in Plans /\ SectionTypes(d, r, h, p, s, c, bs)
         /\ cs = <<>> /\ xs = <<>>
         /\ \E n \in 0 .. Len(d) : n \in Nat /\ a = n + 1 /\ BeingRead(f, d, n, h, p, b, s, c, bs)
<1>1. /\ DocumentOK(f, d, r) /\ q \in Plans /\ SectionTypes(d, r, h, p, s, c, bs)
      /\ SectionPhases(f, q, d, r, a, h, p, b, s, c, bs, cs, xs)
  BY Zenon DEF SectionsOK
<1>2. Len(d) \in Nat
  BY <1>1, DocumentHas
<1>3. ~(a = Len(d) + 2) /\ ~(a = Len(d) + 3) /\ ~(a = Len(d) + 4)
  BY <1>2
<1>4. BeingRead(f, d, a - 1, h, p, b, s, c, bs) /\ cs = <<>> /\ xs = <<>>
  BY <1>1, <1>3, Zenon DEF SectionPhases
<1>5. a - 1 \in 0 .. Len(d) /\ a - 1 \in Nat /\ a = (a - 1) + 1
  BY <1>2
<1> QED
  BY <1>1, <1>4, <1>5

\* After reading.
LEMMA OnceRead ==
  ASSUME NEW f, NEW q \in Plans, NEW d, NEW r, DocumentOK(f, d, r),
         NEW h, NEW p, NEW b, NEW s, NEW c, NEW bs, ReadOK(f, d, r, bs),
         SectionTypes(d, r, h, p, s, c, bs), NEW a, a = Len(d) + 2
  PROVE  SectionsOK(f, q, d, r, a, h, p, b, s, c, bs, <<>>, <<>>)
<1>1. SectionPhases(f, q, d, r, a, h, p, b, s, c, bs, <<>>, <<>>)
  BY Zenon DEF SectionPhases
<1> QED
  BY <1>1, Zenon DEF SectionsOK

\* Reading, splitting and indexing come one after another.
LEMMA AfterReading ==
  ASSUME NEW f, NEW q, NEW d, NEW r, NEW a, NEW h, NEW p, NEW b, NEW s, NEW c, NEW bs, NEW cs, NEW xs,
         SectionsOK(f, q, d, r, a, h, p, b, s, c, bs, cs, xs)
  PROVE  /\ a = Len(d) + 2 =>
              SectionsOK(f, q, d, r, a + 1, h, p, b, s, c, bs, ChunksOf(f, q, d, bs), xs)
         /\ a = Len(d) + 3 =>
              SectionsOK(f, q, d, r, a + 1, h, p, b, s, c, bs, cs, AllIndexes(cs))
<1>1. /\ DocumentOK(f, d, r) /\ q \in Plans /\ SectionTypes(d, r, h, p, s, c, bs)
      /\ SectionPhases(f, q, d, r, a, h, p, b, s, c, bs, cs, xs)
  BY Zenon DEF SectionsOK
<1>2. Len(d) \in Nat
  BY <1>1, DocumentHas
<1>3. CASE a = Len(d) + 2
  <2>1. /\ ~(a \in 1 .. Len(d) + 1) /\ ~(a = Len(d) + 3) /\ ~(a = Len(d) + 4) /\ a + 1 = Len(d) + 3
        /\ a # Len(d) + 3
    BY <1>2, <1>3
  <2>2. ReadOK(f, d, r, bs) /\ xs = <<>>
    BY <1>1, <2>1, Zenon DEF SectionPhases
  <2>3. ChunksOK(f, q, d, r, ChunksOf(f, q, d, bs))
    BY <1>1, <2>2, SplitOK
  <2>4. SectionPhases(f, q, d, r, a + 1, h, p, b, s, c, bs, ChunksOf(f, q, d, bs), xs)
    BY <2>1, <2>2, <2>3, Zenon DEF SectionPhases
  <2>5. SectionsOK(f, q, d, r, a + 1, h, p, b, s, c, bs, ChunksOf(f, q, d, bs), xs)
    BY <1>1, <2>4, Zenon DEF SectionsOK
  <2> QED
    BY <2>1, <2>5, Zenon
<1>4. CASE a = Len(d) + 3
  <2>1. /\ ~(a \in 1 .. Len(d) + 1) /\ ~(a = Len(d) + 2) /\ ~(a = Len(d) + 4) /\ a + 1 = Len(d) + 4
    BY <1>2, <1>4
  <2>2. ChunksOK(f, q, d, r, cs)
    BY <1>1, <2>1, Zenon DEF SectionPhases
  <2>3. PICK ys : ys = AllIndexes(cs)
    OBVIOUS
  <2>4. IndexesOK(d, cs, ys)
    BY <2>2, <2>3, IndexesHave
  <2>5. SectionPhases(f, q, d, r, a + 1, h, p, b, s, c, bs, cs, ys)
    BY <2>1, <2>2, <2>4, Zenon DEF SectionPhases
  <2>6. SectionsOK(f, q, d, r, a + 1, h, p, b, s, c, bs, cs, ys)
    BY <1>1, <2>5, Zenon DEF SectionsOK
  <2>7. SectionsOK(f, q, d, r, a + 1, h, p, b, s, c, bs, cs, AllIndexes(cs))
    BY <2>3, <2>6
  <2> QED
    BY <2>1, <2>7, Zenon
<1> QED
  BY <1>3, <1>4

\* What the document is does not change.
Stays == format' = format /\ plan' = plan /\ items' = items /\ related' = related

\* The sections of a DOCX.
LEMMA DocxHeadingKeeps ==
  ASSUME SectionsInv, DocxHeading
  PROVE  SectionsInv'
<1>1. /\ format = "docx" /\ at \in 1 .. Len(items) /\ items[at].kind \in {"heading", "index"}
      /\ Stays /\ at' = at + 1 /\ page' = page /\ chunks' = chunks /\ indexes' = indexes /\ body' = <<>>
      /\ skipping' = (items[at].kind = "index")
      /\ heading' = (IF items[at].kind = "index" THEN Bare ELSE at)
      /\ cached' = cached \cup ({items[at].picture} \ {Bare})
  BY DEF DocxHeading, Positions, docVars, PictureStored, Stays
<1>2. blocks' = Flushed(format, heading, page, body, blocks)
  BY Zenon DEF DocxHeading, FlushDocx, Flushed
<1>3. SectionsOK(format, plan, items, related, at, heading, page, body, skipping, cached, blocks, chunks, indexes)
  BY Zenon DEF SectionsInv
<1>4. /\ DocumentOK(format, items, related) /\ plan \in Plans
      /\ SectionTypes(items, related, heading, page, skipping, cached, blocks)
      /\ chunks = <<>> /\ indexes = <<>>
  BY <1>1, <1>3, WhileReading
<1>5. PICK n \in 0 .. Len(items) : n \in Nat /\ at = n + 1 /\ BeingRead(format, items, n, heading, page, body, skipping, cached, blocks)
  BY <1>1, <1>3, WhileReading
<1>6. PICK c \in SUBSET related : c = cached' /\ \A v \in c : HoldersIn(items, v) # {}
  <2>1. cached \in SUBSET related /\ \A v \in cached : HoldersIn(items, v) # {}
    BY <1>4, <1>5, Zenon DEF SectionTypes, BeingRead
  <2>2. PICK e : e = cached' /\ e = cached \cup ({items[at].picture} \ {Bare})
    BY <1>1
  <2>3. DocumentOK(format, items, related) /\ at \in 1 .. Len(items)
    BY <1>1, <1>4
  <2>4. e \in SUBSET related /\ \A v \in e : HoldersIn(items, v) # {}
    BY <2>1, <2>2, <2>3, PictureMet
  <2> QED
    BY <2>2, <2>4
<1>7. HeadIn(items, at) /\ heading' = TitleOf(items, at) /\ page' = PageOf(items, at)
  <2>1. at # Bare
    BY <1>1, <1>4, DocumentHas
  <2>2. PageOf(items, at) = Bare
    BY <1>1 DEF PageOf
  <2>3. page = Bare
    <3>1. PICK k : k = AboveIn(items, n)
      OBVIOUS
    <3>2. k # Bare => k \in 1 .. Len(items)
      BY <1>4, <3>1, AboveType
    <3>3. \A i \in 1 .. Len(items) : items[i].kind # "page"
      BY <1>1, <1>4, DocumentHas
    <3>4. page = PageOf(items, k)
      BY <1>5, <3>1, Zenon DEF BeingRead
    <3> QED
      BY <3>2, <3>3, <3>4 DEF PageOf
  <2> QED
    BY <1>1, <2>1, <2>2, <2>3 DEF HeadIn, TitleOf
<1>8. PICK m, s, h, p, bs : /\ m = at /\ s = skipping' /\ h = heading' /\ p = page' /\ bs = blocks'
  OBVIOUS
<1>9. BeingRead(format, items, m, h, p, <<>>, s, c, bs)
  <2>1. m = n + 1 /\ m \in 1 .. Len(items) /\ HeadIn(items, m) /\ format # "pages"
    BY <1>1, <1>5, <1>7, <1>8
  <2>2. s = (items[m].kind = "index") /\ h = TitleOf(items, m) /\ p = PageOf(items, m)
    BY <1>1, <1>7, <1>8
  <2>3. BeingRead(format, items, m, h, p, <<>>, s, c, Flushed(format, heading, page, body, blocks))
    BY <1>4, <1>5, <1>6, <2>1, <2>2, HeadingNext
  <2> QED
    BY <1>2, <1>8, <2>3
<1>10. SectionsOK(format, plan, items, related, at + 1, h, p, <<>>, s, c, bs, <<>>, <<>>)
  <2>1. m \in 0 .. Len(items) /\ at + 1 = m + 1
    BY <1>1, <1>8
  <2> QED
    BY <1>4, <1>9, <2>1, GoesOnReading
<1> QED
  BY <1>1, <1>4, <1>6, <1>8, <1>10 DEF SectionsInv, Stays

LEMMA DocxContentKeeps ==
  ASSUME SectionsInv, DocxContent
  PROVE  SectionsInv'
<1>1. /\ format = "docx" /\ at \in 1 .. Len(items) /\ ~HeadIn(items, at)
      /\ Stays /\ at' = at + 1 /\ heading' = heading /\ page' = page /\ skipping' = skipping
      /\ blocks' = blocks /\ chunks' = chunks /\ indexes' = indexes
      /\ cached' = cached \cup ({items[at].picture} \ {Bare})
  BY DEF DocxContent, Positions, docVars, PictureStored, Stays, IsHeading, HeadIn
<1>2. body' = (IF \/ items[at].kind = "mark" /\ items[at].picture = Bare
                  \/ skipping /\ items[at].kind # "table"
               THEN body ELSE Append(body, at))
  BY Zenon DEF DocxContent
<1>3. SectionsOK(format, plan, items, related, at, heading, page, body, skipping, cached, blocks, chunks, indexes)
  BY Zenon DEF SectionsInv
<1>4. /\ DocumentOK(format, items, related) /\ plan \in Plans
      /\ SectionTypes(items, related, heading, page, skipping, cached, blocks)
      /\ chunks = <<>> /\ indexes = <<>>
  BY <1>1, <1>3, WhileReading
<1>5. PICK n \in 0 .. Len(items) : n \in Nat /\ at = n + 1 /\ BeingRead(format, items, n, heading, page, body, skipping, cached, blocks)
  BY <1>1, <1>3, WhileReading
<1>6. PICK c \in SUBSET related : c = cached' /\ \A v \in c : HoldersIn(items, v) # {}
  <2>1. cached \in SUBSET related /\ \A v \in cached : HoldersIn(items, v) # {}
    BY <1>4, <1>5, Zenon DEF SectionTypes, BeingRead
  <2>2. PICK e : e = cached' /\ e = cached \cup ({items[at].picture} \ {Bare})
    BY <1>1
  <2>3. DocumentOK(format, items, related) /\ at \in 1 .. Len(items)
    BY <1>1, <1>4
  <2>4. e \in SUBSET related /\ \A v \in e : HoldersIn(items, v) # {}
    BY <2>1, <2>2, <2>3, PictureMet
  <2> QED
    BY <2>2, <2>4
<1>7. PICK m, b : m = at /\ b = body'
  OBVIOUS
<1>8. b = Append(body, m) \/ (b = body /\ ~KeptIn(items, m))
  <2>1. CASE items[at].kind = "mark" /\ items[at].picture = Bare
    <3>1. ~KeptIn(items, at)
      BY <2>1 DEF KeptIn, ContentIn
    <3> QED
      BY <1>2, <1>7, <2>1, <3>1
  <2>2. CASE skipping /\ items[at].kind # "table"
    <3>1. IndexIn(items, at)
      <4>1. skipping = IndexIn(items, n)
        BY <1>5, Zenon DEF BeingRead
      <4>2. AboveRules(items, at)
        BY <1>5, AboveGoesOn
      <4>3. AboveIn(items, at) = AboveIn(items, n)
        <5>1. at - 1 = n
          BY <1>5
        <5> QED
          BY <1>1, <4>2, <5>1, Zenon DEF AboveRules
      <4> QED
        BY <2>2, <4>1, <4>3, Zenon DEF IndexIn
    <3>2. ~KeptIn(items, at)
      BY <2>2, <3>1, Zenon DEF KeptIn
    <3> QED
      BY <1>2, <1>7, <2>2, <3>2
  <2>3. CASE ~(items[at].kind = "mark" /\ items[at].picture = Bare) /\ ~(skipping /\ items[at].kind # "table")
    BY <1>2, <1>7, <2>3
  <2> QED
    BY <2>1, <2>2, <2>3
<1>9. BeingRead(format, items, m, heading, page, b, skipping, c, blocks)
  <2>1. m = n + 1 /\ m \in 1 .. Len(items) /\ ~HeadIn(items, m) /\ format # "pages"
    BY <1>1, <1>5, <1>7
  <2> QED
    BY <1>4, <1>5, <1>6, <1>8, <2>1, ItemNext
<1>10. SectionsOK(format, plan, items, related, at + 1, heading, page, b, skipping, c, blocks, <<>>, <<>>)
  <2>1. m \in 0 .. Len(items) /\ at + 1 = m + 1
    BY <1>1, <1>7
  <2> QED
    BY <1>4, <1>9, <2>1, GoesOnReading
<1> QED
  BY <1>1, <1>4, <1>6, <1>7, <1>10 DEF SectionsInv, Stays

\* The words of a document are items of it.
LEMMA WordsAreItems ==
  ASSUME DocumentOK(format, items, related)
  PROVE  AllWords \in Seq(Places(items))
<1>1. PICK L \in Nat : L = Len(items)
  BY DocumentHas
<1>2. PICK s : s = [i \in 1 .. L |-> IF items[i].kind = "table" THEN <<>> ELSE <<i>>]
  OBVIOUS
<1>3. Len(s) = L /\ \A i \in 1 .. L : s[i] \in Seq(1 .. L)
  <2>1. Len(s) = L
    BY <1>2
  <2>2. ASSUME NEW i \in 1 .. L PROVE s[i] \in Seq(1 .. L)
    <3>1. s[i] = <<>> \/ s[i] = <<i>>
      BY <1>2
    <3>2. <<>> \in Seq(1 .. L) /\ <<i>> \in Seq(1 .. L)
      OBVIOUS
    <3> QED
      BY <3>1, <3>2
  <2> QED
    BY <2>1, <2>2
<1>4. Joined(s) \in Seq(1 .. L)
  BY <1>3, JoinedFollows
<1>5. AllWords = Joined(s)
  BY <1>1, <1>2, Zenon DEF AllWords, Positions
<1> QED
  BY <1>1, <1>4, <1>5 DEF Places

LEMMA DocxEndKeeps ==
  ASSUME SectionsInv, DocxEnd
  PROVE  SectionsInv'
<1>1. /\ format = "docx" /\ at = Len(items) + 1
      /\ Stays /\ at' = at + 1 /\ heading' = heading /\ page' = page /\ skipping' = skipping
      /\ body' = body /\ chunks' = chunks /\ indexes' = indexes /\ cached' = related
  BY DEF DocxEnd, docVars, Stays
<1>2. PICK shown : /\ shown = WithPictures(Flushed(format, heading, page, body, blocks), related \ cached)
                   /\ blocks' = IF shown = <<>> /\ AllWords # <<>> THEN <<Block(Bare, Bare, AllWords)>> ELSE shown
  <2>1. PICK read : /\ read = (IF body = <<>> THEN blocks ELSE Append(blocks, Block(heading, Bare, body)))
                    /\ blocks' = IF WithOrphans(read) = <<>> /\ AllWords # <<>>
                                 THEN <<Block(Bare, Bare, AllWords)>> ELSE WithOrphans(read)
    BY Zenon DEF DocxEnd
  <2>2. read = Flushed(format, heading, page, body, blocks)
    BY <1>1, <2>1, Zenon DEF Flushed
  <2>3. WithOrphans(read) = WithPictures(read, related \ cached)
    BY Zenon DEF WithOrphans, WithPictures, Orphans
  <2> QED
    BY <2>1, <2>2, <2>3
<1>3. SectionsOK(format, plan, items, related, at, heading, page, body, skipping, cached, blocks, chunks, indexes)
  BY Zenon DEF SectionsInv
<1>4. /\ DocumentOK(format, items, related) /\ plan \in Plans
      /\ SectionTypes(items, related, heading, page, skipping, cached, blocks)
      /\ chunks = <<>> /\ indexes = <<>>
  BY <1>1, <1>3, WhileReading
<1>5. PICK n \in 0 .. Len(items) : n \in Nat /\ at = n + 1 /\ BeingRead(format, items, n, heading, page, body, skipping, cached, blocks)
  BY <1>1, <1>3, WhileReading
<1>6. PICK words \in Seq(Places(items)) : words = AllWords
  BY <1>4, WordsAreItems
<1>7. PICK bs : bs = blocks'
  OBVIOUS
<1>8. bs = OrWords(shown, words)
  BY <1>2, <1>6, <1>7, Zenon DEF OrWords
<1>9. ReadOK(format, items, related, bs)
  <2>1. n = Len(items)
    BY <1>1, <1>4, <1>5, DocumentHas
  <2>2. BeingRead(format, items, n, heading, page, body, skipping, cached, blocks)
    BY <1>5
  <2>3. PICK orphans : /\ orphans = related \ cached
                       /\ shown = WithPictures(Flushed(format, heading, page, body, blocks), orphans)
    BY <1>2
  <2>4. DocumentOK(format, items, related) /\ format = "docx"
    BY <1>1, <1>4
  <2> HIDE DEF Places
  <2> QED
    BY <1>6, <1>8, <2>1, <2>2, <2>3, <2>4, DocxRead
<1>10. SectionsOK(format, plan, items, related, at + 1, heading, page, body, skipping, related, bs, <<>>, <<>>)
  <2>1. at + 1 = Len(items) + 2
    BY <1>1, <1>4, DocumentHas
  <2>2. SectionTypes(items, related, heading, page, skipping, related, bs)
    <3>1. related \in SUBSET related
      OBVIOUS
    <3>2. Typed(items, bs)
      BY <1>9, Zenon DEF ReadOK
    <3> QED
      BY <1>4, <3>1, <3>2, Zenon DEF SectionTypes
  <2> QED
    BY <1>4, <1>9, <2>1, <2>2, OnceRead
<1> QED
  BY <1>1, <1>4, <1>7, <1>10 DEF SectionsInv, Stays

\* The sections of a Markdown document.
LEMMA MarkdownHeadingKeeps ==
  ASSUME SectionsInv, MarkdownHeading
  PROVE  SectionsInv'
<1>1. /\ format = "markdown" /\ at \in 1 .. Len(items) /\ HeadIn(items, at)
      /\ Stays /\ at' = at + 1 /\ body' = <<>> /\ heading' = at
      /\ page' = (IF items[at].kind = "page" THEN at ELSE Bare)
      /\ skipping' = skipping /\ cached' = cached /\ chunks' = chunks /\ indexes' = indexes
  BY DEF MarkdownHeading, Positions, docVars, Stays, IsHeading, HeadIn
<1>2. blocks' = Flushed(format, heading, page, body, blocks)
  BY <1>1, Zenon DEF MarkdownHeading, FlushMarkdown, Flushed
<1>3. SectionsOK(format, plan, items, related, at, heading, page, body, skipping, cached, blocks, chunks, indexes)
  BY Zenon DEF SectionsInv
<1>4. /\ DocumentOK(format, items, related) /\ plan \in Plans
      /\ SectionTypes(items, related, heading, page, skipping, cached, blocks)
      /\ chunks = <<>> /\ indexes = <<>>
  BY <1>1, <1>3, WhileReading
<1>5. PICK n \in 0 .. Len(items) : n \in Nat /\ at = n + 1 /\ BeingRead(format, items, n, heading, page, body, skipping, cached, blocks)
  BY <1>1, <1>3, WhileReading
<1>6. cached \in SUBSET related /\ \A v \in cached : HoldersIn(items, v) # {}
  BY <1>4, <1>5, Zenon DEF SectionTypes, BeingRead
<1>7. /\ items[at].kind # "index" /\ heading' = TitleOf(items, at) /\ page' = PageOf(items, at)
      /\ skipping = (items[at].kind = "index")
  <2>1. at # Bare /\ \A i \in 1 .. Len(items) : items[i].kind # "index"
    BY <1>1, <1>4, DocumentHas
  <2>2. heading' = TitleOf(items, at) /\ page' = PageOf(items, at)
    BY <1>1, <2>1 DEF TitleOf, PageOf
  <2>3. skipping = FALSE
    <3>1. PICK k : k = AboveIn(items, n)
      OBVIOUS
    <3>2. k # Bare => k \in 1 .. Len(items)
      BY <1>4, <3>1, AboveType
    <3>3. skipping = (k # Bare /\ items[k].kind = "index")
      BY <1>5, <3>1, Zenon DEF BeingRead, IndexIn
    <3> QED
      BY <2>1, <3>2, <3>3
  <2> QED
    BY <1>1, <2>1, <2>2, <2>3
<1>8. PICK m, h, p, bs : m = at /\ h = heading' /\ p = page' /\ bs = blocks'
  OBVIOUS
<1>9. BeingRead(format, items, m, h, p, <<>>, skipping, cached, bs)
  <2>1. m = n + 1 /\ m \in 1 .. Len(items) /\ HeadIn(items, m) /\ format # "pages"
    BY <1>1, <1>5, <1>8
  <2>2. skipping = (items[m].kind = "index") /\ h = TitleOf(items, m) /\ p = PageOf(items, m)
    BY <1>7, <1>8
  <2>3. BeingRead(format, items, m, h, p, <<>>, skipping, cached, Flushed(format, heading, page, body, blocks))
    BY <1>4, <1>5, <1>6, <2>1, <2>2, HeadingNext
  <2> QED
    BY <1>2, <1>8, <2>3
<1>10. SectionsOK(format, plan, items, related, at + 1, h, p, <<>>, skipping, cached, bs, <<>>, <<>>)
  <2>1. m \in 0 .. Len(items) /\ at + 1 = m + 1
    BY <1>1, <1>8
  <2> QED
    BY <1>4, <1>6, <1>9, <2>1, GoesOnReading
<1> QED
  BY <1>1, <1>4, <1>8, <1>10 DEF SectionsInv, Stays

LEMMA MarkdownLineKeeps ==
  ASSUME SectionsInv, MarkdownLine
  PROVE  SectionsInv'
<1>1. /\ format = "markdown" /\ at \in 1 .. Len(items) /\ ~HeadIn(items, at)
      /\ Stays /\ at' = at + 1 /\ body' = Append(body, at) /\ heading' = heading /\ page' = page
      /\ skipping' = skipping /\ cached' = cached /\ blocks' = blocks /\ chunks' = chunks /\ indexes' = indexes
  BY DEF MarkdownLine, Positions, docVars, Stays, IsHeading, HeadIn
<1>2. SectionsOK(format, plan, items, related, at, heading, page, body, skipping, cached, blocks, chunks, indexes)
  BY Zenon DEF SectionsInv
<1>3. /\ DocumentOK(format, items, related) /\ plan \in Plans
      /\ SectionTypes(items, related, heading, page, skipping, cached, blocks)
      /\ chunks = <<>> /\ indexes = <<>>
  BY <1>1, <1>2, WhileReading
<1>4. PICK n \in 0 .. Len(items) : n \in Nat /\ at = n + 1 /\ BeingRead(format, items, n, heading, page, body, skipping, cached, blocks)
  BY <1>1, <1>2, WhileReading
<1>5. cached \in SUBSET related /\ \A v \in cached : HoldersIn(items, v) # {}
  BY <1>3, <1>4, Zenon DEF SectionTypes, BeingRead
<1>6. PICK m, b : m = at /\ b = body'
  OBVIOUS
<1>7. BeingRead(format, items, m, heading, page, b, skipping, cached, blocks)
  <2>1. m = n + 1 /\ m \in 1 .. Len(items) /\ ~HeadIn(items, m) /\ format # "pages"
    BY <1>1, <1>4, <1>6
  <2>2. b = Append(body, m) \/ (b = body /\ ~KeptIn(items, m))
    BY <1>1, <1>6
  <2> QED
    BY <1>3, <1>4, <1>5, <2>1, <2>2, ItemNext
<1>8. SectionsOK(format, plan, items, related, at + 1, heading, page, b, skipping, cached, blocks, <<>>, <<>>)
  <2>1. m \in 0 .. Len(items) /\ at + 1 = m + 1
    BY <1>1, <1>6
  <2> QED
    BY <1>3, <1>5, <1>7, <2>1, GoesOnReading
<1> QED
  BY <1>1, <1>3, <1>6, <1>8 DEF SectionsInv, Stays

\* The end of a document that is no DOCX.
LEMMA EndKeeps ==
  ASSUME SectionsInv, MarkdownEnd \/ PagesEnd
  PROVE  SectionsInv'
<1>1. /\ format \in {"markdown", "pages"} /\ at = Len(items) + 1
      /\ Stays /\ at' = at + 1 /\ heading' = heading /\ page' = page /\ skipping' = skipping
      /\ body' = body /\ chunks' = chunks /\ indexes' = indexes /\ cached' = cached
  BY DEF MarkdownEnd, PagesEnd, docVars, Stays
<1>2. blocks' = IF format = "pages" THEN blocks ELSE Flushed(format, heading, page, body, blocks)
  <2>1. CASE MarkdownEnd
    <3>1. format = "markdown"
      BY <2>1 DEF MarkdownEnd
    <3>2. blocks' = FlushMarkdown
      BY <2>1, Zenon DEF MarkdownEnd
    <3>3. format # "pages" /\ format # "docx"
      BY <3>1
    <3> QED
      BY <3>2, <3>3, Zenon DEF FlushMarkdown, Flushed
  <2>2. CASE PagesEnd
    BY <2>2 DEF PagesEnd
  <2> QED
    BY <2>1, <2>2
<1>3. SectionsOK(format, plan, items, related, at, heading, page, body, skipping, cached, blocks, chunks, indexes)
  BY Zenon DEF SectionsInv
<1>4. /\ DocumentOK(format, items, related) /\ plan \in Plans
      /\ SectionTypes(items, related, heading, page, skipping, cached, blocks)
      /\ chunks = <<>> /\ indexes = <<>>
  BY <1>1, <1>3, WhileReading
<1>5. PICK n \in 0 .. Len(items) : n \in Nat /\ at = n + 1 /\ BeingRead(format, items, n, heading, page, body, skipping, cached, blocks)
  BY <1>1, <1>3, WhileReading
<1>6. PICK bs : bs = blocks'
  OBVIOUS
<1>7. ReadOK(format, items, related, bs)
  <2>1. n = Len(items) /\ format # "docx"
    BY <1>1, <1>4, <1>5, DocumentHas
  <2>2. bs = IF format = "pages" THEN blocks ELSE Flushed(format, heading, page, body, blocks)
    BY <1>2, <1>6
  <2> QED
    BY <1>4, <1>5, <2>1, <2>2, ReadEnds
<1>8. SectionsOK(format, plan, items, related, at + 1, heading, page, body, skipping, cached, bs, <<>>, <<>>)
  <2>1. at + 1 = Len(items) + 2
    BY <1>1, <1>4, DocumentHas
  <2>2. SectionTypes(items, related, heading, page, skipping, cached, bs)
    <3>1. Typed(items, bs)
      BY <1>7, Zenon DEF ReadOK
    <3> QED
      BY <1>4, <3>1, Zenon DEF SectionTypes
  <2> QED
    BY <1>4, <1>7, <2>1, <2>2, OnceRead
<1> QED
  BY <1>1, <1>4, <1>6, <1>8 DEF SectionsInv, Stays

\* A page of a text layer.
LEMMA PageReadKeeps ==
  ASSUME SectionsInv, PageRead
  PROVE  SectionsInv'
<1>1. /\ format = "pages" /\ at \in 1 .. Len(items)
      /\ Stays /\ at' = at + 1 /\ body' = body /\ heading' = heading /\ page' = page
      /\ skipping' = skipping /\ cached' = cached /\ chunks' = chunks /\ indexes' = indexes
      /\ blocks' = Append(blocks, Block(Bare, at, IF items[at].kind = "text" THEN <<at>> ELSE <<>>))
  BY Zenon DEF PageRead, Positions, docVars, Stays
<1>2. SectionsOK(format, plan, items, related, at, heading, page, body, skipping, cached, blocks, chunks, indexes)
  BY Zenon DEF SectionsInv
<1>3. /\ DocumentOK(format, items, related) /\ plan \in Plans
      /\ SectionTypes(items, related, heading, page, skipping, cached, blocks)
      /\ chunks = <<>> /\ indexes = <<>>
  BY <1>1, <1>2, WhileReading
<1>4. PICK n \in 0 .. Len(items) : n \in Nat /\ at = n + 1 /\ BeingRead(format, items, n, heading, page, body, skipping, cached, blocks)
  BY <1>1, <1>2, WhileReading
<1>5. cached \in SUBSET related
  BY <1>3, Zenon DEF SectionTypes
<1>6. PICK m, bs : m = at /\ bs = blocks'
  OBVIOUS
<1>7. BeingRead(format, items, m, heading, page, body, skipping, cached, bs)
  <2>1. m = n + 1 /\ m \in 1 .. Len(items) /\ format = "pages"
    BY <1>1, <1>4, <1>6
  <2>2. bs = Append(blocks, PageBlock(items, m))
    BY <1>1, <1>6, Zenon DEF PageBlock
  <2> QED
    BY <1>3, <1>4, <2>1, <2>2, PageNext
<1>8. SectionsOK(format, plan, items, related, at + 1, heading, page, body, skipping, cached, bs, <<>>, <<>>)
  <2>1. m \in 0 .. Len(items) /\ at + 1 = m + 1
    BY <1>1, <1>6
  <2> QED
    BY <1>3, <1>5, <1>7, <2>1, GoesOnReading
<1> QED
  BY <1>1, <1>3, <1>6, <1>8 DEF SectionsInv, Stays

\* What a plan makes is what the service's splitters make.
LEMMA PlansAre ==
  ASSUME Typed(items, blocks), plan \in Plans
  PROVE  ChunksOf(format, plan, items, blocks) =
           CASE plan = "page" -> ByPage
             [] plan = "length" -> ByLength
             [] plan = "default" -> IF HasSections THEN BySection ELSE ByLength
<1>1. PICK L : L = Len(blocks) /\ DOMAIN blocks = 1 .. L
  <2> HIDE DEF BlockSet
  <2> QED
    BY DEF Typed
<1>2. ByPage = ByParts(Bodies(blocks), PagesOf(blocks), Len(blocks))
  <2>1. \A b \in 1 .. L : /\ Bodies(blocks)[b] = blocks[b].body
                          /\ PagesOf(blocks)[b] = blocks[b].page
    BY <1>1, Zenon DEF Bodies, PagesOf
  <2>2. [b \in DOMAIN blocks |-> CutTo(blocks[b].body, blocks[b].page)]
          = [b \in 1 .. L |-> CutTo(Bodies(blocks)[b], PagesOf(blocks)[b])]
    BY <1>1, <2>1
  <2> QED
    BY <1>1, <2>2, Zenon DEF ByPage, ByParts
<1>3. BySection = ByParts(Sectioned(blocks), PagesOf(blocks), Len(blocks))
  <2>1. \A b \in 1 .. L : /\ Sectioned(blocks)[b] = Section(blocks[b])
                          /\ PagesOf(blocks)[b] = blocks[b].page
    BY <1>1, Zenon DEF Sectioned, PagesOf
  <2>2. [b \in DOMAIN blocks |-> CutTo(Section(blocks[b]), blocks[b].page)]
          = [b \in 1 .. L |-> CutTo(Sectioned(blocks)[b], PagesOf(blocks)[b])]
    BY <1>1, <2>1
  <2> QED
    BY <1>1, <2>2, Zenon DEF BySection, ByParts
<1>4. ByLength = CutTo(WholeText(format, items, blocks), FirstOf(blocks))
  <2>1. FirstPage = FirstOf(blocks)
    BY Zenon DEF FirstPage, FirstOf
  <2>2. FullText = WholeText(format, items, blocks)
    BY Zenon DEF FullText, WholeText, Positions, Places
  <2> QED
    BY <2>1, <2>2, Zenon DEF ByLength
<1>5. HasSections <=> \E b \in 1 .. Len(blocks) : blocks[b].heading # Bare
  BY <1>1, Zenon DEF HasSections
<1>6. plan = "page" \/ plan = "length" \/ plan = "default"
  BY DEF Plans
<1>7. CASE plan = "page"
  BY <1>2, <1>7 DEF ChunksOf
<1>8. CASE plan = "length"
  BY <1>4, <1>8 DEF ChunksOf
<1>9. CASE plan = "default"
  BY <1>3, <1>4, <1>5, <1>9 DEF ChunksOf
<1> QED
  BY <1>6, <1>7, <1>8, <1>9

LEMMA SplitBlocksKeeps ==
  ASSUME SectionsInv, SplitBlocks
  PROVE  SectionsInv'
<1>1. /\ at = Len(items) + 2
      /\ Stays /\ at' = at + 1 /\ body' = body /\ heading' = heading /\ page' = page
      /\ skipping' = skipping /\ cached' = cached /\ blocks' = blocks /\ indexes' = indexes
  BY DEF SplitBlocks, docVars, Stays
<1>2. SectionsOK(format, plan, items, related, at, heading, page, body, skipping, cached, blocks, chunks, indexes)
  BY Zenon DEF SectionsInv
<1>3. plan \in Plans /\ Typed(items, blocks)
  BY <1>2, Zenon DEF SectionsOK, SectionTypes
<1>4. chunks' = ChunksOf(format, plan, items, blocks)
  BY <1>3, PlansAre, Zenon DEF SplitBlocks
<1>5. SectionsOK(format, plan, items, related, at + 1, heading, page, body, skipping, cached, blocks,
                 ChunksOf(format, plan, items, blocks), indexes)
  BY <1>1, <1>2, AfterReading
<1> QED
  BY <1>1, <1>4, <1>5 DEF SectionsInv, Stays

LEMMA BuildIndexesKeeps ==
  ASSUME SectionsInv, BuildIndexes
  PROVE  SectionsInv'
<1>1. /\ at = Len(items) + 3
      /\ Stays /\ at' = at + 1 /\ body' = body /\ heading' = heading /\ page' = page
      /\ skipping' = skipping /\ cached' = cached /\ blocks' = blocks /\ chunks' = chunks
  BY DEF BuildIndexes, docVars, Stays
<1>2. SectionsOK(format, plan, items, related, at, heading, page, body, skipping, cached, blocks, chunks, indexes)
  BY Zenon DEF SectionsInv
<1>3. indexes' = AllIndexes(chunks)
  <2>1. \A c : IndexesOf(c) = IndexesIn(chunks, c)
    BY Zenon DEF IndexesOf, IndexesIn
  <2>2. [c \in DOMAIN chunks |-> IndexesOf(c)] = [c \in DOMAIN chunks |-> IndexesIn(chunks, c)]
    BY <2>1
  <2> QED
    BY <2>2, Zenon DEF BuildIndexes, AllIndexes
<1>4. SectionsOK(format, plan, items, related, at + 1, heading, page, body, skipping, cached, blocks,
                 chunks, AllIndexes(chunks))
  BY <1>1, <1>2, AfterReading
<1> QED
  BY <1>1, <1>3, <1>4 DEF SectionsInv, Stays

LEMMA SectionsBegin ==
  ASSUME (NoDocument /\ SectionsIdle) \/ SectionsInit
  PROVE  SectionsInv
<1>1. SectionsIdle
  BY DEF SectionsInit
<1>2. DocumentOK(format, items, related) /\ plan \in Plans
  <2>1. CASE NoDocument
    <3>1. format = "markdown" /\ plan = "default" /\ items = <<>> /\ related = {}
      BY <2>1, Zenon DEF NoDocument
    <3>2. PICK none : none = <<>>
      OBVIOUS
    <3>3. none \in Seq(Item) /\ 1 .. Len(none) = {}
      <4> HIDE DEF Item
      <4> QED
        BY <3>2
    <3>4. "markdown" \in Formats /\ "default" \in Plans
      BY DEF Formats, Plans
    <3>5. \A i \in 1 .. Len(items) : Fits(format, items[i]) /\ (items[i].picture # Bare => items[i].picture \in related)
      BY <3>1, <3>2, <3>3
    <3> QED
      BY <3>1, <3>2, <3>3, <3>4, <3>5, Zenon DEF DocumentOK
  <2>2. CASE SectionsInit
    <3>1. /\ format \in Formats /\ plan \in Plans /\ related \in SUBSET Pictures
          /\ {items[i].picture : i \in 1 .. Len(items)} \ {Bare} \subseteq related
      BY <2>2, Zenon DEF SectionsInit
    <3>2. PICK n \in 1 .. MaxItems : items \in [1 .. n -> {item \in Item : Fits(format, item)}]
      BY <2>2, Zenon DEF SectionsInit
    <3>3. n \in Nat
      BY SectionsAssumption
    <3>4. items \in [1 .. n -> Item] /\ \A i \in 1 .. n : Fits(format, items[i])
      <4> HIDE DEF Item, Fits
      <4> QED
        BY <3>2
    <3>5. items \in Seq(Item) /\ Len(items) = n
      <4> HIDE DEF Item
      <4> QED
        BY <3>3, <3>4, MakesList
    <3>6. \A i \in 1 .. Len(items) : items[i].picture # Bare => items[i].picture \in related
      BY <3>1
    <3> QED
      BY <3>1, <3>4, <3>5, <3>6, Zenon DEF DocumentOK
  <2> QED
    BY <2>1, <2>2
<1>3. SectionsOK(format, plan, items, related, 1, Bare, Bare, <<>>, FALSE, {}, <<>>, <<>>, <<>>)
  BY <1>2, ReadingBegins
<1>4. /\ at = 1 /\ heading = Bare /\ page = Bare /\ body = <<>> /\ skipping = FALSE
      /\ cached = {} /\ blocks = <<>> /\ chunks = <<>> /\ indexes = <<>>
  BY <1>1, Zenon DEF SectionsIdle
<1> QED
  BY <1>3, <1>4 DEF SectionsInv

LEMMA SectionsSteps ==
  ASSUME SectionsInv, [SectionsNext]_sectionVars
  PROVE  SectionsInv'
<1>1. CASE DocxHeading
  BY <1>1, DocxHeadingKeeps
<1>2. CASE DocxContent
  BY <1>2, DocxContentKeeps
<1>3. CASE DocxEnd
  BY <1>3, DocxEndKeeps
<1>4. CASE MarkdownHeading
  BY <1>4, MarkdownHeadingKeeps
<1>5. CASE MarkdownLine
  BY <1>5, MarkdownLineKeeps
<1>6. CASE MarkdownEnd \/ PagesEnd
  BY <1>6, EndKeeps
<1>7. CASE PageRead
  BY <1>7, PageReadKeeps
<1>8. CASE SplitBlocks
  BY <1>8, SplitBlocksKeeps
<1>9. CASE BuildIndexes
  BY <1>9, BuildIndexesKeeps
<1>10. CASE UNCHANGED sectionVars
  BY <1>10 DEF SectionsInv, sectionVars, docVars
<1> QED
  BY <1>1, <1>2, <1>3, <1>4, <1>5, <1>6, <1>7, <1>8, <1>9, <1>10 DEF SectionsNext

-----------------------------------------------------------------------------
(* What the invariant says of documents.                                    *)

\* What is somewhere, and nowhere twice, is there once.
LEMMA TimesOnce ==
  ASSUME NEW s, DOMAIN s = 1 .. Len(s), \A n \in 1 .. Len(s) : DOMAIN s[n].texts = 1 .. Len(s[n].texts),
         NEW v, OnceIn(s, v), NEW c, NEW k, InTexts(s, c, k, v)
  PROVE  TimesIn(v, s) = 1
<1>1. PICK U : U = UNION {{<<n, j>> : j \in {j \in DOMAIN s[n].texts : s[n].texts[j] = v}} : n \in DOMAIN s}
  OBVIOUS
<1>2. \A n, j : InTexts(s, n, j, v) => n = c /\ j = k
  BY Zenon DEF OnceIn
<1>3. c \in DOMAIN s /\ k \in DOMAIN s[c].texts /\ s[c].texts[k] = v
  BY DEF InTexts
<1>4. <<c, k>> \in U
  BY <1>1, <1>3
<1>5. ASSUME NEW e \in U PROVE e = <<c, k>>
  <2>1. PICK n \in DOMAIN s : e \in {<<n, j>> : j \in {j \in DOMAIN s[n].texts : s[n].texts[j] = v}}
    BY <1>1, <1>5
  <2>2. PICK j \in DOMAIN s[n].texts : s[n].texts[j] = v /\ e = <<n, j>>
    BY <2>1
  <2>3. InTexts(s, n, j, v)
    BY <2>1, <2>2 DEF InTexts
  <2> QED
    BY <1>2, <2>2, <2>3
<1>6. U = {<<c, k>>}
  BY <1>4, <1>5
<1>7. Cardinality(U) = 1
  BY <1>6, FS_Singleton
<1> QED
  BY <1>1, <1>7, Zenon DEF TimesIn

\* The terms of the properties are those of the invariant.
LEMMA TermsAre ==
  /\ \A i : IsHeading(i) = HeadIn(items, i)
  /\ \A i : LastOf(HeadingsUpTo(i)) = AboveIn(items, i) /\ LastOf(PagesUpTo(i)) = LastOf(PagesIn(items, i))
  /\ \A i : InDataIndex(i) = IndexIn(items, i)
  /\ \A i : IsContent(i) = ContentIn(items, i)
  /\ \A h : HasContent(h) = HasTextIn(items, h)
<1>1. \A i : IsHeading(i) = HeadIn(items, i)
  BY Zenon DEF IsHeading, HeadIn
<1>2. \A i : HeadingsUpTo(i) = HeadsIn(items, i)
  BY <1>1, Zenon DEF HeadingsUpTo, HeadsIn
<1>3. \A i : LastOf(HeadingsUpTo(i)) = AboveIn(items, i)
  BY <1>2, Zenon DEF AboveIn
<1>4. \A i : LastOf(PagesUpTo(i)) = LastOf(PagesIn(items, i))
  BY Zenon DEF PagesUpTo, PagesIn
<1>5. \A i : InDataIndex(i) = IndexIn(items, i)
  <2> SUFFICES ASSUME NEW i PROVE InDataIndex(i) = IndexIn(items, i)
    OBVIOUS
  <2>1. LastOf(HeadingsUpTo(i)) = AboveIn(items, i)
    BY <1>3
  <2> QED
    BY <2>1 DEF InDataIndex, IndexIn
<1>6. \A i : IsContent(i) = ContentIn(items, i)
  BY Zenon DEF IsContent, ContentIn
<1>7. \A h : HasContent(h) = HasTextIn(items, h)
  BY <1>3, <1>6, Zenon DEF HasContent, HasTextIn, Positions
<1> QED
  BY <1>1, <1>3, <1>4, <1>5, <1>6, <1>7

\* The places of chunks and index texts, and what is at them.
LEMMA ChunksAre ==
  ASSUME NEW d, NEW cs \in Seq(ChunkSet(d))
  PROVE  /\ DOMAIN cs = 1 .. Len(cs)
         /\ \A c \in 1 .. Len(cs) :
              /\ cs[c].page \in PlaceOrBare(d) /\ cs[c].texts \in Seq(Shown(d))
              /\ DOMAIN cs[c].texts = 1 .. Len(cs[c].texts)
<1>1. /\ DOMAIN cs = 1 .. Len(cs)
      /\ \A c \in 1 .. Len(cs) : cs[c] \in ChunkSet(d)
  <2> HIDE DEF ChunkSet
  <2> QED
    BY ListHas
<1>2. ASSUME NEW c \in 1 .. Len(cs)
      PROVE  /\ cs[c].page \in PlaceOrBare(d) /\ cs[c].texts \in Seq(Shown(d))
             /\ DOMAIN cs[c].texts = 1 .. Len(cs[c].texts)
  <2>1. cs[c].page \in PlaceOrBare(d) /\ cs[c].texts \in Seq(Shown(d))
    BY <1>1 DEF ChunkSet
  <2> HIDE DEF Shown
  <2> QED
    BY <2>1
<1> QED
  BY <1>1, <1>2

LEMMA IndexesAre ==
  ASSUME NEW d, NEW cs, NEW xs \in Seq(IndexSet(d, cs))
  PROVE  /\ DOMAIN xs = 1 .. Len(xs)
         /\ \A n \in 1 .. Len(xs) : xs[n].data \in DOMAIN cs /\ DOMAIN xs[n].texts = 1 .. Len(xs[n].texts)
<1>1. /\ DOMAIN xs = 1 .. Len(xs)
      /\ \A n \in 1 .. Len(xs) : xs[n] \in IndexSet(d, cs)
  <2> HIDE DEF IndexSet
  <2> QED
    BY ListHas
<1>2. ASSUME NEW n \in 1 .. Len(xs) PROVE xs[n].data \in DOMAIN cs /\ DOMAIN xs[n].texts = 1 .. Len(xs[n].texts)
  <2>1. xs[n].data \in DOMAIN cs /\ xs[n].texts \in Seq(Shown(d))
    BY <1>1 DEF IndexSet
  <2> HIDE DEF Shown
  <2> QED
    BY <2>1
<1> QED
  BY <1>1, <1>2

\* The elements of a list.
LEMMA RangeHas ==
  ASSUME NEW X, NEW t \in Seq(X)
  PROVE  \A v : v \in Range(t) <=> \E k \in 1 .. Len(t) : t[k] = v
  BY DEF Range

LEMMA RangeIn ==
  ASSUME NEW d, NEW t \in Seq(Shown(d))
  PROVE  Range(t) \subseteq Shown(d)
<1> HIDE DEF Shown
<1> QED
  BY DEF Range

\* What has been split and indexed.
LEMMA SectionsEnd ==
  ASSUME SectionsInv
  PROVE  /\ DocumentOK(format, items, related) /\ plan \in Plans
         /\ SectionTypes(items, related, heading, page, skipping, cached, blocks)
         /\ chunks \in Seq(ChunkSet(items)) /\ indexes \in Seq(IndexSet(items, chunks))
         /\ at \in 1 .. Len(items) + 4
         /\ SectionsDone => ChunksOK(format, plan, items, related, chunks) /\ IndexesOK(items, chunks, indexes)
<1>1. SectionsOK(format, plan, items, related, at, heading, page, body, skipping, cached, blocks, chunks, indexes)
  BY Zenon DEF SectionsInv
<1>2. /\ DocumentOK(format, items, related) /\ plan \in Plans
      /\ SectionTypes(items, related, heading, page, skipping, cached, blocks)
      /\ SectionPhases(format, plan, items, related, at, heading, page, body, skipping, cached, blocks, chunks, indexes)
  BY <1>1, Zenon DEF SectionsOK
<1>3. Len(items) \in Nat
  BY <1>2, DocumentHas
<1>4. \/ at \in 1 .. Len(items) + 1 /\ chunks = <<>> /\ indexes = <<>>
      \/ at = Len(items) + 2 /\ chunks = <<>> /\ indexes = <<>>
      \/ at = Len(items) + 3 /\ ChunksOK(format, plan, items, related, chunks) /\ indexes = <<>>
      \/ /\ at = Len(items) + 4 /\ ChunksOK(format, plan, items, related, chunks)
         /\ IndexesOK(items, chunks, indexes)
  BY <1>2, Zenon DEF SectionPhases
<1>5. at \in 1 .. Len(items) + 4
  BY <1>3, <1>4
<1>6. SectionsDone => ChunksOK(format, plan, items, related, chunks) /\ IndexesOK(items, chunks, indexes)
  BY <1>3, <1>4 DEF SectionsDone
<1>7. chunks \in Seq(ChunkSet(items))
  <2>1. chunks = <<>> \/ ChunksOK(format, plan, items, related, chunks)
    BY <1>4
  <2>2. ChunksOK(format, plan, items, related, chunks) => chunks \in Seq(ChunkSet(items))
    BY Zenon DEF ChunksOK
  <2>3. <<>> \in Seq(ChunkSet(items))
    <3> HIDE DEF ChunkSet
    <3> QED
      OBVIOUS
  <2> QED
    BY <2>1, <2>2, <2>3, Zenon
<1>8. indexes \in Seq(IndexSet(items, chunks))
  <2>1. indexes = <<>> \/ IndexesOK(items, chunks, indexes)
    BY <1>4
  <2>2. IndexesOK(items, chunks, indexes) => indexes \in Seq(IndexSet(items, chunks))
    BY Zenon DEF IndexesOK
  <2>3. <<>> \in Seq(IndexSet(items, chunks))
    <3> HIDE DEF IndexSet
    <3> QED
      OBVIOUS
  <2> QED
    BY <2>1, <2>2, <2>3, Zenon
<1> QED
  BY <1>2, <1>5, <1>6, <1>7, <1>8

LEMMA SectionsTyped == ASSUME SectionsInv PROVE SectionsTypeOK
<1>1. /\ DocumentOK(format, items, related) /\ plan \in Plans
      /\ SectionTypes(items, related, heading, page, skipping, cached, blocks)
      /\ chunks \in Seq(ChunkSet(items)) /\ indexes \in Seq(IndexSet(items, chunks))
      /\ at \in 1 .. Len(items) + 4
  BY SectionsEnd
<1>2. /\ format \in Formats /\ related \subseteq Pictures /\ skipping \in BOOLEAN /\ cached \subseteq related
      /\ heading \in PlaceOrBare(items) /\ page \in PlaceOrBare(items) /\ Typed(items, blocks)
  BY <1>1, Zenon DEF DocumentOK, SectionTypes
<1>3. PlaceOrBare(items) = Positions \cup {Bare} /\ Shown(items) = Positions \cup Pictures
  BY Zenon DEF PlaceOrBare, Shown, Places, Positions
<1>4. ASSUME NEW b \in DOMAIN blocks
      PROVE  /\ {blocks[b].heading, blocks[b].page} \subseteq Positions \cup {Bare}
             /\ Range(blocks[b].body) \subseteq Positions \cup Pictures
  <2>1. blocks[b] \in BlockSet(items)
    <3> HIDE DEF BlockSet
    <3> QED
      BY <1>2, ListHas DEF Typed
  <2>2. /\ blocks[b].heading \in PlaceOrBare(items) /\ blocks[b].page \in PlaceOrBare(items)
        /\ blocks[b].body \in Seq(Shown(items))
    BY <2>1 DEF BlockSet
  <2>3. Range(blocks[b].body) \subseteq Shown(items)
    BY <2>2, RangeIn
  <2> QED
    BY <1>3, <2>2, <2>3
<1>5. ASSUME NEW c \in DOMAIN chunks
      PROVE  /\ chunks[c].page \in Positions \cup {Bare}
             /\ Range(chunks[c].texts) \subseteq Positions \cup Pictures
  <2>1. chunks[c].page \in PlaceOrBare(items) /\ chunks[c].texts \in Seq(Shown(items))
    BY <1>1, ChunksAre
  <2>2. Range(chunks[c].texts) \subseteq Shown(items)
    BY <2>1, RangeIn
  <2> QED
    BY <1>3, <2>1, <2>2
<1>6. \A n \in DOMAIN indexes : indexes[n].data \in DOMAIN chunks
  BY <1>1, IndexesAre
<1>7. {heading, page} \subseteq Positions \cup {Bare}
  BY <1>2, <1>3
<1> QED
  BY <1>1, <1>2, <1>4, <1>5, <1>6, <1>7, Zenon DEF SectionsTypeOK

LEMMA NothingLost == ASSUME SectionsInv PROVE NothingIsLost
<1>0. SUFFICES ASSUME SectionsDone PROVE NothingIsLost
  BY Zenon DEF NothingIsLost, TextsAreKept, HeadingsAreKept, PicturesAreShown
<1>1. /\ DocumentOK(format, items, related)
      /\ SectionTypes(items, related, heading, page, skipping, cached, blocks)
      /\ chunks \in Seq(ChunkSet(items)) /\ indexes \in Seq(IndexSet(items, chunks))
      /\ ChunksOK(format, plan, items, related, chunks) /\ IndexesOK(items, chunks, indexes)
  BY <1>0, SectionsEnd
<1>2. /\ ChunksKept(items, chunks) /\ ChunksOnce(items, chunks)
      /\ plan = "default" => ChunksHeads(items, chunks)
      /\ format = "docx" => ChunksPictures(items, related, chunks)
      /\ ChunksKept(items, indexes) /\ ChunksOnce(items, indexes)
  BY <1>1, Zenon DEF ChunksOK, IndexesOK
<1>3. /\ DOMAIN chunks = 1 .. Len(chunks)
      /\ \A c \in 1 .. Len(chunks) : /\ DOMAIN chunks[c].texts = 1 .. Len(chunks[c].texts)
                                     /\ chunks[c].texts \in Seq(Shown(items))
  BY <1>1, ChunksAre
<1>4. /\ DOMAIN indexes = 1 .. Len(indexes)
      /\ \A n \in 1 .. Len(indexes) : DOMAIN indexes[n].texts = 1 .. Len(indexes[n].texts)
  BY <1>1, IndexesAre
<1>5. \A i \in Positions : i \in 1 .. Len(items) /\ i \in Nat
  BY <1>1, DocumentHas DEF Positions
<1>6. ASSUME SomeKept(items), NEW v \in Nat, NEW c, NEW k, InTexts(chunks, c, k, v)
      PROVE  TimesIn(v, chunks) = 1
  <2>1. OnceIn(chunks, v)
    BY <1>2, <1>6, Zenon DEF ChunksOnce
  <2> QED
    BY <1>3, <1>6, <2>1, TimesOnce
<1>7. ASSUME SomeKept(items), NEW v \in Nat, NEW c, NEW k, InTexts(indexes, c, k, v)
      PROVE  TimesIn(v, indexes) = 1
  <2>1. OnceIn(indexes, v)
    BY <1>2, <1>7, Zenon DEF ChunksOnce
  <2> QED
    BY <1>4, <1>7, <2>1, TimesOnce
<1>8. TextsAreKept
  <2> SUFFICES ASSUME NEW i \in Positions, IsContent(i) /\ InDataIndex(i) => items[i].kind = "table", IsContent(i)
               PROVE  TimesIn(i, chunks) = 1 /\ TimesIn(i, indexes) = 1
    BY Zenon DEF TextsAreKept
  <2>1. i \in 1 .. Len(items) /\ i \in Nat
    BY <1>5
  <2>2. KeptIn(items, i)
    BY TermsAre, Zenon DEF KeptIn
  <2>3. SomeKept(items)
    BY <2>1, <2>2, Zenon DEF SomeKept
  <2>4. PICK c, k : InTexts(chunks, c, k, i)
    BY <1>2, <2>1, <2>2, Zenon DEF ChunksKept
  <2>5. PICK n, j : InTexts(indexes, n, j, i)
    BY <1>2, <2>1, <2>2, Zenon DEF ChunksKept
  <2> QED
    BY <1>6, <1>7, <2>1, <2>3, <2>4, <2>5
<1>9. HeadingsAreKept
  <2> SUFFICES ASSUME plan = "default", NEW h \in Positions, items[h].kind \in {"heading", "page"}, HasContent(h)
               PROVE  TimesIn(h, chunks) = 1
    BY Zenon DEF HeadingsAreKept
  <2>1. h \in 1 .. Len(items) /\ h \in Nat
    BY <1>5
  <2>2. h \in Heads(items)
    BY <2>1, TermsAre, Zenon DEF Heads
  <2>3. PICK c, k : InTexts(chunks, c, k, h)
    BY <1>2, <2>2, Zenon DEF ChunksHeads
  <2>4. SomeKept(items)
    <3>1. HasTextIn(items, h) /\ items[h].kind \in {"heading", "page"}
      BY <2>2, Zenon DEF Heads
    <3>2. PICK i \in 1 .. Len(items) : ContentIn(items, i) /\ AboveIn(items, i) = h
      BY <3>1, Zenon DEF HasTextIn
    <3>3. ~IndexIn(items, i)
      BY <3>1, <3>2 DEF IndexIn
    <3> QED
      BY <3>2, <3>3, Zenon DEF KeptIn, SomeKept
  <2> QED
    BY <1>6, <2>1, <2>3, <2>4
<1>10. PicturesAreShown
  <2> SUFFICES ASSUME format = "docx", NEW p \in cached
               PROVE  HoldersIn(items, p) = {} \/ OpenIn(items, p) # {} =>
                        \E c \in DOMAIN chunks : Range(chunks[c].texts) \cap ({p} \cup OpenIn(items, p)) # {}
    <3>1. \A p : {i \in Positions : items[i].picture = p} = HoldersIn(items, p)
      BY Zenon DEF HoldersIn, Positions
    <3>2. \A p : {i \in HoldersIn(items, p) : ~IsHeading(i) /\ (InDataIndex(i) => items[i].kind = "table")}
                   = OpenIn(items, p)
      BY TermsAre, Zenon DEF OpenIn
    <3> QED
      BY <3>1, <3>2 DEF PicturesAreShown
  <2>0. SUFFICES ASSUME HoldersIn(items, p) = {} \/ OpenIn(items, p) # {}
                 PROVE  \E c \in DOMAIN chunks : Range(chunks[c].texts) \cap ({p} \cup OpenIn(items, p)) # {}
    OBVIOUS
  <2>1. p \in ToShow(items, related)
    BY <1>1, <2>0, Zenon DEF ToShow, SectionTypes
  <2>2. PICK c, k, v : InTexts(chunks, c, k, v) /\ (v = p \/ v \in OpenIn(items, p))
    BY <1>2, <2>1, Zenon DEF ChunksPictures
  <2>3. c \in 1 .. Len(chunks) /\ k \in 1 .. Len(chunks[c].texts) /\ chunks[c].texts[k] = v
    BY <2>2, Zenon DEF InTexts
  <2>4. v \in Range(chunks[c].texts)
    BY <1>3, <2>3, RangeHas
  <2> QED
    BY <1>3, <2>2, <2>3, <2>4
<1> QED
  BY <1>8, <1>9, <1>10, Zenon DEF NothingIsLost

LEMMA PlacesKept == ASSUME SectionsInv PROVE ChunksKeepPlace
<1>0. SUFFICES ASSUME SectionsDone PROVE ChunksKeepPlace
  BY Zenon DEF ChunksKeepPlace, UnderItsHeading, PageIsTrue
<1>1. /\ chunks \in Seq(ChunkSet(items)) /\ ChunksOK(format, plan, items, related, chunks)
  BY <1>0, SectionsEnd
<1>2. /\ plan = "default" /\ Heads(items) # {} => ChunksUnder(items, chunks)
      /\ ByPages(format, plan) => ChunksPages(format, items, chunks)
  BY <1>1, Zenon DEF ChunksOK
<1>3. /\ DOMAIN chunks = 1 .. Len(chunks)
      /\ \A c \in 1 .. Len(chunks) : chunks[c].texts \in Seq(Shown(items))
  BY <1>1, ChunksAre
<1>4. ASSUME NEW c \in DOMAIN chunks, NEW i \in Range(chunks[c].texts)
      PROVE  \E k : InTexts(chunks, c, k, i)
  <2>1. PICK k \in 1 .. Len(chunks[c].texts) : chunks[c].texts[k] = i
    BY <1>3, <1>4, RangeHas
  <2>2. InTexts(chunks, c, k, i)
    BY <1>3, <2>1 DEF InTexts
  <2> QED
    BY <2>2
<1>5. UnderItsHeading
  <2> SUFFICES ASSUME plan = "default", NEW h \in Positions, items[h].kind \in {"heading", "page"}, HasContent(h),
                      NEW c \in DOMAIN chunks,
                      NEW i \in Range(chunks[c].texts) \cap Positions,
                      NEW j \in Range(chunks[c].texts) \cap Positions
               PROVE  LastOf(HeadingsUpTo(i)) = LastOf(HeadingsUpTo(j))
    BY Zenon DEF UnderItsHeading
  <2>1. h \in Heads(items)
    BY TermsAre, Zenon DEF Heads, Positions
  <2>2. ChunksUnder(items, chunks)
    BY <1>2, <2>1
  <2>3. PICK k, l : InTexts(chunks, c, k, i) /\ InTexts(chunks, c, l, j)
    BY <1>4
  <2>4. i \in 1 .. Len(items) /\ j \in 1 .. Len(items)
    BY DEF Positions
  <2>5. AboveIn(items, i) = AboveIn(items, j)
    <3>1. \A e, m, n, u, v :
            InTexts(chunks, e, m, u) /\ InTexts(chunks, e, n, v) /\ u \in 1 .. Len(items) /\ v \in 1 .. Len(items) =>
              AboveIn(items, u) = AboveIn(items, v)
      BY <2>2, Zenon DEF ChunksUnder
    <3> QED
      BY <2>3, <2>4, <3>1
  <2> QED
    BY <2>5, TermsAre
<1>6. PageIsTrue
  <2> SUFFICES ASSUME plan = "page" \/ (plan = "default" /\ format # "pages"),
                      NEW c \in DOMAIN chunks, chunks[c].page # Bare, NEW i \in Range(chunks[c].texts)
               PROVE  chunks[c].page = IF format = "pages" THEN i ELSE LastOf(PagesUpTo(i))
    BY Zenon DEF PageIsTrue
  <2>1. ChunksPages(format, items, chunks)
    BY <1>2, Zenon DEF ByPages
  <2>2. PICK k : InTexts(chunks, c, k, i)
    BY <1>4
  <2>3. c \in 1 .. Len(chunks)
    BY <1>3
  <2>4. OnPage(format, items, chunks[c].page, i)
    BY <2>1, <2>2, <2>3, Zenon DEF ChunksPages
  <2>5. LastOf(PagesUpTo(i)) = LastOf(PagesIn(items, i))
    BY TermsAre
  <2> QED
    BY <2>4, <2>5, Zenon DEF OnPage
<1> QED
  BY <1>5, <1>6, Zenon DEF ChunksKeepPlace

-----------------------------------------------------------------------------
(* The specification that is any of these (MCIngest).                       *)

\* The invariants of conversions, options, documents and pictures.
IngestInv == PdfInv /\ OptionsInv /\ SectionsInv /\ ImagesInv

LEMMA IngestBegins == IngestInit => IngestInv
<1> SUFFICES ASSUME IngestInit PROVE IngestInv
  OBVIOUS
<1>1. PdfInv
  BY PdfBegins DEF IngestInit, PdfInit, NoPdf
<1>2. OptionsInv
  BY OptionsBegin DEF IngestInit
<1>3. SectionsInv
  <2>1. NoSections \/ SectionsInit
    BY Zenon DEF IngestInit
  <2> QED
    BY <2>1, SectionsBegin, Zenon DEF NoSections
<1>4. ImagesInv
  BY ImagesBegin DEF IngestInit
<1> QED
  BY <1>1, <1>2, <1>3, <1>4 DEF IngestInv

LEMMA IngestSteps ==
  ASSUME IngestInv, [IngestNext]_<<part, vars, pdfVars, optionVars, sectionVars, imageVars>>
  PROVE  IngestInv'
<1>1. /\ [PdfNext]_pdfVars /\ [OptionsNext]_optionVars
      /\ [SectionsNext]_sectionVars /\ [ImagesNext]_imageVars
  BY DEF IngestNext
<1>2. PdfInv'
  BY <1>1, PdfSteps DEF IngestInv
<1>3. OptionsInv'
  BY <1>1, OptionsSteps DEF IngestInv
<1>4. SectionsInv'
  BY <1>1, SectionsSteps DEF IngestInv
<1>5. ImagesInv'
  BY <1>1, ImagesSteps DEF IngestInv
<1> QED
  BY <1>2, <1>3, <1>4, <1>5 DEF IngestInv

LEMMA IngestInvariant == IngestSpec => []IngestInv
  BY IngestBegins, IngestSteps, PTL DEF IngestSpec

-----------------------------------------------------------------------------
\* The variables of a conversion, of the options, of a document that is read and split and
\* of the pictures have their types, and no picture is on disk that was not saved.
THEOREM IngestTypesHold == IngestSpec => []IngestTypeOK
<1>1. IngestInv => IngestTypeOK
  BY PdfKeeps, OptionsKept, SectionsTyped, ImagesKept DEF IngestInv, IngestTypeOK
<1> QED
  BY <1>1, IngestInvariant, PTL

\* A conversion loses nothing: not what the model read, not a text layer that would have
\* done, not a page (parse_pdf_with_options, PdfToMarkdownConverter.convert).
THEOREM ConversionsKeep == IngestSpec => []ConversionKeeps
<1>1. IngestInv => ConversionKeeps
  BY PdfKeeps DEF IngestInv
<1> QED
  BY <1>1, IngestInvariant, PTL

\* A job runs with the options it was asked for, splits unless they were none or an empty
\* separator, and a retry that changes none splits as the job before it did
\* (from_chunking_options, to_dict, from_dict, process_file).
THEOREM OptionsStayCarriedOut == IngestSpec => []OptionsAreCarriedOut
<1>1. IngestInv => OptionsAreCarriedOut
  BY OptionsKept DEF IngestInv
<1> QED
  BY <1>1, IngestInvariant, PTL

\* Each text to be kept of a document is in one chunk and in one index text, by default
\* each heading over one too, and a picture of a DOCX that some text or nothing holds is in
\* a chunk (_to_document, parse_markdown_text, ChunkingService.split, build_indexes).
THEOREM NothingGetsLost == IngestSpec => []NothingIsLost
<1>1. IngestInv => NothingIsLost
  BY NothingLost DEF IngestInv
<1> QED
  BY <1>1, IngestInvariant, PTL

\* By default no chunk goes on past a heading, and split by section or by page a chunk that
\* names a page has only texts of it (_split_markdown_sections, _split_page).
THEOREM ChunksStayInPlace == IngestSpec => []ChunksKeepPlace
<1>1. IngestInv => ChunksKeepPlace
  BY PlacesKept DEF IngestInv
<1> QED
  BY <1>1, IngestInvariant, PTL

\* As long as a document's bytes are there, a picture its rows show is on disk, unless
\* another document that shows or showed it has been deleted (_delete_pg_uploaded_file).
THEOREM PicturesStay == IngestSpec => []PicturesAreThere
<1>1. IngestInv => PicturesAreThere
  BY ImagesKept DEF IngestInv
<1> QED
  BY <1>1, IngestInvariant, PTL

\* No picture is stored twice for one import, and none stays of a deleted document that
\* nothing disturbed (ingest_markdown_images, _delete_pg_uploaded_file).
THEOREM NoPictureIsLeft == IngestSpec => []NoneToSpare
<1>1. IngestInv => NoneToSpare
  BY ImagesKept DEF IngestInv
<1> QED
  BY <1>1, IngestInvariant, PTL

=============================================================================
