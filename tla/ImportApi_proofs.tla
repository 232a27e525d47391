--------------------------- MODULE ImportApi_proofs --------------------------
(***************************************************************************)
(* Theorems about ImportApi and their proofs: they hold for any number of  *)
(* servers, keys, requests and faults.                                     *)
(***************************************************************************)
EXTENDS ImportApi, FiniteSetTheorems, TLAPS

\* Requests that hold the row of their key.
Holding == {"limit", "insert", "complete"}

\* A request that has not come in has no key and no answer, one that came in has a
\* body, one that is served has no answer yet, and one that inserted its job is past
\* the insert.
Progress ==
  \A r \in Requests :
    /\ pc[r] = "new" => req[r] = NoRequest
    /\ pc[r] # "new" /\ ~req[r].web => req[r].body \in Bodies
    /\ pc[r] \in {"acquire", "complete"} => req[r].key # None
    /\ pc[r] # "done" => answer[r] = NoAnswer
    /\ r \in made => pc[r] \in {"complete", "done"}

\* The holder of a key is alone with it: the row is taken and has no response, no other
\* request holds it, and the only job of the key can be the holder's own.
OneHolder ==
  \A r \in Requests :
    pc[r] \in Holding /\ req[r].key # None =>
      /\ RowOf(r) # NoRow /\ RowOf(r).job = NoJob
      /\ \A q \in Requests \ {r} :
           req[q].key = req[r].key => pc[q] \notin Holding /\ q \notin made
      /\ r \in made <=> pc[r] = "complete"

\* A key has at most one job, and none as long as it has no row; the stored response is
\* that job, and so is every answer with a job.
OneJob ==
  /\ \A q, r \in made : req[q].key = req[r].key /\ req[r].key # None => q = r
  /\ \A r \in made : req[r].key # None => RowOf(r) # NoRow
  /\ \A k \in Keys : row[k].job # NoJob => row[k].job \in made /\ req[row[k].job].key = k
  /\ \A r \in Requests :
       req[r].key # None /\ answer[r].job # NoJob => RowOf(r).job = answer[r].job

KeyInv == TypeOK /\ Progress /\ OneHolder /\ OneJob

LEMMA KeyInit == Init => KeyInv
  BY BoundsAssumption, NoneAssumption, SMT
     DEF Init, KeyInv, TypeOK, Progress, OneHolder, OneJob, NoRequest, NoAnswer, NoRow,
         NoHash, Hashes, Outcomes, Holding, NoJob

\* A request is never hashed to the hash of an empty row.
LEMMA HashIsNew ==
  ASSUME KeyInv, NEW r \in Requests, pc[r] # "new"
  PROVE  Hash(r) \in Hashes /\ Hash(r) # NoHash
<1>1. req[r].web \in BOOLEAN /\ r \in Nat /\ r # 0
  BY SMT DEF KeyInv, TypeOK, Requests
<1>2. ~req[r].web => req[r].body \in Bodies /\ req[r].body # None
  BY NoneAssumption DEF KeyInv, Progress
<1> QED
  BY <1>1, <1>2 DEF Hash, Hashes, NoHash

\* The key of a request that is being served with a key.
LEMMA KeyOf ==
  ASSUME KeyInv, NEW r \in Requests, req[r].key # None
  PROVE  req[r].key \in Keys
  BY DEF KeyInv, TypeOK

LEMMA ArriveInv ==
  ASSUME KeyInv, NEW s \in Servers, NEW r \in Requests, NEW key \in Keys \cup {None},
         NEW web \in BOOLEAN, NEW body \in Bodies \cup Pages, Arrive(s, r, key, web, body)
  PROVE  KeyInv'
<1> DEFINE x == [key |-> key, web |-> web, body |-> body]
<1>1. /\ pc[r] = "new" /\ req[r] = NoRequest /\ r \notin made /\ answer[r] = NoAnswer
      /\ ~web => body \in Bodies
  BY DEF Arrive, KeyInv, Progress
<1>2. /\ req' = [req EXCEPT ![r] = x]
      /\ pc' = [pc EXCEPT ![r] = IF key = None THEN "limit" ELSE "acquire"]
      /\ at' = [at EXCEPT ![r] = s]
      /\ UNCHANGED <<row, made, active, answer, faults>>
  BY DEF Arrive
<1>3. TypeOK'
  BY <1>1, <1>2, NoneAssumption DEF KeyInv, TypeOK
<1>4. Progress'
  BY <1>1, <1>2 DEF KeyInv, TypeOK, Progress
<1>5. \A q \in Requests \ {r} : req'[q] = req[q] /\ pc'[q] = pc[q]
  BY <1>2 DEF KeyInv, TypeOK
<1>6. req'[r].key = key /\ pc'[r] \in {"limit", "acquire"} /\ (pc'[r] = "limit" => key = None)
  BY <1>2 DEF KeyInv, TypeOK
<1>7. OneHolder'
  BY <1>1, <1>2, <1>5, <1>6 DEF KeyInv, OneHolder, Holding, RowOf
<1>8. OneJob'
  <2>1. \A q \in made : q # r
    BY <1>1
  <2>2. \A k \in Keys : row[k].job # NoJob => row[k].job # r /\ row[k].job \in Requests
    BY <1>1 DEF KeyInv, OneJob, TypeOK, RowOf
  <2>3. answer'[r].job = NoJob
    BY <1>1, <1>2 DEF NoAnswer
  <2> QED
    BY <1>2, <1>5, <2>1, <2>2, <2>3 DEF KeyInv, OneJob, TypeOK, RowOf
<1> QED
  BY <1>3, <1>4, <1>7, <1>8 DEF KeyInv

LEMMA AcquireInv ==
  ASSUME KeyInv, NEW r \in Requests, Acquire(r)
  PROVE  KeyInv'
<1> DEFINE k == req[r].key
           new == [hash |-> Hash(r), job |-> NoJob]
<1>1. k # None /\ k \in Keys /\ row[k] = NoRow /\ pc[r] = "acquire"
  BY KeyOf DEF Acquire, KeyInv, Progress, RowOf
<1>2. /\ row' = [row EXCEPT ![k] = new] /\ pc' = [pc EXCEPT ![r] = "limit"]
      /\ UNCHANGED <<req, at, made, active, answer, faults>>
  BY DEF Acquire
<1>3. new # NoRow /\ new \in [hash : Hashes, job : Requests \cup {NoJob}] /\ new.job = NoJob
  BY <1>1, HashIsNew DEF NoRow
<1>4. \A q \in Requests : req[q].key = k => q \notin made /\ pc[q] \notin Holding
  BY <1>1 DEF KeyInv, OneHolder, OneJob, RowOf, NoRow
<1> HIDE DEF new
<1>5. TypeOK'
  BY <1>1, <1>2, <1>3 DEF KeyInv, TypeOK
<1>6. Progress'
  BY <1>1, <1>2, <1>4 DEF KeyInv, TypeOK, Progress
<1>7. OneHolder'
  BY <1>1, <1>2, <1>3, <1>4 DEF KeyInv, TypeOK, OneHolder, Holding, RowOf
<1>8. OneJob'
  <2>1. NoRow.job = NoJob
    BY DEF NoRow
  <2> QED
    BY <1>1, <1>2, <1>3, <1>4, <2>1 DEF KeyInv, TypeOK, OneJob, RowOf
<1> QED
  BY <1>5, <1>6, <1>7, <1>8 DEF KeyInv

\* The handler of r ends: with no job, or with the stored one.
LEMMA AnswerInv ==
  ASSUME KeyInv, NEW r \in Requests, pc[r] \notin {"new", "done"},
         NEW o \in Outcomes, NEW j \in Requests \cup {NoJob}, Answer(r, o, j),
         j # NoJob => req[r].key # None /\ RowOf(r).job = j,
         UNCHANGED <<req, row, made, active>>, faults' \in Nat
  PROVE  KeyInv'
<1>1. /\ pc' = [pc EXCEPT ![r] = "done"] /\ at' = [at EXCEPT ![r] = None]
      /\ answer' = [answer EXCEPT ![r] = [outcome |-> o, job |-> j]]
  BY DEF Answer
<1>2. TypeOK'
  BY <1>1 DEF KeyInv, TypeOK
<1>3. Progress'
  BY <1>1 DEF KeyInv, TypeOK, Progress
<1>4. OneHolder'
  BY <1>1 DEF KeyInv, TypeOK, OneHolder, Holding, RowOf
<1>5. OneJob'
  <2>1. answer'[r].job = j /\ \A q \in Requests \ {r} : answer'[q] = answer[q]
    BY <1>1 DEF KeyInv, TypeOK
  <2> QED
    BY <2>1 DEF KeyInv, OneJob, RowOf
<1> QED
  BY <1>2, <1>3, <1>4, <1>5 DEF KeyInv

LEMMA BelowLimitInv ==
  ASSUME KeyInv, NEW r \in Requests, BelowLimit(r)
  PROVE  KeyInv'
<1>1. /\ pc[r] = "limit" /\ pc' = [pc EXCEPT ![r] = "insert"]
      /\ UNCHANGED <<req, at, row, made, active, answer, faults>>
  BY DEF BelowLimit
<1>2. TypeOK'
  BY <1>1 DEF KeyInv, TypeOK
<1>3. Progress'
  BY <1>1 DEF KeyInv, TypeOK, Progress
<1>4. OneHolder'
  BY <1>1 DEF KeyInv, TypeOK, OneHolder, Holding, RowOf
<1>5. OneJob'
  BY <1>1 DEF KeyInv, OneJob, RowOf
<1> QED
  BY <1>2, <1>3, <1>4, <1>5 DEF KeyInv

\* Inserting the job of a request without a key touches no key's promise; with a key
\* the request is the key's only holder and nobody has made its job before.
LEMMA InsertJobInv ==
  ASSUME KeyInv, NEW r \in Requests, InsertJob(r)
  PROVE  KeyInv'
<1>1. /\ pc[r] = "insert" /\ made' = made \cup {r} /\ active' = active \cup {r}
      /\ UNCHANGED <<req, row, faults>>
  BY DEF InsertJob
<1>2. CASE req[r].key = None
  <2>1. /\ pc' = [pc EXCEPT ![r] = "done"] /\ at' = [at EXCEPT ![r] = None]
        /\ answer' = [answer EXCEPT ![r] = [outcome |-> "created", job |-> r]]
    BY <1>2 DEF InsertJob, Answer
  <2>2. TypeOK'
    BY <1>1, <2>1 DEF KeyInv, TypeOK, Outcomes
  <2>3. Progress'
    BY <1>1, <2>1 DEF KeyInv, TypeOK, Progress
  <2>4. OneHolder'
    BY <1>1, <1>2, <2>1 DEF KeyInv, TypeOK, OneHolder, Holding, RowOf
  <2>5. OneJob'
    <3>1. \A q \in Requests \ {r} : answer'[q] = answer[q]
      BY <2>1 DEF KeyInv, TypeOK
    <3> QED
      BY <1>1, <1>2, <3>1 DEF KeyInv, OneJob, RowOf
  <2> QED
    BY <2>2, <2>3, <2>4, <2>5 DEF KeyInv
<1>3. CASE req[r].key # None
  <2>1. pc' = [pc EXCEPT ![r] = "complete"] /\ UNCHANGED <<at, answer>>
    BY <1>3 DEF InsertJob
  <2>2. /\ RowOf(r) # NoRow
        /\ \A q \in Requests \ {r} : req[q].key = req[r].key => q \notin made
    BY <1>1, <1>3 DEF KeyInv, OneHolder, Holding
  <2>3. TypeOK'
    BY <1>1, <2>1 DEF KeyInv, TypeOK
  <2>4. Progress'
    BY <1>1, <1>3, <2>1 DEF KeyInv, TypeOK, Progress
  <2>5. OneHolder'
    BY <1>1, <1>3, <2>1 DEF KeyInv, TypeOK, OneHolder, Holding, RowOf
  <2>6. OneJob'
    BY <1>1, <1>3, <2>1, <2>2 DEF KeyInv, TypeOK, OneJob, RowOf
  <2> QED
    BY <2>3, <2>4, <2>5, <2>6 DEF KeyInv
<1> QED
  BY <1>2, <1>3

\* The response stored is the job that the holder of the key has made.
LEMMA CompleteInv ==
  ASSUME KeyInv, NEW r \in Requests, req[r].key # None, Complete(r)
  PROVE  KeyInv'
<1> DEFINE k == req[r].key
           new == [row[k] EXCEPT !.job = r]
<1>1. /\ pc[r] = "complete" /\ row' = [row EXCEPT ![k] = new]
      /\ pc' = [pc EXCEPT ![r] = "done"] /\ at' = [at EXCEPT ![r] = None]
      /\ answer' = [answer EXCEPT ![r] = [outcome |-> "created", job |-> r]]
      /\ UNCHANGED <<req, made, active, faults>>
  BY DEF Complete, Answer
<1>2. k \in Keys /\ r # NoJob
  BY KeyOf, SMT DEF Requests, NoJob
<1>3. new \in [hash : Hashes, job : Requests \cup {NoJob}] /\ new.job = r
  BY <1>2 DEF KeyInv, TypeOK
<1>4. new # NoRow
  BY <1>2, <1>3 DEF NoRow
<1>5. /\ RowOf(r).job = NoJob /\ r \in made
      /\ \A q \in Requests \ {r} :
           req[q].key = k => pc[q] \notin Holding /\ q \notin made
  BY <1>1 DEF KeyInv, OneHolder, Holding
<1>6. \A q \in Requests : req[q].key = k => answer[q].job = NoJob
  BY <1>2, <1>5 DEF KeyInv, OneJob, RowOf
<1> HIDE DEF new
<1>7. TypeOK'
  BY <1>1, <1>2, <1>3 DEF KeyInv, TypeOK, Outcomes
<1>8. Progress'
  BY <1>1 DEF KeyInv, TypeOK, Progress
<1>9. OneHolder'
  BY <1>1, <1>2, <1>5 DEF KeyInv, TypeOK, OneHolder, Holding, RowOf
<1>10. OneJob'
  BY <1>1, <1>2, <1>3, <1>4, <1>5, <1>6 DEF KeyInv, TypeOK, OneJob, RowOf
<1> QED
  BY <1>7, <1>8, <1>9, <1>10 DEF KeyInv

LEMMA CrashInv ==
  ASSUME KeyInv, NEW s \in Servers, Crash(s)
  PROVE  KeyInv'
<1>1. /\ pc' = [r \in Requests |-> IF at[r] = s THEN "done" ELSE pc[r]]
      /\ at' = [r \in Requests |-> IF at[r] = s THEN None ELSE at[r]]
      /\ faults' = faults + 1 /\ UNCHANGED <<req, row, made, active, answer>>
  BY DEF Crash
<1>2. \A r \in Requests : pc'[r] = pc[r] \/ (pc'[r] = "done" /\ pc[r] # "new")
  BY <1>1, NoneAssumption DEF KeyInv, TypeOK
<1>3. TypeOK'
  BY <1>1, NoneAssumption DEF KeyInv, TypeOK
<1>4. Progress'
  BY <1>1, <1>2 DEF KeyInv, Progress
<1>5. OneHolder'
  BY <1>1, <1>2 DEF KeyInv, OneHolder, Holding, RowOf
<1>6. OneJob'
  BY <1>1 DEF KeyInv, OneJob, RowOf
<1> QED
  BY <1>3, <1>4, <1>5, <1>6 DEF KeyInv

LEMMA HandleInv ==
  ASSUME KeyInv, NEW r \in Requests, Handle(r)
  PROVE  KeyInv'
<1>1. faults \in Nat
  BY DEF KeyInv, TypeOK
<1>2. CASE Acquire(r)
  BY <1>2, AcquireInv
<1>3. CASE Conflict(r) \/ InProgress(r) \/ AtLimit(r) \/ Raise(r)
  <2>1. /\ pc[r] \notin {"new", "done"} /\ UNCHANGED <<req, row, made, active>>
        /\ faults' \in Nat
    <3>1. CASE Conflict(r) \/ InProgress(r) \/ AtLimit(r)
      BY <1>1, <3>1 DEF Conflict, InProgress, AtLimit
    <3>2. CASE Raise(r)
      BY <1>1, <3>2, SMT DEF Raise
    <3> QED
      BY <1>3, <3>1, <3>2
  <2>2. \E o \in Outcomes : Answer(r, o, NoJob)
    BY <1>3 DEF Conflict, InProgress, AtLimit, Raise, Outcomes
  <2> QED
    BY <2>1, <2>2, AnswerInv
<1>4. CASE Replay(r)
  <2>1. req[r].key # None
    BY <1>4 DEF Replay, KeyInv, Progress
  <2>2. RowOf(r).job \in Requests \cup {NoJob}
    BY <2>1, KeyOf DEF KeyInv, TypeOK, RowOf
  <2> QED
    BY <1>1, <1>4, <2>1, <2>2, AnswerInv DEF Replay, Outcomes
<1>5. CASE BelowLimit(r)
  BY <1>5, BelowLimitInv
<1>6. CASE InsertJob(r)
  BY <1>6, InsertJobInv
<1>7. CASE Complete(r)
  <2>1. req[r].key # None
    BY <1>7 DEF Complete, KeyInv, Progress
  <2> QED
    BY <1>7, <2>1, CompleteInv
<1> QED
  BY <1>2, <1>3, <1>4, <1>5, <1>6, <1>7 DEF Handle

LEMMA KeyNext == KeyInv /\ [Next]_vars => KeyInv'
<1> SUFFICES ASSUME KeyInv, [Next]_vars PROVE KeyInv'
  OBVIOUS
<1>1. ASSUME NEW s \in Servers, NEW r \in Requests, NEW key \in Keys \cup {None},
             NEW web \in BOOLEAN, NEW body \in Bodies \cup Pages,
             Arrive(s, r, key, web, body)
      PROVE  KeyInv'
  BY <1>1, ArriveInv
<1>2. ASSUME NEW r \in Requests, Handle(r) PROVE KeyInv'
  BY <1>2, HandleInv
<1>3. ASSUME NEW s \in Servers, Crash(s) PROVE KeyInv'
  BY <1>3, CrashInv
<1>4. ASSUME NEW j \in Requests, JobEnds(j) PROVE KeyInv'
  BY <1>4 DEF JobEnds, KeyInv, TypeOK, Progress, OneHolder, OneJob, RowOf
<1>5. CASE UNCHANGED vars
  BY <1>5 DEF vars, KeyInv, TypeOK, Progress, OneHolder, OneJob, RowOf
<1> QED
  BY <1>1, <1>2, <1>3, <1>4, <1>5 DEF Next

\* The variables keep their types, and a handler sits on a server exactly as long as its
\* request is being served.
THEOREM TypeCorrect == Spec => []TypeOK
<1>1. KeyInv => TypeOK
  BY DEF KeyInv
<1> QED
  BY <1>1, KeyInit, KeyNext, PTL DEF Spec

\* Whoever was answered with a job under a key has it stored under that key.
THEOREM AnswersAreStored == Spec => []AnsweredIsStored
<1>1. KeyInv => AnsweredIsStored
  BY DEF KeyInv, OneJob, AnsweredIsStored
<1> QED
  BY <1>1, KeyInit, KeyNext, PTL DEF Spec

-----------------------------------------------------------------------------
(* The handlers implement OnceOnly.                                         *)

asked == [r \in Requests |-> req[r].key]
ran == [k \in Keys |-> {r \in made : req[r].key = k}]
told == [r \in Requests |-> IF req[r].key = None \/ answer[r].job = NoJob THEN {}
                            ELSE {answer[r].job}]

LEMMA PromiseInit == Init => Promise!Init
  BY DEF Init, Promise!Init, NoRequest, NoAnswer

\* A request that comes in is asked, under its key.
LEMMA ArriveAsks ==
  ASSUME KeyInv, NEW s \in Servers, NEW r \in Requests, NEW key \in Keys \cup {None},
         NEW web \in BOOLEAN, NEW body \in Bodies \cup Pages, Arrive(s, r, key, web, body)
  PROVE  asked' = [asked EXCEPT ![r] = key] /\ asked[r] = None /\ UNCHANGED <<ran, told>>
<1>1. /\ pc[r] = "new" /\ req[r].key = None /\ r \notin made /\ answer[r].job = NoJob
  BY DEF Arrive, KeyInv, Progress, NoRequest, NoAnswer
<1>2. /\ req' = [req EXCEPT ![r] = [key |-> key, web |-> web, body |-> body]]
      /\ UNCHANGED <<made, answer>>
  BY DEF Arrive
<1>3. \A q \in Requests : req'[q].key = IF q = r THEN key ELSE req[q].key
  BY <1>2 DEF KeyInv, TypeOK
<1>4. made \subseteq Requests
  BY DEF KeyInv, TypeOK
<1>5. asked' = [asked EXCEPT ![r] = key] /\ asked[r] = None
  BY <1>1, <1>3 DEF asked
<1>6. ran' = ran
  <2>1. \A k \in Keys : {q \in made' : req'[q].key = k} = {q \in made : req[q].key = k}
    BY <1>1, <1>2, <1>3, <1>4
  <2> QED
    BY <2>1 DEF ran
<1>7. told' = told
  BY <1>1, <1>2, <1>3 DEF told
<1> QED
  BY <1>5, <1>6, <1>7

\* Inserting a job for a key executes the key; for no key it is invisible.
LEMMA InsertExecutes ==
  ASSUME KeyInv, NEW r \in Requests, InsertJob(r)
  PROVE  \/ UNCHANGED <<asked, ran, told>>
         \/ \E k \in Keys : Promise!Execute(k, r)
<1>1. /\ pc[r] = "insert" /\ made' = made \cup {r} /\ req' = req
  BY DEF InsertJob
<1>2. r \notin made /\ asked' = asked /\ made \subseteq Requests
  BY <1>1 DEF KeyInv, TypeOK, Progress, asked
<1>3. CASE req[r].key = None
  <2>1. \A k \in Keys : {q \in made' : req[q].key = k} = {q \in made : req[q].key = k}
    BY <1>1, <1>3, NoneAssumption
  <2>2. ran' = ran
    BY <1>1, <2>1 DEF ran
  <2>3. \A q \in Requests \ {r} : answer'[q] = answer[q]
    BY <1>3 DEF InsertJob, Answer, KeyInv, TypeOK
  <2>4. told' = told
    BY <1>1, <1>3, <2>3 DEF told
  <2> QED
    BY <1>2, <2>2, <2>4
<1>4. CASE req[r].key # None
  <2> DEFINE k == req[r].key
  <2>1. k \in Keys
    BY <1>4, KeyOf
  <2>2. \A q \in made : req[q].key # k
    BY <1>1, <1>2, <1>4 DEF KeyInv, OneHolder, Holding
  <2>3. answer' = answer
    BY <1>4 DEF InsertJob
  <2>4. told' = told
    BY <1>1, <2>3 DEF told
  <2>5. ran[k] = {}
    BY <2>1, <2>2 DEF ran
  <2>6. ran' = [ran EXCEPT ![k] = {r}]
    <3>1. \A l \in Keys : {q \in made' : req[q].key = l} =
                          IF l = k THEN {r} ELSE {q \in made : req[q].key = l}
      BY <1>1, <2>2
    <3> QED
      BY <1>1, <3>1 DEF ran
  <2>7. \A l \in Keys : r \notin ran[l]
    BY <1>2 DEF ran
  <2>8. asked[r] = k
    BY DEF asked
  <2>9. Promise!Execute(k, r)
    BY <1>2, <2>4, <2>5, <2>6, <2>7, <2>8 DEF Promise!Execute, asked, ran, told
  <2> HIDE DEF k
  <2> QED
    BY <2>1, <2>9 DEF Promise!Execute
<1> QED
  BY <1>3, <1>4

\* An answer with the stored job, and the answer that follows its being stored, tell
\* the request of the key's job.
LEMMA AnswerTells ==
  ASSUME KeyInv, NEW r \in Requests, NEW o, NEW j \in made, req[r].key # None,
         req[j].key = req[r].key, answer[r] = NoAnswer, Answer(r, o, j),
         UNCHANGED <<req, made>>
  PROVE  Promise!Tell(r)
<1> DEFINE k == req[r].key
<1>1. k \in Keys /\ asked[r] = k /\ j # NoJob /\ j \in Requests
  <2>1. made \subseteq Requests
    BY DEF KeyInv, TypeOK
  <2>2. j \in Requests /\ j # NoJob
    BY <2>1, SMT DEF Requests, NoJob
  <2> QED
    BY <2>2, KeyOf DEF asked
<1>2. {q \in made : req[q].key = k} = {j}
  BY DEF KeyInv, OneJob
<1>3. ran[k] = {j}
  BY <1>1, <1>2 DEF ran
<1>4. UNCHANGED <<asked, ran>>
  BY DEF asked, ran
<1>5. told[r] = {}
  BY DEF told, NoAnswer
<1>6. /\ answer'[r].job = j /\ \A q \in Requests \ {r} : answer'[q] = answer[q]
  BY DEF Answer, KeyInv, TypeOK
<1>7. told' = [told EXCEPT ![r] = {j}]
  BY <1>1, <1>6 DEF told
<1> QED
  BY <1>1, <1>3, <1>4, <1>5, <1>7 DEF Promise!Tell, asked, ran, told

\* The other steps of a handler are invisible.
LEMMA QuietStep ==
  ASSUME KeyInv, NEW r \in Requests, answer[r] = NoAnswer, UNCHANGED <<req, made>>,
         answer' = answer \/ \E o \in Outcomes : Answer(r, o, NoJob)
  PROVE  UNCHANGED <<asked, ran, told>>
<1>1. UNCHANGED <<asked, ran>>
  BY DEF asked, ran
<1>2. \A q \in Requests : answer'[q].job = answer[q].job
  BY DEF Answer, KeyInv, TypeOK, NoAnswer
<1>3. told' = told
  BY <1>2 DEF told
<1> QED
  BY <1>1, <1>3

LEMMA HandleKeeps ==
  ASSUME KeyInv, NEW r \in Requests, Handle(r)
  PROVE  Promise!Next \/ UNCHANGED <<asked, ran, told>>
<1>1. pc[r] # "done" /\ answer[r] = NoAnswer
  BY DEF Handle, Acquire, Conflict, Replay, InProgress, BelowLimit, AtLimit, InsertJob,
         Complete, Raise, KeyInv, Progress
<1>2. CASE Acquire(r) \/ BelowLimit(r)
  BY <1>1, <1>2, QuietStep DEF Acquire, BelowLimit
<1>3. CASE Conflict(r) \/ InProgress(r) \/ AtLimit(r) \/ Raise(r)
  <2>1. UNCHANGED <<req, made>> /\ \E o \in Outcomes : Answer(r, o, NoJob)
    BY <1>3 DEF Conflict, InProgress, AtLimit, Raise, Outcomes
  <2> QED
    BY <1>1, <2>1, QuietStep
<1>4. CASE Replay(r)
  <2>1. req[r].key # None /\ req[r].key \in Keys
    BY <1>4, KeyOf DEF Replay, KeyInv, Progress
  <2>2. RowOf(r).job \in made /\ req[RowOf(r).job].key = req[r].key
    BY <1>4, <2>1 DEF Replay, KeyInv, OneJob, RowOf
  <2>3. Promise!Tell(r)
    BY <1>1, <1>4, <2>1, <2>2, AnswerTells DEF Replay
  <2> QED
    BY <2>3 DEF Promise!Next
<1>5. CASE InsertJob(r)
  BY <1>5, InsertExecutes DEF Promise!Next
<1>6. CASE Complete(r)
  <2>1. req[r].key # None /\ r \in made
    BY <1>6 DEF Complete, KeyInv, Progress, OneHolder, Holding
  <2>2. Promise!Tell(r)
    BY <1>1, <1>6, <2>1, AnswerTells DEF Complete
  <2> QED
    BY <2>2 DEF Promise!Next
<1> QED
  BY <1>2, <1>3, <1>4, <1>5, <1>6 DEF Handle

LEMMA PromiseNext ==
  KeyInv /\ [Next]_vars => [Promise!Next]_<<asked, ran, told>>
<1> SUFFICES ASSUME KeyInv, [Next]_vars
             PROVE  Promise!Next \/ UNCHANGED <<asked, ran, told>>
  OBVIOUS
<1>1. ASSUME NEW s \in Servers, NEW r \in Requests, NEW key \in Keys \cup {None},
             NEW web \in BOOLEAN, NEW body \in Bodies \cup Pages,
             Arrive(s, r, key, web, body)
      PROVE  Promise!Next \/ UNCHANGED <<asked, ran, told>>
  <2>1. asked' = [asked EXCEPT ![r] = key] /\ asked[r] = None /\ UNCHANGED <<ran, told>>
    BY <1>1, ArriveAsks
  <2>2. CASE key = None
    BY <2>1, <2>2 DEF asked
  <2>3. CASE key \in Keys
    <3>1. Promise!Ask(r, key)
      BY <2>1 DEF Promise!Ask, asked, ran, told
    <3> QED
      BY <2>3, <3>1 DEF Promise!Next
  <2> QED
    BY <2>2, <2>3
<1>2. ASSUME NEW r \in Requests, Handle(r)
      PROVE  Promise!Next \/ UNCHANGED <<asked, ran, told>>
  BY <1>2, HandleKeeps
<1>3. ASSUME NEW s \in Servers, Crash(s) PROVE UNCHANGED <<asked, ran, told>>
  BY <1>3 DEF Crash, asked, ran, told
<1>4. ASSUME NEW j \in Requests, JobEnds(j) PROVE UNCHANGED <<asked, ran, told>>
  BY <1>4 DEF JobEnds, asked, ran, told
<1>5. CASE UNCHANGED vars
  BY <1>5 DEF vars, asked, ran, told
<1> QED
  BY <1>1, <1>2, <1>3, <1>4, <1>5 DEF Next

\* The handlers, with any number of processes and at any point where they may raise or
\* die, implement the promise of the Idempotency-Key.
THEOREM HandlersKeepPromise == Spec => KeepsPromise
<1>1. KeyInv /\ [Next]_vars => [Promise!Next]_<<asked, ran, told>>
  BY PromiseNext
<1> QED
  BY <1>1, KeyInit, KeyNext, PromiseInit, PTL
     DEF Spec, KeepsPromise, Promise!Spec, asked, ran, told
-----------------------------------------------------------------------------
(* A conflict is only answered to a key that stands for another request.    *)

\* The hash of a key's row is that of a request that came in with the key.
HashIsOfRequest ==
  \A k \in Keys :
    row[k] # NoRow => \E q \in Requests : req[q].key = k /\ row[k].hash = Hash(q)

\* Request r has a key that was also sent with something else.
Differs(r) ==
  /\ req[r].key # None
  /\ ~req[r].web => \E q \in Requests : /\ req[q].key = req[r].key
                                        /\ req[q].web \/ req[q].body # req[r].body

ConflictInv ==
  HashIsOfRequest /\ \A r \in Requests : answer[r].outcome = "conflict" => Differs(r)

\* A step that leaves the requests and the keys' rows as they are, and answers a conflict
\* only to a request that differs, keeps the invariant.
LEMMA ConflictQuiet ==
  ASSUME ConflictInv, UNCHANGED <<req, row>>,
         \A r \in Requests :
           answer'[r].outcome = "conflict" => answer[r].outcome = "conflict" \/ Differs(r)
  PROVE  ConflictInv'
  BY DEF ConflictInv, HashIsOfRequest, Hash, Differs

\* A handler that ends changes the answer of its request only.
LEMMA AnswerOf ==
  ASSUME TypeOK, NEW r \in Requests, NEW o, NEW j, Answer(r, o, j)
  PROVE  answer'[r].outcome = o /\ \A q \in Requests \ {r} : answer'[q] = answer[q]
  BY DEF Answer, TypeOK

LEMMA AnswerQuiet ==
  ASSUME TypeOK, ConflictInv, NEW r \in Requests, NEW o, o # "conflict", NEW j,
         Answer(r, o, j), UNCHANGED <<req, row>>
  PROVE  ConflictInv'
<1>1. \A q \in Requests : answer'[q].outcome = "conflict" => answer[q].outcome = "conflict"
  BY AnswerOf
<1> QED
  BY <1>1, ConflictQuiet

LEMMA ArriveConflict ==
  ASSUME KeyInv, ConflictInv, NEW s \in Servers, NEW r \in Requests,
         NEW key \in Keys \cup {None}, NEW web \in BOOLEAN, NEW body \in Bodies \cup Pages,
         Arrive(s, r, key, web, body)
  PROVE  ConflictInv'
<1>1. req[r].key = None /\ answer[r].outcome # "conflict"
  BY DEF Arrive, KeyInv, Progress, NoRequest, NoAnswer
<1>2. UNCHANGED <<row, answer>> /\ \A q \in Requests \ {r} : req'[q] = req[q]
  BY DEF Arrive, KeyInv, TypeOK
<1>3. HashIsOfRequest'
  <2> SUFFICES ASSUME NEW k \in Keys, row[k] # NoRow
               PROVE  \E q \in Requests : req'[q].key = k /\ row[k].hash = Hash(q)'
    BY <1>2 DEF HashIsOfRequest
  <2>1. PICK q \in Requests : req[q].key = k /\ row[k].hash = Hash(q)
    BY DEF ConflictInv, HashIsOfRequest
  <2>2. q # r
    BY <1>1, <2>1, NoneAssumption
  <2> QED
    BY <1>2, <2>1, <2>2 DEF Hash
<1>4. ASSUME NEW p \in Requests, answer'[p].outcome = "conflict" PROVE Differs(p)'
  <2>1. p # r /\ Differs(p)
    BY <1>1, <1>2, <1>4 DEF ConflictInv
  <2> QED
    BY <1>1, <1>2, <2>1 DEF Differs
<1> QED
  BY <1>3, <1>4 DEF ConflictInv

\* A key's row holds the hash of the request that acquires it, and keeps it.
LEMMA RowConflict ==
  ASSUME KeyInv, ConflictInv, NEW r \in Requests, Acquire(r) \/ Complete(r)
  PROVE  ConflictInv'
<1>1. req' = req /\ req[r].key \in Keys
  BY KeyOf DEF Acquire, Complete, KeyInv, Progress
<1>2. \A q \in Requests :
        answer'[q].outcome = "conflict" => answer[q].outcome = "conflict"
  <2>1. CASE Acquire(r)
    BY <2>1 DEF Acquire
  <2>2. CASE Complete(r)
    <3>1. TypeOK /\ Answer(r, "created", r)
      BY <2>2 DEF Complete, KeyInv
    <3> QED
      BY <3>1, AnswerOf
  <2> QED
    BY <2>1, <2>2
<1>3. \A k \in Keys \ {req[r].key} : row'[k] = row[k]
  BY DEF Acquire, Complete, KeyInv, TypeOK
<1>4. \E q \in Requests : req[q].key = req[r].key /\ row'[req[r].key].hash = Hash(q)
  <2>1. CASE Acquire(r)
    BY <1>1, <2>1 DEF Acquire, KeyInv, TypeOK
  <2>2. CASE Complete(r)
    <3>1. RowOf(r) # NoRow
      BY <1>1, <2>2, NoneAssumption DEF Complete, KeyInv, OneHolder, Holding
    <3>2. row'[req[r].key].hash = RowOf(r).hash
      BY <1>1, <2>2 DEF Complete, RowOf, KeyInv, TypeOK
    <3> QED
      BY <1>1, <3>1, <3>2 DEF ConflictInv, HashIsOfRequest, RowOf
  <2> QED
    BY <2>1, <2>2
<1>5. HashIsOfRequest'
  BY <1>1, <1>3, <1>4 DEF ConflictInv, HashIsOfRequest, Hash
<1> QED
  BY <1>1, <1>2, <1>5 DEF ConflictInv, Differs

\* A request that is refused differs from the one whose hash the row has.
LEMMA RefusedDiffers ==
  ASSUME KeyInv, ConflictInv, NEW r \in Requests, Conflict(r)
  PROVE  Differs(r)
<1>1. req[r].key \in Keys /\ req[r].key # None
  BY KeyOf DEF Conflict, KeyInv, Progress
<1>2. PICK q \in Requests : req[q].key = req[r].key /\ RowOf(r).hash = Hash(q)
  BY <1>1 DEF Conflict, RowOf, ConflictInv, HashIsOfRequest
<1>3. Hash(q) # Hash(r)
  BY <1>2 DEF Conflict
<1>4. ~req[r].web => req[q].web \/ req[q].body # req[r].body
  BY <1>3 DEF Hash
<1> QED
  BY <1>1, <1>2, <1>4 DEF Differs

LEMMA HandleConflict ==
  ASSUME KeyInv, ConflictInv, NEW r \in Requests, Handle(r)
  PROVE  ConflictInv'
<1>1. CASE Acquire(r) \/ Complete(r)
  BY <1>1, RowConflict
<1>2. CASE Conflict(r)
  BY <1>2, RefusedDiffers, AnswerOf, ConflictQuiet DEF Conflict, KeyInv
<1>3. CASE Replay(r) \/ InProgress(r) \/ AtLimit(r) \/ Raise(r)
  <2>1. UNCHANGED <<req, row>>
    BY <1>3 DEF Replay, InProgress, AtLimit, Raise
  <2>2. \E o \in Outcomes \ {"conflict"}, j \in Requests \cup {NoJob, RowOf(r).job} : Answer(r, o, j)
    BY <1>3 DEF Replay, InProgress, AtLimit, Raise, Outcomes
  <2>3. TypeOK
    BY DEF KeyInv
  <2> QED
    BY <2>1, <2>2, <2>3, AnswerQuiet
<1>4. CASE BelowLimit(r)
  BY <1>4, ConflictQuiet DEF BelowLimit
<1>5. CASE InsertJob(r)
  <2>1. UNCHANGED <<req, row>> /\ (answer' = answer \/ Answer(r, "created", r))
    BY <1>5 DEF InsertJob
  <2>2. CASE answer' = answer
    BY <2>1, <2>2, ConflictQuiet
  <2>3. CASE Answer(r, "created", r)
    <3>1. TypeOK /\ "created" # "conflict"
      BY DEF KeyInv
    <3> QED
      BY <2>1, <2>3, <3>1, AnswerQuiet
  <2> QED
    BY <2>1, <2>2, <2>3
<1> QED
  BY <1>1, <1>2, <1>3, <1>4, <1>5 DEF Handle

LEMMA ConflictNext == KeyInv /\ ConflictInv /\ [Next]_vars => ConflictInv'
<1> SUFFICES ASSUME KeyInv, ConflictInv, [Next]_vars PROVE ConflictInv'
  OBVIOUS
<1>1. ASSUME NEW s \in Servers, NEW r \in Requests, NEW key \in Keys \cup {None},
             NEW web \in BOOLEAN, NEW body \in Bodies \cup Pages,
             Arrive(s, r, key, web, body)
      PROVE  ConflictInv'
  BY <1>1, ArriveConflict
<1>2. ASSUME NEW r \in Requests, Handle(r) PROVE ConflictInv'
  BY <1>2, HandleConflict
<1>3. CASE (\E s \in Servers : Crash(s)) \/ (\E j \in Requests : JobEnds(j)) \/ UNCHANGED vars
  BY <1>3, ConflictQuiet DEF Crash, JobEnds, vars
<1> QED
  BY <1>1, <1>2, <1>3 DEF Next

\* A create request is refused as a conflict only when its key was sent with another body
\* or by a web import, in any number of requests, repeats, crashes and servers.
THEOREM ConflictsAreJustified == Spec => []ConflictIsJustified
<1>1. Init => ConflictInv
  BY DEF Init, ConflictInv, HashIsOfRequest, NoAnswer
<1>2. ConflictInv => ConflictIsJustified
  BY DEF ConflictInv, Differs, ConflictIsJustified
<1> QED
  BY <1>1, <1>2, ConflictNext, KeyInit, KeyNext, PTL DEF Spec

-----------------------------------------------------------------------------
(* The limit, with several server processes.                                *)

\* The servers whose request has passed the limit and has not inserted its job yet.
Passed == {s \in Servers : \E r \in Requests : at[r] = s /\ pc[r] = "insert"}

\* A server serves one request at a time.
OneServed == \A q, r \in Requests : at[q] = at[r] /\ at[q] # None => q = r

\* Each server past the limit takes one of the places there are for servers but the last.
PassedFit ==
  Cardinality(active) + Cardinality(Passed) <= MaxActive + Cardinality(Servers) - 1

LimitInv == OneServed /\ PassedFit

LEMMA CountsAreFinite ==
  ASSUME TypeOK
  PROVE  /\ IsFiniteSet(active) /\ Cardinality(active) \in Nat
         /\ IsFiniteSet(Passed) /\ Cardinality(Passed) \in Nat
         /\ Cardinality(Passed) <= Cardinality(Servers)
         /\ Cardinality(Servers) \in Nat /\ MaxActive \in Nat
<1>1. IsFiniteSet(Requests)
  BY FS_Interval, BoundsAssumption, SMT DEF Requests
<1>2. active \subseteq Requests /\ Passed \subseteq Servers
  BY DEF TypeOK, Passed
<1> QED
  BY <1>1, <1>2, FS_Subset, FS_CardinalityType, ServersAssumption, BoundsAssumption

\* A step that neither adds an active job nor lets a request pass keeps the limit.
LEMMA FitShrinks ==
  ASSUME TypeOK, PassedFit, active' \subseteq active, Passed' \subseteq Passed
  PROVE  PassedFit'
<1>1. /\ IsFiniteSet(active') /\ Cardinality(active') <= Cardinality(active)
      /\ IsFiniteSet(Passed') /\ Cardinality(Passed') <= Cardinality(Passed)
  BY CountsAreFinite, FS_Subset
<1>2. Cardinality(active') \in Nat /\ Cardinality(Passed') \in Nat
  BY <1>1, FS_CardinalityType
<1> QED
  BY <1>1, <1>2, CountsAreFinite, SMT DEF PassedFit

\* Where requests are served and how far they have come changes for one that ends.
LEMMA EndKeepsLimit ==
  ASSUME TypeOK, LimitInv, NEW r \in Requests, NEW o, NEW j, Answer(r, o, j),
         active' \subseteq active
  PROVE  LimitInv'
<1>1. \A q \in Requests : /\ at'[q] = IF q = r THEN None ELSE at[q]
                          /\ pc'[q] = IF q = r THEN "done" ELSE pc[q]
  BY DEF Answer, TypeOK
<1>2. OneServed'
  BY <1>1 DEF LimitInv, OneServed
<1>3. Passed' \subseteq Passed
  BY <1>1 DEF Passed
<1> QED
  BY <1>2, <1>3, FitShrinks DEF LimitInv

LEMMA PassLimit ==
  ASSUME TypeOK, LimitInv, NEW r \in Requests, BelowLimit(r)
  PROVE  LimitInv'
<1>1. UNCHANGED <<at, active>> /\ Cardinality(active) < MaxActive
  BY DEF BelowLimit
<1>2. OneServed'
  BY <1>1 DEF LimitInv, OneServed
<1>3. Passed' \subseteq Servers
  BY DEF Passed
<1>4. Cardinality(Passed') <= Cardinality(Servers) /\ Cardinality(Passed') \in Nat
  BY <1>3, FS_Subset, FS_CardinalityType, ServersAssumption
<1>5. PassedFit'
  BY <1>1, <1>4, CountsAreFinite, SMT DEF PassedFit
<1> QED
  BY <1>2, <1>5 DEF LimitInv

\* A job that is inserted takes the place its server had.
LEMMA InsertLimit ==
  ASSUME KeyInv, LimitInv, NEW r \in Requests, InsertJob(r)
  PROVE  LimitInv'
<1>1. TypeOK /\ at[r] \in Servers /\ pc[r] = "insert" /\ r \notin active /\ at[r] # None
  BY NoneAssumption DEF KeyInv, TypeOK, Progress, InsertJob
<1>2. \A q \in Requests : at'[q] \in {at[q], None}
  BY <1>1 DEF InsertJob, Answer, TypeOK
<1>3. pc'[r] # "insert" /\ \A q \in Requests \ {r} : pc'[q] = pc[q] /\ at'[q] = at[q]
  BY <1>1 DEF InsertJob, Answer, TypeOK
<1>4. OneServed'
  BY <1>2 DEF LimitInv, OneServed
<1>5. Passed' \subseteq Passed \ {at[r]}
  BY <1>1, <1>3 DEF LimitInv, OneServed, Passed
<1>6. at[r] \in Passed
  BY <1>1 DEF Passed
<1>7. /\ IsFiniteSet(Passed \ {at[r]})
      /\ Cardinality(Passed \ {at[r]}) = Cardinality(Passed) - 1
  BY <1>1, <1>6, CountsAreFinite, FS_RemoveElement
<1>8. Cardinality(Passed') <= Cardinality(Passed) - 1 /\ Cardinality(Passed') \in Nat
  BY <1>5, <1>7, FS_Subset, FS_CardinalityType
<1>9. Cardinality(active') = Cardinality(active) + 1
  <2>1. active' = active \cup {r}
    BY DEF InsertJob
  <2> QED
    BY <1>1, <2>1, CountsAreFinite, FS_AddElement
<1>10. PassedFit'
  BY <1>1, <1>8, <1>9, CountsAreFinite, SMT DEF LimitInv, PassedFit
<1> QED
  BY <1>4, <1>10 DEF LimitInv

LEMMA HandleLimit ==
  ASSUME KeyInv, LimitInv, NEW r \in Requests, Handle(r)
  PROVE  LimitInv'
<1>1. TypeOK
  BY DEF KeyInv
<1>2. CASE Acquire(r)
  <2>1. /\ UNCHANGED <<at, active>>
        /\ \A q \in Requests : pc'[q] = IF q = r THEN "limit" ELSE pc[q]
    BY <1>1, <1>2 DEF Acquire, TypeOK
  <2>2. OneServed' /\ Passed' \subseteq Passed
    BY <2>1 DEF LimitInv, OneServed, Passed
  <2> QED
    BY <1>1, <2>1, <2>2, FitShrinks DEF LimitInv
<1>3. CASE Conflict(r) \/ Replay(r) \/ InProgress(r) \/ AtLimit(r) \/ Complete(r) \/ Raise(r)
  <2>1. active' = active
        /\ \E o \in Outcomes, j \in {NoJob, r, RowOf(r).job} : Answer(r, o, j)
    BY <1>3 DEF Conflict, Replay, InProgress, AtLimit, Complete, Raise, Outcomes
  <2> QED
    BY <1>1, <2>1, EndKeepsLimit
<1>4. CASE BelowLimit(r)
  BY <1>1, <1>4, PassLimit
<1>5. CASE InsertJob(r)
  BY <1>5, InsertLimit
<1> QED
  BY <1>2, <1>3, <1>4, <1>5 DEF Handle

LEMMA LimitNext == KeyInv /\ LimitInv /\ [Next]_vars => LimitInv'
<1> SUFFICES ASSUME KeyInv, TypeOK, LimitInv, [Next]_vars PROVE LimitInv'
  BY DEF KeyInv
<1>1. ASSUME NEW s \in Servers, NEW r \in Requests, NEW key \in Keys \cup {None},
             NEW web \in BOOLEAN, NEW body \in Bodies \cup Pages,
             Arrive(s, r, key, web, body)
      PROVE  LimitInv'
  <2>1. /\ \A q \in Requests : at'[q] = IF q = r THEN s ELSE at[q]
        /\ \A q \in Requests \ {r} : pc'[q] = pc[q]
        /\ pc'[r] # "insert" /\ active' = active /\ \A q \in Requests : at[q] # s
    BY <1>1 DEF Arrive, TypeOK, Busy
  <2>2. OneServed'
    BY <2>1 DEF LimitInv, OneServed
  <2>3. Passed' \subseteq Passed
    BY <2>1 DEF Passed
  <2> QED
    BY <2>1, <2>2, <2>3, FitShrinks DEF LimitInv
<1>2. ASSUME NEW r \in Requests, Handle(r) PROVE LimitInv'
  BY <1>2, HandleLimit
<1>3. ASSUME NEW s \in Servers, Crash(s) PROVE LimitInv'
  <2>1. /\ active' = active
        /\ \A q \in Requests : /\ at'[q] = IF at[q] = s THEN None ELSE at[q]
                               /\ pc'[q] = IF at[q] = s THEN "done" ELSE pc[q]
    BY <1>3 DEF Crash
  <2>2. OneServed' /\ Passed' \subseteq Passed
    BY <2>1 DEF LimitInv, OneServed, Passed
  <2> QED
    BY <2>1, <2>2, FitShrinks DEF LimitInv
<1>4. CASE (\E j \in Requests : JobEnds(j)) \/ UNCHANGED vars
  <2>1. UNCHANGED <<at, pc>> /\ active' \subseteq active
    BY <1>4 DEF JobEnds, vars
  <2>2. OneServed' /\ Passed' \subseteq Passed
    BY <2>1 DEF LimitInv, OneServed, Passed
  <2> QED
    BY <2>1, <2>2, FitShrinks DEF LimitInv
<1> QED
  BY <1>1, <1>2, <1>3, <1>4 DEF Next

\* With any number of server processes, each but one can push the number of active jobs
\* at most one above the limit, however their requests interleave, raise and die.
THEOREM LimitHoldsPerServer == Spec => []LimitPerServer
<1>1. Init => LimitInv
  <2> SUFFICES ASSUME Init PROVE LimitInv
    OBVIOUS
  <2>1. OneServed /\ Passed = {} /\ active = {}
    BY DEF Init, OneServed, Passed
  <2>2. Cardinality(Servers) \in Nat /\ Cardinality(Servers) # 0
    BY ServersAssumption, FS_CardinalityType, FS_EmptySet
  <2>3. PassedFit
    BY <2>1, <2>2, FS_EmptySet, BoundsAssumption, SMT DEF PassedFit
  <2> QED
    BY <2>1, <2>3 DEF LimitInv
<1>2. KeyInv /\ LimitInv => LimitPerServer
  <2> SUFFICES ASSUME TypeOK, PassedFit PROVE LimitPerServer
    BY DEF KeyInv, LimitInv
  <2> QED
    BY CountsAreFinite, SMT DEF PassedFit, LimitPerServer
<1> QED
  BY <1>1, <1>2, LimitNext, KeyInit, KeyNext, PTL DEF Spec
=============================================================================
