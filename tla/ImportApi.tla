------------------------------ MODULE ImportApi -----------------------------
(***************************************************************************)
(* The requests that create import jobs, with their Idempotency-Key: the   *)
(* handlers of POST import-jobs, POST :retry and POST web-imports, down to *)
(* the idempotency and job tables.                                         *)
(*                                                                         *)
(* A handler runs in the event loop of a server process and never awaits   *)
(* between its database calls, so one process serves one such request at a *)
(* time.  The code is deployed as one process; the tables are written for  *)
(* several (INSERT ... ON CONFLICT DO NOTHING), so Servers is a parameter. *)
(* Every database call is a transaction and a step of its own, and the     *)
(* process can die, or the call can raise, at each of them.                *)
(*                                                                         *)
(* Requests are numbered in the order they come in.  A client that repeats *)
(* a request (no answer, an error, a limit) is a further request with the  *)
(* same key.  All requests are one user's, into one knowledge base: the    *)
(* key's row is unique per user.  A create body also stands for a retry:   *)
(* past the check of the source job the two handlers make the same calls.  *)
(* A request creates at most one job, which carries the request's number.  *)
(***************************************************************************)
EXTENDS Integers, FiniteSets

CONSTANTS
  Servers,      \* server processes
  Keys,         \* values of the Idempotency-Key header
  Bodies,       \* bodies of create and retry requests
  Pages,        \* bodies of web imports
  None,         \* no key, no body, no server
  MaxRequests,  \* bound: requests
  MaxActive,    \* MAX_ACTIVE_IMPORTS_PER_KB
  MaxFaults     \* bound: calls that raise, and crashes

ASSUME BoundsAssumption ==
  MaxRequests \in Nat /\ MaxActive \in Nat /\ MaxFaults \in Nat
ASSUME ServersAssumption == IsFiniteSet(Servers) /\ Servers # {}
ASSUME NoneAssumption == None \notin Keys \cup Bodies \cup Pages \cup Servers

Requests == 1 .. MaxRequests
NoJob == 0

VARIABLES
  req,      \* each request's key, whether it is a web import, and its body
  pc,       \* how far each request has come
  at,       \* the server that runs each request's handler
  row,      \* t_fact_idempotency_key: each key's request_hash and response
  made,     \* requests that created their job
  active,   \* jobs whose status is queued or running
  answer,   \* what each client got: an outcome and a job
  faults    \* spent bound

vars == <<req, pc, at, row, made, active, answer, faults>>

NoRequest == [key |-> None, web |-> FALSE, body |-> None]
NoAnswer == [outcome |-> "none", job |-> NoJob]
NoHash == [body |-> None, file |-> 0]
NoRow == [hash |-> NoHash, job |-> NoJob]

RowOf(r) == row[req[r].key]
Busy(s) == \E r \in Requests : at[r] = s

\* Variant: something of the single request, such as a timestamp, is hashed.
Hash_PerRequest(r) == [body |-> IF req[r].web THEN None ELSE req[r].body, file |-> r]

\* The request_hash.  A create request is hashed by its body.  A web import is
\* hashed as the create request it makes, whose fileIds is the file registered
\* a moment ago for this very request; the url is not part of the hash.
Hash(r) == IF req[r].web THEN [body |-> None, file |-> r]
           ELSE [body |-> req[r].body, file |-> 0]

Init ==
  /\ req = [r \in Requests |-> NoRequest]
  /\ pc = [r \in Requests |-> "new"]
  /\ at = [r \in Requests |-> None]
  /\ row = [k \in Keys |-> NoRow]
  /\ made = {}
  /\ active = {}
  /\ answer = [r \in Requests |-> NoAnswer]
  /\ faults = 0

-----------------------------------------------------------------------------
\* Request r reaches an idle server.  The handler of a web import fetches the
\* page and registers it as a file before it creates the job.  A request without
\* a key starts at the limit.
Arrive(s, r, key, web, body) ==
  /\ pc[r] = "new"
  /\ \A q \in 1 .. r - 1 : pc[q] # "new"
  /\ ~Busy(s)
  /\ body \in (IF web THEN Pages ELSE Bodies)
  /\ req' = [req EXCEPT ![r] = [key |-> key, web |-> web, body |-> body]]
  /\ pc' = [pc EXCEPT ![r] = IF key = None THEN "limit" ELSE "acquire"]
  /\ at' = [at EXCEPT ![r] = s]
  /\ UNCHANGED <<row, made, active, answer, faults>>

\* The handler of r ends and the client gets its answer.
Answer(r, outcome, job) ==
  /\ pc' = [pc EXCEPT ![r] = "done"]
  /\ at' = [at EXCEPT ![r] = None]
  /\ answer' = [answer EXCEPT ![r] = [outcome |-> outcome, job |-> job]]

\* Variant: a key without a response is taken over.
Acquire_TakesOver(r) ==
  /\ pc[r] = "acquire"
  /\ RowOf(r).job = NoJob
  /\ row' = [row EXCEPT ![req[r].key] = [hash |-> Hash(r), job |-> NoJob]]
  /\ pc' = [pc EXCEPT ![r] = "limit"]
  /\ UNCHANGED <<req, at, made, active, answer, faults>>

\* acquire: the INSERT found no row of the key and wrote one.
Acquire(r) ==
  /\ pc[r] = "acquire"
  /\ RowOf(r) = NoRow
  /\ row' = [row EXCEPT ![req[r].key] = [hash |-> Hash(r), job |-> NoJob]]
  /\ pc' = [pc EXCEPT ![r] = "limit"]
  /\ UNCHANGED <<req, at, made, active, answer, faults>>

\* acquire: the key stands for another request.
Conflict(r) ==
  /\ pc[r] = "acquire"
  /\ RowOf(r) # NoRow
  /\ RowOf(r).hash # Hash(r)
  /\ Answer(r, "conflict", NoJob)
  /\ UNCHANGED <<req, row, made, active, faults>>

\* acquire: the response is there and is given again.
Replay(r) ==
  /\ pc[r] = "acquire"
  /\ RowOf(r).hash = Hash(r)
  /\ RowOf(r).job # NoJob
  /\ Answer(r, "replayed", RowOf(r).job)
  /\ UNCHANGED <<req, row, made, active, faults>>

\* acquire: the key stands for this request and has no response.
InProgress(r) ==
  /\ pc[r] = "acquire"
  /\ RowOf(r).hash = Hash(r)
  /\ RowOf(r).job = NoJob
  /\ Answer(r, "in progress", NoJob)
  /\ UNCHANGED <<req, row, made, active, faults>>

\* Variant: the limit is compared with > instead of >=.
BelowLimit_OffByOne(r) ==
  /\ pc[r] = "limit"
  /\ Cardinality(active) <= MaxActive
  /\ pc' = [pc EXCEPT ![r] = "insert"]
  /\ UNCHANGED <<req, at, row, made, active, answer, faults>>

\* _ensure_import_concurrency lets the request pass ...
BelowLimit(r) ==
  /\ pc[r] = "limit"
  /\ Cardinality(active) < MaxActive
  /\ pc' = [pc EXCEPT ![r] = "insert"]
  /\ UNCHANGED <<req, at, row, made, active, answer, faults>>

\* ... or refuses it; the key's row stays as it is.
AtLimit(r) ==
  /\ pc[r] = "limit"
  /\ Cardinality(active) >= MaxActive
  /\ Answer(r, "limit", NoJob)
  /\ UNCHANGED <<req, row, made, active, faults>>

\* Variant: the client is answered before the response is stored.
InsertJob_AnswersFirst(r) ==
  /\ pc[r] = "insert"
  /\ made' = made \cup {r}
  /\ active' = active \cup {r}
  /\ Answer(r, "created", r)
  /\ UNCHANGED <<req, row, faults>>

\* ImportJobRepository.create.  Without a key this is the answer.
InsertJob(r) ==
  /\ pc[r] = "insert"
  /\ made' = made \cup {r}
  /\ active' = active \cup {r}
  /\ IF req[r].key = None
       THEN Answer(r, "created", r)
       ELSE /\ pc' = [pc EXCEPT ![r] = "complete"]
            /\ UNCHANGED <<at, answer>>
  /\ UNCHANGED <<req, row, faults>>

\* _complete_idempotency stores the response, and the client gets it.  Nothing
\* deletes the row or changes its hash, so the read before the UPDATE finds them.
Complete(r) ==
  /\ pc[r] = "complete"
  /\ row' = [row EXCEPT ![req[r].key].job = r]
  /\ Answer(r, "created", r)
  /\ UNCHANGED <<req, made, active, faults>>

\* A database call of the handler raises: the client gets an error, what was
\* committed before stays.
Raise(r) ==
  /\ pc[r] \in {"acquire", "limit", "insert", "complete"}
  /\ faults < MaxFaults
  /\ faults' = faults + 1
  /\ Answer(r, "error", NoJob)
  /\ UNCHANGED <<req, row, made, active>>

\* A server process dies with the handler it runs; the client gets no answer.
Crash(s) ==
  /\ Busy(s)
  /\ faults < MaxFaults
  /\ faults' = faults + 1
  /\ pc' = [r \in Requests |-> IF at[r] = s THEN "done" ELSE pc[r]]
  /\ at' = [r \in Requests |-> IF at[r] = s THEN None ELSE at[r]]
  /\ UNCHANGED <<req, row, made, active, answer>>

\* A job is completed, failed or cancelled, as ImportJob has it.
JobEnds(j) ==
  /\ j \in active
  /\ active' = active \ {j}
  /\ UNCHANGED <<req, pc, at, row, made, answer, faults>>

Handle(r) ==
  \/ Acquire(r) \/ Conflict(r) \/ Replay(r) \/ InProgress(r)
  \/ BelowLimit(r) \/ AtLimit(r) \/ InsertJob(r) \/ Complete(r) \/ Raise(r)

Next ==
  \/ \E s \in Servers, r \in Requests, key \in Keys \cup {None}, web \in BOOLEAN :
       \E body \in Bodies \cup Pages : Arrive(s, r, key, web, body)
  \/ \E r \in Requests : Handle(r)
  \/ \E s \in Servers : Crash(s)
  \/ \E j \in Requests : JobEnds(j)

Spec == Init /\ [][Next]_vars

-----------------------------------------------------------------------------
(* Properties.                                                              *)

Outcomes == {"none", "created", "replayed", "conflict", "in progress", "limit", "error"}
Hashes == [body : Bodies \cup {None}, file : Nat]

\* The types of the variables; a handler runs on a server as long as its request is
\* neither new nor done.
TypeOK ==
  /\ req \in [Requests -> [key : Keys \cup {None}, web : BOOLEAN,
                           body : Bodies \cup Pages \cup {None}]]
  /\ pc \in [Requests -> {"new", "acquire", "limit", "insert", "complete", "done"}]
  /\ at \in [Requests -> Servers \cup {None}]
  /\ \A r \in Requests : at[r] = None <=> pc[r] \in {"new", "done"}
  /\ row \in [Keys -> [hash : Hashes, job : Requests \cup {NoJob}]]
  /\ made \subseteq Requests /\ active \subseteq made
  /\ answer \in [Requests -> [outcome : Outcomes, job : Requests \cup {NoJob}]]
  /\ faults \in Nat

\* However requests interleave, raise, crash and are repeated, the keys keep what
\* OnceOnly promises: a key creates at most one job, and whoever is told of a job
\* under the key is told of that one.
Promise == INSTANCE OnceOnly WITH
  Requests <- Requests, Keys <- Keys, NoKey <- None, Jobs <- Requests,
  asked <- [r \in Requests |-> req[r].key],
  ran <- [k \in Keys |-> {r \in made : req[r].key = k}],
  told <- [r \in Requests |-> IF req[r].key = None \/ answer[r].job = NoJob THEN {}
                              ELSE {answer[r].job}]
KeepsPromise == Promise!Spec

\* A client that was answered with a job has it stored under its key: whatever
\* happened in between, the same create request sent again is answered with that job.
AnsweredIsStored ==
  \A r \in Requests :
    req[r].key # None /\ answer[r].job # NoJob => RowOf(r).job = answer[r].job

\* A create request is refused with a conflict only if its key was also sent with
\* another body, or by a web import.
ConflictIsJustified ==
  \A r \in Requests :
    answer[r].outcome = "conflict" /\ ~req[r].web =>
      \E q \in Requests : /\ req[q].key = req[r].key
                          /\ req[q].web \/ req[q].body # req[r].body

\* The limit is read before the job is inserted: with one server process it holds,
\* each further process can push the number of active jobs one above it.
LimitPerServer == Cardinality(active) <= MaxActive + Cardinality(Servers) - 1
=============================================================================
