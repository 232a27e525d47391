---------------------------- MODULE Conversation ----------------------------
(***************************************************************************)
(* The requests of ConversationService about its conversations: messages   *)
(* sent and streamed, cancellations, deletions, over the PostgreSQL        *)
(* conversation repository.                                                *)
(*                                                                         *)
(* The service is one object in one event loop.  A request is a coroutine, *)
(* and others run only where it awaits: at the service's asyncio.Lock, in  *)
(* retrieval, in the model call, between the events of a stream.  A        *)
(* repository call does not await and is part of the step it is made in.   *)
(* send_message holds the lock from its first check to the end; the        *)
(* critical sections of stream_message and cancel_message do not await, so *)
(* each is one step, taken while no send is under way.                     *)
(*                                                                         *)
(* Requests are numbered.  The answer (assistant message) a request stores *)
(* carries the request's number, and so does the user message before it.   *)
(***************************************************************************)
EXTENDS Integers, Sequences, FiniteSets

CONSTANTS
  Convs,        \* conversations
  None,         \* no conversation
  MaxRequests,  \* bound: requests to send, stream or cancel
  MaxFaults     \* bound: abandoned streams and crashes

ASSUME BoundsAssumption == MaxRequests \in Nat /\ MaxFaults \in Nat
ASSUME NoneAssumption == None \notin Convs

Requests == 1 .. MaxRequests
NoRequest == 0

VARIABLES
  kind,     \* what each request asks for: send, stream or cancel
  conv,     \* the conversation it is about
  target,   \* the request whose answer a cancel is about
  guarded,  \* streams that are answered with the guard's safe_response
  pc,       \* how far each request has come
  told,     \* what its client was told
  deleted,  \* conversations whose status is deleted
  message,  \* t_fact_message.status of each request's answer, none before it is stored
  born,     \* each conversation's messages in the order of created_at
  active,   \* _active_generations: the request of the entry
  event,    \* streams whose cancel_event is set
  faults    \* spent bound

reqVars == <<kind, conv, target>>
vars == <<reqVars, guarded, pc, told, deleted, message, born, active, event, faults>>

Init ==
  /\ kind = [r \in Requests |-> "none"]
  /\ conv = [r \in Requests |-> None]
  /\ target = [r \in Requests |-> NoRequest]
  /\ guarded = {}
  /\ pc = [r \in Requests |-> "new"]
  /\ told = [r \in Requests |-> "none"]
  /\ deleted = {}
  /\ message = [r \in Requests |-> "none"]
  /\ born = [c \in Convs |-> <<>>]
  /\ active = [c \in Convs |-> NoRequest]
  /\ event = {}
  /\ faults = 0

\* Variant: send_message gives the lock back while it waits for the model.
LockFree_InModel == \A r \in Requests : pc[r] # "retrieve"

\* The lock is held across an await only by a send.
LockFree == \A r \in Requests : pc[r] \notin {"retrieve", "model"}

\* Request r has the lock for its first step.
Enters(r, k) == pc[r] = "wait" /\ kind[r] = k /\ LockFree

\* Variant: the entry is not asked for.
Open_Busy(c) == c \notin deleted

\* What lets a message into the conversation.
Open(c) == c \notin deleted /\ active[c] = NoRequest

Ends(r, outcome) ==
  /\ pc' = [pc EXCEPT ![r] = "done"]
  /\ told' = [told EXCEPT ![r] = outcome]

Messages == [of : Requests, role : {"user", "assistant"}]
User(r) == [of |-> r, role |-> "user"]
Assistant(r) == [of |-> r, role |-> "assistant"]

-----------------------------------------------------------------------------
\* Request r comes in: its route looks the conversation up, except that of a stream,
\* and it goes to wait for the lock.  A client cancels an answer it has seen.
Arrive(r, k, c, q) ==
  /\ pc[r] = "new"
  /\ \A s \in 1 .. r - 1 : pc[s] # "new"
  /\ k = "send" => c \notin deleted
  /\ IF k = "cancel" THEN q \in Requests /\ conv[q] = c /\ message[q] # "none"
                     ELSE q = NoRequest
  /\ kind' = [kind EXCEPT ![r] = k]
  /\ conv' = [conv EXCEPT ![r] = c]
  /\ target' = [target EXCEPT ![r] = q]
  /\ pc' = [pc EXCEPT ![r] = "wait"]
  /\ UNCHANGED <<guarded, told, deleted, message, born, active, event, faults>>

\* send_message and stream_message: the conversation is gone, or its entry is there.
Refuse(r) ==
  /\ Enters(r, "send") \/ Enters(r, "stream")
  /\ ~Open(conv[r])
  /\ Ends(r, IF conv[r] \in deleted THEN "not found" ELSE "already running")
  /\ UNCHANGED <<reqVars, guarded, deleted, message, born, active, event, faults>>

\* send_message up to its first await, in retrieval or in the model call.
SendBegin(r) ==
  /\ Enters(r, "send")
  /\ Open(conv[r])
  /\ born' = [born EXCEPT ![conv[r]] = Append(@, User(r))]
  /\ \E next \in {"retrieve", "model"} : pc' = [pc EXCEPT ![r] = next]
  /\ UNCHANGED <<reqVars, guarded, told, deleted, message, active, event, faults>>

\* A send that the guard answers never awaits.
SendGuarded(r) ==
  /\ Enters(r, "send")
  /\ Open(conv[r])
  /\ born' = [born EXCEPT ![conv[r]] = @ \o <<User(r), Assistant(r)>>]
  /\ message' = [message EXCEPT ![r] = "completed"]
  /\ Ends(r, "answered")
  /\ UNCHANGED <<reqVars, guarded, deleted, active, event, faults>>

\* Retrieval has returned; the conversation is loaded again for the prompt.
SendRetrieved(r) ==
  /\ pc[r] = "retrieve"
  /\ IF conv[r] \in deleted
       THEN Ends(r, "error")
       ELSE pc' = [pc EXCEPT ![r] = "model"] /\ told' = told
  /\ UNCHANGED <<reqVars, guarded, deleted, message, born, active, event, faults>>

\* The model has answered; add_messages stores both messages, or raises because the
\* conversation was deleted meanwhile.
SendAnswered(r) ==
  /\ pc[r] = "model"
  /\ IF conv[r] \in deleted
       THEN Ends(r, "error") /\ UNCHANGED <<born, message>>
       ELSE /\ born' = [born EXCEPT ![conv[r]] = Append(@, Assistant(r))]
            /\ message' = [message EXCEPT ![r] = "completed"]
            /\ Ends(r, "answered")
  /\ UNCHANGED <<reqVars, guarded, deleted, active, event, faults>>

\* The model call raises OpenAIChatError, or something else does.
SendFails(r) ==
  /\ pc[r] \in {"retrieve", "model"}
  /\ Ends(r, "failed")
  /\ UNCHANGED <<reqVars, guarded, deleted, message, born, active, event, faults>>

-----------------------------------------------------------------------------
\* stream_message up to message.created: both messages are stored, the answer as
\* streaming, and the entry is made.
StreamBegin(r) ==
  /\ Enters(r, "stream")
  /\ Open(conv[r])
  /\ born' = [born EXCEPT ![conv[r]] = @ \o <<User(r), Assistant(r)>>]
  /\ message' = [message EXCEPT ![r] = "streaming"]
  /\ active' = [active EXCEPT ![conv[r]] = r]
  /\ guarded' \in {guarded, guarded \cup {r}}
  /\ pc' = [pc EXCEPT ![r] = "stream"]
  /\ UNCHANGED <<reqVars, told, deleted, event, faults>>

\* Variant: the last item of the model's stream is not followed by a check.
StreamFinish_Unchecked(r) ==
  /\ pc[r] = "stream"
  /\ message' = [message EXCEPT ![r] = "completed"]
  /\ pc' = [pc EXCEPT ![r] = "close"]
  /\ UNCHANGED <<reqVars, guarded, told, deleted, born, active, event, faults>>

\* The last item of the model's stream, which ends early once cancel_event is set; the
\* event is looked at there again, and the status is stored before the next await.
\* The guard's response is emitted to its end without a look at the event.
StreamFinish(r) ==
  /\ pc[r] = "stream"
  /\ message' = [message EXCEPT ![r] =
                   IF r \in event \ guarded THEN "cancelled" ELSE "completed"]
  /\ pc' = [pc EXCEPT ![r] = "close"]
  /\ UNCHANGED <<reqVars, guarded, told, deleted, born, active, event, faults>>

\* The model call raises OpenAIChatError.
StreamFails(r) ==
  /\ pc[r] = "stream"
  /\ r \notin guarded
  /\ message' = [message EXCEPT ![r] = "failed"]
  /\ pc' = [pc EXCEPT ![r] = "close"]
  /\ UNCHANGED <<reqVars, guarded, told, deleted, born, active, event, faults>>

\* Variant: the entry is left behind.
StreamClose_KeepsEntry(r) ==
  /\ pc[r] = "close" /\ LockFree
  /\ active' = active
  /\ Ends(r, message[r])
  /\ UNCHANGED <<reqVars, guarded, deleted, message, born, event, faults>>

\* After the last event the conversation's entry is dropped, under the lock.
StreamClose(r) ==
  /\ pc[r] = "close" /\ LockFree
  /\ active' = [active EXCEPT ![conv[r]] = NoRequest]
  /\ Ends(r, message[r])
  /\ UNCHANGED <<reqVars, guarded, deleted, message, born, event, faults>>

\* The client of a stream disconnects, which cancels the coroutine where it is, or
\* something else than OpenAIChatError raises in it: nothing is cleaned up.
Abandon(r) ==
  /\ kind[r] = "stream" /\ pc[r] \in {"wait", "stream", "close"}
  /\ faults < MaxFaults
  /\ faults' = faults + 1
  /\ pc' = [pc EXCEPT ![r] = "gone"]
  /\ UNCHANGED <<reqVars, guarded, told, deleted, message, born, active, event>>

-----------------------------------------------------------------------------
\* cancel_message: the conversation is gone, or the answer is settled.
CancelSettled(r) ==
  LET q == target[r] IN
    /\ Enters(r, "cancel")
    /\ conv[r] \in deleted \/ message[q] # "streaming"
    /\ Ends(r, CASE conv[r] \in deleted         -> "not found"
                 [] message[q] = "cancelled"    -> "cancelled"
                 [] OTHER                       -> "not cancellable")
    /\ UNCHANGED <<reqVars, guarded, deleted, message, born, active, event, faults>>

\* The answer is being streamed: its stream is told to stop.
CancelActive(r) ==
  LET q == target[r] IN
    /\ Enters(r, "cancel")
    /\ conv[r] \notin deleted /\ message[q] = "streaming"
    /\ active[conv[r]] = q
    /\ event' = event \cup {q}
    /\ Ends(r, "cancelled")
    /\ UNCHANGED <<reqVars, guarded, deleted, message, born, active, faults>>

\* Variant: the entry is not asked for; the answer is cancelled in the table.
CancelOrphan_Always(r) ==
  LET q == target[r] IN
    /\ Enters(r, "cancel")
    /\ conv[r] \notin deleted /\ message[q] = "streaming"
    /\ message' = [message EXCEPT ![q] = "cancelled"]
    /\ Ends(r, "cancelled")
    /\ UNCHANGED <<reqVars, guarded, deleted, born, active, event, faults>>

\* The answer is left over from before a restart: it is cancelled in the table.
CancelOrphan(r) ==
  LET q == target[r] IN
    /\ Enters(r, "cancel")
    /\ conv[r] \notin deleted /\ message[q] = "streaming"
    /\ active[conv[r]] # q
    /\ message' = [message EXCEPT ![q] = "cancelled"]
    /\ Ends(r, "cancelled")
    /\ UNCHANGED <<reqVars, guarded, deleted, born, active, event, faults>>

\* delete_conversation, without the lock: refused while an entry is there.  Its pop of
\* the entry finds none.
Delete(c) ==
  /\ Open(c)
  /\ deleted' = deleted \cup {c}
  /\ UNCHANGED <<reqVars, guarded, pc, told, message, born, active, event, faults>>

\* The process dies and is started again: requests and entries are gone.
Crash ==
  /\ faults < MaxFaults
  /\ faults' = faults + 1
  /\ pc' = [r \in Requests |-> IF pc[r] \in {"new", "done"} THEN pc[r] ELSE "gone"]
  /\ active' = [c \in Convs |-> NoRequest]
  /\ event' = {}
  /\ UNCHANGED <<reqVars, guarded, told, deleted, message, born>>

-----------------------------------------------------------------------------
Step(r) ==
  \/ Refuse(r)
  \/ SendBegin(r) \/ SendGuarded(r) \/ SendRetrieved(r) \/ SendAnswered(r) \/ SendFails(r)
  \/ StreamBegin(r) \/ StreamFinish(r) \/ StreamFails(r) \/ StreamClose(r)
  \/ CancelSettled(r) \/ CancelActive(r) \/ CancelOrphan(r)

Next ==
  \/ \E r \in Requests, k \in {"send", "stream", "cancel"}, c \in Convs :
       \E q \in Requests \cup {NoRequest} : Arrive(r, k, c, q)
  \/ \E r \in Requests : Step(r)
  \/ \E r \in Requests : Abandon(r)
  \/ \E c \in Convs : Delete(c)
  \/ Crash

Spec == Init /\ [][Next]_vars

(* Coroutines are scheduled, and retrieval and the model return or raise.   *)
Fairness == \A r \in Requests : WF_vars(Step(r))
FairSpec == Spec /\ Fairness

-----------------------------------------------------------------------------
(* Properties.                                                              *)

Settled == {"completed", "failed", "cancelled"}
Outcomes == Settled \cup {"none", "answered", "not found", "already running", "error",
                          "not cancellable"}

Types ==
  /\ kind \in [Requests -> {"none", "send", "stream", "cancel"}]
  /\ conv \in [Requests -> Convs \cup {None}]
  /\ target \in [Requests -> Requests \cup {NoRequest}]
  /\ guarded \subseteq Requests
  /\ pc \in [Requests -> {"new", "wait", "retrieve", "model", "stream", "close",
                          "done", "gone"}]
  /\ told \in [Requests -> Outcomes]
  /\ deleted \subseteq Convs
  /\ message \in [Requests -> Settled \cup {"none", "streaming"}]
  /\ born \in [Convs -> Seq(Messages)]
  /\ active \in [Convs -> Requests \cup {NoRequest}]
  /\ event \subseteq Requests
  /\ faults \in Nat

Lifecycle ==
  \A r \in Requests :
    /\ pc[r] = "new" <=> kind[r] = "none"
    /\ pc[r] # "new" => conv[r] \in Convs
    /\ kind[r] = "cancel" => target[r] \in Requests /\ message[target[r]] # "none"
    /\ pc[r] = "stream" => message[r] = "streaming"
    /\ pc[r] = "close" => message[r] \in Settled

\* The types of the variables; a request that has come in is about a conversation, a
\* cancel about an answer stored there, and the answer of a stream is streaming up to its
\* last item and settled from there on.
TypeOK == Types /\ Lifecycle

\* The requests that are generating an answer in conversation c.
Generating(c) ==
  {r \in Requests : conv[r] = c /\ pc[r] \in {"retrieve", "model", "stream", "close"}}

\* A conversation never has two answers in the making, sent or streamed, although a
\* stream is guarded by its entry and a send by the lock.
OneGeneration == \A c \in Convs : Cardinality(Generating(c)) <= 1

\* The messages conversation c shows, by their place in created_at's order.
Shown(c) == {i \in 1 .. Len(born[c]) : message[born[c][i].of] # "none"}

\* A user message is followed by its answer, and nothing is shown between them.
Turn(c, i, j) ==
  /\ i < j /\ \A k \in Shown(c) : ~(i < k /\ k < j)
  /\ born[c][j].role = "assistant" /\ born[c][i] = User(born[c][j].of)

\* The history a conversation shows, ordered by created_at, is a sequence of whole
\* turns: every user message is directly followed by the answer to it, although a send
\* creates its two messages before and after the awaits.
TurnsAreWhole ==
  \A c \in Convs : \A i \in Shown(c) : \E j \in Shown(c) : Turn(c, i, j) \/ Turn(c, j, i)

\* No stream runs in a deleted conversation, and no entry is left of one.
DeletedIsQuiet ==
  \A c \in deleted :
    active[c] = NoRequest /\ \A r \in Generating(c) : kind[r] = "send"

\* A client that was told that its cancel took effect never finds the answer completed,
\* unless the guard gave it.
CancelIsHonoured ==
  \A r \in Requests :
    kind[r] = "cancel" /\ told[r] = "cancelled" /\ target[r] \notin guarded =>
      message[target[r]] # "completed"

\* A settled answer keeps its status: neither a stream that goes on after its answer was
\* cancelled nor a late cancel writes over it.
AnswerIsFinal ==
  [][\A r \in Requests : message[r] \in Settled => message'[r] = message[r]]_vars

\* As long as no stream was abandoned and the process stayed up, every conversation
\* becomes free for the next message, although the end of its stream waits for the lock
\* that sends in other conversations hold.
ConversationIsFreed ==
  \A c \in Convs : active[c] # NoRequest ~> active[c] = NoRequest \/ faults > 0

\* One answer at a time is made in a conversation, and none in a deleted one (send_message,
\* stream_message, delete_conversation).
GeneratesAlone == OneGeneration /\ DeletedIsQuiet
=============================================================================
