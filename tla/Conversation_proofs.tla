------------------------- MODULE Conversation_proofs -------------------------
(***************************************************************************)
(* Theorems about Conversation and their proofs: they hold for any number  *)
(* of conversations, requests and faults.                                  *)
(***************************************************************************)
EXTENDS Conversation, FiniteSetTheorems, TLAPS

\* Steps of a send that awaits with the lock, and of a stream that has its entry.
Sending == {"retrieve", "model"}
Streaming == {"stream", "close"}

\* A request has no answer stored before its last step as a send, its first as a stream;
\* it is told something when it ends; an answer is streaming only while its stream runs
\* or after that was cut off.
Stages ==
  \A r \in Requests :
    /\ pc[r] \in {"new", "wait"} \cup Sending => message[r] = "none"
    /\ pc[r] # "done" => told[r] = "none"
    /\ message[r] = "streaming" => pc[r] \in {"stream", "gone"}

\* One send has the lock, and its conversation has no entry; a stream is the request of
\* its conversation's entry.
Alone ==
  /\ \A q, r \in Requests : pc[q] \in Sending /\ pc[r] \in Sending => q = r
  /\ \A r \in Requests :
       /\ pc[r] \in Sending => kind[r] = "send" /\ active[conv[r]] = NoRequest
       /\ pc[r] \in Streaming => kind[r] = "stream" /\ active[conv[r]] = r

\* A cancel is about an answer of its own conversation; once it was acknowledged, the
\* answer is cancelled or failed, or its stream has yet to see the event, or was cut off.
Cancels ==
  \A r \in Requests :
    kind[r] = "cancel" =>
      /\ conv[target[r]] = conv[r]
      /\ told[r] = "cancelled" /\ target[r] \notin guarded =>
           \/ message[target[r]] \in {"cancelled", "failed"}
           \/ message[target[r]] = "streaming" /\ (target[r] \in event \/ pc[target[r]] = "gone")

ConvInv == TypeOK /\ Stages /\ Alone /\ Cancels

\* In the initial states there is no request and no entry.
LEMMA ConvInit == Init => ConvInv
  BY BoundsAssumption, SMT DEF Init, ConvInv, TypeOK, Lifecycle, Types, Stages, Alone,
     Cancels, Sending, Streaming, Requests, Outcomes

\* No request has the number that stands for none.
LEMMA ReqNat == \A r \in Requests : r \in Nat /\ r # 0
  BY BoundsAssumption DEF Requests

\* The messages a request writes.
LEMMA MessageTypes == \A r \in Requests : User(r) \in Messages /\ Assistant(r) \in Messages
  BY DEF User, Assistant, Messages

\* The actions keep ConvInv, one after the other: its types, then its four parts.
LEMMA ArriveInv ==
  ASSUME ConvInv, NEW r \in Requests, NEW k \in {"send", "stream", "cancel"}, NEW c \in Convs,
         NEW q \in Requests \cup {NoRequest}, Arrive(r, k, c, q)
  PROVE  ConvInv'
<1>1. Types'
  BY DEF ConvInv, TypeOK, Types, Arrive
<1>2. Lifecycle'
  BY DEF ConvInv, TypeOK, Lifecycle, Types, Arrive, reqVars
<1>3. Stages'
  BY DEF ConvInv, Stages, Arrive
<1>4. Alone'
  BY DEF ConvInv, Alone, Arrive, Sending, Streaming
<1>5. Cancels'
  <2> SUFFICES ASSUME NEW s \in Requests, kind'[s] = "cancel"
               PROVE  /\ conv'[target'[s]] = conv'[s]
                      /\ told'[s] = "cancelled" /\ target'[s] \notin guarded' =>
                           \/ message'[target'[s]] \in {"cancelled", "failed"}
                           \/ /\ message'[target'[s]] = "streaming"
                              /\ target'[s] \in event' \/ pc'[target'[s]] = "gone"
    BY DEF Cancels
  <2>0. /\ pc[r] = "new" /\ told[r] = "none" /\ message[r] = "none" /\ kind[r] = "none"
        /\ kind' = [kind EXCEPT ![r] = k] /\ conv' = [conv EXCEPT ![r] = c]
        /\ target' = [target EXCEPT ![r] = q] /\ pc' = [pc EXCEPT ![r] = "wait"]
        /\ UNCHANGED <<guarded, told, message, event>>
    BY DEF Arrive, ConvInv, TypeOK, Lifecycle, Stages
  <2>1. CASE s = r
    <3>1. k = "cancel" /\ q \in Requests /\ conv[q] = c /\ message[q] # "none"
      BY <2>0, <2>1 DEF Arrive, ConvInv
    <3> QED
      BY <2>0, <2>1, <3>1 DEF ConvInv, TypeOK, Types
  <2>2. CASE s # r
    <3>1. kind[s] = "cancel" /\ target'[s] = target[s] /\ conv'[s] = conv[s]
      BY <2>0, <2>2 DEF ConvInv
    <3>2. target[s] \in Requests /\ target[s] # r
      BY <2>0, <3>1 DEF ConvInv, TypeOK, Lifecycle
    <3>3. conv'[target[s]] = conv[target[s]] /\ pc'[target[s]] = pc[target[s]]
      BY <2>0, <3>2 DEF ConvInv
    <3> QED
      BY <2>0, <3>1, <3>3 DEF ConvInv, Cancels
  <2> QED
    BY <2>1, <2>2
<1> QED
  BY <1>1, <1>2, <1>3, <1>4, <1>5 DEF ConvInv, TypeOK

LEMMA RefuseInv ==
  ASSUME ConvInv, NEW r \in Requests, Refuse(r)
  PROVE  ConvInv'
<1> DEFINE o == IF conv[r] \in deleted THEN "not found" ELSE "already running"
<1>0. /\ o \in Outcomes \ {"cancelled"}
      /\ pc[r] = "wait" /\ pc' = [pc EXCEPT ![r] = "done"] /\ told' = [told EXCEPT ![r] = o]
      /\ UNCHANGED <<reqVars, guarded, deleted, message, born, active, event, faults>>
  BY DEF Refuse, Enters, Ends, Outcomes
<1> HIDE DEF o
<1>1. Types'
  BY <1>0 DEF ConvInv, TypeOK, Types, reqVars
<1>2. Lifecycle'
  BY <1>0 DEF ConvInv, TypeOK, Lifecycle, Types, reqVars
<1>3. Stages'
  BY <1>0 DEF ConvInv, TypeOK, Types, Stages
<1>4. Alone'
  BY <1>0 DEF ConvInv, Alone, reqVars, Sending, Streaming
<1>5. Cancels'
  BY <1>0 DEF ConvInv, Cancels, reqVars
<1> QED
  BY <1>1, <1>2, <1>3, <1>4, <1>5 DEF ConvInv, TypeOK

LEMMA SendBeginInv ==
  ASSUME ConvInv, NEW r \in Requests, SendBegin(r)
  PROVE  ConvInv'
<1> DEFINE turn == Append(born[conv[r]], User(r))
<1>0. conv[r] \in Convs /\ turn \in Seq(Messages)
  <2>1. conv[r] \in Convs /\ born[conv[r]] \in Seq(Messages)
    BY DEF ConvInv, TypeOK, Lifecycle, Types, SendBegin, Enters
  <2> QED
    BY <2>1, MessageTypes
<1>a. PICK next \in {"retrieve", "model"} : pc' = [pc EXCEPT ![r] = next]
  BY DEF SendBegin
<1>b. /\ born' = [born EXCEPT ![conv[r]] = turn]
      /\ UNCHANGED <<kind, conv, target, guarded, told, deleted, message, active, event, faults>>
  BY DEF SendBegin, reqVars
<1> HIDE DEF turn
<1>1. Types'
  BY <1>0, <1>a, <1>b DEF ConvInv, TypeOK, Types
<1>2. Lifecycle'
  BY DEF ConvInv, TypeOK, Lifecycle, Types, SendBegin, Enters, reqVars
<1>3. Stages'
  BY DEF ConvInv, Stages, SendBegin, Enters
<1>4. Alone'
  BY DEF ConvInv, Alone, SendBegin, Enters, Open, LockFree, reqVars, Sending, Streaming
<1>5. Cancels'
  BY DEF ConvInv, Cancels, SendBegin, Enters, reqVars
<1> QED
  BY <1>1, <1>2, <1>3, <1>4, <1>5 DEF ConvInv, TypeOK

LEMMA SendGuardedInv ==
  ASSUME ConvInv, NEW r \in Requests, SendGuarded(r)
  PROVE  ConvInv'
<1> DEFINE turn == born[conv[r]] \o <<User(r), Assistant(r)>>
<1>0. conv[r] \in Convs /\ turn \in Seq(Messages)
  <2>1. conv[r] \in Convs /\ born[conv[r]] \in Seq(Messages)
    BY DEF ConvInv, TypeOK, Lifecycle, Types, SendGuarded, Enters
  <2> QED
    BY <2>1, MessageTypes
<1>b. born' = [born EXCEPT ![conv[r]] = turn]
  BY DEF SendGuarded
<1> HIDE DEF turn
<1>1. Types'
  BY <1>0, <1>b DEF ConvInv, TypeOK, Types, SendGuarded, Ends, reqVars, Outcomes,
     Settled
<1>2. Lifecycle'
  BY DEF ConvInv, TypeOK, Lifecycle, Types, SendGuarded, Enters, Ends, reqVars
<1>3. Stages'
  BY DEF ConvInv, TypeOK, Types, Stages, SendGuarded, Ends, Sending
<1>4. Alone'
  BY DEF ConvInv, Alone, SendGuarded, Ends, reqVars, Sending, Streaming
<1>5. Cancels'
  BY DEF ConvInv, Stages, Cancels, SendGuarded, Enters, Ends, reqVars
<1> QED
  BY <1>1, <1>2, <1>3, <1>4, <1>5 DEF ConvInv, TypeOK

LEMMA SendRetrievedInv ==
  ASSUME ConvInv, NEW r \in Requests, SendRetrieved(r)
  PROVE  ConvInv'
<1>1. CASE conv[r] \in deleted
  <2>1. Types'
    BY <1>1 DEF ConvInv, TypeOK, Types, SendRetrieved, Ends, reqVars, Outcomes
  <2>2. Lifecycle'
    BY <1>1 DEF ConvInv, TypeOK, Lifecycle, Types, SendRetrieved, Ends, reqVars
  <2>3. Stages'
    BY <1>1 DEF ConvInv, TypeOK, Types, Stages, SendRetrieved, Ends, Sending
  <2>4. Alone'
    BY <1>1 DEF ConvInv, TypeOK, Types, Alone, SendRetrieved, Ends, reqVars, Sending,
       Streaming
  <2>5. Cancels'
    BY <1>1 DEF ConvInv, TypeOK, Lifecycle, Types, Cancels, SendRetrieved, Ends, reqVars
  <2> QED
    BY <2>1, <2>2, <2>3, <2>4, <2>5 DEF ConvInv, TypeOK
<1>2. CASE conv[r] \notin deleted
  <2>1. Types'
    BY <1>2 DEF ConvInv, TypeOK, Types, SendRetrieved, reqVars
  <2>2. Lifecycle'
    BY <1>2 DEF ConvInv, TypeOK, Lifecycle, Types, SendRetrieved, reqVars
  <2>3. Stages'
    BY <1>2 DEF ConvInv, TypeOK, Types, Stages, SendRetrieved, Sending
  <2>4. Alone'
    BY <1>2 DEF ConvInv, TypeOK, Types, Alone, SendRetrieved, reqVars, Sending, Streaming
  <2>5. Cancels'
    BY <1>2 DEF ConvInv, TypeOK, Lifecycle, Types, Cancels, SendRetrieved, reqVars
  <2> QED
    BY <2>1, <2>2, <2>3, <2>4, <2>5 DEF ConvInv, TypeOK
<1> QED
  BY <1>1, <1>2

LEMMA SendAnsweredInv ==
  ASSUME ConvInv, NEW r \in Requests, SendAnswered(r)
  PROVE  ConvInv'
<1>1. CASE conv[r] \in deleted
  <2>1. Types'
    BY <1>1 DEF ConvInv, TypeOK, Types, SendAnswered, Ends, reqVars, Outcomes
  <2>2. Lifecycle'
    BY <1>1 DEF ConvInv, TypeOK, Lifecycle, Types, SendAnswered, Ends, reqVars
  <2>3. Stages'
    BY <1>1 DEF ConvInv, TypeOK, Types, Stages, SendAnswered, Ends, Sending
  <2>4. Alone'
    BY <1>1 DEF ConvInv, TypeOK, Types, Alone, SendAnswered, Ends, reqVars, Sending,
       Streaming
  <2>5. Cancels'
    BY <1>1 DEF ConvInv, TypeOK, Lifecycle, Types, Cancels, SendAnswered, Ends, reqVars
  <2> QED
    BY <2>1, <2>2, <2>3, <2>4, <2>5 DEF ConvInv, TypeOK
<1>2. CASE conv[r] \notin deleted
  <2> DEFINE turn == Append(born[conv[r]], Assistant(r))
  <2>0. /\ pc[r] = "model" /\ kind[r] = "send" /\ message[r] = "none"
        /\ conv[r] \in Convs /\ born[conv[r]] \in Seq(Messages)
    BY DEF ConvInv, TypeOK, Lifecycle, Types, Stages, Alone, SendAnswered, Sending
  <2>a. turn \in Seq(Messages)
    BY <2>0, MessageTypes
  <2>b. /\ born' = [born EXCEPT ![conv[r]] = turn]
        /\ message' = [message EXCEPT ![r] = "completed"]
        /\ pc' = [pc EXCEPT ![r] = "done"]
        /\ told' = [told EXCEPT ![r] = "answered"]
        /\ UNCHANGED <<kind, conv, target, guarded, deleted, active, event, faults>>
    BY <1>2 DEF SendAnswered, Ends, reqVars
  <2> HIDE DEF turn
  <2>1. Types'
    BY <2>0, <2>a, <2>b DEF ConvInv, TypeOK, Types, Outcomes, Settled
  <2>2. Lifecycle'
    BY <2>0, <2>b DEF ConvInv, TypeOK, Lifecycle, Types
  <2>3. Stages'
    BY <2>0, <2>b DEF ConvInv, TypeOK, Types, Stages, Sending
  <2>4. Alone'
    BY <2>0, <2>b DEF ConvInv, Alone, Sending, Streaming
  <2>5. Cancels'
    <3> SUFFICES ASSUME NEW s \in Requests, kind[s] = "cancel"
                 PROVE  /\ conv[target[s]] = conv[s]
                        /\ told'[s] = "cancelled" /\ target[s] \notin guarded =>
                             \/ message'[target[s]] \in {"cancelled", "failed"}
                             \/ /\ message'[target[s]] = "streaming"
                                /\ target[s] \in event \/ pc'[target[s]] = "gone"
      BY <2>b DEF Cancels
    <3>1. s # r /\ target[s] \in Requests /\ target[s] # r
      BY <2>0 DEF ConvInv, TypeOK, Lifecycle
    <3>2. /\ told'[s] = told[s] /\ message'[target[s]] = message[target[s]]
          /\ pc'[target[s]] = pc[target[s]]
      BY <2>b, <3>1 DEF ConvInv
    <3> QED
      BY <3>2 DEF ConvInv, Cancels
  <2> QED
    BY <2>1, <2>2, <2>3, <2>4, <2>5 DEF ConvInv, TypeOK
<1> QED
  BY <1>1, <1>2

LEMMA SendFailsInv ==
  ASSUME ConvInv, NEW r \in Requests, SendFails(r)
  PROVE  ConvInv'
<1>1. Types'
  BY DEF ConvInv, TypeOK, Types, SendFails, Ends, reqVars, Outcomes, Settled
<1>2. Lifecycle'
  BY DEF ConvInv, TypeOK, Lifecycle, Types, SendFails, Ends, reqVars
<1>3. Stages'
  BY DEF ConvInv, TypeOK, Types, Stages, SendFails, Ends, Sending
<1>4. Alone'
  BY DEF ConvInv, Alone, SendFails, Ends, reqVars, Sending, Streaming
<1>5. Cancels'
  BY DEF ConvInv, Cancels, SendFails, Ends, reqVars
<1> QED
  BY <1>1, <1>2, <1>3, <1>4, <1>5 DEF ConvInv, TypeOK

LEMMA StreamBeginInv ==
  ASSUME ConvInv, NEW r \in Requests, StreamBegin(r)
  PROVE  ConvInv'
<1> DEFINE turn == born[conv[r]] \o <<User(r), Assistant(r)>>
<1>0. conv[r] \in Convs /\ turn \in Seq(Messages)
  <2>1. conv[r] \in Convs /\ born[conv[r]] \in Seq(Messages)
    BY DEF ConvInv, TypeOK, Lifecycle, Types, StreamBegin, Enters
  <2> QED
    BY <2>1, MessageTypes
<1>b. born' = [born EXCEPT ![conv[r]] = turn]
  BY DEF StreamBegin
<1> HIDE DEF turn
<1>1. Types'
  BY <1>0, <1>b DEF ConvInv, TypeOK, Types, StreamBegin, reqVars
<1>2. Lifecycle'
  BY DEF ConvInv, TypeOK, Lifecycle, Types, StreamBegin, Enters, reqVars
<1>3. Stages'
  BY DEF ConvInv, TypeOK, Types, Stages, StreamBegin, Enters, Sending
<1>4. Alone'
  BY ReqNat DEF ConvInv, TypeOK, Lifecycle, Types, Alone, StreamBegin, Enters, Open,
     LockFree, reqVars, Sending, NoRequest
<1>5. Cancels'
  BY DEF ConvInv, Stages, Cancels, StreamBegin, Enters, reqVars
<1> QED
  BY <1>1, <1>2, <1>3, <1>4, <1>5 DEF ConvInv, TypeOK

LEMMA StreamFinishInv ==
  ASSUME ConvInv, NEW r \in Requests, StreamFinish(r)
  PROVE  ConvInv'
<1>1. Types'
  BY DEF ConvInv, TypeOK, Types, StreamFinish, reqVars, Settled
<1>2. Lifecycle'
  BY DEF ConvInv, TypeOK, Lifecycle, Types, StreamFinish, reqVars, Settled
<1>3. Stages'
  BY DEF ConvInv, TypeOK, Types, Stages, StreamFinish, Sending
<1>4. Alone'
  BY DEF ConvInv, Alone, StreamFinish, reqVars, Sending, Streaming
<1>5. Cancels'
  BY DEF ConvInv, TypeOK, Lifecycle, Types, Cancels, StreamFinish, reqVars
<1> QED
  BY <1>1, <1>2, <1>3, <1>4, <1>5 DEF ConvInv, TypeOK

LEMMA StreamFailsInv ==
  ASSUME ConvInv, NEW r \in Requests, StreamFails(r)
  PROVE  ConvInv'
<1>1. Types'
  BY DEF ConvInv, TypeOK, Types, StreamFails, reqVars, Settled
<1>2. Lifecycle'
  BY DEF ConvInv, TypeOK, Lifecycle, Types, StreamFails, reqVars, Settled
<1>3. Stages'
  BY DEF ConvInv, TypeOK, Types, Stages, StreamFails, Sending
<1>4. Alone'
  BY DEF ConvInv, Alone, StreamFails, reqVars, Sending, Streaming
<1>5. Cancels'
  BY DEF ConvInv, Cancels, StreamFails, reqVars
<1> QED
  BY <1>1, <1>2, <1>3, <1>4, <1>5 DEF ConvInv, TypeOK

LEMMA StreamCloseInv ==
  ASSUME ConvInv, NEW r \in Requests, StreamClose(r)
  PROVE  ConvInv'
<1>0. message[r] \in Outcomes
  BY DEF ConvInv, TypeOK, Lifecycle, StreamClose, Outcomes
<1>1. Types'
  BY <1>0 DEF ConvInv, TypeOK, Types, StreamClose, Ends, reqVars
<1>2. Lifecycle'
  BY DEF ConvInv, TypeOK, Lifecycle, Types, StreamClose, Ends, reqVars
<1>3. Stages'
  BY DEF ConvInv, TypeOK, Types, Stages, StreamClose, Ends, Sending
<1>4. Alone'
  BY DEF ConvInv, TypeOK, Types, Alone, StreamClose, Ends, reqVars, Sending, Streaming
<1>5. Cancels'
  BY DEF ConvInv, Alone, Cancels, StreamClose, Ends, reqVars, Streaming
<1> QED
  BY <1>1, <1>2, <1>3, <1>4, <1>5 DEF ConvInv, TypeOK

LEMMA AbandonInv ==
  ASSUME ConvInv, NEW r \in Requests, Abandon(r)
  PROVE  ConvInv'
<1>1. Types'
  BY DEF ConvInv, TypeOK, Types, Abandon, reqVars
<1>2. Lifecycle'
  BY DEF ConvInv, TypeOK, Lifecycle, Types, Abandon, reqVars
<1>3. Stages'
  BY DEF ConvInv, Stages, Abandon, Sending
<1>4. Alone'
  BY DEF ConvInv, Alone, Abandon, reqVars, Sending, Streaming
<1>5. Cancels'
  BY DEF ConvInv, Cancels, Abandon, reqVars
<1> QED
  BY <1>1, <1>2, <1>3, <1>4, <1>5 DEF ConvInv, TypeOK

LEMMA CancelSettledInv ==
  ASSUME ConvInv, NEW r \in Requests, CancelSettled(r)
  PROVE  ConvInv'
<1>0. PICK o \in Outcomes :
        /\ pc[r] = "wait" /\ pc' = [pc EXCEPT ![r] = "done"] /\ told' = [told EXCEPT ![r] = o]
        /\ o = "cancelled" => message[target[r]] = "cancelled"
        /\ UNCHANGED <<reqVars, guarded, deleted, message, born, active, event, faults>>
  BY DEF CancelSettled, Enters, Ends, Outcomes, Settled
<1>1. Types'
  BY <1>0 DEF ConvInv, TypeOK, Types, reqVars
<1>2. Lifecycle'
  BY <1>0 DEF ConvInv, TypeOK, Lifecycle, Types, reqVars
<1>3. Stages'
  BY <1>0 DEF ConvInv, TypeOK, Types, Stages
<1>4. Alone'
  BY <1>0 DEF ConvInv, Alone, reqVars, Sending, Streaming
<1>5. Cancels'
  BY <1>0 DEF ConvInv, Cancels, reqVars
<1> QED
  BY <1>1, <1>2, <1>3, <1>4, <1>5 DEF ConvInv, TypeOK

LEMMA CancelActiveInv ==
  ASSUME ConvInv, NEW r \in Requests, CancelActive(r)
  PROVE  ConvInv'
<1>0. target[r] \in Requests
  BY DEF ConvInv, TypeOK, Lifecycle, CancelActive, Enters
<1>1. Types'
  BY <1>0 DEF ConvInv, TypeOK, Types, CancelActive, Ends, reqVars, Outcomes, Settled
<1>2. Lifecycle'
  BY DEF ConvInv, TypeOK, Lifecycle, Types, CancelActive, Enters, Ends, reqVars
<1>3. Stages'
  BY DEF ConvInv, TypeOK, Types, Stages, CancelActive, Enters, Ends
<1>4. Alone'
  BY DEF ConvInv, Alone, CancelActive, Ends, reqVars, Sending, Streaming
<1>5. Cancels'
  BY DEF ConvInv, Cancels, CancelActive, Enters, Ends, reqVars
<1> QED
  BY <1>1, <1>2, <1>3, <1>4, <1>5 DEF ConvInv, TypeOK

LEMMA CancelOrphanInv ==
  ASSUME ConvInv, NEW r \in Requests, CancelOrphan(r)
  PROVE  ConvInv'
<1>1. Types'
  BY DEF ConvInv, TypeOK, Types, CancelOrphan, Ends, reqVars, Outcomes, Settled
<1>2. Lifecycle'
  BY DEF ConvInv, TypeOK, Lifecycle, Types, Alone, Cancels, CancelOrphan, Enters, Ends,
     reqVars, Streaming
<1>3. Stages'
  BY DEF ConvInv, TypeOK, Types, Stages, CancelOrphan, Enters, Ends
<1>4. Alone'
  BY DEF ConvInv, Alone, CancelOrphan, Ends, reqVars, Sending, Streaming
<1>5. Cancels'
  BY DEF ConvInv, TypeOK, Lifecycle, Types, Cancels, CancelOrphan, Enters, Ends, reqVars
<1> QED
  BY <1>1, <1>2, <1>3, <1>4, <1>5 DEF ConvInv, TypeOK

LEMMA DeleteInv ==
  ASSUME ConvInv, NEW c \in Convs, Delete(c)
  PROVE  ConvInv'
<1>1. Types'
  BY DEF ConvInv, TypeOK, Types, Delete, reqVars
<1>2. Lifecycle'
  BY DEF ConvInv, TypeOK, Lifecycle, Types, Delete, reqVars
<1>3. Stages'
  BY DEF ConvInv, Stages, Delete
<1>4. Alone'
  BY DEF ConvInv, Alone, Delete, reqVars
<1>5. Cancels'
  BY DEF ConvInv, Cancels, Delete, reqVars
<1> QED
  BY <1>1, <1>2, <1>3, <1>4, <1>5 DEF ConvInv, TypeOK

LEMMA CrashInv ==
  ASSUME ConvInv, Crash
  PROVE  ConvInv'
<1>1. Types'
  BY DEF ConvInv, TypeOK, Types, Crash, reqVars
<1>2. Lifecycle'
  BY DEF ConvInv, TypeOK, Lifecycle, Types, Crash, reqVars
<1>3. Stages'
  BY DEF ConvInv, Stages, Crash, Sending
<1>4. Alone'
  BY DEF ConvInv, Alone, Crash, Sending, Streaming
<1>5. Cancels'
  BY DEF ConvInv, TypeOK, Lifecycle, Types, Stages, Cancels, Crash, reqVars
<1> QED
  BY <1>1, <1>2, <1>3, <1>4, <1>5 DEF ConvInv, TypeOK

\* Every step keeps the inductive invariant, one lemma per action.
LEMMA ConvNext == ConvInv /\ [Next]_vars => ConvInv'
<1> SUFFICES ASSUME ConvInv, [Next]_vars PROVE ConvInv'
  OBVIOUS
<1>1. CASE \E r \in Requests, k \in {"send", "stream", "cancel"}, c \in Convs :
             \E q \in Requests \cup {NoRequest} : Arrive(r, k, c, q)
  BY <1>1, ArriveInv
<1>2. CASE \E r \in Requests : Step(r)
  <2>1. PICK r \in Requests : Step(r)
    BY <1>2
  <2>2. CASE Refuse(r)
    BY <2>2, RefuseInv
  <2>3. CASE SendBegin(r)
    BY <2>3, SendBeginInv
  <2>4. CASE SendGuarded(r)
    BY <2>4, SendGuardedInv
  <2>5. CASE SendRetrieved(r)
    BY <2>5, SendRetrievedInv
  <2>6. CASE SendAnswered(r)
    BY <2>6, SendAnsweredInv
  <2>7. CASE SendFails(r)
    BY <2>7, SendFailsInv
  <2>8. CASE StreamBegin(r)
    BY <2>8, StreamBeginInv
  <2>9. CASE StreamFinish(r)
    BY <2>9, StreamFinishInv
  <2>10. CASE StreamFails(r)
    BY <2>10, StreamFailsInv
  <2>11. CASE StreamClose(r)
    BY <2>11, StreamCloseInv
  <2>12. CASE CancelSettled(r)
    BY <2>12, CancelSettledInv
  <2>13. CASE CancelActive(r)
    BY <2>13, CancelActiveInv
  <2>14. CASE CancelOrphan(r)
    BY <2>14, CancelOrphanInv
  <2> QED
    BY <2>1, <2>2, <2>3, <2>4, <2>5, <2>6, <2>7, <2>8, <2>9, <2>10, <2>11, <2>12, <2>13, <2>14 DEF Step
<1>3. CASE \E r \in Requests : Abandon(r)
  BY <1>3, AbandonInv
<1>4. CASE \E c \in Convs : Delete(c)
  BY <1>4, DeleteInv
<1>5. CASE Crash
  BY <1>5, CrashInv
<1>6. CASE UNCHANGED vars
  BY <1>6 DEF ConvInv, TypeOK, Lifecycle, Types, Stages, Alone, Cancels, vars, reqVars
<1> QED
  BY <1>1, <1>2, <1>3, <1>4, <1>5, <1>6 DEF Next

\* The inductive invariant holds in every state.
LEMMA ConvInvariant == Spec => []ConvInv
<1>1. Init => ConvInv
  BY ConvInit
<1>2. ConvInv /\ [Next]_vars => ConvInv'
  BY ConvNext
<1> QED
  BY <1>1, <1>2, PTL DEF Spec

\* The variables keep their types, and the answer of a stream is streaming exactly while
\* the stream has not come to its last item.
THEOREM TypeCorrect == Spec => []TypeOK
<1>1. ConvInv => TypeOK
  BY DEF ConvInv
<1> QED
  BY <1>1, ConvInvariant, PTL

\* Two requests that generate an answer in one conversation are the same request: two
\* sends exclude each other by the lock, two streams by the entry, and a send and a
\* stream by what both check before they begin.
LEMMA GeneratingAlone ==
  ASSUME ConvInv, NEW c \in Convs, NEW q \in Generating(c), NEW r \in Generating(c)
  PROVE  q = r
<1>1. /\ q \in Requests /\ r \in Requests /\ conv[q] = c /\ conv[r] = c
      /\ pc[q] \in Sending \cup Streaming /\ pc[r] \in Sending \cup Streaming
  BY DEF Generating, Sending, Streaming
<1>2. CASE pc[q] \in Sending /\ pc[r] \in Sending
  BY <1>1, <1>2 DEF ConvInv, Alone
<1>3. CASE pc[q] \in Streaming /\ pc[r] \in Streaming
  BY <1>1, <1>3 DEF ConvInv, Alone
<1>4. CASE pc[q] \in Sending /\ pc[r] \in Streaming
  BY <1>1, <1>4, ReqNat DEF ConvInv, Alone, NoRequest
<1>5. CASE pc[q] \in Streaming /\ pc[r] \in Sending
  BY <1>1, <1>5, ReqNat DEF ConvInv, Alone, NoRequest
<1> QED
  BY <1>1, <1>2, <1>3, <1>4, <1>5

\* A conversation never has two answers in the making, whatever the requests, the
\* disconnects and the crashes.
THEOREM ConversationsGenerateOnce == Spec => []OneGeneration
<1>1. ConvInv => OneGeneration
  <2> SUFFICES ASSUME ConvInv, NEW c \in Convs PROVE Cardinality(Generating(c)) <= 1
    BY DEF OneGeneration
  <2>1. CASE Generating(c) = {}
    BY <2>1, FS_EmptySet
  <2>2. CASE Generating(c) # {}
    <3>1. PICK r \in Generating(c) : Generating(c) = {r}
      BY <2>2, GeneratingAlone
    <3>2. Cardinality(Generating(c)) = 1
      BY <3>1, FS_Singleton
    <3> QED
      BY <3>2
  <2> QED
    BY <2>1, <2>2
<1> QED
  BY <1>1, ConvInvariant, PTL

\* A client whose cancel was acknowledged never finds the answer completed, unless the
\* guard gave it.
THEOREM CancelsAreHonoured == Spec => []CancelIsHonoured
<1>1. ConvInv => CancelIsHonoured
  <2> SUFFICES ASSUME ConvInv, NEW r \in Requests, kind[r] = "cancel",
                      told[r] = "cancelled", target[r] \notin guarded
               PROVE  message[target[r]] # "completed"
    BY DEF CancelIsHonoured
  <2> QED
    BY DEF ConvInv, Cancels
<1> QED
  BY <1>1, ConvInvariant, PTL

\* No step changes a settled answer: only the answer of a request that has not stored one,
\* or a streaming one, is written.
LEMMA SettledStays ==
  ASSUME ConvInv, [Next]_vars, NEW r \in Requests, message[r] \in Settled
  PROVE  message'[r] = message[r]
<1>1. ASSUME NEW q \in Requests, NEW v, message' = [message EXCEPT ![q] = v],
             message[q] \in {"none", "streaming"}
      PROVE  message'[r] = message[r]
  BY <1>1 DEF ConvInv, Settled
<1>2. CASE UNCHANGED message
  BY <1>2
<1>3. ASSUME NEW q \in Requests, Step(q)
      PROVE  message'[r] = message[r]
  <2>1. CASE SendGuarded(q)
    BY <2>1, <1>1 DEF SendGuarded, Enters, ConvInv, Stages
  <2>2. CASE SendAnswered(q)
    BY <2>2, <1>1, <1>2 DEF SendAnswered, ConvInv, Stages, Sending
  <2>3. CASE StreamBegin(q)
    BY <2>3, <1>1 DEF StreamBegin, Enters, ConvInv, Stages
  <2>4. CASE StreamFinish(q)
    BY <2>4, <1>1 DEF StreamFinish, ConvInv, TypeOK, Lifecycle
  <2>5. CASE StreamFails(q)
    BY <2>5, <1>1 DEF StreamFails, ConvInv, TypeOK, Lifecycle
  <2>6. CASE CancelOrphan(q)
    <3>1. target[q] \in Requests
      BY <2>6 DEF CancelOrphan, Enters, ConvInv, TypeOK, Lifecycle
    <3> QED
      BY <2>6, <3>1, <1>1 DEF CancelOrphan
  <2>7. CASE \/ Refuse(q) \/ SendBegin(q) \/ SendRetrieved(q) \/ SendFails(q)
             \/ StreamClose(q) \/ CancelSettled(q) \/ CancelActive(q)
    BY <2>7, <1>2
       DEF Refuse, SendBegin, SendRetrieved, SendFails, StreamClose, CancelSettled, CancelActive
  <2> QED
    BY <1>3, <2>1, <2>2, <2>3, <2>4, <2>5, <2>6, <2>7 DEF Step
<1> QED
  BY <1>2, <1>3 DEF Next, Arrive, Abandon, Delete, Crash, vars

\* A settled answer keeps its status for ever: no stream, late cancel or restart writes
\* over it.
THEOREM AnswersAreFinal == Spec => AnswerIsFinal
<1>1. ConvInv /\ [Next]_vars =>
        [\A r \in Requests : message[r] \in Settled => message'[r] = message[r]]_vars
  BY SettledStays
<1> QED
  BY <1>1, ConvInvariant, PTL DEF Spec, AnswerIsFinal

\* A deleted conversation has no entry.
NoEntry == \A c \in deleted : active[c] = NoRequest

\* Entries are made in conversations that are there, and those with an entry stay.
LEMMA NoEntryNext == ConvInv /\ NoEntry /\ [Next]_vars => NoEntry'
<1> SUFFICES ASSUME ConvInv, NoEntry, [Next]_vars PROVE NoEntry'
  OBVIOUS
<1>1. CASE \E r \in Requests : StreamBegin(r)
  BY <1>1 DEF StreamBegin, Open, NoEntry, ConvInv
<1>2. CASE \E r \in Requests : StreamClose(r)
  BY <1>2 DEF StreamClose, NoEntry, ConvInv
<1>3. CASE \E c \in Convs : Delete(c)
  BY <1>3 DEF Delete, Open, NoEntry
<1>4. CASE Crash
  BY <1>4 DEF Crash, NoEntry, ConvInv, TypeOK, Types
<1>5. CASE UNCHANGED <<deleted, active>>
  BY <1>5 DEF NoEntry
<1>6. ASSUME NEW r \in Requests, Step(r)
      PROVE  NoEntry'
  BY <1>1, <1>2, <1>5, <1>6
     DEF Step, Refuse, SendBegin, SendGuarded, SendRetrieved, SendAnswered, SendFails,
         StreamFinish, StreamFails, CancelSettled, CancelActive, CancelOrphan
<1> QED
  BY <1>3, <1>4, <1>5, <1>6 DEF Next, Arrive, Abandon, vars

\* A deleted conversation has neither a running stream nor an entry, so that it cannot
\* come back to life by one.
THEOREM DeletedStaysQuiet == Spec => []DeletedIsQuiet
<1>1. Init => NoEntry
  BY DEF Init, NoEntry
<1>2. ConvInv /\ NoEntry => DeletedIsQuiet
  <2> SUFFICES ASSUME ConvInv, NoEntry, NEW c \in deleted
               PROVE  active[c] = NoRequest /\ \A r \in Generating(c) : kind[r] = "send"
    BY DEF DeletedIsQuiet
  <2>1. active[c] = NoRequest
    BY DEF NoEntry
  <2>2. ASSUME NEW r \in Generating(c)
        PROVE  kind[r] = "send"
    BY <2>1, ReqNat DEF Generating, ConvInv, Alone, Sending, Streaming, NoRequest
  <2> QED
    BY <2>1, <2>2
<1> QED
  BY <1>1, <1>2, NoEntryNext, ConvInvariant, PTL DEF Spec

\* One answer at a time, and none in a deleted conversation, for any number of requests,
\* disconnects and restarts (ConversationService).
THEOREM GenerationsStayAlone == Spec => []GeneratesAlone
  BY ConversationsGenerateOnce, DeletedStaysQuiet, PTL DEF GeneratesAlone

-----------------------------------------------------------------------------
(* Whole turns.                                                             *)

\* An answer was born right after its question, and a question whose answer is stored
\* right before it.
PairedAt(list, i) ==
  /\ pc[list[i].of] \notin {"new", "wait"}
  /\ list[i].role = "assistant" =>
       i - 1 \in 1 .. Len(list) /\ list[i - 1] = User(list[i].of)
  /\ list[i].role = "user" /\ message[list[i].of] # "none" =>
       i + 1 \in 1 .. Len(list) /\ list[i + 1] = Assistant(list[i].of)
Paired == \A c \in Convs : \A i \in 1 .. Len(born[c]) : PairedAt(born[c], i)

\* The question of a send that awaits is the last message of its conversation.
Asked ==
  \A r \in Requests : pc[r] \in Sending =>
    /\ Len(born[conv[r]]) > 0 /\ born[conv[r]][Len(born[conv[r]])] = User(r)
    /\ \A c \in Convs : \A i \in 1 .. Len(born[c]) :
         born[c][i].of = r => c = conv[r] /\ i = Len(born[c])

LEMMA BornTypes ==
  ASSUME ConvInv
  PROVE  /\ born \in [Convs -> Seq(Messages)] /\ Convs = DOMAIN born
         /\ \A c \in Convs :
              /\ born[c] \in Seq(Messages) /\ Len(born[c]) \in Nat
              /\ \A i \in 1 .. Len(born[c]) : born[c][i] \in Messages /\ born[c][i].of \in Requests
<1>1. born \in [Convs -> Seq(Messages)]
  BY DEF ConvInv, TypeOK, Types
<1>2. \A m \in Messages : m.of \in Requests
  BY DEF Messages
<1>3. ASSUME NEW c \in Convs
      PROVE  /\ born[c] \in Seq(Messages) /\ Len(born[c]) \in Nat
             /\ \A i \in 1 .. Len(born[c]) : born[c][i] \in Messages
  BY <1>1
<1> QED
  BY <1>1, <1>2, <1>3

\* What was paired stays so while the conversation grows, unless its answer is stored.
LEMMA PairsStay ==
  ASSUME NEW old \in Seq(Messages), NEW list \in Seq(Messages), Len(list) >= Len(old),
         \A i \in 1 .. Len(old) : list[i] = old[i],
         NEW i \in 1 .. Len(old), PairedAt(old, i),
         pc'[old[i].of] \notin {"new", "wait"},
         message'[old[i].of] # "none" => message[old[i].of] # "none"
  PROVE  PairedAt(list, i)'
<1>1. Len(old) \in Nat /\ Len(list) \in Nat /\ list[i] = old[i] /\ i \in 1 .. Len(list)
  OBVIOUS
<1>2. old[i].role = "assistant" => i - 1 \in 1 .. Len(list) /\ list[i - 1] = User(old[i].of)
  BY <1>1 DEF PairedAt
<1>3. old[i].role = "user" /\ message'[old[i].of] # "none" =>
        i + 1 \in 1 .. Len(list) /\ list[i + 1] = Assistant(old[i].of)
  BY <1>1 DEF PairedAt
<1> QED
  BY <1>1, <1>2, <1>3 DEF PairedAt

\* Steps that create no message and store none that was not.
LEMMA TurnsStay ==
  ASSUME ConvInv, Paired, Asked, born' = born,
         \A r \in Requests :
           /\ message'[r] # "none" => message[r] # "none"
           /\ pc'[r] \in {"new", "wait"} => pc[r] \in {"new", "wait"}
           /\ pc'[r] \in Sending => pc[r] \in Sending
           /\ pc[r] # "new" => conv'[r] = conv[r]
  PROVE  Paired' /\ Asked'
<1>1. Paired'
  BY BornTypes DEF Paired, PairedAt
<1>2. Asked'
  BY DEF Asked, Sending
<1> QED
  BY <1>1, <1>2

\* Messages are created at the end of a conversation.
LEMMA Longer ==
  ASSUME ConvInv, NEW c \in Convs, NEW more \in Seq(Messages),
         born' = [born EXCEPT ![c] = born[c] \o more]
  PROVE  /\ born'[c] \in Seq(Messages) /\ Len(born'[c]) = Len(born[c]) + Len(more)
         /\ \A i \in 1 .. Len(born[c]) : born'[c][i] = born[c][i]
         /\ \A i \in 1 .. Len(more) : born'[c][Len(born[c]) + i] = more[i]
         /\ \A d \in Convs \ {c} : born'[d] = born[d]
<1>1. born'[c] = born[c] \o more /\ born[c] \in Seq(Messages)
  BY BornTypes
<1>2. \A d \in Convs \ {c} : born'[d] = born[d]
  BY BornTypes
<1> QED
  BY <1>1, <1>2

LEMMA OneLonger ==
  ASSUME ConvInv, NEW c \in Convs, NEW m \in Messages,
         born' = [born EXCEPT ![c] = Append(born[c], m)]
  PROVE  /\ born'[c] \in Seq(Messages) /\ Len(born'[c]) = Len(born[c]) + 1
         /\ born'[c][Len(born[c]) + 1] = m
         /\ \A i \in 1 .. Len(born[c]) : born'[c][i] = born[c][i]
         /\ \A d \in Convs \ {c} : born'[d] = born[d]
<1>1. born'[c] = Append(born[c], m) /\ born[c] \in Seq(Messages)
  BY BornTypes
<1>2. \A d \in Convs \ {c} : born'[d] = born[d]
  BY BornTypes
<1> QED
  BY <1>1, <1>2

\* The pairs of all conversations, when one of them has grown.
LEMMA PairsGrow ==
  ASSUME ConvInv, Paired, NEW c \in Convs, born'[c] \in Seq(Messages),
         Len(born'[c]) >= Len(born[c]),
         \A i \in 1 .. Len(born[c]) : born'[c][i] = born[c][i],
         \A d \in Convs \ {c} : born'[d] = born[d],
         \A d \in Convs : \A i \in 1 .. Len(born[d]) :
           \/ /\ pc'[born[d][i].of] \notin {"new", "wait"}
              /\ message'[born[d][i].of] # "none" => message[born[d][i].of] # "none"
           \/ d = c /\ PairedAt(born[c], i)',
         \A i \in (1 .. Len(born'[c])) \ 1 .. Len(born[c]) : PairedAt(born[c], i)'
  PROVE  Paired'
<1>1. PICK list : list = born'[c]
  OBVIOUS
<1>2. ASSUME NEW i \in 1 .. Len(list) PROVE PairedAt(list, i)'
  <2>1. CASE i \notin 1 .. Len(born[c])
    BY <1>1, <2>1 DEF PairedAt
  <2>2. CASE i \in 1 .. Len(born[c]) /\ PairedAt(born[c], i)'
    BY <1>1, <2>2 DEF PairedAt
  <2>3. CASE /\ i \in 1 .. Len(born[c]) /\ pc'[born[c][i].of] \notin {"new", "wait"}
             /\ message'[born[c][i].of] # "none" => message[born[c][i].of] # "none"
    <3>1. PICK old \in Seq(Messages) : old = born[c]
      BY BornTypes
    <3> QED
      BY <1>1, <2>3, <3>1, PairsStay DEF Paired
  <2> QED
    BY <2>1, <2>2, <2>3
<1>3. ASSUME NEW d \in Convs \ {c}, NEW i \in 1 .. Len(born[d]) PROVE PairedAt(born[d], i)'
  <2>1. PICK old \in Seq(Messages) : old = born[d] /\ born'[d] = old
    BY BornTypes
  <2>2. PairedAt(old, i)'
    BY <2>1, PairsStay DEF Paired
  <2> QED
    BY <2>1, <2>2 DEF PairedAt
<1> QED
  BY <1>1, <1>2, <1>3 DEF Paired, PairedAt

\* A send asks: nobody else is sending, and it has said nothing before.
LEMMA SendBeginTurns ==
  ASSUME ConvInv, Paired, Asked, NEW r \in Requests, SendBegin(r)
  PROVE  Paired' /\ Asked'
<1>1. /\ pc[r] = "wait" /\ conv[r] \in Convs /\ message[r] = "none"
      /\ \A q \in Requests : pc[q] \notin Sending
      /\ conv' = conv /\ message' = message
  BY DEF ConvInv, TypeOK, Lifecycle, Stages, SendBegin, Enters, LockFree, Sending, reqVars
<1>2. pc'[r] \in Sending /\ \A q \in Requests \ {r} : pc'[q] = pc[q]
  BY DEF SendBegin, ConvInv, TypeOK, Types, Sending
<1>3. PICK c \in Convs : c = conv[r]
  BY <1>1
<1>4. User(r).of = r /\ User(r).role = "user"
  BY DEF User
<1>5. PICK m \in Messages : m = User(r)
  BY MessageTypes
<1>6. born' = [born EXCEPT ![c] = Append(born[c], m)]
  BY <1>3, <1>5 DEF SendBegin
<1>7. PICK n \in Nat : n = Len(born[c])
  BY BornTypes
<1>8. /\ born'[c] \in Seq(Messages) /\ Len(born'[c]) = n + 1 /\ born'[c][n + 1] = User(r)
      /\ \A i \in 1 .. n : born'[c][i] = born[c][i]
      /\ \A d \in Convs \ {c} : born'[d] = born[d]
  <2>1. /\ born'[c] \in Seq(Messages) /\ Len(born'[c]) = Len(born[c]) + 1
        /\ born'[c][Len(born[c]) + 1] = m
        /\ \A i \in 1 .. Len(born[c]) : born'[c][i] = born[c][i]
        /\ \A d \in Convs \ {c} : born'[d] = born[d]
    BY <1>6, OneLonger
  <2> QED
    BY <1>5, <1>7, <2>1
<1>9. \A d \in Convs : \A i \in 1 .. Len(born[d]) : born[d][i].of # r /\ born[d][i].of \in Requests
  BY <1>1, BornTypes DEF Paired, PairedAt
<1>10. Paired'
  <2>1. \A d \in Convs : \A i \in 1 .. Len(born[d]) :
          /\ pc'[born[d][i].of] \notin {"new", "wait"}
          /\ message'[born[d][i].of] # "none" => message[born[d][i].of] # "none"
    BY <1>1, <1>2, <1>9 DEF Paired, PairedAt
  <2>2. PairedAt(born[c], n + 1)'
    BY <1>1, <1>2, <1>4, <1>8 DEF PairedAt, Sending
  <2>3. \A i \in (1 .. Len(born'[c])) \ 1 .. Len(born[c]) : i = n + 1
    BY <1>7, <1>8
  <2>4. Len(born'[c]) >= Len(born[c])
    BY <1>7, <1>8
  <2> QED
    BY <1>7, <1>8, <2>1, <2>2, <2>3, <2>4, PairsGrow
<1>11. ASSUME NEW d \in Convs, NEW i \in 1 .. Len(born'[d]), born'[d][i].of = r
       PROVE  d = c /\ i = n + 1
  <2>1. CASE d # c
    BY <1>8, <1>9, <1>11, <2>1
  <2>2. CASE d = c /\ i # n + 1
    <3>1. i \in 1 .. n
      BY <1>8, <2>2
    <3> QED
      BY <1>7, <1>8, <1>9, <1>11, <2>2, <3>1
  <2> QED
    BY <2>1, <2>2
<1>12. Asked'
  BY <1>1, <1>2, <1>3, <1>8, <1>11 DEF Asked
<1> QED
  BY <1>10, <1>12

\* Both messages are created in one step.
LEMMA TurnAtOnce ==
  ASSUME ConvInv, Paired, Asked, NEW r \in Requests, pc[r] = "wait", LockFree,
         born' = [born EXCEPT ![conv[r]] = @ \o <<User(r), Assistant(r)>>],
         NEW s, message' = [message EXCEPT ![r] = s],
         pc'[r] \notin {"new", "wait"} \cup Sending,
         \A q \in Requests \ {r} : pc'[q] = pc[q], conv' = conv
  PROVE  Paired' /\ Asked'
<1>1. PICK c \in Convs : c = conv[r]
  BY DEF ConvInv, TypeOK, Lifecycle
<1>2. PICK more : more = <<User(r), Assistant(r)>>
  OBVIOUS
<1>3. /\ more \in Seq(Messages) /\ Len(more) = 2 /\ more[1] = User(r) /\ more[2] = Assistant(r)
      /\ User(r).of = r /\ User(r).role = "user"
      /\ Assistant(r).of = r /\ Assistant(r).role = "assistant"
  BY <1>2, MessageTypes DEF User, Assistant
<1>4. born' = [born EXCEPT ![c] = born[c] \o more]
  BY <1>1, <1>2
<1>5. PICK n \in Nat : n = Len(born[c])
  BY BornTypes
<1>6. /\ born'[c] \in Seq(Messages) /\ Len(born'[c]) = n + 2
      /\ born'[c][n + 1] = User(r) /\ born'[c][n + 2] = Assistant(r)
      /\ \A i \in 1 .. n : born'[c][i] = born[c][i]
      /\ \A d \in Convs \ {c} : born'[d] = born[d]
  <2>1. /\ born'[c] \in Seq(Messages) /\ Len(born'[c]) = Len(born[c]) + Len(more)
        /\ \A i \in 1 .. Len(born[c]) : born'[c][i] = born[c][i]
        /\ \A i \in 1 .. Len(more) : born'[c][Len(born[c]) + i] = more[i]
        /\ \A d \in Convs \ {c} : born'[d] = born[d]
    BY <1>3, <1>4, Longer
  <2>2. 1 \in 1 .. Len(more) /\ 2 \in 1 .. Len(more)
    BY <1>3
  <2>3. born'[c][n + 1] = more[1] /\ born'[c][n + 2] = more[2]
    BY <1>5, <2>1, <2>2
  <2> QED
    BY <1>3, <1>5, <2>1, <2>3
<1>7. \A d \in Convs : \A i \in 1 .. Len(born[d]) : born[d][i].of # r /\ born[d][i].of \in Requests
  BY BornTypes DEF Paired, PairedAt
<1>8. \A q \in Requests \ {r} : message'[q] = message[q]
  BY DEF ConvInv, TypeOK, Types
<1>9. Paired'
  <2>1. \A d \in Convs : \A i \in 1 .. Len(born[d]) :
          /\ pc'[born[d][i].of] \notin {"new", "wait"}
          /\ message'[born[d][i].of] # "none" => message[born[d][i].of] # "none"
    BY <1>7, <1>8 DEF Paired, PairedAt
  <2>2. PairedAt(born[c], n + 1)' /\ PairedAt(born[c], n + 2)'
    <3>1. PICK list : list = born'[c]
      OBVIOUS
    <3>2. n + 1 \in 1 .. Len(list) /\ n + 2 \in 1 .. Len(list) /\ (n + 1) + 1 = n + 2 /\ (n + 2) - 1 = n + 1
      BY <1>6, <3>1
    <3>3. PairedAt(list, n + 1)'
      BY <1>3, <1>6, <3>1, <3>2 DEF PairedAt
    <3>4. PairedAt(list, n + 2)'
      BY <1>3, <1>6, <3>1, <3>2 DEF PairedAt
    <3> QED
      BY <3>1, <3>3, <3>4 DEF PairedAt
  <2>3. \A i \in (1 .. Len(born'[c])) \ 1 .. Len(born[c]) : i = n + 1 \/ i = n + 2
    BY <1>5, <1>6
  <2>4. Len(born'[c]) >= Len(born[c])
    BY <1>5, <1>6
  <2> QED
    BY <1>5, <1>6, <2>1, <2>2, <2>3, <2>4, PairsGrow
<1>10. Asked'
  BY DEF Asked, LockFree, Sending
<1> QED
  BY <1>9, <1>10

\* A send stores its answer, which comes right after its question.
LEMMA AnswerTurn ==
  ASSUME ConvInv, Paired, Asked, NEW r \in Requests, SendAnswered(r), conv[r] \notin deleted
  PROVE  Paired' /\ Asked'
<1>1. /\ pc[r] = "model" /\ pc[r] \in Sending /\ conv[r] \in Convs
      /\ \A q \in Requests \ {r} : pc[q] \notin Sending
      /\ conv' = conv
  BY DEF ConvInv, TypeOK, Lifecycle, Alone, SendAnswered, Sending, reqVars
<1>2. pc'[r] = "done" /\ \A q \in Requests \ {r} : pc'[q] = pc[q] /\ message'[q] = message[q]
  BY DEF SendAnswered, Ends, ConvInv, TypeOK, Types
<1>3. PICK c \in Convs : c = conv[r]
  BY <1>1
<1>4. /\ User(r).of = r /\ User(r).role = "user"
      /\ Assistant(r).of = r /\ Assistant(r).role = "assistant"
  BY DEF User, Assistant
<1>5. PICK m \in Messages : m = Assistant(r)
  BY MessageTypes
<1>6. born' = [born EXCEPT ![c] = Append(born[c], m)]
  BY <1>3, <1>5 DEF SendAnswered
<1>7. PICK n \in Nat : n = Len(born[c])
  BY BornTypes
<1>8. /\ born'[c] \in Seq(Messages) /\ Len(born'[c]) = n + 1 /\ born'[c][n + 1] = Assistant(r)
      /\ \A i \in 1 .. n : born'[c][i] = born[c][i]
      /\ \A d \in Convs \ {c} : born'[d] = born[d]
  <2>1. /\ born'[c] \in Seq(Messages) /\ Len(born'[c]) = Len(born[c]) + 1
        /\ born'[c][Len(born[c]) + 1] = m
        /\ \A i \in 1 .. Len(born[c]) : born'[c][i] = born[c][i]
        /\ \A d \in Convs \ {c} : born'[d] = born[d]
    BY <1>6, OneLonger
  <2> QED
    BY <1>5, <1>7, <2>1
<1>9. /\ n > 0 /\ born[c][n] = User(r)
      /\ \A d \in Convs : \A i \in 1 .. Len(born[d]) :
           born[d][i].of \in Requests /\ (born[d][i].of = r => d = c /\ i = n)
  BY <1>1, <1>3, <1>7, BornTypes DEF Asked
<1>10. PairedAt(born[c], n)' /\ PairedAt(born[c], n + 1)'
  <2>1. PICK list : list = born'[c]
    OBVIOUS
  <2>2. /\ n \in 1 .. Len(list) /\ n + 1 \in 1 .. Len(list) /\ (n + 1) - 1 = n
        /\ list[n] = User(r) /\ list[n + 1] = Assistant(r)
    BY <1>8, <1>9, <2>1
  <2>3. PairedAt(list, n)'
    BY <1>2, <1>4, <2>2 DEF PairedAt
  <2>4. PairedAt(list, n + 1)'
    BY <1>2, <1>4, <2>2 DEF PairedAt
  <2> QED
    BY <2>1, <2>3, <2>4 DEF PairedAt
<1>11. Paired'
  <2>1. \A d \in Convs : \A i \in 1 .. Len(born[d]) :
          \/ /\ pc'[born[d][i].of] \notin {"new", "wait"}
             /\ message'[born[d][i].of] # "none" => message[born[d][i].of] # "none"
          \/ d = c /\ i = n
    BY <1>2, <1>9 DEF Paired, PairedAt
  <2>2. \A d \in Convs : \A i \in 1 .. Len(born[d]) :
          \/ /\ pc'[born[d][i].of] \notin {"new", "wait"}
             /\ message'[born[d][i].of] # "none" => message[born[d][i].of] # "none"
          \/ d = c /\ PairedAt(born[c], i)'
    BY <1>10, <2>1
  <2>3. \A i \in (1 .. Len(born'[c])) \ 1 .. Len(born[c]) : i = n + 1
    BY <1>7, <1>8
  <2>4. Len(born'[c]) >= Len(born[c])
    BY <1>7, <1>8
  <2> QED
    BY <1>7, <1>8, <1>10, <2>2, <2>3, <2>4, PairsGrow
<1>12. Asked'
  BY <1>1, <1>2 DEF Asked, Sending
<1> QED
  BY <1>11, <1>12

LEMMA TurnsNext == ConvInv /\ Paired /\ Asked /\ [Next]_vars => Paired' /\ Asked'
<1> SUFFICES ASSUME ConvInv, Paired, Asked, [Next]_vars PROVE Paired' /\ Asked'
  OBVIOUS
<1>0. pc \in [Requests -> {"new", "wait", "retrieve", "model", "stream", "close", "done", "gone"}]
  BY DEF ConvInv, TypeOK, Types
<1>1. ASSUME NEW r \in Requests, NEW k \in {"send", "stream", "cancel"}, NEW c \in Convs,
             NEW q \in Requests \cup {NoRequest}, Arrive(r, k, c, q)
      PROVE  Paired' /\ Asked'
  BY <1>0, <1>1, TurnsStay DEF Arrive, ConvInv, TypeOK, Types, Sending
<1>2. ASSUME NEW r \in Requests, Step(r) PROVE Paired' /\ Asked'
  <2>1. CASE SendBegin(r)
    BY <2>1, SendBeginTurns
  <2>2. CASE SendGuarded(r)
    BY <1>0, <2>2, TurnAtOnce DEF SendGuarded, Enters, Ends, reqVars, Sending
  <2>3. CASE StreamBegin(r)
    BY <1>0, <2>3, TurnAtOnce DEF StreamBegin, Enters, reqVars, Sending
  <2>4. CASE SendAnswered(r) /\ conv[r] \notin deleted
    BY <2>4, AnswerTurn
  <2>5. CASE SendAnswered(r) /\ conv[r] \in deleted
    BY <1>0, <2>5, TurnsStay DEF SendAnswered, Ends, reqVars, Sending
  <2>6. CASE Refuse(r) \/ SendRetrieved(r) \/ SendFails(r) \/ StreamClose(r) \/ CancelSettled(r) \/ CancelActive(r)
    BY <1>0, <2>6, TurnsStay
       DEF Refuse, SendRetrieved, SendFails, StreamClose, CancelSettled, CancelActive, Ends,
           reqVars, Sending
  <2>7. CASE StreamFinish(r) \/ StreamFails(r)
    <3>1. message[r] # "none" /\ message \in [Requests -> Settled \cup {"none", "streaming"}]
      BY <2>7 DEF StreamFinish, StreamFails, ConvInv, TypeOK, Types, Lifecycle
    <3> QED
      BY <1>0, <2>7, <3>1, TurnsStay DEF StreamFinish, StreamFails, reqVars, Sending
  <2>8. CASE CancelOrphan(r)
    <3>1. message[target[r]] # "none" /\ message \in [Requests -> Settled \cup {"none", "streaming"}]
      BY <2>8 DEF CancelOrphan, ConvInv, TypeOK, Types
    <3> QED
      BY <1>0, <2>8, <3>1, TurnsStay DEF CancelOrphan, Ends, reqVars, Sending
  <2> QED
    BY <1>2, <2>1, <2>2, <2>3, <2>4, <2>5, <2>6, <2>7, <2>8 DEF Step
<1>3. CASE \/ \E r \in Requests : Abandon(r)
           \/ \E c \in Convs : Delete(c)
           \/ Crash \/ UNCHANGED vars
  BY <1>0, <1>3, TurnsStay DEF Abandon, Delete, Crash, vars, reqVars, Sending
<1> QED
  BY <1>1, <1>2, <1>3 DEF Next

\* The history a conversation shows is a sequence of whole turns, a question and right
\* after it its answer, whatever is sent, streamed, cancelled, deleted or cut off meanwhile
\* (send_message, stream_message).
THEOREM TurnsStayWhole == Spec => []TurnsAreWhole
<1>1. Init => Paired /\ Asked
  <2>1. Len(<<>>) = 0 /\ 1 .. 0 = {}
    OBVIOUS
  <2> QED
    BY <2>1 DEF Init, Paired, Asked, Sending
<1>2. ConvInv /\ Paired => TurnsAreWhole
  <2> SUFFICES ASSUME ConvInv, Paired, NEW c \in Convs, NEW i \in Shown(c)
               PROVE  \E j \in Shown(c) : Turn(c, i, j) \/ Turn(c, j, i)
    BY DEF TurnsAreWhole
  <2>1. /\ i \in 1 .. Len(born[c]) /\ message[born[c][i].of] # "none" /\ Shown(c) \subseteq Int
        /\ born[c][i].of \in Requests
        /\ born[c][i].role \in {"user", "assistant"} /\ born[c][i] \in Messages
    BY BornTypes DEF Shown, Messages
  <2>2. CASE born[c][i].role = "user"
    <3>1. i + 1 \in 1 .. Len(born[c]) /\ born[c][i + 1] = Assistant(born[c][i].of)
      BY <2>1, <2>2 DEF Paired, PairedAt
    <3>2. i + 1 \in Shown(c) /\ born[c][i + 1].role = "assistant" /\ born[c][i + 1].of = born[c][i].of
      BY <2>1, <3>1 DEF Shown, Assistant
    <3>3. born[c][i] = User(born[c][i].of)
      BY <2>1, <2>2 DEF User, Messages
    <3>4. \A k \in Shown(c) : ~(i < k /\ k < i + 1)
      BY <2>1
    <3>5. Turn(c, i, i + 1)
      BY <2>1, <3>2, <3>3, <3>4 DEF Turn
    <3> QED
      BY <3>2, <3>5
  <2>3. CASE born[c][i].role = "assistant"
    <3>1. i - 1 \in 1 .. Len(born[c]) /\ born[c][i - 1] = User(born[c][i].of)
      BY <2>1, <2>3 DEF Paired, PairedAt
    <3>2. i - 1 \in Shown(c)
      BY <2>1, <3>1 DEF Shown, User
    <3>3. \A k \in Shown(c) : ~(i - 1 < k /\ k < i)
      BY <2>1
    <3>4. Turn(c, i - 1, i)
      BY <2>1, <2>3, <3>1, <3>3 DEF Turn
    <3> QED
      BY <3>2, <3>4
  <2> QED
    BY <2>1, <2>2, <2>3
<1> QED
  BY <1>1, <1>2, TurnsNext, ConvInvariant, PTL DEF Spec
=============================================================================
