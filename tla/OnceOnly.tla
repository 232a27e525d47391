------------------------------ MODULE OnceOnly ------------------------------
(***************************************************************************)
(* What an Idempotency-Key promises: however many requests carry a key,    *)
(* the key is executed at most once, and every request that is told of a   *)
(* job is told of the one job its key stands for.                          *)
(***************************************************************************)

CONSTANTS Requests, Keys, NoKey, Jobs

VARIABLES
  asked,   \* the key of each request that has come in
  ran,     \* the jobs each key was executed as
  told     \* the jobs each request was told of

Init ==
  /\ asked = [r \in Requests |-> NoKey]
  /\ ran = [k \in Keys |-> {}]
  /\ told = [r \in Requests |-> {}]

\* A request with key k comes in.
Ask(r, k) ==
  /\ asked[r] = NoKey
  /\ asked' = [asked EXCEPT ![r] = k]
  /\ UNCHANGED <<ran, told>>

\* Key k is executed for some request that carries it, for the first and last time.
Execute(k, j) ==
  /\ \E r \in Requests : asked[r] = k
  /\ ran[k] = {}
  /\ \A l \in Keys : j \notin ran[l]
  /\ ran' = [ran EXCEPT ![k] = {j}]
  /\ UNCHANGED <<asked, told>>

\* A request is told of the job of its key.
Tell(r) ==
  /\ asked[r] \in Keys
  /\ ran[asked[r]] # {}
  /\ told[r] = {}
  /\ told' = [told EXCEPT ![r] = ran[asked[r]]]
  /\ UNCHANGED <<asked, ran>>

Next ==
  \/ \E r \in Requests, k \in Keys : Ask(r, k)
  \/ \E k \in Keys, j \in Jobs : Execute(k, j)
  \/ \E r \in Requests : Tell(r)

Spec == Init /\ [][Next]_<<asked, ran, told>>
=============================================================================
