--------------------------- MODULE Sessions_proofs ---------------------------
(***************************************************************************)
(* Theorems about Sessions and their proofs: they hold for any number of   *)
(* browsers, requests and restarts and for all lifetimes of the tokens.    *)
(***************************************************************************)
EXTENDS Sessions, FiniteSetTheorems, TLAPS

\* Calls a server or the network has dealt with.
Handled == {r \in Calls : reqs[r].pc \notin {"none", "sent"}}

\* A request is a browser's, and at most one token was issued for each request handled.
Counted ==
  /\ \A r \in Calls : reqs[r].pc # "none" => reqs[r].from \in Browsers /\ r <= sent
  /\ issued <= Cardinality(Handled)

\* Every token issued belongs to a login.
Known == \A t \in 1 .. issued : login[t] \in 1 .. logins

\* An ended login has no live token, and no access token outlasts what its login may still
\* be granted by one lifetime.
EndedAndBounded ==
  /\ \A l \in Logins : ended[l] >= 0 => l <= logins /\ ~Open(l)
  /\ \A l \in Logins : access[l] <= now + AccessTtl

SessionInv ==
  /\ SessionsTypeOK /\ Counted /\ Known /\ OneTokenPerLogin /\ EndedAndBounded /\ AccessEndsSoon

\* The parts of SessionsTypeOK about the server's numbers and about the browsers.
Numbers ==
  /\ now \in 0 .. MaxTime /\ restarts \in 0 .. MaxRestarts
  /\ issued \in 0 .. MaxCalls /\ logins \in 0 .. issued
  /\ login \in [Tokens -> Logins \cup {0}]
  /\ expires \in [Tokens -> 0 .. MaxTime + RefreshTtl]
  /\ store \subseteq 1 .. issued
  /\ access \in [Logins -> 0 .. MaxTime + AccessTtl]
  /\ ended \in [Logins -> -1 .. MaxTime]
Jars ==
  /\ sent \in 0 .. MaxCalls
  /\ jar \in [Browsers -> Tokens \cup {NoToken}]
  /\ reqs \in [Calls -> CallSet]
  /\ clashed \subseteq Browsers

-----------------------------------------------------------------------------
\* What a step may do to the tokens without issuing one: drop some, and let time pass.
Dropping ==
  /\ now' \in now .. MaxTime /\ store' \subseteq store
  /\ UNCHANGED <<issued, login, expires, access, logins>>

\* A token for login l is issued, and an access token granted to it.
Issuing(l, left) ==
  /\ UNCHANGED <<now, ended, restarts>>
  /\ Grant(l) /\ Issue(left, l)

LEMMA Split2 == SessionsTypeOK <=> Numbers /\ Jars
  BY DEF SessionsTypeOK, Numbers, Jars

LEMMA JoinNext ==
  ASSUME Numbers', Jars'
  PROVE  SessionsTypeOK'
  BY DEF SessionsTypeOK, Numbers, Jars

\* The constants and the types, as facts about numbers.
LEMMA Facts ==
  ASSUME SessionsTypeOK
  PROVE  /\ RefreshTtl \in Nat \ {0} /\ AccessTtl \in Nat \ {0}
         /\ MaxTime \in Nat /\ MaxCalls \in Nat /\ MaxRestarts \in Nat
         /\ now \in Nat /\ issued \in Nat /\ logins \in Nat
         /\ \A t \in store : t \in Tokens /\ t <= issued /\ expires[t] \in Nat
         /\ \A l \in Logins : access[l] \in Nat /\ ended[l] \in Int
  BY TtlAssumption DEF SessionsTypeOK, Tokens, Logins

LEMMA SessionInit == SessionsInit => SessionInv
<1> SUFFICES ASSUME SessionsInit PROVE SessionInv
  OBVIOUS
<1> USE TtlAssumption DEF SessionsInit
<1>1. SessionsTypeOK
  <2>1. Numbers
    BY DEF Numbers, Tokens, Logins
  <2>2. Jars
    BY DEF Jars, Calls, CallSet, NoCall, NoToken, Tokens, Kinds
  <2> QED
    BY <2>1, <2>2, Split2
<1>2. Counted
  <2>1. Handled = {}
    BY DEF Handled, NoCall, Calls
  <2>2. \A r \in Calls : reqs[r].pc = "none"
    BY DEF NoCall, Calls
  <2> QED
    BY <2>1, <2>2, FS_EmptySet DEF Counted
<1>3. Known /\ OneTokenPerLogin /\ AccessEndsSoon
  BY DEF Known, OneTokenPerLogin, AccessEndsSoon
<1>4. EndedAndBounded
  BY DEF EndedAndBounded
<1> QED
  BY <1>1, <1>2, <1>3, <1>4 DEF SessionInv

-----------------------------------------------------------------------------
(* The requests and the number of tokens.                                   *)

LEMMA HandledFinite ==
  ASSUME NEW S \in SUBSET Calls
  PROVE  IsFiniteSet(S) /\ Cardinality(S) \in Nat /\ Cardinality(S) <= MaxCalls
<1>1. IsFiniteSet(Calls) /\ Cardinality(Calls) = MaxCalls
  BY TtlAssumption, FS_Interval DEF Calls
<1> QED
  BY <1>1, FS_Subset, FS_CardinalityType

\* There is room for the token of a request that is to be answered.
LEMMA Room ==
  ASSUME SessionInv, NEW r \in Calls, reqs[r].pc = "sent"
  PROVE  issued + 1 <= MaxCalls /\ issued + 1 \in Tokens
<1> USE DEF SessionInv
<1>1. Handled \cup {r} \subseteq Calls /\ r \notin Handled
  BY DEF Handled
<1>2. IsFiniteSet(Handled) /\ Cardinality(Handled) \in Nat
  BY HandledFinite DEF Handled
<1>3. Cardinality(Handled \cup {r}) = Cardinality(Handled) + 1
  BY <1>1, <1>2, FS_AddElement
<1>4. Cardinality(Handled \cup {r}) <= MaxCalls
  BY <1>1, HandledFinite
<1> QED
  BY <1>2, <1>3, <1>4, Facts DEF Counted, Tokens

\* A request that is dealt with makes one more.
LEMMA OneMoreHandled ==
  ASSUME SessionsTypeOK, Counted, NEW r \in Calls, NEW p \in {"answered", "lost"},
         reqs[r].pc = "sent", sent' = sent,
         reqs' \in [Calls -> CallSet], reqs'[r].pc = p, reqs'[r].from = reqs[r].from,
         \A q \in Calls \ {r} : reqs'[q] = reqs[q]
  PROVE  /\ issued + 1 <= Cardinality(Handled') /\ issued + 1 <= MaxCalls
         /\ \A q \in Calls : reqs'[q].pc # "none" => reqs'[q].from \in Browsers /\ q <= sent'
<1>1. Handled' = Handled \cup {r} /\ r \notin Handled
  BY DEF Handled
<1>2. IsFiniteSet(Handled) /\ Cardinality(Handled) \in Nat /\ Cardinality(Handled \cup {r}) <= MaxCalls
  BY HandledFinite DEF Handled
<1>3. Cardinality(Handled') = Cardinality(Handled) + 1
  BY <1>1, <1>2, FS_AddElement
<1>4. issued <= Cardinality(Handled) /\ issued \in Nat /\ MaxCalls \in Nat
  BY Facts DEF Counted
<1>5. issued + 1 <= Cardinality(Handled') /\ issued + 1 <= MaxCalls
  BY <1>1, <1>2, <1>3, <1>4
<1>6. \A q \in Calls : reqs'[q].pc # "none" => reqs'[q].from \in Browsers /\ q <= sent'
  BY DEF Counted
<1> QED
  BY <1>5, <1>6

\* Handled does not shrink, in the other steps.
LEMMA HandledKept ==
  ASSUME SessionsTypeOK, Counted, issued' = issued,
         \A r \in Calls : reqs[r].pc \notin {"none", "sent"} => reqs'[r].pc \notin {"none", "sent"},
         \A r \in Calls : reqs'[r].pc # "none" => reqs'[r].from \in Browsers /\ r <= sent'
  PROVE  Counted'
<1>1. Handled \subseteq Handled' /\ Handled' \subseteq Calls
  BY DEF Handled
<1>2. IsFiniteSet(Handled') /\ Cardinality(Handled') \in Nat
  BY <1>1, HandledFinite
<1>3. Cardinality(Handled) <= Cardinality(Handled') /\ Cardinality(Handled) \in Nat
  BY <1>1, <1>2, FS_Subset, HandledFinite DEF Handled
<1>4. issued \in Nat /\ issued <= Cardinality(Handled)
  BY Facts DEF Counted
<1> QED
  BY <1>2, <1>3, <1>4 DEF Counted

\* An answered request.
LEMMA AnsweredFacts ==
  ASSUME SessionsTypeOK, NEW r \in Calls, NEW a \in Tokens \cup {NoToken}, Answered(r, a)
  PROVE  /\ reqs' \in [Calls -> CallSet]
         /\ reqs'[r].pc = "answered" /\ reqs'[r].from = reqs[r].from
         /\ \A q \in Calls \ {r} : reqs'[q] = reqs[q]
<1>1. reqs \in [Calls -> CallSet]
  BY DEF SessionsTypeOK
<1>2. [reqs[r] EXCEPT !.pc = "answered", !.answer = a] \in CallSet
  BY <1>1 DEF CallSet
<1>3. reqs' = [reqs EXCEPT ![r] = [reqs[r] EXCEPT !.pc = "answered", !.answer = a]]
  BY <1>1 DEF Answered
<1> QED
  BY <1>1, <1>2, <1>3 DEF CallSet

-----------------------------------------------------------------------------
(* The tokens.                                                              *)

\* The tokens and logins after one was issued.
LEMMA IssuedFacts ==
  ASSUME SessionsTypeOK, Known, NEW l \in 1 .. issued + 1, NEW left \in SUBSET store, Issuing(l, left),
         issued + 1 <= MaxCalls,
         logins' \in logins .. logins + 1, l <= logins'
  PROVE  /\ Numbers' /\ Known'
         /\ issued' = issued + 1 /\ store' = left \cup {issued + 1}
         /\ login'[issued + 1] = l /\ expires'[issued + 1] = now + RefreshTtl
         /\ \A t \in store : t # issued + 1 /\ login'[t] = login[t] /\ expires'[t] = expires[t]
         /\ access'[l] = now + AccessTtl
         /\ \A k \in Logins \ {l} : access'[k] = access[k]
<1>1. /\ issued' = issued + 1 /\ store' = left \cup {issued + 1}
      /\ login' = [login EXCEPT ![issued + 1] = l]
      /\ expires' = [expires EXCEPT ![issued + 1] = now + RefreshTtl]
      /\ access' = [access EXCEPT ![l] = now + AccessTtl]
      /\ UNCHANGED <<now, ended, restarts>>
  BY DEF Issuing, Grant, Issue
<1>2. Numbers
  BY Split2
<1>3. issued + 1 \in Tokens /\ l \in Logins /\ issued \in Nat /\ logins \in Nat /\ now \in 0 .. MaxTime
  BY <1>2, TtlAssumption DEF Tokens, Logins, Numbers
<1>4. /\ login'[issued + 1] = l /\ expires'[issued + 1] = now + RefreshTtl
      /\ \A t \in 1 .. issued : login'[t] = login[t] /\ expires'[t] = expires[t]
      /\ access'[l] = now + AccessTtl
      /\ \A k \in Logins \ {l} : access'[k] = access[k]
  BY <1>1, <1>2, <1>3, TtlAssumption DEF Numbers, Tokens
<1>5. Known'
  <2> SUFFICES ASSUME NEW t \in 1 .. issued + 1 PROVE login'[t] \in 1 .. logins'
    BY <1>1 DEF Known
  <2>1. CASE t = issued + 1
    BY <1>3, <1>4, <2>1
  <2>2. CASE t \in 1 .. issued
    BY <1>3, <1>4, <2>2 DEF Known
  <2> QED
    BY <1>3, <2>1, <2>2
<1>6. /\ now' \in 0 .. MaxTime /\ restarts' \in 0 .. MaxRestarts /\ issued' \in 0 .. MaxCalls
      /\ ended' \in [Logins -> -1 .. MaxTime]
  BY <1>1, <1>2, <1>3, TtlAssumption DEF Numbers
<1>7. logins' \in 0 .. issued' /\ store' \subseteq 1 .. issued'
  BY <1>1, <1>2, <1>3 DEF Numbers
<1>8. login' \in [Tokens -> Logins \cup {0}]
  BY <1>1, <1>2, <1>3 DEF Numbers
<1>9. expires' \in [Tokens -> 0 .. MaxTime + RefreshTtl]
  BY <1>1, <1>2, <1>3, TtlAssumption DEF Numbers
<1>10. access' \in [Logins -> 0 .. MaxTime + AccessTtl]
  BY <1>1, <1>2, <1>3, TtlAssumption DEF Numbers
<1>11. \A t \in store : t # issued + 1 /\ login'[t] = login[t] /\ expires'[t] = expires[t]
  BY <1>2, <1>3, <1>4 DEF Numbers
<1> QED
  BY <1>1, <1>4, <1>5, <1>6, <1>7, <1>8, <1>9, <1>10, <1>11 DEF Numbers

\* Without a new token, a login keeps at most one live token, and no login opens again.
LEMMA DroppingFacts ==
  ASSUME SessionInv, Dropping
  PROVE  /\ Known' /\ OneTokenPerLogin'
         /\ \A l \in Logins : Open(l)' => Open(l)
<1>1. \A t \in store' : t \in store /\ login'[t] = login[t] /\ (Live(t)' => Live(t))
  BY Facts DEF SessionInv, Dropping, Live
<1>2. Known'
  BY DEF Dropping, SessionInv, Known
<1>3. OneTokenPerLogin'
  BY <1>1 DEF SessionInv, OneTokenPerLogin
<1>4. \A l \in Logins : Open(l)' => Open(l)
  BY <1>1 DEF Open
<1> QED
  BY <1>2, <1>3, <1>4

\* A token issued for a login that has no other live one.
LEMMA IssuingOne ==
  ASSUME SessionInv, NEW l \in 1 .. issued + 1, NEW left \in SUBSET store, Issuing(l, left),
         issued + 1 <= MaxCalls,
         logins' \in logins .. logins + 1, l <= logins',
         \A t \in left : ~(Live(t) /\ login[t] = l),
         ended[l] = -1
  PROVE  /\ Numbers' /\ Known' /\ OneTokenPerLogin' /\ EndedAndBounded' /\ AccessEndsSoon'
         /\ \A k \in Logins \ {l} : Open(k)' => Open(k)
<1> USE DEF SessionInv
<1>1. /\ Numbers' /\ Known'
      /\ issued' = issued + 1 /\ store' = left \cup {issued + 1}
      /\ login'[issued + 1] = l /\ expires'[issued + 1] = now + RefreshTtl
      /\ \A t \in store : t # issued + 1 /\ login'[t] = login[t] /\ expires'[t] = expires[t]
      /\ access'[l] = now + AccessTtl
      /\ \A k \in Logins \ {l} : access'[k] = access[k]
  BY IssuedFacts
<1>2. now' = now /\ ended' = ended
  BY DEF Issuing
<1>3. \A t \in left : /\ t \in store /\ t \in store' /\ t # issued + 1
                      /\ login'[t] = login[t] /\ (Live(t)' <=> Live(t))
  BY <1>1, <1>2 DEF Live
<1>4. OneTokenPerLogin'
  <2> SUFFICES ASSUME NEW s \in store', NEW t \in store', Live(s)', Live(t)',
                      login'[s] = login'[t]
               PROVE  s = t
    BY DEF OneTokenPerLogin
  <2>1. CASE s \in left /\ t \in left
    BY <1>3, <2>1 DEF OneTokenPerLogin
  <2>2. CASE s \in left /\ t = issued + 1
    BY <1>1, <1>3, <2>2
  <2>3. CASE s = issued + 1 /\ t \in left
    BY <1>1, <1>3, <2>3
  <2> QED
    BY <1>1, <2>1, <2>2, <2>3
<1>5. \A k \in Logins \ {l} : Open(k)' => Open(k)
  <2> SUFFICES ASSUME NEW k \in Logins \ {l}, NEW t \in store', login'[t] = k, Live(t)'
               PROVE  Open(k)
    BY DEF Open
  <2>1. t \in left
    BY <1>1
  <2> QED
    BY <1>3, <2>1 DEF Open
<1>6. EndedAndBounded'
  <2>1. \A k \in Logins : ended'[k] >= 0 => k <= logins' /\ ~Open(k)'
    <3> SUFFICES ASSUME NEW k \in Logins, ended[k] >= 0
                 PROVE  k <= logins' /\ ~Open(k)'
      BY <1>2
    <3>1. k # l
      OBVIOUS
    <3>2. k <= logins /\ ~Open(k)
      BY DEF EndedAndBounded
    <3>3. logins <= logins' /\ logins \in Nat /\ logins' \in Nat /\ k \in Nat
      BY Facts DEF Logins
    <3> QED
      BY <1>5, <3>1, <3>2, <3>3
  <2>2. \A k \in Logins : access'[k] <= now' + AccessTtl
    BY <1>1, <1>2, Facts DEF EndedAndBounded
  <2> QED
    BY <2>1, <2>2 DEF EndedAndBounded
<1>7. AccessEndsSoon'
  BY <1>1, <1>2, Facts DEF AccessEndsSoon
<1> QED
  BY <1>1, <1>4, <1>5, <1>6, <1>7

-----------------------------------------------------------------------------
(* The steps that issue a token.                                            *)

LEMMA LoginStep ==
  ASSUME SessionInv, NEW r \in Calls, Login(r)
  PROVE  SessionInv' /\ \A l \in 1 .. logins : Open(l)' => Open(l)
<1> USE DEF SessionInv
<1>1. /\ reqs[r].pc = "sent" /\ logins' = logins + 1 /\ Grant(logins + 1) /\ Issue(store, logins + 1)
      /\ Answered(r, issued + 1) /\ UNCHANGED <<now, ended, jar, sent, clashed, restarts>>
  BY DEF Login
<1>2. Numbers /\ Jars
  BY Split2
<1>3. CASE issued + 1 <= MaxCalls
  <2>1. issued + 1 \in Tokens
    BY <1>3, Facts DEF Tokens
  <2>2. /\ reqs' \in [Calls -> CallSet]
        /\ reqs'[r].pc = "answered" /\ reqs'[r].from = reqs[r].from
        /\ \A q \in Calls \ {r} : reqs'[q] = reqs[q]
    BY <1>1, <2>1, AnsweredFacts
  <2>3. issued' = issued + 1
    BY <1>1 DEF Issue
  <2>4. Counted'
    BY <1>1, <2>2, <2>3, OneMoreHandled DEF Counted
  <2>5. Jars'
    BY <1>1, <1>2, <2>2 DEF Jars
  <2>6. /\ logins + 1 \in 1 .. issued + 1 /\ logins' \in logins .. logins + 1
        /\ logins + 1 \in Logins /\ logins + 1 <= logins' /\ ~(logins + 1 <= logins)
    BY <1>1, <1>2, <1>3, Facts DEF Numbers, Logins
  <2>7. \A t \in store : ~(Live(t) /\ login[t] = logins + 1)
    BY <1>2, <2>6, Facts DEF Known, Numbers
  <2>8. ended[logins + 1] = -1
    BY <1>2, <2>6, Facts DEF EndedAndBounded, Numbers
  <2>9. Issuing(logins + 1, store)
    BY <1>1 DEF Issuing
  <2>10. /\ Numbers' /\ Known' /\ OneTokenPerLogin' /\ EndedAndBounded' /\ AccessEndsSoon'
         /\ \A k \in Logins \ {logins + 1} : Open(k)' => Open(k)
    BY <1>3, <2>6, <2>7, <2>8, <2>9, IssuingOne
  <2>11. \A l \in 1 .. logins : l \in Logins \ {logins + 1}
    BY <1>2, <2>6, Facts DEF Numbers, Logins
  <2> QED
    BY <2>4, <2>5, <2>10, <2>11, JoinNext
<1>4. issued + 1 <= MaxCalls
  BY <1>1, Room
<1> QED
  BY <1>3, <1>4

LEMMA RefreshStep ==
  ASSUME SessionInv, NEW r \in Calls, Refresh(r)
  PROVE  SessionInv' /\ \A l \in 1 .. logins : Open(l)' => Open(l)
<1> USE DEF SessionInv
<1> DEFINE c == reqs[r].cookie
           l == login[c]
<1>1. /\ reqs[r].pc = "sent" /\ logins' = logins /\ Get(c) /\ Grant(l) /\ Issue(Rotated(c), l)
      /\ Answered(r, issued + 1) /\ UNCHANGED <<now, ended, jar, sent, clashed, restarts>>
  BY DEF Refresh
<1>2. Numbers /\ Jars
  BY Split2
<1>3. issued + 1 <= MaxCalls
  BY <1>1, Room
<1>4. issued + 1 \in Tokens
  BY <1>3, Facts DEF Tokens
<1>5. /\ reqs' \in [Calls -> CallSet]
      /\ reqs'[r].pc = "answered" /\ reqs'[r].from = reqs[r].from
      /\ \A q \in Calls \ {r} : reqs'[q] = reqs[q]
  BY <1>1, <1>4, AnsweredFacts
<1>6. issued' = issued + 1
  BY <1>1 DEF Issue
<1>7. Counted'
  BY <1>1, <1>5, <1>6, OneMoreHandled DEF Counted
<1>8. Jars'
  BY <1>1, <1>2, <1>5 DEF Jars
<1>9. c \in store /\ Live(c) /\ Rotated(c) \subseteq store /\ c \notin Rotated(c)
  BY <1>1 DEF Get, Live, Rotated
<1>10. c \in 1 .. issued /\ l \in 1 .. logins
  BY <1>2, <1>9 DEF Known, Numbers
<1>11. /\ l \in 1 .. issued + 1 /\ l \in Logins /\ l <= logins' /\ logins' \in logins .. logins + 1
  BY <1>1, <1>2, <1>10, Facts DEF Numbers, Logins
<1>12. \A t \in Rotated(c) : ~(Live(t) /\ login[t] = l)
  BY <1>9 DEF OneTokenPerLogin
<1>13. Open(l)
  BY <1>9 DEF Open
<1>14. ended[l] = -1
  BY <1>2, <1>11, <1>13, TtlAssumption DEF EndedAndBounded, Numbers
<1>15. Issuing(l, Rotated(c))
  BY <1>1 DEF Issuing
<1> HIDE DEF l, c
<1>16. /\ Numbers' /\ Known' /\ OneTokenPerLogin' /\ EndedAndBounded' /\ AccessEndsSoon'
       /\ \A k \in Logins \ {l} : Open(k)' => Open(k)
  BY <1>3, <1>9, <1>11, <1>12, <1>14, <1>15, IssuingOne
<1>17. \A k \in 1 .. logins : k \in Logins
  BY <1>2, Facts DEF Numbers, Logins
<1> QED
  BY <1>7, <1>8, <1>13, <1>16, <1>17, JoinNext

-----------------------------------------------------------------------------
(* The steps that issue none.                                               *)

\* The history of a login's end: unchanged, or its live token just went.
LEMMA EndingFacts ==
  ASSUME SessionInv, Dropping, ended' \in [Logins -> -1 .. MaxTime],
         \A l \in Logins : \/ ended'[l] = ended[l]
                           \/ ended'[l] = now' /\ l <= logins /\ ~Open(l)'
  PROVE  EndedAndBounded' /\ AccessEndsSoon'
<1> USE DEF SessionInv
<1>1. /\ now \in Nat /\ now' \in Nat /\ now <= now' /\ AccessTtl \in Nat
      /\ access' = access /\ logins' = logins
  BY Facts DEF Dropping
<1>2. \A l \in Logins : /\ access[l] \in Nat /\ ended[l] \in Int /\ ended'[l] \in Int
                        /\ access[l] <= now + AccessTtl
  BY Facts DEF EndedAndBounded
<1>3. \A l \in Logins : Open(l)' => Open(l)
  BY DroppingFacts
<1>4. EndedAndBounded'
  <2>1. \A l \in Logins : ended'[l] >= 0 => l <= logins' /\ ~Open(l)'
    BY <1>1, <1>3 DEF EndedAndBounded
  <2>2. \A l \in Logins : access'[l] <= now' + AccessTtl
    BY <1>1, <1>2
  <2> QED
    BY <2>1, <2>2 DEF EndedAndBounded
<1>5. AccessEndsSoon'
  BY <1>1, <1>2 DEF AccessEndsSoon
<1> QED
  BY <1>4, <1>5

\* The server's numbers keep their types.
LEMMA DroppingNumbers ==
  ASSUME SessionsTypeOK, Dropping, ended' \in [Logins -> -1 .. MaxTime], restarts' \in 0 .. MaxRestarts
  PROVE  Numbers'
<1>1. Numbers
  BY Split2
<1> QED
  BY <1>1, TtlAssumption DEF Numbers, Dropping

LEMMA RefusedOrLogoutStep ==
  ASSUME SessionInv, NEW r \in Calls, RefreshRefused(r) \/ Logout(r)
  PROVE  SessionInv' /\ Dropping
<1> USE DEF SessionInv
<1>1. /\ reqs[r].pc = "sent" /\ Answered(r, NoToken) /\ store' = store \ {reqs[r].cookie}
      /\ UNCHANGED <<now, issued, login, expires, access, logins, jar, sent, clashed, restarts>>
  BY DEF RefreshRefused, Logout
<1>2. Numbers /\ Jars
  BY Split2
<1>3. Dropping
  BY <1>1, <1>2, TtlAssumption DEF Dropping, Numbers
<1>4. /\ reqs' \in [Calls -> CallSet]
      /\ reqs'[r].pc = "answered" /\ reqs'[r].from = reqs[r].from
      /\ \A q \in Calls \ {r} : reqs'[q] = reqs[q]
  BY <1>1, AnsweredFacts
<1>5. Jars'
  BY <1>1, <1>2, <1>4 DEF Jars
<1>6. Counted'
  BY <1>1, <1>4, HandledKept DEF Counted
<1>7. /\ ended' \in [Logins -> -1 .. MaxTime]
      /\ \A l \in Logins : \/ ended'[l] = ended[l]
                           \/ ended'[l] = now' /\ l <= logins /\ ~Open(l)'
  <2>1. CASE RefreshRefused(r)
    BY <1>2, <2>1 DEF RefreshRefused, Numbers
  <2>2. CASE Logout(r)
    <3>1. ended' = [l \in Logins |-> IF \E t \in store : /\ t = reqs[r].cookie
                                                       /\ login[t] = l /\ Live(t)
                                     THEN now ELSE ended[l]]
      BY <2>2 DEF Logout
    <3>2. now \in -1 .. MaxTime
      BY <1>2, TtlAssumption DEF Numbers
    <3>3. ended' \in [Logins -> -1 .. MaxTime]
      BY <1>2, <3>1, <3>2 DEF Numbers
    <3>4. ASSUME NEW l \in Logins, ended'[l] # ended[l]
          PROVE  ended'[l] = now' /\ l <= logins /\ ~Open(l)'
      <4>1. PICK t \in store : t = reqs[r].cookie /\ login[t] = l /\ Live(t)
        BY <3>1, <3>4
      <4>2. ended'[l] = now'
        BY <1>1, <3>1, <3>4
      <4>3. l <= logins
        BY <1>2, <4>1, Facts DEF Known, Numbers
      <4>4. \A s \in store' : s \in store /\ s # t /\ login'[s] = login[s] /\ (Live(s)' => Live(s))
        BY <1>1, <4>1 DEF Live
      <4>5. ~Open(l)'
        BY <4>1, <4>4 DEF Open, OneTokenPerLogin
      <4> QED
        BY <4>2, <4>3, <4>5
    <3> QED
      BY <3>3, <3>4
  <2> QED
    BY <2>1, <2>2
<1>8. Numbers'
  BY <1>1, <1>2, <1>3, <1>7, DroppingNumbers DEF Numbers
<1> QED
  BY <1>3, <1>5, <1>6, <1>7, <1>8, DroppingFacts, EndingFacts, JoinNext

LEMMA RestartStep ==
  ASSUME SessionInv, Restart
  PROVE  SessionInv' /\ Dropping
<1> USE DEF SessionInv
<1>1. /\ restarts < MaxRestarts /\ restarts' = restarts + 1 /\ store' = {}
      /\ ended' = [l \in Logins |-> IF Open(l) THEN now ELSE ended[l]]
      /\ UNCHANGED <<now, issued, login, expires, access, logins, jar, reqs, sent, clashed>>
  BY DEF Restart
<1>2. Numbers /\ Jars
  BY Split2
<1>3. Dropping
  BY <1>1, <1>2, TtlAssumption DEF Dropping, Numbers
<1>4. Jars' /\ Counted'
  BY <1>1, <1>2, HandledKept DEF Jars, Counted
<1>5. ended' \in [Logins -> -1 .. MaxTime] /\ restarts' \in 0 .. MaxRestarts
  BY <1>1, <1>2, TtlAssumption DEF Numbers
<1>6. \A l \in Logins : Open(l) => l <= logins
  BY <1>2, Facts DEF Known, Numbers, Open
<1>7. \A l \in Logins : ~Open(l)'
  BY <1>1 DEF Open
<1>8. ASSUME NEW l \in Logins
      PROVE  \/ ended'[l] = ended[l]
             \/ ended'[l] = now' /\ l <= logins /\ ~Open(l)'
  <2>1. CASE Open(l)
    <3>1. ended'[l] = now
      BY <1>1, <2>1
    <3> QED
      BY <1>1, <1>6, <1>7, <2>1, <3>1
  <2>2. CASE ~Open(l)
    BY <1>1, <2>2
  <2> QED
    BY <2>1, <2>2
<1> QED
  BY <1>3, <1>4, <1>5, <1>8, DroppingFacts, DroppingNumbers, EndingFacts, JoinNext

LEMMA TickStep ==
  ASSUME SessionInv, Tick
  PROVE  SessionInv' /\ Dropping
<1> USE DEF SessionInv
<1>1. /\ now < MaxTime /\ now' = now + 1
      /\ ended' = [l \in Logins |-> IF \E t \in store : login[t] = l /\ Live(t)
                                                       /\ expires[t] = now + 1
                                    THEN now + 1 ELSE ended[l]]
      /\ UNCHANGED <<serverVars, jar, reqs, sent, clashed, restarts>>
  BY DEF Tick
<1>2. Numbers /\ Jars
  BY Split2
<1>3. Dropping
  BY <1>1, <1>2, TtlAssumption DEF Dropping, Numbers, serverVars
<1>4. Jars' /\ Counted'
  BY <1>1, <1>2, HandledKept DEF Jars, Counted, serverVars
<1>5. now + 1 \in -1 .. MaxTime
  BY <1>1, <1>2, TtlAssumption DEF Numbers
<1>6. ended' \in [Logins -> -1 .. MaxTime] /\ restarts' \in 0 .. MaxRestarts
  BY <1>1, <1>2, <1>5 DEF Numbers
<1>7. ASSUME NEW l \in Logins, ended'[l] # ended[l]
      PROVE  ended'[l] = now' /\ l <= logins /\ ~Open(l)'
  <2>1. PICK t \in store : login[t] = l /\ Live(t) /\ expires[t] = now + 1
    BY <1>1, <1>7
  <2>2. ended'[l] = now'
    BY <1>1, <1>7
  <2>3. l <= logins
    BY <1>2, <2>1, Facts DEF Known, Numbers
  <2>4. \A s \in store' : s \in store /\ login'[s] = login[s] /\ (Live(s)' => Live(s))
    BY <1>1, Facts DEF Live, serverVars
  <2>5. ~Live(t)'
    BY <1>1, <2>1, Facts DEF Live, serverVars
  <2>6. ~Open(l)'
    BY <2>1, <2>4, <2>5 DEF Open, OneTokenPerLogin
  <2> QED
    BY <2>2, <2>3, <2>6
<1> QED
  BY <1>3, <1>4, <1>6, <1>7, DroppingFacts, DroppingNumbers, EndingFacts, JoinNext

\* The browsers' steps leave the server alone.
LEMMA BrowserStep ==
  ASSUME SessionInv,
         \/ \E b \in Browsers, k \in Kinds : Send(b, k)
         \/ \E r \in Calls : Deliver(r) \/ Lose(r)
  PROVE  SessionInv' /\ Dropping
<1> USE DEF SessionInv
<1>1. UNCHANGED <<now, issued, login, expires, store, access, logins, ended, restarts>>
  BY DEF Send, Deliver, Lose, serverVars
<1>2. Numbers /\ Jars
  BY Split2
<1>3. Dropping /\ Numbers'
  BY <1>1, <1>2, TtlAssumption DEF Dropping, Numbers
<1>4. Jars' /\ Counted'
  <2>1. reqs \in [Calls -> CallSet] /\ jar \in [Browsers -> Tokens \cup {NoToken}]
    BY <1>2 DEF Jars
  <2>2. ASSUME NEW b \in Browsers, NEW k \in Kinds, Send(b, k)
        PROVE  Jars' /\ Counted'
    <3> DEFINE new == [kind |-> k, from |-> b, cookie |-> jar[b], pc |-> "sent", answer |-> NoToken]
    <3>1. new \in CallSet
      BY <2>1 DEF CallSet
    <3>2. /\ sent < MaxCalls /\ sent' = sent + 1 /\ reqs' = [reqs EXCEPT ![sent + 1] = new]
          /\ clashed' \subseteq clashed \cup {b} /\ jar' = jar
      BY <2>2 DEF Send
    <3>3. sent + 1 \in Calls /\ sent' \in 0 .. MaxCalls
      BY <1>2, <3>2, TtlAssumption DEF Jars, Calls
    <3>4. Jars'
      BY <1>1, <1>2, <2>1, <3>1, <3>2, <3>3 DEF Jars
    <3>5. new.pc = "sent" /\ new.from = b
      OBVIOUS
    <3> HIDE DEF new
    <3>6. reqs[sent + 1].pc = "none"
      BY <1>2, <3>2, <3>3 DEF Counted, Jars
    <3>7. \A q \in Calls : /\ reqs[q].pc \notin {"none", "sent"} => reqs'[q].pc \notin {"none", "sent"}
                           /\ reqs'[q].pc # "none" => reqs'[q].from \in Browsers /\ q <= sent'
      <4> SUFFICES ASSUME NEW q \in Calls
                   PROVE  /\ reqs[q].pc \notin {"none", "sent"} => reqs'[q].pc \notin {"none", "sent"}
                          /\ reqs'[q].pc # "none" => reqs'[q].from \in Browsers /\ q <= sent'
        OBVIOUS
      <4>1. CASE q = sent + 1
        BY <2>1, <3>2, <3>3, <3>5, <3>6, <4>1 DEF Calls
      <4>2. CASE q # sent + 1
        <5>1. reqs'[q] = reqs[q]
          BY <2>1, <3>2, <4>2
        <5>2. sent \in Nat /\ q \in Nat
          BY <1>2 DEF Jars, Calls
        <5> QED
          BY <3>2, <5>1, <5>2 DEF Counted
      <4> QED
        BY <4>1, <4>2
    <3> QED
      BY <1>1, <3>4, <3>7, HandledKept DEF Counted
  <2>3. ASSUME NEW r \in Calls, Deliver(r)
        PROVE  Jars' /\ Counted'
    <3>1. /\ reqs[r].pc = "answered" /\ jar' = [jar EXCEPT ![reqs[r].from] = Cookie(r)]
          /\ reqs' = [reqs EXCEPT ![r] = [reqs[r] EXCEPT !.pc = "done"]]
          /\ sent' = sent /\ clashed' = clashed
      BY <2>1, <2>3 DEF Deliver
    <3>2. [reqs[r] EXCEPT !.pc = "done"] \in CallSet
      BY <2>1 DEF CallSet
    <3>3. reqs[r].from \in Browsers
      BY <3>1 DEF Counted
    <3>4. Cookie(r) \in Tokens \cup {NoToken}
      BY <2>1, <3>3 DEF Cookie, CallSet
    <3>5. Jars'
      BY <1>2, <2>1, <3>1, <3>2, <3>4 DEF Jars
    <3>6. \A q \in Calls : /\ reqs'[q].from = reqs[q].from
                           /\ reqs[q].pc \notin {"none", "sent"} => reqs'[q].pc \notin {"none", "sent"}
                           /\ reqs'[q].pc # "none" => reqs[q].pc # "none"
      BY <2>1, <3>1 DEF CallSet
    <3>7. Counted'
      BY <1>1, <3>1, <3>6, HandledKept DEF Counted
    <3> QED
      BY <3>5, <3>7
  <2>4. ASSUME NEW r \in Calls, Lose(r)
        PROVE  Jars' /\ Counted'
    <3>1. /\ reqs[r].pc \in {"sent", "answered"} /\ jar' = jar
          /\ reqs' = [reqs EXCEPT ![r] = [reqs[r] EXCEPT !.pc = "lost"]]
          /\ sent' = sent /\ clashed' = clashed \cup {reqs[r].from}
      BY <2>1, <2>4 DEF Lose
    <3>2. [reqs[r] EXCEPT !.pc = "lost"] \in CallSet
      BY <2>1 DEF CallSet
    <3>3. reqs[r].from \in Browsers
      BY <3>1 DEF Counted
    <3>5. Jars'
      BY <1>2, <2>1, <3>1, <3>2, <3>3 DEF Jars
    <3>6. \A q \in Calls : /\ reqs'[q].from = reqs[q].from
                           /\ reqs[q].pc \notin {"none", "sent"} => reqs'[q].pc \notin {"none", "sent"}
                           /\ reqs'[q].pc # "none" => reqs[q].pc # "none"
      BY <2>1, <3>1 DEF CallSet
    <3>7. Counted'
      BY <1>1, <3>1, <3>6, HandledKept DEF Counted
    <3> QED
      BY <3>5, <3>7
  <2> QED
    BY <1>1, <2>2, <2>3, <2>4
<1>5. EndedAndBounded' /\ AccessEndsSoon'
  BY <1>1, <1>2, <1>3, EndingFacts DEF Numbers
<1> QED
  BY <1>3, <1>4, <1>5, DroppingFacts, JoinNext

-----------------------------------------------------------------------------
\* Every step keeps the invariant and opens no login again.
LEMMA SessionNext ==
  ASSUME SessionInv, SessionsNext
  PROVE  SessionInv' /\ \A l \in 1 .. logins : Open(l)' => Open(l)
<1>1. \A l \in 1 .. logins : l \in Logins
  BY Facts DEF SessionInv, SessionsTypeOK, Logins
<1>2. CASE \E r \in Calls : Login(r)
  BY <1>2, LoginStep
<1>3. CASE \E r \in Calls : Refresh(r)
  BY <1>3, RefreshStep
<1>4. CASE \E r \in Calls : RefreshRefused(r) \/ Logout(r)
  BY <1>1, <1>4, RefusedOrLogoutStep, DroppingFacts
<1>5. CASE Tick
  BY <1>1, <1>5, TickStep, DroppingFacts
<1>6. CASE Restart
  BY <1>1, <1>6, RestartStep, DroppingFacts
<1>7. CASE \E r \in Calls : Deliver(r) \/ Lose(r)
  BY <1>1, <1>7, BrowserStep, DroppingFacts
<1>8. CASE \E b \in Browsers, k \in Kinds : Send(b, k)
  BY <1>1, <1>8, BrowserStep, DroppingFacts
<1> QED
  BY <1>2, <1>3, <1>4, <1>5, <1>6, <1>7, <1>8 DEF SessionsNext

LEMMA SessionStutter ==
  ASSUME SessionInv, UNCHANGED sessionVars
  PROVE  SessionInv'
<1>1. Dropping /\ Numbers' /\ Jars' /\ ended' = ended /\ reqs' = reqs /\ sent' = sent
  BY Split2, TtlAssumption DEF SessionInv, sessionVars, Dropping, Numbers, Jars
<1>2. Counted'
  BY <1>1, HandledKept DEF SessionInv, Counted, Dropping
<1>3. EndedAndBounded' /\ AccessEndsSoon'
  BY <1>1, EndingFacts DEF Numbers
<1> QED
  BY <1>1, <1>2, <1>3, DroppingFacts, JoinNext DEF SessionInv

LEMMA SessionInvariant == SessionsSpec => []SessionInv
<1>1. SessionInv /\ [SessionsNext]_sessionVars => SessionInv'
  BY SessionNext, SessionStutter
<1> QED
  BY SessionInit, <1>1, PTL DEF SessionsSpec

-----------------------------------------------------------------------------
\* The variables of Sessions have their types; no more tokens than requests are issued.
THEOREM TypeCorrect == SessionsSpec => []SessionsTypeOK
  BY SessionInvariant, PTL DEF SessionInv

\* A login never has two live refresh tokens: rotation removes one for each it issues.
THEOREM LoginsHaveOneToken == SessionsSpec => []OneTokenPerLogin
  BY SessionInvariant, PTL DEF SessionInv

\* No step gives a login that is over a live token again.
THEOREM EndedLoginsStayEnded == SessionsSpec => EndedStaysEnded
<1>1. SessionInv /\ [SessionsNext]_sessionVars => [\A l \in 1 .. logins : ~Open(l) => ~Open(l)']_sessionVars
  BY SessionNext
<1> QED
  BY SessionInvariant, <1>1, PTL DEF SessionsSpec, EndedStaysEnded

\* No access token outlives the end of its login by more than its lifetime.
THEOREM AccessEndsWithLogin == SessionsSpec => []AccessEndsSoon
  BY SessionInvariant, PTL DEF SessionInv

\* What a login gives stays bounded, for any number of browsers, requests, lost answers and
\* restarts (AuthService).
THEOREM TokensStayBounded == SessionsSpec => []TokensAreBounded
  BY LoginsHaveOneToken, AccessEndsWithLogin, PTL DEF TokensAreBounded

-----------------------------------------------------------------------------
(* Browsers and the tokens they hold.                                       *)

\* An answer carries a token of its own; what a browser has or sends is what an answer to it
\* carried.
Carried(b, t) == \E r \in Calls : reqs[r].from = b /\ reqs[r].answer = t

AnswersOwned ==
  /\ \A r \in Calls : /\ reqs[r].answer <= issued
                      /\ reqs[r].pc \in {"none", "sent"} \/ reqs[r].kind = "logout"
                           => reqs[r].answer = NoToken
  /\ \A r, q \in Calls :
       reqs[r].answer # NoToken /\ reqs[r].answer = reqs[q].answer => r = q

CookiesOwned ==
  /\ \A b \in Browsers : jar[b] # NoToken => Carried(b, jar[b])
  /\ \A r \in Calls : reqs[r].cookie # NoToken => Carried(reqs[r].from, reqs[r].cookie)

\* Only t of its login is in the store.
Lone(t) == \A s \in store : login[s] = login[t] => s = t
Good(t) == t \in store \/ now >= expires[t] \/ restarts > 0

\* The token a browser has, or the one that is on its way to it.
Fetching(b) == \E r \in UnderWay(b) : reqs[r].answer # NoToken
Has(b, t) == IF Fetching(b) THEN \E r \in UnderWay(b) : reqs[r].answer = t ELSE jar[b] = t
LogsOut(b) == \E r \in UnderWay(b) : reqs[r].kind = "logout" /\ reqs[r].pc = "answered"

\* A browser whose requests come one by one holds the only token of its login, which is
\* good unless it is about to log out.
InStep(b) ==
  /\ \A r, q \in UnderWay(b) : r = q
  /\ \A r \in UnderWay(b) : reqs[r].cookie = jar[b]
  /\ \A t \in Tokens : Has(b, t) => Lone(t) /\ (Good(t) \/ LogsOut(b))

\* After a logout that came in step nothing is left of its login.
LoggedOut(r) ==
  reqs[r].kind = "logout" /\ reqs[r].pc \in {"answered", "done"} /\ reqs[r].from \notin clashed
    /\ reqs[r].cookie # NoToken => \A s \in store : login[s] # login[reqs[r].cookie]

LostIsClash == \A r \in Calls : reqs[r].pc = "lost" => reqs[r].from \in clashed

StepInv ==
  /\ AnswersOwned /\ CookiesOwned /\ LostIsClash
  /\ \A b \in Browsers \ clashed : InStep(b)
  /\ \A r \in Calls : LoggedOut(r)

-----------------------------------------------------------------------------
(* What a step does to requests, jars and tokens.                           *)

\* The other requests stay as they were, and of r what it asks for.
Touches(r) ==
  /\ reqs'[r].kind = reqs[r].kind /\ reqs'[r].from = reqs[r].from /\ reqs'[r].cookie = reqs[r].cookie
  /\ \A q \in Calls \ {r} : reqs'[q] = reqs[q]

\* Tokens issued before keep their login and age, in the store or not.
TokensStay == \A t \in 1 .. issued : login'[t] = login[t] /\ expires'[t] = expires[t]

Granted(r) ==
  /\ reqs'[r].answer = issued + 1 /\ issued' = issued + 1 /\ reqs[r].kind # "logout"
  /\ \/ store' = store \cup {issued + 1} /\ login'[issued + 1] = logins + 1
     \/ /\ reqs[r].cookie \in store
        /\ store' = (store \ {reqs[r].cookie}) \cup {issued + 1}
        /\ login'[issued + 1] = login[reqs[r].cookie]

Refused(r) ==
  /\ reqs'[r].answer = NoToken /\ issued' = issued
  /\ store' = store \ {reqs[r].cookie}
  /\ reqs[r].kind # "logout" => ~Get(reqs[r].cookie)

HandledOne(r) ==
  /\ reqs[r].pc = "sent" /\ reqs'[r].pc = "answered" /\ Touches(r)
  /\ UNCHANGED <<jar, clashed, now, restarts>> /\ TokensStay
  /\ Granted(r) \/ Refused(r)

StoreKept == UNCHANGED <<now, restarts, store, issued, login, expires>>

SentOne(b, r) ==
  /\ reqs[r].pc = "none" /\ reqs'[r].pc = "sent" /\ reqs'[r].from = b
  /\ reqs'[r].cookie = jar[b] /\ reqs'[r].answer = NoToken
  /\ \A q \in Calls \ {r} : reqs'[q] = reqs[q]
  /\ clashed' = IF UnderWay(b) # {} THEN clashed \cup {b} ELSE clashed
  /\ jar' = jar /\ StoreKept

DeliveredOne(r) ==
  /\ reqs[r].pc = "answered" /\ reqs'[r].pc = "done" /\ Touches(r)
  /\ reqs'[r].answer = reqs[r].answer
  /\ jar'[reqs[r].from] = Cookie(r)
  /\ \A b \in Browsers \ {reqs[r].from} : jar'[b] = jar[b]
  /\ clashed' = clashed /\ StoreKept

LostOne(r) ==
  /\ reqs[r].pc \in {"sent", "answered"} /\ reqs'[r].pc = "lost" /\ Touches(r)
  /\ reqs'[r].answer = reqs[r].answer
  /\ clashed' = clashed \cup {reqs[r].from} /\ jar' = jar /\ StoreKept

Waits ==
  /\ UNCHANGED <<reqs, jar, clashed, issued, login, expires>>
  /\ now' \in Nat /\ now <= now' /\ restarts' \in Nat /\ restarts <= restarts'
  /\ store' # store => store' = {} /\ restarts' > 0

\* The fields of an answered request.
LEMMA AnswerTouches ==
  ASSUME SessionsTypeOK, NEW r \in Calls, NEW a \in Tokens \cup {NoToken}, Answered(r, a)
  PROVE  Touches(r) /\ reqs'[r].pc = "answered" /\ reqs'[r].answer = a
<1>1. reqs \in [Calls -> CallSet]
  BY DEF SessionsTypeOK
<1>2. reqs' = [reqs EXCEPT ![r] = [reqs[r] EXCEPT !.pc = "answered", !.answer = a]]
  BY <1>1 DEF Answered
<1> QED
  BY <1>1, <1>2 DEF CallSet, Touches

LEMMA TokensStayIf ==
  ASSUME SessionsTypeOK,
         \/ UNCHANGED <<login, expires>>
         \/ \E l, e : login' = [login EXCEPT ![issued + 1] = l]
                      /\ expires' = [expires EXCEPT ![issued + 1] = e]
  PROVE  TokensStay
<1>1. login \in [Tokens -> Logins \cup {0}] /\ expires \in [Tokens -> 0 .. MaxTime + RefreshTtl]
      /\ issued \in 0 .. MaxCalls
  BY DEF SessionsTypeOK
<1>2. \A t \in 1 .. issued : t \in Tokens /\ t # issued + 1
  BY <1>1, TtlAssumption DEF Tokens
<1> QED
  BY <1>1, <1>2 DEF TokensStay

LEMMA HandledSteps ==
  ASSUME SessionInv, NEW r \in Calls, Login(r) \/ Refresh(r) \/ RefreshRefused(r) \/ Logout(r)
  PROVE  HandledOne(r)
<1>0. SessionsTypeOK /\ login \in [Tokens -> Logins \cup {0}] /\ reqs[r].pc = "sent"
      /\ UNCHANGED <<jar, clashed, now, restarts>>
  BY DEF SessionInv, SessionsTypeOK, Login, Refresh, RefreshRefused, Logout
<1>1. issued + 1 \in Tokens
  BY <1>0, Room
<1>2. TokensStay
  BY <1>0, TokensStayIf DEF Login, Refresh, RefreshRefused, Logout, Issue
<1>3. CASE Login(r)
  <2>1. Answered(r, issued + 1) /\ Issue(store, logins + 1) /\ reqs[r].kind = "login"
    BY <1>3 DEF Login
  <2>2. Touches(r) /\ reqs'[r].pc = "answered" /\ reqs'[r].answer = issued + 1
    BY <1>0, <1>1, <2>1, AnswerTouches
  <2>3. Granted(r)
    BY <1>0, <1>1, <2>1, <2>2 DEF Issue, Granted
  <2> QED
    BY <1>0, <1>2, <2>2, <2>3 DEF HandledOne
<1>4. CASE Refresh(r)
  <2>1. Answered(r, issued + 1) /\ Issue(store \ {reqs[r].cookie}, login[reqs[r].cookie])
        /\ reqs[r].kind = "refresh" /\ reqs[r].cookie \in store
    BY <1>4 DEF Refresh, Rotated, Get
  <2>2. Touches(r) /\ reqs'[r].pc = "answered" /\ reqs'[r].answer = issued + 1
    BY <1>0, <1>1, <2>1, AnswerTouches
  <2>3. Granted(r)
    BY <1>0, <1>1, <2>1, <2>2 DEF Issue, Granted
  <2> QED
    BY <1>0, <1>2, <2>2, <2>3 DEF HandledOne
<1>5. CASE RefreshRefused(r) \/ Logout(r)
  <2>1. Answered(r, NoToken) /\ issued' = issued /\ store' = store \ {reqs[r].cookie}
        /\ (reqs[r].kind # "logout" => ~Get(reqs[r].cookie))
    BY <1>5 DEF RefreshRefused, Logout
  <2>2. Touches(r) /\ reqs'[r].pc = "answered" /\ reqs'[r].answer = NoToken
    BY <1>0, <2>1, AnswerTouches
  <2> QED
    BY <1>0, <1>2, <2>1, <2>2 DEF HandledOne, Refused
<1> QED
  BY <1>3, <1>4, <1>5

LEMMA SessionSteps ==
  ASSUME SessionInv, [SessionsNext]_sessionVars
  PROVE  \/ \E r \in Calls : HandledOne(r) \/ DeliveredOne(r) \/ LostOne(r)
         \/ \E b \in Browsers, r \in Calls : SentOne(b, r)
         \/ Waits
<1>0. /\ reqs \in [Calls -> CallSet] /\ jar \in [Browsers -> Tokens \cup {NoToken}]
      /\ sent \in 0 .. MaxCalls /\ now \in Nat /\ restarts \in Nat /\ Counted
  BY TtlAssumption DEF SessionInv, SessionsTypeOK
<1>1. CASE \E r \in Calls : Login(r) \/ Refresh(r) \/ RefreshRefused(r) \/ Logout(r)
  BY <1>1, HandledSteps
<1>2. ASSUME NEW r \in Calls, Deliver(r) PROVE DeliveredOne(r)
  <2>1. /\ reqs[r].pc = "answered" /\ jar' = [jar EXCEPT ![reqs[r].from] = Cookie(r)]
        /\ reqs' = [reqs EXCEPT ![r] = [reqs[r] EXCEPT !.pc = "done"]]
        /\ UNCHANGED <<now, serverVars, ended, sent, clashed, restarts>>
    BY <1>0, <1>2 DEF Deliver
  <2>2. reqs[r].from \in Browsers
    BY <1>0, <2>1 DEF Counted
  <2> QED
    BY <1>0, <2>1, <2>2 DEF CallSet, DeliveredOne, Touches, StoreKept, serverVars
<1>3. ASSUME NEW r \in Calls, Lose(r) PROVE LostOne(r)
  <2>1. /\ reqs[r].pc \in {"sent", "answered"} /\ clashed' = clashed \cup {reqs[r].from}
        /\ reqs' = [reqs EXCEPT ![r] = [reqs[r] EXCEPT !.pc = "lost"]]
        /\ UNCHANGED <<now, serverVars, ended, jar, sent, restarts>>
    BY <1>0, <1>3 DEF Lose
  <2> QED
    BY <1>0, <2>1 DEF CallSet, LostOne, Touches, StoreKept, serverVars
<1>4. ASSUME NEW b \in Browsers, NEW k \in Kinds, Send(b, k) PROVE \E r \in Calls : SentOne(b, r)
  <2> DEFINE new == [kind |-> k, from |-> b, cookie |-> jar[b], pc |-> "sent", answer |-> NoToken]
  <2>1. /\ sent < MaxCalls /\ reqs' = [reqs EXCEPT ![sent + 1] = new]
        /\ clashed' = IF UnderWay(b) # {} THEN clashed \cup {b} ELSE clashed
        /\ UNCHANGED <<now, serverVars, ended, jar, restarts>>
    BY <1>4 DEF Send
  <2>2. sent + 1 \in Calls /\ ~(sent + 1 <= sent)
    BY <1>0, <2>1, TtlAssumption DEF Calls
  <2>3. reqs[sent + 1].pc = "none"
    BY <1>0, <2>2 DEF Counted
  <2>4. new.pc = "sent" /\ new.from = b /\ new.cookie = jar[b] /\ new.answer = NoToken
    OBVIOUS
  <2> HIDE DEF new
  <2>5. reqs'[sent + 1] = new /\ \A q \in Calls \ {sent + 1} : reqs'[q] = reqs[q]
    BY <1>0, <2>1, <2>2
  <2>6. StoreKept /\ jar' = jar
    BY <2>1 DEF StoreKept, serverVars
  <2>7. SentOne(b, sent + 1)
    BY <2>1, <2>3, <2>4, <2>5, <2>6 DEF SentOne
  <2> QED
    BY <2>2, <2>7
<1>5. CASE Tick \/ Restart \/ UNCHANGED sessionVars
  <2>1. CASE Tick
    <3>1. now' = now + 1 /\ UNCHANGED <<reqs, jar, clashed, issued, login, expires, store, restarts>>
      BY <2>1 DEF Tick, serverVars
    <3>2. now' \in Nat /\ now <= now' /\ restarts' \in Nat /\ restarts <= restarts'
      BY <1>0, <3>1
    <3> QED
      BY <3>1, <3>2 DEF Waits
  <2>2. CASE Restart
    <3>1. restarts' = restarts + 1 /\ store' = {}
          /\ UNCHANGED <<reqs, jar, clashed, issued, login, expires, now>>
      BY <2>2 DEF Restart
    <3>2. restarts' \in Nat /\ restarts <= restarts' /\ restarts' > 0 /\ now' \in Nat /\ now <= now'
      BY <1>0, <3>1
    <3> QED
      BY <3>1, <3>2 DEF Waits
  <2>3. CASE UNCHANGED sessionVars
    <3>1. UNCHANGED <<reqs, jar, clashed, issued, login, expires, store, now, restarts>>
      BY <2>3 DEF sessionVars
    <3>2. now' \in Nat /\ now <= now' /\ restarts' \in Nat /\ restarts <= restarts'
      BY <1>0, <3>1
    <3> QED
      BY <3>1, <3>2 DEF Waits
  <2> QED
    BY <1>5, <2>1, <2>2, <2>3
<1> QED
  BY <1>1, <1>2, <1>3, <1>4, <1>5 DEF SessionsNext

LEMMA StepTypes ==
  ASSUME SessionInv
  PROVE  /\ reqs \in [Calls -> CallSet] /\ jar \in [Browsers -> Tokens \cup {NoToken}]
         /\ issued \in Nat /\ logins \in Nat /\ now \in Nat /\ restarts \in Nat
         /\ NoToken \notin Tokens /\ store \subseteq 1 .. issued /\ store \subseteq Tokens
         /\ \A t \in Tokens : expires[t] \in Nat
         /\ \A t \in 1 .. issued : t \in Tokens /\ login[t] \in 1 .. logins
         /\ \A r \in Calls : reqs[r].pc # "none" => reqs[r].from \in Browsers
  BY TtlAssumption DEF SessionInv, SessionsTypeOK, Counted, Known, Tokens, NoToken

\* The tokens answers carry stay apart, and what a browser has came with an answer to it.
LEMMA OwnersNext ==
  ASSUME SessionInv, AnswersOwned, CookiesOwned, LostIsClash, [SessionsNext]_sessionVars
  PROVE  AnswersOwned' /\ CookiesOwned' /\ LostIsClash'
<1>0. /\ issued \in Nat /\ NoToken \notin Tokens
      /\ \A r \in Calls : reqs[r].answer \in Tokens \cup {NoToken} /\ reqs[r].answer \in Nat
      /\ \A r \in Calls : reqs[r].pc # "none" => reqs[r].from \in Browsers
  BY StepTypes DEF CallSet, Tokens, NoToken
<1>1. ASSUME NEW r \in Calls, HandledOne(r)
      PROVE  AnswersOwned' /\ CookiesOwned' /\ LostIsClash'
  <2>1. /\ reqs[r].pc = "sent" /\ reqs'[r].pc = "answered" /\ reqs[r].answer = NoToken
        /\ reqs'[r].kind = reqs[r].kind /\ reqs'[r].from = reqs[r].from
        /\ reqs'[r].cookie = reqs[r].cookie
        /\ \A q \in Calls \ {r} : reqs'[q] = reqs[q]
        /\ jar' = jar /\ clashed' = clashed
    BY <1>1 DEF HandledOne, Touches, AnswersOwned
  <2>2. \/ reqs'[r].answer = issued + 1 /\ issued' = issued + 1 /\ reqs[r].kind # "logout"
        \/ reqs'[r].answer = NoToken /\ issued' = issued
    BY <1>1 DEF HandledOne, Granted, Refused
  <2>3. \A q \in Calls : reqs[q].answer <= issued
    BY DEF AnswersOwned
  <2>4. AnswersOwned'
    <3>1. \A q \in Calls : reqs'[q].answer <= issued'
      BY <1>0, <2>1, <2>2, <2>3 DEF NoToken
    <3>2. \A q \in Calls : reqs'[q].pc \in {"none", "sent"} \/ reqs'[q].kind = "logout"
                                => reqs'[q].answer = NoToken
      BY <2>1, <2>2 DEF AnswersOwned
    <3>3. \A q \in Calls \ {r} : reqs'[q].answer # issued + 1
      BY <1>0, <2>1, <2>3
    <3>4. \A p, q \in Calls :
            reqs'[p].answer # NoToken /\ reqs'[p].answer = reqs'[q].answer => p = q
      BY <2>1, <2>2, <3>3 DEF AnswersOwned
    <3> QED
      BY <3>1, <3>2, <3>4 DEF AnswersOwned
  <2>5. \A b, t : t # NoToken /\ Carried(b, t) => Carried(b, t)'
    BY <2>1 DEF Carried
  <2>6. CookiesOwned'
    BY <2>1, <2>5 DEF CookiesOwned
  <2>7. LostIsClash'
    BY <2>1 DEF LostIsClash
  <2> QED
    BY <2>4, <2>6, <2>7
<1>2. ASSUME NEW r \in Calls, DeliveredOne(r)
      PROVE  AnswersOwned' /\ CookiesOwned' /\ LostIsClash'
  <2>1. /\ reqs[r].pc = "answered" /\ reqs'[r].pc = "done" /\ reqs'[r].answer = reqs[r].answer
        /\ reqs'[r].kind = reqs[r].kind /\ reqs'[r].from = reqs[r].from
        /\ reqs'[r].cookie = reqs[r].cookie
        /\ \A q \in Calls \ {r} : reqs'[q] = reqs[q]
        /\ jar'[reqs[r].from] = Cookie(r)
        /\ \A b \in Browsers \ {reqs[r].from} : jar'[b] = jar[b]
        /\ clashed' = clashed /\ issued' = issued
    BY <1>2 DEF DeliveredOne, Touches, StoreKept
  <2>2. \A q \in Calls : reqs'[q].answer = reqs[q].answer /\ reqs'[q].kind = reqs[q].kind
                            /\ reqs'[q].from = reqs[q].from /\ reqs'[q].cookie = reqs[q].cookie
    BY <2>1
  <2>3. \A q \in Calls : reqs'[q].pc = reqs[q].pc \/ (q = r /\ reqs'[q].pc = "done")
    BY <2>1
  <2>4. AnswersOwned'
    <3>1. \A q \in Calls : reqs'[q].answer <= issued'
      BY <2>1, <2>2 DEF AnswersOwned
    <3>2. \A q \in Calls : reqs'[q].pc \in {"none", "sent"} \/ reqs'[q].kind = "logout"
                                => reqs'[q].answer = NoToken
      BY <2>2, <2>3 DEF AnswersOwned
    <3>3. \A p, q \in Calls :
            reqs'[p].answer # NoToken /\ reqs'[p].answer = reqs'[q].answer => p = q
      BY <2>2 DEF AnswersOwned
    <3> QED
      BY <3>1, <3>2, <3>3 DEF AnswersOwned
  <2>5. \A b, t : Carried(b, t) => Carried(b, t)'
    BY <2>2 DEF Carried
  <2>6. Cookie(r) # NoToken => Carried(reqs[r].from, Cookie(r))
    <3>1. CASE reqs[r].kind # "logout" /\ reqs[r].answer # NoToken
      BY <3>1 DEF Cookie, Carried
    <3>2. CASE reqs[r].kind # "logout" /\ reqs[r].answer = NoToken
      <4>1. Cookie(r) = jar[reqs[r].from] /\ reqs[r].from \in Browsers
        BY <1>0, <2>1, <3>2 DEF Cookie
      <4> QED
        BY <4>1 DEF CookiesOwned
    <3>3. CASE reqs[r].kind = "logout"
      BY <2>1, <3>3 DEF Cookie, AnswersOwned
    <3> QED
      BY <3>1, <3>2, <3>3
  <2>7. CookiesOwned'
    <3>1. ASSUME NEW b \in Browsers, NEW t, t = jar'[b], t # NoToken PROVE Carried(b, t)'
      <4>1. CASE b = reqs[r].from
        BY <2>1, <2>5, <2>6, <3>1, <4>1
      <4>2. CASE b # reqs[r].from
        <5>1. Carried(b, t)
          BY <2>1, <3>1, <4>2 DEF CookiesOwned
        <5> QED
          BY <2>5, <5>1
      <4> QED
        BY <4>1, <4>2
    <3>2. ASSUME NEW q \in Calls, NEW b, NEW t, b = reqs'[q].from, t = reqs'[q].cookie, t # NoToken
          PROVE  Carried(b, t)'
      <4>1. Carried(b, t)
        BY <2>2, <3>2 DEF CookiesOwned
      <4> QED
        BY <2>5, <4>1
    <3> QED
      BY <3>1, <3>2 DEF CookiesOwned, Carried
  <2>8. LostIsClash'
    BY <2>1 DEF LostIsClash
  <2> QED
    BY <2>4, <2>7, <2>8
<1>3. ASSUME NEW r \in Calls, LostOne(r)
      PROVE  AnswersOwned' /\ CookiesOwned' /\ LostIsClash'
  <2>1. /\ reqs[r].pc \in {"sent", "answered"} /\ reqs'[r].pc = "lost"
        /\ reqs'[r].answer = reqs[r].answer
        /\ reqs'[r].kind = reqs[r].kind /\ reqs'[r].from = reqs[r].from
        /\ reqs'[r].cookie = reqs[r].cookie
        /\ \A q \in Calls \ {r} : reqs'[q] = reqs[q]
        /\ jar' = jar /\ clashed' = clashed \cup {reqs[r].from} /\ issued' = issued
    BY <1>3 DEF LostOne, Touches, StoreKept
  <2>2. \A q \in Calls : reqs'[q].answer = reqs[q].answer /\ reqs'[q].kind = reqs[q].kind
                            /\ reqs'[q].from = reqs[q].from /\ reqs'[q].cookie = reqs[q].cookie
    BY <2>1
  <2>3. \A q \in Calls : reqs'[q].pc = reqs[q].pc \/ (q = r /\ reqs'[q].pc = "lost")
    BY <2>1
  <2>4. AnswersOwned'
    <3>1. \A q \in Calls : reqs'[q].answer <= issued'
      BY <2>1, <2>2 DEF AnswersOwned
    <3>2. \A q \in Calls : reqs'[q].pc \in {"none", "sent"} \/ reqs'[q].kind = "logout"
                                => reqs'[q].answer = NoToken
      BY <2>2, <2>3 DEF AnswersOwned
    <3>3. \A p, q \in Calls :
            reqs'[p].answer # NoToken /\ reqs'[p].answer = reqs'[q].answer => p = q
      BY <2>2 DEF AnswersOwned
    <3> QED
      BY <3>1, <3>2, <3>3 DEF AnswersOwned
  <2>5. \A b, t : Carried(b, t) => Carried(b, t)'
    BY <2>2 DEF Carried
  <2>6. CookiesOwned'
    BY <2>1, <2>2, <2>5 DEF CookiesOwned
  <2>7. LostIsClash'
    BY <2>1 DEF LostIsClash
  <2> QED
    BY <2>4, <2>6, <2>7
<1>4. ASSUME NEW b \in Browsers, NEW r \in Calls, SentOne(b, r)
      PROVE  AnswersOwned' /\ CookiesOwned' /\ LostIsClash'
  <2>1. /\ reqs[r].pc = "none" /\ reqs'[r].pc = "sent" /\ reqs'[r].from = b
        /\ reqs'[r].cookie = jar[b] /\ reqs'[r].answer = NoToken /\ reqs[r].answer = NoToken
        /\ \A q \in Calls \ {r} : reqs'[q] = reqs[q]
        /\ jar' = jar /\ clashed \subseteq clashed' /\ issued' = issued
    BY <1>4 DEF SentOne, StoreKept, AnswersOwned
  <2>2. AnswersOwned'
    <3>1. \A q \in Calls : reqs'[q].answer <= issued'
      BY <1>0, <2>1 DEF AnswersOwned
    <3>2. \A q \in Calls : reqs'[q].pc \in {"none", "sent"} \/ reqs'[q].kind = "logout"
                                => reqs'[q].answer = NoToken
      BY <2>1 DEF AnswersOwned
    <3>3. \A p, q \in Calls :
            reqs'[p].answer # NoToken /\ reqs'[p].answer = reqs'[q].answer => p = q
      BY <2>1 DEF AnswersOwned
    <3> QED
      BY <3>1, <3>2, <3>3 DEF AnswersOwned
  <2>3. \A a, t : t # NoToken /\ Carried(a, t) => Carried(a, t)'
    BY <2>1 DEF Carried
  <2>4. CookiesOwned'
    BY <2>1, <2>3 DEF CookiesOwned
  <2>5. LostIsClash'
    BY <2>1 DEF LostIsClash
  <2> QED
    BY <2>2, <2>4, <2>5
<1>5. CASE Waits
  BY <1>5 DEF Waits, AnswersOwned, CookiesOwned, LostIsClash, Carried
<1> QED
  BY <1>1, <1>2, <1>3, <1>4, <1>5, SessionSteps

\* A logged-out login gets no token any more.
LEMMA LoggedOutNext ==
  ASSUME SessionInv, AnswersOwned, CookiesOwned, \A r \in Calls : LoggedOut(r), [SessionsNext]_sessionVars,
         \A r \in Calls : HandledOne(r) /\ reqs[r].kind = "logout" => LoggedOut(r)'
  PROVE  \A r \in Calls : LoggedOut(r)'
<1> SUFFICES ASSUME NEW r \in Calls, reqs'[r].kind = "logout",
                    reqs'[r].pc \in {"answered", "done"}, reqs'[r].from \notin clashed',
                    reqs'[r].cookie # NoToken
             PROVE  \A s \in store' : login'[s] # login'[reqs'[r].cookie]
  BY DEF LoggedOut
<1>0. /\ store \subseteq 1 .. issued /\ issued \in Nat /\ logins \in Nat
      /\ \A t \in 1 .. issued : login[t] \in 1 .. logins
      /\ \A q \in Calls : reqs[q].cookie \in Tokens \cup {NoToken} /\ reqs[q].answer \in Nat
  BY StepTypes DEF CallSet, Tokens, NoToken
<1>1. ASSUME NEW q \in Calls, HandledOne(q), q = r
      PROVE  \A s \in store' : login'[s] # login'[reqs'[r].cookie]
  BY <1>1 DEF HandledOne, Touches, LoggedOut
<1>2. ASSUME reqs[r].kind = "logout", reqs[r].pc \in {"answered", "done"}, reqs[r].from \notin clashed,
             reqs'[r].cookie = reqs[r].cookie
      PROVE  \A s \in store' : login'[s] # login'[reqs'[r].cookie]
  <2> DEFINE c == reqs[r].cookie
  <2>1. \A s \in store : login[s] # login[c]
    BY <1>2 DEF LoggedOut
  <2>2. c \in 1 .. issued
    <3>1. PICK q \in Calls : reqs[q].answer = c
      BY <1>2 DEF CookiesOwned, Carried
    <3> QED
      BY <1>0, <1>2, <3>1, TtlAssumption DEF AnswersOwned, Tokens, NoToken
  <2>3. TokensStay
    BY SessionSteps DEF HandledOne, DeliveredOne, LostOne, SentOne, Waits, StoreKept, TokensStay
  <2> HIDE DEF c
  <2>4. \A s \in store : login'[s] # login'[c]
    BY <1>0, <2>1, <2>2, <2>3 DEF TokensStay
  <2>5. CASE store' \subseteq store
    BY <1>2, <2>4, <2>5 DEF c
  <2>6. ASSUME NEW q \in Calls, HandledOne(q), Granted(q)
        PROVE  \A s \in store' : login'[s] # login'[c]
    <3>1. store' \subseteq store \cup {issued + 1}
      BY <2>6 DEF Granted
    <3>2. login'[issued + 1] = logins + 1 \/ \E t \in store : login'[issued + 1] = login[t]
      BY <2>6 DEF Granted
    <3>3. login'[c] = login[c] /\ login[c] \in 1 .. logins
      BY <1>0, <2>2, <2>3 DEF TokensStay
    <3>4. login'[issued + 1] # login'[c]
      BY <1>0, <2>1, <3>2, <3>3
    <3> QED
      BY <2>4, <3>1, <3>4
  <2>7. store' \subseteq store \/ \E q \in Calls : HandledOne(q) /\ Granted(q)
    BY SessionSteps DEF HandledOne, Refused, DeliveredOne, LostOne, SentOne, Waits, StoreKept
  <2> QED
    BY <1>2, <2>5, <2>6, <2>7 DEF c
<1>3. ASSUME NEW q \in Calls, HandledOne(q), q # r
      PROVE  reqs'[r] = reqs[r] /\ clashed' = clashed
  BY <1>3 DEF HandledOne, Touches
<1>4. ASSUME NEW q \in Calls, DeliveredOne(q) \/ LostOne(q)
      PROVE  /\ reqs'[r].cookie = reqs[r].cookie /\ reqs'[r].kind = reqs[r].kind
             /\ reqs'[r].from = reqs[r].from /\ reqs[r].pc \in {"answered", "done"}
             /\ clashed \subseteq clashed'
  BY <1>4 DEF DeliveredOne, LostOne, Touches
<1>5. ASSUME NEW b \in Browsers, NEW q \in Calls, SentOne(b, q)
      PROVE  reqs'[r] = reqs[r] /\ clashed \subseteq clashed'
  BY <1>5 DEF SentOne
<1>6. Waits => reqs' = reqs /\ clashed' = clashed
  BY DEF Waits
<1> QED
  BY <1>1, <1>2, <1>3, <1>4, <1>5, <1>6, SessionSteps

\* A step that neither handles nor brings a request of b leaves what b has alone, and good.
LEMMA LoneStays ==
  ASSUME SessionInv, [SessionsNext]_sessionVars, NEW t \in 1 .. issued, Lone(t),
         \A r \in Calls : HandledOne(r) => reqs[r].cookie # t
  PROVE  Lone(t)' /\ (Good(t) => Good(t)')
<1>0. /\ store \subseteq 1 .. issued /\ issued \in Nat /\ logins \in Nat /\ now \in Nat
      /\ restarts \in Nat /\ expires[t] \in Nat
      /\ \A s \in 1 .. issued : login[s] \in 1 .. logins
  BY StepTypes
<1>1. TokensStay
  BY SessionSteps DEF HandledOne, DeliveredOne, LostOne, SentOne, Waits, StoreKept, TokensStay
<1>2. login'[t] = login[t] /\ expires'[t] = expires[t]
      /\ \A s \in store : login'[s] = login[s]
  BY <1>0, <1>1 DEF TokensStay
<1>3. CASE store' \subseteq store /\ (t \in store => t \in store' \/ restarts' > 0)
           /\ now <= now' /\ restarts <= restarts' /\ now' \in Nat /\ restarts' \in Nat
  <2>1. Lone(t)'
    <3>1. \A s \in store' : login'[s] = login'[t] => s = t
      BY <1>2, <1>3 DEF Lone
    <3> QED
      BY <3>1 DEF Lone
  <2>2. Good(t) => t \in store' \/ now' >= expires'[t] \/ restarts' > 0
    BY <1>0, <1>2, <1>3 DEF Good
  <2> QED
    BY <2>1, <2>2 DEF Good
<1>4. ASSUME NEW r \in Calls, HandledOne(r), Granted(r)
      PROVE  Lone(t)' /\ (Good(t) => Good(t)')
  <2>1. reqs[r].cookie # t /\ now' = now /\ restarts' = restarts
    BY <1>4 DEF HandledOne
  <2>2. /\ store' \subseteq store \cup {issued + 1}
        /\ t \in store => t \in store'
        /\ \/ login'[issued + 1] = logins + 1
           \/ reqs[r].cookie \in store /\ login'[issued + 1] = login[reqs[r].cookie]
    BY <1>4, <2>1 DEF Granted
  <2>3. login[t] # logins + 1
    BY <1>0
  <2>4. login'[issued + 1] # login[t]
    BY <2>1, <2>2, <2>3 DEF Lone
  <2>5. \A s \in store' : login'[s] = login'[t] => s = t
    BY <1>2, <2>2, <2>4 DEF Lone
  <2>6. Good(t) => t \in store' \/ now' >= expires'[t] \/ restarts' > 0
    BY <1>2, <2>1, <2>2 DEF Good
  <2> QED
    BY <2>5, <2>6 DEF Lone, Good
<1>5. ASSUME NEW r \in Calls, HandledOne(r), Refused(r)
      PROVE  store' \subseteq store /\ (t \in store => t \in store') /\ now' = now /\ restarts' = restarts
  BY <1>5 DEF HandledOne, Refused
<1>6. ASSUME \/ \E r \in Calls : DeliveredOne(r) \/ LostOne(r)
             \/ \E b \in Browsers, r \in Calls : SentOne(b, r)
      PROVE  store' = store /\ now' = now /\ restarts' = restarts
  BY <1>6 DEF DeliveredOne, LostOne, SentOne, StoreKept
<1>7. CASE Waits
  BY <1>3, <1>7 DEF Waits
<1>8. now <= now /\ restarts <= restarts
  BY <1>0
<1>9. ASSUME NEW r \in Calls, HandledOne(r) PROVE Granted(r) \/ Refused(r)
  BY <1>9 DEF HandledOne
<1>10. CASE \E r \in Calls : HandledOne(r)
  BY <1>0, <1>3, <1>4, <1>5, <1>8, <1>9, <1>10
<1>11. CASE \/ \E r \in Calls : DeliveredOne(r) \/ LostOne(r)
            \/ \E b \in Browsers, r \in Calls : SentOne(b, r)
  BY <1>0, <1>3, <1>6, <1>8, <1>11
<1> QED
  BY <1>7, <1>10, <1>11, SessionSteps

\* What a browser has was issued.
LEMMA HadIsIssued ==
  ASSUME SessionInv, AnswersOwned, CookiesOwned, NEW b \in Browsers, NEW t \in Tokens, Has(b, t)
  PROVE  t \in 1 .. issued /\ Carried(b, t)
<1>0. t \in Nat \ {0} /\ t # NoToken /\ issued \in Nat
  BY StepTypes, TtlAssumption DEF Tokens, NoToken
<1>1. Carried(b, t)
  BY <1>0 DEF Has, CookiesOwned, Carried, UnderWay
<1>2. t <= issued
  BY <1>1 DEF Carried, AnswersOwned
<1> QED
  BY <1>0, <1>1, <1>2

\* Two browsers never hold the same token.
LEMMA CarriedOnce ==
  ASSUME AnswersOwned, NEW a, NEW b, NEW t, t # NoToken, Carried(a, t), Carried(b, t)
  PROVE  a = b
  BY DEF AnswersOwned, Carried

\* Nothing of b was touched: it stays in step.
LEMMA InStepAside ==
  ASSUME SessionInv, AnswersOwned, CookiesOwned, [SessionsNext]_sessionVars, NEW b \in Browsers, InStep(b),
         jar'[b] = jar[b],
         \A r \in Calls : reqs[r].from = b \/ reqs'[r].from = b => reqs'[r] = reqs[r]
  PROVE  InStep(b)'
<1>1. UnderWay(b)' = UnderWay(b) /\ \A r \in UnderWay(b) : r \in Calls /\ reqs'[r] = reqs[r]
  BY DEF UnderWay
<1>2. \A r, q \in UnderWay(b)' : r = q
  BY <1>1 DEF InStep
<1>3. \A r \in UnderWay(b)' : reqs'[r].cookie = jar'[b]
  BY <1>1 DEF InStep
<1>4. ASSUME NEW t \in Tokens, Has(b, t)' PROVE Lone(t)' /\ (Good(t)' \/ LogsOut(b)')
  <2>1. Has(b, t) /\ (LogsOut(b) => LogsOut(b)')
    BY <1>1, <1>4 DEF Has, Fetching, LogsOut
  <2>2. Lone(t) /\ (Good(t) \/ LogsOut(b))
    BY <2>1 DEF InStep
  <2>3. t \in 1 .. issued /\ t # NoToken /\ Carried(b, t)
    BY <2>1, HadIsIssued, StepTypes
  <2>4. ASSUME NEW r \in Calls, HandledOne(r) PROVE reqs[r].cookie # t
    <3>1. reqs[r].from # b
      BY <2>4 DEF HandledOne
    <3>2. reqs[r].cookie # NoToken => Carried(reqs[r].from, reqs[r].cookie)
      BY DEF CookiesOwned
    <3> QED
      BY <2>3, <3>1, <3>2, CarriedOnce
  <2>5. Lone(t)' /\ (Good(t) => Good(t)')
    BY <2>2, <2>3, <2>4, LoneStays
  <2> QED
    BY <2>1, <2>2, <2>5
<1> QED
  BY <1>2, <1>3, <1>4 DEF InStep

\* A request of b that is handled leaves b in step, and a logout nothing of its login.
LEMMA InStepHandled ==
  ASSUME SessionInv, AnswersOwned, CookiesOwned, NEW b \in Browsers,
         NEW r \in Calls, HandledOne(r), reqs[r].from = b, InStep(b)
  PROVE  InStep(b)' /\ (reqs[r].kind = "logout" => LoggedOut(r)')
<1> DEFINE c == reqs[r].cookie
<1>0. /\ store \subseteq 1 .. issued /\ issued \in Nat /\ logins \in Nat /\ now \in Nat
      /\ restarts \in Nat /\ NoToken \notin Tokens /\ b \in Browsers
      /\ \A s \in 1 .. issued : s \in Tokens /\ login[s] \in 1 .. logins
      /\ c \in Tokens \cup {NoToken}
      /\ reqs[r].pc = "sent" /\ reqs'[r].pc = "answered" /\ reqs'[r].kind = reqs[r].kind
      /\ reqs'[r].from = b /\ reqs'[r].cookie = c /\ reqs[r].answer = NoToken
      /\ \A q \in Calls \ {r} : reqs'[q] = reqs[q]
      /\ UNCHANGED <<jar, clashed, now, restarts>>
  BY StepTypes DEF HandledOne, Touches, CallSet, AnswersOwned
<1>1. issued + 1 \in Tokens
  BY <1>0, Room
<1>2. UnderWay(b) = {r} /\ UnderWay(b)' = {r} /\ jar[b] = c
  <2>1. r \in UnderWay(b) /\ \A q \in UnderWay(b) : q = r
    BY <1>0 DEF InStep, UnderWay
  <2>2. UnderWay(b)' = UnderWay(b)
    BY <1>0 DEF UnderWay
  <2> QED
    BY <2>1, <2>2 DEF InStep
<1>3. TokensStay /\ (Granted(r) \/ Refused(r))
  BY DEF HandledOne
<1>4. ~Fetching(b) /\ ~LogsOut(b)
  BY <1>0, <1>2 DEF Fetching, LogsOut
<1>5. c \in Tokens => Has(b, c) /\ Lone(c) /\ Good(c)
  BY <1>2, <1>4 DEF Has, InStep
<1>6. \A s \in store : login'[s] = login[s] /\ expires'[s] = expires[s]
  BY <1>0, <1>3 DEF TokensStay
<1>7. /\ \A p, q \in UnderWay(b)' : p = q
      /\ \A q \in UnderWay(b)' : reqs'[q].cookie = jar'[b]
  BY <1>0, <1>2
<1>8. ASSUME NEW t \in Tokens, Has(b, t)' PROVE Lone(t)' /\ (Good(t)' \/ LogsOut(b)')
  <2>1. CASE Granted(r)
    <3>1. t = issued + 1
      <4>1. reqs'[r].answer = issued + 1 /\ issued + 1 # NoToken
        BY <1>0, <1>1, <2>1 DEF Granted
      <4>2. Fetching(b)'
        BY <1>2, <4>1 DEF Fetching
      <4> QED
        BY <1>2, <1>8, <4>1, <4>2 DEF Has
    <3>2. t \in store'
      BY <2>1, <3>1 DEF Granted
    <3>3. \A s \in store' : login'[s] = login'[t] => s = t
      <4>1. CASE store' = store \cup {issued + 1} /\ login'[issued + 1] = logins + 1
        <5>1. \A s \in store : login'[s] # logins + 1
          BY <1>0, <1>6
        <5> QED
          BY <3>1, <4>1, <5>1
      <4>2. CASE /\ c \in store /\ store' = (store \ {c}) \cup {issued + 1}
                 /\ login'[issued + 1] = login[c]
        <5>1. Lone(c)
          BY <1>0, <1>5, <4>2
        <5>2. \A s \in store \ {c} : login'[s] # login[c]
          BY <1>6, <5>1 DEF Lone
        <5> QED
          BY <3>1, <4>2, <5>2
      <4> QED
        BY <2>1, <4>1, <4>2 DEF Granted
    <3> QED
      BY <3>2, <3>3 DEF Lone, Good
  <2>2. CASE Refused(r)
    <3>1. t = c
      BY <1>0, <1>2, <1>8, <2>2 DEF Has, Fetching, Refused
    <3>2. t \in 1 .. issued
      BY <1>0, <1>5, <3>1, HadIsIssued
    <3>3. Lone(c) /\ Good(c) /\ login'[c] = login[c] /\ expires'[c] = expires[c]
      BY <1>3, <1>5, <3>1, <3>2 DEF TokensStay
    <3>4. store' = store \ {c} /\ (reqs[r].kind # "logout" => ~Get(c))
      BY <2>2 DEF Refused
    <3>5. \A s \in store' : login'[s] = login'[t] => s = t
      BY <1>6, <3>1, <3>3, <3>4 DEF Lone
    <3>6. CASE reqs[r].kind = "logout"
      <4>1. LogsOut(b)'
        BY <1>0, <1>2, <3>6 DEF LogsOut
      <4> QED
        BY <3>5, <4>1 DEF Lone
    <3>7. CASE reqs[r].kind # "logout"
      <4>1. c \in store => ~(now < expires[c])
        BY <3>4, <3>7 DEF Get
      <4>2. expires[c] \in Nat
        BY <3>1, StepTypes
      <4>3. now >= expires[c] \/ restarts > 0
        BY <1>0, <3>3, <4>1, <4>2 DEF Good
      <4>4. now' >= expires'[t] \/ restarts' > 0
        BY <1>0, <3>1, <3>3, <4>3
      <4> QED
        BY <3>5, <4>4 DEF Lone, Good
    <3> QED
      BY <3>6, <3>7
  <2> QED
    BY <1>3, <2>1, <2>2
<1>9. ASSUME reqs[r].kind = "logout" PROVE LoggedOut(r)'
  <2> SUFFICES ASSUME c # NoToken PROVE \A s \in store' : login'[s] # login'[c]
    BY <1>0 DEF LoggedOut
  <2>1. store' = store \ {c}
    BY <1>3, <1>9 DEF Granted, Refused
  <2>2. c \in 1 .. issued /\ Lone(c)
    BY <1>0, <1>5, HadIsIssued
  <2>3. login'[c] = login[c]
    BY <1>3, <2>2 DEF TokensStay
  <2> QED
    BY <1>6, <2>1, <2>2, <2>3 DEF Lone
<1>10. InStep(b)'
  BY <1>0, <1>7, <1>8 DEF InStep
<1> QED
  BY <1>9, <1>10

LEMMA InStepDelivered ==
  ASSUME SessionInv, AnswersOwned, NEW b \in Browsers, NEW r \in Calls, DeliveredOne(r),
         reqs[r].from = b, InStep(b)
  PROVE  InStep(b)'
<1>1. /\ reqs[r].pc = "answered" /\ reqs'[r].pc = "done" /\ jar'[b] = Cookie(r)
      /\ \A q \in Calls \ {r} : reqs'[q] = reqs[q]
      /\ UNCHANGED <<now, restarts, store, login, expires>>
      /\ b \in Browsers /\ NoToken \notin Tokens /\ reqs'[r].from = b
  BY StepTypes DEF DeliveredOne, Touches, StoreKept
<1>2. UnderWay(b) = {r}
  BY <1>1 DEF InStep, UnderWay
<1>3. UnderWay(b)' = {}
  <2> SUFFICES ASSUME NEW q \in Calls, reqs'[q].from = b, reqs'[q].pc \in {"sent", "answered"}
               PROVE  FALSE
    BY <1>1 DEF UnderWay
  <2>1. q # r
    BY <1>1
  <2>2. q \in UnderWay(b)
    BY <1>1, <2>1 DEF UnderWay
  <2> QED
    BY <1>2, <2>1, <2>2
<1>4. ASSUME NEW t \in Tokens, Has(b, t)' PROVE Lone(t)' /\ Good(t)'
  <2>1. Cookie(r) = t /\ t # NoToken
    BY <1>1, <1>3, <1>4 DEF Has, Fetching
  <2>2. reqs[r].kind # "logout"
    BY <1>1, <2>1 DEF Cookie, AnswersOwned
  <2>3. t = IF reqs[r].answer # NoToken THEN reqs[r].answer ELSE jar[b]
    BY <2>1, <2>2 DEF Cookie
  <2>4. Has(b, t)
    BY <1>2, <2>3 DEF Has, Fetching
  <2>5. ~LogsOut(b)
    BY <1>2, <2>2 DEF LogsOut
  <2>6. Lone(t) /\ Good(t)
    BY <2>4, <2>5 DEF InStep
  <2> QED
    BY <1>1, <2>6 DEF Lone, Good
<1> QED
  BY <1>1, <1>3, <1>4 DEF InStep

LEMMA InStepSent ==
  ASSUME SessionInv, AnswersOwned, NEW b \in Browsers, NEW r \in Calls, SentOne(b, r),
         b \notin clashed', InStep(b)
  PROVE  InStep(b)'
<1>1. /\ reqs[r].pc = "none" /\ reqs'[r].pc = "sent" /\ reqs'[r].from = b
      /\ reqs'[r].cookie = jar[b] /\ reqs'[r].answer = NoToken
      /\ \A q \in Calls \ {r} : reqs'[q] = reqs[q]
      /\ jar' = jar /\ UNCHANGED <<now, restarts, store, login, expires>>
      /\ NoToken \notin Tokens
  BY StepTypes DEF SentOne, StoreKept
<1>2. UnderWay(b) = {}
  BY DEF SentOne
<1>3. UnderWay(b)' = {r}
  <2>1. r \in UnderWay(b)'
    BY <1>1 DEF UnderWay
  <2>2. ASSUME NEW q \in UnderWay(b)' PROVE q = r
    BY <1>1, <1>2 DEF UnderWay
  <2> QED
    BY <2>1, <2>2
<1>4. ASSUME NEW t \in Tokens, Has(b, t)' PROVE Lone(t)' /\ Good(t)'
  <2>1. Has(b, t)
    BY <1>1, <1>2, <1>3, <1>4 DEF Has, Fetching
  <2>2. ~LogsOut(b)
    BY <1>2 DEF LogsOut
  <2>3. Lone(t) /\ Good(t)
    BY <2>1, <2>2 DEF InStep
  <2> QED
    BY <1>1, <2>3 DEF Lone, Good
<1>5. \A p, q \in UnderWay(b)' : p = q
  BY <1>3
<1>6. \A q \in UnderWay(b)' : reqs'[q].cookie = jar'[b]
  BY <1>1, <1>3
<1> QED
  BY <1>4, <1>5, <1>6 DEF InStep

LEMMA StepNext ==
  ASSUME SessionInv, StepInv, [SessionsNext]_sessionVars
  PROVE  StepInv'
<1>0. /\ AnswersOwned /\ CookiesOwned /\ LostIsClash /\ \A r \in Calls : LoggedOut(r)
      /\ \A b \in Browsers \ clashed : InStep(b)
  BY DEF StepInv
<1>1. AnswersOwned' /\ CookiesOwned' /\ LostIsClash'
  BY <1>0, OwnersNext
<1>2. clashed \subseteq clashed'
  BY SessionSteps DEF HandledOne, DeliveredOne, LostOne, SentOne, Waits
<1>3. ASSUME NEW b \in Browsers \ clashed' PROVE InStep(b)'
  <2>0. InStep(b)
    BY <1>0, <1>2, <1>3
  <2>1. ASSUME NEW r \in Calls, HandledOne(r) PROVE InStep(b)'
    <3>1. CASE reqs[r].from = b
      BY <1>0, <2>0, <2>1, <3>1, InStepHandled
    <3>2. CASE reqs[r].from # b
      BY <1>0, <2>0, <2>1, <3>2, InStepAside DEF HandledOne, Touches
    <3> QED
      BY <3>1, <3>2
  <2>2. ASSUME NEW r \in Calls, DeliveredOne(r) PROVE InStep(b)'
    <3>1. CASE reqs[r].from = b
      BY <1>0, <2>0, <2>2, <3>1, InStepDelivered
    <3>2. CASE reqs[r].from # b
      BY <1>0, <2>0, <2>2, <3>2, InStepAside DEF DeliveredOne, Touches
    <3> QED
      BY <3>1, <3>2
  <2>3. ASSUME NEW r \in Calls, LostOne(r) PROVE InStep(b)'
    <3>1. reqs[r].from # b
      BY <1>3, <2>3 DEF LostOne
    <3> QED
      BY <1>0, <2>0, <2>3, <3>1, InStepAside DEF LostOne, Touches
  <2>4. ASSUME NEW a \in Browsers, NEW r \in Calls, SentOne(a, r) PROVE InStep(b)'
    <3>1. CASE a = b
      BY <1>0, <1>3, <2>0, <2>4, <3>1, InStepSent
    <3>2. CASE a # b
      <4>1. reqs[r].from # b \/ reqs[r].pc = "none"
        BY <2>4 DEF SentOne
      <4>2. CASE reqs[r].from # b
        BY <1>0, <2>0, <2>4, <3>2, <4>2, InStepAside DEF SentOne
      <4>3. CASE reqs[r].from = b
        <5>1. b \in Browsers /\ UnderWay(b)' = UnderWay(b)
          BY <2>4, <3>2, <4>3 DEF SentOne, UnderWay
        <5>2. \A q \in UnderWay(b) : q \in Calls /\ reqs'[q] = reqs[q]
          BY <2>4 DEF SentOne, UnderWay
        <5>3. Lone(b)' <=> Lone(b)
          BY <2>4 DEF SentOne, StoreKept, Lone
        <5>4. \A t : (Lone(t)' <=> Lone(t)) /\ (Good(t)' <=> Good(t))
          BY <2>4 DEF SentOne, StoreKept, Lone, Good
        <5>5. \A t : Has(b, t)' <=> Has(b, t)
          BY <2>4, <5>1, <5>2 DEF SentOne, Has, Fetching
        <5>6. LogsOut(b)' <=> LogsOut(b)
          BY <5>1, <5>2 DEF LogsOut
        <5>7. jar' = jar
          BY <2>4 DEF SentOne
        <5> QED
          BY <2>0, <5>1, <5>2, <5>4, <5>5, <5>6, <5>7 DEF InStep
      <4> QED
        BY <4>2, <4>3
    <3> QED
      BY <3>1, <3>2
  <2>5. CASE Waits
    BY <1>0, <2>0, <2>5, InStepAside DEF Waits
  <2> QED
    BY <2>1, <2>2, <2>3, <2>4, <2>5, SessionSteps
<1>4. ASSUME NEW r \in Calls, HandledOne(r), reqs[r].kind = "logout" PROVE LoggedOut(r)'
  <2>1. reqs'[r].from = reqs[r].from /\ reqs[r].from \in Browsers /\ clashed' = clashed
    BY <1>4, StepTypes DEF HandledOne, Touches
  <2>2. CASE reqs[r].from \in clashed
    BY <2>1, <2>2 DEF LoggedOut
  <2>3. CASE reqs[r].from \notin clashed
    BY <1>0, <1>4, <2>1, <2>3, InStepHandled
  <2> QED
    BY <2>2, <2>3
<1>5. \A r \in Calls : LoggedOut(r)'
  BY <1>0, <1>4, LoggedOutNext
<1> QED
  BY <1>1, <1>3, <1>5 DEF StepInv

LEMMA StepInit == SessionsInit => StepInv
<1> SUFFICES ASSUME SessionsInit PROVE StepInv
  OBVIOUS
<1>1. /\ \A r \in Calls : reqs[r] = NoCall
      /\ \A b \in Browsers : jar[b] = NoToken
      /\ store = {} /\ issued = 0
  BY DEF SessionsInit
<1>2. AnswersOwned /\ CookiesOwned /\ LostIsClash
  BY <1>1 DEF AnswersOwned, CookiesOwned, LostIsClash, NoCall, NoToken
<1>3. ASSUME NEW b \in Browsers PROVE InStep(b)
  <2>1. UnderWay(b) = {}
    BY <1>1 DEF UnderWay, NoCall
  <2>2. NoToken \notin Tokens
    BY TtlAssumption DEF Tokens, NoToken
  <2> QED
    BY <1>1, <2>1, <2>2 DEF InStep, Has, Fetching
<1>4. \A r \in Calls : LoggedOut(r)
  BY <1>1 DEF LoggedOut
<1> QED
  BY <1>2, <1>3, <1>4 DEF StepInv

\* A browser whose requests come one by one, none lost, has its live token until it logs
\* out, and after that its login has none (AuthService, _set_refresh_cookie).
THEOREM BrowsersStayInStep == SessionsSpec => []BrowserInStep
<1>1. SessionInv /\ StepInv => CookieIsLive
  <2> SUFFICES ASSUME SessionInv, StepInv, NEW b \in Browsers \ clashed, UnderWay(b) = {},
                      jar[b] # NoToken, restarts = 0, now < expires[jar[b]]
               PROVE  jar[b] \in store
    BY DEF CookieIsLive
  <2>1. jar[b] \in Tokens /\ now \in Nat /\ expires[jar[b]] \in Nat
    BY StepTypes
  <2>2. Has(b, jar[b]) /\ ~LogsOut(b)
    BY DEF Has, Fetching, LogsOut
  <2>3. Good(jar[b])
    BY <2>1, <2>2 DEF StepInv, InStep
  <2> QED
    BY <2>1, <2>3 DEF Good
<1>2. SessionInv /\ StepInv => LogoutEnds
  <2> SUFFICES ASSUME SessionInv, StepInv, NEW r \in Calls, reqs[r].kind = "logout",
                      reqs[r].pc = "done", reqs[r].from \notin clashed
               PROVE  /\ ~Live(reqs[r].cookie)
                      /\ reqs[r].cookie # NoToken => ~Open(login[reqs[r].cookie])
    BY DEF LogoutEnds
  <2>1. reqs[r].cookie # NoToken => \A s \in store : login[s] # login[reqs[r].cookie]
    BY DEF StepInv, LoggedOut
  <2>2. NoToken \notin store
    BY StepTypes
  <2> QED
    BY <2>1, <2>2 DEF Live, Open
<1>3. SessionsInit => StepInv
  BY StepInit
<1>4. SessionInv /\ StepInv /\ [SessionsNext]_sessionVars => StepInv'
  BY StepNext
<1> QED
  BY <1>1, <1>2, <1>3, <1>4, SessionInvariant, PTL DEF SessionsSpec, BrowserInStep
=============================================================================
