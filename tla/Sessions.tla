------------------------------ MODULE Sessions ------------------------------
(***************************************************************************)
(* Logins and their refresh tokens: AuthService over InMemoryRefreshStore, *)
(* and the browsers whose cookie jar the answers write.                    *)
(*                                                                         *)
(* The handlers are `async def' around synchronous calls, so each of them  *)
(* is one step.  What races is the browser: it sends a request with the    *)
(* cookie it has then, several may be under way (two tabs), and the answer *)
(* changes the jar when it arrives, if it arrives.  A login and all tokens *)
(* rotated out of its first one are numbered alike.                        *)
(***************************************************************************)
EXTENDS Integers, FiniteSets

CONSTANTS
  Browsers,
  RefreshTtl, AccessTtl,   \* AUTH_REFRESH_TOKEN_ and AUTH_ACCESS_TOKEN_EXPIRE_SECONDS
  MaxTime,                 \* bound: the clock
  MaxCalls,             \* bound: requests ever sent
  MaxRestarts              \* bound: restarts of the process

ASSUME TtlAssumption ==
  /\ RefreshTtl \in Nat \ {0} /\ AccessTtl \in Nat \ {0}
  /\ MaxTime \in Nat /\ MaxCalls \in Nat /\ MaxRestarts \in Nat

Calls == 1 .. MaxCalls
Tokens == 1 .. MaxCalls    \* a request issues at most one
Logins == 1 .. MaxCalls
NoToken == 0
Kinds == {"login", "refresh", "logout"}

VARIABLES
  now,
  issued,    \* refresh tokens issued so far
  login,     \* the login a token belongs to
  expires,   \* RefreshSession.expires_at
  store,     \* the tokens _sessions has
  access,    \* per login: when the last access token issued to it expires
  logins,    \* logins so far
  ended,     \* history: per login, the time its last live token was seen to go, or -1
  jar,       \* the refresh cookie of each browser
  reqs, sent,
  clashed,   \* history: browsers that had two requests under way or lost an answer
  restarts

sessionVars == <<now, issued, login, expires, store, access, logins, ended, jar, reqs, sent,
                 clashed, restarts>>
serverVars == <<issued, login, expires, store, access, logins>>

NoCall == [kind |-> "login", from |-> NoToken, cookie |-> NoToken, pc |-> "none",
           answer |-> NoToken]

\* A token that get would return.
Live(t) == t \in store /\ now < expires[t]
Open(l) == \E t \in store : login[t] = l /\ Live(t)
UnderWay(b) == {r \in Calls : reqs[r].from = b /\ reqs[r].pc \in {"sent", "answered"}}

SessionsInit ==
  /\ now = 0 /\ issued = 0 /\ logins = 0 /\ sent = 0 /\ restarts = 0
  /\ login = [t \in Tokens |-> 0]
  /\ expires = [t \in Tokens |-> 0]
  /\ store = {}
  /\ access = [l \in Logins |-> 0]
  /\ ended = [l \in Logins |-> -1]
  /\ jar = [b \in Browsers |-> NoToken]
  /\ reqs = [r \in Calls |-> NoCall]
  /\ clashed = {}

-----------------------------------------------------------------------------
(* The store.                                                               *)

\* Variant: get does not look at the expiry.
Get_NoExpiry(t) == t \in store

\* InMemoryRefreshStore.get finds the token.
Get(t) == t \in store /\ now < expires[t]

\* Variant: rotate leaves the old token where it is.
Rotated_KeepsOld(t) == store

\* rotate revokes the token, or get drops it for its age.
Rotated(t) == store \ {t}

\* issue: a fresh token for login l; `left' is what the store keeps.
Issue(left, l) ==
  /\ issued' = issued + 1
  /\ store' = left \cup {issued + 1}
  /\ login' = [login EXCEPT ![issued + 1] = l]
  /\ expires' = [expires EXCEPT ![issued + 1] = now + RefreshTtl]

\* create_access_token: it is not stored and cannot be revoked.
Grant(l) == access' = [access EXCEPT ![l] = now + AccessTtl]

-----------------------------------------------------------------------------
(* The handlers.                                                            *)

Answered(r, a) == reqs' = [reqs EXCEPT ![r].pc = "answered", ![r].answer = a]

\* AuthService.login with credentials that are verified (wrong ones change nothing).
\* The tokens an earlier login left in the jar stay in the store.
Login(r) ==
  /\ reqs[r].pc = "sent" /\ reqs[r].kind = "login"
  /\ logins' = logins + 1
  /\ Grant(logins + 1)
  /\ Issue(store, logins + 1)
  /\ Answered(r, issued + 1)
  /\ UNCHANGED <<now, ended, jar, sent, clashed, restarts>>

\* AuthService.refresh of a token get returns: the new one replaces it.
Refresh(r) ==
  /\ reqs[r].pc = "sent" /\ reqs[r].kind = "refresh"
  /\ Get(reqs[r].cookie)
  /\ LET l == login[reqs[r].cookie] IN
       /\ Grant(l)
       /\ Issue(Rotated(reqs[r].cookie), l)
  /\ Answered(r, issued + 1)
  /\ UNCHANGED <<now, logins, ended, jar, sent, clashed, restarts>>

\* Refused: no cookie, or a token that was rotated, revoked, expired or forgotten.  An
\* expired one is dropped on this occasion.  The answer is an error without a cookie.
RefreshRefused(r) ==
  /\ reqs[r].pc = "sent" /\ reqs[r].kind = "refresh"
  /\ ~Get(reqs[r].cookie)
  /\ store' = store \ {reqs[r].cookie}
  /\ Answered(r, NoToken)
  /\ UNCHANGED <<now, issued, login, expires, access, logins, ended, jar, sent, clashed,
                 restarts>>

\* AuthService.logout revokes the token of the cookie, whatever it is worth.
Logout(r) ==
  /\ reqs[r].pc = "sent" /\ reqs[r].kind = "logout"
  /\ store' = store \ {reqs[r].cookie}
  /\ ended' = [l \in Logins |-> IF \E t \in store : /\ t = reqs[r].cookie
                                                    /\ login[t] = l /\ Live(t)
                                  THEN now ELSE ended[l]]
  /\ Answered(r, NoToken)
  /\ UNCHANGED <<now, issued, login, expires, access, logins, jar, sent, clashed, restarts>>

\* A restart of the process forgets every token.
Restart ==
  /\ restarts < MaxRestarts
  /\ restarts' = restarts + 1
  /\ store' = {}
  /\ ended' = [l \in Logins |-> IF Open(l) THEN now ELSE ended[l]]
  /\ UNCHANGED <<now, issued, login, expires, access, logins, jar, reqs, sent, clashed>>

Tick ==
  /\ now < MaxTime
  /\ now' = now + 1
  /\ ended' = [l \in Logins |-> IF \E t \in store : login[t] = l /\ Live(t)
                                                     /\ expires[t] = now + 1
                                  THEN now + 1 ELSE ended[l]]
  /\ UNCHANGED <<serverVars, jar, reqs, sent, clashed, restarts>>

-----------------------------------------------------------------------------
(* The browsers.                                                            *)

Send(b, k) ==
  /\ sent < MaxCalls
  /\ sent' = sent + 1
  /\ reqs' = [reqs EXCEPT ![sent + 1] =
                [kind |-> k, from |-> b, cookie |-> jar[b], pc |-> "sent",
                 answer |-> NoToken]]
  /\ clashed' = IF UnderWay(b) # {} THEN clashed \cup {b} ELSE clashed
  /\ UNCHANGED <<now, serverVars, ended, jar, restarts>>

\* Variant: the answer of refresh carries no cookie.
Cookie_NotRenewed(r) ==
  CASE reqs[r].kind = "logout" -> NoToken
    [] reqs[r].kind = "login"  -> reqs[r].answer
    [] OTHER                   -> jar[reqs[r].from]

\* _set_refresh_cookie and _clear_refresh_cookie; an error sets nothing.
Cookie(r) ==
  CASE reqs[r].kind = "logout"   -> NoToken
    [] reqs[r].answer # NoToken  -> reqs[r].answer
    [] OTHER                     -> jar[reqs[r].from]

Deliver(r) ==
  /\ reqs[r].pc = "answered"
  /\ jar' = [jar EXCEPT ![reqs[r].from] = Cookie(r)]
  /\ reqs' = [reqs EXCEPT ![r].pc = "done"]
  /\ UNCHANGED <<now, serverVars, ended, sent, clashed, restarts>>

\* The request or its answer is lost.
Lose(r) ==
  /\ reqs[r].pc \in {"sent", "answered"}
  /\ reqs' = [reqs EXCEPT ![r].pc = "lost"]
  /\ clashed' = clashed \cup {reqs[r].from}
  /\ UNCHANGED <<now, serverVars, ended, jar, sent, restarts>>

SessionsNext ==
  \/ \E r \in Calls : \/ Login(r) \/ Refresh(r) \/ RefreshRefused(r) \/ Logout(r)
                      \/ Deliver(r) \/ Lose(r)
  \/ \E b \in Browsers, k \in Kinds : Send(b, k)
  \/ Tick \/ Restart

SessionsSpec == SessionsInit /\ [][SessionsNext]_sessionVars

-----------------------------------------------------------------------------
(* Properties.                                                              *)

CallSet == [kind : Kinds, from : Browsers \cup {NoToken}, cookie : Tokens \cup {NoToken},
            pc : {"none", "sent", "answered", "lost", "done"},
            answer : Tokens \cup {NoToken}]

\* Every variable has its type; no more tokens exist than requests were handled.
SessionsTypeOK ==
  /\ now \in 0 .. MaxTime /\ restarts \in 0 .. MaxRestarts
  /\ sent \in 0 .. MaxCalls
  /\ issued \in 0 .. MaxCalls /\ logins \in 0 .. issued
  /\ login \in [Tokens -> Logins \cup {0}]
  /\ expires \in [Tokens -> 0 .. MaxTime + RefreshTtl]
  /\ store \subseteq 1 .. issued
  /\ access \in [Logins -> 0 .. MaxTime + AccessTtl]
  /\ ended \in [Logins -> -1 .. MaxTime]
  /\ jar \in [Browsers -> Tokens \cup {NoToken}]
  /\ reqs \in [Calls -> CallSet]
  /\ clashed \subseteq Browsers

\* A login has at most one live refresh token, however refreshes of two tabs, lost
\* answers and logouts interleave (InMemoryRefreshStore.rotate).
OneTokenPerLogin ==
  \A s, t \in store : Live(s) /\ Live(t) /\ login[s] = login[t] => s = t

\* A login that is over -- logged out, expired, forgotten by a restart -- never has a
\* live token again, whatever requests with its cookie are still under way (get, rotate).
EndedStaysEnded ==
  [][\A l \in 1 .. logins : ~Open(l) => ~Open(l)']_sessionVars

\* A browser that never had two requests under way nor lost an answer, and has none under
\* way now, holds the one live token of its login until that expires or the process
\* restarts: refresh and its cookie stay in step (refresh, _set_refresh_cookie).
CookieIsLive ==
  \A b \in Browsers \ clashed :
    UnderWay(b) = {} /\ jar[b] # NoToken /\ restarts = 0 /\ now < expires[jar[b]]
      => jar[b] \in store

\* Once such a browser got the answer to its logout, no token it was ever sent is live
\* unless another browser's: a later login is the only way back in (logout, the cookie).
LogoutEnds ==
  \A r \in Calls :
    LET b == reqs[r].from IN
    reqs[r].kind = "logout" /\ reqs[r].pc = "done" /\ b \notin clashed
      => ~Live(reqs[r].cookie) /\ (reqs[r].cookie # NoToken => ~Open(login[reqs[r].cookie]))

\* An access token cannot be revoked, but none issued to a login outlives its end by more
\* than the lifetime of an access token: they are only issued to live logins
\* (create_access_token, decode_access_token).
AccessEndsSoon ==
  \A l \in Logins : ended[l] >= 0 => access[l] <= ended[l] + AccessTtl

\* A browser whose requests come one by one has its live token until it logs out, and none
\* after that (refresh, logout, _set_refresh_cookie).
BrowserInStep == CookieIsLive /\ LogoutEnds

\* What a login gives stays bounded: one refresh token, and access no longer than the
\* lifetime of an access token beyond its end (rotate, create_access_token).
TokensAreBounded == OneTokenPerLogin /\ AccessEndsSoon
=============================================================================
