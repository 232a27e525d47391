------------------------------- MODULE MCApi --------------------------------
(* What comes in through the routes, for TLC in one run: creating requests  *)
(* with their keys, or logins with their tokens.  A behaviour is of one of  *)
(* the two, and the other one stays as it began.                            *)
EXTENDS ImportApi, Sessions

CONSTANTS s1, s2, k1, k2, b1, b2, p1, none, tabs, other

VARIABLE part

ApiInit == Init /\ SessionsInit /\ part \in {"keys", "sessions"}

ApiNext ==
  /\ \/ part = "keys" /\ Next /\ UNCHANGED sessionVars
     \/ part = "sessions" /\ SessionsNext /\ UNCHANGED vars
  /\ UNCHANGED part

ApiSpec == ApiInit /\ [][ApiNext]_<<part, vars, sessionVars>>
=============================================================================
