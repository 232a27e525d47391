------------------------------ MODULE MCKbFiles -----------------------------
(* The constants of KbFiles for TLC.                                        *)
EXTENDS KbFiles, TLC

CONSTANTS a, b, blank, nothing, t1

\* Contents are only ever compared.
Renamings == Permutations(Contents)

\* The second name is presigned once the first is in use or was, and a fault comes to at most
\* one upload session.
Used(n) == Named(n) # {} \/ \E u \in Uploads : upName[u] = n
Small ==
  /\ Used(2) => Used(1) \/ deleted # {}
  /\ faults > 0 => ups <= 1
=============================================================================
