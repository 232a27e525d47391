---------------------------- MODULE MCImportJob -----------------------------
(* Instances of ImportJob for TLC. *)
EXTENDS ImportJob

CONSTANTS f1, f2, t1, poller

OneFile == {<<f1>>}
OneOrBoth == {<<f1>>, <<f1, f2>>}
Both == {<<f1, f2>>}

\* One job of two files that may fail, with a cancel request or a crash, or up to two jobs of
\* one file that do not, with both.
Small ==
  \/ created = 0
  \/ \A j \in Created : Len(files[j]) = 1
  \/ created = 1 /\ cancels + crashes <= 1
FewRaise == (\E j \in Created : Len(files[j]) = 1) => \A w \in Workers : ~FileRaises(w)
=============================================================================
