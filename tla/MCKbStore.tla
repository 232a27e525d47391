----------------------------- MODULE MCKbStore ------------------------------
(* KbStore and Workspace for TLC, in one run: a behaviour either is of      *)
(* knowledge bases or of what is arranged around them, and the other one    *)
(* stays as it began.  Two names of knowledge bases share a slug, a third   *)
(* does not.                                                                *)
EXTENDS KbStore, Workspace, TLC

CONSTANTS a1, a2, b, sa, sb, m1, s1, s2, k1, k2, n1, n2, c1, c2

SlugOf == [n \in {a1, a2, b} |-> IF n = b THEN sb ELSE sa]

\* The two names of one slug are only ever compared, and so are servers.
Renamings == Permutations({a1, a2}) \cup Permutations({s1, s2})

VARIABLE part

BothInit == Init /\ WorkspaceInit /\ part \in {"knowledge bases", "workspace"}

BothNext ==
  /\ \/ part = "knowledge bases" /\ Next /\ UNCHANGED workspaceVars
     \/ part = "workspace" /\ WorkspaceNext /\ UNCHANGED vars
  /\ UNCHANGED part

BothSpec == BothInit /\ [][BothNext]_<<part, vars, workspaceVars>>

\* The types of what both kinds of behaviour change (the metadata file, the tables).
BothTypeOK == TypeOK /\ WorkspaceTypeOK
=============================================================================
