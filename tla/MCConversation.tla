--------------------------- MODULE MCConversation ---------------------------
(* The constants of Conversation for TLC.                                   *)
EXTENDS Conversation, TLC

CONSTANTS c1, c2, none

Renamings == Permutations({c1, c2})
=============================================================================
