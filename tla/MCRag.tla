------------------------------- MODULE MCRag --------------------------------
(* Retrieval and Chunker for TLC, in one run: a behaviour either splits a   *)
(* text or asks and imports.                                                *)
EXTENDS Retrieval, Chunker, TLC

CONSTANTS f1, f2, g, k1, k2, mixed, pictures, ka, kb

KbOfFile == [f \in {f1, f2, g} |-> IF f = g THEN k2 ELSE k1]

\* The two files of one knowledge base are only ever compared.
Renamings == Permutations({f1, f2})

Piece(keys) == [blank |-> FALSE, keys |-> keys]
BlankPiece == [blank |-> TRUE, keys |-> <<>>]
Figure(key, described) == [key |-> key, described |-> described]

\* A page of text that shows one of its pictures; two pages of pictures.
Contents ==
  [d \in {mixed, pictures} |->
     IF d = mixed
     THEN <<[pieces |-> <<BlankPiece, Piece(<<ka>>)>>, images |-> <<Figure(ka, TRUE)>>]>>
     ELSE <<[pieces |-> <<>>, images |-> <<Figure(ka, TRUE), Figure(kb, FALSE)>>],
            [pieces |-> <<BlankPiece>>, images |-> <<Figure(kb, TRUE)>>]>>]

RagInit ==
  \/ Split /\ Init /\ doc = [f \in Files |-> NoRows(NoDoc)]
  \/ Init /\ Split /\ length = 0 /\ size = 1

RagNext ==
  \/ Loop /\ UNCHANGED vars
  \/ length = 0 /\ Next /\ UNCHANGED loopVars

RagSpec == RagInit /\ [][RagNext]_<<vars, loopVars>>
=============================================================================
