--------------------------- MODULE MCIndexerHistory ---------------------------
(* One wallet, and more transactions between two runs than the head scan *)
(* looks at.                                                             *)
EXTENDS SttIndexer

CONSTANTS w1

MCOne == <<w1>>
=============================================================================
