------------------------------ MODULE MCIndexer ------------------------------
(***************************************************************************)
(* Two wallets, the second of which is minted while runs and requests are  *)
(* under way, and more transactions than a head scan looks at.             *)
(***************************************************************************)
EXTENDS SttIndexer

CONSTANTS w1, w2

MCGenesis == <<w1>>
=============================================================================
