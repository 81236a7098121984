--------------------------- MODULE MCFinalRecovery ---------------------------
(***************************************************************************)
(* A salary that its payee may stop, a rent to a script that only the      *)
(* beneficiary can stop, and a wallet that holds more or less than both    *)
(* will take, in more UTxOs than fit in a transaction.                     *)
(***************************************************************************)
EXTENDS FinalRecovery, TLC

CONSTANTS dan, salary, rent

Stream(to, rate, from, until) == [payee |-> to, rate |-> rate, start |-> from, end |-> until, paid |-> 0]

MCSchedules ==
  {salary :> Stream(dan, 1, -1, 3) @@ rent :> Stream(None, 1, 1, 2),
   salary :> Stream(dan, 1, 2, 4),
   <<>>}

MCPurses == {1 :> 2, 1 :> 2 @@ 3 :> 1}
=============================================================================
