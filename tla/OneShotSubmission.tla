-------------------------- MODULE OneShotSubmission --------------------------
(***************************************************************************)
(* What a signature request promises its signers, with no database, no     *)
(* concurrency and no network between them: the request stands for one     *)
(* transfer.  While it is open its author may revise the transaction.      *)
(* Once claimed, the transaction is fixed; it is then handed over once or  *)
(* the request reopens.  After the hand-over nothing about the request can *)
(* change, and after a withdrawal nothing is ever handed over.             *)
(***************************************************************************)
CONSTANTS Row, Body, None

VARIABLES
  phase,   \* where each request stands
  body,    \* the transaction it stands for, None before it is filed and once it is closed
  landed   \* the transactions on the chain

vars == <<phase, body, landed>>

Phase == {"unfiled", "open", "claimed", "handed over", "closed"}

Init ==
  /\ phase = [r \in Row |-> "unfiled"]
  /\ body = [r \in Row |-> None]
  /\ landed = {}

Move(r, from, to, b) ==
  /\ phase[r] = from
  /\ phase' = [phase EXCEPT ![r] = to]
  /\ body' = [body EXCEPT ![r] = b]
  /\ UNCHANGED landed

File(r, b) == Move(r, "unfiled", "open", b)
Revise(r, b) == Move(r, "open", "open", b)
Claim(r) == Move(r, "open", "claimed", body[r])
Reopen(r) == Move(r, "claimed", "open", body[r])
HandOver(r) == Move(r, "claimed", "handed over", body[r])
Withdraw(r) == Move(r, "open", "closed", None)

\* Only what was handed over can land.
Land(b) ==
  /\ \E r \in Row : phase[r] = "handed over" /\ body[r] = b
  /\ landed' = landed \cup {b}
  /\ UNCHANGED <<phase, body>>

Next ==
  \/ \E r \in Row, b \in Body : File(r, b) \/ Revise(r, b)
  \/ \E r \in Row : Claim(r) \/ Reopen(r) \/ HandOver(r) \/ Withdraw(r)
  \/ \E b \in Body : Land(b)

Spec == Init /\ [][Next]_vars
=============================================================================
