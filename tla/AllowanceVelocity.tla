--------------------------- MODULE AllowanceVelocity ---------------------------
(***************************************************************************)
(* The state thread with a memory of allowance draws.  The contract stores *)
(* only what is left and when the budget renews; the promise is about what *)
(* a user can take in any stretch of one day, over several transactions    *)
(* whose ranges the user chooses.  No action of the thread reads the       *)
(* history.                                                                *)
(***************************************************************************)
EXTENDS SttThread

VARIABLES
  drawn,   \* by user and age: what was drawn from that many time units ago on
  granted  \* by user: the remaining allowance its configuration gave it

allowanceVars == <<vars, drawn, granted>>

Nothing == [a \in Asset |-> 0]
NothingDrawn == [age \in 0..(Day - 1) |-> Nothing]

\* What a transaction took from the budget of u.
Taken(tx, u) == [a \in Asset |-> EffectiveAllowance(u, tx.lo)[a] - users'[u].remaining[a]]

Draw(tx) ==
  /\ UseAllowance(tx)
  /\ \E u \in DOMAIN users :
       /\ users'[u] # users[u]
       /\ drawn' = [drawn EXCEPT ![u] = [age \in 0..(Day - 1) |->
                      [a \in Asset |-> @[age][a] + Taken(tx, u)[a]]]]
  /\ UNCHANGED granted

\* An operator who changes a user's record grants it a new allowance.
Untouched(u) == u \in DOMAIN users \cap DOMAIN users' /\ users[u] = users'[u]

Grant(tx) ==
  /\ Operate(tx)
  /\ drawn' = [u \in UserId |-> IF Untouched(u) THEN drawn[u] ELSE NothingDrawn]
  /\ granted' = [u \in UserId |->
                   IF Untouched(u) THEN granted[u]
                   ELSE IF u \in DOMAIN users' THEN users'[u].remaining ELSE Nothing]

Other(tx) ==
  /\ RenewProofOfLife(tx) \/ Recover(tx) \/ Settle(tx)
  /\ UNCHANGED <<drawn, granted>>

Age ==
  /\ Tick
  /\ drawn' = [u \in UserId |-> [age \in 0..(Day - 1) |->
                 IF age = 0 THEN Nothing ELSE drawn[u][age - 1]]]
  /\ UNCHANGED granted

AllowanceInit ==
  /\ Init
  /\ drawn = [u \in UserId |-> NothingDrawn]
  /\ granted = [u \in UserId |-> IF u \in DOMAIN users THEN users[u].remaining ELSE Nothing]

AllowanceNext == Age \/ \E tx \in Transaction : Draw(tx) \/ Grant(tx) \/ Other(tx)

AllowanceSpec == AllowanceInit /\ [][AllowanceNext]_allowanceVars

-----------------------------------------------------------------------------
\* No choice of validity ranges lets a user take more than one day's budget, or
\* the larger one it was configured with, in any stretch of time shorter than a
\* day: a draw before the reset and one after it are at least a day apart.
DailyLimit ==
  \A u \in DOMAIN users, a \in Asset :
    drawn[u][Day - 1][a] <= Larger(users[u].perDay[a], granted[u][a])
=============================================================================
