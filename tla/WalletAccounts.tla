---------------------------- MODULE WalletAccounts ----------------------------
(***************************************************************************)
(* What an Epora wallet promises to the people who depend on it, told as   *)
(* the accounts of one purse: no UTxOs, no signatures, no validity ranges. *)
(* Operators may move what the payees are not owed; a user draws at most   *)
(* its budget, which a draw never raises; an heir takes at most its        *)
(* weighted part of what the payees are not owed; a settlement takes       *)
(* exactly what it settles; and nobody else takes anything.  Wallet        *)
(* implements it.                                                          *)
(***************************************************************************)
EXTENDS Integers, FiniteSets, Functions

CONSTANTS Asset, User, Heir

VARIABLES
  balance,  \* what the wallet holds
  owed,     \* what payees have earned and not been paid
  weights,  \* the weight of each beneficiary
  budgets,  \* the most each user may draw at once
  taken     \* what each user, each beneficiary, operators and payees have got

accounts == <<balance, owed, weights, budgets, taken>>

Amount == [Asset -> Nat]
Taker == User \cup Heir \cup {"operators", "payees"}

Covers(more, less) == \A a \in Asset : less[a] <= more[a]

AllWeights(ws) == FoldFunctionOnSet(+, 0, ws, DOMAIN ws)

Outgo == [a \in Asset |-> balance[a] - balance'[a]]

\* What the wallet loses, one taker gets.
Paid(taker) ==
  /\ balance' \in Amount /\ Covers(balance, balance')
  /\ taken' = [taken EXCEPT ![taker] = [a \in Asset |-> @[a] + Outgo[a]]]

\* Of an asset that is owed nothing leaves but what is beyond the debt.
LeavesDebts == \A a \in Asset : balance'[a] = balance[a] \/ balance'[a] >= owed[a]

Dispose ==
  /\ Paid("operators")
  /\ LeavesDebts
  /\ UNCHANGED <<owed, weights, budgets>>

\* What is left of a budget that was above a day's is drawn once.
Draw(u) ==
  /\ Paid(u)
  /\ LeavesDebts
  /\ Covers(budgets[u], Outgo)
  /\ DOMAIN budgets' = DOMAIN budgets
  /\ budgets' = [budgets EXCEPT ![u] = budgets'[u]]
  /\ budgets'[u] \in Amount /\ Covers(budgets[u], budgets'[u])
  /\ UNCHANGED <<owed, weights>>

\* An heir that is not the last one takes its part once.
Inherit(b) ==
  /\ Paid(b)
  /\ LeavesDebts
  /\ \A a \in Asset :
       Outgo[a] > 0 => Outgo[a] * AllWeights(weights) <= weights[b] * (balance[a] - owed[a])
  /\ weights' = IF DOMAIN weights = {b} THEN weights
                ELSE [c \in DOMAIN weights \ {b} |-> weights[c]]
  /\ UNCHANGED <<owed, budgets>>

\* Everybody gets exactly its part of a lot, when no payee waits.
Part(b) == [a \in Asset |-> (Outgo[a] * weights[b]) \div AllWeights(weights)]

Distribute ==
  /\ balance' \in Amount /\ Covers(balance, balance')
  /\ \A a \in Asset : owed[a] = 0
  /\ \A b \in DOMAIN weights, a \in Asset :
       Part(b)[a] * AllWeights(weights) = Outgo[a] * weights[b]
  /\ taken' = [t \in Taker |-> IF t \in DOMAIN weights
                               THEN [a \in Asset |-> taken[t][a] + Part(t)[a]]
                               ELSE taken[t]]
  /\ UNCHANGED <<owed, weights, budgets>>

Settle ==
  /\ Paid("payees")
  /\ \A a \in Asset : owed'[a] = owed[a] - Outgo[a]
  /\ UNCHANGED <<weights, budgets>>

\* A settlement that somebody else pays for.
Relieve ==
  /\ owed' \in Amount /\ Covers(owed, owed')
  /\ UNCHANGED <<balance, weights, budgets, taken>>

Receive ==
  /\ balance' \in Amount /\ Covers(balance', balance)
  /\ UNCHANGED <<owed, weights, budgets, taken>>

\* Time and configuration move no money, and nothing that was earned is lost.
Arrange ==
  /\ owed' \in Amount /\ Covers(owed', owed)
  /\ UNCHANGED <<balance, taken>>

Init ==
  /\ balance \in Amount
  /\ owed \in Amount
  /\ taken = [t \in Taker |-> [a \in Asset |-> 0]]

Next ==
  \/ Dispose
  \/ \E u \in DOMAIN budgets : Draw(u)
  \/ \E b \in DOMAIN weights : Inherit(b)
  \/ Distribute \/ Settle \/ Relieve \/ Receive \/ Arrange

Spec == Init /\ [][Next]_accounts
=============================================================================
