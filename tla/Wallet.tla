-------------------------------- MODULE Wallet --------------------------------
(***************************************************************************)
(* The wallet validator (validators/wallet.ak, lib/wallet/*.ak), composed  *)
(* with the state thread.  The wallet's value lies in any number of UTxOs. *)
(* A transaction may spend some of them only along with the state thread;  *)
(* the wallet reads the thread's action and its old and new State in the   *)
(* same transaction, and bounds what may leave the UTxOs it spends.  It    *)
(* never sees the others.                                                  *)
(*                                                                         *)
(* Every transaction of SttThread may also come without a wallet UTxO; a   *)
(* settlement is then paid by its author.  That payouts reach the payees   *)
(* is the subject of PayoutRouting; here what leaves in a settlement is    *)
(* theirs.  Stake credentials, datums and reference scripts of the         *)
(* continuing outputs are left out, and so are withdrawals of rewards,     *)
(* certificates and votes, which need operator Use and move no UTxO.       *)
(*                                                                         *)
(* Rule_Mistake is Rule with that mistake; see SttThread.                  *)
(***************************************************************************)
EXTENDS SttThread, Bags

CONSTANTS
  Coin,     \* values of UTxOs somebody may make: functions from Asset
  Layout,   \* bags of them that a transaction may return to the wallet
  MaxCoins, \* bound: UTxOs of the wallet
  MaxValue  \* bound: what is ever paid in, per asset

\* What an output holds, and what the outputs of a transaction hold.
Value == [Asset -> Nat]
IsLot(bag) == IsABag(bag) /\ IsFiniteSet(DOMAIN bag) /\ DOMAIN bag \subseteq Value

ASSUME CoinAssumption == Coin \subseteq Value
ASSUME LayoutAssumption == \A bag \in Layout : IsLot(bag)

\* The accounts below are kept apart.
ASSUME TakerAssumption ==
  /\ UserId \cap BeneficiaryId = {}
  /\ {"operators", "payees"} \cap (UserId \cup BeneficiaryId) = {}

VARIABLES
  purse,  \* the UTxOs under the wallet's payment credential, a bag of values
  taken   \* history: what each stakeholder has got out of the wallet

walletVars == <<vars, purse, taken>>

Zero == [a \in Asset |-> 0]
Taker == UserId \cup BeneficiaryId \cup {"operators", "payees"}

Total(bag) ==
  [a \in Asset |-> FoldFunctionOnSet(+, 0, [coin \in DOMAIN bag |-> bag[coin] * coin[a]],
                                     DOMAIN bag)]

Minus(value, amount) == [a \in Asset |-> value[a] - amount[a]]
Plus(value, amount) == [a \in Asset |-> value[a] + amount[a]]

-----------------------------------------------------------------------------
(* The streams' reserve. *)

ReservedFor_AtStart(stream, latest) ==
  IF stream.paid >= LifetimeTotal(stream) THEN 0
  ELSE Larger(0, 1 - stream.paid)

\* One unit more than has accrued, while the stream still owes something.
ReservedFor(stream, latest) ==
  IF stream.paid >= LifetimeTotal(stream) THEN 0
  ELSE Larger(0, AccruedAt(stream, latest) + 1 - stream.paid)

SumOver(amount, ss, a) ==
  FoldFunctionOnSet(+, 0, amount, {s \in DOMAIN ss : ss[s].asset = a})

StreamingReserve(ss, latest) ==
  [a \in Asset |-> SumOver([s \in DOMAIN ss |-> ReservedFor(ss[s], latest)], ss, a)]

\* An asset of which something leaves must leave its reserve behind.
ReserveIsPreserved(ss, before, after, latest) ==
  \A a \in Asset : after[a] >= Smaller(before[a], StreamingReserve(ss, latest)[a])

-----------------------------------------------------------------------------
(* How much may leave. *)

ExactWithdrawal(spent, back, amount) ==
  /\ BagCardinality(back) <= BagCardinality(spent)
  /\ Total(back) = Minus(Total(spent), amount)

RemainingWeight == FoldFunctionOnSet(+, 0, [b \in DOMAIN beneficiaries |-> beneficiaries[b].weight],
                                     DOMAIN beneficiaries)

PaidOutWithinShare_OfInput(b, before, after, reserve) ==
  \A a \in Asset :
    before[a] > after[a] =>
      (before[a] - after[a]) * RemainingWeight <= beneficiaries[b].weight * before[a]

PaidOutWithinShare_AfterRemoval(b, before, after, reserve) ==
  \A a \in Asset :
    before[a] > after[a] =>
      (before[a] - after[a]) * RemainingWeight'
        <= beneficiaries[b].weight * Larger(0, before[a] - reserve[a])

PaidOutWithinShare(b, before, after, reserve) ==
  \A a \in Asset :
    before[a] > after[a] =>
      (before[a] - after[a]) * RemainingWeight
        <= beneficiaries[b].weight * Larger(0, before[a] - reserve[a])

\* What a settlement counts as paid, by stream: a removed one is paid in full.
CountedAsPaid(s) ==
  (IF s \in DOMAIN streams' THEN streams'[s].paid ELSE LifetimeTotal(streams[s]))
    - streams[s].paid

PayoutDelta ==
  [a \in Asset |-> SumOver([s \in DOMAIN streams |-> CountedAsPaid(s)], streams, a)]

\* What a draw took from the budget of u.
SpentAllowance(tx, u) == Minus(EffectiveAllowance(u, tx.lo), users'[u].remaining)

Share(b, value) == [a \in Asset |-> (value[a] * beneficiaries[b].weight) \div RemainingWeight]

-----------------------------------------------------------------------------
(* Spending, by the thread's action in the same transaction. *)

Replace(spent, back) ==
  /\ purse' = (purse (-) spent) (+) back
  /\ BagCardinality(purse') <= MaxCoins

Outflow(spent, back) == Minus(Total(spent), Total(back))

Take(taker, amount) == taken' = [taken EXCEPT ![taker] = Plus(@, amount)]

Inputs ==
  {spent \in UNION {[kinds -> 1..BagCardinality(purse)] : kinds \in (SUBSET DOMAIN purse) \ {{}}} :
     spent \sqsubseteq purse}

\* What may come back to the wallet.  A transaction that also brings value is
\* that transaction and a Deposit.
Outputs(spent) == {back \in Layout : \A a \in Asset : Total(back)[a] <= Total(spent)[a]}

SpendAsOperator(tx) ==
  /\ OperatorUse(tx)
  /\ tx.hi # None
  /\ \E spent \in Inputs : \E back \in Outputs(spent) :
       /\ ReserveIsPreserved(streams', Total(spent), Total(back), tx.hi)
       /\ Replace(spent, back)
       /\ Take("operators", Outflow(spent, back))

SpendAllowance(tx) ==
  /\ UseAllowance(tx)
  /\ \E u \in DOMAIN users, spent \in Inputs : \E back \in Outputs(spent) :
       /\ users'[u] # users[u]
       /\ ExactWithdrawal(spent, back, SpentAllowance(tx, u))
       /\ ReserveIsPreserved(streams', Total(spent), Total(back), tx.hi)
       /\ Replace(spent, back)
       /\ Take(u, Outflow(spent, back))

\* The last beneficiary is held by the reserve alone.
SpendShare(tx, b) ==
  /\ UseBeneficiary(tx, b)
  /\ tx.hi # None
  /\ \E spent \in Inputs : \E back \in Outputs(spent) :
       /\ BagCardinality(back) <= BagCardinality(spent)
       /\ ReserveIsPreserved(streams', Total(spent), Total(back), tx.hi)
       /\ IsSole(b)
          \/ PaidOutWithinShare(b, Total(spent), Total(back), StreamingReserve(streams', tx.hi))
       /\ Replace(spent, back)
       /\ Take(b, Outflow(spent, back))

DividedExactly_RoundedDown(value) == RemainingWeight > 0

DividedExactly(value) ==
  \A b \in DOMAIN beneficiaries, a \in Asset :
    Share(b, value)[a] * RemainingWeight = value[a] * beneficiaries[b].weight

\* One UTxO is divided without a remainder among all beneficiaries.
SpendDistribution(tx, b) ==
  /\ DistributeBeneficiaries(tx, b)
  /\ tx.hi # None
  /\ \E coin \in DOMAIN purse :
       /\ DividedExactly(coin)
       /\ Replace(SetToBag({coin}), EmptyBag)
       /\ taken' = [t \in Taker |-> IF t \in DOMAIN beneficiaries
                                    THEN Plus(taken[t], Share(t, coin)) ELSE taken[t]]

\* No reserve here: an underfunded wallet could never pay its payees.
SpendSettlement(tx) ==
  /\ PayStreamingPayment(tx)
  /\ \E spent \in Inputs : \E back \in Outputs(spent) :
       /\ ExactWithdrawal(spent, back, PayoutDelta)
       /\ Replace(spent, back)
       /\ Take("payees", Outflow(spent, back))

SpendConsolidation(tx) ==
  /\ Consolidate(tx)
  /\ tx.hi # None
  /\ \E spent \in Inputs : \E back \in Outputs(spent) :
       /\ Total(spent) = Total(back)
       /\ Replace(spent, back)
       /\ UNCHANGED taken

Spend(tx) ==
  \/ SpendAsOperator(tx)
  \/ SpendAllowance(tx)
  \/ \E b \in DOMAIN beneficiaries : SpendShare(tx, b) \/ SpendDistribution(tx, b)
  \/ SpendSettlement(tx)
  \/ SpendConsolidation(tx)

Income == [a \in Asset |-> Total(purse)[a] + FoldFunctionOnSet(+, 0, [t \in Taker |-> taken[t][a]], Taker)]

\* Anybody may send a UTxO to the wallet.
Deposit ==
  /\ \E coin \in Coin :
       /\ \A a \in Asset : coin[a] + Income[a] <= MaxValue
       /\ Replace(EmptyBag, SetToBag({coin}))
  /\ UNCHANGED <<vars, taken>>

WalletInit ==
  /\ Init
  /\ purse \in Layout
  /\ taken = [t \in Taker |-> Zero]

WalletNext ==
  \/ Next /\ UNCHANGED <<purse, taken>>
  \/ \E tx \in Transaction : Spend(tx)
  \/ Deposit

WalletSpec == WalletInit /\ [][WalletNext]_walletVars
-----------------------------------------------------------------------------
(* Properties. *)

\* What all payees have earned by now and not been paid.
Owed ==
  [a \in Asset |-> SumOver([s \in DOMAIN streams |-> Entitlement(streams[s], now) - streams[s].paid],
                           streams, a)]

Balance == Total(purse)

\* Whoever takes money out of whichever UTxOs, what the payees have earned by
\* now stays in the wallet, unless it goes to them; if there is less than that,
\* nobody else takes anything (funding.ak:42-63).
ReserveStays ==
  [][taken'["payees"] = taken["payees"] =>
       \A a \in Asset : Balance'[a] >= Smaller(Balance[a], Owed[a])]_walletVars

\* A beneficiary that withdraws first, or that spends the UTxOs it likes best,
\* never makes the part of another one smaller (beneficiary_share.ak:17-47).
HeirsKeepTheirWorth ==
  [][/\ \A t \in Taker \ BeneficiaryId : taken'[t] = taken[t]
     /\ DOMAIN beneficiaries' \subseteq DOMAIN beneficiaries
     /\ beneficiaries' = Restrict(beneficiaries, DOMAIN beneficiaries')
     => \A b \in DOMAIN beneficiaries', a \in Asset :
          LET worth == Balance[a] * RemainingWeight'
              rest == Balance'[a] * RemainingWeight
              gain == (taken'[b][a] - taken[b][a]) * RemainingWeight * RemainingWeight'
          IN  rest * beneficiaries[b].weight + gain >= worth * beneficiaries[b].weight]_walletVars

\* What leaves a UTxO is with one of the stakeholders: a division among the
\* beneficiaries keeps no remainder for its author (beneficiary_distribution.ak:46-49).
NothingIsLost ==
  [][taken' # taken => Income' = Income]_walletVars

\* The accounts the wallet keeps for its stakeholders, whatever the UTxOs.
Accounts == INSTANCE WalletAccounts WITH
  User <- UserId, Heir <- BeneficiaryId,
  balance <- Balance, owed <- Owed,
  weights <- [b \in DOMAIN beneficiaries |-> beneficiaries[b].weight],
  budgets <- [u \in DOMAIN users |->
                [a \in Asset |-> Larger(users[u].perDay[a], users[u].remaining[a])]]

\* Every transaction is one of those the accounts allow: nobody takes money but
\* operators, users within their budget, beneficiaries within their part and
\* payees what is settled (rules.ak:50-66).
ImplementsAccounts == Accounts!Spec
=============================================================================
