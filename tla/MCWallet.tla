------------------------------- MODULE MCWallet -------------------------------
(***************************************************************************)
(* A wallet in daily use, with an admin and a spender with an allowance of *)
(* two assets; and one that is left to two heirs of different weight.  A   *)
(* stream runs in either of them, or none does, and may owe more than is   *)
(* there.  Lists of streams and of assets are compared with tables on      *)
(* small instances.                                                        *)
(***************************************************************************)
EXTENDS ReserveLists, TLC

CONSTANTS ann, bob, dan, owner, spender, heir1, heir2, stream1, ada, tok, label,
          MostCoins, MostValue  \* bounds of the layouts

MCKey == {ann, bob, dan}
MCSigningKey == {ann, bob}
MCUserId == {owner, spender}
MCBeneficiaryId == {heir1, heir2}
MCStreamId == {stream1}
MCAsset == {ada, tok}
MCName == {label}
MCAssetOrder == {<<ada, tok>>}

Bundle(m, n) == ada :> m @@ tok :> n
MCCoin == {Bundle(m, 0) : m \in 1..MostValue} \cup {Bundle(2, 1)}
MCDeposit == {Bundle(1, 0)}

MCLayout ==
  {b \in UNION {[kinds -> 1..MostCoins] : kinds \in {k \in SUBSET MCCoin : Cardinality(k) <= MostCoins}} :
     /\ BagCardinality(b) <= MostCoins
     /\ Total(b)[ada] <= MostValue /\ Total(b)[tok] <= 1}

Owner ==
  [wallets |-> {ann}, admin |-> TRUE, keeper |-> FALSE, power |-> 0,
   perDay |-> Bundle(0, 0), remaining |-> Bundle(0, 0), reset |-> 0]

Spender ==
  [wallets |-> {bob}, admin |-> FALSE, keeper |-> FALSE, power |-> 0,
   perDay |-> Bundle(1, 1), remaining |-> Bundle(2, 1), reset |-> 1]

Heirs ==
  heir1 :> [wallets |-> {ann}, after |-> None, weight |-> 1]
    @@ heir2 :> [wallets |-> {bob}, after |-> 1, weight |-> 2]

MCConfigurations ==
  {[users |-> owner :> Owner @@ spender :> Spender, threshold |-> None,
    beneficiaries |-> <<>>, unlock |-> None, increment |-> None],
   [users |-> <<>>, threshold |-> None, beneficiaries |-> Heirs, unlock |-> 0, increment |-> 2]}

Salary == [payee |-> dan, asset |-> ada, rate |-> 1, start |-> 0, end |-> 3, paid |-> 0]

MCMintStreams == {stream1 :> Salary, <<>>}

\* The users' wallet holds less and is followed for a shorter time; the heirs'
\* wallet holds one asset and has had no other owner.
Scope ==
  IF users = <<>> THEN Income[tok] = 0 /\ \A t \in UserId \cup {"operators"} : taken[t] = Zero
  ELSE now <= 1 /\ Income[ada] <= 2

-----------------------------------------------------------------------------
(* Lists of up to two streams, and values of up to two units of each asset. *)

SmallStream == {Salary, [Salary EXCEPT !.paid = 1], [Salary EXCEPT !.end = 2], [Salary EXCEPT !.asset = tok]}
SmallList == UNION {[1..n -> [id : 1..2, stream : SmallStream]] : n \in 0..2}
UniqueList == {list \in SmallList : IdsAreUnique(list)}

Dates == 0..3

\* The contract's walks accept what SttThread says of the tables.
ASSUME WalksAgree ==
  \A inputs \in UniqueList, outputs \in SmallList :
    LET before == Table(inputs)
        after == Table(outputs)
    IN
    /\ AreForwarded(inputs, outputs) <=> IdsAreUnique(outputs) /\ after = before
    /\ \A s \in Ids(inputs), latest \in Dates :
         IsPayeeCancelled(inputs, outputs, s, latest)
           <=> /\ IdsAreUnique(outputs)
               /\ \E end \in Dates : /\ end < before[s].end /\ end >= Cutoff(before[s], latest)
                                     /\ after = [before EXCEPT ![s].end = end]
    /\ \A earliest \in Dates :
         PayoutIsValid(inputs, outputs, earliest)
           <=> /\ IdsAreUnique(outputs) /\ IsOrderedPart(outputs, inputs)
               /\ \A s \in Ids(inputs) \ Ids(outputs) : Removable(before[s], earliest)
               /\ \A s \in Ids(outputs) : /\ RetainedWith(before[s], after[s].paid, earliest)
                                          /\ after[s] = [before[s] EXCEPT !.paid = after[s].paid]

\* The rows of a value.
Rows(value) ==
  CHOOSE rows \in UNION {[1..n -> [asset : Asset, quantity : 1..2]] : n \in 0..2} :
    IsOrdered(rows) /\ Held(rows) = value

SmallValue == [Asset -> 0..2]

\* The contract's reserve is the table's, and both comparisons are Wallet's.
ASSUME ReservesAgree ==
  /\ \A list \in UniqueList, latest \in Dates, relevant \in SUBSET Asset :
       LET reserve == CalculateStreamingReserveForAssets(list, latest, relevant)
       IN  /\ IsOrdered(reserve)
           /\ Held(reserve) = [a \in Asset |-> IF a \in relevant THEN StreamingReserve(Table(list), latest)[a] ELSE 0]
  /\ \A reserved, before, after \in SmallValue :
       LET isFunded == \A a \in Asset : after[a] >= Smaller(before[a], reserved[a])
       IN  /\ ReserveAssetsRemainFunded(Rows(reserved), Rows(before), Rows(after)) <=> isFunded
           /\ RemainsFunded(Rows(reserved), before, after) <=> isFunded
=============================================================================
