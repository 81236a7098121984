---------------------------- MODULE WalletProofs ------------------------------
(***************************************************************************)
(* The wallet's money, for any number of UTxOs, assets, streams and        *)
(* stakeholders: what is kept for the payees, what the beneficiaries keep, *)
(* that every transaction is one the accounts allow, and that the reserve  *)
(* the contract computes and compares as a list is the one spoken of.      *)
(***************************************************************************)
EXTENDS ReserveLists, SttThreadProofs

-----------------------------------------------------------------------------
(* Lots: finite bags of values. *)

Copies(bag, coin) == IF coin \in DOMAIN bag THEN bag[coin] ELSE 0

LEMMA LotFacts ==
  ASSUME NEW bag, IsLot(bag)
  PROVE  /\ IsFiniteSet(DOMAIN bag)
         /\ \A coin \in DOMAIN bag : coin \in Value /\ bag[coin] \in Nat /\ bag[coin] > 0
         /\ \A coin : Copies(bag, coin) \in Nat
         /\ \A coin \in DOMAIN bag, a \in Asset : coin[a] \in Nat
BY DEF IsLot, IsABag, Copies, Value

LEMMA ProductIsNatural ==
  ASSUME NEW m \in Nat, NEW n \in Nat PROVE m * n \in Nat
OBVIOUS

\* The total may be taken over more values than there are.
LEMMA TotalOver ==
  ASSUME NEW bag, IsLot(bag), NEW S, IsFiniteSet(S), DOMAIN bag \subseteq S, S \subseteq Value,
         NEW a \in Asset
  PROVE  /\ Total(bag)[a] = Sum([coin \in S |-> Copies(bag, coin) * coin[a]], S)
         /\ Total(bag)[a] \in Int
<1> DEFINE f == [coin \in DOMAIN bag |-> bag[coin] * coin[a]]
           g == [coin \in S |-> Copies(bag, coin) * coin[a]]
<1>1. Total(bag)[a] = Sum(f, DOMAIN bag)
  BY DEF Total, Sum
<1>2. \A coin \in S : Copies(bag, coin) \in Nat /\ coin[a] \in Nat
  BY LotFacts DEF Value
<1>3. \A coin \in S : g[coin] \in Nat
  <2> TAKE coin \in S
  <2>1. Copies(bag, coin) * coin[a] \in Nat
    BY <1>2, ProductIsNatural
  <2> QED BY <2>1
<1>4. \A coin \in DOMAIN bag : f[coin] = g[coin]
  BY DEF Copies
<1>5. \A coin \in S \ DOMAIN bag : g[coin] = 0
  <2> TAKE coin \in S \ DOMAIN bag
  <2>1. Copies(bag, coin) = 0 /\ coin[a] \in Nat
    BY <1>2 DEF Copies
  <2>2. 0 * coin[a] = 0
    BY <2>1
  <2> QED BY <2>1, <2>2
<1>6. IsFiniteSet(DOMAIN bag) /\ \A coin \in S : g[coin] \in Int
  BY <1>3, LotFacts
<1> HIDE DEF f, g
<1>7. Sum(g, S) = Sum(g, DOMAIN bag)
  BY <1>5, <1>6, SumIgnoresZeros
<1>8. Sum(g, DOMAIN bag) = Sum(f, DOMAIN bag)
  BY <1>4, <1>6, SumDependsOnTerms
<1>9. Sum(g, S) \in Int
  BY <1>6, SumIsInt
<1> QED BY <1>1, <1>7, <1>8, <1>9 DEF g

LEMMA TotalIsValue ==
  ASSUME NEW bag, IsLot(bag) PROVE Total(bag) \in Value
<1> SUFFICES ASSUME NEW a \in Asset PROVE Total(bag)[a] \in Nat
  BY DEF Total, Value
<1> DEFINE f == [coin \in DOMAIN bag |-> bag[coin] * coin[a]]
<1>1. Total(bag)[a] = Sum(f, DOMAIN bag)
  BY DEF Total, Sum
<1>2. \A coin \in DOMAIN bag : f[coin] \in Nat
  BY LotFacts, ProductIsNatural
<1> HIDE DEF f
<1> QED BY <1>1, <1>2, LotFacts, SumIsNat

LEMMA ProductDistributes ==
  ASSUME NEW m \in Int, NEW n \in Int, NEW k \in Int
  PROVE  (m + n) * k = m * k + n * k /\ m * k \in Int /\ n * k \in Int
OBVIOUS

\* The totals of two lots add up.
LEMMA TotalAdds ==
  ASSUME NEW bag, NEW one, NEW two, IsLot(bag), IsLot(one), IsLot(two),
         \A coin : Copies(bag, coin) = Copies(one, coin) + Copies(two, coin)
  PROVE  Total(bag) = Plus(Total(one), Total(two))
<1> DEFINE S == DOMAIN bag \cup DOMAIN one \cup DOMAIN two
<1>1. IsFiniteSet(S) /\ S \subseteq Value
  BY FS_Union DEF IsLot
<1>2. ASSUME NEW a \in Asset PROVE Total(bag)[a] = Total(one)[a] + Total(two)[a]
  <2> DEFINE f == [coin \in S |-> Copies(one, coin) * coin[a]]
             g == [coin \in S |-> Copies(two, coin) * coin[a]]
             h == [coin \in S |-> Copies(bag, coin) * coin[a]]
  <2>1. \A coin \in S : /\ Copies(one, coin) \in Int /\ Copies(two, coin) \in Int /\ coin[a] \in Int
    BY <1>1, LotFacts DEF Value
  <2>2. \A coin \in S : f[coin] \in Int /\ g[coin] \in Int /\ h[coin] = f[coin] + g[coin]
    <3> TAKE coin \in S
    <3>1. /\ f[coin] = Copies(one, coin) * coin[a] /\ g[coin] = Copies(two, coin) * coin[a]
          /\ h[coin] = (Copies(one, coin) + Copies(two, coin)) * coin[a]
      OBVIOUS
    <3> HIDE DEF f, g, h
    <3> QED BY <2>1, <3>1, ProductDistributes
  <2> HIDE DEF f, g, h
  <2>3. Sum(h, S) = Sum(f, S) + Sum(g, S)
    BY <1>1, <2>2, SumIsLinear
  <2> USE DEF f, g, h
  <2>4. DOMAIN bag \subseteq S /\ DOMAIN one \subseteq S /\ DOMAIN two \subseteq S
    OBVIOUS
  <2> HIDE DEF S
  <2>5. Total(bag)[a] = Sum(h, S) /\ Total(one)[a] = Sum(f, S) /\ Total(two)[a] = Sum(g, S)
    BY <1>1, <2>4, TotalOver
  <2> QED BY <2>3, <2>5
<1> QED BY <1>2 DEF Total, Plus

\* one is a part of bag.
IsPart(one, bag) == \A coin : Copies(one, coin) <= Copies(bag, coin)

LEMMA UnionFacts ==
  ASSUME NEW one, NEW two, IsLot(one), IsLot(two)
  PROVE  /\ IsLot(one (+) two)
         /\ \A coin : Copies(one (+) two, coin) = Copies(one, coin) + Copies(two, coin)
         /\ Total(one (+) two) = Plus(Total(one), Total(two))
<1> DEFINE bag == one (+) two
<1>1. /\ DOMAIN bag = DOMAIN one \cup DOMAIN two
      /\ bag = [coin \in DOMAIN bag |-> Copies(one, coin) + Copies(two, coin)]
  BY DEF (+), Copies
<1> HIDE DEF bag
<1>2. /\ \A coin : Copies(one, coin) \in Nat /\ Copies(two, coin) \in Nat
      /\ \A coin \in DOMAIN one : Copies(one, coin) > 0
      /\ \A coin \in DOMAIN two : Copies(two, coin) > 0
  BY LotFacts DEF Copies
<1>3. \A coin \in DOMAIN bag : bag[coin] = Copies(one, coin) + Copies(two, coin)
  BY <1>1
<1>4. \A coin \in DOMAIN bag : bag[coin] \in {n \in Nat : n > 0}
  BY <1>1, <1>2, <1>3
<1>5. IsABag(bag)
  BY <1>1, <1>4 DEF IsABag
<1>6. IsFiniteSet(DOMAIN bag) /\ DOMAIN bag \subseteq Value
  BY <1>1, FS_Union DEF IsLot
<1>7. IsLot(bag)
  BY <1>5, <1>6 DEF IsLot
<1>8. \A coin : Copies(bag, coin) = Copies(one, coin) + Copies(two, coin)
  <2> TAKE coin
  <2>1. CASE coin \in DOMAIN bag
    BY <1>3, <2>1 DEF Copies
  <2>2. CASE coin \notin DOMAIN bag
    BY <1>1, <2>2 DEF Copies
  <2> QED BY <2>1, <2>2
<1> QED BY <1>7, <1>8, TotalAdds DEF bag

LEMMA RestFacts ==
  ASSUME NEW bag, NEW part, IsLot(bag), IsLot(part), IsPart(part, bag)
  PROVE  /\ IsLot(bag (-) part)
         /\ Total(bag) = Plus(Total(bag (-) part), Total(part))
<1> DEFINE rest == bag (-) part
<1>1. /\ \A coin : Copies(bag, coin) \in Nat /\ Copies(part, coin) \in Nat
      /\ \A coin : Copies(part, coin) <= Copies(bag, coin)
      /\ \A coin \in DOMAIN bag : Copies(bag, coin) = bag[coin]
      /\ \A coin \in DOMAIN part : Copies(part, coin) > 0
  BY LotFacts DEF Copies, IsPart
<1>2. /\ DOMAIN rest = {coin \in DOMAIN bag : Copies(bag, coin) - Copies(part, coin) > 0}
      /\ rest = [coin \in DOMAIN rest |-> Copies(bag, coin) - Copies(part, coin)]
  <2> DEFINE B == [e \in DOMAIN bag |-> IF e \in DOMAIN part THEN bag[e] - part[e] ELSE bag[e]]
  <2>1. \A coin \in DOMAIN bag : B[coin] = Copies(bag, coin) - Copies(part, coin)
    BY LotFacts DEF Copies
  <2>2. rest = [e \in {d \in DOMAIN B : B[d] > 0} |-> B[e]] /\ DOMAIN B = DOMAIN bag
    BY DEF (-)
  <2> HIDE DEF B, rest
  <2> QED BY <2>1, <2>2
<1> HIDE DEF rest
<1>3. \A coin \in DOMAIN rest : rest[coin] \in {n \in Nat : n > 0}
  BY <1>1, <1>2
<1>4. IsABag(rest)
  BY <1>2, <1>3 DEF IsABag
<1>5. IsFiniteSet(DOMAIN rest) /\ DOMAIN rest \subseteq Value
  BY <1>2, FS_Subset DEF IsLot
<1>6. IsLot(rest)
  BY <1>4, <1>5 DEF IsLot
<1>7. \A coin : Copies(bag, coin) = Copies(rest, coin) + Copies(part, coin)
  <2> TAKE coin
  <2>1. CASE coin \in DOMAIN rest
    BY <1>1, <1>2, <2>1 DEF Copies
  <2>2. CASE coin \notin DOMAIN rest
    <3>1. Copies(rest, coin) = 0
      BY <2>2 DEF Copies
    <3>2. Copies(bag, coin) - Copies(part, coin) <= 0
      BY <1>1, <1>2, <2>2 DEF Copies
    <3> QED BY <1>1, <3>1, <3>2
  <2> QED BY <2>1, <2>2
<1> QED BY <1>6, <1>7, TotalAdds DEF rest

LEMMA SingleLot ==
  ASSUME NEW coin \in Value
  PROVE  IsLot(SetToBag({coin})) /\ Total(SetToBag({coin})) = coin
<1> DEFINE bag == SetToBag({coin})
<1>1. bag = [c \in {coin} |-> 1] /\ DOMAIN bag = {coin}
  BY DEF SetToBag
<1>2. IsLot(bag)
  BY <1>1, FS_Singleton DEF IsLot, IsABag
<1>3. ASSUME NEW a \in Asset PROVE Total(bag)[a] = coin[a]
  <2> DEFINE f == [c \in {coin} |-> 1 * c[a]]
  <2>1. f = [c \in DOMAIN bag |-> bag[c] * c[a]]
    BY <1>1
  <2>2. f[coin] = coin[a] /\ coin[a] \in Nat /\ f[coin] \in Int
    BY DEF Value
  <2> HIDE DEF bag
  <2>3. Total(bag)[a] = Sum(f, {coin})
    BY <1>1, <2>1 DEF Total, Sum
  <2> HIDE DEF f
  <2>4. Sum(f, {} \cup {coin}) = f[coin] + Sum(f, {})
    BY <2>2, SumAdds, FS_EmptySet
  <2>5. {} \cup {coin} = {coin} /\ Sum(f, {}) = 0
    BY SumOfNone
  <2> QED BY <2>2, <2>3, <2>4, <2>5
<1>4. Total(bag) = [a \in Asset |-> Total(bag)[a]] /\ coin = [a \in Asset |-> coin[a]]
  BY DEF Total, Value
<1> HIDE DEF bag
<1>5. Total(bag) = coin
  BY <1>3, <1>4
<1> QED BY <1>2, <1>5 DEF bag

LEMMA EmptyLot ==
  IsLot(EmptyBag) /\ Total(EmptyBag) = Zero /\ \A coin : Copies(EmptyBag, coin) = 0
<1>1. DOMAIN EmptyBag = {} /\ EmptyBag = [e \in {} |-> 1]
  BY DEF EmptyBag, SetToBag
<1>2. IsLot(EmptyBag)
  BY <1>1, FS_EmptySet DEF IsLot, IsABag
<1>3. \A a \in Asset : Total(EmptyBag)[a] = 0
  BY <1>1, SumOfNone DEF Total, Sum
<1>4. Total(EmptyBag) = [a \in Asset |-> Total(EmptyBag)[a]]
  BY DEF Total
<1> QED BY <1>1, <1>2, <1>3, <1>4 DEF Zero, Copies

LEMMA InputsAreLots ==
  ASSUME IsLot(purse), NEW spent \in Inputs
  PROVE  IsLot(spent) /\ IsPart(spent, purse)
<1>1. PICK kinds \in SUBSET DOMAIN purse : spent \in [kinds -> 1..BagCardinality(purse)]
  BY DEF Inputs
<1>2. DOMAIN spent = kinds /\ \A coin \in kinds : spent[coin] \in Nat /\ spent[coin] > 0
  BY <1>1
<1>3. \A coin \in kinds : spent[coin] <= purse[coin]
  BY <1>2 DEF Inputs, \sqsubseteq
<1>4. IsLot(spent)
  <2>1. IsABag(spent)
    BY <1>1, <1>2 DEF IsABag
  <2>2. IsFiniteSet(DOMAIN spent) /\ DOMAIN spent \subseteq Value
    BY <1>2, FS_Subset DEF IsLot
  <2> QED BY <2>1, <2>2 DEF IsLot
<1>5. IsPart(spent, purse)
  <2> SUFFICES ASSUME NEW coin PROVE Copies(spent, coin) <= Copies(purse, coin)
    BY DEF IsPart
  <2>1. Copies(purse, coin) \in Nat
    BY LotFacts
  <2>2. CASE coin \in kinds
    BY <1>2, <1>3, <2>2 DEF Copies
  <2>3. CASE coin \notin kinds
    BY <1>2, <2>1, <2>3 DEF Copies
  <2> QED BY <2>2, <2>3
<1> QED BY <1>4, <1>5

LEMMA CoinsAreInputs ==
  ASSUME IsLot(purse), NEW coin \in DOMAIN purse
  PROVE  coin \in Value /\ IsPart(SetToBag({coin}), purse)
<1>1. coin \in Value /\ purse[coin] \in Nat /\ purse[coin] > 0
  BY LotFacts
<1>2. \A c : Copies(purse, c) \in Nat
  BY LotFacts
<1>3. \A c : Copies(SetToBag({coin}), c) = IF c = coin THEN 1 ELSE 0
  BY DEF Copies, SetToBag
<1>4. Copies(purse, coin) = purse[coin]
  BY DEF Copies
<1> QED BY <1>1, <1>2, <1>3, <1>4 DEF IsPart

-----------------------------------------------------------------------------
(* Weights. *)

WeightOf(bs) == Sum([b \in DOMAIN bs |-> bs[b].weight], DOMAIN bs)

IsWeighed(bs) == IsTable(bs, BeneficiaryId, Beneficiary) /\ BeneficiariesAreValid(bs)

LEMMA RemainingWeights ==
  RemainingWeight = WeightOf(beneficiaries) /\ RemainingWeight' = WeightOf(beneficiaries')
<1>1. RemainingWeight = WeightOf(beneficiaries)
  BY DEF RemainingWeight, WeightOf, Sum
<1>2. RemainingWeight' = WeightOf(beneficiaries)'
  BY DEF RemainingWeight, WeightOf, Sum
<1>3. WeightOf(beneficiaries)' = WeightOf(beneficiaries')
  BY DEF WeightOf
<1> QED BY <1>1, <1>2, <1>3

LEMMA WeightFacts ==
  ASSUME NEW bs, IsWeighed(bs)
  PROVE  /\ IsFiniteSet(DOMAIN bs)
         /\ \A b \in DOMAIN bs : bs[b].weight \in Nat /\ bs[b].weight >= 1
         /\ WeightOf(bs) \in Nat
         /\ \A b \in DOMAIN bs :
              /\ WeightOf(bs) >= bs[b].weight
              /\ DOMAIN bs = {b} => WeightOf(bs) = bs[b].weight
<1> DEFINE w == [b \in DOMAIN bs |-> bs[b].weight]
<1>1. IsFiniteSet(DOMAIN bs)
  BY IdAssumption, FS_Subset DEF IsWeighed, IsTable
<1>2. \A b \in DOMAIN bs : bs[b].weight \in Nat /\ bs[b].weight >= 1
  BY DEF IsWeighed, IsTable, Beneficiary, BeneficiariesAreValid
<1>3. \A b \in DOMAIN bs : w[b] \in Nat /\ w[b] \in Int /\ w[b] = bs[b].weight
  BY <1>2
<1>4. WeightOf(bs) = Sum(w, DOMAIN bs)
  BY DEF WeightOf
<1> HIDE DEF w
<1>5. WeightOf(bs) \in Nat
  BY <1>1, <1>3, <1>4, SumIsNat
<1>6. ASSUME NEW b \in DOMAIN bs
      PROVE  /\ WeightOf(bs) >= bs[b].weight
             /\ DOMAIN bs = {b} => WeightOf(bs) = bs[b].weight
  <2>1. WeightOf(bs) = w[b] + Sum(w, DOMAIN bs \ {b})
    BY <1>1, <1>3, <1>4, SumTakes
  <2>2. IsFiniteSet(DOMAIN bs \ {b}) /\ \A c \in DOMAIN bs \ {b} : w[c] \in Nat
    BY <1>1, <1>3, FS_Subset
  <2>3. Sum(w, DOMAIN bs \ {b}) \in Nat
    BY <2>2, SumIsNat
  <2>4. DOMAIN bs = {b} => Sum(w, DOMAIN bs \ {b}) = 0
    <3>1. DOMAIN bs = {b} => DOMAIN bs \ {b} = {}
      OBVIOUS
    <3> QED BY <3>1, SumOfNone
  <2> QED BY <1>2, <1>3, <2>1, <2>3, <2>4
<1> QED BY <1>1, <1>2, <1>5, <1>6

\* Fewer beneficiaries weigh no more.
LEMMA FewerWeigh ==
  ASSUME NEW bs, IsWeighed(bs), NEW rest, DOMAIN rest \subseteq DOMAIN bs,
         \A b \in DOMAIN rest : rest[b] = bs[b]
  PROVE  /\ WeightOf(rest) \in Nat
         /\ WeightOf(rest) <= WeightOf(bs)
         /\ \A b \in DOMAIN bs : DOMAIN rest = DOMAIN bs \ {b} =>
              WeightOf(rest) = WeightOf(bs) - bs[b].weight
<1> DEFINE w == [b \in DOMAIN bs |-> bs[b].weight]
           v == [b \in DOMAIN rest |-> rest[b].weight]
<1>1. /\ IsFiniteSet(DOMAIN bs) /\ IsFiniteSet(DOMAIN rest)
      /\ \A b \in DOMAIN bs : bs[b].weight \in Nat
  BY WeightFacts, FS_Subset
<1>2. /\ \A b \in DOMAIN bs : w[b] \in Nat /\ w[b] \in Int /\ w[b] = bs[b].weight
      /\ \A b \in DOMAIN rest : v[b] \in Nat /\ v[b] \in Int /\ v[b] = w[b]
  BY <1>1
<1>3. WeightOf(bs) = Sum(w, DOMAIN bs) /\ WeightOf(rest) = Sum(v, DOMAIN rest)
  BY DEF WeightOf
<1> HIDE DEF w, v
<1>4. Sum(v, DOMAIN rest) = Sum(w, DOMAIN rest)
  BY <1>1, <1>2, SumDependsOnTerms
<1>5. Sum(w, DOMAIN rest) <= Sum(w, DOMAIN bs) /\ Sum(v, DOMAIN rest) \in Nat
  BY <1>1, <1>2, SumOfPart, SumIsNat
<1>6. ASSUME NEW b \in DOMAIN bs, DOMAIN rest = DOMAIN bs \ {b}
      PROVE  WeightOf(rest) = WeightOf(bs) - bs[b].weight
  <2>1. Sum(w, DOMAIN bs) = w[b] + Sum(w, DOMAIN bs \ {b})
    BY <1>1, <1>2, SumTakes
  <2> QED BY <1>2, <1>3, <1>4, <1>5, <1>6, <2>1
<1> QED BY <1>3, <1>4, <1>5, <1>6

-----------------------------------------------------------------------------
(* Debts. *)

Debt(ss, time) == [s \in DOMAIN ss |-> Entitlement(ss[s], time) - ss[s].paid]

OwedOf(ss, time) == [a \in Asset |-> SumOver(Debt(ss, time), ss, a)]

Dated(ss, a) == {s \in DOMAIN ss : ss[s].asset = a}

\* Streams that have been paid what they have earned at most.
IsOwing(ss, time) ==
  /\ time \in Int
  /\ IsFiniteSet(DOMAIN ss)
  /\ \A s \in DOMAIN ss :
       /\ IsSchedule(ss[s]) /\ ss[s].paid \in Nat
       /\ 0 <= LifetimeTotal(ss[s])
       /\ ss[s].paid <= Entitlement(ss[s], time)

LEMMA OwedNowAndNext ==
  Owed = OwedOf(streams, now) /\ Owed' = OwedOf(streams', now')
<1>1. Owed = OwedOf(streams, now)
  BY DEF Owed, OwedOf, Debt
<1>2. Owed' = OwedOf(streams, now)'
  BY DEF Owed, OwedOf, Debt
<1>3. OwedOf(streams, now)' = OwedOf(streams', now')
  BY DEF OwedOf
<1> QED BY <1>1, <1>2, <1>3

LEMMA StreamsAreOwing ==
  /\ StreamInvariant => IsOwing(streams, now)
  /\ StreamInvariant' => IsOwing(streams', now')
<1>1. StreamInvariant => IsOwing(streams, now)
  <2> SUFFICES ASSUME StreamInvariant PROVE IsOwing(streams, now)
    OBVIOUS
  <2>1. IsFiniteSet(DOMAIN streams)
    BY IdAssumption, FS_Subset DEF StreamInvariant, TypeOK, IsTable
  <2>2. now \in Int
    BY MaxTimeAssumption DEF StreamInvariant, TypeOK
  <2>3. ASSUME NEW s \in DOMAIN streams
        PROVE  /\ IsSchedule(streams[s]) /\ streams[s].paid \in Nat
               /\ 0 <= LifetimeTotal(streams[s])
    <3>1. IsSchedule(streams[s]) /\ StreamIsShaped(streams[s])
      BY StoredStreamFacts DEF StreamInvariant
    <3>2. 0 <= LifetimeTotal(streams[s])
      BY <3>1, LifetimeIsNatural DEF StreamIsShaped
    <3> QED BY <3>1, <3>2 DEF StreamIsShaped, Bounded, IsSchedule
  <2> QED BY <2>1, <2>2, <2>3 DEF IsOwing, StreamInvariant, PaidWithinAccrued
<1>2. StreamInvariant' => IsOwing(streams', now')
  <2> SUFFICES ASSUME StreamInvariant' PROVE IsOwing(streams', now')
    OBVIOUS
  <2>1. IsFiniteSet(DOMAIN streams')
    BY IdAssumption, FS_Subset DEF StreamInvariant, TypeOK, IsTable
  <2>2. now' \in Int
    BY MaxTimeAssumption DEF StreamInvariant, TypeOK
  <2>3. ASSUME NEW s \in DOMAIN streams'
        PROVE  /\ IsSchedule(streams'[s]) /\ streams'[s].paid \in Nat
               /\ 0 <= LifetimeTotal(streams'[s])
    <3>1. streams'[s] \in StreamingPayment /\ StreamIsShaped(streams'[s])
      BY DEF StreamInvariant, TypeOK, IsTable, StreamsAreValid
    <3>2. IsSchedule(streams'[s]) /\ streams'[s].start <= streams'[s].end
      BY <3>1 DEF StreamIsShaped, Bounded, IsSchedule, StreamingPayment
    <3>3. 0 <= LifetimeTotal(streams'[s])
      BY <3>2, LifetimeIsNatural
    <3> QED BY <3>1, <3>2, <3>3 DEF StreamIsShaped, Bounded, IsSchedule
  <2> QED BY <2>1, <2>2, <2>3 DEF IsOwing, StreamInvariant, PaidWithinAccrued
<1> QED BY <1>1, <1>2

LEMMA DebtFacts ==
  ASSUME NEW ss, NEW time, IsOwing(ss, time)
  PROVE  /\ \A s \in DOMAIN ss : /\ Debt(ss, time)[s] \in Nat
                                 /\ Debt(ss, time)[s] = Entitlement(ss[s], time) - ss[s].paid
         /\ \A a \in Asset : /\ Dated(ss, a) \subseteq DOMAIN ss
                             /\ IsFiniteSet(Dated(ss, a))
                             /\ OwedOf(ss, time)[a] = Sum(Debt(ss, time), Dated(ss, a))
         /\ OwedOf(ss, time) \in Value
<1>1. ASSUME NEW s \in DOMAIN ss
      PROVE  /\ Debt(ss, time)[s] \in Nat
             /\ Debt(ss, time)[s] = Entitlement(ss[s], time) - ss[s].paid
  BY AccrualFacts DEF IsOwing, Debt
<1>2. ASSUME NEW a \in Asset
      PROVE  /\ Dated(ss, a) \subseteq DOMAIN ss
             /\ IsFiniteSet(Dated(ss, a))
             /\ OwedOf(ss, time)[a] = Sum(Debt(ss, time), Dated(ss, a))
  BY FS_Subset DEF Dated, IsOwing, OwedOf, SumOver, Sum
<1>3. ASSUME NEW a \in Asset PROVE OwedOf(ss, time)[a] \in Nat
  <2>1. \A s \in Dated(ss, a) : Debt(ss, time)[s] \in Nat
    BY <1>1, <1>2
  <2> QED BY <1>2, <2>1, SumIsNat
<1> QED BY <1>1, <1>2, <1>3 DEF OwedOf, Value

\* The reserve of any upper bound covers what is owed now.
LEMMA ReserveCoversDebts ==
  ASSUME NEW ss, NEW time, IsOwing(ss, time), NEW latest \in Int, time <= latest, NEW a \in Asset
  PROVE  /\ StreamingReserve(ss, latest)[a] \in Nat
         /\ OwedOf(ss, time)[a] <= StreamingReserve(ss, latest)[a]
<1> DEFINE r == [s \in DOMAIN ss |-> ReservedFor(ss[s], latest)]
           d == Debt(ss, time)
           S == Dated(ss, a)
<1>1. ASSUME NEW s \in DOMAIN ss PROVE r[s] \in Nat /\ d[s] \in Int /\ d[s] <= r[s]
  <2>1. IsSchedule(ss[s]) /\ ss[s].paid \in Nat /\ 0 <= LifetimeTotal(ss[s]) /\ time \in Int
    BY DEF IsOwing
  <2>2. /\ AccruedAt(ss[s], time) \in Int /\ AccruedAt(ss[s], latest) \in Int
        /\ LifetimeTotal(ss[s]) \in Int
        /\ AccruedAt(ss[s], time) <= LifetimeTotal(ss[s])
    BY <2>1, AccrualFacts
  <2>3. AccruedAt(ss[s], time) <= AccruedAt(ss[s], latest)
    <3>1. /\ Smaller(time, ss[s].end) - ss[s].start \in Int
          /\ Smaller(latest, ss[s].end) - ss[s].start \in Int
          /\ Smaller(time, ss[s].end) - ss[s].start <= Smaller(latest, ss[s].end) - ss[s].start
      BY <2>1 DEF Smaller, IsSchedule
    <3> QED BY <2>1, <3>1, PayoutIsMonotone DEF AccruedAt, IsSchedule
  <2>4. d[s] = Entitlement(ss[s], time) - ss[s].paid /\ d[s] \in Nat
    BY DebtFacts
  <2>5. r[s] = ReservedFor(ss[s], latest)
    OBVIOUS
  <2> HIDE DEF r, d
  <2> QED BY <2>1, <2>2, <2>3, <2>4, <2>5 DEF ReservedFor, Entitlement, Larger
<1>2. S \subseteq DOMAIN ss /\ IsFiniteSet(S) /\ OwedOf(ss, time)[a] = Sum(d, S)
  BY DebtFacts
<1>3. StreamingReserve(ss, latest)[a] = Sum(r, S)
  BY DEF StreamingReserve, SumOver, Sum, Dated
<1> HIDE DEF r, d, S
<1>4. \A s \in S : r[s] \in Nat /\ r[s] \in Int /\ d[s] \in Int /\ d[s] <= r[s]
  BY <1>1, <1>2
<1> QED BY <1>2, <1>3, <1>4, SumIsMonotone, SumIsNat

\* Debts only grow where every stream is kept and nothing is paid.
LEMMA DebtsGrow ==
  ASSUME NEW ss, NEW time, IsOwing(ss, time), NEW more, NEW later, IsOwing(more, later),
         \A s \in DOMAIN ss :
           /\ s \in DOMAIN more
           /\ more[s].asset = ss[s].asset /\ more[s].paid = ss[s].paid
           /\ Entitlement(ss[s], time) <= Entitlement(more[s], later),
         NEW a \in Asset
  PROVE  OwedOf(ss, time)[a] <= OwedOf(more, later)[a]
<1> DEFINE d == Debt(ss, time)
           e == Debt(more, later)
           S == Dated(ss, a)
           T == Dated(more, a)
<1>1. /\ \A s \in DOMAIN ss : d[s] \in Nat /\ d[s] = Entitlement(ss[s], time) - ss[s].paid
      /\ \A s \in DOMAIN more : e[s] \in Nat /\ e[s] = Entitlement(more[s], later) - more[s].paid
      /\ S \subseteq DOMAIN ss /\ IsFiniteSet(S) /\ OwedOf(ss, time)[a] = Sum(d, S)
      /\ T \subseteq DOMAIN more /\ IsFiniteSet(T) /\ OwedOf(more, later)[a] = Sum(e, T)
  BY DebtFacts
<1>2. S \subseteq T
  BY DEF Dated
<1> HIDE DEF d, e, S, T
<1>3. ASSUME NEW s \in S PROVE d[s] \in Int /\ e[s] \in Int /\ d[s] <= e[s]
  <2>1. /\ IsSchedule(ss[s]) /\ IsSchedule(more[s]) /\ ss[s].paid \in Nat
        /\ time \in Int /\ later \in Int
    BY <1>1, <1>2 DEF IsOwing
  <2>2. Entitlement(ss[s], time) \in Int /\ Entitlement(more[s], later) \in Int
    BY <2>1, AccrualFacts
  <2>3. more[s].paid = ss[s].paid /\ Entitlement(ss[s], time) <= Entitlement(more[s], later)
    BY <1>1
  <2>4. d[s] = Entitlement(ss[s], time) - ss[s].paid /\ e[s] = Entitlement(more[s], later) - more[s].paid
    BY <1>1, <1>2
  <2> QED BY <2>1, <2>2, <2>3, <2>4
<1>4. Sum(d, S) <= Sum(e, S)
  BY <1>1, <1>3, SumIsMonotone
<1>5. Sum(e, S) <= Sum(e, T)
  <2>1. \A s \in T : e[s] \in Nat
    BY <1>1
  <2> QED BY <1>1, <1>2, <2>1, SumOfPart
<1>6. Sum(d, S) \in Int /\ Sum(e, S) \in Int /\ Sum(e, T) \in Int
  <2>1. (\A s \in S : d[s] \in Int /\ e[s] \in Int) /\ (\A s \in T : e[s] \in Int)
    BY <1>1, <1>3
  <2> QED BY <1>1, <2>1, SumIsInt
<1> QED BY <1>1, <1>4, <1>5, <1>6

LEMMA StreamsAreKept ==
  ASSUME TypeOK, NEW tx \in Transaction, Accept(tx), ~PayStreamingPayment(tx),
         NEW s \in DOMAIN streams
  PROVE  /\ s \in DOMAIN streams'
         /\ streams'[s].asset = streams[s].asset /\ streams'[s].paid = streams[s].paid
<1>0. streams[s] \in StreamingPayment
  BY DEF TypeOK, IsTable
<1>1. CASE streams' = streams
  BY <1>1
<1>2. CASE ManageStreamingPayments(tx)
  <2>1. PICK added \in SUBSET (StreamId \ DOMAIN streams) :
          \E fresh \in [added -> StreamRecord], end \in [DOMAIN streams -> EndDate] :
            Rescheduled(tx, added, fresh, end)
    BY <1>2 DEF ManageStreamingPayments
  <2>2. PICK fresh \in [added -> StreamRecord], end \in [DOMAIN streams -> EndDate] :
          Rescheduled(tx, added, fresh, end)
    BY <2>1
  <2>3. s \in DOMAIN streams' /\ streams'[s] = [streams[s] EXCEPT !.end = end[s]]
    BY <2>1, <2>2 DEF Rescheduled
  <2> QED BY <1>0, <2>3 DEF StreamingPayment
<1>3. CASE \E r \in DOMAIN streams, exact \in BOOLEAN : StopStream(tx, r, exact)
  <2>1. PICK r \in DOMAIN streams, end \in Time : streams' = [streams EXCEPT ![r].end = end]
    BY <1>3 DEF StopStream
  <2>2. /\ s \in DOMAIN streams'
        /\ streams'[s] = streams[s] \/ streams'[s] = [streams[s] EXCEPT !.end = end]
    BY <2>1
  <2> QED BY <1>0, <2>2 DEF StreamingPayment
<1> QED BY <1>1, <1>2, <1>3, AcceptOnStreams

LEMMA DebtsGrowUnsettled ==
  ASSUME StreamInvariant, StreamInvariant', NEW tx \in Transaction, Accept(tx),
         ~PayStreamingPayment(tx), NEW a \in Asset
  PROVE  Owed[a] <= Owed'[a]
<1>1. IsOwing(streams, now) /\ IsOwing(streams', now') /\ now' = now
  BY StreamsAreOwing, AcceptKeepsTime
<1>2. ASSUME NEW s \in DOMAIN streams
      PROVE  /\ s \in DOMAIN streams'
             /\ streams'[s].asset = streams[s].asset /\ streams'[s].paid = streams[s].paid
             /\ Entitlement(streams[s], now) <= Entitlement(streams'[s], now')
  <2>1. /\ s \in DOMAIN streams'
        /\ streams'[s].asset = streams[s].asset /\ streams'[s].paid = streams[s].paid
    BY StreamsAreKept DEF StreamInvariant
  <2>2. StreamIsRespected(s)
    BY StreamsAreRespected DEF StreamInvariant
  <2> QED BY <1>1, <2>1, <2>2 DEF StreamIsRespected
<1>3. OwedOf(streams, now)[a] <= OwedOf(streams', now')[a]
  BY <1>1, <1>2, DebtsGrow
<1> QED BY <1>3, OwedNowAndNext

LEMMA DebtsGrowInTime ==
  ASSUME StreamInvariant, StreamInvariant', Tick, NEW a \in Asset
  PROVE  Owed[a] <= Owed'[a]
<1>1. IsOwing(streams, now) /\ IsOwing(streams', now') /\ now' = now + 1 /\ streams' = streams
  BY StreamsAreOwing DEF Tick
<1>2. ASSUME NEW s \in DOMAIN streams
      PROVE  Entitlement(streams[s], now) <= Entitlement(streams[s], now + 1)
  <2>1. IsSchedule(streams[s]) /\ now \in Int /\ now + 1 \in Int
    BY <1>1 DEF IsOwing
  <2>2. Smaller(now, streams[s].end) <= Smaller(now + 1, streams[s].end)
    BY <2>1 DEF Smaller, IsSchedule
  <2> QED BY <2>1, <2>2, EntitlementIsMonotone
<1>3. OwedOf(streams, now)[a] <= OwedOf(streams', now')[a]
  BY <1>1, <1>2, DebtsGrow
<1> QED BY <1>3, OwedNowAndNext

\* A settlement takes from the debts what it counts as paid: what it removes
\* had nothing left to earn.
LEMMA DebtsAreSettled ==
  ASSUME StreamInvariant, StreamInvariant', NEW tx \in Transaction, PayStreamingPayment(tx),
         NEW a \in Asset
  PROVE  PayoutDelta[a] \in Nat /\ Owed'[a] = Owed[a] - PayoutDelta[a]
<1> DEFINE d == Debt(streams, now)
           e == Debt(streams', now')
           c == [s \in DOMAIN streams |-> CountedAsPaid(s)]
           k == [s \in DOMAIN streams |-> IF s \in DOMAIN streams' THEN e[s] ELSE 0]
           S == Dated(streams, a)
           T == Dated(streams', a)
<1>1. PICK kept \in SUBSET DOMAIN streams :
        \E paid \in [kept -> 0..MaxStateInteger] : Settled(tx, kept, paid)
  BY DEF PayStreamingPayment
<1>2. PICK paid \in [kept -> 0..MaxStateInteger] : Settled(tx, kept, paid)
  BY <1>1
<1>3. /\ IsOwing(streams, now) /\ IsOwing(streams', now') /\ now' = now
      /\ DOMAIN streams' = kept
  BY <1>2, StreamsAreOwing DEF Settled, PayStreamingPayment
<1>4. /\ \A s \in DOMAIN streams :
           d[s] \in Nat /\ d[s] = Entitlement(streams[s], now) - streams[s].paid
      /\ \A s \in kept :
           e[s] \in Nat /\ e[s] = Entitlement(streams'[s], now) - streams'[s].paid
      /\ S \subseteq DOMAIN streams /\ IsFiniteSet(S) /\ OwedOf(streams, now)[a] = Sum(d, S)
      /\ T \subseteq kept /\ IsFiniteSet(T) /\ OwedOf(streams', now')[a] = Sum(e, T)
  BY <1>3, DebtFacts
<1>5. ASSUME NEW s \in kept
      PROVE  /\ streams'[s].asset = streams[s].asset
             /\ Entitlement(streams'[s], now) = Entitlement(streams[s], now)
             /\ streams'[s].paid \in Nat /\ streams[s].paid \in Nat
             /\ streams'[s].paid >= streams[s].paid
             /\ Entitlement(streams[s], now) \in Int
  <2>1. streams[s] \in StreamingPayment /\ streams'[s] = [streams[s] EXCEPT !.paid = paid[s]]
    BY <1>2 DEF Settled, StreamInvariant, TypeOK, IsTable
  <2>2. /\ streams'[s].start = streams[s].start /\ streams'[s].end = streams[s].end
        /\ streams'[s].rate = streams[s].rate /\ streams'[s].paid = paid[s]
        /\ streams'[s].asset = streams[s].asset
    BY <2>1 DEF StreamingPayment
  <2>3. Entitlement(streams'[s], now) = Entitlement(streams[s], now)
    BY <2>2 DEF Entitlement, AccruedAt
  <2>4. paid[s] >= streams[s].paid
    BY <1>2 DEF Settled, RetainedWith
  <2>5. paid[s] \in Nat /\ streams[s].paid \in Nat /\ IsSchedule(streams[s]) /\ now \in Int
    BY <1>3, MaxStateIntegerAssumption DEF IsOwing
  <2>6. Entitlement(streams[s], now) \in Int
    BY <2>5, AccrualFacts
  <2> QED BY <2>2, <2>3, <2>4, <2>5, <2>6
<1>6. ASSUME NEW s \in DOMAIN streams, s \notin kept
      PROVE  LifetimeTotal(streams[s]) = Entitlement(streams[s], now)
  <2>1. StreamIsRespected(s)
    BY PayRespectsStreams DEF StreamInvariant
  <2>2. LifetimeTotal(streams[s]) \in {Entitlement(streams[s], now), streams[s].paid}
    BY <1>3, <1>6, <2>1 DEF StreamIsRespected
  <2>3. /\ IsSchedule(streams[s]) /\ now \in Int
        /\ 0 <= LifetimeTotal(streams[s])
        /\ streams[s].paid <= Entitlement(streams[s], now)
    BY <1>3 DEF IsOwing
  <2>4. /\ LifetimeTotal(streams[s]) \in Int /\ AccruedAt(streams[s], now) \in Int
        /\ AccruedAt(streams[s], now) <= LifetimeTotal(streams[s])
    BY <2>3, AccrualFacts
  <2> QED BY <2>2, <2>3, <2>4 DEF Entitlement, Larger
<1>7. ASSUME NEW s \in DOMAIN streams
      PROVE  /\ k[s] \in Nat /\ k[s] \in Int /\ c[s] \in Nat /\ c[s] \in Int
             /\ d[s] = k[s] + c[s]
  <2>1. c[s] = (IF s \in kept THEN streams'[s].paid ELSE LifetimeTotal(streams[s]))
                 - streams[s].paid
    BY <1>3 DEF CountedAsPaid
  <2>2. k[s] = IF s \in kept THEN e[s] ELSE 0
    BY <1>3
  <2> HIDE DEF c, d, e, k
  <2>3. CASE s \in kept
    BY <1>4, <1>5, <2>1, <2>2, <2>3
  <2>4. CASE s \notin kept
    BY <1>4, <1>6, <2>1, <2>2, <2>4
  <2> QED BY <2>3, <2>4
<1>8. T \subseteq S
  BY <1>3, <1>5 DEF Dated
<1>9. \A s \in S \ T : k[s] = 0
  BY <1>3, <1>4, <1>5 DEF Dated
<1>10. \A s \in T : k[s] = e[s]
  BY <1>3, <1>4
<1>11. PayoutDelta[a] = Sum(c, S)
  BY DEF PayoutDelta, SumOver, Sum, Dated
<1> HIDE DEF c, d, e, k, S, T
<1>12. \A s \in S : k[s] \in Int /\ c[s] \in Nat /\ c[s] \in Int /\ d[s] = k[s] + c[s]
  BY <1>4, <1>7
<1>13. Sum(d, S) = Sum(k, S) + Sum(c, S)
  BY <1>4, <1>12, SumIsLinear
<1>14. Sum(k, S) = Sum(k, T)
  BY <1>4, <1>8, <1>9, <1>12, SumIgnoresZeros
<1>15. Sum(k, T) = Sum(e, T)
  BY <1>4, <1>8, <1>10, <1>12, SumDependsOnTerms
<1>16. Sum(c, S) \in Nat
  BY <1>4, <1>12, SumIsNat
<1>17. Sum(e, T) \in Int
  BY <1>4, SumIsInt
<1>18. OwedOf(streams', now')[a] = OwedOf(streams, now)[a] - PayoutDelta[a]
  BY <1>4, <1>11, <1>13, <1>14, <1>15, <1>16, <1>17
<1> QED BY <1>11, <1>16, <1>18, OwedNowAndNext

-----------------------------------------------------------------------------
(* What a spending transaction moves. *)

MoneyTypeOK == IsLot(purse) /\ taken \in [Taker -> Value]

LEMMA BalanceNowAndNext ==
  Balance = Total(purse) /\ Balance' = Total(purse')
<1>1. Balance' = Total(purse)'
  BY DEF Balance
<1>2. Total(purse)' = Total(purse')
  OBVIOUS
<1> QED BY <1>1, <1>2 DEF Balance

LEMMA ReplaceFacts ==
  ASSUME IsLot(purse), NEW spent, IsLot(spent), IsPart(spent, purse), NEW back, IsLot(back),
         Replace(spent, back)
  PROVE  /\ IsLot(purse')
         /\ Total(spent) \in Value /\ Total(back) \in Value
         /\ Balance \in Value /\ Balance' \in Value
         /\ \A a \in Asset : /\ Total(spent)[a] <= Balance[a]
                             /\ Balance'[a] = Balance[a] - Total(spent)[a] + Total(back)[a]
<1> DEFINE rest == purse (-) spent
<1>1. IsLot(rest) /\ Total(purse) = Plus(Total(rest), Total(spent))
  BY RestFacts
<1>2. purse' = rest (+) back
  BY DEF Replace
<1> HIDE DEF rest
<1>3. IsLot(purse') /\ Total(purse') = Plus(Total(rest), Total(back))
  BY <1>1, <1>2, UnionFacts
<1>4. /\ Total(spent) \in Value /\ Total(back) \in Value /\ Total(rest) \in Value
      /\ Total(purse) \in Value /\ Total(purse') \in Value
  BY <1>1, <1>3, TotalIsValue
<1>5. ASSUME NEW a \in Asset
      PROVE  /\ Total(spent)[a] <= Balance[a]
             /\ Balance'[a] = Balance[a] - Total(spent)[a] + Total(back)[a]
  <2>1. /\ Total(spent)[a] \in Nat /\ Total(back)[a] \in Nat /\ Total(rest)[a] \in Nat
    BY <1>4 DEF Value
  <2>2. /\ Balance[a] = Total(rest)[a] + Total(spent)[a]
        /\ Balance'[a] = Total(rest)[a] + Total(back)[a]
    BY <1>1, <1>3, BalanceNowAndNext DEF Plus
  <2> QED BY <2>1, <2>2
<1> QED BY <1>3, <1>4, <1>5, BalanceNowAndNext

\* out leaves the wallet for one taker.
Withdrawal(taker, out) ==
  /\ out \in Value
  /\ Balance \in Value /\ Balance' \in Value
  /\ \A a \in Asset : out[a] <= Balance[a] /\ Balance'[a] = Balance[a] - out[a]
  /\ taken' = [taken EXCEPT ![taker] = Plus(taken[taker], out)]

LEMMA OutputFacts ==
  ASSUME NEW spent, NEW back \in Outputs(spent)
  PROVE  IsLot(back) /\ \A a \in Asset : Total(back)[a] <= Total(spent)[a]
BY LayoutAssumption DEF Outputs

LEMMA SpendWithdraws ==
  ASSUME MoneyTypeOK, NEW spent \in Inputs, NEW back \in Outputs(spent), NEW taker \in Taker,
         Replace(spent, back), Take(taker, Outflow(spent, back))
  PROVE  Withdrawal(taker, Outflow(spent, back)) /\ IsLot(purse')
<1>1. /\ IsLot(purse) /\ IsLot(spent) /\ IsPart(spent, purse) /\ IsLot(back)
      /\ \A a \in Asset : Total(back)[a] <= Total(spent)[a]
  BY InputsAreLots, OutputFacts DEF MoneyTypeOK
<1>2. /\ IsLot(purse')
      /\ Total(spent) \in Value /\ Total(back) \in Value
      /\ Balance \in Value /\ Balance' \in Value
      /\ \A a \in Asset : /\ Total(spent)[a] <= Balance[a]
                          /\ Balance'[a] = Balance[a] - Total(spent)[a] + Total(back)[a]
  BY <1>1, ReplaceFacts
<1>3. ASSUME NEW a \in Asset
      PROVE  /\ Outflow(spent, back)[a] \in Nat
             /\ Outflow(spent, back)[a] <= Balance[a]
             /\ Balance'[a] = Balance[a] - Outflow(spent, back)[a]
  <2>1. Total(spent)[a] \in Nat /\ Total(back)[a] \in Nat /\ Balance[a] \in Nat
    BY <1>2 DEF Value
  <2>2. Outflow(spent, back)[a] = Total(spent)[a] - Total(back)[a]
    BY DEF Outflow, Minus
  <2> QED BY <1>1, <1>2, <2>1, <2>2
<1>4. Outflow(spent, back) \in Value
  BY <1>3 DEF Outflow, Minus, Value
<1>5. taken' = [taken EXCEPT ![taker] = Plus(taken[taker], Outflow(spent, back))]
  BY DEF Take
<1> QED BY <1>2, <1>3, <1>4, <1>5 DEF Withdrawal

LEMMA PlusIsValue ==
  ASSUME NEW one \in Value, NEW two \in Value
  PROVE  Plus(one, two) \in Value /\ \A a \in Asset : Plus(one, two)[a] = one[a] + two[a]
<1>1. \A a \in Asset : one[a] \in Nat /\ two[a] \in Nat
  BY DEF Value
<1>2. \A a \in Asset : one[a] + two[a] \in Nat
  BY <1>1
<1> QED BY <1>2 DEF Plus, Value

LEMMA WithdrawalKeepsType ==
  ASSUME MoneyTypeOK, NEW taker \in Taker, NEW out, Withdrawal(taker, out)
  PROVE  /\ taken' \in [Taker -> Value]
         /\ \A t \in Taker \ {taker} : taken'[t] = taken[t]
         /\ \A a \in Asset : taken'[taker][a] = taken[taker][a] + out[a]
<1>1. taken[taker] \in Value /\ out \in Value
  BY DEF MoneyTypeOK, Withdrawal
<1>2. Plus(taken[taker], out) \in Value
  BY <1>1, PlusIsValue
<1> QED BY <1>2 DEF MoneyTypeOK, Withdrawal, Plus

LEMMA SameValue ==
  ASSUME NEW one \in Value, NEW two \in Value, \A a \in Asset : one[a] = two[a]
  PROVE  one = two
BY DEF Value

\* Nothing is withdrawn where the taker gets nothing.
LEMMA IdleWithdrawal ==
  ASSUME MoneyTypeOK, NEW taker \in Taker, NEW out, Withdrawal(taker, out),
         taken'[taker] = taken[taker]
  PROVE  Balance' = Balance /\ taken' = taken
<1>1. ASSUME NEW a \in Asset PROVE out[a] = 0 /\ Balance'[a] = Balance[a]
  <2>1. taken'[taker][a] = taken[taker][a] + out[a] /\ taken'[taker][a] = taken[taker][a]
    BY WithdrawalKeepsType
  <2>2. taken[taker] \in Value /\ out \in Value /\ Balance \in Value
    BY DEF MoneyTypeOK, Withdrawal
  <2>3. taken[taker][a] \in Nat /\ out[a] \in Nat /\ Balance[a] \in Nat
    BY <2>2 DEF Value
  <2>4. Balance'[a] = Balance[a] - out[a]
    BY DEF Withdrawal
  <2> QED BY <2>1, <2>3, <2>4
<1>2. Balance \in Value /\ Balance' \in Value
  BY DEF Withdrawal
<1>3. Balance' = Balance
  BY <1>1, <1>2, SameValue
<1>4. taken' = taken
  <2>1. taken' \in [Taker -> Value] /\ taken \in [Taker -> Value]
    BY WithdrawalKeepsType DEF MoneyTypeOK
  <2>2. \A t \in Taker : taken'[t] = taken[t]
    BY WithdrawalKeepsType
  <2> QED BY <2>1, <2>2
<1> QED BY <1>3, <1>4

LEMMA WeighedNow ==
  ASSUME TypeOK, ConfigurationStaysValid
  PROVE  IsWeighed(beneficiaries)
BY DEF TypeOK, ConfigurationStaysValid, ValidConfiguration, CurrentConfiguration, AccessIsValid,
   IsWeighed

LEMMA QuotientIsNatural ==
  ASSUME NEW m \in Nat, NEW n \in Nat, n > 0 PROVE m \div n \in Nat
BY SMT

\* A lot is divided among the beneficiaries.
Division(coin) ==
  /\ coin \in Value
  /\ Balance \in Value /\ Balance' \in Value
  /\ \A a \in Asset : coin[a] <= Balance[a] /\ Balance'[a] = Balance[a] - coin[a]
  /\ RemainingWeight \in Nat /\ RemainingWeight > 0
  /\ \A b \in DOMAIN beneficiaries :
       /\ b \in Taker /\ b \in BeneficiaryId
       /\ beneficiaries[b].weight \in Nat
       /\ Share(b, coin) \in Value
       /\ \A a \in Asset : Share(b, coin)[a] * RemainingWeight = coin[a] * beneficiaries[b].weight
  /\ taken' = [t \in Taker |-> IF t \in DOMAIN beneficiaries
                               THEN Plus(taken[t], Share(t, coin)) ELSE taken[t]]

LEMMA DistributionDivides ==
  ASSUME MoneyTypeOK, TypeOK, ConfigurationStaysValid, NEW coin \in DOMAIN purse,
         DividedExactly(coin), Replace(SetToBag({coin}), EmptyBag), DOMAIN beneficiaries # {},
         taken' = [t \in Taker |-> IF t \in DOMAIN beneficiaries
                                   THEN Plus(taken[t], Share(t, coin)) ELSE taken[t]]
  PROVE  Division(coin) /\ IsLot(purse') /\ taken' \in [Taker -> Value]
<1>1. /\ coin \in Value /\ IsPart(SetToBag({coin}), purse)
      /\ IsLot(SetToBag({coin})) /\ Total(SetToBag({coin})) = coin
      /\ IsLot(EmptyBag) /\ Total(EmptyBag) = Zero
  BY CoinsAreInputs, SingleLot, EmptyLot DEF MoneyTypeOK
<1>2. /\ IsLot(purse')
      /\ Balance \in Value /\ Balance' \in Value
      /\ \A a \in Asset : coin[a] <= Balance[a] /\ Balance'[a] = Balance[a] - coin[a] + Zero[a]
  BY <1>1, ReplaceFacts DEF MoneyTypeOK
<1>3. \A a \in Asset : coin[a] \in Nat /\ Balance[a] \in Nat /\ Zero[a] = 0
  BY <1>1, <1>2 DEF Value, Zero
<1>4. \A a \in Asset : Balance'[a] = Balance[a] - coin[a]
  BY <1>2, <1>3
<1>5. /\ \A b \in DOMAIN beneficiaries : beneficiaries[b].weight \in Nat
      /\ RemainingWeight \in Nat /\ RemainingWeight > 0
  <2>1. IsWeighed(beneficiaries)
    BY WeighedNow
  <2>2. /\ \A b \in DOMAIN beneficiaries :
             /\ beneficiaries[b].weight \in Nat /\ beneficiaries[b].weight >= 1
             /\ WeightOf(beneficiaries) >= beneficiaries[b].weight
        /\ WeightOf(beneficiaries) \in Nat
    BY <2>1, WeightFacts
  <2>3. WeightOf(beneficiaries) > 0
    BY <2>2
  <2> QED BY <2>2, <2>3, RemainingWeights
<1>6. \A b \in DOMAIN beneficiaries : b \in Taker /\ b \in BeneficiaryId
  BY DEF TypeOK, IsTable, Taker
<1>7. ASSUME NEW b \in DOMAIN beneficiaries PROVE Share(b, coin) \in Value
  <2>1. ASSUME NEW a \in Asset
        PROVE  (coin[a] * beneficiaries[b].weight) \div RemainingWeight \in Nat
    <3>1. coin[a] * beneficiaries[b].weight \in Nat
      BY <1>3, <1>5, ProductIsNatural
    <3> QED BY <1>5, <3>1, QuotientIsNatural
  <2> QED BY <2>1 DEF Share, Value
<1>8. \A b \in DOMAIN beneficiaries, a \in Asset :
        Share(b, coin)[a] * RemainingWeight = coin[a] * beneficiaries[b].weight
  BY DEF DividedExactly
<1>9. taken' \in [Taker -> Value]
  <2>1. \A t \in Taker : taken[t] \in Value
    BY DEF MoneyTypeOK
  <2>2. \A t \in Taker : t \in DOMAIN beneficiaries => Plus(taken[t], Share(t, coin)) \in Value
    BY <1>7, <2>1, PlusIsValue
  <2> QED BY <2>1, <2>2
<1> QED BY <1>1, <1>2, <1>4, <1>5, <1>6, <1>7, <1>8, <1>9 DEF Division

LEMMA DepositReceives ==
  ASSUME MoneyTypeOK, NEW coin \in Coin, Replace(EmptyBag, SetToBag({coin}))
  PROVE  /\ IsLot(purse') /\ coin \in Value
         /\ Balance \in Value /\ Balance' \in Value
         /\ \A a \in Asset : Balance'[a] = Balance[a] + coin[a]
<1>1. /\ coin \in Value
      /\ IsLot(SetToBag({coin})) /\ Total(SetToBag({coin})) = coin
      /\ IsLot(EmptyBag) /\ Total(EmptyBag) = Zero
      /\ IsPart(EmptyBag, purse)
  <2>1. coin \in Value
    BY CoinAssumption
  <2>2. IsPart(EmptyBag, purse)
    <3>1. \A c : Copies(EmptyBag, c) = 0
      BY EmptyLot
    <3>2. \A c : Copies(purse, c) \in Nat
      BY LotFacts DEF MoneyTypeOK
    <3> QED BY <3>1, <3>2 DEF IsPart
  <2> QED BY <2>1, <2>2, SingleLot, EmptyLot
<1>2. /\ IsLot(purse')
      /\ Balance \in Value /\ Balance' \in Value
      /\ \A a \in Asset : Balance'[a] = Balance[a] - Zero[a] + coin[a]
  BY <1>1, ReplaceFacts DEF MoneyTypeOK
<1>3. \A a \in Asset : coin[a] \in Nat /\ Balance[a] \in Nat /\ Zero[a] = 0
  BY <1>1, <1>2 DEF Value, Zero
<1>4. \A a \in Asset : Balance'[a] = Balance[a] + coin[a]
  BY <1>2, <1>3
<1> QED BY <1>1, <1>2, <1>4

-----------------------------------------------------------------------------
(* The wallet's transactions, one by one. *)

LEMMA OperatorWithdraws ==
  ASSUME MoneyTypeOK, NEW tx \in Transaction, SpendAsOperator(tx)
  PROVE  \E spent \in Inputs : \E back \in Outputs(spent) :
           /\ ReserveIsPreserved(streams', Total(spent), Total(back), tx.hi)
           /\ Withdrawal("operators", Outflow(spent, back))
           /\ IsLot(purse')
<1>0. PICK spent \in Inputs : \E back \in Outputs(spent) :
          /\ ReserveIsPreserved(streams', Total(spent), Total(back), tx.hi)
          /\ Replace(spent, back)
          /\ Take("operators", Outflow(spent, back))
  BY DEF SpendAsOperator
<1>1. PICK back \in Outputs(spent) :
        /\ ReserveIsPreserved(streams', Total(spent), Total(back), tx.hi)
        /\ Replace(spent, back)
        /\ Take("operators", Outflow(spent, back))
  BY <1>0
<1>2. "operators" \in Taker
  BY DEF Taker
<1> QED BY <1>1, <1>2, SpendWithdraws

LEMMA UserWithdraws ==
  ASSUME MoneyTypeOK, TypeOK, NEW tx \in Transaction, SpendAllowance(tx)
  PROVE  \E u \in DOMAIN users, spent \in Inputs : \E back \in Outputs(spent) :
           /\ users'[u] # users[u]
           /\ u \in Taker /\ u \in UserId
           /\ ExactWithdrawal(spent, back, SpentAllowance(tx, u))
           /\ ReserveIsPreserved(streams', Total(spent), Total(back), tx.hi)
           /\ Withdrawal(u, Outflow(spent, back))
           /\ IsLot(purse')
<1>0. PICK u \in DOMAIN users, spent \in Inputs : \E back \in Outputs(spent) :
          /\ users'[u] # users[u]
          /\ ExactWithdrawal(spent, back, SpentAllowance(tx, u))
          /\ ReserveIsPreserved(streams', Total(spent), Total(back), tx.hi)
          /\ Replace(spent, back)
          /\ Take(u, Outflow(spent, back))
  BY DEF SpendAllowance
<1>1. PICK back \in Outputs(spent) :
        /\ users'[u] # users[u]
        /\ ExactWithdrawal(spent, back, SpentAllowance(tx, u))
        /\ ReserveIsPreserved(streams', Total(spent), Total(back), tx.hi)
        /\ Replace(spent, back)
        /\ Take(u, Outflow(spent, back))
  BY <1>0
<1>2. u \in Taker /\ u \in UserId
  BY DEF TypeOK, IsTable, Taker
<1>3. Withdrawal(u, Outflow(spent, back)) /\ IsLot(purse')
  BY <1>1, <1>2, SpendWithdraws
<1> QED BY <1>1, <1>2, <1>3

LEMMA HeirWithdraws ==
  ASSUME MoneyTypeOK, TypeOK, NEW tx \in Transaction, NEW b \in DOMAIN beneficiaries,
         SpendShare(tx, b)
  PROVE  /\ b \in Taker /\ b \in BeneficiaryId
         /\ \E spent \in Inputs : \E back \in Outputs(spent) :
              /\ ReserveIsPreserved(streams', Total(spent), Total(back), tx.hi)
              /\ \/ IsSole(b)
                 \/ PaidOutWithinShare(b, Total(spent), Total(back),
                                       StreamingReserve(streams', tx.hi))
              /\ Withdrawal(b, Outflow(spent, back))
              /\ IsLot(purse')
<1>0. PICK spent \in Inputs : \E back \in Outputs(spent) :
          /\ ReserveIsPreserved(streams', Total(spent), Total(back), tx.hi)
          /\ \/ IsSole(b)
             \/ PaidOutWithinShare(b, Total(spent), Total(back), StreamingReserve(streams', tx.hi))
          /\ Replace(spent, back)
          /\ Take(b, Outflow(spent, back))
  BY DEF SpendShare
<1>1. PICK back \in Outputs(spent) :
        /\ ReserveIsPreserved(streams', Total(spent), Total(back), tx.hi)
        /\ \/ IsSole(b)
           \/ PaidOutWithinShare(b, Total(spent), Total(back), StreamingReserve(streams', tx.hi))
        /\ Replace(spent, back)
        /\ Take(b, Outflow(spent, back))
  BY <1>0
<1>2. b \in Taker /\ b \in BeneficiaryId
  BY DEF TypeOK, IsTable, Taker
<1>3. Withdrawal(b, Outflow(spent, back)) /\ IsLot(purse')
  BY <1>1, <1>2, SpendWithdraws
<1> QED BY <1>1, <1>2, <1>3

LEMMA HeirsDivide ==
  ASSUME MoneyTypeOK, TypeOK, ConfigurationStaysValid, NEW tx \in Transaction,
         NEW b \in DOMAIN beneficiaries, SpendDistribution(tx, b)
  PROVE  /\ \E coin \in DOMAIN purse : Division(coin) /\ DividedExactly(coin)
         /\ IsLot(purse')
         /\ taken' \in [Taker -> Value]
<1>1. PICK coin \in DOMAIN purse :
        /\ DividedExactly(coin)
        /\ Replace(SetToBag({coin}), EmptyBag)
        /\ taken' = [t \in Taker |-> IF t \in DOMAIN beneficiaries
                                     THEN Plus(taken[t], Share(t, coin)) ELSE taken[t]]
  BY DEF SpendDistribution
<1>2. DOMAIN beneficiaries # {}
  OBVIOUS
<1>3. Division(coin) /\ IsLot(purse') /\ taken' \in [Taker -> Value]
  BY <1>1, <1>2, DistributionDivides
<1> QED BY <1>1, <1>3

LEMMA PayeesWithdraw ==
  ASSUME MoneyTypeOK, NEW tx \in Transaction, SpendSettlement(tx)
  PROVE  \E spent \in Inputs : \E back \in Outputs(spent) :
           /\ ExactWithdrawal(spent, back, PayoutDelta)
           /\ Withdrawal("payees", Outflow(spent, back))
           /\ IsLot(purse')
<1>0. PICK spent \in Inputs : \E back \in Outputs(spent) :
          /\ ExactWithdrawal(spent, back, PayoutDelta)
          /\ Replace(spent, back)
          /\ Take("payees", Outflow(spent, back))
  BY DEF SpendSettlement
<1>1. PICK back \in Outputs(spent) :
        /\ ExactWithdrawal(spent, back, PayoutDelta)
        /\ Replace(spent, back)
        /\ Take("payees", Outflow(spent, back))
  BY <1>0
<1>2. "payees" \in Taker
  BY DEF Taker
<1> QED BY <1>1, <1>2, SpendWithdraws

LEMMA ConsolidationMovesNothing ==
  ASSUME MoneyTypeOK, NEW tx \in Transaction, SpendConsolidation(tx)
  PROVE  Balance' = Balance /\ taken' = taken /\ IsLot(purse') /\ UNCHANGED vars
<1>0. PICK spent \in Inputs : \E back \in Outputs(spent) :
          Total(spent) = Total(back) /\ Replace(spent, back) /\ UNCHANGED taken
  BY DEF SpendConsolidation
<1>1. PICK back \in Outputs(spent) :
        Total(spent) = Total(back) /\ Replace(spent, back) /\ UNCHANGED taken
  BY <1>0
<1>2. /\ IsLot(purse) /\ IsLot(spent) /\ IsPart(spent, purse) /\ IsLot(back)
  BY <1>1, InputsAreLots, OutputFacts DEF MoneyTypeOK
<1>3. /\ IsLot(purse')
      /\ Total(spent) \in Value
      /\ Balance \in Value /\ Balance' \in Value
      /\ \A a \in Asset : Balance'[a] = Balance[a] - Total(spent)[a] + Total(back)[a]
  BY <1>1, <1>2, ReplaceFacts
<1>4. \A a \in Asset : Balance[a] \in Nat /\ Total(spent)[a] \in Nat
  BY <1>3 DEF Value
<1>5. \A a \in Asset : Balance'[a] = Balance[a]
  BY <1>1, <1>3, <1>4
<1>6. Balance' = Balance
  BY <1>3, <1>5, SameValue
<1>7. UNCHANGED vars
  BY DEF SpendConsolidation, Consolidate
<1> QED BY <1>1, <1>3, <1>6, <1>7

-----------------------------------------------------------------------------
(* The wallet runs the state thread. *)

LEMMA SpendIsAccepted ==
  ASSUME NEW tx \in Transaction, Spend(tx)
  PROVE  Accept(tx)
<1>1. CASE SpendAsOperator(tx)
  BY <1>1 DEF SpendAsOperator, Accept, Operate
<1>2. CASE SpendAllowance(tx)
  BY <1>2 DEF SpendAllowance, Accept
<1>3. CASE \E b \in DOMAIN beneficiaries : SpendShare(tx, b) \/ SpendDistribution(tx, b)
  BY <1>3 DEF SpendShare, SpendDistribution, Accept, Recover
<1>4. CASE SpendSettlement(tx)
  BY <1>4 DEF SpendSettlement, Accept, Settle
<1>5. CASE SpendConsolidation(tx)
  BY <1>5 DEF SpendConsolidation, Accept, Settle
<1> QED BY <1>1, <1>2, <1>3, <1>4, <1>5 DEF Spend

LEMMA WalletRunsThread == [WalletNext]_walletVars => [Next]_vars
<1>1. (\E tx \in Transaction : Spend(tx)) => Next
  BY SpendIsAccepted DEF Next
<1>2. Deposit => UNCHANGED vars
  BY DEF Deposit
<1>3. UNCHANGED walletVars => UNCHANGED vars
  BY DEF walletVars
<1> QED BY <1>1, <1>2, <1>3 DEF WalletNext

\* Everything proved of the state thread holds of the wallet.
LEMMA WalletIsThread == WalletSpec => Spec
<1>1. WalletInit => Init
  BY DEF WalletInit
<1> QED BY <1>1, WalletRunsThread, PTL DEF WalletSpec, Spec

LEMMA MoneyTypeStep ==
  ASSUME MoneyTypeOK, TypeOK, ConfigurationStaysValid, [WalletNext]_walletVars
  PROVE  MoneyTypeOK'
<1>1. CASE UNCHANGED <<purse, taken>>
  BY <1>1 DEF MoneyTypeOK
<1>2. ASSUME NEW tx \in Transaction, Spend(tx)
      PROVE  IsLot(purse') /\ taken' \in [Taker -> Value]
  <2>1. CASE SpendAsOperator(tx)
    <3>1. "operators" \in Taker
      BY DEF Taker
    <3> QED BY <2>1, <3>1, OperatorWithdraws, WithdrawalKeepsType
  <2>2. CASE SpendAllowance(tx)
    BY <2>2, UserWithdraws, WithdrawalKeepsType
  <2>3. ASSUME NEW b \in DOMAIN beneficiaries, SpendShare(tx, b)
        PROVE  IsLot(purse') /\ taken' \in [Taker -> Value]
    BY <2>3, HeirWithdraws, WithdrawalKeepsType
  <2>4. ASSUME NEW b \in DOMAIN beneficiaries, SpendDistribution(tx, b)
        PROVE  IsLot(purse') /\ taken' \in [Taker -> Value]
    BY <2>4, HeirsDivide
  <2>5. CASE SpendSettlement(tx)
    <3>1. "payees" \in Taker
      BY DEF Taker
    <3> QED BY <2>5, <3>1, PayeesWithdraw, WithdrawalKeepsType
  <2>6. CASE SpendConsolidation(tx)
    BY <2>6, ConsolidationMovesNothing DEF MoneyTypeOK
  <2> QED BY <1>2, <2>1, <2>2, <2>3, <2>4, <2>5, <2>6 DEF Spend
<1>3. CASE Deposit
  <2>1. IsLot(purse') /\ taken' = taken
    BY <1>3, DepositReceives DEF Deposit
  <2> QED BY <2>1 DEF MoneyTypeOK
<1> QED BY <1>1, <1>2, <1>3 DEF WalletNext, walletVars, MoneyTypeOK

\* The inductive invariant: that of the thread, and the purse's type.
WalletInvariant == StreamInvariant /\ ConfigurationStaysValid /\ MoneyTypeOK

LEMMA ZeroIsValue == Zero \in Value
BY DEF Zero, Value

LEMMA WalletInvariantHolds == WalletSpec => []WalletInvariant
<1>1. WalletInit => MoneyTypeOK
  BY LayoutAssumption, ZeroIsValue DEF WalletInit, MoneyTypeOK
<1>2. MoneyTypeOK /\ TypeOK /\ ConfigurationStaysValid /\ [WalletNext]_walletVars => MoneyTypeOK'
  BY MoneyTypeStep
<1>3. StreamInvariant => TypeOK
  BY DEF StreamInvariant
<1>4. MoneyTypeOK /\ StreamInvariant /\ ConfigurationStaysValid => WalletInvariant
  BY DEF WalletInvariant
<1> QED
  BY <1>1, <1>2, <1>3, <1>4, WalletIsThread, StreamInvariantHolds, ConfigurationIsInvariant, PTL
  DEF WalletSpec

-----------------------------------------------------------------------------
(* What is left for the payees. *)

LEMMA InvariantFacts ==
  ASSUME WalletInvariant
  PROVE  /\ TypeOK /\ StreamInvariant /\ ConfigurationStaysValid /\ MoneyTypeOK
         /\ IsOwing(streams, now) /\ now \in Int
         /\ Owed \in Value /\ Balance \in Value
         /\ \A t \in Taker : taken[t] \in Value
         /\ IsWeighed(beneficiaries)
<1>1. TypeOK /\ StreamInvariant /\ ConfigurationStaysValid /\ MoneyTypeOK
  BY DEF WalletInvariant, StreamInvariant
<1>2. IsOwing(streams, now)
  BY <1>1, StreamsAreOwing
<1>3. Owed \in Value
  BY <1>2, DebtFacts, OwedNowAndNext
<1>4. Balance \in Value
  BY <1>1, TotalIsValue, BalanceNowAndNext DEF MoneyTypeOK
<1> QED BY <1>1, <1>2, <1>3, <1>4, WeighedNow DEF MoneyTypeOK, IsOwing

LEMMA ValueFacts ==
  ASSUME NEW v \in Value, NEW a \in Asset PROVE v[a] \in Nat
BY DEF Value

\* Of an asset of which something leaves, the reserve stays and with it the debts.
LEMMA ReserveLeft ==
  ASSUME WalletInvariant, NEW tx \in Transaction, tx.hi # None, streams' = streams,
         NEW spent \in Inputs, NEW back \in Outputs(spent),
         ReserveIsPreserved(streams', Total(spent), Total(back), tx.hi),
         NEW taker, Withdrawal(taker, Outflow(spent, back)),
         NEW a \in Asset
  PROVE  /\ Outflow(spent, back)[a] = Total(spent)[a] - Total(back)[a]
         /\ Total(spent)[a] \in Nat /\ Total(back)[a] \in Nat
         /\ Total(back)[a] <= Total(spent)[a] /\ Total(spent)[a] <= Balance[a]
         /\ StreamingReserve(streams', tx.hi)[a] \in Nat
         /\ Owed[a] <= StreamingReserve(streams', tx.hi)[a]
         /\ \/ Total(back)[a] = Total(spent)[a] /\ Balance'[a] = Balance[a]
            \/ StreamingReserve(streams', tx.hi)[a] <= Total(back)[a] /\ Balance'[a] >= Owed[a]
<1>1. /\ MoneyTypeOK /\ IsOwing(streams, now)
      /\ Owed[a] \in Nat /\ Balance[a] \in Nat
      /\ tx.hi \in Int /\ now <= tx.hi
  BY InvariantFacts, ValueFacts, TransactionFields, MaxStateIntegerAssumption
<1>2. /\ StreamingReserve(streams', tx.hi)[a] \in Nat
      /\ Owed[a] <= StreamingReserve(streams', tx.hi)[a]
  BY <1>1, ReserveCoversDebts, OwedNowAndNext
<1>3. /\ IsLot(spent) /\ IsPart(spent, purse) /\ IsLot(back) /\ IsLot(purse)
      /\ Total(back)[a] <= Total(spent)[a]
  BY <1>1, InputsAreLots, OutputFacts DEF MoneyTypeOK
<1>4. Total(spent)[a] \in Nat /\ Total(back)[a] \in Nat
  BY <1>3, TotalIsValue, ValueFacts
<1>5. Total(spent)[a] <= Balance[a]
  <2>1. Total(purse) = Plus(Total(purse (-) spent), Total(spent)) /\ IsLot(purse (-) spent)
    BY <1>3, RestFacts
  <2>2. Total(purse (-) spent)[a] \in Nat
    BY <2>1, TotalIsValue, ValueFacts
  <2>3. Balance[a] = Total(purse (-) spent)[a] + Total(spent)[a]
    BY <2>1, BalanceNowAndNext DEF Plus
  <2> QED BY <1>4, <2>2, <2>3
<1>6. /\ Outflow(spent, back)[a] = Total(spent)[a] - Total(back)[a]
      /\ Balance'[a] = Balance[a] - Outflow(spent, back)[a]
  BY DEF Withdrawal, Outflow, Minus
<1>7. Total(back)[a] >= Smaller(Total(spent)[a], StreamingReserve(streams', tx.hi)[a])
  BY DEF ReserveIsPreserved
<1> QED BY <1>1, <1>2, <1>3, <1>4, <1>5, <1>6, <1>7 DEF Smaller

\* A withdrawal that is held by the reserve.
Reserved(tx, taker) ==
  \E spent \in Inputs : \E back \in Outputs(spent) :
    /\ ReserveIsPreserved(streams', Total(spent), Total(back), tx.hi)
    /\ Withdrawal(taker, Outflow(spent, back))

LEMMA ReservedLeavesDebts ==
  ASSUME WalletInvariant, NEW tx \in Transaction, tx.hi # None, streams' = streams,
         NEW taker, Reserved(tx, taker), NEW a \in Asset
  PROVE  Balance'[a] \in Nat /\ (Balance'[a] = Balance[a] \/ Balance'[a] >= Owed[a])
<1>1. PICK spent \in Inputs : \E back \in Outputs(spent) :
        /\ ReserveIsPreserved(streams', Total(spent), Total(back), tx.hi)
        /\ Withdrawal(taker, Outflow(spent, back))
  BY DEF Reserved
<1>2. PICK back \in Outputs(spent) :
        /\ ReserveIsPreserved(streams', Total(spent), Total(back), tx.hi)
        /\ Withdrawal(taker, Outflow(spent, back))
  BY <1>1
<1>3. Balance'[a] = Balance[a] \/ Balance'[a] >= Owed[a]
  BY <1>2, ReserveLeft
<1>4. Balance' \in Value
  BY <1>2 DEF Withdrawal
<1> QED BY <1>3, <1>4, ValueFacts

LEMMA ReserveStep ==
  ASSUME WalletInvariant, [WalletNext]_walletVars, taken'["payees"] = taken["payees"],
         NEW a \in Asset
  PROVE  Balance'[a] >= Smaller(Balance[a], Owed[a])
<1>0. /\ TypeOK /\ MoneyTypeOK /\ ConfigurationStaysValid /\ IsOwing(streams, now)
      /\ Balance[a] \in Nat /\ Owed[a] \in Nat
  BY InvariantFacts, ValueFacts
<1>1. CASE UNCHANGED purse
  <2>1. Balance'[a] = Balance[a]
    BY <1>1, BalanceNowAndNext
  <2> QED BY <1>0, <2>1 DEF Smaller
<1>2. ASSUME NEW tx \in Transaction, Spend(tx)
      PROVE  Balance'[a] >= Smaller(Balance[a], Owed[a])
  <2>1. CASE SpendAsOperator(tx)
    <3>1. streams' = streams /\ tx.hi # None
      BY <2>1 DEF SpendAsOperator, OperatorUse
    <3>2. Reserved(tx, "operators")
      BY <1>0, <2>1, OperatorWithdraws DEF Reserved
    <3>3. Balance'[a] \in Nat /\ (Balance'[a] = Balance[a] \/ Balance'[a] >= Owed[a])
      BY <3>1, <3>2, ReservedLeavesDebts
    <3> QED BY <1>0, <3>3 DEF Smaller
  <2>2. CASE SpendAllowance(tx)
    <3>1. streams' = streams /\ tx.hi # None
      BY <2>2 DEF SpendAllowance, UseAllowance, FiniteRange
    <3>2. PICK u \in DOMAIN users : Reserved(tx, u)
      BY <1>0, <2>2, UserWithdraws DEF Reserved
    <3>3. Balance'[a] \in Nat /\ (Balance'[a] = Balance[a] \/ Balance'[a] >= Owed[a])
      BY <3>1, <3>2, ReservedLeavesDebts
    <3> QED BY <1>0, <3>3 DEF Smaller
  <2>3. ASSUME NEW b \in DOMAIN beneficiaries, SpendShare(tx, b)
        PROVE  Balance'[a] >= Smaller(Balance[a], Owed[a])
    <3>1. streams' = streams /\ tx.hi # None
      BY <2>3 DEF SpendShare, UseBeneficiary
    <3>2. Reserved(tx, b)
      BY <1>0, <2>3, HeirWithdraws DEF Reserved
    <3>3. Balance'[a] \in Nat /\ (Balance'[a] = Balance[a] \/ Balance'[a] >= Owed[a])
      BY <3>1, <3>2, ReservedLeavesDebts
    <3> QED BY <1>0, <3>3 DEF Smaller
  <2>4. ASSUME NEW b \in DOMAIN beneficiaries, SpendDistribution(tx, b)
        PROVE  Balance'[a] >= Smaller(Balance[a], Owed[a])
    <3>1. Balance' \in Value
      BY <1>0, <2>4, HeirsDivide DEF Division
    <3>2. DOMAIN streams = {}
      BY <2>4 DEF SpendDistribution, DistributeBeneficiaries
    <3>3. Dated(streams, a) = {}
      BY <3>2 DEF Dated
    <3>4. OwedOf(streams, now)[a] = Sum(Debt(streams, now), Dated(streams, a))
      BY <1>0, DebtFacts
    <3>5. Owed[a] = 0
      BY <3>3, <3>4, OwedNowAndNext, SumOfNone
    <3>6. Balance'[a] \in Nat
      BY <3>1, ValueFacts
    <3> QED BY <1>0, <3>5, <3>6 DEF Smaller
  <2>5. CASE SpendSettlement(tx)
    <3>1. "payees" \in Taker
      BY DEF Taker
    <3>2. Balance' = Balance
      BY <1>0, <2>5, <3>1, PayeesWithdraw, IdleWithdrawal
    <3> QED BY <1>0, <3>2 DEF Smaller
  <2>6. CASE SpendConsolidation(tx)
    <3>1. Balance' = Balance
      BY <1>0, <2>6, ConsolidationMovesNothing
    <3> QED BY <1>0, <3>1 DEF Smaller
  <2> QED BY <1>2, <2>1, <2>2, <2>3, <2>4, <2>5, <2>6 DEF Spend
<1>3. CASE Deposit
  <2>1. PICK coin \in Coin : Replace(EmptyBag, SetToBag({coin}))
    BY <1>3 DEF Deposit
  <2>2. coin[a] \in Nat /\ Balance'[a] = Balance[a] + coin[a]
    BY <1>0, <2>1, DepositReceives, ValueFacts
  <2> QED BY <1>0, <2>2 DEF Smaller
<1> QED BY <1>1, <1>2, <1>3 DEF WalletNext, walletVars

\* Whoever takes money out of whichever UTxOs, what the payees have earned by
\* now stays in the wallet, unless it goes to them.
THEOREM ReserveAlwaysStays == WalletSpec => ReserveStays
<1> DEFINE Stays == taken'["payees"] = taken["payees"] =>
                      \A a \in Asset : Balance'[a] >= Smaller(Balance[a], Owed[a])
<1>1. WalletInvariant /\ [WalletNext]_walletVars => [Stays]_walletVars
  BY ReserveStep
<1> HIDE DEF Stays
<1>2. WalletSpec => [][Stays]_walletVars
  BY <1>1, WalletInvariantHolds, PTL DEF WalletSpec
<1> QED BY <1>2 DEF ReserveStays, Stays

-----------------------------------------------------------------------------
(* Nothing gets lost. *)

GotOf(got, a) == Sum([t \in Taker |-> got[t][a]], Taker)

IncomeOf(bag, got) == [a \in Asset |-> Total(bag)[a] + GotOf(got, a)]

LEMMA IncomeNowAndNext ==
  Income = IncomeOf(purse, taken) /\ Income' = IncomeOf(purse', taken')
<1>1. Income = IncomeOf(purse, taken)
  BY DEF Income, IncomeOf, GotOf, Sum
<1>2. Income' = IncomeOf(purse, taken)'
  BY DEF Income, IncomeOf, GotOf, Sum
<1>3. IncomeOf(purse, taken)' = IncomeOf(purse', taken')
  OBVIOUS
<1> QED BY <1>1, <1>2, <1>3

LEMMA TakerIsFinite == IsFiniteSet(Taker)
<1>1. IsFiniteSet(UserId \cup BeneficiaryId)
  BY IdAssumption, FS_Union
<1>2. IsFiniteSet((UserId \cup BeneficiaryId) \cup {"operators"})
  BY <1>1, FS_AddElement
<1>3. IsFiniteSet(((UserId \cup BeneficiaryId) \cup {"operators"}) \cup {"payees"})
  BY <1>2, FS_AddElement
<1>4. Taker = ((UserId \cup BeneficiaryId) \cup {"operators"}) \cup {"payees"}
  BY DEF Taker
<1> QED BY <1>3, <1>4

\* What leaves for one taker is what all takers together get.
LEMMA OneGets ==
  ASSUME NEW got, NEW next, NEW taker \in Taker, NEW a \in Asset, NEW out \in Int,
         \A t \in Taker : got[t][a] \in Int /\ next[t][a] \in Int,
         \A t \in Taker \ {taker} : next[t][a] = got[t][a],
         next[taker][a] = got[taker][a] + out
  PROVE  GotOf(got, a) \in Int /\ GotOf(next, a) = GotOf(got, a) + out
<1> DEFINE f == [t \in Taker |-> got[t][a]]
           g == [t \in Taker |-> next[t][a]]
           rest == Taker \ {taker}
<1>1. /\ \A t \in Taker : f[t] \in Int /\ g[t] \in Int
      /\ \A t \in rest : f[t] \in Int /\ g[t] = f[t]
      /\ g[taker] = f[taker] + out
      /\ GotOf(got, a) = Sum(f, Taker) /\ GotOf(next, a) = Sum(g, Taker)
  BY DEF GotOf
<1>2. IsFiniteSet(Taker) /\ IsFiniteSet(rest)
  BY TakerIsFinite, FS_Subset
<1> HIDE DEF f, g
<1>3. Sum(f, Taker) = f[taker] + Sum(f, rest) /\ Sum(g, Taker) = g[taker] + Sum(g, rest)
  BY <1>1, <1>2, SumTakes
<1>4. Sum(g, rest) = Sum(f, rest) /\ Sum(f, rest) \in Int
  <2>1. \A t \in rest : f[t] \in Int /\ g[t] \in Int
    BY <1>1
  <2> QED BY <1>1, <1>2, <2>1, SumDependsOnTerms, SumIsInt
<1> HIDE DEF rest
<1>5. f[taker] \in Int
  BY <1>1
<1> QED BY <1>1, <1>3, <1>4, <1>5

LEMMA WithdrawalKeepsIncome ==
  ASSUME MoneyTypeOK, NEW taker \in Taker, NEW out, Withdrawal(taker, out)
  PROVE  Income' = Income
<1>1. ASSUME NEW a \in Asset
      PROVE  IncomeOf(purse', taken')[a] = IncomeOf(purse, taken)[a]
  <2>1. out[a] \in Nat /\ Balance[a] \in Nat /\ Balance'[a] = Balance[a] - out[a]
    BY ValueFacts DEF Withdrawal
  <2>2. /\ \A t \in Taker : taken[t][a] \in Int /\ taken'[t][a] \in Int
        /\ \A t \in Taker \ {taker} : taken'[t][a] = taken[t][a]
        /\ taken'[taker][a] = taken[taker][a] + out[a]
    <3>1. /\ taken \in [Taker -> Value] /\ taken' \in [Taker -> Value]
          /\ \A t \in Taker \ {taker} : taken'[t] = taken[t]
          /\ taken'[taker][a] = taken[taker][a] + out[a]
      BY WithdrawalKeepsType DEF MoneyTypeOK
    <3>2. \A t \in Taker : taken[t] \in Value /\ taken'[t] \in Value
      BY <3>1
    <3>3. \A t \in Taker : taken[t][a] \in Nat /\ taken'[t][a] \in Nat
      BY <3>2, ValueFacts
    <3> QED BY <3>1, <3>3
  <2>3. GotOf(taken, a) \in Int /\ GotOf(taken', a) = GotOf(taken, a) + out[a]
    <3>1. out[a] \in Int
      BY <2>1
    <3> QED BY <2>2, <3>1, OneGets, Zenon
  <2>4. /\ IncomeOf(purse, taken)[a] = Balance[a] + GotOf(taken, a)
        /\ IncomeOf(purse', taken')[a] = Balance'[a] + GotOf(taken', a)
    BY BalanceNowAndNext DEF IncomeOf
  <2> QED BY <2>1, <2>3, <2>4
<1>2. IncomeOf(purse', taken') = IncomeOf(purse, taken)
  BY <1>1 DEF IncomeOf
<1> QED BY <1>2, IncomeNowAndNext

LEMMA ProductCancels ==
  ASSUME NEW m \in Int, NEW n \in Int, NEW k \in Nat, k > 0, k * m = k * n
  PROVE  m = n
BY SMT

LEMMA ProductCommutes ==
  ASSUME NEW m \in Int, NEW n \in Int PROVE m * n = n * m
OBVIOUS

\* The shares of a lot that is divided without remainder add up to the lot.
LEMMA SharesAddUp ==
  ASSUME TypeOK, ConfigurationStaysValid, NEW coin, Division(coin), NEW a \in Asset
  PROVE  /\ Sum([b \in DOMAIN beneficiaries |-> Share(b, coin)[a]], DOMAIN beneficiaries) = coin[a]
         /\ \A b \in DOMAIN beneficiaries : Share(b, coin)[a] \in Int
<1> DEFINE B == DOMAIN beneficiaries
           W == RemainingWeight
           w == [b \in B |-> beneficiaries[b].weight]
           s == [b \in B |-> Share(b, coin)[a]]
           h == [b \in B |-> coin[a] * beneficiaries[b].weight]
<1>1. IsFiniteSet(B) /\ W = Sum(w, B)
  <2>1. IsWeighed(beneficiaries)
    BY WeighedNow
  <2> QED BY <2>1, WeightFacts, RemainingWeights DEF WeightOf
<1>2. W \in Nat /\ W > 0 /\ coin[a] \in Nat
  BY ValueFacts DEF Division
<1>3. \A b \in B : /\ Share(b, coin)[a] \in Nat
                   /\ beneficiaries[b].weight \in Nat
                   /\ Share(b, coin)[a] * W = coin[a] * beneficiaries[b].weight
  BY ValueFacts DEF Division
<1> HIDE DEF W
<1>4. \A b \in B : /\ s[b] \in Int /\ w[b] \in Int
                   /\ h[b] = coin[a] * w[b]
                   /\ h[b] = W * s[b]
  <2> TAKE b \in B
  <2>1. s[b] = Share(b, coin)[a] /\ w[b] = beneficiaries[b].weight
        /\ h[b] = coin[a] * beneficiaries[b].weight
    OBVIOUS
  <2> HIDE DEF s, w, h
  <2>2. s[b] \in Int /\ w[b] \in Int /\ h[b] = coin[a] * w[b] /\ h[b] = s[b] * W
    BY <1>3, <2>1
  <2>3. s[b] * W = W * s[b]
    BY <1>2, <2>2, ProductCommutes
  <2> QED BY <2>2, <2>3
<1>5. \A b \in B : s[b] \in Nat
  BY <1>3
<1> HIDE DEF B, w, s, h
<1>6. Sum(h, B) = coin[a] * Sum(w, B)
  BY <1>1, <1>2, <1>4, SumScales
<1>7. Sum(h, B) = W * Sum(s, B)
  BY <1>1, <1>2, <1>4, SumScales
<1>8. Sum(s, B) \in Int
  BY <1>1, <1>4, SumIsInt
<1>9. coin[a] * W = W * coin[a]
  BY <1>2, ProductCommutes
<1>10. Sum(s, B) = coin[a]
  <2>1. W * Sum(s, B) = W * coin[a]
    BY <1>1, <1>6, <1>7, <1>9
  <2> QED BY <1>2, <1>8, <2>1, ProductCancels
<1> QED BY <1>3, <1>10 DEF B, s

LEMMA DivisionKeepsIncome ==
  ASSUME WalletInvariant, NEW coin, Division(coin)
  PROVE  Income' = Income
<1>0. TypeOK /\ ConfigurationStaysValid /\ \A t \in Taker : taken[t] \in Value
  BY InvariantFacts
<1>1. ASSUME NEW a \in Asset
      PROVE  IncomeOf(purse', taken')[a] = IncomeOf(purse, taken)[a]
  <2> DEFINE B == DOMAIN beneficiaries
             s == [b \in B |-> Share(b, coin)[a]]
             f == [t \in Taker |-> taken[t][a]]
             g == [t \in Taker |-> taken'[t][a]]
             z == [t \in Taker |-> IF t \in B THEN Share(t, coin)[a] ELSE 0]
  <2>1. coin[a] \in Nat /\ Balance[a] \in Nat /\ Balance'[a] = Balance[a] - coin[a]
    BY ValueFacts DEF Division
  <2>2. Sum(s, B) = coin[a] /\ \A b \in B : Share(b, coin)[a] \in Int
    BY <1>0, SharesAddUp
  <2>3. B \subseteq Taker
    BY DEF Division
  <2>4. ASSUME NEW t \in Taker PROVE f[t] \in Int /\ z[t] \in Int /\ g[t] = f[t] + z[t]
    <3>1. taken[t][a] \in Nat
      BY <1>0, ValueFacts
    <3>2. CASE t \in B
      <4>1. taken'[t] = Plus(taken[t], Share(t, coin))
        BY <3>2 DEF Division
      <4>2. taken'[t][a] = taken[t][a] + Share(t, coin)[a]
        BY <4>1 DEF Plus
      <4> QED BY <2>2, <3>1, <3>2, <4>2
    <3>3. CASE t \notin B
      <4>1. taken'[t] = taken[t]
        BY <3>3 DEF Division
      <4> QED BY <3>1, <3>3, <4>1
    <3> QED BY <3>2, <3>3
  <2>5. /\ \A t \in Taker \ B : z[t] = 0
        /\ \A b \in B : z[b] \in Int /\ z[b] = s[b]
    BY <2>2, <2>3
  <2>6. GotOf(taken, a) = Sum(f, Taker) /\ GotOf(taken', a) = Sum(g, Taker)
    BY DEF GotOf
  <2> HIDE DEF B, s, f, g, z
  <2>7. IsFiniteSet(Taker) /\ IsFiniteSet(B)
    BY <2>3, TakerIsFinite, FS_Subset
  <2>8. Sum(g, Taker) = Sum(f, Taker) + Sum(z, Taker)
    BY <2>4, <2>7, SumIsLinear
  <2>9. Sum(z, Taker) = Sum(z, B)
    BY <2>3, <2>4, <2>5, <2>7, SumIgnoresZeros
  <2>10. Sum(z, B) = Sum(s, B)
    BY <2>5, <2>7, SumDependsOnTerms
  <2>11. Sum(f, Taker) \in Int
    BY <2>4, <2>7, SumIsInt
  <2>12. /\ IncomeOf(purse, taken)[a] = Balance[a] + GotOf(taken, a)
         /\ IncomeOf(purse', taken')[a] = Balance'[a] + GotOf(taken', a)
    BY BalanceNowAndNext DEF IncomeOf
  <2> QED BY <2>1, <2>2, <2>6, <2>8, <2>9, <2>10, <2>11, <2>12
<1>2. IncomeOf(purse', taken') = IncomeOf(purse, taken)
  BY <1>1 DEF IncomeOf
<1> QED BY <1>2, IncomeNowAndNext

LEMMA IncomeStep ==
  ASSUME WalletInvariant, [WalletNext]_walletVars, taken' # taken
  PROVE  Income' = Income
<1>0. TypeOK /\ MoneyTypeOK /\ ConfigurationStaysValid
  BY InvariantFacts
<1>1. PICK tx \in Transaction : Spend(tx)
  BY DEF WalletNext, walletVars, Deposit
<1>2. CASE SpendAsOperator(tx)
  <2>1. "operators" \in Taker
    BY DEF Taker
  <2> QED BY <1>0, <1>2, <2>1, OperatorWithdraws, WithdrawalKeepsIncome
<1>3. CASE SpendAllowance(tx)
  <2>1. \E u \in Taker : \E out : Withdrawal(u, out)
    BY <1>0, <1>3, UserWithdraws
  <2> QED BY <1>0, <2>1, WithdrawalKeepsIncome
<1>4. ASSUME NEW b \in DOMAIN beneficiaries, SpendShare(tx, b)
      PROVE  Income' = Income
  <2>1. b \in Taker /\ \E out : Withdrawal(b, out)
    BY <1>0, <1>4, HeirWithdraws
  <2> QED BY <1>0, <2>1, WithdrawalKeepsIncome
<1>5. ASSUME NEW b \in DOMAIN beneficiaries, SpendDistribution(tx, b)
      PROVE  Income' = Income
  BY <1>0, <1>5, HeirsDivide, DivisionKeepsIncome
<1>6. CASE SpendSettlement(tx)
  <2>1. "payees" \in Taker
    BY DEF Taker
  <2> QED BY <1>0, <1>6, <2>1, PayeesWithdraw, WithdrawalKeepsIncome
<1>7. CASE SpendConsolidation(tx)
  BY <1>7 DEF SpendConsolidation
<1> QED BY <1>1, <1>2, <1>3, <1>4, <1>5, <1>6, <1>7 DEF Spend

\* What leaves a UTxO is with one of the stakeholders.
THEOREM NothingGetsLost == WalletSpec => NothingIsLost
<1> DEFINE Kept == taken' # taken => Income' = Income
<1>1. WalletInvariant /\ [WalletNext]_walletVars => [Kept]_walletVars
  BY IncomeStep
<1> HIDE DEF Kept
<1>2. WalletSpec => [][Kept]_walletVars
  BY <1>1, WalletInvariantHolds, PTL DEF WalletSpec
<1> QED BY <1>2 DEF NothingIsLost, Kept

-----------------------------------------------------------------------------
(* What the beneficiaries keep. *)

\* The comparison of HeirsKeepTheirWorth, in plain numbers.
WorthIsKept(balance, next, gain, all, left, weight) ==
  (next * all) * weight + (gain * all) * left >= (balance * left) * weight

LEMMA ProductsCompare ==
  ASSUME NEW m \in Nat, NEW n \in Nat, NEW k \in Nat, NEW l \in Nat, m <= n, k <= l
  PROVE  m * k <= n * l
<1>1. m * k <= n * k
  BY ProductIsMonotone
<1>2. k * n <= l * n
  BY ProductIsMonotone
<1>3. k * n = n * k /\ l * n = n * l
  OBVIOUS
<1> QED BY <1>1, <1>2, <1>3

LEMMA ZeroGain ==
  ASSUME NEW all \in Nat, NEW left \in Nat PROVE (0 * all) * left = 0
<1>1. 0 * all = 0
  OBVIOUS
<1>2. 0 * left = 0
  OBVIOUS
<1> QED BY <1>1, <1>2

\* Where nothing is taken.
LEMMA WorthOfMore ==
  ASSUME NEW balance \in Nat, NEW next \in Nat, balance <= next,
         NEW all \in Nat, NEW left \in Nat, left <= all, NEW weight \in Nat
  PROVE  WorthIsKept(balance, next, 0, all, left, weight)
<1>1. balance * left <= next * all /\ balance * left \in Nat /\ next * all \in Nat
  BY ProductsCompare
<1>2. (balance * left) * weight <= (next * all) * weight
  BY <1>1, ProductIsMonotone
<1>3. (next * all) * weight \in Nat /\ (balance * left) * weight \in Nat
  BY <1>1, ProductIsNatural
<1> QED BY <1>2, <1>3, ZeroGain DEF WorthIsKept

\* Where an earlier beneficiary takes its part and leaves.
LEMMA WorthOfOthers ==
  ASSUME NEW balance \in Nat, NEW next \in Nat, NEW out \in Nat, next = balance - out,
         NEW all \in Nat, NEW gone \in Nat, gone <= all,
         out * all <= gone * balance, NEW weight \in Nat
  PROVE  WorthIsKept(balance, next, 0, all, all - gone, weight)
<1>1. next * all = balance * all - out * all
  OBVIOUS
<1>2. balance * (all - gone) = balance * all - gone * balance
  OBVIOUS
<1>3. /\ balance * all \in Nat /\ out * all \in Nat /\ gone * balance \in Nat
      /\ all - gone \in Nat /\ next * all \in Nat
  BY ProductIsNatural
<1>4. balance * (all - gone) \in Nat /\ balance * (all - gone) <= next * all
  <2>1. balance * (all - gone) \in Nat
    BY <1>3, ProductIsNatural
  <2> HIDE DEF WorthIsKept
  <2> QED BY <1>1, <1>2, <1>3, <2>1
<1>5. (balance * (all - gone)) * weight <= (next * all) * weight
  BY <1>3, <1>4, ProductIsMonotone
<1>6. (next * all) * weight \in Nat /\ (balance * (all - gone)) * weight \in Nat
  BY <1>3, <1>4, ProductIsNatural
<1> QED BY <1>3, <1>5, <1>6, ZeroGain DEF WorthIsKept

\* Where the beneficiary gets in proportion to its weight.
LEMMA WorthOfShare ==
  ASSUME NEW balance \in Nat, NEW next \in Nat, NEW out \in Nat, next = balance - out,
         NEW all \in Nat, NEW weight \in Nat, NEW share \in Nat,
         share * all = out * weight
  PROVE  WorthIsKept(balance, next, share, all, all, weight)
<1>1. (next * all) * weight = (balance * all) * weight - (out * all) * weight
  <2>1. next * all = balance * all - out * all
    OBVIOUS
  <2>2. balance * all \in Nat /\ out * all \in Nat
    BY ProductIsNatural
  <2>3. \A m, n \in Nat : (m - n) * weight = m * weight - n * weight
    OBVIOUS
  <2> QED BY <2>1, <2>2, <2>3
<1>2. (share * all) * all = (out * all) * weight
  <2>1. (out * weight) * all = (out * all) * weight
    OBVIOUS
  <2> QED BY <2>1
<1>3. (balance * all) * weight \in Nat /\ (out * all) * weight \in Nat
  <2>1. balance * all \in Nat /\ out * all \in Nat
    BY ProductIsNatural
  <2> QED BY <2>1, ProductIsNatural
<1> QED BY <1>1, <1>2, <1>3 DEF WorthIsKept

\* An earlier beneficiary takes no more than its part of the whole balance.
LEMMA PartOfBalance ==
  ASSUME WalletInvariant, NEW tx \in Transaction, tx.hi # None, streams' = streams,
         NEW b \in DOMAIN beneficiaries,
         NEW spent \in Inputs, NEW back \in Outputs(spent),
         ReserveIsPreserved(streams', Total(spent), Total(back), tx.hi),
         PaidOutWithinShare(b, Total(spent), Total(back), StreamingReserve(streams', tx.hi)),
         Withdrawal(b, Outflow(spent, back)),
         NEW a \in Asset
  PROVE  /\ Outflow(spent, back)[a] * RemainingWeight <= beneficiaries[b].weight * Balance[a]
         /\ Outflow(spent, back)[a] > 0 =>
              Outflow(spent, back)[a] * RemainingWeight
                <= beneficiaries[b].weight * (Balance[a] - Owed[a])
<1> DEFINE out == Outflow(spent, back)[a]
           before == Total(spent)[a]
           after == Total(back)[a]
           reserve == StreamingReserve(streams', tx.hi)[a]
           W == RemainingWeight
           w == beneficiaries[b].weight
<1>1. /\ out = before - after /\ before \in Nat /\ after \in Nat /\ after <= before
      /\ before <= Balance[a] /\ reserve \in Nat /\ Owed[a] <= reserve
      /\ after = before \/ reserve <= after
  BY ReserveLeft
<1>2. before > after => (before - after) * W <= w * Larger(0, before - reserve)
  BY DEF PaidOutWithinShare
<1>3. Balance[a] \in Nat /\ Owed[a] \in Nat
  BY InvariantFacts, ValueFacts
<1>4. W \in Nat /\ w \in Nat
  BY InvariantFacts, WeightFacts, RemainingWeights
<1> HIDE DEF out, before, after, reserve, W, w
<1>5. CASE out > 0
  <2>1. /\ before > after
        /\ Larger(0, before - reserve) = before - reserve
        /\ before - reserve \in Nat
    BY <1>1, <1>5 DEF Larger
  <2>2. out * W <= w * (before - reserve)
    BY <1>1, <1>2, <2>1
  <2>3. /\ Balance[a] - Owed[a] \in Nat
        /\ before - reserve <= Balance[a] - Owed[a] /\ before - reserve <= Balance[a]
    BY <1>1, <1>3, <2>1
  <2>4. /\ w * (before - reserve) <= w * (Balance[a] - Owed[a])
        /\ w * (before - reserve) <= w * Balance[a]
    BY <1>3, <1>4, <2>1, <2>3, ProductsCompare
  <2>5. /\ out * W \in Int /\ w * (before - reserve) \in Int
        /\ w * (Balance[a] - Owed[a]) \in Int /\ w * Balance[a] \in Int
    <3>1. out \in Nat
      BY <1>1, <1>5
    <3> QED BY <1>3, <1>4, <2>1, <2>3, <3>1, ProductIsNatural
  <2> QED BY <2>2, <2>4, <2>5 DEF out, W, w
<1>6. CASE ~ (out > 0)
  <2>1. out = 0
    BY <1>1, <1>6
  <2>2. out * W = 0
    BY <1>4, <2>1
  <2>3. w * Balance[a] \in Nat
    BY <1>3, <1>4, ProductIsNatural
  <2> QED BY <1>6, <2>2, <2>3 DEF out, W, w
<1> QED BY <1>5, <1>6

LEMMA ShareKeepsWorth ==
  ASSUME WalletInvariant, NEW tx \in Transaction, NEW c \in DOMAIN beneficiaries,
         SpendShare(tx, c), NEW b \in DOMAIN beneficiaries', NEW a \in Asset
  PROVE  WorthIsKept(Balance[a], Balance'[a], taken'[b][a] - taken[b][a],
                     RemainingWeight, RemainingWeight', beneficiaries[b].weight)
<1> DEFINE W == RemainingWeight
           V == RemainingWeight'
<1>0. /\ TypeOK /\ MoneyTypeOK /\ IsWeighed(beneficiaries)
      /\ W = WeightOf(beneficiaries) /\ V = WeightOf(beneficiaries')
      /\ Balance[a] \in Nat
  BY InvariantFacts, ValueFacts, RemainingWeights
<1>1. /\ UseBeneficiary(tx, c) /\ tx.hi # None /\ streams' = streams
  BY DEF SpendShare, UseBeneficiary
<1>2. PICK spent \in Inputs : \E back \in Outputs(spent) :
        /\ ReserveIsPreserved(streams', Total(spent), Total(back), tx.hi)
        /\ \/ IsSole(c)
           \/ PaidOutWithinShare(c, Total(spent), Total(back), StreamingReserve(streams', tx.hi))
        /\ Withdrawal(c, Outflow(spent, back))
  BY <1>0, HeirWithdraws
<1>3. PICK back \in Outputs(spent) :
        /\ ReserveIsPreserved(streams', Total(spent), Total(back), tx.hi)
        /\ \/ IsSole(c)
           \/ PaidOutWithinShare(c, Total(spent), Total(back), StreamingReserve(streams', tx.hi))
        /\ Withdrawal(c, Outflow(spent, back))
  BY <1>2
<1> DEFINE out == Outflow(spent, back)[a]
<1>4. /\ out \in Nat /\ Balance'[a] \in Nat
      /\ Balance'[a] = Balance[a] - out
      /\ c \in Taker
      /\ taken'[c][a] = taken[c][a] + out
      /\ \A t \in Taker \ {c} : taken'[t] = taken[t]
  <2>1. c \in Taker
    BY <1>0, HeirWithdraws
  <2>2. /\ taken'[c][a] = taken[c][a] + out
        /\ \A t \in Taker \ {c} : taken'[t] = taken[t]
    BY <1>0, <1>3, <2>1, WithdrawalKeepsType
  <2>3. out \in Nat /\ Balance'[a] \in Nat /\ Balance'[a] = Balance[a] - out
    BY <1>3, ValueFacts DEF Withdrawal
  <2> QED BY <2>1, <2>2, <2>3
<1>5. /\ W \in Nat /\ beneficiaries[c].weight \in Nat
      /\ beneficiaries[c].weight <= W
      /\ IsSole(c) => W = beneficiaries[c].weight
  BY <1>0, WeightFacts DEF IsSole
<1>6. CASE IsSole(c)
  <2>1. beneficiaries' = beneficiaries /\ b = c /\ V = W
    BY <1>0, <1>1, <1>6 DEF UseBeneficiary, IsSole
  <2>2. taken'[b][a] - taken[b][a] = out
    <3>1. taken[c][a] \in Nat
      BY <1>4, InvariantFacts, ValueFacts
    <3> QED BY <1>4, <2>1, <3>1
  <2>3. out * W = out * beneficiaries[b].weight /\ beneficiaries[b].weight \in Nat
    BY <1>5, <1>6, <2>1
  <2> HIDE DEF out, W, V
  <2>4. WorthIsKept(Balance[a], Balance'[a], out, W, W, beneficiaries[b].weight)
    BY <1>0, <1>4, <1>5, <2>3, WorthOfShare
  <2> QED BY <2>1, <2>2, <2>4 DEF W, V
<1>7. CASE ~IsSole(c)
  <2>1. beneficiaries' = Without(beneficiaries, c)
    BY <1>1, <1>7 DEF UseBeneficiary
  <2>2. /\ DOMAIN beneficiaries' = DOMAIN beneficiaries \ {c}
        /\ \A d \in DOMAIN beneficiaries' : beneficiaries'[d] = beneficiaries[d]
    BY <2>1 DEF Without, Restrict
  <2>3. V = W - beneficiaries[c].weight
    BY <1>0, <2>2, FewerWeigh
  <2>4. b \in DOMAIN beneficiaries /\ b # c /\ b \in Taker /\ beneficiaries[b].weight \in Nat
    BY <1>0, <2>2, WeightFacts DEF TypeOK, IsTable, Taker
  <2>5. taken'[b][a] - taken[b][a] = 0
    <3>1. taken'[b] = taken[b] /\ taken[b][a] \in Nat
      BY <1>4, <2>4, InvariantFacts, ValueFacts
    <3> QED BY <3>1
  <2>6. out * W <= beneficiaries[c].weight * Balance[a]
    BY <1>1, <1>3, <1>7, PartOfBalance
  <2> HIDE DEF out, W, V
  <2>7. WorthIsKept(Balance[a], Balance'[a], 0, W, W - beneficiaries[c].weight,
                    beneficiaries[b].weight)
    BY <1>0, <1>4, <1>5, <2>4, <2>6, WorthOfOthers
  <2> QED BY <2>3, <2>5, <2>7 DEF W, V
<1> QED BY <1>6, <1>7

LEMMA DivisionKeepsWorth ==
  ASSUME WalletInvariant, NEW tx \in Transaction, NEW c \in DOMAIN beneficiaries,
         SpendDistribution(tx, c), NEW b \in DOMAIN beneficiaries', NEW a \in Asset
  PROVE  WorthIsKept(Balance[a], Balance'[a], taken'[b][a] - taken[b][a],
                     RemainingWeight, RemainingWeight', beneficiaries[b].weight)
<1> DEFINE W == RemainingWeight
<1>1. PICK coin \in DOMAIN purse : Division(coin)
  BY InvariantFacts, HeirsDivide
<1>2. beneficiaries' = beneficiaries
  BY DEF SpendDistribution, DistributeBeneficiaries, access
<1>3. RemainingWeight' = W
  BY <1>2, RemainingWeights
<1>4. /\ b \in DOMAIN beneficiaries /\ b \in Taker
      /\ beneficiaries[b].weight \in Nat /\ W \in Nat
      /\ Share(b, coin) \in Value
      /\ Share(b, coin)[a] * W = coin[a] * beneficiaries[b].weight
      /\ taken'[b] = Plus(taken[b], Share(b, coin))
  BY <1>1, <1>2 DEF Division
<1>5. /\ coin[a] \in Nat /\ Balance[a] \in Nat /\ Balance'[a] \in Nat
      /\ Balance'[a] = Balance[a] - coin[a]
      /\ Share(b, coin)[a] \in Nat /\ taken[b][a] \in Nat
  BY <1>1, <1>4, InvariantFacts, ValueFacts DEF Division
<1>6. taken'[b][a] - taken[b][a] = Share(b, coin)[a]
  <2>1. taken'[b][a] = taken[b][a] + Share(b, coin)[a]
    BY <1>4 DEF Plus
  <2> QED BY <1>5, <2>1
<1> HIDE DEF W
<1>7. WorthIsKept(Balance[a], Balance'[a], Share(b, coin)[a], W, W, beneficiaries[b].weight)
  BY <1>4, <1>5, WorthOfShare
<1> QED BY <1>3, <1>6, <1>7 DEF W

LEMMA WorthStep ==
  ASSUME WalletInvariant, [WalletNext]_walletVars,
         \A t \in Taker \ BeneficiaryId : taken'[t] = taken[t],
         DOMAIN beneficiaries' \subseteq DOMAIN beneficiaries,
         beneficiaries' = Restrict(beneficiaries, DOMAIN beneficiaries'),
         NEW b \in DOMAIN beneficiaries', NEW a \in Asset
  PROVE  WorthIsKept(Balance[a], Balance'[a], taken'[b][a] - taken[b][a],
                     RemainingWeight, RemainingWeight', beneficiaries[b].weight)
<1> DEFINE W == RemainingWeight
           V == RemainingWeight'
           w == beneficiaries[b].weight
           gain == taken'[b][a] - taken[b][a]
<1>0. /\ TypeOK /\ MoneyTypeOK /\ ConfigurationStaysValid /\ IsWeighed(beneficiaries)
      /\ Balance[a] \in Nat
  BY InvariantFacts, ValueFacts
<1>1. /\ W \in Nat /\ V \in Nat /\ V <= W /\ w \in Nat
      /\ b \in Taker
  <2>1. \A d \in DOMAIN beneficiaries' : beneficiaries'[d] = beneficiaries[d]
    BY DEF Restrict
  <2>2. /\ WeightOf(beneficiaries) \in Nat /\ WeightOf(beneficiaries') \in Nat
        /\ WeightOf(beneficiaries') <= WeightOf(beneficiaries)
        /\ w \in Nat
    BY <1>0, <2>1, FewerWeigh, WeightFacts
  <2>3. b \in Taker
    BY <1>0 DEF TypeOK, IsTable, Taker
  <2> QED BY <2>2, <2>3, RemainingWeights
<1>2. taken[b][a] \in Nat
  BY <1>1, InvariantFacts, ValueFacts
<1>3. ASSUME taken' = taken, Balance'[a] \in Nat, Balance[a] <= Balance'[a]
      PROVE  WorthIsKept(Balance[a], Balance'[a], gain, W, V, w)
  <2>1. gain = 0
    BY <1>2, <1>3
  <2> HIDE DEF W, V, w, gain
  <2>2. WorthIsKept(Balance[a], Balance'[a], 0, W, V, w)
    BY <1>0, <1>1, <1>3, WorthOfMore
  <2> QED BY <2>1, <2>2
<1>4. ASSUME taken' = taken, Balance' = Balance
      PROVE  WorthIsKept(Balance[a], Balance'[a], gain, W, V, w)
  <2>1. Balance'[a] \in Nat /\ Balance[a] <= Balance'[a]
    BY <1>0, <1>4
  <2> QED BY <1>3, <1>4, <2>1
<1>5. CASE UNCHANGED <<purse, taken>>
  <2>1. Balance' = Balance
    BY <1>5, BalanceNowAndNext
  <2> QED BY <1>4, <1>5, <2>1
<1>6. CASE Deposit
  <2>1. PICK coin \in Coin : Replace(EmptyBag, SetToBag({coin}))
    BY <1>6 DEF Deposit
  <2>2. coin \in Value /\ Balance' \in Value /\ Balance'[a] = Balance[a] + coin[a]
    BY <1>0, <2>1, DepositReceives
  <2>3. coin[a] \in Nat /\ Balance'[a] \in Nat
    BY <2>2, ValueFacts
  <2>4. taken' = taken /\ Balance[a] <= Balance'[a]
    BY <1>0, <1>6, <2>2, <2>3 DEF Deposit
  <2> QED BY <1>3, <2>3, <2>4
<1>7. ASSUME NEW tx \in Transaction, Spend(tx)
      PROVE  WorthIsKept(Balance[a], Balance'[a], gain, W, V, w)
  <2>1. CASE SpendAsOperator(tx)
    <3>1. "operators" \in Taker /\ "operators" \notin BeneficiaryId
      BY TakerAssumption DEF Taker
    <3>2. taken'["operators"] = taken["operators"]
      BY <3>1
    <3> QED BY <1>0, <1>4, <2>1, <3>1, <3>2, OperatorWithdraws, IdleWithdrawal
  <2>2. CASE SpendAllowance(tx)
    <3>1. PICK u \in Taker : u \in UserId /\ \E out : Withdrawal(u, out)
      BY <1>0, <2>2, UserWithdraws
    <3>2. taken'[u] = taken[u]
      BY <3>1, TakerAssumption
    <3> QED BY <1>0, <1>4, <3>1, <3>2, IdleWithdrawal
  <2>3. ASSUME NEW c \in DOMAIN beneficiaries, SpendShare(tx, c)
        PROVE  WorthIsKept(Balance[a], Balance'[a], gain, W, V, w)
    BY <2>3, ShareKeepsWorth
  <2>4. ASSUME NEW c \in DOMAIN beneficiaries, SpendDistribution(tx, c)
        PROVE  WorthIsKept(Balance[a], Balance'[a], gain, W, V, w)
    BY <2>4, DivisionKeepsWorth
  <2>5. CASE SpendSettlement(tx)
    <3>1. "payees" \in Taker /\ "payees" \notin BeneficiaryId
      BY TakerAssumption DEF Taker
    <3>2. taken'["payees"] = taken["payees"]
      BY <3>1
    <3> QED BY <1>0, <1>4, <2>5, <3>1, <3>2, PayeesWithdraw, IdleWithdrawal
  <2>6. CASE SpendConsolidation(tx)
    BY <1>0, <1>4, <2>6, ConsolidationMovesNothing
  <2> QED BY <1>7, <2>1, <2>2, <2>3, <2>4, <2>5, <2>6 DEF Spend
<1> QED BY <1>5, <1>6, <1>7 DEF WalletNext, walletVars

\* A beneficiary that withdraws first never makes the part of another one smaller.
THEOREM HeirsAlwaysKeepTheirWorth == WalletSpec => HeirsKeepTheirWorth
<1> DEFINE OnlyHeirs ==
             /\ \A t \in Taker \ BeneficiaryId : taken'[t] = taken[t]
             /\ DOMAIN beneficiaries' \subseteq DOMAIN beneficiaries
             /\ beneficiaries' = Restrict(beneficiaries, DOMAIN beneficiaries')
           Kept ==
             OnlyHeirs =>
               \A b \in DOMAIN beneficiaries', a \in Asset :
                 LET worth == Balance[a] * RemainingWeight'
                     rest == Balance'[a] * RemainingWeight
                     gain == (taken'[b][a] - taken[b][a]) * RemainingWeight * RemainingWeight'
                 IN  rest * beneficiaries[b].weight + gain >= worth * beneficiaries[b].weight
<1>1. WalletInvariant /\ [WalletNext]_walletVars => Kept
  <2> SUFFICES ASSUME WalletInvariant, [WalletNext]_walletVars, OnlyHeirs,
                      NEW b \in DOMAIN beneficiaries', NEW a \in Asset
               PROVE  WorthIsKept(Balance[a], Balance'[a], taken'[b][a] - taken[b][a],
                                  RemainingWeight, RemainingWeight', beneficiaries[b].weight)
    BY DEF WorthIsKept
  <2> QED BY WorthStep
<1> HIDE DEF Kept
<1>2. WalletInvariant /\ [WalletNext]_walletVars => [Kept]_walletVars
  BY <1>1
<1>3. WalletSpec => [][Kept]_walletVars
  BY <1>2, WalletInvariantHolds, PTL DEF WalletSpec
<1> QED BY <1>3 DEF HeirsKeepTheirWorth, Kept

-----------------------------------------------------------------------------
(* The wallet implements the accounts. *)

Weights(bs) == [b \in DOMAIN bs |-> bs[b].weight]

Budgets(us) ==
  [u \in DOMAIN us |-> [a \in Asset |-> Larger(us[u].perDay[a], us[u].remaining[a])]]

\* The operators of the accounts, in the wallet's terms.
LEMMA AccountsRead ==
  /\ Accounts!Amount = Value /\ Accounts!Taker = Taker
  /\ Accounts!AllWeights(Weights(beneficiaries)) = RemainingWeight
  /\ Accounts!LeavesDebts <=> \A a \in Asset : Balance'[a] = Balance[a] \/ Balance'[a] >= Owed[a]
  /\ \A a \in Asset : Accounts!Outgo[a] = Balance[a] - Balance'[a]
  /\ \A more, less : Accounts!Covers(more, less) <=> \A a \in Asset : less[a] <= more[a]
<1>1. Accounts!AllWeights(Weights(beneficiaries)) = RemainingWeight
  <2>1. DOMAIN Weights(beneficiaries) = DOMAIN beneficiaries
    BY DEF Weights
  <2>2. Accounts!AllWeights(Weights(beneficiaries))
          = Sum(Weights(beneficiaries), DOMAIN beneficiaries)
    BY <2>1 DEF Accounts!AllWeights, Sum,
      Accounts!FoldFunctionOnSet, FoldFunctionOnSet, Accounts!MapThenFoldSet, MapThenFoldSet
  <2> QED BY <2>2, RemainingWeights DEF WeightOf, Weights
<1>2. Accounts!Amount = Value /\ Accounts!Taker = Taker
  BY DEF Accounts!Amount, Value, Accounts!Taker, Taker
<1>3. \A a \in Asset : Accounts!Outgo[a] = Balance[a] - Balance'[a]
  BY DEF Accounts!Outgo
<1>4. \A more, less : Accounts!Covers(more, less) <=> \A a \in Asset : less[a] <= more[a]
  BY DEF Accounts!Covers
<1>5. Accounts!LeavesDebts <=> \A a \in Asset : Balance'[a] = Balance[a] \/ Balance'[a] >= Owed[a]
  BY DEF Accounts!LeavesDebts
<1> QED BY <1>1, <1>2, <1>3, <1>4, <1>5

LEMMA WithdrawalPays ==
  ASSUME MoneyTypeOK, NEW taker \in Taker, NEW out, Withdrawal(taker, out)
  PROVE  /\ Accounts!Paid(taker)
         /\ \A a \in Asset : Accounts!Outgo[a] = out[a]
<1>1. /\ Balance \in Value /\ Balance' \in Value
      /\ \A a \in Asset : /\ out[a] \in Nat /\ Balance[a] \in Nat /\ Balance'[a] \in Nat
                          /\ Balance'[a] = Balance[a] - out[a]
  BY ValueFacts DEF Withdrawal
<1>2. \A a \in Asset : Accounts!Outgo[a] = out[a] /\ Balance'[a] <= Balance[a]
  BY <1>1, AccountsRead
<1>3. Balance' \in Accounts!Amount /\ Accounts!Covers(Balance, Balance')
  BY <1>1, <1>2, AccountsRead
<1>4. taken' = [taken EXCEPT ![taker] = [a \in Asset |-> taken[taker][a] + Accounts!Outgo[a]]]
  BY <1>2 DEF Withdrawal, Plus
<1> QED BY <1>2, <1>3, <1>4 DEF Accounts!Paid

LEMMA OwedStays ==
  ASSUME streams' = streams, now' = now PROVE Owed' = Owed
BY OwedNowAndNext

LEMMA OperatorDisposes ==
  ASSUME WalletInvariant, NEW tx \in Transaction, SpendAsOperator(tx)
  PROVE  Accounts!Dispose
<1>1. MoneyTypeOK /\ "operators" \in Taker
  BY InvariantFacts DEF Taker
<1>2. PICK out : Withdrawal("operators", out)
  BY <1>1, OperatorWithdraws
<1>3. Accounts!Paid("operators")
  BY <1>1, <1>2, WithdrawalPays
<1>4. /\ tx.hi # None /\ streams' = streams /\ now' = now
      /\ users' = users /\ beneficiaries' = beneficiaries
  BY DEF SpendAsOperator, OperatorUse, access
<1>5. Reserved(tx, "operators")
  BY <1>1, OperatorWithdraws DEF Reserved
<1>6. Accounts!LeavesDebts
  BY <1>4, <1>5, ReservedLeavesDebts, AccountsRead
<1>7. Owed' = Owed
  BY <1>4, OwedStays
<1> QED BY <1>3, <1>4, <1>6, <1>7 DEF Accounts!Dispose

LEMMA ConsolidationStutters ==
  ASSUME WalletInvariant, NEW tx \in Transaction, SpendConsolidation(tx)
  PROVE  UNCHANGED Accounts!accounts
<1>1. Balance' = Balance /\ taken' = taken /\ UNCHANGED vars
  BY InvariantFacts, ConsolidationMovesNothing
<1>2. /\ users' = users /\ beneficiaries' = beneficiaries /\ streams' = streams /\ now' = now
  BY <1>1 DEF vars
<1>3. Owed' = Owed
  BY <1>2, OwedStays
<1> QED BY <1>1, <1>2, <1>3 DEF Accounts!accounts

LEMMA DepositIsReceived ==
  ASSUME WalletInvariant, Deposit
  PROVE  Accounts!Receive
<1>1. MoneyTypeOK
  BY InvariantFacts
<1>2. PICK coin \in Coin : Replace(EmptyBag, SetToBag({coin}))
  BY DEF Deposit
<1>3. /\ coin \in Value /\ Balance \in Value /\ Balance' \in Value
      /\ \A a \in Asset : Balance'[a] = Balance[a] + coin[a]
  BY <1>1, <1>2, DepositReceives
<1>4. \A a \in Asset : Balance[a] <= Balance'[a]
  <2> TAKE a \in Asset
  <2>1. coin[a] \in Nat /\ Balance[a] \in Nat /\ Balance'[a] = Balance[a] + coin[a]
    BY <1>3, ValueFacts
  <2> QED BY <2>1
<1>5. Balance' \in Accounts!Amount /\ Accounts!Covers(Balance', Balance)
  BY <1>3, <1>4, AccountsRead
<1>6. /\ users' = users /\ beneficiaries' = beneficiaries /\ streams' = streams /\ now' = now
      /\ taken' = taken
  BY DEF Deposit, vars
<1>7. Owed' = Owed
  BY <1>6, OwedStays
<1> QED BY <1>5, <1>6, <1>7 DEF Accounts!Receive

\* A drawing user's budget shrinks to what is left of it, and no other changes.
LEMMA BudgetFacts ==
  ASSUME WalletInvariant, NEW u \in DOMAIN users
  PROVE  /\ users[u] \in User
         /\ \A a \in Asset : users[u].perDay[a] \in Nat /\ users[u].remaining[a] \in Nat
<1>1. TypeOK /\ UsersAreValid(users)
  BY InvariantFacts
  DEF ConfigurationStaysValid, ValidConfiguration, CurrentConfiguration, AccessIsValid
<1>2. users[u] \in User
  BY <1>1 DEF TypeOK, IsTable
<1>3. DOMAIN users[u].perDay = Asset /\ DOMAIN users[u].remaining = Asset
  BY <1>2 DEF User
<1>4. \A a \in Asset : Bounded(users[u].perDay[a]) /\ Bounded(users[u].remaining[a])
  BY <1>1, <1>3 DEF UsersAreValid
<1>5. \A a \in Asset : users[u].perDay[a] \in Int /\ users[u].remaining[a] \in Int
  BY <1>2 DEF User
<1>6. \A n \in Int : Bounded(n) => n \in Nat
  BY DEF Bounded
<1> QED BY <1>2, <1>4, <1>5, <1>6

LEMMA UserDraws ==
  ASSUME WalletInvariant, NEW tx \in Transaction, UseAllowance(tx),
         NEW u \in DOMAIN users, users'[u] # users[u]
  PROVE  /\ users' = [users EXCEPT ![u] = users'[u]]
         /\ users'[u].perDay = users[u].perDay
         /\ \A a \in Asset :
              /\ users'[u].remaining[a] \in Nat
              /\ EffectiveAllowance(u, tx.lo)[a] \in Nat
              /\ users'[u].remaining[a] <= EffectiveAllowance(u, tx.lo)[a]
              /\ EffectiveAllowance(u, tx.lo)[a]
                   <= Larger(users[u].perDay[a], users[u].remaining[a])
<1>1. PICK v \in SignedUsers(tx) :
        \E left \in [Asset -> 0..MaxStateInteger] : DrawAllowance(tx, v, left)
  BY DEF UseAllowance
<1>2. PICK left \in [Asset -> 0..MaxStateInteger] : DrawAllowance(tx, v, left)
  BY <1>1
<1> DEFINE withdrawn == [users[v] EXCEPT !.remaining = left, !.reset = NextReset(v, tx.hi)]
<1>3. users' = [users EXCEPT ![v] = withdrawn]
  BY <1>2 DEF DrawAllowance
<1>4. v = u
  BY <1>1, <1>3 DEF SignedUsers
<1>5. users[u] \in User
  BY BudgetFacts
<1>6. users'[u].perDay = users[u].perDay /\ users'[u].remaining = left
  BY <1>3, <1>4, <1>5 DEF User
<1>7. \A a \in Asset : left[a] \in Nat /\ left[a] <= EffectiveAllowance(u, tx.lo)[a]
  BY <1>2, <1>4, MaxStateIntegerAssumption DEF DrawAllowance
<1>8. ASSUME NEW a \in Asset
      PROVE  /\ EffectiveAllowance(u, tx.lo)[a] \in Nat
             /\ EffectiveAllowance(u, tx.lo)[a]
                  <= Larger(users[u].perDay[a], users[u].remaining[a])
  BY BudgetFacts DEF EffectiveAllowance, Larger
<1>9. users' = [users EXCEPT ![u] = users'[u]]
  BY <1>3, <1>4
<1> QED BY <1>6, <1>7, <1>8, <1>9

LEMMA UserDrawsBudget ==
  ASSUME WalletInvariant, NEW tx \in Transaction, UseAllowance(tx),
         NEW u \in DOMAIN users, users'[u] # users[u]
  PROVE  /\ u \in DOMAIN Budgets(users)
         /\ DOMAIN Budgets(users') = DOMAIN Budgets(users)
         /\ Budgets(users') = [Budgets(users) EXCEPT ![u] = Budgets(users')[u]]
         /\ Budgets(users')[u] \in Value
         /\ \A a \in Asset : Budgets(users')[u][a] <= Budgets(users)[u][a]
<1>1. /\ users' = [users EXCEPT ![u] = users'[u]]
      /\ users'[u].perDay = users[u].perDay
  BY UserDraws
<1>2. DOMAIN users' = DOMAIN users /\ \A v \in DOMAIN users \ {u} : users'[v] = users[v]
  BY <1>1
<1>3. ASSUME NEW a \in Asset
      PROVE  /\ Budgets(users')[u][a] = Larger(users[u].perDay[a], users'[u].remaining[a])
             /\ Budgets(users)[u][a] = Larger(users[u].perDay[a], users[u].remaining[a])
  BY <1>1, <1>2 DEF Budgets
<1>4. ASSUME NEW a \in Asset
      PROVE  Budgets(users')[u][a] \in Nat /\ Budgets(users')[u][a] <= Budgets(users)[u][a]
  <2>1. /\ users[u].perDay[a] \in Nat /\ users[u].remaining[a] \in Nat
        /\ users'[u].remaining[a] \in Nat
        /\ users'[u].remaining[a] <= Larger(users[u].perDay[a], users[u].remaining[a])
    <3>1. /\ users'[u].remaining[a] \in Nat
          /\ EffectiveAllowance(u, tx.lo)[a] \in Nat
          /\ users'[u].remaining[a] <= EffectiveAllowance(u, tx.lo)[a]
          /\ EffectiveAllowance(u, tx.lo)[a]
               <= Larger(users[u].perDay[a], users[u].remaining[a])
      BY UserDraws
    <3>2. users[u].perDay[a] \in Nat /\ users[u].remaining[a] \in Nat
      BY BudgetFacts
    <3> QED BY <3>1, <3>2 DEF Larger
  <2> QED BY <1>3, <2>1 DEF Larger
<1>5. Budgets(users')[u] \in Value
  <2>1. Budgets(users')[u] = [a \in Asset |-> Budgets(users')[u][a]]
    BY <1>2 DEF Budgets
  <2> QED BY <1>4, <2>1 DEF Value
<1>6. Budgets(users') = [Budgets(users) EXCEPT ![u] = Budgets(users')[u]]
  <2>1. /\ DOMAIN Budgets(users') = DOMAIN users /\ DOMAIN Budgets(users) = DOMAIN users
        /\ \A v \in DOMAIN users \ {u} : Budgets(users')[v] = Budgets(users)[v]
    BY <1>2 DEF Budgets
  <2>2. Budgets(users') = [v \in DOMAIN users |-> Budgets(users')[v]]
    BY <1>2 DEF Budgets
  <2>3. Budgets(users) = [v \in DOMAIN users |-> Budgets(users)[v]]
    BY DEF Budgets
  <2> QED BY <2>1, <2>2, <2>3
<1> QED BY <1>2, <1>4, <1>5, <1>6 DEF Budgets

LEMMA UserDrawsMoney ==
  ASSUME WalletInvariant, NEW tx \in Transaction, SpendAllowance(tx)
  PROVE  \E u \in DOMAIN users : Accounts!Draw(u)
<1>1. MoneyTypeOK /\ TypeOK
  BY InvariantFacts
<1>2. PICK u \in DOMAIN users, spent \in Inputs : \E back \in Outputs(spent) :
        /\ users'[u] # users[u]
        /\ u \in Taker /\ u \in UserId
        /\ ExactWithdrawal(spent, back, SpentAllowance(tx, u))
        /\ ReserveIsPreserved(streams', Total(spent), Total(back), tx.hi)
        /\ Withdrawal(u, Outflow(spent, back))
        /\ IsLot(purse')
  BY <1>1, UserWithdraws
<1>3. PICK back \in Outputs(spent) :
        /\ users'[u] # users[u]
        /\ u \in Taker /\ u \in UserId
        /\ ExactWithdrawal(spent, back, SpentAllowance(tx, u))
        /\ ReserveIsPreserved(streams', Total(spent), Total(back), tx.hi)
        /\ Withdrawal(u, Outflow(spent, back))
        /\ IsLot(purse')
  BY <1>2
<1>4. /\ UseAllowance(tx) /\ tx.hi # None /\ streams' = streams /\ now' = now
      /\ beneficiaries' = beneficiaries
  BY DEF SpendAllowance, UseAllowance, FiniteRange
<1>5. Accounts!Paid(u) /\ \A a \in Asset : Accounts!Outgo[a] = Outflow(spent, back)[a]
  BY <1>1, <1>3, WithdrawalPays
<1>6. Accounts!LeavesDebts
  BY <1>3, <1>4, ReservedLeavesDebts, AccountsRead DEF Reserved
<1>7. ASSUME NEW a \in Asset
      PROVE  Accounts!Outgo[a] <= Budgets(users)[u][a]
  <2>1. Outflow(spent, back)[a] = EffectiveAllowance(u, tx.lo)[a] - users'[u].remaining[a]
    <3>1. Total(back)[a] = Total(spent)[a]
                             - (EffectiveAllowance(u, tx.lo)[a] - users'[u].remaining[a])
      BY <1>3 DEF ExactWithdrawal, SpentAllowance, Minus
    <3>2. Outflow(spent, back)[a] = Total(spent)[a] - Total(back)[a]
      BY DEF Outflow, Minus
    <3>3. Total(spent)[a] \in Nat
      BY <1>3, <1>4, ReserveLeft
    <3>4. EffectiveAllowance(u, tx.lo)[a] \in Nat /\ users'[u].remaining[a] \in Nat
      BY <1>3, <1>4, UserDraws
    <3> QED BY <3>1, <3>2, <3>3, <3>4
  <2>2. /\ users'[u].remaining[a] \in Nat
        /\ EffectiveAllowance(u, tx.lo)[a] \in Nat
        /\ EffectiveAllowance(u, tx.lo)[a] <= Larger(users[u].perDay[a], users[u].remaining[a])
    BY <1>3, <1>4, UserDraws
  <2>3. users[u].perDay[a] \in Nat /\ users[u].remaining[a] \in Nat
    BY BudgetFacts
  <2>4. Budgets(users)[u][a] = Larger(users[u].perDay[a], users[u].remaining[a])
    BY DEF Budgets
  <2>5. Accounts!Outgo[a] = Outflow(spent, back)[a]
    BY <1>5
  <2> QED BY <2>1, <2>2, <2>3, <2>4, <2>5 DEF Larger
<1>8. /\ DOMAIN Budgets(users') = DOMAIN Budgets(users)
      /\ Budgets(users') = [Budgets(users) EXCEPT ![u] = Budgets(users')[u]]
      /\ Budgets(users')[u] \in Accounts!Amount
      /\ Accounts!Covers(Budgets(users)[u], Budgets(users')[u])
      /\ Accounts!Covers(Budgets(users)[u], Accounts!Outgo)
  BY <1>3, <1>4, <1>7, UserDrawsBudget, AccountsRead
<1>9. Owed' = Owed /\ Weights(beneficiaries') = Weights(beneficiaries)
  BY <1>4, OwedStays
<1>10. Accounts!Draw(u)
  BY <1>5, <1>6, <1>8, <1>9 DEF Accounts!Draw, Budgets, Weights
<1> QED BY <1>10

\* The part of an heir, in the accounts' terms.
LEMMA HeirTakesPart ==
  ASSUME WalletInvariant, NEW tx \in Transaction, tx.hi # None, streams' = streams,
         NEW b \in DOMAIN beneficiaries,
         NEW spent \in Inputs, NEW back \in Outputs(spent),
         ReserveIsPreserved(streams', Total(spent), Total(back), tx.hi),
         \/ IsSole(b)
         \/ PaidOutWithinShare(b, Total(spent), Total(back), StreamingReserve(streams', tx.hi)),
         Withdrawal(b, Outflow(spent, back)),
         NEW a \in Asset, Outflow(spent, back)[a] > 0
  PROVE  Outflow(spent, back)[a] * RemainingWeight
           <= beneficiaries[b].weight * (Balance[a] - Owed[a])
<1>1. CASE ~ IsSole(b)
  BY <1>1, PartOfBalance
<1>2. CASE IsSole(b)
  <2> DEFINE out == Outflow(spent, back)[a]
  <2>1. /\ RemainingWeight = beneficiaries[b].weight /\ RemainingWeight \in Nat
    BY <1>2, InvariantFacts, WeightFacts, RemainingWeights DEF IsSole
  <2>2. /\ out \in Nat /\ Balance[a] \in Nat /\ Owed[a] \in Nat
        /\ Balance'[a] = Balance[a] - out
    BY InvariantFacts, ValueFacts DEF Withdrawal
  <2>3. Balance'[a] >= Owed[a] \/ Balance'[a] = Balance[a]
    BY ReserveLeft
  <2> HIDE DEF out
  <2>4. out > 0
    BY DEF out
  <2>5. out <= Balance[a] - Owed[a] /\ Balance[a] - Owed[a] \in Nat
    BY <2>2, <2>3, <2>4
  <2>6. beneficiaries[b].weight * out <= beneficiaries[b].weight * (Balance[a] - Owed[a])
    BY <2>1, <2>2, <2>5, ProductsCompare
  <2>7. out * RemainingWeight = beneficiaries[b].weight * out
    BY <2>1, <2>2, ProductCommutes
  <2> QED BY <2>6, <2>7 DEF out
<1> QED BY <1>1, <1>2

LEMMA HeirInherits ==
  ASSUME WalletInvariant, NEW tx \in Transaction, NEW b \in DOMAIN beneficiaries,
         SpendShare(tx, b)
  PROVE  Accounts!Inherit(b)
<1>1. MoneyTypeOK /\ TypeOK
  BY InvariantFacts
<1>2. b \in Taker
  BY <1>1, HeirWithdraws
<1>3. PICK spent \in Inputs : \E back \in Outputs(spent) :
        /\ ReserveIsPreserved(streams', Total(spent), Total(back), tx.hi)
        /\ \/ IsSole(b)
           \/ PaidOutWithinShare(b, Total(spent), Total(back), StreamingReserve(streams', tx.hi))
        /\ Withdrawal(b, Outflow(spent, back))
  BY <1>1, HeirWithdraws
<1>4. PICK back \in Outputs(spent) :
        /\ ReserveIsPreserved(streams', Total(spent), Total(back), tx.hi)
        /\ \/ IsSole(b)
           \/ PaidOutWithinShare(b, Total(spent), Total(back), StreamingReserve(streams', tx.hi))
        /\ Withdrawal(b, Outflow(spent, back))
  BY <1>3
<1>5. /\ UseBeneficiary(tx, b) /\ tx.hi # None
      /\ streams' = streams /\ now' = now /\ users' = users
  BY DEF SpendShare, UseBeneficiary
<1>6. Accounts!Paid(b) /\ \A a \in Asset : Accounts!Outgo[a] = Outflow(spent, back)[a]
  BY <1>1, <1>2, <1>4, WithdrawalPays
<1>7. Accounts!LeavesDebts
  BY <1>4, <1>5, ReservedLeavesDebts, AccountsRead DEF Reserved
<1>8. Weights(beneficiaries)[b] = beneficiaries[b].weight
  BY DEF Weights
<1>9. \A a \in Asset :
        Accounts!Outgo[a] > 0 =>
          Accounts!Outgo[a] * Accounts!AllWeights(Weights(beneficiaries))
            <= Weights(beneficiaries)[b] * (Balance[a] - Owed[a])
  BY <1>4, <1>5, <1>6, <1>8, HeirTakesPart, AccountsRead
<1>10. Weights(beneficiaries') =
         IF DOMAIN Weights(beneficiaries) = {b} THEN Weights(beneficiaries)
         ELSE [c \in DOMAIN Weights(beneficiaries) \ {b} |-> Weights(beneficiaries)[c]]
  <2>1. DOMAIN Weights(beneficiaries) = DOMAIN beneficiaries
    BY DEF Weights
  <2>2. CASE DOMAIN beneficiaries = {b}
    <3>1. beneficiaries' = beneficiaries
      BY <1>5, <2>2 DEF UseBeneficiary, IsSole
    <3> QED BY <2>1, <2>2, <3>1
  <2>3. CASE DOMAIN beneficiaries # {b}
    <3>1. beneficiaries' = [c \in DOMAIN beneficiaries \ {b} |-> beneficiaries[c]]
      BY <1>5, <2>3 DEF UseBeneficiary, IsSole, Without, Restrict
    <3>2. Weights(beneficiaries') = [c \in DOMAIN beneficiaries \ {b} |-> beneficiaries[c].weight]
      BY <3>1 DEF Weights
    <3> QED BY <2>1, <2>3, <3>2 DEF Weights
  <2> QED BY <2>2, <2>3
<1>11. Owed' = Owed /\ Budgets(users') = Budgets(users)
  BY <1>5, OwedStays
<1> QED BY <1>6, <1>7, <1>9, <1>10, <1>11 DEF Accounts!Inherit, Budgets, Weights

LEMMA NoStreamsNoDebts ==
  ASSUME WalletInvariant, DOMAIN streams = {}, NEW a \in Asset
  PROVE  Owed[a] = 0
<1>1. /\ Dated(streams, a) \subseteq DOMAIN streams
      /\ OwedOf(streams, now)[a] = Sum(Debt(streams, now), Dated(streams, a))
  BY InvariantFacts, DebtFacts
<1>2. Dated(streams, a) = {}
  BY <1>1
<1> QED BY <1>1, <1>2, SumOfNone, OwedNowAndNext

LEMMA HeirsDistribute ==
  ASSUME WalletInvariant, NEW tx \in Transaction, NEW b \in DOMAIN beneficiaries,
         SpendDistribution(tx, b)
  PROVE  Accounts!Distribute
<1>1. /\ MoneyTypeOK /\ TypeOK /\ ConfigurationStaysValid
  BY InvariantFacts
<1>2. PICK coin \in DOMAIN purse : Division(coin)
  BY <1>1, HeirsDivide
<1>3. /\ DOMAIN streams = {} /\ streams' = streams /\ now' = now
      /\ users' = users /\ beneficiaries' = beneficiaries
  BY DEF SpendDistribution, DistributeBeneficiaries, access
<1>4. \A a \in Asset : Accounts!Outgo[a] = coin[a] /\ Balance'[a] <= Balance[a]
  <2> TAKE a \in Asset
  <2>1. coin[a] \in Nat /\ Balance[a] \in Nat /\ Balance'[a] = Balance[a] - coin[a]
    BY <1>2, ValueFacts DEF Division
  <2>2. Accounts!Outgo[a] = Balance[a] - Balance'[a]
    BY AccountsRead
  <2> QED BY <2>1, <2>2
<1>5. Balance' \in Accounts!Amount /\ Accounts!Covers(Balance, Balance')
  BY <1>2, <1>4, AccountsRead DEF Division
<1>6. \A a \in Asset : Owed[a] = 0
  BY <1>3, NoStreamsNoDebts
<1>7. /\ DOMAIN Weights(beneficiaries) = DOMAIN beneficiaries
      /\ \A c \in DOMAIN beneficiaries : Weights(beneficiaries)[c] = beneficiaries[c].weight
      /\ Accounts!AllWeights(Weights(beneficiaries)) = RemainingWeight
  BY AccountsRead DEF Weights
<1> DEFINE part(c) == [a \in Asset |-> (Accounts!Outgo[a] * Weights(beneficiaries)[c])
                                         \div Accounts!AllWeights(Weights(beneficiaries))]
<1>8. \A c \in DOMAIN beneficiaries : part(c) = Share(c, coin)
  BY <1>4, <1>7 DEF Share
<1> HIDE DEF part
<1>9. \A c \in DOMAIN Weights(beneficiaries), a \in Asset :
        part(c)[a] * Accounts!AllWeights(Weights(beneficiaries))
          = Accounts!Outgo[a] * Weights(beneficiaries)[c]
  BY <1>2, <1>4, <1>7, <1>8 DEF Division
<1>10. taken' = [t \in Taker |-> IF t \in DOMAIN Weights(beneficiaries)
                                 THEN [a \in Asset |-> taken[t][a] + part(t)[a]] ELSE taken[t]]
  BY <1>2, <1>7, <1>8 DEF Division, Plus
<1>11. Owed' = Owed
  BY <1>3, OwedStays
<1>12. Accounts!Taker = Taker
  BY AccountsRead
<1> QED BY <1>3, <1>5, <1>6, <1>9, <1>10, <1>11, <1>12
        DEF Accounts!Distribute, Accounts!Part, part, Weights

LEMMA PayeesSettle ==
  ASSUME WalletInvariant, StreamInvariant', NEW tx \in Transaction, SpendSettlement(tx)
  PROVE  Accounts!Settle
<1>1. MoneyTypeOK /\ "payees" \in Taker
  BY InvariantFacts DEF Taker
<1>2. PICK spent \in Inputs : \E back \in Outputs(spent) :
        /\ ExactWithdrawal(spent, back, PayoutDelta)
        /\ Withdrawal("payees", Outflow(spent, back))
  BY <1>1, PayeesWithdraw
<1>3. PICK back \in Outputs(spent) :
        /\ ExactWithdrawal(spent, back, PayoutDelta)
        /\ Withdrawal("payees", Outflow(spent, back))
  BY <1>2
<1>4. PayStreamingPayment(tx) /\ users' = users /\ beneficiaries' = beneficiaries
  BY DEF SpendSettlement, PayStreamingPayment, access
<1>5. Accounts!Paid("payees") /\ \A a \in Asset : Accounts!Outgo[a] = Outflow(spent, back)[a]
  BY <1>1, <1>3, WithdrawalPays
<1>6. ASSUME NEW a \in Asset PROVE Owed'[a] = Owed[a] - Accounts!Outgo[a]
  <2>1. PayoutDelta[a] \in Nat /\ Owed'[a] = Owed[a] - PayoutDelta[a]
    BY <1>4, DebtsAreSettled, InvariantFacts
  <2>2. Total(spent)[a] \in Nat
    BY <1>1, InputsAreLots, TotalIsValue, ValueFacts DEF MoneyTypeOK
  <2>3. Outflow(spent, back)[a] = Total(spent)[a] - (Total(spent)[a] - PayoutDelta[a])
    BY <1>3 DEF ExactWithdrawal, Outflow, Minus
  <2>4. Outflow(spent, back)[a] = PayoutDelta[a]
    BY <2>1, <2>2, <2>3
  <2> QED BY <1>5, <2>1, <2>4
<1> QED BY <1>4, <1>5, <1>6 DEF Accounts!Settle

\* What the thread does without the wallet's money.
LEMMA ThreadArranges ==
  ASSUME WalletInvariant, WalletInvariant', Next, UNCHANGED <<purse, taken>>
  PROVE  Accounts!Relieve \/ Accounts!Arrange
<1>1. Balance' = Balance /\ taken' = taken
  BY DEF Balance
<1>2. StreamInvariant /\ StreamInvariant'
  BY DEF WalletInvariant
<1>3. /\ Owed \in Accounts!Amount
      /\ \A a \in Asset : Owed[a] \in Nat
  BY InvariantFacts, AccountsRead, ValueFacts
<1>4. /\ Owed' \in Accounts!Amount
      /\ \A a \in Asset : Owed'[a] \in Nat
  <2>1. IsOwing(streams', now')
    BY <1>2, StreamsAreOwing
  <2>2. Owed' \in Value
    BY <2>1, DebtFacts, OwedNowAndNext
  <2> QED BY <2>2, ValueFacts, AccountsRead
<1>5. ASSUME \A a \in Asset : Owed[a] <= Owed'[a] PROVE Accounts!Arrange
  BY <1>1, <1>4, <1>5, AccountsRead DEF Accounts!Arrange
<1>6. CASE Tick
  BY <1>2, <1>5, <1>6, DebtsGrowInTime
<1>7. ASSUME NEW tx \in Transaction, Accept(tx), ~PayStreamingPayment(tx)
      PROVE  Accounts!Arrange
  BY <1>2, <1>5, <1>7, DebtsGrowUnsettled
<1>8. ASSUME NEW tx \in Transaction, PayStreamingPayment(tx)
      PROVE  Accounts!Relieve
  <2>1. users' = users /\ beneficiaries' = beneficiaries
    BY <1>8 DEF PayStreamingPayment, access
  <2>2. ASSUME NEW a \in Asset PROVE Owed'[a] <= Owed[a]
    <3>1. PayoutDelta[a] \in Nat /\ Owed'[a] = Owed[a] - PayoutDelta[a]
      BY <1>2, <1>8, DebtsAreSettled
    <3> QED BY <1>3, <3>1
  <2> QED BY <1>1, <1>4, <2>1, <2>2, AccountsRead DEF Accounts!Relieve
<1> QED BY <1>6, <1>7, <1>8 DEF Next

LEMMA AccountsInit ==
  ASSUME WalletInit, WalletInvariant
  PROVE  Accounts!Init
<1>1. Balance \in Accounts!Amount /\ Owed \in Accounts!Amount /\ Accounts!Taker = Taker
  BY InvariantFacts, AccountsRead
<1>2. taken = [t \in Taker |-> [a \in Asset |-> 0]]
  BY DEF WalletInit, Zero
<1> QED BY <1>1, <1>2 DEF Accounts!Init

LEMMA AccountsStep ==
  ASSUME WalletInvariant, WalletInvariant', [WalletNext]_walletVars
  PROVE  [Accounts!Next]_(Accounts!accounts)
<1>1. CASE Next /\ UNCHANGED <<purse, taken>>
  BY <1>1, ThreadArranges DEF Accounts!Next
<1>2. CASE Deposit
  BY <1>2, DepositIsReceived DEF Accounts!Next
<1>3. CASE UNCHANGED walletVars
  <2>1. Balance' = Balance /\ taken' = taken
    BY <1>3 DEF walletVars, Balance
  <2>2. users' = users /\ beneficiaries' = beneficiaries /\ streams' = streams /\ now' = now
    BY <1>3 DEF walletVars, vars, access
  <2>3. Owed' = Owed
    BY <2>2, OwedStays
  <2> QED BY <2>1, <2>2, <2>3 DEF Accounts!accounts
<1>4. ASSUME NEW tx \in Transaction, Spend(tx)
      PROVE  Accounts!Next \/ UNCHANGED Accounts!accounts
  <2>1. CASE SpendAsOperator(tx)
    BY <2>1, OperatorDisposes DEF Accounts!Next
  <2>2. CASE SpendAllowance(tx)
    BY <2>2, UserDrawsMoney DEF Accounts!Next
  <2>3. ASSUME NEW b \in DOMAIN beneficiaries, SpendShare(tx, b)
        PROVE  Accounts!Next
    BY <2>3, HeirInherits DEF Accounts!Next
  <2>4. ASSUME NEW b \in DOMAIN beneficiaries, SpendDistribution(tx, b)
        PROVE  Accounts!Next
    BY <2>4, HeirsDistribute DEF Accounts!Next
  <2>5. CASE SpendSettlement(tx)
    <3>1. StreamInvariant'
      BY DEF WalletInvariant
    <3> QED BY <2>5, <3>1, PayeesSettle DEF Accounts!Next
  <2>6. CASE SpendConsolidation(tx)
    BY <2>6, ConsolidationStutters
  <2> QED BY <1>4, <2>1, <2>2, <2>3, <2>4, <2>5, <2>6 DEF Spend
<1> QED BY <1>1, <1>2, <1>3, <1>4 DEF WalletNext

\* Every transaction of the wallet is one the accounts allow, or moves nothing
\* of what they record: operators, users, beneficiaries and payees get what the
\* abstract specification grants them and nobody else gets anything.
THEOREM WalletImplementsAccounts == WalletSpec => ImplementsAccounts
<1>1. WalletInit /\ WalletInvariant => Accounts!Init
  BY AccountsInit
<1>2. WalletInvariant /\ WalletInvariant' /\ [WalletNext]_walletVars
        => [Accounts!Next]_(Accounts!accounts)
  BY AccountsStep
<1> QED BY <1>1, <1>2, WalletInvariantHolds, PTL DEF WalletSpec, Accounts!Spec, ImplementsAccounts

-----------------------------------------------------------------------------
(* The payout of a walk along the lists of streams. *)

\* What the walk returns is what the wallet lets out of a settlement.
THEOREM ValueChangeIsThePayout ==
  ASSUME NEW inputs \in StreamList, NEW outputs \in StreamList, ListIsValid(inputs),
         streams = Table(inputs), streams' = Table(outputs),
         NEW earliest, NEW cursor \in Cursors(inputs, outputs),
         WalkIsAccepted(inputs, outputs, cursor, earliest), NEW a \in Asset
  PROVE  ValueChange(inputs, outputs, cursor, a) = PayoutDelta[a]
<1> DEFINE change == [n \in DOMAIN inputs |-> ChangeAt(inputs, outputs, cursor, n)]
           counted == [s \in DOMAIN streams |-> CountedAsPaid(s)]
           idAt == [n \in DOMAIN inputs |-> inputs[n].id]
           positions == {n \in DOMAIN inputs : inputs[n].stream.asset = a}
<1>1. /\ IdsAreUnique(inputs)
      /\ \A n \in DOMAIN inputs : StreamIsShaped(inputs[n].stream)
      /\ IsWalk(inputs, outputs, cursor) /\ cursor[Len(inputs)] = Len(outputs)
  BY DEF ListIsValid, WalkIsAccepted
<1>2. /\ DOMAIN streams = Ids(inputs)
      /\ \A n \in DOMAIN inputs : inputs[n].id \in Ids(inputs) /\ streams[inputs[n].id] = inputs[n].stream
  BY <1>1, TableFacts
<1>3. /\ \A n \in DOMAIN inputs : Meets(inputs, outputs, cursor, n) =>
           cursor[n] \in DOMAIN outputs /\ outputs[cursor[n]].id = inputs[n].id
      /\ \A m \in DOMAIN outputs : \E n \in DOMAIN inputs :
           /\ cursor[n] = m /\ Meets(inputs, outputs, cursor, n)
           /\ \A k \in 0..(n - 1) : cursor[k] < m
      /\ IdsAreUnique(outputs)
  BY <1>1, EveryOutputIsMet
<1>4. /\ DOMAIN streams' = Ids(outputs)
      /\ \A m \in DOMAIN outputs : outputs[m].id \in Ids(outputs) /\ streams'[outputs[m].id] = outputs[m].stream
  BY <1>3, TableFacts
<1>5. ASSUME NEW n \in DOMAIN inputs
      PROVE  change[n] \in Int /\ change[n] = counted[idAt[n]]
  <2>1. LifetimeTotal(inputs[n].stream) \in Int /\ inputs[n].stream.paid \in Int
    <3>1. inputs[n].stream \in StreamingPayment /\ StreamIsShaped(inputs[n].stream)
      BY <1>1, ListFacts
    <3>2. IsSchedule(inputs[n].stream)
      BY <3>1 DEF StreamIsShaped, Bounded, IsSchedule, StreamingPayment
    <3> QED BY <3>2, AccrualFacts DEF IsSchedule
  <2>2. counted[idAt[n]] = (IF inputs[n].id \in Ids(outputs) THEN streams'[inputs[n].id].paid
                            ELSE LifetimeTotal(inputs[n].stream)) - inputs[n].stream.paid
    BY <1>2, <1>4 DEF CountedAsPaid
  <2>3. change[n] = ChangeAt(inputs, outputs, cursor, n)
    OBVIOUS
  <2> HIDE DEF change, counted, idAt
  <2>4. CASE Meets(inputs, outputs, cursor, n)
    <3>1. /\ cursor[n] \in DOMAIN outputs
          /\ inputs[n].id \in Ids(outputs)
          /\ streams'[inputs[n].id] = outputs[cursor[n]].stream
      BY <1>3, <1>4, <2>4
    <3>2. outputs[cursor[n]].stream.paid \in Int
      BY <3>1, ListFacts DEF StreamingPayment
    <3> QED BY <2>1, <2>2, <2>3, <2>4, <3>1, <3>2 DEF ChangeAt
  <2>5. CASE ~ Meets(inputs, outputs, cursor, n)
    <3>1. inputs[n].id \notin Ids(outputs)
      <4> SUFFICES ASSUME inputs[n].id \in Ids(outputs) PROVE FALSE
        OBVIOUS
      <4>1. PICK m \in DOMAIN outputs : outputs[m].id = inputs[n].id
        BY DEF Ids
      <4>2. PICK k \in DOMAIN inputs : cursor[k] = m /\ Meets(inputs, outputs, cursor, k)
        BY <1>3
      <4>3. k = n
        BY <1>1, <1>3, <4>1, <4>2 DEF IdsAreUnique
      <4> QED BY <2>5, <4>2, <4>3
    <3> QED BY <2>1, <2>2, <2>3, <2>5, <3>1 DEF ChangeAt
  <2> QED BY <2>4, <2>5
<1>6. \A m, n \in positions : idAt[m] = idAt[n] => m = n
  BY <1>1 DEF IdsAreUnique
<1>7. {idAt[n] : n \in positions} = {s \in DOMAIN streams : streams[s].asset = a}
  <2>1. ASSUME NEW s \in DOMAIN streams, streams[s].asset = a
        PROVE  \E n \in positions : s = idAt[n]
    <3>1. PICK n \in DOMAIN inputs : inputs[n].id = s
      BY <1>2 DEF Ids
    <3> QED BY <1>2, <2>1, <3>1
  <2>2. ASSUME NEW n \in positions
        PROVE  idAt[n] \in DOMAIN streams /\ streams[idAt[n]].asset = a
    BY <1>2
  <2> QED BY <2>1, <2>2
<1>8. IsFiniteSet(positions)
  BY ListFacts, FS_Subset
<1>9. ValueChange(inputs, outputs, cursor, a) = Sum(change, positions)
  BY DEF ValueChange, Sum
<1>10. PayoutDelta[a] = Sum(counted, {s \in DOMAIN streams : streams[s].asset = a})
  BY DEF PayoutDelta, SumOver, Sum
<1> HIDE DEF change, counted, idAt
<1>11. \A n \in positions : change[n] \in Int /\ change[n] = counted[idAt[n]]
  BY <1>5
<1> HIDE DEF positions
<1>12. Sum(change, positions) = Sum(counted, {idAt[n] : n \in positions})
  BY <1>6, <1>8, <1>11, SumIsRenamed
<1> QED BY <1>7, <1>9, <1>10, <1>12

-----------------------------------------------------------------------------
(* The reserve as a list: entries in order, an entry added, a stream's part. *)

EntryList == Seq([asset : Asset, quantity : Int])

LEMMA EntryFacts ==
  ASSUME NEW entries \in EntryList
  PROVE  /\ Len(entries) \in Nat /\ DOMAIN entries = 1..Len(entries)
         /\ \A k \in DOMAIN entries :
              /\ entries[k] \in [asset : Asset, quantity : Int]
              /\ entries[k].asset \in Asset /\ entries[k].quantity \in Int
         /\ IsFiniteSet(DOMAIN entries)
<1> DEFINE Entry == [asset : Asset, quantity : Int]
<1>1. entries \in Seq(Entry)
  BY DEF EntryList
<1>2. \A entry \in Entry : entry.asset \in Asset /\ entry.quantity \in Int
  OBVIOUS
<1> HIDE DEF Entry
<1>3. /\ Len(entries) \in Nat /\ DOMAIN entries = 1..Len(entries)
      /\ \A k \in DOMAIN entries : entries[k] \in Entry
  BY <1>1
<1>4. 1 \in Int /\ Len(entries) \in Int
  BY <1>3
<1>5. IsFiniteSet(1..Len(entries))
  BY <1>4, FS_Interval, Zenon
<1> QED BY <1>2, <1>3, <1>5 DEF Entry

LEMMA OrderFacts ==
  ASSUME NEW a \in Asset, NEW b \in Asset, NEW c \in Asset
  PROVE  /\ ~ Precedes(a, a)
         /\ a = b \/ Precedes(a, b) \/ Precedes(b, a)
         /\ Precedes(a, b) /\ Precedes(b, c) => Precedes(a, c)
BY AssetOrderAssumption

\* Ordered entries have at most one of each asset.
LEMMA OneEntryPerAsset ==
  ASSUME NEW entries \in EntryList, IsOrdered(entries), NEW a
  PROVE  /\ \A k \in DOMAIN entries : entries[k].asset = a => QuantityOf(entries, a) = entries[k].quantity
         /\ (\A k \in DOMAIN entries : entries[k].asset # a) => QuantityOf(entries, a) = 0
<1> DEFINE quantities == [k \in DOMAIN entries |-> entries[k].quantity]
           places == {k \in DOMAIN entries : entries[k].asset = a}
<1>1. QuantityOf(entries, a) = Sum(quantities, places)
  BY DEF QuantityOf, Sum
<1>2. ASSUME NEW k \in DOMAIN entries, entries[k].asset = a
      PROVE  QuantityOf(entries, a) = entries[k].quantity
  <2>1. \A l \in DOMAIN entries : entries[l].asset = a => l = k
    <3> TAKE l \in DOMAIN entries
    <3> HAVE entries[l].asset = a
    <3>1. a \in Asset /\ ~ Precedes(a, a)
      BY <1>2, EntryFacts, OrderFacts
    <3>2. ~ (l < k) /\ ~ (k < l)
      BY <1>2, <3>1 DEF IsOrdered
    <3>3. l \in Int /\ k \in Int
      BY EntryFacts
    <3> QED BY <3>2, <3>3
  <2>2. places = {k} /\ quantities[k] = entries[k].quantity /\ quantities[k] \in Int
    BY <1>2, <2>1, EntryFacts
  <2> HIDE DEF quantities, places
  <2>3. Sum(quantities, {k}) = quantities[k] + Sum(quantities, {k} \ {k})
    BY <2>2, SumTakes, FS_Singleton
  <2>4. {k} \ {k} = {}
    OBVIOUS
  <2> QED BY <1>1, <2>2, <2>3, <2>4, SumOfNone
<1>3. ASSUME \A k \in DOMAIN entries : entries[k].asset # a
      PROVE  QuantityOf(entries, a) = 0
  <2>1. places = {}
    BY <1>3
  <2> QED BY <1>1, <2>1, SumOfNone
<1> QED BY <1>2, <1>3

LEMMA QuantityIsInt ==
  ASSUME NEW entries \in EntryList, NEW a
  PROVE  QuantityOf(entries, a) \in Int
<1> DEFINE quantities == [k \in DOMAIN entries |-> entries[k].quantity]
           places == {k \in DOMAIN entries : entries[k].asset = a}
<1>1. IsFiniteSet(places)
  BY EntryFacts, FS_Subset
<1>2. \A k \in places : quantities[k] \in Int
  BY EntryFacts
<1>3. QuantityOf(entries, a) = Sum(quantities, places)
  BY DEF QuantityOf, Sum
<1> HIDE DEF quantities, places
<1> QED BY <1>1, <1>2, <1>3, SumIsInt

LEMMA PlaceFacts ==
  ASSUME NEW entries \in EntryList, NEW a \in Asset
  PROVE  /\ PlaceOf(entries, a) \in 1..(Len(entries) + 1)
         /\ \A k \in 1..(PlaceOf(entries, a) - 1) : Precedes(entries[k].asset, a)
         /\ PlaceOf(entries, a) \in DOMAIN entries => ~ Precedes(entries[PlaceOf(entries, a)].asset, a)
<1> DEFINE IsPlace(p) == /\ \A k \in 1..(p - 1) : Precedes(entries[k].asset, a)
                         /\ p \in DOMAIN entries => ~ Precedes(entries[p].asset, a)
           Stops == {p \in 1..(Len(entries) + 1) : p \in DOMAIN entries => ~ Precedes(entries[p].asset, a)}
<1>1. Len(entries) \in Nat /\ DOMAIN entries = 1..Len(entries)
  BY EntryFacts
<1>2. Len(entries) + 1 \in Stops /\ Stops \subseteq Nat
  BY <1>1
<1>3. PICK p \in Stops : \A q \in Stops : p <= q
  <2> HIDE DEF Stops
  <2> QED BY <1>2, LeastExists
<1>4. ASSUME NEW k \in 1..(p - 1) PROVE Precedes(entries[k].asset, a)
  <2>1. k \in 1..(Len(entries) + 1) /\ ~ (p <= k)
    BY <1>1, <1>3
  <2>2. k \notin Stops
    <3> HIDE DEF Stops
    <3> QED BY <1>3, <2>1
  <2> QED BY <2>1, <2>2
<1>5. p \in 1..(Len(entries) + 1) /\ IsPlace(p)
  BY <1>3, <1>4
<1>6. PlaceOf(entries, a) = CHOOSE q \in 1..(Len(entries) + 1) : IsPlace(q)
  BY DEF PlaceOf
<1>7. PlaceOf(entries, a) \in 1..(Len(entries) + 1) /\ IsPlace(PlaceOf(entries, a))
  <2> HIDE DEF IsPlace
  <2> QED BY <1>5, <1>6
<1> QED BY <1>7

\* An entry joins the one of its asset, or goes where the order wants it.
LEMMA AddingAnEntry ==
  ASSUME NEW entries \in EntryList, IsOrdered(entries),
         NEW entry \in [asset : Asset, quantity : Int], entry.quantity > 0,
         \A k \in DOMAIN entries : entries[k].quantity > 0
  PROVE  LET result == AddReserveEntry(entries, entry) IN
         /\ result \in EntryList /\ IsOrdered(result)
         /\ \A k \in DOMAIN result : result[k].quantity > 0
         /\ \A a \in Asset : QuantityOf(result, a)
              = QuantityOf(entries, a) + (IF a = entry.asset THEN entry.quantity ELSE 0)
<1> DEFINE p == PlaceOf(entries, entry.asset)
           result == AddReserveEntry(entries, entry)
           Kept(k) == IF k < p THEN entries[k] ELSE IF k = p THEN entry ELSE entries[k - 1]
<1>1. /\ Len(entries) \in Nat /\ DOMAIN entries = 1..Len(entries)
      /\ entry.asset \in Asset /\ entry.quantity \in Int
      /\ \A k \in DOMAIN entries : /\ entries[k] \in [asset : Asset, quantity : Int]
                                   /\ entries[k].asset \in Asset /\ entries[k].quantity \in Int
  BY EntryFacts
<1>2. /\ p \in 1..(Len(entries) + 1)
      /\ \A k \in 1..(p - 1) : Precedes(entries[k].asset, entry.asset)
      /\ p \in DOMAIN entries => ~ Precedes(entries[p].asset, entry.asset)
  BY <1>1, PlaceFacts
<1>3. result = IF p \in DOMAIN entries /\ entries[p].asset = entry.asset
               THEN [entries EXCEPT ![p].quantity = @ + entry.quantity]
               ELSE [k \in 1..(Len(entries) + 1) |-> Kept(k)]
  BY DEF AddReserveEntry
<1>4. \A j, k \in DOMAIN entries : j < k => Precedes(entries[j].asset, entries[k].asset)
  BY DEF IsOrdered
<1> HIDE DEF p, result
<1>5. CASE p \in DOMAIN entries /\ entries[p].asset = entry.asset
  <2>1. /\ result \in EntryList
        /\ DOMAIN result = DOMAIN entries
        /\ \A k \in DOMAIN entries : /\ result[k].asset = entries[k].asset
                                     /\ result[k].quantity = entries[k].quantity + (IF k = p THEN entry.quantity ELSE 0)
    <3>1. result = [entries EXCEPT ![p].quantity = @ + entry.quantity]
      BY <1>3, <1>5
    <3>2. /\ DOMAIN result = 1..Len(entries)
          /\ \A k \in 1..Len(entries) :
               result[k] = IF k = p THEN [entries[k] EXCEPT !.quantity = @ + entry.quantity] ELSE entries[k]
      BY <1>1, <3>1
    <3>3. \A k \in 1..Len(entries) :
            /\ result[k] \in [asset : Asset, quantity : Int]
            /\ result[k].asset = entries[k].asset
            /\ result[k].quantity = entries[k].quantity + (IF k = p THEN entry.quantity ELSE 0)
      BY <1>1, <3>2
    <3>4. result = [k \in 1..Len(entries) |-> result[k]]
      BY <1>1, <3>1, <3>2
    <3>5. result \in EntryList
      BY <1>1, <3>3, <3>4 DEF EntryList
    <3> QED BY <1>1, <3>2, <3>3, <3>5
  <2>2. IsOrdered(result)
    BY <1>4, <2>1 DEF IsOrdered
  <2>3. \A k \in DOMAIN result : result[k].quantity > 0
    BY <1>1, <2>1
  <2>4. ASSUME NEW a \in Asset
        PROVE  QuantityOf(result, a) = QuantityOf(entries, a) + (IF a = entry.asset THEN entry.quantity ELSE 0)
    <3>1. CASE \E k \in DOMAIN entries : entries[k].asset = a
      <4>1. PICK k \in DOMAIN entries : entries[k].asset = a
        BY <3>1
      <4>2. QuantityOf(entries, a) = entries[k].quantity
        BY <4>1, OneEntryPerAsset
      <4>3. QuantityOf(result, a) = result[k].quantity
        BY <2>1, <2>2, <4>1, OneEntryPerAsset
      <4>4. k = p <=> a = entry.asset
        <5>1. ~ Precedes(a, a) /\ k \in Int /\ p \in Int
          BY <1>1, <1>5, OrderFacts
        <5>2. a = entry.asset => ~ (k < p) /\ ~ (p < k)
          BY <1>4, <1>5, <4>1, <5>1
        <5> QED BY <1>5, <4>1, <5>1, <5>2
      <4> QED BY <1>1, <2>1, <4>2, <4>3, <4>4
    <3>2. CASE \A k \in DOMAIN entries : entries[k].asset # a
      <4>1. QuantityOf(entries, a) = 0 /\ QuantityOf(result, a) = 0
        BY <2>1, <2>2, <3>2, OneEntryPerAsset
      <4> QED BY <1>5, <3>2, <4>1
    <3> QED BY <3>1, <3>2
  <2> QED BY <2>1, <2>2, <2>3, <2>4 DEF result
<1>6. CASE ~ (p \in DOMAIN entries /\ entries[p].asset = entry.asset)
  <2>1. \A k \in DOMAIN entries : k >= p => Precedes(entry.asset, entries[k].asset)
    <3> TAKE k \in DOMAIN entries
    <3> HAVE k >= p
    <3>1. p \in DOMAIN entries
      BY <1>1, <1>2
    <3>2. Precedes(entry.asset, entries[p].asset)
      BY <1>1, <1>2, <1>6, <3>1, OrderFacts
    <3>3. k = p \/ Precedes(entries[p].asset, entries[k].asset)
      BY <1>1, <1>2, <1>4, <3>1
    <3> QED BY <1>1, <3>1, <3>2, <3>3, OrderFacts
  <2>2. result = [k \in 1..(Len(entries) + 1) |-> Kept(k)]
    BY <1>3, <1>6
  <2>3. \A k \in 1..(Len(entries) + 1) :
          /\ k < p => k \in DOMAIN entries
          /\ k > p => k - 1 \in DOMAIN entries /\ k - 1 >= p
    BY <1>1, <1>2
  <2>4. \A k \in 1..(Len(entries) + 1) : Kept(k) \in [asset : Asset, quantity : Int] /\ Kept(k).quantity > 0
    <3> TAKE k \in 1..(Len(entries) + 1)
    <3>1. CASE k < p
      BY <1>1, <2>3, <3>1
    <3>2. CASE k = p
      BY <1>2, <3>2
    <3>3. CASE k > p
      BY <1>1, <1>2, <2>3, <3>3
    <3>4. k \in Int /\ p \in Int
      BY <1>2
    <3> QED BY <3>1, <3>2, <3>3, <3>4
  <2>5. ASSUME NEW j \in 1..(Len(entries) + 1), NEW k \in 1..(Len(entries) + 1), j < k
        PROVE  Precedes(Kept(j).asset, Kept(k).asset)
    <3>0. j \in Int /\ k \in Int /\ p \in Int
      BY <1>2
    <3>1. CASE k < p
      <4>1. j < p
        BY <2>5, <3>0, <3>1
      <4> QED BY <1>4, <2>3, <2>5, <3>1, <4>1
    <3>2. CASE k = p
      <4>1. j < p /\ j \in 1..(p - 1)
        BY <2>5, <3>0, <3>2
      <4>2. Precedes(entries[j].asset, entry.asset)
        BY <1>2, <4>1
      <4>3. Kept(j) = entries[j] /\ Kept(k) = entry
        BY <3>0, <3>2, <4>1
      <4> QED BY <4>2, <4>3
    <3>3. CASE k > p /\ j = p
      <4>1. Kept(j) = entry /\ Kept(k) = entries[k - 1]
        BY <3>0, <3>3
      <4>2. Precedes(entry.asset, entries[k - 1].asset)
        BY <2>1, <2>3, <3>3
      <4> QED BY <4>1, <4>2
    <3>4. CASE k > p /\ j < p
      <4>1. Kept(j) = entries[j] /\ Kept(k) = entries[k - 1]
        BY <3>0, <3>4
      <4>2. j \in DOMAIN entries /\ k - 1 \in DOMAIN entries /\ j < k - 1
        BY <2>3, <3>0, <3>4
      <4> QED BY <1>4, <4>1, <4>2
    <3>5. CASE k > p /\ j > p
      <4>1. Kept(j) = entries[j - 1] /\ Kept(k) = entries[k - 1]
        BY <3>0, <3>5
      <4>2. j - 1 \in DOMAIN entries /\ k - 1 \in DOMAIN entries /\ j - 1 < k - 1
        BY <2>3, <2>5, <3>0, <3>5
      <4> QED BY <1>4, <4>1, <4>2
    <3> QED BY <3>0, <3>1, <3>2, <3>3, <3>4, <3>5
  <2> HIDE DEF Kept
  <2>6. result \in EntryList /\ DOMAIN result = 1..(Len(entries) + 1)
    <3>1. DOMAIN result = 1..(Len(entries) + 1) /\ \A k \in 1..(Len(entries) + 1) : result[k] = Kept(k)
      BY <2>2
    <3>2. \A k \in 1..(Len(entries) + 1) : result[k] \in [asset : Asset, quantity : Int]
      BY <2>4, <3>1
    <3>3. result = [k \in 1..(Len(entries) + 1) |-> result[k]]
      BY <2>2, <3>1
    <3>4. Len(entries) + 1 \in Nat
      BY <1>1
    <3>5. result \in EntryList
      BY <3>2, <3>3, <3>4 DEF EntryList
    <3> QED BY <3>1, <3>5
  <2>7. IsOrdered(result) /\ \A k \in DOMAIN result : result[k].quantity > 0
    BY <2>2, <2>4, <2>5, <2>6 DEF IsOrdered
  <2>8. ASSUME NEW a \in Asset
        PROVE  QuantityOf(result, a) = QuantityOf(entries, a) + (IF a = entry.asset THEN entry.quantity ELSE 0)
    <3>1. CASE a = entry.asset
      <4>1. result[p] = entry /\ p \in DOMAIN result
        BY <1>2, <2>2, <2>6 DEF Kept
      <4>2. QuantityOf(result, a) = entry.quantity
        BY <2>6, <2>7, <3>1, <4>1, OneEntryPerAsset
      <4>3. ASSUME NEW k \in DOMAIN entries PROVE entries[k].asset # a
        <5>1. k < p \/ k >= p
          BY <1>1, <1>2
        <5>2. k < p => k \in 1..(p - 1)
          BY <1>1, <1>2
        <5>3. Precedes(entries[k].asset, a) \/ Precedes(a, entries[k].asset)
          BY <1>2, <2>1, <3>1, <5>1, <5>2
        <5> QED BY <5>3, OrderFacts
      <4>4. QuantityOf(entries, a) = 0
        BY <4>3, OneEntryPerAsset
      <4> QED BY <1>1, <3>1, <4>2, <4>4
    <3>2. CASE a # entry.asset /\ \E k \in DOMAIN entries : entries[k].asset = a
      <4>1. PICK k \in DOMAIN entries : entries[k].asset = a
        BY <3>2
      <4> DEFINE l == IF k < p THEN k ELSE k + 1
      <4>2. l \in DOMAIN result /\ result[l] = entries[k]
        BY <1>1, <1>2, <2>2, <2>6 DEF Kept
      <4>3. QuantityOf(entries, a) = entries[k].quantity
        BY <4>1, OneEntryPerAsset
      <4>4. QuantityOf(result, a) = entries[k].quantity
        BY <2>6, <2>7, <4>1, <4>2, OneEntryPerAsset
      <4> QED BY <1>1, <3>2, <4>3, <4>4
    <3>3. CASE a # entry.asset /\ \A k \in DOMAIN entries : entries[k].asset # a
      <4>1. ASSUME NEW k \in DOMAIN result PROVE result[k].asset # a
        BY <1>2, <2>2, <2>3, <2>6, <3>3 DEF Kept
      <4>2. QuantityOf(entries, a) = 0 /\ QuantityOf(result, a) = 0
        BY <2>6, <2>7, <3>3, <4>1, OneEntryPerAsset
      <4> QED BY <3>3, <4>2
    <3> QED BY <3>1, <3>2, <3>3
  <2> QED BY <2>6, <2>7, <2>8 DEF result
<1> QED BY <1>5, <1>6

\* What a reserve and a value are: positive entries, in order.
OrderedEntries ==
  {entries \in EntryList : IsOrdered(entries) /\ \A k \in DOMAIN entries : entries[k].quantity > 0}

\* The part of one stream in the reserve of an asset.
ReservedOf(stream, latest, relevant, a) ==
  IF stream.asset = a /\ a \in relevant THEN ReservedFor(stream, latest) ELSE 0

LEMMA ReservedForIsNat ==
  ASSUME NEW stream \in StreamingPayment, StreamIsShaped(stream), NEW latest \in Int
  PROVE  ReservedFor(stream, latest) \in Nat /\ stream.asset \in Asset
<1>1. IsSchedule(stream) /\ stream.paid \in Int /\ stream.asset \in Asset
  BY DEF StreamIsShaped, Bounded, IsSchedule, StreamingPayment
<1>2. AccruedAt(stream, latest) \in Int /\ LifetimeTotal(stream) \in Int
  BY <1>1, AccrualFacts
<1> QED BY <1>1, <1>2 DEF ReservedFor, Larger

\* A stream adds its part.
LEMMA AddingAStream ==
  ASSUME NEW entries \in OrderedEntries, NEW stream \in StreamingPayment, StreamIsShaped(stream),
         NEW latest \in Int, NEW relevant
  PROVE  /\ WithReserveOf(entries, stream, latest, relevant) \in OrderedEntries
         /\ \A a \in Asset : QuantityOf(WithReserveOf(entries, stream, latest, relevant), a)
              = QuantityOf(entries, a) + ReservedOf(stream, latest, relevant, a)
<1> DEFINE owed == ReservedFor(stream, latest)
           entry == [asset |-> stream.asset, quantity |-> owed]
<1>1. owed \in Nat /\ stream.asset \in Asset
  BY ReservedForIsNat
<1>2. WithReserveOf(entries, stream, latest, relevant) = IF stream.asset \in relevant /\ owed > 0
                                                      THEN AddReserveEntry(entries, entry) ELSE entries
  BY DEF WithReserveOf
<1>3. /\ entries \in EntryList /\ IsOrdered(entries)
      /\ \A k \in DOMAIN entries : entries[k].quantity > 0
  BY DEF OrderedEntries
<1>4. CASE stream.asset \in relevant /\ owed > 0
  <2>1. entry \in [asset : Asset, quantity : Int] /\ entry.quantity > 0
        /\ entry.asset = stream.asset /\ entry.quantity = owed
    BY <1>1, <1>4
  <2> HIDE DEF entry
  <2>2. LET result == AddReserveEntry(entries, entry) IN
        /\ result \in EntryList /\ IsOrdered(result)
        /\ \A k \in DOMAIN result : result[k].quantity > 0
        /\ \A a \in Asset : QuantityOf(result, a)
             = QuantityOf(entries, a) + (IF a = entry.asset THEN entry.quantity ELSE 0)
    BY <1>3, <2>1, AddingAnEntry
  <2> QED BY <1>2, <1>4, <2>1, <2>2 DEF OrderedEntries, ReservedOf
<1>5. CASE ~ (stream.asset \in relevant /\ owed > 0)
  <2>1. ASSUME NEW a \in Asset PROVE QuantityOf(entries, a) = QuantityOf(entries, a) + ReservedOf(stream, latest, relevant, a)
    <3>1. ReservedOf(stream, latest, relevant, a) = 0
      BY <1>1, <1>5 DEF ReservedOf
    <3>2. QuantityOf(entries, a) \in Int
      BY <1>3, QuantityIsInt
    <3> QED BY <3>1, <3>2
  <2> QED BY <1>2, <1>5, <2>1
<1> QED BY <1>4, <1>5

\* The reserve is computed one stream after the other.
LEMMA ReserveOfFirstUnfolds ==
  ASSUME NEW list \in StreamList, \A n \in DOMAIN list : StreamIsShaped(list[n].stream),
         NEW latest \in Int, NEW relevant
  PROVE  /\ ReserveOfFirst(list, latest, relevant) \in [0..Len(list) -> OrderedEntries]
         /\ ReserveOfFirst(list, latest, relevant)[0] = <<>>
         /\ \A n \in 1..Len(list) : ReserveOfFirst(list, latest, relevant)[n]
              = WithReserveOf(ReserveOfFirst(list, latest, relevant)[n - 1], list[n].stream, latest, relevant)
<1> DEFINE N == Len(list)
           step == [ks \in (1..N) \X OrderedEntries |-> WithReserveOf(ks[2], list[ks[1]].stream, latest, relevant)]
           OneMore(g) == [n \in 0..N |-> IF n = 0 THEN <<>> ELSE WithReserveOf(g[n - 1], list[n].stream, latest, relevant)]
           r == ReserveOfFirst(list, latest, relevant)
<1>1. N \in Nat /\ \A n \in 1..N : n \in DOMAIN list /\ list[n].stream \in StreamingPayment
                                   /\ StreamIsShaped(list[n].stream)
  BY ListFacts
<1>2. <<>> \in OrderedEntries
  <2>1. <<>> \in EntryList /\ DOMAIN <<>> = {}
    BY DEF EntryList
  <2> QED BY <2>1 DEF OrderedEntries, IsOrdered
<1>3. \A k \in 1..N, s \in OrderedEntries : step[<<k, s>>] = WithReserveOf(s, list[k].stream, latest, relevant)
                                      /\ step[<<k, s>>] \in OrderedEntries
  BY <1>1, AddingAStream
<1> HIDE DEF step
<1>4. PICK g : IsRun(g, N, OrderedEntries, <<>>, step)
  <2>1. step \in [(1..N) \X OrderedEntries -> OrderedEntries]
    BY <1>1, AddingAStream DEF step
  <2> HIDE DEF N
  <2> QED BY <1>1, <1>2, <2>1, StepsAreTaken
<1>5. \A k \in 1..N : g[k] = WithReserveOf(g[k - 1], list[k].stream, latest, relevant)
  <2> TAKE k \in 1..N
  <2>1. k - 1 \in 0..N /\ k \in 1..N
    BY <1>1
  <2>2. g[k - 1] \in OrderedEntries
    BY <1>4, <2>1 DEF IsRun
  <2> QED BY <1>3, <1>4, <2>1, <2>2 DEF IsRun
<1>6. g = OneMore(g)
  <2>1. \A n \in 0..N : n # 0 => n \in 1..N
    BY <1>1
  <2> QED BY <1>4, <1>5, <2>1 DEF IsRun
<1>7. r = CHOOSE h : h = OneMore(h)
  BY DEF ReserveOfFirst
<1>8. r = OneMore(r)
  <2> HIDE DEF OneMore, r
  <2> QED BY <1>6, <1>7
<1>9. /\ r[0] = <<>>
      /\ \A n \in 1..N : r[n] = WithReserveOf(r[n - 1], list[n].stream, latest, relevant)
      /\ r = [n \in 0..N |-> r[n]]
  <2> HIDE DEF r
  <2>1. 0 \in 0..N /\ \A n \in 1..N : n \in 0..N /\ n # 0
    BY <1>1
  <2> QED BY <1>8, <2>1
<1> HIDE DEF r, OneMore
<1>10. \A n \in 0..N : r[n] \in OrderedEntries
  <2> DEFINE M == {n \in Nat : n <= N => r[n] \in OrderedEntries}
  <2>1. 0 \in M
    BY <1>2, <1>9
  <2>2. ASSUME NEW n \in Nat, n \in M PROVE n + 1 \in M
    <3>1. SUFFICES ASSUME n + 1 <= N PROVE r[n + 1] \in OrderedEntries
      OBVIOUS
    <3>2. n + 1 \in 1..N /\ (n + 1) - 1 = n /\ r[n] \in OrderedEntries
      BY <1>1, <2>2, <3>1
    <3>3. r[n + 1] = WithReserveOf(r[n], list[n + 1].stream, latest, relevant)
      BY <1>9, <3>2
    <3> QED BY <1>1, <3>2, <3>3, AddingAStream
  <2>3. Nat \subseteq M
    <3> HIDE DEF M
    <3> QED BY <2>1, <2>2, NumbersAreReached
  <2> QED BY <1>1, <2>3
<1> QED BY <1>9, <1>10 DEF r

\* The reserve the contract computes from the list is, of the assets it is
\* asked for, the one the wallet has of the table (calculate_streaming_reserve
\* and calculate_streaming_reserve_for_assets).
THEOREM ReserveOfTheList ==
  ASSUME NEW list \in StreamList, ListIsValid(list), NEW latest \in Int, NEW relevant
  PROVE  /\ CalculateStreamingReserveForAssets(list, latest, relevant) \in OrderedEntries
         /\ \A a \in Asset : QuantityOf(CalculateStreamingReserveForAssets(list, latest, relevant), a)
              = IF a \in relevant THEN StreamingReserve(Table(list), latest)[a] ELSE 0
<1> DEFINE N == Len(list)
           r == ReserveOfFirst(list, latest, relevant)
<1>1. /\ IdsAreUnique(list)
      /\ \A n \in DOMAIN list : StreamIsShaped(list[n].stream)
  BY DEF ListIsValid
<1>2. /\ N \in Nat /\ DOMAIN list = 1..N /\ IsFiniteSet(DOMAIN list)
      /\ \A n \in DOMAIN list : list[n].stream \in StreamingPayment
  BY ListFacts
<1>3. /\ r \in [0..N -> OrderedEntries]
      /\ r[0] = <<>>
      /\ \A n \in 1..N : r[n] = WithReserveOf(r[n - 1], list[n].stream, latest, relevant)
  BY <1>1, ReserveOfFirstUnfolds
<1>4. CalculateStreamingReserveForAssets(list, latest, relevant) = r[N] /\ r[N] \in OrderedEntries
  BY <1>2, <1>3 DEF CalculateStreamingReserveForAssets
<1> HIDE DEF r
<1>5. /\ DOMAIN Table(list) = Ids(list)
      /\ \A n \in DOMAIN list : list[n].id \in Ids(list) /\ Table(list)[list[n].id] = list[n].stream
  BY <1>1, TableFacts
<1>6. ASSUME NEW a \in Asset
      PROVE  QuantityOf(r[N], a) = IF a \in relevant THEN StreamingReserve(Table(list), latest)[a] ELSE 0
  <2> DEFINE parts == [n \in DOMAIN list |-> ReservedOf(list[n].stream, latest, relevant, a)]
             reserved == [s \in DOMAIN Table(list) |-> ReservedFor(Table(list)[s], latest)]
             idAt == [n \in DOMAIN list |-> list[n].id]
             positions == {n \in DOMAIN list : list[n].stream.asset = a}
  <2>1. \A n \in DOMAIN list : parts[n] \in Int /\ parts[n] = ReservedOf(list[n].stream, latest, relevant, a)
    BY <1>1, <1>2, ReservedForIsNat DEF ReservedOf
  <2>2. a \in relevant => \A n \in positions : parts[n] = reserved[idAt[n]]
    BY <1>5 DEF ReservedOf
  <2>3. /\ \A n \in DOMAIN list \ positions : parts[n] = 0
        /\ a \notin relevant => \A n \in DOMAIN list : parts[n] = 0
    BY DEF ReservedOf
  <2>4. {idAt[n] : n \in positions} = {s \in DOMAIN Table(list) : Table(list)[s].asset = a}
    <3>1. ASSUME NEW s \in DOMAIN Table(list), Table(list)[s].asset = a
          PROVE  \E n \in positions : s = idAt[n]
      <4>1. PICK n \in DOMAIN list : list[n].id = s
        BY <1>5 DEF Ids
      <4> QED BY <1>5, <3>1, <4>1
    <3>2. ASSUME NEW n \in positions
          PROVE  idAt[n] \in DOMAIN Table(list) /\ Table(list)[idAt[n]].asset = a
      BY <1>5
    <3> QED BY <3>1, <3>2
  <2>5. \A m, n \in positions : idAt[m] = idAt[n] => m = n
    BY <1>1 DEF IdsAreUnique
  <2>6. StreamingReserve(Table(list), latest)[a]
          = Sum(reserved, {s \in DOMAIN Table(list) : Table(list)[s].asset = a})
    BY DEF StreamingReserve, SumOver, Sum
  <2>7. positions \in SUBSET DOMAIN list /\ IsFiniteSet(positions)
    BY <1>2, FS_Subset
  <2> HIDE DEF parts, reserved, idAt, positions
  <2>8. \A n \in positions : parts[n] \in Int
    BY <2>1, <2>7
  <2>9. Sum(parts, DOMAIN list) = Sum(parts, positions)
    BY <1>2, <2>1, <2>3, <2>7, SumIgnoresZeros
  <2>10. a \in relevant => Sum(parts, positions) = Sum(reserved, {idAt[n] : n \in positions})
    <3> HAVE a \in relevant
    <3>1. \A n \in positions : parts[n] \in Int /\ parts[n] = reserved[idAt[n]]
      BY <2>2, <2>8
    <3> QED BY <2>5, <2>7, <3>1, SumIsRenamed
  <2>11. ASSUME NEW n \in 0..N PROVE QuantityOf(r[n], a) = Sum(parts, 1..n)
    <3> DEFINE M == {m \in Nat : m <= N => QuantityOf(r[m], a) = Sum(parts, 1..m)}
    <3>1. 0 \in M
      <4>1. QuantityOf(<<>>, a) = 0
        <5>1. <<>> \in EntryList /\ DOMAIN <<>> = {} /\ IsOrdered(<<>>)
          BY DEF EntryList, IsOrdered
        <5> QED BY <5>1, OneEntryPerAsset
      <4>2. 1..0 = {}
        OBVIOUS
      <4> QED BY <1>3, <4>1, <4>2, SumOfNone
    <3>2. ASSUME NEW m \in Nat, m \in M PROVE m + 1 \in M
      <4>1. SUFFICES ASSUME m + 1 <= N PROVE QuantityOf(r[m + 1], a) = Sum(parts, 1..(m + 1))
        OBVIOUS
      <4>2. /\ m + 1 \in 1..N /\ m \in 0..N /\ (m + 1) - 1 = m
            /\ QuantityOf(r[m], a) = Sum(parts, 1..m)
        BY <1>2, <3>2, <4>1
      <4>3. r[m + 1] = WithReserveOf(r[m], list[m + 1].stream, latest, relevant) /\ r[m] \in OrderedEntries
        BY <1>3, <4>2
      <4>4. QuantityOf(r[m + 1], a) = QuantityOf(r[m], a) + parts[m + 1]
        BY <1>1, <1>2, <2>1, <4>2, <4>3, AddingAStream
      <4>5. /\ 1..(m + 1) = (1..m) \cup {m + 1} /\ m + 1 \notin 1..m
            /\ (1..m) \cup {m + 1} \subseteq DOMAIN list
        BY <1>2, <4>1
      <4>6. IsFiniteSet(1..m) /\ \A k \in (1..m) \cup {m + 1} : parts[k] \in Int
        <5>1. 1..m \in SUBSET DOMAIN list
          BY <4>5
        <5>2. IsFiniteSet(1..m)
          BY <1>2, <5>1, FS_Subset
        <5>3. \A k \in (1..m) \cup {m + 1} : parts[k] \in Int
          <6>1. \A k \in (1..m) \cup {m + 1} : k \in DOMAIN list
            BY <4>5
          <6>2. \A k \in DOMAIN list : parts[k] \in Int
            BY <2>1
          <6> QED BY <6>1, <6>2
        <5> QED BY <5>2, <5>3
      <4>7. Sum(parts, (1..m) \cup {m + 1}) = parts[m + 1] + Sum(parts, 1..m)
        BY <4>5, <4>6, SumAdds
      <4>8. parts[m + 1] \in Int /\ Sum(parts, 1..m) \in Int
        BY <4>6, SumIsInt
      <4>9. Sum(parts, 1..(m + 1)) = parts[m + 1] + Sum(parts, 1..m)
        <5>1. 1..(m + 1) = (1..m) \cup {m + 1}
          BY <4>5
        <5> QED BY <4>7, <5>1, Zenon
      <4> QED BY <4>2, <4>4, <4>8, <4>9
    <3>3. Nat \subseteq M
      <4> HIDE DEF M
      <4> QED BY <3>1, <3>2, NumbersAreReached
    <3>4. n \in Nat /\ n <= N
      BY <1>2
    <3> QED BY <3>3, <3>4
  <2>12. N \in 0..N
    BY <1>2
  <2>13. QuantityOf(r[N], a) = Sum(parts, DOMAIN list)
    BY <1>2, <2>11, <2>12
  <2>14. a \notin relevant => Sum(parts, DOMAIN list) = 0
    BY <1>2, <2>3, SumOfZeros
  <2> QED BY <2>4, <2>6, <2>9, <2>10, <2>13, <2>14
<1> QED BY <1>4, <1>6

-----------------------------------------------------------------------------
(* The pass along the reserve and two values. *)

LEMMA OrderedEntryFacts ==
  ASSUME NEW entries \in OrderedEntries
  PROVE  /\ entries \in EntryList /\ IsOrdered(entries)
         /\ Len(entries) \in Nat /\ DOMAIN entries = 1..Len(entries)
         /\ \A k \in DOMAIN entries :
              /\ entries[k].asset \in Asset
              /\ entries[k].quantity \in Int /\ entries[k].quantity > 0
              /\ QuantityOf(entries, entries[k].asset) = entries[k].quantity
         /\ \A a \in Asset :
              /\ QuantityOf(entries, a) \in Nat
              /\ (\A k \in DOMAIN entries : entries[k].asset # a) => QuantityOf(entries, a) = 0
<1>1. /\ entries \in EntryList /\ IsOrdered(entries)
      /\ \A k \in DOMAIN entries : entries[k].quantity > 0
  BY DEF OrderedEntries
<1>2. /\ Len(entries) \in Nat /\ DOMAIN entries = 1..Len(entries)
      /\ \A k \in DOMAIN entries : entries[k].asset \in Asset /\ entries[k].quantity \in Int
  BY <1>1, EntryFacts
<1>3. \A k \in DOMAIN entries : QuantityOf(entries, entries[k].asset) = entries[k].quantity
  BY <1>1, OneEntryPerAsset
<1>4. \A a \in Asset : (\A k \in DOMAIN entries : entries[k].asset # a) => QuantityOf(entries, a) = 0
  BY <1>1, OneEntryPerAsset
<1>5. ASSUME NEW a \in Asset PROVE QuantityOf(entries, a) \in Nat
  <2>1. CASE \E k \in DOMAIN entries : entries[k].asset = a
    <3>1. PICK k \in DOMAIN entries : entries[k].asset = a
      BY <2>1
    <3> QED BY <1>1, <1>2, <1>3, <3>1
  <2>2. CASE \A k \in DOMAIN entries : entries[k].asset # a
    BY <1>4, <2>2
  <2> QED BY <2>1, <2>2
<1> QED BY <1>1, <1>2, <1>3, <1>4, <1>5

\* The walk stops at the first row that does not come before the asset.
LEMMA SkipFacts ==
  ASSUME NEW holding \in OrderedEntries, NEW passed \in 0..Len(holding), NEW a \in Asset
  PROVE  /\ SkipTo(holding, passed, a) \in passed..Len(holding)
         /\ \A l \in (passed + 1)..SkipTo(holding, passed, a) : Precedes(holding[l].asset, a)
         /\ \/ SkipTo(holding, passed, a) = Len(holding)
            \/ ~ Precedes(holding[SkipTo(holding, passed, a) + 1].asset, a)
         /\ PassedWith(holding, passed, a) \in 0..Len(holding)
<1> DEFINE N == Len(holding)
           Stops(k) == k = N \/ ~ Precedes(holding[k + 1].asset, a)
           IsStop(k) == (\A l \in (passed + 1)..k : Precedes(holding[l].asset, a)) /\ Stops(k)
           S == {k \in passed..N : Stops(k)}
<1>1. N \in Nat /\ passed \in Nat /\ DOMAIN holding = 1..N
  BY OrderedEntryFacts
<1>2. N \in S /\ S \subseteq Nat
  BY <1>1
<1>3. PICK p \in S : \A q \in S : p <= q
  <2> HIDE DEF S
  <2> QED BY <1>2, LeastExists
<1>4. p \in passed..N /\ Stops(p)
  BY <1>3
<1>5. ASSUME NEW l \in (passed + 1)..p PROVE Precedes(holding[l].asset, a)
  <2>0. l \in Int /\ passed + 1 <= l /\ l <= p /\ p \in Int /\ p <= N
    <3>1. p \in passed..N /\ l \in (passed + 1)..p
      BY <1>4
    <3> HIDE DEF N, Stops, S
    <3>2. p \in Int
      BY <1>1, <3>1
    <3> QED BY <1>1, <3>1, <3>2
  <2>1. l - 1 \in passed..N /\ ~ (p <= l - 1) /\ l - 1 # N /\ (l - 1) + 1 = l
    <3> HIDE DEF N
    <3> QED BY <1>1, <2>0
  <2>2. l - 1 \notin S
    <3> HIDE DEF S
    <3> QED BY <1>3, <2>1
  <2> QED BY <2>1, <2>2
<1>6. p \in passed..N /\ IsStop(p)
  BY <1>4, <1>5
<1>7. SkipTo(holding, passed, a) = CHOOSE k \in passed..N : IsStop(k)
  BY DEF SkipTo
<1>8. SkipTo(holding, passed, a) \in passed..N /\ IsStop(SkipTo(holding, passed, a))
  <2> HIDE DEF IsStop, N
  <2> QED BY <1>6, <1>7
<1>9. PassedWith(holding, passed, a) \in 0..N
  <2> DEFINE k == SkipTo(holding, passed, a)
  <2>1. k \in 0..N /\ (k + 1 \in DOMAIN holding => k + 1 \in 0..N)
    <3>1. k \in passed..N
      BY <1>8
    <3> HIDE DEF k, N
    <3> QED BY <1>1, <3>1
  <2>2. PassedWith(holding, passed, a) = k + (IF k + 1 \in DOMAIN holding /\ holding[k + 1].asset = a THEN 1 ELSE 0)
    BY DEF PassedWith, IsNext
  <2> HIDE DEF k, N
  <2>3. k + 1 \in DOMAIN holding \/ k + (IF k + 1 \in DOMAIN holding /\ holding[k + 1].asset = a THEN 1 ELSE 0) = k
    BY <2>1
  <2> QED BY <2>1, <2>2, <2>3
<1> QED BY <1>8, <1>9

\* Whoever has passed only rows before an asset finds what is held of it.
LEMMA RowIsFound ==
  ASSUME NEW holding \in OrderedEntries, NEW passed \in 0..Len(holding), NEW a \in Asset,
         \A l \in 1..passed : Precedes(holding[l].asset, a)
  PROVE  /\ TakenQuantity(holding, passed, a) = QuantityOf(holding, a)
         /\ PassedWith(holding, passed, a) \in 0..Len(holding)
         /\ \A l \in 1..PassedWith(holding, passed, a) :
              holding[l].asset = a \/ Precedes(holding[l].asset, a)
<1> DEFINE k == SkipTo(holding, passed, a)
           N == Len(holding)
<1>1. /\ N \in Nat /\ DOMAIN holding = 1..N /\ IsOrdered(holding)
      /\ \A l \in DOMAIN holding : /\ holding[l].asset \in Asset
                                   /\ QuantityOf(holding, holding[l].asset) = holding[l].quantity
      /\ (\A l \in DOMAIN holding : holding[l].asset # a) => QuantityOf(holding, a) = 0
  BY OrderedEntryFacts
<1>2. /\ k \in passed..N
      /\ \A l \in (passed + 1)..k : Precedes(holding[l].asset, a)
      /\ k = N \/ ~ Precedes(holding[k + 1].asset, a)
      /\ PassedWith(holding, passed, a) \in 0..N
  BY SkipFacts
<1>3. IsNext(holding, passed, a) <=> k + 1 \in DOMAIN holding /\ holding[k + 1].asset = a
  BY DEF IsNext
<1>4. /\ PassedWith(holding, passed, a) = k + (IF IsNext(holding, passed, a) THEN 1 ELSE 0)
      /\ TakenQuantity(holding, passed, a) = IF IsNext(holding, passed, a) THEN holding[k + 1].quantity ELSE 0
  BY DEF PassedWith, TakenQuantity
<1> HIDE DEF k, N
<1>5. k \in Int /\ passed \in Int /\ N \in Int /\ 0 <= passed /\ passed <= k /\ k <= N
  <2>1. passed \in 0..N
    BY DEF N
  <2> QED BY <1>1, <1>2, <2>1
<1>6. ASSUME NEW l \in 1..k PROVE Precedes(holding[l].asset, a) /\ l \in DOMAIN holding
  <2>1. l \in 1..passed \/ l \in (passed + 1)..k
    BY <1>5
  <2> QED BY <1>1, <1>2, <1>5, <2>1
<1>7. CASE IsNext(holding, passed, a)
  <2>1. \A l \in 1..(k + 1) : l \in 1..k \/ l = k + 1
    BY <1>5
  <2>2. \A l \in 1..(k + 1) : holding[l].asset = a \/ Precedes(holding[l].asset, a)
    BY <1>3, <1>6, <1>7, <2>1
  <2> QED BY <1>1, <1>2, <1>3, <1>4, <1>7, <2>2 DEF N
<1>8. CASE ~ IsNext(holding, passed, a)
  <2>1. ASSUME NEW l \in DOMAIN holding PROVE holding[l].asset # a
    <3>1. CASE l \in 1..k
      BY <1>6, <3>1, OrderFacts
    <3>2. CASE l = k + 1
      BY <1>3, <1>8, <3>2
    <3>3. CASE l > k + 1
      <4>1. k + 1 \in DOMAIN holding /\ k # N
        BY <1>1, <1>5, <3>3
      <4>2. Precedes(a, holding[k + 1].asset)
        BY <1>1, <1>2, <1>3, <1>8, <4>1, OrderFacts
      <4>3. Precedes(holding[k + 1].asset, holding[l].asset)
        BY <1>1, <3>3, <4>1 DEF IsOrdered
      <4>4. Precedes(a, holding[l].asset)
        BY <1>1, <4>1, <4>2, <4>3, OrderFacts
      <4> QED BY <4>4, OrderFacts
    <3>4. l \in Int /\ 1 <= l
      BY <1>1
    <3> QED BY <1>5, <3>1, <3>2, <3>3, <3>4
  <2>2. QuantityOf(holding, a) = 0
    BY <1>1, <2>1
  <2> QED BY <1>2, <1>4, <1>5, <1>6, <1>8, <2>2 DEF N
<1> QED BY <1>7, <1>8

\* The scan goes on to the end, whatever it finds.
LEMMA ScanExists ==
  ASSUME NEW reserve \in OrderedEntries, NEW befores \in OrderedEntries, NEW afters \in OrderedEntries
  PROVE  \E passedBefore \in [0..Len(reserve) -> 0..Len(befores)],
            passedAfter \in [0..Len(reserve) -> 0..Len(afters)] :
           IsReserveScan(reserve, befores, afters, passedBefore, passedAfter)
<1> DEFINE N == Len(reserve)
           B == 0..Len(befores)
           A == 0..Len(afters)
           asset(n) == reserve[n].asset
           NextAfter(n, b, a) == IF TakenQuantity(befores, b, asset(n)) <= 0 THEN a
                                 ELSE PassedWith(afters, a, asset(n))
           step == [ns \in (1..N) \X (B \X A) |->
                      <<PassedWith(befores, ns[2][1], asset(ns[1])), NextAfter(ns[1], ns[2][1], ns[2][2])>>]
<1>1. /\ N \in Nat /\ DOMAIN reserve = 1..N
      /\ \A n \in 1..N : asset(n) \in Asset
      /\ Len(befores) \in Nat /\ Len(afters) \in Nat
  BY OrderedEntryFacts
<1>2. \A n \in 1..N, b \in B, a \in A :
        PassedWith(befores, b, asset(n)) \in B /\ NextAfter(n, b, a) \in A
  BY <1>1, SkipFacts
<1>3. <<0, 0>> \in B \X A
  BY <1>1
<1>4. step \in [(1..N) \X (B \X A) -> B \X A]
  <2> HIDE DEF N, B, A, NextAfter, asset
  <2> QED BY <1>2
<1>5. \A n \in 1..N, s \in B \X A :
        step[<<n, s>>] = <<PassedWith(befores, s[1], asset(n)), NextAfter(n, s[1], s[2])>>
  <2> HIDE DEF N, B, A, NextAfter, asset
  <2> QED OBVIOUS
<1> HIDE DEF step
<1>6. PICK g : IsRun(g, N, B \X A, <<0, 0>>, step)
  <2> DEFINE S == B \X A
             e == <<0, 0>>
  <2>1. N \in Nat /\ e \in S /\ step \in [(1..N) \X S -> S]
    BY <1>1, <1>3, <1>4
  <2> HIDE DEF N, S, e
  <2>2. \E g : IsRun(g, N, S, e, step)
    BY <2>1, StepsAreTaken
  <2> QED BY <2>2 DEF S, e
<1> DEFINE pb == [n \in 0..N |-> g[n][1]]
           pa == [n \in 0..N |-> g[n][2]]
<1>7. /\ g \in [0..N -> B \X A]
      /\ g[0] = <<0, 0>>
      /\ \A n \in 1..N : g[n] = step[<<n, g[n - 1]>>]
  BY <1>6 DEF IsRun
<1>8. /\ pb \in [0..N -> B] /\ pa \in [0..N -> A]
      /\ pb[0] = 0 /\ pa[0] = 0
      /\ \A n \in 0..N : g[n] \in B \X A /\ g[n][1] = pb[n] /\ g[n][2] = pa[n]
  <2> HIDE DEF B, A
  <2> QED BY <1>1, <1>7
<1> HIDE DEF pb, pa
<1>9. ASSUME NEW n \in 1..N
      PROVE  /\ pb[n] = PassedWith(befores, pb[n - 1], asset(n))
             /\ pa[n] = NextAfter(n, pb[n - 1], pa[n - 1])
  <2>1. n \in 0..N /\ n - 1 \in 0..N
    BY <1>1
  <2> HIDE DEF N, B, A, NextAfter, asset
  <2>2. g[n] = <<PassedWith(befores, g[n - 1][1], asset(n)), NextAfter(n, g[n - 1][1], g[n - 1][2])>>
    BY <1>5, <1>7, <1>8, <2>1
  <2>3. pb[n] = g[n][1] /\ pa[n] = g[n][2] /\ pb[n - 1] = g[n - 1][1] /\ pa[n - 1] = g[n - 1][2]
    BY <1>8, <2>1
  <2> QED BY <2>2, <2>3
<1>10. IsReserveScan(reserve, befores, afters, pb, pa)
  BY <1>1, <1>8, <1>9 DEF IsReserveScan
<1> QED BY <1>8, <1>10

\* Before each entry of the reserve the scan has passed only rows that come
\* before it, so that it finds what is held of its asset.
LEMMA ScanFinds ==
  ASSUME NEW reserve \in OrderedEntries, NEW befores \in OrderedEntries, NEW afters \in OrderedEntries,
         NEW passedBefore \in [0..Len(reserve) -> 0..Len(befores)],
         NEW passedAfter \in [0..Len(reserve) -> 0..Len(afters)],
         IsReserveScan(reserve, befores, afters, passedBefore, passedAfter),
         NEW n \in DOMAIN reserve
  PROVE  /\ TakenQuantity(befores, passedBefore[n - 1], reserve[n].asset) = QuantityOf(befores, reserve[n].asset)
         /\ TakenQuantity(afters, passedAfter[n - 1], reserve[n].asset) = QuantityOf(afters, reserve[n].asset)
<1> DEFINE N == Len(reserve)
           asset(m) == reserve[m].asset
           Behind(holding, passed, m) == \A l \in 1..passed : Precedes(holding[l].asset, asset(m))
           M == {m \in Nat : m + 1 \in 1..N => Behind(befores, passedBefore[m], m + 1)
                                               /\ Behind(afters, passedAfter[m], m + 1)}
<1>1. /\ N \in Nat /\ DOMAIN reserve = 1..N
      /\ \A m \in 1..N : asset(m) \in Asset
      /\ \A j, k \in 1..N : j < k => Precedes(asset(j), asset(k))
  BY OrderedEntryFacts DEF IsOrdered
<1>2. /\ passedBefore[0] = 0 /\ passedAfter[0] = 0
      /\ \A m \in 1..N :
           /\ passedBefore[m] = PassedWith(befores, passedBefore[m - 1], asset(m))
           /\ passedAfter[m] = IF TakenQuantity(befores, passedBefore[m - 1], asset(m)) <= 0
                               THEN passedAfter[m - 1]
                               ELSE PassedWith(afters, passedAfter[m - 1], asset(m))
  BY <1>1 DEF IsReserveScan
<1>3. \A m \in 0..N : passedBefore[m] \in 0..Len(befores) /\ passedAfter[m] \in 0..Len(afters)
  OBVIOUS
<1>4. /\ Len(befores) \in Nat /\ Len(afters) \in Nat
      /\ \A l \in 1..Len(befores) : befores[l].asset \in Asset
      /\ \A l \in 1..Len(afters) : afters[l].asset \in Asset
  BY OrderedEntryFacts
<1> HIDE DEF N, asset
<1>5. 0 \in M
  BY <1>2
<1>6. ASSUME NEW m \in Nat, m \in M PROVE m + 1 \in M
  <2>1. SUFFICES ASSUME m + 2 \in 1..N
                 PROVE  Behind(befores, passedBefore[m + 1], m + 2) /\ Behind(afters, passedAfter[m + 1], m + 2)
    OBVIOUS
  <2>2. m + 1 \in 1..N /\ m \in 0..N /\ m + 1 \in 0..N /\ (m + 1) - 1 = m
    BY <1>1, <2>1
  <2>3. /\ asset(m + 1) \in Asset /\ asset(m + 2) \in Asset
        /\ Precedes(asset(m + 1), asset(m + 2))
    BY <1>1, <2>1, <2>2
  <2>4. Behind(befores, passedBefore[m], m + 1) /\ Behind(afters, passedAfter[m], m + 1)
    BY <1>6, <2>2
  <2>5. \A l \in 1..PassedWith(befores, passedBefore[m], asset(m + 1)) :
          befores[l].asset = asset(m + 1) \/ Precedes(befores[l].asset, asset(m + 1))
    BY <1>3, <2>2, <2>3, <2>4, RowIsFound
  <2>6. \A l \in 1..PassedWith(afters, passedAfter[m], asset(m + 1)) :
          afters[l].asset = asset(m + 1) \/ Precedes(afters[l].asset, asset(m + 1))
    BY <1>3, <2>2, <2>3, <2>4, RowIsFound
  <2>7. /\ \A l \in 1..passedBefore[m + 1] :
             befores[l].asset = asset(m + 1) \/ Precedes(befores[l].asset, asset(m + 1))
        /\ \A l \in 1..passedAfter[m + 1] :
             afters[l].asset = asset(m + 1) \/ Precedes(afters[l].asset, asset(m + 1))
    <3>1. /\ passedBefore[m + 1] = PassedWith(befores, passedBefore[m], asset(m + 1))
          /\ \/ passedAfter[m + 1] = passedAfter[m]
             \/ passedAfter[m + 1] = PassedWith(afters, passedAfter[m], asset(m + 1))
      BY <1>2, <2>2
    <3> QED BY <2>4, <2>5, <2>6, <3>1
  <2>8. /\ \A l \in 1..passedBefore[m + 1] : befores[l].asset \in Asset
        /\ \A l \in 1..passedAfter[m + 1] : afters[l].asset \in Asset
    BY <1>3, <1>4, <2>2
  <2> QED BY <2>3, <2>7, <2>8, OrderFacts
<1>7. Nat \subseteq M
  <2> HIDE DEF M
  <2> QED BY <1>5, <1>6, NumbersAreReached
<1>8. n - 1 \in Nat /\ (n - 1) + 1 = n /\ n \in 1..N /\ n - 1 \in 0..N
  BY <1>1
<1>9. Behind(befores, passedBefore[n - 1], n) /\ Behind(afters, passedAfter[n - 1], n)
  BY <1>7, <1>8
<1>10. asset(n) = reserve[n].asset /\ asset(n) \in Asset
  BY <1>1, <1>8 DEF asset
<1> QED BY <1>3, <1>8, <1>9, <1>10, RowIsFound

\* One pass along the reserve and both values compares every asset.
LEMMA EveryAssetIsCompared ==
  ASSUME NEW reserve \in OrderedEntries, NEW befores \in OrderedEntries, NEW afters \in OrderedEntries
  PROVE  ReserveAssetsRemainFunded(reserve, befores, afters)
           <=> \A a \in Asset : Held(afters)[a] >= Smaller(Held(befores)[a], QuantityOf(reserve, a))
<1>1. \A a \in Asset : /\ Held(befores)[a] = QuantityOf(befores, a) /\ QuantityOf(befores, a) \in Nat
                       /\ Held(afters)[a] = QuantityOf(afters, a) /\ QuantityOf(afters, a) \in Nat
  BY OrderedEntryFacts DEF Held
<1>2. \A n \in DOMAIN reserve : /\ reserve[n].asset \in Asset
                                /\ reserve[n].quantity \in Int /\ reserve[n].quantity > 0
                                /\ QuantityOf(reserve, reserve[n].asset) = reserve[n].quantity
  BY OrderedEntryFacts
<1> DEFINE IsFunded == \A a \in Asset : Held(afters)[a] >= Smaller(Held(befores)[a], QuantityOf(reserve, a))
<1>3. ASSUME NEW passedBefore \in [0..Len(reserve) -> 0..Len(befores)],
             NEW passedAfter \in [0..Len(reserve) -> 0..Len(afters)],
             IsReserveScan(reserve, befores, afters, passedBefore, passedAfter)
      PROVE  ScanAccepts(reserve, befores, afters, passedBefore, passedAfter) <=> IsFunded
  <2>1. ScanAccepts(reserve, befores, afters, passedBefore, passedAfter)
          <=> \A n \in DOMAIN reserve : Held(befores)[reserve[n].asset] > 0
                => Held(afters)[reserve[n].asset] >= Smaller(Held(befores)[reserve[n].asset], reserve[n].quantity)
    <3>1. \A n \in DOMAIN reserve :
            /\ TakenQuantity(befores, passedBefore[n - 1], reserve[n].asset) = Held(befores)[reserve[n].asset]
            /\ TakenQuantity(afters, passedAfter[n - 1], reserve[n].asset) = Held(afters)[reserve[n].asset]
      <4> TAKE n \in DOMAIN reserve
      <4>1. /\ TakenQuantity(befores, passedBefore[n - 1], reserve[n].asset) = QuantityOf(befores, reserve[n].asset)
            /\ TakenQuantity(afters, passedAfter[n - 1], reserve[n].asset) = QuantityOf(afters, reserve[n].asset)
        BY <1>3, ScanFinds
      <4> QED BY <1>1, <1>2, <4>1
    <3> QED BY <3>1 DEF ScanAccepts
  <2>2. ASSUME ScanAccepts(reserve, befores, afters, passedBefore, passedAfter), NEW a \in Asset
        PROVE  Held(afters)[a] >= Smaller(Held(befores)[a], QuantityOf(reserve, a))
    <3>1. CASE \E n \in DOMAIN reserve : reserve[n].asset = a
      <4>1. PICK n \in DOMAIN reserve : reserve[n].asset = a
        BY <3>1
      <4>2. Held(befores)[a] > 0 => Held(afters)[a] >= Smaller(Held(befores)[a], QuantityOf(reserve, a))
        BY <1>2, <2>1, <2>2, <4>1
      <4>3. QuantityOf(reserve, a) \in Int /\ QuantityOf(reserve, a) > 0
        BY <1>2, <4>1
      <4> QED BY <1>1, <4>2, <4>3 DEF Smaller
    <3>2. CASE \A n \in DOMAIN reserve : reserve[n].asset # a
      <4>1. QuantityOf(reserve, a) = 0
        BY <3>2, OrderedEntryFacts
      <4> QED BY <1>1, <4>1 DEF Smaller
    <3> QED BY <3>1, <3>2
  <2>3. ASSUME IsFunded PROVE ScanAccepts(reserve, befores, afters, passedBefore, passedAfter)
    BY <1>2, <2>1, <2>3
  <2> QED BY <2>2, <2>3
<1>4. PICK passedBefore \in [0..Len(reserve) -> 0..Len(befores)],
           passedAfter \in [0..Len(reserve) -> 0..Len(afters)] :
             IsReserveScan(reserve, befores, afters, passedBefore, passedAfter)
  BY ScanExists
<1> HIDE DEF IsFunded
<1> QED BY <1>3, <1>4 DEF ReserveAssetsRemainFunded, IsFunded

\* Where every stream is settled nothing is reserved.
LEMMA NothingIsReserved ==
  ASSUME NEW list \in StreamList, IdsAreUnique(list), AllSettled(list), NEW latest, NEW a \in Asset
  PROVE  StreamingReserve(Table(list), latest)[a] = 0
<1> DEFINE reserved == [s \in DOMAIN Table(list) |-> ReservedFor(Table(list)[s], latest)]
           S == {s \in DOMAIN Table(list) : Table(list)[s].asset = a}
<1>1. /\ DOMAIN Table(list) = Ids(list)
      /\ \A n \in DOMAIN list : list[n].id \in Ids(list) /\ Table(list)[list[n].id] = list[n].stream
      /\ IsFiniteSet(DOMAIN list)
  BY TableFacts, ListFacts
<1>2. \A s \in DOMAIN Table(list) : reserved[s] = 0
  <2> TAKE s \in DOMAIN Table(list)
  <2>1. PICK n \in DOMAIN list : list[n].id = s
    BY <1>1 DEF Ids
  <2> QED BY <1>1, <2>1 DEF AllSettled, ReservedFor
<1>3. IsFiniteSet(S)
  <2>1. S \in SUBSET StreamId
    BY <1>1, ListFacts DEF Ids
  <2> HIDE DEF S
  <2> QED BY <2>1, IdAssumption, FS_Subset
<1>4. StreamingReserve(Table(list), latest)[a] = Sum(reserved, S)
  BY DEF StreamingReserve, SumOver, Sum
<1>5. \A s \in S : reserved[s] = 0
  BY <1>2
<1> HIDE DEF reserved, S
<1> QED BY <1>3, <1>4, <1>5, SumOfZeros

LEMMA ReservedIsInt ==
  ASSUME NEW list \in StreamList, ListIsValid(list), NEW latest \in Int, NEW a \in Asset
  PROVE  StreamingReserve(Table(list), latest)[a] \in Nat
<1> DEFINE reserve == CalculateStreamingReserveForAssets(list, latest, Asset)
<1>1. reserve \in OrderedEntries /\ QuantityOf(reserve, a) = StreamingReserve(Table(list), latest)[a]
  BY ReserveOfTheList
<1> HIDE DEF reserve
<1> QED BY <1>1, OrderedEntryFacts

\* A spend is held to what Wallet says of the reserve of a table, whether the
\* contract compares everything reserved in one pass along ordered entries or
\* only what leaves (expect_reserve_preserved).
THEOREM ReserveListsAgree ==
  ASSUME NEW list \in StreamList, ListIsValid(list), NEW latest \in Int,
         NEW befores \in OrderedEntries, NEW afters \in OrderedEntries
  PROVE  /\ FullReserveIsPreserved(list, befores, afters, latest)
              <=> ReserveIsPreserved(Table(list), Held(befores), Held(afters), latest)
         /\ LeavingReserveIsPreserved(list, Held(befores), Held(afters), latest)
              <=> ReserveIsPreserved(Table(list), Held(befores), Held(afters), latest)
<1> DEFINE before == Held(befores)
           after == Held(afters)
           reserved == StreamingReserve(Table(list), latest)
           IsFunded(a) == after[a] >= Smaller(before[a], reserved[a])
<1>1. IdsAreUnique(list)
  BY DEF ListIsValid
<1>2. \A a \in Asset : before[a] \in Nat /\ after[a] \in Nat
  BY OrderedEntryFacts DEF Held
<1>3. ReserveIsPreserved(Table(list), before, after, latest) <=> \A a \in Asset : IsFunded(a)
  BY DEF ReserveIsPreserved
<1>4. CASE AllSettled(list)
  <2>1. \A a \in Asset : reserved[a] = 0
    BY <1>1, <1>4, NothingIsReserved
  <2> HIDE DEF before, after, reserved
  <2>2. \A a \in Asset : IsFunded(a)
    BY <1>2, <2>1 DEF Smaller
  <2> QED BY <1>3, <1>4, <2>2 DEF FullReserveIsPreserved, LeavingReserveIsPreserved, before, after
<1>5. CASE ~ AllSettled(list)
  <2>1. FullReserveIsPreserved(list, befores, afters, latest) <=> \A a \in Asset : IsFunded(a)
    <3> DEFINE reserve == CalculateStreamingReserve(list, latest)
    <3>1. reserve \in OrderedEntries /\ \A a \in Asset : QuantityOf(reserve, a) = reserved[a]
      BY ReserveOfTheList DEF CalculateStreamingReserve
    <3>2. FullReserveIsPreserved(list, befores, afters, latest) <=> ReserveAssetsRemainFunded(reserve, befores, afters)
      BY <1>5 DEF FullReserveIsPreserved
    <3> HIDE DEF reserve, reserved
    <3> QED BY <3>1, <3>2, EveryAssetIsCompared
  <2>2. LeavingReserveIsPreserved(list, before, after, latest) <=> \A a \in Asset : IsFunded(a)
    <3> DEFINE leaving == Leaving(before, after)
               reserve == CalculateStreamingReserveForAssets(list, latest, leaving)
    <3>1. reserve \in OrderedEntries /\ \A a \in leaving : a \in Asset /\ QuantityOf(reserve, a) = reserved[a]
      BY ReserveOfTheList DEF Leaving
    <3>2. LeavingReserveIsPreserved(list, before, after, latest) <=> RemainsFunded(reserve, before, after)
      BY <1>5 DEF LeavingReserveIsPreserved, ReserveOfLeaving
    <3>3. leaving = {a \in Asset : before[a] - after[a] > 0} /\ leaving = Leaving(before, after)
      BY DEF Leaving
    <3> HIDE DEF before, after, reserve, reserved, leaving
    <3>4. \A a \in leaving : QuantityOf(reserve, a) \in Nat
      BY <3>1, OrderedEntryFacts
    <3>5. RemainsFunded(reserve, before, after)
            <=> \A a \in leaving : reserved[a] > 0 => IsFunded(a)
      BY <3>1, <3>3 DEF RemainsFunded
    <3>6. \A a \in leaving : reserved[a] \in Nat
      BY <3>1, <3>4
    <3>7. \A a \in leaving : ~ (reserved[a] > 0) => IsFunded(a)
      BY <1>2, <3>1, <3>6 DEF Smaller
    <3>8. ASSUME NEW a \in Asset, a \notin leaving PROVE IsFunded(a)
      <4>1. before[a] <= after[a] /\ before[a] \in Nat /\ after[a] \in Nat
        BY <1>2, <3>3, <3>8
      <4>2. reserved[a] \in Int
        BY <1>5, ReservedIsInt DEF reserved
      <4> QED BY <4>1, <4>2 DEF Smaller
    <3>9. \A a \in leaving : a \in Asset
      BY <3>1
    <3> HIDE DEF IsFunded
    <3> QED BY <3>2, <3>5, <3>7, <3>8, <3>9
  <2> QED BY <1>3, <2>1, <2>2
<1> QED BY <1>4, <1>5

\* A beneficiary's share is measured by the reserve of what leaves, or by none
\* where all is settled; that is no other share (paid_out_within_share).
THEOREM SharesAgree ==
  ASSUME NEW list \in StreamList, ListIsValid(list), NEW latest \in Int,
         NEW before \in Value, NEW after \in Value, NEW b
  PROVE  PaidOutWithinShare(b, before, after, Held(ReserveOfLeaving(list, before, after, latest)))
           <=> PaidOutWithinShare(b, before, after, StreamingReserve(Table(list), latest))
<1> DEFINE held == Held(ReserveOfLeaving(list, before, after, latest))
           reserved == StreamingReserve(Table(list), latest)
<1>1. ASSUME NEW a \in Asset, before[a] > after[a] PROVE held[a] = reserved[a]
  <2>1. held[a] = QuantityOf(ReserveOfLeaving(list, before, after, latest), a)
    BY DEF Held
  <2>2. CASE AllSettled(list)
    <3>1. reserved[a] = 0
      BY <2>2, NothingIsReserved DEF ListIsValid
    <3>2. QuantityOf(<<>>, a) = 0
      <4>1. <<>> \in EntryList /\ DOMAIN <<>> = {} /\ IsOrdered(<<>>)
        BY DEF EntryList, IsOrdered
      <4> QED BY <4>1, OneEntryPerAsset
    <3> QED BY <2>1, <2>2, <3>1, <3>2 DEF ReserveOfLeaving
  <2>3. CASE ~ AllSettled(list)
    <3>1. a \in Leaving(before, after)
      <4>1. before[a] \in Int /\ after[a] \in Int
        BY DEF Value
      <4> QED BY <1>1, <4>1 DEF Leaving
    <3>2. QuantityOf(CalculateStreamingReserveForAssets(list, latest, Leaving(before, after)), a) = reserved[a]
      BY <3>1, ReserveOfTheList
    <3> QED BY <2>1, <2>3, <3>2 DEF ReserveOfLeaving
  <2> QED BY <2>2, <2>3
<1> HIDE DEF held, reserved
<1>2. PaidOutWithinShare(b, before, after, held) <=> PaidOutWithinShare(b, before, after, reserved)
  BY <1>1 DEF PaidOutWithinShare
<1> QED BY <1>2 DEF held, reserved
=============================================================================
