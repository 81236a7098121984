------------------------- MODULE PayoutRoutingProofs --------------------------
(***************************************************************************)
(* Where the money of a settlement or distribution lands, for any number   *)
(* of threads, claims, assets and outputs.  What a claim or a wallet is to *)
(* get is compared with outputs of its own: those with its tag, and those  *)
(* at its address.                                                         *)
(***************************************************************************)
EXTENDS PayoutRouting, Sums

-----------------------------------------------------------------------------
(* The outputs that were placed. *)

OutputsAreAmounts ==
  /\ IsFiniteSet(DOMAIN outputs)
  /\ \A o \in DOMAIN outputs : outputs[o] \in Nat \ {0} /\ o.value \in Amounts

IsRouted == Placed = Brought /\ \A t \in Thread : SttAccepts(t) /\ WalletAccepts(t)

PayoutInvariant ==
  /\ plan \in Plans /\ funds \in Funds
  /\ OutputsAreAmounts
  /\ accepted => IsRouted

\* What an output adds to an asset.
Weight(a) == [o \in DOMAIN outputs |-> outputs[o] * o.value[a]]

LEMMA SumIsSumOf == ASSUME NEW f, NEW S PROVE SumOf(f, S) = Sum(f, S)
BY DEF SumOf, Sum

LEMMA CopiesWeighMore ==
  ASSUME NEW n \in Nat \ {0}, NEW v \in Nat PROVE n * v \in Nat /\ v <= n * v
<1>1. PICK m \in Nat : n = m + 1
  <2>1. n - 1 \in Nat /\ n = (n - 1) + 1
    OBVIOUS
  <2> QED BY <2>1
<1>2. (m + 1) * v = m * v + v /\ m * v \in Nat
  OBVIOUS
<1>3. n * v = m * v + v
  BY <1>1, <1>2
<1> QED BY <1>2, <1>3

LEMMA WeightFacts ==
  ASSUME OutputsAreAmounts, NEW a \in Asset
  PROVE  /\ \A o \in DOMAIN outputs : /\ o.value[a] \in Nat /\ Weight(a)[o] \in Nat
                                      /\ o.value[a] <= Weight(a)[o]
                                      /\ o.value[a] = 0 => Weight(a)[o] = 0
         /\ \A S \in SUBSET DOMAIN outputs :
              /\ ValueOf(S)[a] = Sum(Weight(a), S) /\ ValueOf(S)[a] \in Nat
              /\ IsFiniteSet(S)
<1>1. ASSUME NEW o \in DOMAIN outputs
      PROVE  /\ o.value[a] \in Nat /\ Weight(a)[o] \in Nat
             /\ o.value[a] <= Weight(a)[o]
             /\ o.value[a] = 0 => Weight(a)[o] = 0
  <2>1. outputs[o] \in Nat \ {0} /\ o.value[a] \in Nat
    BY DEF OutputsAreAmounts, Amounts
  <2>2. Weight(a)[o] = outputs[o] * o.value[a]
    BY DEF Weight
  <2>3. outputs[o] * 0 = 0
    BY <2>1
  <2> QED BY <2>1, <2>2, <2>3, CopiesWeighMore
<1>2. ASSUME NEW S \in SUBSET DOMAIN outputs
      PROVE  /\ ValueOf(S)[a] = Sum(Weight(a), S) /\ ValueOf(S)[a] \in Nat
             /\ IsFiniteSet(S)
  <2>1. IsFiniteSet(S)
    BY FS_Subset DEF OutputsAreAmounts
  <2>2. ValueOf(S)[a] = Sum(Weight(a), S)
    BY SumIsSumOf DEF ValueOf, Weight
  <2>3. \A o \in S : Weight(a)[o] \in Nat
    BY <1>1
  <2> QED BY <2>1, <2>2, <2>3, SumIsNat
<1> QED BY <1>1, <1>2

LEMMA PlanFacts ==
  ASSUME plan \in Plans
  PROVE  /\ IsFiniteSet(Thread)
         /\ \A t \in Thread : /\ IsPlan(plan[t])
                             /\ Author # WalletOf(t) /\ Author # ThreadOf(t)
BY PlansAssumption DEF Thread, WalletOf, ThreadOf

\* The values an author chooses from.
LEMMA ChosenAmounts == Value \subseteq Amounts
BY DEF Value, Amounts

LEMMA PayoutStarts == Init => PayoutInvariant
<1> SUFFICES ASSUME Init PROVE PayoutInvariant
  OBVIOUS
<1>1. DOMAIN outputs = {}
  BY DEF Init, EmptyBag, SetToBag
<1>2. OutputsAreAmounts
  BY <1>1, FS_EmptySet DEF OutputsAreAmounts
<1> QED BY <1>2 DEF Init, PayoutInvariant

LEMMA RoutingStays ==
  ASSUME UNCHANGED <<plan, funds, outputs>>, IsRouted
  PROVE  IsRouted'
<1>1. Thread' = Thread /\ \A t : /\ Claims(t)' = Claims(t) /\ Settles(t)' = Settles(t)
                               /\ WalletOf(t)' = WalletOf(t) /\ ThreadOf(t)' = ThreadOf(t)
  BY DEF Thread, Claims, Settles, WalletOf, ThreadOf
<1>2. \A S : ValueOf(S)' = ValueOf(S) /\ CountOf(S)' = CountOf(S)
  BY DEF ValueOf, CountOf
<1>3. Placed' = Placed /\ Brought' = Brought
  BY <1>1, <1>2 DEF Placed, Brought
<1>4. \A t : Due(t)' = Due(t)
  BY <1>1 DEF Due
<1>5. \A t : PayoutDelta(t)' = PayoutDelta(t)
  BY <1>4 DEF PayoutDelta
<1>6. \A t, o : Matching(t, o)' = Matching(t, o) /\ \A c : Pays(t, c, o)' <=> Pays(t, c, o)
  BY <1>1 DEF Matching, Pays
<1>7. \A t, o, a : AllowsAsset(t, o, a)' <=> AllowsAsset(t, o, a)
  BY <1>1, <1>6 DEF AllowsAsset
<1>8. \A t, o : IsLegal(t, o)' <=> IsLegal(t, o)
  BY <1>1, <1>5, <1>7 DEF IsLegal
<1>9. \A t : ExactWithdrawal(t)' <=> ExactWithdrawal(t)
  BY <1>1, <1>2, <1>4 DEF ExactWithdrawal, Continuing
<1>10. \A t, a : Tagged(t, a)' = Tagged(t, a)
  BY <1>1, <1>2, <1>6 DEF Tagged
<1>11. \A t : TaggedQuantitiesMatch(t)' <=> TaggedQuantitiesMatch(t)
  BY <1>4, <1>5, <1>10 DEF TaggedQuantitiesMatch
<1>12. \A t : SettlementIsRouted(t)' <=> SettlementIsRouted(t)
  BY <1>5, <1>8, <1>9, <1>11 DEF SettlementIsRouted
<1>13. \A t : AllSharesArePaid(t)' <=> AllSharesArePaid(t)
  BY <1>1, <1>2 DEF AllSharesArePaid
<1>14. \A t : DistributionIsRouted(t)' <=> DistributionIsRouted(t)
  BY <1>1, <1>13 DEF DistributionIsRouted, Continuing
<1>15. \A t : WalletAccepts(t)' <=> WalletAccepts(t)
  BY <1>1, <1>12, <1>14 DEF WalletAccepts
<1>16. \A t : SttAccepts(t)' <=> SttAccepts(t)
  BY <1>1, <1>6 DEF SttAccepts
<1> QED BY <1>1, <1>3, <1>15, <1>16 DEF IsRouted

LEMMA PayoutKeeps == PayoutInvariant /\ [Next]_payoutVars => PayoutInvariant'
<1> SUFFICES ASSUME PayoutInvariant, [Next]_payoutVars PROVE PayoutInvariant'
  OBVIOUS
<1>1. CASE Place
  <2>1. PICK to \in Address, tag \in Tag, v \in Value :
          outputs' = outputs (+) SetToBag({[to |-> to, tag |-> tag, value |-> v]})
    BY <1>1 DEF Place
  <2> DEFINE new == [to |-> to, tag |-> tag, value |-> v]
             one == SetToBag({new})
  <2>2. DOMAIN one = {new} /\ one[new] = 1
    BY DEF SetToBag
  <2>3. DOMAIN outputs' = DOMAIN outputs \cup {new}
    BY <2>1, <2>2 DEF (+)
  <2>4. \A o \in DOMAIN outputs' :
          outputs'[o] = (IF o \in DOMAIN outputs THEN outputs[o] ELSE 0)
                          + (IF o \in {new} THEN one[o] ELSE 0)
    BY <2>1, <2>2, <2>3 DEF (+)
  <2>5. new.value \in Amounts
    BY ChosenAmounts
  <2>6. IsFiniteSet(DOMAIN outputs')
    BY <2>3, FS_AddElement DEF PayoutInvariant, OutputsAreAmounts
  <2>7. ASSUME NEW o \in DOMAIN outputs' PROVE outputs'[o] \in Nat \ {0} /\ o.value \in Amounts
    <3>0. o \in DOMAIN outputs => outputs[o] \in Nat \ {0} /\ o.value \in Amounts
      BY DEF PayoutInvariant, OutputsAreAmounts
    <3> HIDE DEF new, one
    <3>1. CASE o = new
      BY <2>2, <2>4, <2>5, <3>0, <3>1
    <3>2. CASE o # new
      BY <2>3, <2>4, <3>0, <3>2
    <3> QED BY <3>1, <3>2
  <2>8. OutputsAreAmounts'
    BY <2>6, <2>7 DEF OutputsAreAmounts
  <2> QED BY <1>1, <2>8 DEF Place, PayoutInvariant
<1>2. CASE Submit
  <2>1. UNCHANGED <<plan, funds, outputs>> /\ IsRouted
    BY <1>2 DEF Submit, IsRouted
  <2>2. IsRouted' /\ OutputsAreAmounts'
    BY <2>1, RoutingStays DEF PayoutInvariant, OutputsAreAmounts
  <2> QED BY <2>1, <2>2 DEF PayoutInvariant
<1>3. CASE UNCHANGED payoutVars
  <2>1. UNCHANGED <<plan, funds, outputs, accepted>>
    BY <1>3 DEF payoutVars
  <2>2. OutputsAreAmounts'
    BY <2>1 DEF PayoutInvariant, OutputsAreAmounts
  <2>3. IsRouted => IsRouted'
    BY <2>1, RoutingStays
  <2> QED BY <2>1, <2>2, <2>3 DEF PayoutInvariant
<1> QED BY <1>1, <1>2, <1>3 DEF Next

LEMMA PayoutInvariantHolds == Spec => []PayoutInvariant
BY PayoutStarts, PayoutKeeps, PTL DEF Spec
-----------------------------------------------------------------------------
(* Every claim has an output of its own. *)

\* The outputs that pay some claims of a thread.
Paid(t, S) ==
  {o \in DOMAIN outputs : \E c \in S : o.tag = <<t, c>> /\ o.to = Claims(t)[c].to}

DueOf(t, a) == [c \in DOMAIN Claims(t) |-> Claims(t)[c].due[a]]

LEMMA ClaimFacts ==
  ASSUME PayoutInvariant, NEW t \in Thread
  PROVE  /\ IsFiniteSet(DOMAIN Claims(t))
         /\ \A c \in DOMAIN Claims(t) : Claims(t)[c].due \in Amounts
         /\ \A a \in Asset, c \in DOMAIN Claims(t) :
              DueOf(t, a)[c] = Claims(t)[c].due[a] /\ DueOf(t, a)[c] \in Nat
         /\ \A a \in Asset : /\ SumOfClaims(Claims(t), a) = Sum(DueOf(t, a), DOMAIN Claims(t))
                             /\ Due(t)[a] = Sum(DueOf(t, a), DOMAIN Claims(t))
                             /\ Due(t)[a] \in Nat
         /\ plan[t].coins \in Nat /\ plan[t].purse \in Amounts
         /\ plan[t].coins = 0 => plan[t].purse = Zero
         /\ IF Settles(t)
            THEN \A c \in DOMAIN Claims(t), a \in Asset : a # Claims(t)[c].asset => DueOf(t, a)[c] = 0
            ELSE \A a \in Asset : Due(t)[a] = plan[t].purse[a]
         /\ Author # WalletOf(t) /\ Author # ThreadOf(t)
<1>1. IsPlan(plan[t]) /\ Author # WalletOf(t) /\ Author # ThreadOf(t)
  BY PlanFacts DEF PayoutInvariant
<1>2. /\ IsFiniteSet(DOMAIN Claims(t))
      /\ \A c \in DOMAIN Claims(t) : Claims(t)[c].due \in Amounts
      /\ plan[t].coins \in Nat /\ plan[t].purse \in Amounts
      /\ plan[t].coins = 0 => plan[t].purse = Zero
      /\ IF Settles(t)
         THEN \A c \in DOMAIN Claims(t), a \in Asset : Claims(t)[c].due[a] > 0 => a = Claims(t)[c].asset
         ELSE \A a \in Asset : SumOfClaims(Claims(t), a) = plan[t].purse[a]
  BY <1>1 DEF IsPlan, Claims, Settles
<1>3. \A a \in Asset, c \in DOMAIN Claims(t) :
        DueOf(t, a)[c] = Claims(t)[c].due[a] /\ DueOf(t, a)[c] \in Nat
  BY <1>2 DEF DueOf, Amounts
<1>4. ASSUME NEW a \in Asset
      PROVE  /\ SumOfClaims(Claims(t), a) = Sum(DueOf(t, a), DOMAIN Claims(t))
             /\ Due(t)[a] = SumOfClaims(Claims(t), a)
             /\ Due(t)[a] \in Nat
  <2>1. SumOfClaims(Claims(t), a) = Sum(DueOf(t, a), DOMAIN Claims(t))
    BY SumIsSumOf DEF SumOfClaims, DueOf
  <2>2. Due(t)[a] = SumOfClaims(Claims(t), a)
    BY DEF Due
  <2>3. Sum(DueOf(t, a), DOMAIN Claims(t)) \in Nat
    BY <1>2, <1>3, SumIsNat
  <2> QED BY <2>1, <2>2, <2>3
<1>5. ASSUME Settles(t), NEW c \in DOMAIN Claims(t), NEW a \in Asset, a # Claims(t)[c].asset
      PROVE  DueOf(t, a)[c] = 0
  <2>1. ~(Claims(t)[c].due[a] > 0)
    BY <1>2, <1>5
  <2>2. DueOf(t, a)[c] = Claims(t)[c].due[a] /\ DueOf(t, a)[c] \in Nat
    BY <1>3
  <2> QED BY <2>1, <2>2
<1>6. /\ plan[t].coins \in Nat /\ plan[t].purse \in Amounts
      /\ plan[t].coins = 0 => plan[t].purse = Zero
      /\ ~Settles(t) => \A a \in Asset : Due(t)[a] = plan[t].purse[a]
  BY <1>2, <1>4
<1> QED BY <1>1, <1>2, <1>3, <1>4, <1>5, <1>6

\* What a thread owes at some addresses.
LEMMA OwedFacts ==
  ASSUME PayoutInvariant, NEW t \in Thread, NEW where, NEW a \in Asset
  PROVE  /\ OwedTo(t, where, a) = Sum(DueOf(t, a), {c \in DOMAIN Claims(t) : Claims(t)[c].to \in where})
         /\ OwedTo(t, where, a) \in Nat
         /\ OwedTo(t, where, a) <= Due(t)[a]
<1> DEFINE There == {c \in DOMAIN Claims(t) : Claims(t)[c].to \in where}
<1>1. OwedTo(t, where, a) = Sum(DueOf(t, a), There)
  BY SumIsSumOf DEF OwedTo, DueOf
<1>2. /\ IsFiniteSet(DOMAIN Claims(t)) /\ There \subseteq DOMAIN Claims(t)
      /\ \A c \in DOMAIN Claims(t) : DueOf(t, a)[c] \in Nat
      /\ Due(t)[a] = Sum(DueOf(t, a), DOMAIN Claims(t))
  BY ClaimFacts
<1> HIDE DEF There
<1>3. Sum(DueOf(t, a), There) \in Nat
  <2>1. IsFiniteSet(There) /\ \A c \in There : DueOf(t, a)[c] \in Nat
    BY <1>2, FS_Subset
  <2> QED BY <2>1, SumIsNat
<1>4. Sum(DueOf(t, a), There) <= Sum(DueOf(t, a), DOMAIN Claims(t))
  BY <1>2, SumOfPart
<1> QED BY <1>1, <1>2, <1>3, <1>4 DEF There

LEMMA ExpectedFacts ==
  ASSUME PayoutInvariant, NEW p, NEW a \in Asset
  PROVE  /\ Expected(p)[a] = Sum([t \in Thread |-> OwedTo(t, {p}, a)], Thread)
         /\ Expected(p)[a] \in Nat
         /\ \A t \in Thread : OwedTo(t, {p}, a) <= Expected(p)[a]
<1> DEFINE q == [t \in Thread |-> OwedTo(t, {p}, a)]
<1>1. Expected(p)[a] = Sum(q, Thread)
  BY SumIsSumOf DEF Expected
<1>2. IsFiniteSet(Thread) /\ \A t \in Thread : q[t] \in Nat /\ q[t] = OwedTo(t, {p}, a)
  BY OwedFacts, PlanFacts DEF PayoutInvariant
<1> HIDE DEF q
<1>3. Sum(q, Thread) \in Nat
  BY <1>2, SumIsNat
<1>4. ASSUME NEW t \in Thread PROVE q[t] <= Sum(q, Thread)
  <2>1. IsFiniteSet(Thread \ {t}) /\ \A u \in Thread : q[u] \in Int
    BY <1>2, FS_Subset
  <2>2. Sum(q, Thread \ {t}) \in Nat
    BY <1>2, <2>1, SumIsNat
  <2>3. Sum(q, Thread) = q[t] + Sum(q, Thread \ {t})
    BY <1>2, <2>1, SumTakes
  <2> QED BY <1>2, <2>2, <2>3
<1> QED BY <1>1, <1>2, <1>3, <1>4 DEF q

LEMMA NothingOfNothing ==
  ASSUME PayoutInvariant, NEW t \in Thread, ~Settles(t), plan[t].coins = 0,
         NEW c \in DOMAIN Claims(t)
  PROVE  Claims(t)[c].due = Zero
<1>1. ASSUME NEW a \in Asset PROVE Claims(t)[c].due[a] = 0
  <2>1. Sum(DueOf(t, a), DOMAIN Claims(t)) = 0
    BY ClaimFacts DEF Zero
  <2>2. /\ \A d \in DOMAIN Claims(t) : DueOf(t, a)[d] \in Nat
        /\ IsFiniteSet(DOMAIN Claims(t))
        /\ DueOf(t, a)[c] = Claims(t)[c].due[a]
    BY ClaimFacts
  <2> DEFINE rest == Sum(DueOf(t, a), DOMAIN Claims(t) \ {c})
  <2>3. Sum(DueOf(t, a), DOMAIN Claims(t)) = DueOf(t, a)[c] + rest
    <3>1. \A d \in DOMAIN Claims(t) : DueOf(t, a)[d] \in Int
      BY <2>2
    <3> QED BY <2>2, <3>1, SumTakes
  <2>4. rest \in Nat
    <3>1. IsFiniteSet(DOMAIN Claims(t) \ {c})
      BY <2>2, FS_Subset
    <3> QED BY <2>2, <3>1, SumIsNat
  <2>5. DueOf(t, a)[c] \in Nat
    BY <2>2
  <2> HIDE DEF rest
  <2> QED BY <2>1, <2>2, <2>3, <2>4, <2>5
<1>2. Claims(t)[c].due \in [Asset -> Nat]
  BY ClaimFacts DEF Amounts
<1> QED BY <1>1, <1>2 DEF Zero

LEMMA EachIsPaid ==
  ASSUME PayoutInvariant, accepted, NEW t \in Thread, NEW c \in DOMAIN Claims(t)
  PROVE  \/ Claims(t)[c].due = Zero
         \/ \E o \in DOMAIN outputs : Pays(t, c, o)
<1>1. SttAccepts(t) /\ WalletAccepts(t)
  BY DEF PayoutInvariant, IsRouted
<1>2. CASE Settles(t)
  BY <1>1, <1>2 DEF SttAccepts
<1>3. CASE ~Settles(t) /\ plan[t].coins = 0
  BY <1>3, NothingOfNothing
<1>4. CASE ~Settles(t) /\ plan[t].coins # 0
  <2> DEFINE tagged == {o \in DOMAIN outputs : o.tag = <<t, c>>}
  <2>1. DistributionIsRouted(t)
    <3>1. plan[t].coins > 0
      BY <1>4, ClaimFacts
    <3> QED BY <1>1, <1>4, <3>1 DEF WalletAccepts
  <2>2. /\ CountOf(tagged) = 1
        /\ \A o \in tagged :
             /\ o.to = Claims(t)[c].to
             /\ o.value[Ada] >= Claims(t)[c].due[Ada]
             /\ \A a \in Asset \ {Ada} : o.value[a] = Claims(t)[c].due[a]
    BY <2>1 DEF DistributionIsRouted, AllSharesArePaid
  <2>3. tagged # {}
    <3> HIDE DEF tagged
    <3>1. tagged = {} => CountOf(tagged) = 0
      BY SumIsSumOf, SumOfNone DEF CountOf
    <3> QED BY <2>2, <3>1
  <2>4. PICK o \in DOMAIN outputs : o \in tagged
    BY <2>3
  <2>5. \A a \in Asset : o.value[a] >= Claims(t)[c].due[a]
    <3>1. \A a \in Asset : Claims(t)[c].due[a] \in Nat
      BY ClaimFacts DEF Amounts
    <3> QED BY <2>2, <2>4, <3>1
  <2> QED BY <2>2, <2>4, <2>5 DEF Pays
<1> QED BY <1>2, <1>3, <1>4

\* Claims of one thread: their outputs differ in their tags.
LEMMA ClaimsArePaid ==
  ASSUME PayoutInvariant, accepted, NEW t \in Thread, NEW S \in SUBSET DOMAIN Claims(t),
         NEW a \in Asset
  PROVE  /\ Sum(DueOf(t, a), S) \in Int
         /\ Sum(DueOf(t, a), S) <= Sum(Weight(a), Paid(t, S))
<1> DEFINE f == DueOf(t, a)
           R == {c \in S : Claims(t)[c].due # Zero}
           h == [c \in R |-> CHOOSE o \in DOMAIN outputs : Pays(t, c, o)]
<1>1. /\ IsFiniteSet(S) /\ IsFiniteSet(R) /\ R \subseteq S
      /\ \A c \in S : f[c] \in Int /\ f[c] = Claims(t)[c].due[a]
  BY ClaimFacts, FS_Subset
<1>2. Sum(f, S) = Sum(f, R)
  <2>1. \A c \in S \ R : f[c] = 0
    BY <1>1 DEF Zero
  <2> HIDE DEF f, R
  <2> QED BY <1>1, <2>1, SumIgnoresZeros
<1>3. ASSUME NEW c \in R
      PROVE  h[c] \in DOMAIN outputs /\ Pays(t, c, h[c])
  <2>1. \E o \in DOMAIN outputs : Pays(t, c, o)
    BY EachIsPaid
  <2> QED BY <2>1
<1>4. /\ IsFiniteSet(Paid(t, S)) /\ Paid(t, S) \subseteq DOMAIN outputs
      /\ \A o \in Paid(t, S) : Weight(a)[o] \in Nat
  <2>1. Paid(t, S) \subseteq DOMAIN outputs
    BY DEF Paid
  <2> QED BY <2>1, WeightFacts DEF PayoutInvariant
<1>5. ASSUME NEW c \in R PROVE h[c] \in Paid(t, S) /\ f[c] <= Weight(a)[h[c]]
  <2>1. /\ h[c] \in DOMAIN outputs /\ h[c].to = Claims(t)[c].to /\ h[c].tag = <<t, c>>
        /\ h[c].value[a] >= Claims(t)[c].due[a]
    BY <1>3 DEF Pays
  <2>2. h[c] \in Paid(t, S)
    BY <1>1, <2>1 DEF Paid
  <2>3. h[c].value[a] \in Nat /\ Weight(a)[h[c]] \in Nat /\ h[c].value[a] <= Weight(a)[h[c]]
    BY <2>1, WeightFacts DEF PayoutInvariant
  <2>4. f[c] \in Int /\ f[c] = Claims(t)[c].due[a]
    BY <1>1
  <2> HIDE DEF f, h, R
  <2> QED BY <2>1, <2>2, <2>3, <2>4
<1>6. \A c, d \in R : h[c] = h[d] => c = d
  <2>1. \A c \in R : h[c].tag = <<t, c>>
    BY <1>3 DEF Pays
  <2> HIDE DEF h, R
  <2> QED BY <2>1
<1>7. \A c \in R : f[c] \in Int
  BY <1>1
<1> HIDE DEF f, h, R
<1>8. Sum(f, R) <= Sum(Weight(a), Paid(t, S))
  BY <1>1, <1>4, <1>5, <1>6, <1>7, SumIsCovered
<1>9. Sum(f, R) \in Int
  BY <1>1, <1>7, SumIsInt
<1> QED BY <1>2, <1>8, <1>9 DEF f

LEMMA ClaimsAreCounted ==
  ASSUME PayoutInvariant, accepted, NEW p, NEW a \in Asset
  PROVE  ValueOf({o \in DOMAIN outputs : o.to = p})[a] >= Expected(p)[a]
<1> DEFINE To == {o \in DOMAIN outputs : o.to = p}
           Of(t) == {c \in DOMAIN Claims(t) : Claims(t)[c].to \in {p}}
           P == [t \in Thread |-> Paid(t, Of(t))]
           q == [t \in Thread |-> Sum(DueOf(t, a), Of(t))]
<1>1. Expected(p)[a] = Sum(q, Thread)
  <2>1. [t \in Thread |-> OwedTo(t, {p}, a)] = q
    BY OwedFacts
  <2>2. Expected(p)[a] = Sum([t \in Thread |-> OwedTo(t, {p}, a)], Thread)
    BY ExpectedFacts
  <2> HIDE DEF q
  <2> QED BY <2>1, <2>2
<1>2. /\ To \subseteq DOMAIN outputs /\ IsFiniteSet(To)
      /\ ValueOf(To)[a] = Sum(Weight(a), To) /\ ValueOf(To)[a] \in Nat
      /\ \A o \in To : Weight(a)[o] \in Nat
  BY WeightFacts DEF PayoutInvariant
<1>3. \A t \in Thread : P[t] \subseteq To
  BY DEF Paid
<1>4. \A t, u \in Thread : t # u => P[t] \cap P[u] = {}
  BY DEF Paid
<1>5. \A t \in Thread : q[t] \in Int /\ q[t] <= Sum(Weight(a), P[t])
  BY ClaimsArePaid
<1>6. IsFiniteSet(Thread)
  BY PlanFacts DEF PayoutInvariant
<1> HIDE DEF To, Of, P, q
<1>7. Sum(q, Thread) <= Sum(Weight(a), To)
  BY <1>2, <1>3, <1>4, <1>5, <1>6, SumOfParts
<1>8. Sum(q, Thread) \in Int
  BY <1>5, <1>6, SumIsInt
<1> QED BY <1>1, <1>2, <1>7, <1>8 DEF To

\* Whoever has several claims in one transaction, on one wallet or on several,
\* gets all of them: no output serves twice.
THEOREM EveryClaimGetsPaid == Spec => []EveryClaimIsPaid
<1>1. PayoutInvariant => EveryClaimIsPaid
  BY ClaimsAreCounted DEF EveryClaimIsPaid
<1> QED BY <1>1, PayoutInvariantHolds, PTL
-----------------------------------------------------------------------------
(* What reaches the author. *)

LEMMA AuthorsOutputs ==
  ASSUME PayoutInvariant, NEW a \in Asset
  PROVE  LET A == {o \in DOMAIN outputs : o.to = Author}
         IN  /\ IsFiniteSet(A) /\ A \subseteq DOMAIN outputs
             /\ \A o \in A : Weight(a)[o] \in Nat
             /\ ValueOf(A)[a] = Sum(Weight(a), A) /\ ValueOf(A)[a] \in Nat
BY WeightFacts DEF PayoutInvariant

\* Where the author's outputs may hold what a settlement pays out.
LEMMA HeldByTag ==
  ASSUME PayoutInvariant, accepted, NEW t \in Thread, Settles(t), IsSpent(t),
         NEW a \in PayoutDelta(t), NEW o \in DOMAIN outputs, o.to = Author, o.value[a] # 0
  PROVE  \E c \in DOMAIN Claims(t) :
           /\ o.tag = <<t, c>> /\ Claims(t)[c].to = Author
           /\ a = Ada \/ a = Claims(t)[c].asset
<1>1. IsLegal(t, o)
  BY DEF PayoutInvariant, IsRouted, WalletAccepts, SettlementIsRouted, IsSpent
<1>2. Author # WalletOf(t) /\ Author # ThreadOf(t)
  BY ClaimFacts
<1> QED BY <1>1, <1>2 DEF IsLegal, AllowsAsset, Matching

\* A settlement lets nothing of what it pays out reach an author it owes nothing.
LEMMA StrangersGetNothing ==
  ASSUME PayoutInvariant, accepted, NEW t \in Thread, Settles(t), IsSpent(t),
         ~IsPayee(Author, t), NEW a \in PayoutDelta(t)
  PROVE  ValueOf({o \in DOMAIN outputs : o.to = Author})[a] = 0
<1> DEFINE A == {o \in DOMAIN outputs : o.to = Author}
<1>1. a \in Asset
  BY DEF PayoutDelta
<1>2. \A o \in A : o.value[a] = 0
  BY HeldByTag DEF IsPayee
<1>3. /\ IsFiniteSet(A) /\ ValueOf(A)[a] = Sum(Weight(a), A)
      /\ \A o \in A : Weight(a)[o] = 0
  BY <1>1, <1>2, AuthorsOutputs, WeightFacts DEF PayoutInvariant
<1> HIDE DEF A
<1>4. ValueOf(A)[a] = 0
  BY <1>3, SumOfZeros
<1> QED BY <1>4 DEF A

\* The claims in an asset, and those of them that are the author's.
ClaimsIn(t, a) == {c \in DOMAIN Claims(t) : Claims(t)[c].asset = a}
AuthorsIn(t, a) == {c \in ClaimsIn(t, a) : Claims(t)[c].to = Author}

\* Claims that are told apart by their tags are paid apart.
LEMMA PaidApart ==
  ASSUME PayoutInvariant, NEW t \in Thread, NEW a \in Asset,
         NEW S \in SUBSET DOMAIN Claims(t), NEW R \in SUBSET S
  PROVE  /\ Sum(Weight(a), Paid(t, S)) = Sum(Weight(a), Paid(t, R)) + Sum(Weight(a), Paid(t, S \ R))
         /\ Sum(Weight(a), Paid(t, R)) \in Nat /\ Sum(Weight(a), Paid(t, S \ R)) \in Nat
<1>1. ASSUME NEW U PROVE /\ IsFiniteSet(Paid(t, U)) /\ \A o \in Paid(t, U) : Weight(a)[o] \in Nat
  <2>1. Paid(t, U) \subseteq DOMAIN outputs
    BY DEF Paid
  <2> QED BY <2>1, WeightFacts DEF PayoutInvariant
<1>2. Paid(t, S) = Paid(t, R) \cup Paid(t, S \ R) /\ Paid(t, R) \cap Paid(t, S \ R) = {}
  BY DEF Paid
<1>3. \A o \in Paid(t, R) \cup Paid(t, S \ R) : Weight(a)[o] \in Int
  BY <1>1
<1>4. Sum(Weight(a), Paid(t, R)) \in Nat /\ Sum(Weight(a), Paid(t, S \ R)) \in Nat
  BY <1>1, SumIsNat
<1>5. Sum(Weight(a), Paid(t, R) \cup Paid(t, S \ R))
        = Sum(Weight(a), Paid(t, R)) + Sum(Weight(a), Paid(t, S \ R))
  <2> DEFINE P == Paid(t, R)
             Q == Paid(t, S \ R)
  <2>1. /\ IsFiniteSet(P) /\ IsFiniteSet(Q) /\ P \cap Q = {}
        /\ \A o \in P \cup Q : Weight(a)[o] \in Int
    BY <1>1, <1>2, <1>3
  <2> HIDE DEF P, Q
  <2>2. Sum(Weight(a), P \cup Q) = Sum(Weight(a), P) + Sum(Weight(a), Q)
    BY <2>1, SumOfUnion
  <2> QED BY <2>2 DEF P, Q
<1> QED BY <1>2, <1>4, <1>5

\* Of a token that a settlement pays out, the author gets just what it is owed:
\* what is tagged is what is due, and everybody else's claim has its own tag.
LEMMA TokensAreExact ==
  ASSUME PayoutInvariant, accepted, NEW t \in Thread, Settles(t), IsSpent(t),
         NEW a \in PayoutDelta(t), a # Ada
  PROVE  ValueOf({o \in DOMAIN outputs : o.to = Author})[a] <= OwedTo(t, {Author}, a)
<1> DEFINE A == {o \in DOMAIN outputs : o.to = Author}
           S == ClaimsIn(t, a)
           R == AuthorsIn(t, a)
           There == {c \in DOMAIN Claims(t) : Claims(t)[c].to \in {Author}}
           due == DueOf(t, a)
           w == Weight(a)
<1>1. a \in Asset
  BY DEF PayoutDelta
<1>2. /\ IsFiniteSet(DOMAIN Claims(t)) /\ \A c \in DOMAIN Claims(t) : due[c] \in Nat
      /\ Due(t)[a] = Sum(due, DOMAIN Claims(t))
      /\ \A c \in DOMAIN Claims(t) \ S : due[c] = 0
  BY <1>1, ClaimFacts DEF ClaimsIn
<1>3. /\ S \subseteq DOMAIN Claims(t) /\ R \subseteq S /\ R \subseteq There
      /\ There \subseteq DOMAIN Claims(t) /\ There \ R \subseteq DOMAIN Claims(t) \ S
  BY DEF ClaimsIn, AuthorsIn
<1>4. Tagged(t, a) = Sum(w, Paid(t, S))
  <2>1. {o \in DOMAIN outputs : \E c \in Matching(t, o) : Claims(t)[c].asset = a} = Paid(t, S)
    BY DEF Matching, Paid, ClaimsIn
  <2>2. Paid(t, S) \in SUBSET DOMAIN outputs
    BY DEF Paid
  <2> QED BY <1>1, <2>1, <2>2, WeightFacts DEF Tagged, PayoutInvariant
<1>5. Tagged(t, a) = Due(t)[a]
  <2>1. SettlementIsRouted(t)
    BY DEF PayoutInvariant, IsRouted, WalletAccepts, IsSpent
  <2> QED BY <2>1 DEF SettlementIsRouted, TaggedQuantitiesMatch
<1>6. Sum(w, A) <= Sum(w, Paid(t, R))
  <2>1. /\ IsFiniteSet(A) /\ A \subseteq DOMAIN outputs /\ \A o \in A : w[o] \in Int
    <3>1. IsFiniteSet(A) /\ A \subseteq DOMAIN outputs /\ \A o \in A : Weight(a)[o] \in Nat
      BY <1>1, AuthorsOutputs
    <3> HIDE DEF A
    <3> QED BY <3>1
  <2>2. \A o \in A \ Paid(t, R) : w[o] = 0
    <3>1. \A o \in A : o.value[a] # 0 => o \in Paid(t, R)
      BY HeldByTag DEF Paid, ClaimsIn, AuthorsIn
    <3> QED BY <1>1, <3>1, WeightFacts DEF PayoutInvariant
  <2>3. /\ IsFiniteSet(Paid(t, R)) /\ \A o \in Paid(t, R) : w[o] \in Nat
    <3>1. Paid(t, R) \subseteq DOMAIN outputs
      BY DEF Paid
    <3> QED BY <1>1, <3>1, WeightFacts DEF PayoutInvariant
  <2> HIDE DEF A, w, R
  <2>4. Sum(w, A) = Sum(w, A \cap Paid(t, R))
    <3>1. A \cap Paid(t, R) \in SUBSET A /\ \A o \in A \ (A \cap Paid(t, R)) : w[o] = 0
      BY <2>2
    <3> QED BY <2>1, <3>1, SumIgnoresZeros
  <2>5. Sum(w, A \cap Paid(t, R)) <= Sum(w, Paid(t, R))
    BY <2>3, SumOfPart
  <2> QED BY <2>4, <2>5
<1>7. /\ Sum(w, Paid(t, S)) = Sum(w, Paid(t, R)) + Sum(w, Paid(t, S \ R))
      /\ Sum(w, Paid(t, R)) \in Nat /\ Sum(w, Paid(t, S \ R)) \in Nat
  BY <1>1, <1>3, PaidApart
<1>8. Sum(due, S \ R) \in Int /\ Sum(due, S \ R) <= Sum(w, Paid(t, S \ R))
  BY <1>1, <1>3, ClaimsArePaid
<1>9. ValueOf(A)[a] = Sum(w, A) /\ ValueOf(A)[a] \in Nat
  BY <1>1, AuthorsOutputs
<1>10. OwedTo(t, {Author}, a) = Sum(due, There)
  BY <1>1, OwedFacts
<1> HIDE DEF A, S, R, There, due, w
<1>11. IsFiniteSet(S) /\ IsFiniteSet(R) /\ IsFiniteSet(S \ R) /\ IsFiniteSet(There)
  BY <1>2, <1>3, FS_Subset
<1>12. Sum(due, DOMAIN Claims(t)) = Sum(due, S)
  <2>1. \A c \in DOMAIN Claims(t) : due[c] \in Int
    BY <1>2
  <2> QED BY <1>2, <1>3, <2>1, SumIgnoresZeros
<1>13. Sum(due, S) = Sum(due, R) + Sum(due, S \ R) /\ Sum(due, R) \in Int
  <2>1. R \cup (S \ R) = S /\ R \cap (S \ R) = {} /\ \A c \in S : due[c] \in Int
    BY <1>2, <1>3
  <2>2. Sum(due, R \cup (S \ R)) = Sum(due, R) + Sum(due, S \ R)
    BY <1>11, <2>1, SumOfUnion
  <2>3. \A c \in R : due[c] \in Int
    BY <1>3, <2>1
  <2> QED BY <1>11, <2>1, <2>2, <2>3, SumIsInt
<1>14. Sum(due, There) = Sum(due, R)
  <2>1. (\A c \in There : due[c] \in Int) /\ \A c \in There \ R : due[c] = 0
    BY <1>2, <1>3
  <2> QED BY <1>3, <1>11, <2>1, SumIgnoresZeros
<1>15. Sum(w, Paid(t, R)) <= Sum(due, R)
  <2>1. Sum(w, Paid(t, R)) + Sum(w, Paid(t, S \ R)) = Sum(due, R) + Sum(due, S \ R)
    BY <1>2, <1>4, <1>5, <1>7, <1>12, <1>13
  <2> DEFINE paid == Sum(w, Paid(t, R))
             others == Sum(w, Paid(t, S \ R))
             owed == Sum(due, R)
             rest == Sum(due, S \ R)
  <2>2. /\ paid \in Nat /\ others \in Nat /\ owed \in Int /\ rest \in Int
        /\ paid + others = owed + rest /\ rest <= others
    BY <1>7, <1>8, <1>13, <2>1
  <2> HIDE DEF paid, others, owed, rest
  <2>3. paid <= owed
    BY <2>2
  <2> QED BY <2>3 DEF paid, owed
<1>16. ValueOf(A)[a] <= OwedTo(t, {Author}, a)
  BY <1>6, <1>7, <1>9, <1>10, <1>13, <1>14, <1>15
<1> QED BY <1>16 DEF A

-----------------------------------------------------------------------------
(* What does not reach the author. *)

\* The claims of others who are no wallets of the transaction.
OthersClaims(t) == {c \in DOMAIN Claims(t) : Claims(t)[c].to \notin {Author} \cup SpentWallets}

\* The outputs that hold for others what a thread's wallet brought.
Kept(t) ==
  IF ~IsSpent(t) THEN {}
  ELSE Paid(t, OthersClaims(t)) \cup (IF Settles(t) THEN Continuing(t) ELSE {})

Purses(a) == [t \in Thread |-> plan[t].purse[a]]

\* Of what its wallet brought, what others need not get.
Loose(a) ==
  [t \in Thread |-> IF IsSpent(t) THEN OwedTo(t, {Author}, a) + OwedTo(t, SpentWallets, a) ELSE 0]

LEMMA LooseFacts ==
  ASSUME PayoutInvariant, NEW t \in Thread, NEW a \in Asset
  PROVE  /\ Loose(a)[t] \in Nat
         /\ Purses(a)[t] \in Nat /\ Purses(a)[t] = plan[t].purse[a]
         /\ IsSpent(t) => Loose(a)[t] = OwedTo(t, {Author}, a) + OwedTo(t, SpentWallets, a)
         /\ ~IsSpent(t) => Loose(a)[t] = 0 /\ Purses(a)[t] = 0
<1>1. OwedTo(t, {Author}, a) \in Nat /\ OwedTo(t, SpentWallets, a) \in Nat
  BY OwedFacts
<1>2. /\ plan[t].coins \in Nat /\ plan[t].purse \in Amounts
      /\ plan[t].coins = 0 => plan[t].purse = Zero
  BY ClaimFacts
<1>3. Purses(a)[t] = plan[t].purse[a] /\ plan[t].purse[a] \in Nat
  BY <1>2 DEF Purses, Amounts
<1>4. ~IsSpent(t) => plan[t].purse[a] = 0
  BY <1>2 DEF IsSpent, Zero
<1> QED BY <1>1, <1>3, <1>4 DEF Loose

\* All claims are the author's, those of wallets of the transaction, or others'.
LEMMA ClaimsArePartitioned ==
  ASSUME PayoutInvariant, NEW t \in Thread, NEW a \in Asset
  PROVE  /\ Sum(DueOf(t, a), OthersClaims(t)) \in Int
         /\ Due(t)[a] = Sum(DueOf(t, a), OthersClaims(t))
                          + OwedTo(t, {Author}, a) + OwedTo(t, SpentWallets, a)
<1> DEFINE H == {c \in DOMAIN Claims(t) : Claims(t)[c].to \in {Author}}
           W == {c \in DOMAIN Claims(t) : Claims(t)[c].to \in SpentWallets}
           O == OthersClaims(t)
           due == DueOf(t, a)
<1>1. Author \notin SpentWallets
  BY ClaimFacts DEF SpentWallets
<1>2. /\ DOMAIN Claims(t) = O \cup (H \cup W)
      /\ O \cap (H \cup W) = {} /\ H \cap W = {}
  BY <1>1 DEF OthersClaims
<1>3. /\ IsFiniteSet(DOMAIN Claims(t)) /\ \A c \in DOMAIN Claims(t) : due[c] \in Int
      /\ Due(t)[a] = Sum(due, DOMAIN Claims(t))
      /\ OwedTo(t, {Author}, a) = Sum(due, H) /\ OwedTo(t, SpentWallets, a) = Sum(due, W)
  BY ClaimFacts, OwedFacts
<1> HIDE DEF H, W, O, due
<1>4. IsFiniteSet(O) /\ IsFiniteSet(H) /\ IsFiniteSet(W) /\ IsFiniteSet(H \cup W)
  BY <1>2, <1>3, FS_Subset
<1>5. Sum(due, O \cup (H \cup W)) = Sum(due, O) + Sum(due, H \cup W)
  BY <1>2, <1>3, <1>4, SumOfUnion
<1>6. Sum(due, H \cup W) = Sum(due, H) + Sum(due, W)
  BY <1>2, <1>3, <1>4, SumOfUnion
<1>7. Sum(due, O) \in Int /\ Sum(due, H) \in Int /\ Sum(due, W) \in Int
  BY <1>2, <1>3, <1>4, SumIsInt
<1> QED BY <1>2, <1>3, <1>5, <1>6, <1>7 DEF O, due

LEMMA PurseIsKept ==
  ASSUME PayoutInvariant, accepted, NEW t \in Thread, NEW a \in Asset
  PROVE  Purses(a)[t] - Loose(a)[t] <= Sum(Weight(a), Kept(t))
<1> DEFINE P == Paid(t, OthersClaims(t))
           w == Weight(a)
<1>1. CASE ~IsSpent(t)
  <2>1. Sum(w, Kept(t)) = 0
    BY <1>1, SumOfNone DEF Kept
  <2> QED BY <1>1, <2>1, LooseFacts
<1>2. /\ Sum(DueOf(t, a), OthersClaims(t)) \in Int
      /\ Sum(DueOf(t, a), OthersClaims(t)) <= Sum(w, P)
  <2>1. OthersClaims(t) \in SUBSET DOMAIN Claims(t)
    BY DEF OthersClaims
  <2> QED BY <2>1, ClaimsArePaid
<1>3. /\ Due(t)[a] = Sum(DueOf(t, a), OthersClaims(t))
                       + OwedTo(t, {Author}, a) + OwedTo(t, SpentWallets, a)
      /\ OwedTo(t, {Author}, a) \in Nat /\ OwedTo(t, SpentWallets, a) \in Nat
  BY ClaimsArePartitioned, OwedFacts
<1>4. P \subseteq DOMAIN outputs
  BY DEF Paid
<1>5. /\ IsFiniteSet(P) /\ (\A o \in P : w[o] \in Int) /\ Sum(w, P) \in Nat
  BY <1>4, WeightFacts, SumIsNat DEF PayoutInvariant
<1>6. CASE IsSpent(t) /\ Settles(t)
  <2> DEFINE C == Continuing(t)
  <2>1. SettlementIsRouted(t)
    BY <1>6 DEF PayoutInvariant, IsRouted, WalletAccepts, IsSpent
  <2>2. ValueOf(C)[a] = plan[t].purse[a] - Due(t)[a]
    BY <2>1 DEF SettlementIsRouted, ExactWithdrawal, Continuing
  <2>3. /\ IsFiniteSet(C) /\ (\A o \in C : w[o] \in Int)
        /\ ValueOf(C)[a] = Sum(w, C) /\ ValueOf(C)[a] \in Nat
    <3>1. C \in SUBSET DOMAIN outputs
      BY DEF Continuing
    <3> QED BY <3>1, WeightFacts DEF PayoutInvariant
  <2>4. P \cap C = {}
    <3>1. WalletOf(t) \in SpentWallets
      BY <1>6 DEF SpentWallets
    <3> QED BY <3>1 DEF Paid, Continuing, OthersClaims
  <2>5. Kept(t) = P \cup C
    BY <1>6 DEF Kept
  <2>6. Sum(w, P \cup C) = Sum(w, P) + Sum(w, C)
    <3>1. \A o \in P \cup C : w[o] \in Int
      BY <1>5, <2>3
    <3> HIDE DEF P, C, w
    <3> QED BY <1>5, <2>3, <2>4, <3>1, SumOfUnion
  <2>7. Purses(a)[t] = plan[t].purse[a] /\ Purses(a)[t] \in Nat
        /\ Loose(a)[t] = OwedTo(t, {Author}, a) + OwedTo(t, SpentWallets, a)
    BY <1>6, LooseFacts
  <2> HIDE DEF P, C, w
  <2> QED BY <1>2, <1>3, <1>5, <2>2, <2>3, <2>5, <2>6, <2>7 DEF w
<1>7. CASE IsSpent(t) /\ ~Settles(t)
  <2>1. Due(t)[a] = plan[t].purse[a]
    BY <1>7, ClaimFacts
  <2>2. Kept(t) = P
    BY <1>7 DEF Kept
  <2>3. Purses(a)[t] = plan[t].purse[a] /\ Purses(a)[t] \in Nat
        /\ Loose(a)[t] = OwedTo(t, {Author}, a) + OwedTo(t, SpentWallets, a)
    BY <1>7, LooseFacts
  <2> HIDE DEF P, w
  <2> QED BY <1>2, <1>3, <1>5, <2>1, <2>2, <2>3 DEF w
<1> QED BY <1>1, <1>6, <1>7

LEMMA KeptApart ==
  ASSUME PayoutInvariant
  PROVE  /\ \A t \in Thread : Kept(t) \subseteq {o \in DOMAIN outputs : o.to # Author}
         /\ \A t, u \in Thread : t # u => Kept(t) \cap Kept(u) = {}
<1>1. ASSUME NEW t \in Thread, NEW o \in Kept(t)
      PROVE  /\ o \in DOMAIN outputs /\ WalletOf(t) \in SpentWallets
             /\ \/ o.to = WalletOf(t)
                \/ o.to \notin {Author} \cup SpentWallets /\ \E c : o.tag = <<t, c>>
  BY DEF Kept, Continuing, Paid, OthersClaims, SpentWallets
<1>2. ASSUME NEW t \in Thread, NEW o \in Kept(t) PROVE o.to # Author
  <2>1. Author # WalletOf(t)
    BY ClaimFacts
  <2> QED BY <1>1, <2>1
<1>3. ASSUME NEW t \in Thread, NEW u \in Thread, NEW o \in Kept(t), o \in Kept(u)
      PROVE  t = u
  <2>0. /\ \/ o.to = WalletOf(t)
           \/ o.to \notin {Author} \cup SpentWallets /\ \E c : o.tag = <<t, c>>
        /\ \/ o.to = WalletOf(u)
           \/ o.to \notin {Author} \cup SpentWallets /\ \E c : o.tag = <<u, c>>
    BY <1>1, <1>3
  <2>1. CASE o.to \in SpentWallets
    <3>1. WalletOf(t) = WalletOf(u)
      BY <2>0, <2>1
    <3> QED BY <3>1 DEF WalletOf
  <2>2. CASE o.to \notin SpentWallets
    <3>1. WalletOf(t) \in SpentWallets /\ WalletOf(u) \in SpentWallets
      BY <1>1, <1>3
    <3> QED BY <2>0, <2>2, <3>1
  <2> QED BY <2>1, <2>2
<1> QED BY <1>1, <1>2, <1>3

\* The author gets at most what others need not get.
LEMMA AuthorGetsTheRest ==
  ASSUME PayoutInvariant, accepted, NEW a \in Asset
  PROVE  /\ ValueOf({o \in DOMAIN outputs : o.to = Author})[a] <= funds[a] + Sum(Loose(a), Thread)
         /\ Sum(Loose(a), Thread) \in Nat /\ funds[a] \in Nat
<1> DEFINE A == {o \in DOMAIN outputs : o.to = Author}
           N == {o \in DOMAIN outputs : o.to # Author}
           P == [t \in Thread |-> Kept(t)]
           q == [t \in Thread |-> Purses(a)[t] - Loose(a)[t]]
<1>0. funds[a] \in Nat
  BY FundsAssumption DEF PayoutInvariant, Amounts
<1>1. \A t \in Thread : /\ Purses(a)[t] \in Int /\ Loose(a)[t] \in Nat /\ q[t] \in Int
                        /\ Purses(a)[t] = q[t] + Loose(a)[t]
                        /\ q[t] <= Sum(Weight(a), P[t])
  BY LooseFacts, PurseIsKept
<1>2. (\A t \in Thread : P[t] \subseteq N) /\ \A t, u \in Thread : t # u => P[t] \cap P[u] = {}
  BY KeptApart
<1>3. A \cap N = {} /\ N \cup A = DOMAIN outputs
  OBVIOUS
<1>4. /\ IsFiniteSet(A) /\ IsFiniteSet(N)
      /\ \A o \in DOMAIN outputs : Weight(a)[o] \in Nat
      /\ ValueOf(A)[a] = Sum(Weight(a), A)
      /\ ValueOf(DOMAIN outputs)[a] = Sum(Weight(a), DOMAIN outputs)
  BY WeightFacts DEF PayoutInvariant
<1>5. IsFiniteSet(Thread)
  BY PlanFacts DEF PayoutInvariant
<1>6. Placed[a] = Brought[a] /\ Placed[a] = ValueOf(DOMAIN outputs)[a]
  BY DEF PayoutInvariant, IsRouted, Placed
<1>7. Brought[a] = funds[a] + Sum(Purses(a), Thread)
  BY SumIsSumOf DEF Brought, Purses
<1> HIDE DEF A, N, P, q
<1>8. /\ Sum(q, Thread) <= Sum(Weight(a), N)
      /\ Sum(Weight(a), N) \in Int /\ Sum(Weight(a), A) \in Int
      /\ Sum(Weight(a), DOMAIN outputs) = Sum(Weight(a), N) + Sum(Weight(a), A)
  <2>1. (\A o \in N : Weight(a)[o] \in Nat) /\ (\A o \in N \cup A : Weight(a)[o] \in Int)
    BY <1>3, <1>4
  <2>2. Sum(q, Thread) <= Sum(Weight(a), N)
    BY <1>1, <1>2, <1>4, <1>5, <2>1, SumOfParts
  <2>3. Sum(Weight(a), N \cup A) = Sum(Weight(a), N) + Sum(Weight(a), A)
    BY <1>3, <1>4, <2>1, SumOfUnion
  <2>4. Sum(Weight(a), N) \in Int /\ Sum(Weight(a), A) \in Int
    BY <1>4, <2>1, SumIsInt
  <2> QED BY <1>3, <2>2, <2>3, <2>4
<1>9. /\ Sum(Purses(a), Thread) = Sum(q, Thread) + Sum(Loose(a), Thread)
      /\ Sum(q, Thread) \in Int /\ Sum(Loose(a), Thread) \in Nat
  <2>1. \A t \in Thread : /\ q[t] \in Int /\ Loose(a)[t] \in Int
                          /\ Purses(a)[t] = q[t] + Loose(a)[t]
    BY <1>1
  <2>2. Sum(Purses(a), Thread) = Sum(q, Thread) + Sum(Loose(a), Thread)
    BY <1>5, <2>1, SumIsLinear
  <2>3. Sum(q, Thread) \in Int
    BY <1>5, <2>1, SumIsInt
  <2>4. Sum(Loose(a), Thread) \in Nat
    BY <1>1, <1>5, SumIsNat
  <2> QED BY <2>2, <2>3, <2>4
<1>10. ValueOf(A)[a] <= funds[a] + Sum(Loose(a), Thread)
  <2> DEFINE v == ValueOf(A)[a]
             n == Sum(Weight(a), N)
             s == Sum(q, Thread)
             l == Sum(Loose(a), Thread)
             f == funds[a]
  <2>1. /\ n + v = f + (s + l) /\ s <= n
        /\ n \in Int /\ v \in Int /\ s \in Int /\ l \in Nat /\ f \in Nat
    BY <1>0, <1>4, <1>6, <1>7, <1>8, <1>9
  <2> HIDE DEF v, n, s, l, f
  <2>2. v <= f + l
    BY <2>1
  <2> QED BY <2>2 DEF v, l, f
<1> QED BY <1>0, <1>9, <1>10 DEF A

\* What each thread leaves unassigned.
UnassignedBy(a) ==
  [t \in Thread |-> IF IsSpent(t) /\ (Settles(t) => a = Ada /\ IsPayee(Author, t))
                    THEN OwedTo(t, SpentWallets, a) ELSE 0]

LEMMA UnassignedFacts ==
  ASSUME PayoutInvariant, NEW a \in Asset
  PROVE  /\ Unassigned(Author, a) = Sum(UnassignedBy(a), Thread)
         /\ Unassigned(Author, a) \in Nat
         /\ \A t \in Thread : UnassignedBy(a)[t] \in Nat
<1>1. Unassigned(Author, a) = Sum(UnassignedBy(a), Thread)
  BY SumIsSumOf DEF Unassigned, UnassignedBy
<1>2. ASSUME NEW t \in Thread PROVE UnassignedBy(a)[t] \in Nat
  <2>1. OwedTo(t, SpentWallets, a) \in Nat
    BY OwedFacts
  <2> QED BY <2>1 DEF UnassignedBy
<1>3. IsFiniteSet(Thread)
  BY PlanFacts DEF PayoutInvariant
<1> QED BY <1>1, <1>2, <1>3, SumIsNat

\* Unless somebody else's settlement pays the asset out, or it is a token, what
\* others need not get is what the author is owed or what is unassigned.
LEMMA LooseIsAccountedFor ==
  ASSUME PayoutInvariant, NEW a \in Asset,
         \A t \in Thread : Settles(t) /\ IsSpent(t) /\ a \in PayoutDelta(t)
                             => a = Ada /\ IsPayee(Author, t)
  PROVE  Sum(Loose(a), Thread) <= Expected(Author)[a] + Unassigned(Author, a)
<1> DEFINE e == [t \in Thread |-> OwedTo(t, {Author}, a)]
           u == UnassignedBy(a)
           b == [t \in Thread |-> e[t] + u[t]]
<1>1. ASSUME NEW t \in Thread
      PROVE  /\ e[t] \in Int /\ u[t] \in Int /\ b[t] = e[t] + u[t] /\ b[t] \in Int
             /\ Loose(a)[t] \in Int /\ Loose(a)[t] <= b[t]
  <2>1. /\ e[t] = OwedTo(t, {Author}, a) /\ e[t] \in Nat /\ b[t] = e[t] + u[t]
        /\ OwedTo(t, SpentWallets, a) \in Nat /\ OwedTo(t, SpentWallets, a) <= Due(t)[a]
        /\ Due(t)[a] \in Nat
    BY OwedFacts, ClaimFacts
  <2>2. u[t] \in Nat /\ Loose(a)[t] \in Nat
    BY UnassignedFacts, LooseFacts
  <2>3. CASE ~IsSpent(t)
    <3>1. Loose(a)[t] = 0
      BY <2>3, LooseFacts
    <3> HIDE DEF e, u, b
    <3> QED BY <2>1, <2>2, <3>1
  <2>4. CASE IsSpent(t)
    <3>1. Loose(a)[t] = OwedTo(t, {Author}, a) + OwedTo(t, SpentWallets, a)
      BY <2>4, LooseFacts
    <3>2. OwedTo(t, SpentWallets, a) <= u[t]
      <4>1. CASE Settles(t) => a = Ada /\ IsPayee(Author, t)
        BY <2>1, <2>4, <4>1 DEF UnassignedBy
      <4>2. CASE ~(Settles(t) => a = Ada /\ IsPayee(Author, t))
        <5>1. ~(Due(t)[a] > 0)
          BY <2>4, <4>2 DEF PayoutDelta
        <5> HIDE DEF u
        <5> QED BY <2>1, <2>2, <5>1
      <4> QED BY <4>1, <4>2
    <3> HIDE DEF e, u, b
    <3> QED BY <2>1, <2>2, <3>1, <3>2
  <2> QED BY <2>1, <2>2, <2>3, <2>4
<1>2. IsFiniteSet(Thread)
  BY PlanFacts DEF PayoutInvariant
<1>3. Expected(Author)[a] = Sum(e, Thread) /\ Unassigned(Author, a) = Sum(u, Thread)
  BY ExpectedFacts, UnassignedFacts
<1> HIDE DEF e, u, b
<1>4. Sum(Loose(a), Thread) <= Sum(b, Thread)
  BY <1>1, <1>2, SumIsMonotone
<1>5. Sum(b, Thread) = Sum(e, Thread) + Sum(u, Thread)
  BY <1>1, <1>2, SumIsLinear
<1> QED BY <1>3, <1>4, <1>5

LEMMA AuthorIsBounded ==
  ASSUME PayoutInvariant, accepted, NEW a \in Asset
  PROVE  ValueOf({o \in DOMAIN outputs : o.to = Author})[a]
           <= funds[a] + Expected(Author)[a] + Unassigned(Author, a)
<1> DEFINE v == ValueOf({o \in DOMAIN outputs : o.to = Author})[a]
           PaysOut(t) == Settles(t) /\ IsSpent(t) /\ a \in PayoutDelta(t)
<1>1. /\ Expected(Author)[a] \in Nat /\ Unassigned(Author, a) \in Nat
      /\ funds[a] \in Nat /\ Sum(Loose(a), Thread) \in Nat
      /\ v <= funds[a] + Sum(Loose(a), Thread) /\ v \in Nat
  BY ExpectedFacts, UnassignedFacts, AuthorGetsTheRest, AuthorsOutputs
<1>2. CASE \E t \in Thread : PaysOut(t) /\ a # Ada
  <2>1. PICK t \in Thread : PaysOut(t) /\ a # Ada
    BY <1>2
  <2>2. v <= OwedTo(t, {Author}, a)
    BY <2>1, TokensAreExact
  <2>3. OwedTo(t, {Author}, a) <= Expected(Author)[a] /\ OwedTo(t, {Author}, a) \in Nat
    BY ExpectedFacts, OwedFacts
  <2> HIDE DEF v
  <2> QED BY <1>1, <2>2, <2>3 DEF v
<1>3. CASE \E t \in Thread : PaysOut(t) /\ ~IsPayee(Author, t)
  <2>1. v = 0
    BY <1>3, StrangersGetNothing
  <2> HIDE DEF v
  <2> QED BY <1>1, <2>1 DEF v
<1>4. CASE \A t \in Thread : PaysOut(t) => a = Ada /\ IsPayee(Author, t)
  <2>1. Sum(Loose(a), Thread) <= Expected(Author)[a] + Unassigned(Author, a)
    BY <1>4, LooseIsAccountedFor
  <2> HIDE DEF v
  <2> QED BY <1>1, <2>1 DEF v
<1> QED BY <1>2, <1>3, <1>4

\* The author of settlements and distributions gets what it brought and what it
\* is owed itself, if it is a payee or an heir, and no more, wherever it puts
\* their outputs; but for what is owed to a wallet of the same transaction.
THEOREM AuthorNeverGetsMore == Spec => []AuthorNeverGains
<1>1. PayoutInvariant => AuthorNeverGains
  BY AuthorIsBounded DEF AuthorNeverGains
<1> QED BY <1>1, PayoutInvariantHolds, PTL
=============================================================================
