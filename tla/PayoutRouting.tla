---------------------------- MODULE PayoutRouting ----------------------------
(***************************************************************************)
(* Where the money of a settlement may land.  The author of a transaction  *)
(* puts its outputs together as it likes; the state thread looks for the   *)
(* output of every stream it counts as paid (payout.ak), the wallet, where *)
(* one of its UTxOs is spent, for anything that would reach somebody else  *)
(* (payout_routing.ak), or for the parts of all beneficiaries in a         *)
(* distribution (beneficiary_distribution.ak).  How much may be counted is *)
(* SttThread's and Wallet's subject.                                       *)
(*                                                                         *)
(* One transaction spends at most one thread of a deployment, since they   *)
(* share an address; the threads here belong to different deployments.     *)
(* Fees are left out, so are the ADA that an output needs for itself.      *)
(***************************************************************************)
EXTENDS Integers, FiniteSets, Functions, Bags

CONSTANTS
  Asset, Ada,
  Author, Payee,  \* addresses: the author's own, those of payees and heirs,
                  \* of whom the author may be one
  Plans,          \* what a transaction wants, per thread that it spends
  Funds,          \* values the author may bring
  MaxOutputs,     \* bound: outputs of a transaction
  None

VARIABLES
  plan,      \* what the transaction wants of each thread it spends
  funds,     \* what its author brings
  outputs,   \* its outputs so far, a bag
  accepted   \* the validators have accepted it

payoutVars == <<plan, funds, outputs, accepted>>

Thread == DOMAIN plan
WalletOf(t) == <<"wallet", t>>
ThreadOf(t) == <<"thread", t>>
Address == {Author} \cup Payee \cup {WalletOf(t) : t \in Thread} \cup {ThreadOf(t) : t \in Thread}

Zero == [a \in Asset |-> 0]

SumOf(f, S) == FoldFunctionOnSet(+, 0, f, S)

SumOfClaims(claims, a) == SumOf([c \in DOMAIN claims |-> claims[c].due[a]], DOMAIN claims)

Amounts == [Asset -> Nat]

\* A stream owes one asset.  A wallet of which nothing is spent brings nothing;
\* a distribution divides all that its wallet brings
\* (beneficiary_distribution.ak:44-49).
IsPlan(p) ==
  /\ p.coins \in Nat /\ p.purse \in Amounts
  /\ p.coins = 0 => p.purse = Zero
  /\ IsFiniteSet(DOMAIN p.claims)
  /\ \A c \in DOMAIN p.claims : p.claims[c].due \in Amounts
  /\ IF p.kind = "settle"
     THEN \A c \in DOMAIN p.claims, a \in Asset : p.claims[c].due[a] > 0 => a = p.claims[c].asset
     ELSE \A a \in Asset : SumOfClaims(p.claims, a) = p.purse[a]

ASSUME PlansAssumption ==
  \A p \in Plans :
    /\ IsFiniteSet(DOMAIN p)
    /\ \A t \in DOMAIN p : IsPlan(p[t]) /\ Author \notin {<<"wallet", t>>, <<"thread", t>>}
ASSUME FundsAssumption == Funds \subseteq Amounts

\* The value of some outputs.
ValueOf(picked) ==
  [a \in Asset |-> SumOf([o \in DOMAIN outputs |-> outputs[o] * o.value[a]], picked)]

Claims(t) == plan[t].claims
Settles(t) == plan[t].kind = "settle"

Due(t) == [a \in Asset |-> SumOfClaims(Claims(t), a)]

\* The assets of a declared payout: those of which something is paid.
PayoutDelta(t) == {a \in Asset : Due(t)[a] > 0}

-----------------------------------------------------------------------------
(* The thread: an output for every stream that is counted as paid. *)

Pays_ToAnyTag(t, c, o) ==
  /\ o.to = Claims(t)[c].to
  /\ o.tag # None
  /\ \A a \in Asset : o.value[a] >= Claims(t)[c].due[a]

\* The tag names the thread's UTxO that is spent and the entry of its State.
Pays(t, c, o) ==
  /\ o.to = Claims(t)[c].to
  /\ o.tag = <<t, c>>
  /\ \A a \in Asset : o.value[a] >= Claims(t)[c].due[a]

SttAccepts(t) ==
  Settles(t) =>
    \A c \in DOMAIN Claims(t) :
      \/ Claims(t)[c].due = Zero
      \/ \E o \in DOMAIN outputs : Pays(t, c, o)

-----------------------------------------------------------------------------
(* The wallet: what leaves is what is counted, and reaches tagged outputs. *)

Matching(t, o) == {c \in DOMAIN Claims(t) : o.tag = <<t, c>> /\ o.to = Claims(t)[c].to}

AllowsAsset(t, o, a) == \E c \in Matching(t, o) : a = Ada \/ a = Claims(t)[c].asset

IsLegal_TaggedOnly(t, o) == \A a \in PayoutDelta(t) : o.tag = None \/ AllowsAsset(t, o, a)

\* What is paid out may land with the protocol or at a stream's tagged output,
\* ADA at any of them.
IsLegal(t, o) ==
  \/ o.to \in {WalletOf(t), ThreadOf(t)}
  \/ \A a \in PayoutDelta(t) : o.value[a] = 0 \/ AllowsAsset(t, o, a)

Tagged(t, a) ==
  ValueOf({o \in DOMAIN outputs : \E c \in Matching(t, o) : Claims(t)[c].asset = a})[a]

TaggedQuantitiesMatch(t) ==
  \A a \in PayoutDelta(t) :
    IF a = Ada THEN Tagged(t, a) >= Due(t)[a] ELSE Tagged(t, a) = Due(t)[a]

Continuing(t) == {o \in DOMAIN outputs : o.to = WalletOf(t)}
CountOf(S) == SumOf(outputs, S)

ExactWithdrawal(t) ==
  /\ CountOf(Continuing(t)) <= plan[t].coins
  /\ ValueOf({o \in DOMAIN outputs : o.to = WalletOf(t)}) = [a \in Asset |-> plan[t].purse[a] - Due(t)[a]]

SettlementIsRouted(t) ==
  /\ ExactWithdrawal(t)
  /\ PayoutDelta(t) # {} => /\ \A o \in DOMAIN outputs : IsLegal(t, o)
                            /\ TaggedQuantitiesMatch(t)

\* One output per heir, of its part exactly; ADA may be more.
AllSharesArePaid(t) ==
  \A c \in DOMAIN Claims(t) :
    LET tagged == {o \in DOMAIN outputs : o.tag = <<t, c>>}
    IN  /\ CountOf(tagged) = 1
        /\ \A o \in tagged :
             /\ o.to = Claims(t)[c].to
             /\ o.value[Ada] >= Claims(t)[c].due[Ada]
             /\ \A a \in Asset \ {Ada} : o.value[a] = Claims(t)[c].due[a]

DistributionIsRouted(t) ==
  /\ plan[t].coins = 1
  /\ Continuing(t) = {}
  /\ AllSharesArePaid(t)

\* A wallet's validator runs when one of its UTxOs is spent.
WalletAccepts(t) ==
  plan[t].coins > 0 =>
    IF Settles(t) THEN SettlementIsRouted(t) ELSE DistributionIsRouted(t)

-----------------------------------------------------------------------------
(* The transaction. *)

Brought == [a \in Asset |-> funds[a] + SumOf([t \in Thread |-> plan[t].purse[a]], Thread)]
Placed == ValueOf(DOMAIN outputs)

Value == {v \in [Asset -> 0..SumOf(Brought, Asset)] : v # Zero /\ \A a \in Asset : v[a] + Placed[a] <= Brought[a]}

Tag == {None} \cup UNION {{<<t, c>> : c \in DOMAIN Claims(t)} : t \in Thread}

Init ==
  /\ plan \in Plans
  /\ funds \in Funds
  /\ outputs = EmptyBag
  /\ accepted = FALSE

\* A thread's own output carries its State, and no more than an addition in ADA.
Place ==
  /\ ~accepted
  /\ BagCardinality(outputs) < MaxOutputs
  /\ \E to \in Address, tag \in Tag, v \in Value :
       /\ to \in {ThreadOf(t) : t \in Thread}
          => tag = None /\ \A a \in Asset \ {Ada} : v[a] = 0
       /\ outputs' = outputs (+) SetToBag({[to |-> to, tag |-> tag, value |-> v]})
  /\ UNCHANGED <<plan, funds, accepted>>

\* The ledger: nothing is lost, and every validator concerned accepts.
Submit ==
  /\ ~accepted
  /\ Placed = Brought
  /\ \A t \in Thread : SttAccepts(t) /\ WalletAccepts(t)
  /\ accepted' = TRUE
  /\ UNCHANGED <<plan, funds, outputs>>

Next == Place \/ Submit

Spec == Init /\ [][Next]_payoutVars
-----------------------------------------------------------------------------
(* Properties. *)

\* What a thread owes at some addresses.
OwedTo(t, where, a) ==
  SumOf([c \in DOMAIN Claims(t) |-> Claims(t)[c].due[a]],
        {c \in DOMAIN Claims(t) : Claims(t)[c].to \in where})

Expected(p) == [a \in Asset |-> SumOf([t \in Thread |-> OwedTo(t, {p}, a)], Thread)]

\* Whoever has several claims in one transaction, on one wallet or on several,
\* gets all of them: no output serves twice (payout.ak:341-362).
EveryClaimIsPaid ==
  accepted => \A p \in Address, a \in Asset :
                ValueOf({o \in DOMAIN outputs : o.to = p})[a] >= Expected(p)[a]

IsSpent(t) == plan[t].coins > 0
SpentWallets == {WalletOf(t) : t \in {u \in Thread : IsSpent(u)}}

IsPayee(p, t) == \E c \in DOMAIN Claims(t) : Claims(t)[c].to = p

\* What is owed to a wallet of the transaction itself may be an output that this
\* wallet has to get back anyway.  As much is then left over, and the validators
\* assign it to nobody: in a settlement only if it is ADA, and to outputs of its
\* payees (payout_routing.ak:178-183, payout.ak:353-356); in a distribution any
\* asset.
Unassigned(p, a) ==
  SumOf([t \in Thread |->
           IF IsSpent(t) /\ (Settles(t) => a = Ada /\ IsPayee(p, t))
           THEN OwedTo(t, SpentWallets, a) ELSE 0], Thread)

\* The author of settlements and distributions gets what it brought and what it
\* is owed itself, if it is a payee or an heir, and no more, wherever it puts
\* their outputs; but for what is unassigned (payout_routing.ak:36-43).
AuthorNeverGains ==
  accepted => \A a \in Asset :
    ValueOf({o \in DOMAIN outputs : o.to = Author})[a]
      <= funds[a] + Expected(Author)[a] + Unassigned(Author, a)
=============================================================================
