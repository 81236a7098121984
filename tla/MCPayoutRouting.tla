---------------------------- MODULE MCPayoutRouting ----------------------------
(***************************************************************************)
(* Settlements with and without the wallet's money, of two streams of one  *)
(* payee, of a token and of ADA, of one that pays the wallet itself, of    *)
(* two deployments at once, one of which may pay the other's wallet, and a *)
(* distribution between two heirs, or to the other deployment's wallet.    *)
(* The author may be a payee or an heir.                                   *)
(***************************************************************************)
EXTENDS PayoutRouting, TLC

CONSTANTS ada, tok, one, two, pat, ned, author

MCAsset == {ada, tok}
MCPayee == {pat, ned, author}

Bundle(m, n) == ada :> m @@ tok :> n

Stream(to, asset, amount) ==
  [to |-> to, asset |-> asset, due |-> [a \in MCAsset |-> IF a = asset THEN amount ELSE 0]]
Heir(to, value) == [to |-> to, asset |-> None, due |-> value]

Settle(claims, purse, coins) == [kind |-> "settle", claims |-> claims, purse |-> purse, coins |-> coins]
Alone(p) == one :> p

MCPlans ==
  {Alone(Settle(<<Stream(pat, ada, 1), Stream(pat, ada, 1)>>, purse, SumOf(purse, MCAsset))) :
     purse \in {Bundle(0, 0), Bundle(2, 0)}}
  \cup
  {Alone(Settle(<<Stream(<<"wallet", one>>, a, 1), Stream(to, a, 0)>>, purse, SumOf(purse, MCAsset))) :
     to \in {ned, author}, a \in MCAsset, purse \in {Bundle(0, 0), Bundle(2, 0), Bundle(0, 2)}}
  \cup
  {Alone(Settle(<<Stream(pat, tok, 1), Stream(to, ada, 1)>>, purse, 1)) :
     to \in {ned, author}, purse \in {Bundle(1, 1), Bundle(2, 1)}}
  \cup
  {one :> Settle(<<Stream(pat, ada, 1)>>, first, first[ada])
     @@ two :> Settle(<<Stream(pat, ada, 1)>>, second, second[ada]) :
     first \in {Bundle(0, 0), Bundle(1, 0)}, second \in {Bundle(0, 0), Bundle(1, 0)}}
  \cup
  {one :> Settle(<<Stream(<<"wallet", two>>, ada, 1)>>, Bundle(1, 0), 1)
     @@ two :> Settle(<<Stream(to, a, 1)>>, Bundle(1, 1), 1) : to \in {pat, author}, a \in MCAsset}
  \cup
  {Alone([kind |-> "distribute",
          claims |-> <<Heir(pat, Bundle(1, 1)), Heir(to, Bundle(1, 0))>>,
          purse |-> Bundle(2, 1), coins |-> 1]) : to \in {pat, author}}
  \cup
  {one :> [kind |-> "distribute", claims |-> <<Heir(<<"wallet", two>>, Bundle(0, 1))>>,
           purse |-> Bundle(0, 1), coins |-> 1]
     @@ two :> Settle(<<Stream(pat, ada, 1)>>, Bundle(1, 1), 1)}

MCFunds == {Bundle(0, 0), Bundle(1, 0), Bundle(2, 0), Bundle(0, 1)}
=============================================================================
