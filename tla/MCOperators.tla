------------------------------ MODULE MCOperators ------------------------------
(***************************************************************************)
(* Operators reconfigure a running wallet: an admin, a quorum of two       *)
(* members one of which is also the liveness keeper, an heir who is still  *)
(* locked out, and a stream that is added, rescheduled and settled.  A     *)
(* wallet with a spender runs longer: the admin may configure the spender  *)
(* again, with more left than a day's budget.  Each range the client       *)
(* declares has its automatic renewal among the dates.                     *)
(***************************************************************************)
EXTENDS AllowanceVelocity, TransactionBuilders, TLC

CONSTANTS ann, kim, mia, bob, owner, member, keeper, heir, stream, ada, label

MCKey == {ann, kim, mia, bob}
MCSigningKey == {ann, kim, mia}
MCUserId == {owner, member, keeper}
MCBeneficiaryId == {heir}
MCStreamId == {stream}
MCAsset == {ada}
MCName == {label}

MCScheduleDate == {1, 2, 3, 4}

NoAllowance == [a \in MCAsset |-> 0]

Person(wallets, isAdmin, isKeeper, power) ==
  [wallets |-> wallets, admin |-> isAdmin, keeper |-> isKeeper, power |-> power,
   perDay |-> NoAllowance, remaining |-> NoAllowance, reset |-> 0]

Quorum(kimsWallets) ==
  member :> Person(kimsWallets, FALSE, FALSE, 1) @@ keeper :> Person({mia}, FALSE, TRUE, 1)

Heir == heir :> [wallets |-> {bob}, after |-> None, weight |-> 1]

\* A budget of 2 a day; what is left at first, and when it renews.
Spender(remaining, reset) ==
  keeper :> [wallets |-> {mia}, admin |-> FALSE, keeper |-> TRUE, power |-> 0,
             perDay |-> [a \in MCAsset |-> 2],
             remaining |-> [a \in MCAsset |-> remaining], reset |-> reset]

Setup(us, required, bs, time) ==
  [users |-> us, threshold |-> required, beneficiaries |-> bs,
   unlock |-> time, increment |-> IF time = None THEN None ELSE 2]

\* Three that are valid; then a shared wallet, an unreachable quorum, an heir
\* without proof of life, and a quorum that needs no power; then two spenders,
\* one with a fresh budget and one with a larger first day.
MCConfigurations ==
  {Setup(owner :> Person({ann}, TRUE, FALSE, 0) @@ Quorum({kim}), 2, Heir, 2),
   Setup(Quorum({kim}), 2, <<>>, None),
   Setup(keeper :> Person({mia}, FALSE, TRUE, 1), 2, Heir, 1),
   Setup(Quorum({mia}), 2, Heir, 1),
   Setup(Quorum({}), 2, <<>>, None),
   Setup(Quorum({kim}), 2, Heir, None),
   Setup(Quorum({kim}), 0, <<>>, None),
   Setup(owner :> Person({ann}, TRUE, FALSE, 0) @@ Spender(2, 0), None, <<>>, None),
   Setup(owner :> Person({ann}, TRUE, FALSE, 0) @@ Spender(3, 3), None, <<>>, None)}

Stream(from, to) ==
  [payee |-> kim, asset |-> ada, rate |-> 2, start |-> from, end |-> to, paid |-> 0]

MCStreamRecord == {Stream(0, 2), Stream(2, 3)}
MCMintStreams == {<<>>, stream :> Stream(0, 3)}

\* A wallet with a spender keeps its users, runs longer and pays no streams; of
\* the others, those with a stream and without an admin run longer.
ScopedSpec ==
  /\ AllowanceInit
  /\ [][/\ AllowanceNext
        /\ (IF \E u \in DOMAIN users : users[u].perDay # NoAllowance
            THEN DOMAIN users = {owner, keeper} /\ streams = <<>>
            ELSE now <= (IF owner \in DOMAIN users \/ streams = <<>> THEN 1 ELSE 2))']_allowanceVars
=============================================================================
