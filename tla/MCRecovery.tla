------------------------------ MODULE MCRecovery ------------------------------
(***************************************************************************)
(* A wallet whose users have lost every key.  Two beneficiaries remain,    *)
(* one of which unlocks later than the other, and two streams run, one to  *)
(* a key and one to a script.                                              *)
(***************************************************************************)
EXTENDS RecoveryDelay, TransactionBuilders, TLC

CONSTANTS ann, bob, cal, dan,  \* keys: ann's is lost
          owner, member, heir1, heir2, stream1, stream2, ada, label

MCKey == {ann, bob, cal, dan}
MCSigningKey == {bob, cal, dan}
MCUserId == {owner, member}
MCBeneficiaryId == {heir1, heir2}
MCStreamId == {stream1, stream2}
MCAsset == {ada}
MCName == {label}
MCScheduleDate == {}

NoAllowance == [a \in MCAsset |-> 0]

Person(wallet, isAdmin) ==
  [wallets |-> {wallet}, admin |-> isAdmin, keeper |-> FALSE, power |-> 0,
   perDay |-> NoAllowance, remaining |-> NoAllowance, reset |-> 0]

Heirs ==
  heir1 :> [wallets |-> {bob}, after |-> None, weight |-> 1]
    @@ heir2 :> [wallets |-> {cal}, after |-> 3, weight |-> 2]

Estate(us, bs) ==
  [users |-> us, threshold |-> None, beneficiaries |-> bs,
   unlock |-> 1, increment |-> 3]

\* Both heirs and no user, or the first heir beside the records of the owner and
\* of a member.
MCConfigurations ==
  {Estate(<<>>, Heirs), Estate(owner :> Person(ann, TRUE) @@ member :> Person(cal, FALSE), Restrict(Heirs, {heir1}))}

Salary == [payee |-> dan, asset |-> ada, rate |-> 2, start |-> 0, end |-> 7, paid |-> 0]
Rent == [payee |-> None, asset |-> ada, rate |-> 1, start |-> 1, end |-> 4, paid |-> 0]

MCMintStreams == {stream1 :> Salary @@ stream2 :> Rent, stream1 :> Salary}
=============================================================================
