-------------------------- MODULE StateConfiguration --------------------------
(***************************************************************************)
(* Which states mint and UpdateState accept, and the weighted multisig     *)
(* (lib/state/configuration.ak, lib/state/proof_of_life.ak).               *)
(*                                                                         *)
(* Users and beneficiaries are functions from ids to                       *)
(*   user        [wallets, admin, keeper, power, perDay, remaining, reset] *)
(*   beneficiary [wallets, after, weight]                                  *)
(* keeper is can_renew_proof_of_life; power is multi_sig_power, with None  *)
(* as 0 because neither counts; after is unlock_after or None.  Bundles of *)
(* assets are functions from Asset.  Lengths in bytes, address shapes and  *)
(* the caps on wallets and allowance entries per record are left out: they *)
(* bound the size of the datum and no other rule reads them.               *)
(***************************************************************************)
EXTENDS StreamingPayments, Functions

CONSTANTS
  None,        \* an absent optional value
  MaxUsers,    \* max_users
  MaxAccess    \* max_access_records

ASSUME NoneAssumption == None \notin Int
ASSUME MaxUsersAssumption == MaxUsers \in Nat
ASSUME MaxAccessAssumption == MaxAccess \in Nat

BoundedOption(n) == n # None => Bounded(n)

-----------------------------------------------------------------------------
(* The weighted multisig: the same sum decides what a quorum may do and    *)
(* whether a quorum could ever form.                                       *)

Power(us) == [u \in DOMAIN us |-> us[u].power]

SummedPower(power, counted) == FoldFunctionOnSet(+, 0, power, counted)

MultisigThresholdIsMet(us, required, counted) ==
  /\ required # None
  /\ required > 0
  /\ SummedPower(Power(us), counted) >= required

Signable(records) == {r \in DOMAIN records : records[r].wallets # {}}

HasReachableAccessPath(us, required, bs) ==
  \/ \E u \in Signable(us) : us[u].admin
  \/ MultisigThresholdIsMet(us, required, Signable(us))
  \/ DOMAIN bs # {}

-----------------------------------------------------------------------------
(* A configuration is [users, threshold, beneficiaries, unlock, increment]. *)

UsersAreValid(us) ==
  /\ Cardinality(DOMAIN us) <= MaxUsers
  /\ \A u \in DOMAIN us :
       /\ Bounded(us[u].reset) /\ Bounded(us[u].power)
       /\ \A a \in DOMAIN us[u].perDay : Bounded(us[u].perDay[a])
       /\ \A a \in DOMAIN us[u].remaining : Bounded(us[u].remaining[a])
  /\ \A u, v \in DOMAIN us :
       u # v /\ us[u].power > 0 /\ us[v].power > 0
         => us[u].wallets \cap us[v].wallets = {}

BeneficiariesAreValid(bs) ==
  /\ \A b \in DOMAIN bs :
       /\ bs[b].weight >= 1 /\ Bounded(bs[b].weight)
       /\ BoundedOption(bs[b].after)
       /\ bs[b].wallets # {}
  /\ \A b, c \in DOMAIN bs : b # c => bs[b].wallets \cap bs[c].wallets = {}

ProofOfLifeIsValid(time, step) ==
  \/ time = None /\ step = None
  \/ /\ time # None /\ step # None
     /\ Bounded(time) /\ Bounded(step) /\ step >= 1

BeneficiariesRequireProofOfLife(bs, time) == DOMAIN bs = {} \/ time # None

AccessIsValid(us, required, bs, time) ==
  /\ BoundedOption(required)
  /\ Cardinality(DOMAIN us) + Cardinality(DOMAIN bs) <= MaxAccess
  /\ UsersAreValid(us)
  /\ BeneficiariesAreValid(bs)
  /\ BeneficiariesRequireProofOfLife(bs, time)
  /\ HasReachableAccessPath(us, required, bs)

ValidConfiguration(c, ss, stampedAt) ==
  /\ BoundedOption(stampedAt)
  /\ StreamsAreValid(ss)
  /\ ProofOfLifeIsValid(c.unlock, c.increment)
  /\ AccessIsValid(c.users, c.threshold, c.beneficiaries, c.unlock)
=============================================================================
