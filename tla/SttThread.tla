------------------------------ MODULE SttThread ------------------------------
(***************************************************************************)
(* The state-thread-token validator of an Epora wallet: one UTxO carries   *)
(* the wallet's State and every transaction that spends it replaces the    *)
(* State under one SttAction (validators/stt.ak, lib/stt/*.ak).            *)
(*                                                                         *)
(* The UTxO is a singleton, so transactions on it are serialised: a step   *)
(* is one accepted transaction of any actor, or the passage of time.  What *)
(* makes the contract hard is that a transaction does not know the time.   *)
(* It carries a validity range [lo, hi], either end of which may be open,  *)
(* and the ledger promises only lo <= now <= hi; its author chooses both   *)
(* ends.  Rules read lo where a deadline must have passed and hi where     *)
(* something must not lie in the past.                                     *)
(*                                                                         *)
(* SigningKey is the set of keys somebody still holds: a key outside it is *)
(* lost.  Value in the wallet's own UTxOs is not part of this module.      *)
(*                                                                         *)
(* A definition named Rule_Mistake is what Rule would be with that mistake *)
(* in the code.  No action uses it: it is there to be put in the place of  *)
(* Rule, to see that the properties notice.                                *)
(***************************************************************************)
EXTENDS StateConfiguration

CONSTANTS
  Key, SigningKey,
  UserId, BeneficiaryId, StreamId, Asset, Name, StakeCredential,
  Configurations,  \* the access configurations somebody may ask for
  StreamRecord,    \* the streams somebody may ask for
  MintStreams,     \* the stream sets somebody may mint with
  ScheduleDate,    \* the dates operators and keepers choose from
  Cooldown,        \* non_admin_payout_cooldown_ms
  MaxWindow,       \* max_payout_validity_window_ms
  MaxTime          \* bound: the clock stops here

ASSUME KeyAssumption == SigningKey \subseteq Key /\ None \notin Key
ASSUME CooldownAssumption == Cooldown \in Nat \ {0}
ASSUME MaxWindowAssumption == MaxWindow \in Nat
ASSUME MaxTimeAssumption == MaxTime \in 0..MaxStateInteger
ASSUME ScheduleDateAssumption == ScheduleDate \subseteq Int

\* Lists of the datum are finite.
ASSUME IdAssumption ==
  IsFiniteSet(UserId) /\ IsFiniteSet(BeneficiaryId) /\ IsFiniteSet(StreamId)

\* What decodes as a user, a beneficiary, a stream or a configuration: integers
\* of any size and sign, which the rules below then bound.
User ==
  [wallets : SUBSET Key, admin : BOOLEAN, keeper : BOOLEAN, power : Int,
   perDay : [Asset -> Int], remaining : [Asset -> Int], reset : Int]

Beneficiary ==
  [wallets : SUBSET Key, after : Int \cup {None}, weight : Int]

StreamingPayment ==
  [payee : Key \cup {None}, asset : Asset, rate : Int, start : Int, end : Int, paid : Int]

IsTable(table, ids, records) ==
  DOMAIN table \subseteq ids /\ table \in [DOMAIN table -> records]

ASSUME ConfigurationsAssumption ==
  \A c \in Configurations :
    /\ IsTable(c.users, UserId, User)
    /\ c.threshold \in Int \cup {None}
    /\ IsTable(c.beneficiaries, BeneficiaryId, Beneficiary)
    /\ c.unlock \in Int \cup {None}
    /\ c.increment \in Int \cup {None}

ASSUME StreamsAssumption ==
  /\ StreamRecord \subseteq StreamingPayment
  /\ \A ss \in MintStreams : IsTable(ss, StreamId, StreamingPayment)

VARIABLES
  now,            \* the ledger's clock
  users,          \* access.users
  threshold,      \* access.multi_sig_threshold
  beneficiaries,  \* access.beneficiaries
  unlock,         \* proof_of_life.unlock_time
  increment,      \* proof_of_life.increment
  streams,        \* streaming_payments
  name,           \* wallet_name
  stake,          \* intended_stake_credential
  stamp           \* last_non_admin_payout_at

access == <<users, threshold, beneficiaries>>
labels == <<name, stake>>
vars == <<now, users, threshold, beneficiaries, unlock, increment,
          streams, name, stake, stamp>>

CurrentConfiguration ==
  [users |-> users, threshold |-> threshold, beneficiaries |-> beneficiaries,
   unlock |-> unlock, increment |-> increment]

Time == 0..MaxStateInteger

Without_Blanked(table, id) == [table EXCEPT ![id] = None]
Without(table, id) == Restrict(table, DOMAIN table \ {id})

-----------------------------------------------------------------------------
(* Transactions. *)

Transaction ==
  [lo : (0..now) \cup {None},
   hi : (now..MaxStateInteger) \cup {None},
   signers : SUBSET SigningKey]

FiniteRange(tx) == tx.lo # None /\ tx.hi # None

Signed(tx, wallets) == wallets \cap tx.signers # {}

-----------------------------------------------------------------------------
(* Who may act. *)

SignedUsers(tx) == {u \in DOMAIN users : Signed(tx, users[u].wallets)}

HasAdminAuthority(tx) == \E u \in SignedUsers(tx) : users[u].admin

HasMultisigAuthority(tx) ==
  MultisigThresholdIsMet(users, threshold, SignedUsers(tx))

HasOperatorAuthority(tx) == HasAdminAuthority(tx) \/ HasMultisigAuthority(tx)

HasAnyPayeeAuthority(tx) == \E s \in DOMAIN streams : streams[s].payee \in tx.signers

IsLivenessKeeper(u) == ~users[u].admin /\ users[u].keeper

\* The later of a beneficiary's own delay and the proof-of-life deadline.
BeneficiaryUnlockTime(b) ==
  IF beneficiaries[b].after = None
  THEN unlock
  ELSE Larger(beneficiaries[b].after, unlock)

\* Unlocked at an instant: never, while proof of life is unconfigured.
IsUnlockedAt(b, time) == unlock # None /\ BeneficiaryUnlockTime(b) <= time

IsUnlocked_ByUpperBound(tx, b) == tx.hi # None /\ IsUnlockedAt(b, tx.hi)
IsUnlocked(tx, b) == tx.lo # None /\ IsUnlockedAt(b, tx.lo)

UnlockedSigners(tx) ==
  {b \in DOMAIN beneficiaries :
     IsUnlocked(tx, b) /\ Signed(tx, beneficiaries[b].wallets)}

IsSole(b) == DOMAIN beneficiaries = {b}

FinalRecoveryIsActive(tx) == \E b \in DOMAIN beneficiaries : IsSole(b) /\ IsUnlocked(tx, b)

-----------------------------------------------------------------------------
(* Rules several actions share. *)

\* A renewal moves the deadline forward, past the range and within the increment.
RenewalIsValid_FromUpperBound(tx, time) ==
  \/ time = unlock
  \/ /\ FiniteRange(tx) /\ increment # None /\ time # None
     /\ Bounded(time)
     /\ time >= tx.hi
     /\ time <= tx.hi + increment
     /\ unlock # None => time >= unlock

RenewalIsValid(tx, time) ==
  \/ time = unlock
  \/ /\ FiniteRange(tx) /\ increment # None /\ time # None
     /\ Bounded(time)
     /\ time >= tx.hi
     /\ time <= tx.lo + increment
     /\ unlock # None => time >= unlock

Renew(tx) ==
  \E time \in ScheduleDate \cup {unlock} : RenewalIsValid(tx, time) /\ unlock' = time

\* One wallet-wide clock spaces every non-admin settlement, stop and final recovery.
NonAdminCadence_AnyWindow(tx) ==
  /\ FiniteRange(tx)
  /\ stamp # None => tx.lo >= stamp + Cooldown
  /\ stamp' = tx.hi

NonAdminCadence_StampsLowerBound(tx) ==
  /\ FiniteRange(tx)
  /\ tx.hi - tx.lo <= MaxWindow
  /\ stamp # None => tx.lo >= stamp + Cooldown
  /\ stamp' = tx.lo

NonAdminCadence(tx) ==
  /\ FiniteRange(tx)
  /\ tx.hi - tx.lo <= MaxWindow
  /\ stamp # None => tx.lo >= stamp + Cooldown
  /\ stamp' = tx.hi

BeneficiaryCadence(tx, b) == IF IsSole(b) THEN NonAdminCadence(tx) ELSE stamp' = stamp

StopStream(tx, s, exact) ==
  \E end \in Time :
    /\ NonAdminCadence(tx)
    /\ end < streams[s].end
    /\ end >= Cutoff(streams[s], tx.hi)
    /\ exact => end = Cutoff(streams[s], tx.hi)
    /\ streams' = [streams EXCEPT ![s].end = end]
    /\ StreamsAreValid(streams')
    /\ UNCHANGED <<now, access, unlock, increment, labels>>

-----------------------------------------------------------------------------
(* Operator actions: an admin's signature or a multisig quorum. *)

OperatorUse(tx) ==
  /\ HasOperatorAuthority(tx)
  /\ Renew(tx)
  /\ UNCHANGED <<now, access, increment, streams, labels, stamp>>

\* The streams are forwarded as they are; only the Admin path may rename.
UpdateState(tx) ==
  \E c \in Configurations, label \in Name :
    /\ HasAdminAuthority(tx) \/ (HasMultisigAuthority(tx) /\ label = name)
    /\ ValidConfiguration(c, streams, stamp)
    /\ users' = c.users
    /\ threshold' = c.threshold
    /\ beneficiaries' = c.beneficiaries
    /\ unlock' = c.unlock
    /\ increment' = c.increment
    /\ name' = label
    /\ UNCHANGED <<now, streams, stake, stamp>>

\* Existing streams are forwarded or rescheduled, new ones are born unsettled.
Rescheduled(tx, added, fresh, end) ==
  /\ \A s \in added : StreamIsFresh(fresh[s])
  /\ \A s \in DOMAIN streams : end[s] >= EndDateFloor(streams[s], tx.hi, None)
  /\ streams' = [s \in DOMAIN streams \cup added |->
                   IF s \in added THEN fresh[s] ELSE [streams[s] EXCEPT !.end = end[s]]]

EndDate == ScheduleDate \cup {streams[s].end : s \in DOMAIN streams}

ManageStreamingPayments(tx) ==
  /\ HasOperatorAuthority(tx)
  /\ \E added \in SUBSET (StreamId \ DOMAIN streams) :
       \E fresh \in [added -> StreamRecord], end \in [DOMAIN streams -> EndDate] :
         Rescheduled(tx, added, fresh, end)
  /\ StreamsAreValid(streams')
  /\ Renew(tx)
  /\ UNCHANGED <<now, access, increment, labels, stamp>>

AccessIndexRemoved ==
  \/ \E u \in DOMAIN users : users' = Without(users, u) /\ UNCHANGED beneficiaries
  \/ \E b \in DOMAIN beneficiaries :
       beneficiaries' = Without(beneficiaries, b) /\ UNCHANGED users

RemoveAccessIndex_Unchecked(tx) ==
  /\ HasOperatorAuthority(tx)
  /\ AccessIndexRemoved
  /\ UNCHANGED <<now, threshold, unlock, increment, streams, labels, stamp>>

\* One user or one beneficiary leaves; only reachability is checked again.
RemoveAccessIndex(tx) ==
  /\ HasOperatorAuthority(tx)
  /\ AccessIndexRemoved
  /\ HasReachableAccessPath(users', threshold, beneficiaries')
  /\ UNCHANGED <<now, threshold, unlock, increment, streams, labels, stamp>>

SetIntendedStakeCredential(tx) ==
  /\ HasOperatorAuthority(tx)
  /\ stake' \in StakeCredential \cup {None}
  /\ UNCHANGED <<now, access, unlock, increment, streams, name, stamp>>

-----------------------------------------------------------------------------
(* User actions. *)

\* A liveness keeper's renewal must move the deadline.
RenewProofOfLife(tx) ==
  /\ \E u \in SignedUsers(tx) : IsLivenessKeeper(u)
  /\ Renew(tx)
  /\ unlock' # unlock
  /\ UNCHANGED <<now, access, increment, streams, labels, stamp>>

\* What a user may still draw: a new day's budget once the range is past the reset.
EffectiveAllowance(u, earliest) ==
  IF users[u].reset <= earliest THEN users[u].perDay ELSE users[u].remaining

NextReset_Earlier(u, latest) == Smaller(users[u].reset, latest + Day)
NextReset(u, latest) == Larger(users[u].reset, latest + Day)

\* One user draws and pushes its own reset a day past the range.  An eligible
\* user with the same wallets makes the draw a renewal too.
DrawAllowance(tx, u, left) ==
  LET budget == EffectiveAllowance(u, tx.lo)
      reset == NextReset(u, tx.hi)
  IN  /\ \A a \in Asset : left[a] <= budget[a]
      /\ left # budget
      /\ Bounded(reset)
      /\ users' = [users EXCEPT ![u].remaining = left, ![u].reset = reset]

UseAllowance(tx) ==
  /\ FiniteRange(tx)
  /\ \E u \in SignedUsers(tx) :
       /\ \E left \in [Asset -> 0..MaxStateInteger] : DrawAllowance(tx, u, left)
       /\ Renew(tx)
       /\ \/ unlock' = unlock
          \/ \E v \in DOMAIN users : IsLivenessKeeper(v) /\ users[v].wallets = users[u].wallets
  /\ UNCHANGED <<now, threshold, beneficiaries, increment, streams, labels, stamp>>

-----------------------------------------------------------------------------
(* Beneficiary actions. *)

\* The one unlocked signer draws its share.  An earlier beneficiary leaves; the
\* last one stays, so that recovery can be retried, and is held to the cadence.
UseBeneficiary(tx, b) ==
  /\ UnlockedSigners(tx) = {b}
  /\ BeneficiaryCadence(tx, b)
  /\ beneficiaries' = IF IsSole(b)
                      THEN beneficiaries
                      ELSE Without(beneficiaries, b)
  /\ UNCHANGED <<now, users, threshold, unlock, increment, streams, labels>>

\* One signature pays everybody, once every beneficiary is unlocked and no stream is left.
DistributeBeneficiaries(tx, b) ==
  /\ DOMAIN streams = {}
  /\ \A c \in DOMAIN beneficiaries : IsUnlocked(tx, c)
  /\ Signed(tx, beneficiaries[b].wallets)
  /\ BeneficiaryCadence(tx, b)
  /\ UNCHANGED <<now, access, unlock, increment, streams, labels>>

StopBeneficiaryStream(tx, b, s) ==
  /\ UnlockedSigners(tx) = {b}
  /\ StopStream(tx, s, TRUE)

-----------------------------------------------------------------------------
(* Settlement. *)

CancelStreamingPayment_AnyEnd(tx, s) ==
  /\ streams[s].payee \in tx.signers
  /\ StopStream(tx, s, FALSE)

\* A payee stops its own stream: anywhere above the cutoff at first, exactly at
\* it once the last beneficiary has unlocked.
CancelStreamingPayment(tx, s) ==
  /\ streams[s].payee \in tx.signers
  /\ StopStream(tx, s, FinalRecoveryIsActive(tx))

\* An admin cranks at will and leaves the clock alone.  Everybody else keeps the
\* cadence, and once the last beneficiary has unlocked only that beneficiary may.
CrankIsAuthorized(tx) ==
  IF HasAdminAuthority(tx)
  THEN stamp' = stamp
  ELSE /\ \/ UnlockedSigners(tx) # {}
          \/ /\ ~FinalRecoveryIsActive(tx)
             /\ SignedUsers(tx) # {} \/ HasAnyPayeeAuthority(tx)
       /\ NonAdminCadence(tx)

Settled(tx, kept, paid) ==
  /\ \A s \in DOMAIN streams \ kept : Removable(streams[s], tx.lo)
  /\ \A s \in kept : RetainedWith(streams[s], paid[s], tx.lo)
  /\ streams' = [s \in kept |-> [streams[s] EXCEPT !.paid = paid[s]]]

PayStreamingPayment(tx) ==
  /\ FiniteRange(tx)
  /\ CrankIsAuthorized(tx)
  /\ \E kept \in SUBSET DOMAIN streams : \E paid \in [kept -> 0..MaxStateInteger] :
       Settled(tx, kept, paid)
  /\ UNCHANGED <<now, access, unlock, increment, labels>>

\* Wallet UTxOs are repartitioned; the State stays as it is.
Consolidate(tx) ==
  /\ HasOperatorAuthority(tx) \/ UnlockedSigners(tx) # {}
  /\ UNCHANGED vars

-----------------------------------------------------------------------------
(* The specification. *)

\* Mint: a valid configuration, unsettled streams, an unset clock.
Init ==
  /\ now = 0
  /\ \E c \in Configurations, ss \in MintStreams :
       /\ ValidConfiguration(c, ss, None)
       /\ \A s \in DOMAIN ss : StreamIsFresh(ss[s])
       /\ users = c.users
       /\ threshold = c.threshold
       /\ beneficiaries = c.beneficiaries
       /\ unlock = c.unlock
       /\ increment = c.increment
       /\ streams = ss
  /\ name \in Name
  /\ stake \in StakeCredential \cup {None}
  /\ stamp = None

Tick ==
  /\ now < MaxTime
  /\ now' = now + 1
  /\ UNCHANGED <<access, unlock, increment, streams, labels, stamp>>

Operate(tx) ==
  \/ OperatorUse(tx)
  \/ UpdateState(tx)
  \/ ManageStreamingPayments(tx)
  \/ RemoveAccessIndex(tx)
  \/ SetIntendedStakeCredential(tx)

Recover(tx) ==
  \/ \E b \in DOMAIN beneficiaries : UseBeneficiary(tx, b)
  \/ \E b \in DOMAIN beneficiaries : DistributeBeneficiaries(tx, b)
  \/ \E b \in DOMAIN beneficiaries, s \in DOMAIN streams : StopBeneficiaryStream(tx, b, s)

Settle(tx) ==
  \/ \E s \in DOMAIN streams : CancelStreamingPayment(tx, s)
  \/ PayStreamingPayment(tx)
  \/ Consolidate(tx)

Accept(tx) ==
  Operate(tx) \/ RenewProofOfLife(tx) \/ UseAllowance(tx) \/ Recover(tx) \/ Settle(tx)

Next == Tick \/ \E tx \in Transaction : Accept(tx)

Spec == Init /\ [][Next]_vars
-----------------------------------------------------------------------------
(* Properties. *)

\* Every part of the State keeps its type, and the clock its bound.
TypeOK ==
  /\ now \in 0..MaxTime
  /\ IsTable(users, UserId, User)
  /\ threshold \in Int \cup {None}
  /\ IsTable(beneficiaries, BeneficiaryId, Beneficiary)
  /\ unlock \in Int \cup {None}
  /\ increment \in Int \cup {None}
  /\ IsTable(streams, StreamId, StreamingPayment)
  /\ stamp \in Int \cup {None}

\* Only mint and UpdateState check the whole configuration.  Every other action
\* relies on it and must leave it true: unique wallets, positive weights, paired
\* proof of life, shaped streams, a reachable access path.
ConfigurationStaysValid == ValidConfiguration(CurrentConfiguration, streams, stamp)

\* Nobody is paid ahead of the real time, whatever range a crank declares and
\* however streams are stopped or rescheduled around it.
PaidWithinAccrued ==
  \A s \in DOMAIN streams : streams[s].paid <= Entitlement(streams[s], now)

\* The crank treats every stream of the wallet at once, so one stream it could
\* neither keep nor remove would block all the others.  At every lower bound it
\* may remove a stream or pay what has accrued, short of the last unit.
CrankIsNeverWedged ==
  \A s \in DOMAIN streams, earliest \in 0..now :
    LET due == Larger(streams[s].paid, AccruedAt(streams[s], earliest))
    IN  \/ Removable(streams[s], earliest)
        \/ RetainedWith(streams[s], Smaller(due, LifetimeTotal(streams[s]) - 1), earliest)

\* Settlements never take away the right to stop: whatever has been paid, the
\* stream cut off at any upper bound still owes at least that much and may be stored.
StopIsNeverRefused ==
  \A s \in DOMAIN streams, latest \in now..MaxStateInteger :
    LET cut == Cutoff(streams[s], latest)
    IN  cut < streams[s].end => StreamIsShaped([streams[s] EXCEPT !.end = cut])

\* The shared clock is at most one window ahead, so a distant upper bound cannot
\* freeze the settlements, cancellations and the final recovery that wait for it.
ClockIsNear == stamp # None => stamp <= now + MaxWindow

\* What a payee has accrued by now survives every rewrite of its stream, and a
\* stream disappears only when nothing is left to accrue on it.
NoClawback ==
  [][\A s \in DOMAIN streams :
       IF s \in DOMAIN streams'
       THEN /\ Entitlement(streams[s], now) <= Entitlement(streams'[s], now)
            /\ streams[s].paid <= streams'[s].paid
       ELSE LifetimeTotal(streams[s]) \in {Entitlement(streams[s], now), streams[s].paid}]_vars

\* Without an operator a beneficiary leaves only after its own unlock, in real
\* time, and the last beneficiary never leaves: recovery can always be retried.
RecoveryIsOrderly ==
  [][\/ /\ \A b \in DOMAIN beneficiaries \ DOMAIN beneficiaries' : IsUnlockedAt(b, now)
        /\ DOMAIN beneficiaries # {} => DOMAIN beneficiaries' # {}
     \/ \E tx \in Transaction : Operate(tx)]_vars

\* Outside UpdateState the deadline is never brought forward, never set in the
\* past and never set further than one increment from the real time.
RenewalIsBounded ==
  [][unlock' # unlock =>
       \/ {unlock, unlock'} \subseteq Int /\ unlock <= unlock' /\ unlock' \in now..(now + increment)
       \/ \E tx \in Transaction : UpdateState(tx)]_vars

\* Non-admin uses of the shared clock are a cooldown apart in real time and
\* never stamp the past.
CadenceIsKept ==
  [][stamp' # stamp => stamp' >= now /\ (stamp # None => now >= stamp + Cooldown)]_vars
=============================================================================
