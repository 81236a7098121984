-------------------------- MODULE TransactionBuilders --------------------------
(***************************************************************************)
(* What the dApp builds for the state thread.  Before anybody signs, it    *)
(* reads the State once and the time once, derives the State the           *)
(* transaction is to leave behind and refuses what it takes for doomed     *)
(* (src/lib/contracts/*.ts, src/lib/mesh/transactions/stt-spend*.ts).  It  *)
(* keeps the validator's rules a second time, in another language: where   *)
(* the two differ, either a signed transaction is rejected, or somebody    *)
(* cannot do what the contract allows.                                     *)
(*                                                                         *)
(* The module adds no state and no step.  BuildX(tx) holds of a State the  *)
(* builder of action X would leave behind; the properties compare it with  *)
(* the action X of SttThread in every state the contract reaches.  Which   *)
(* UTxOs and outputs a transaction carries is not part of this module, and *)
(* neither is who may ask for an operator's action: the pages decide that. *)
(***************************************************************************)
EXTENDS SttThread

CONSTANT BuildWindow  \* from lower to upper bound of what getValidityWindow returns

ASSUME BuildWindowAssumption == BuildWindow \in Nat

\* Every range is cut to one width around the time of building.  The transaction
\* may still be on its way when the range is about to end.
BuilderTransaction ==
  {[lo |-> from, hi |-> from + BuildWindow, signers |-> keys] :
     from \in Larger(0, now - BuildWindow)..Smaller(now, MaxStateInteger - BuildWindow),
     keys \in SUBSET SigningKey \ {{}}}

-----------------------------------------------------------------------------
(* The State as the client validates it before signing. *)

ClientOption(n) == n # None => n >= 0 /\ n <= MaxStateInteger

ClientUser(u) ==
  /\ u.reset \in Time /\ u.power \in Time
  /\ \A a \in Asset : u.perDay[a] \in Time /\ u.remaining[a] \in Time

ClientBeneficiary(b) ==
  b.wallets # {} /\ ClientOption(b.after) /\ b.weight \in Time \ {0}

\* What is paid is not compared with the lifetime total here.
ClientStream(p) ==
  /\ {p.paid, p.rate, p.start, p.end} \subseteq Time
  /\ p.start <= p.end
  /\ ((p.end - p.start) * p.rate) \div Day <= MaxStateInteger

ClientProofOfLife(time, step) ==
  \/ time = None /\ step = None
  \/ time \in Time /\ step \in Time \ {0}

\* Records that hold a wallet: none counts twice for the quorum.
PoweredRecords(us, key) == {u \in DOMAIN us : us[u].power > 0 /\ key \in us[u].wallets}
HoldersOf(bs, key) == {b \in DOMAIN bs : key \in bs[b].wallets}

QuorumIsReachable(us, required) ==
  /\ required # None
  /\ required > 0
  /\ FoldFunctionOnSet(+, 0, [u \in DOMAIN us |-> Larger(0, us[u].power)],
                       {u \in DOMAIN us : us[u].wallets # {}}) >= required

ClientAccessPath(us, required, bs) ==
  \/ \E u \in DOMAIN us : us[u].admin /\ us[u].wallets # {}
  \/ \E b \in DOMAIN bs : bs[b].wallets # {}
  \/ QuorumIsReachable(us, required)

ClientAccepts(c, ss, stampedAt) ==
  /\ ClientOption(stampedAt) /\ ClientOption(c.threshold)
  /\ Cardinality(DOMAIN c.users) <= MaxUsers
  /\ Cardinality(DOMAIN c.users) + Cardinality(DOMAIN c.beneficiaries) <= MaxAccess
  /\ \A u \in DOMAIN c.users : ClientUser(c.users[u])
  /\ \A b \in DOMAIN c.beneficiaries : ClientBeneficiary(c.beneficiaries[b])
  /\ \A key \in Key : /\ Cardinality(PoweredRecords(c.users, key)) <= 1
                      /\ Cardinality(HoldersOf(c.beneficiaries, key)) <= 1
  /\ ClientProofOfLife(c.unlock, c.increment)
  /\ DOMAIN c.beneficiaries # {} => c.unlock # None
  /\ ClientAccessPath(c.users, c.threshold, c.beneficiaries)
  /\ Cardinality(DOMAIN ss) <= MaxStreams
  /\ \A s \in DOMAIN ss : ClientStream(ss[s])

\* The last check of every build but the distribution's, which checks the State
\* it reads instead.
ForwardedStateIsValid ==
  ClientAccepts([users |-> users', threshold |-> threshold', beneficiaries |-> beneficiaries',
                 unlock |-> unlock', increment |-> increment'], streams', stamp')

-----------------------------------------------------------------------------
(* The shared clock and the beneficiaries' unlock, as the client reads them. *)

SharedClockIsFree_Later(tx) ==
  /\ tx.hi - tx.lo <= MaxWindow
  /\ stamp # None => stamp + Cooldown - tx.lo < 0

SharedClockIsFree(tx) ==
  /\ tx.hi - tx.lo <= MaxWindow
  /\ stamp # None => stamp + Cooldown - tx.lo <= 0

TakesTheClock(tx) == SharedClockIsFree(tx) /\ stamp' = tx.hi

ClientUnlocked(b, time) ==
  /\ unlock # None
  /\ time >= (IF beneficiaries[b].after # None /\ beneficiaries[b].after > unlock
              THEN beneficiaries[b].after ELSE unlock)

FinalRecoveryOpens(tx) ==
  /\ Cardinality(DOMAIN beneficiaries) = 1
  /\ \A b \in DOMAIN beneficiaries : ClientUnlocked(b, tx.lo)

\* The beneficiary a connected wallet acts for: it is listed once.
ActsFor(tx, b) == \E key \in tx.signers : HoldersOf(beneficiaries, key) = {b}

-----------------------------------------------------------------------------
(* Beneficiaries. *)

BuildUseBeneficiary_KeepsTheClock(tx, b) ==
  /\ ActsFor(tx, b)
  /\ beneficiaries' = IF Cardinality(DOMAIN beneficiaries) = 1
                      THEN beneficiaries
                      ELSE Without(beneficiaries, b)
  /\ UNCHANGED <<now, users, threshold, unlock, increment, streams, labels, stamp>>
  /\ ForwardedStateIsValid

\* Whether the beneficiary is unlocked is left to the page and the validator.
BuildUseBeneficiary(tx, b) ==
  /\ ActsFor(tx, b)
  /\ IF Cardinality(DOMAIN beneficiaries) = 1
     THEN TakesTheClock(tx) /\ UNCHANGED beneficiaries
     ELSE beneficiaries' = Without(beneficiaries, b) /\ UNCHANGED stamp
  /\ UNCHANGED <<now, users, threshold, unlock, increment, streams, labels>>
  /\ ForwardedStateIsValid

BuildDistribution(tx, b) ==
  /\ ClientAccepts(CurrentConfiguration, streams, stamp)
  /\ DOMAIN streams = {}
  /\ ActsFor(tx, b)
  /\ unlock # None /\ tx.lo >= unlock
  /\ \A c \in DOMAIN beneficiaries :
       beneficiaries[c].after # None => tx.lo >= beneficiaries[c].after
  /\ IF Cardinality(DOMAIN beneficiaries) = 1 THEN TakesTheClock(tx) ELSE UNCHANGED stamp
  /\ UNCHANGED <<now, access, unlock, increment, streams, labels>>

-----------------------------------------------------------------------------
(* Stopping a stream: at the upper bound, or at the start of one that has   *)
(* not begun.  That the payee asks is not checked.                          *)

BuildCancel(tx, s) ==
  LET cut == Larger(streams[s].start, tx.hi)
  IN  /\ TakesTheClock(tx)
      /\ cut < streams[s].end
      /\ streams' = [streams EXCEPT ![s].end = cut]
      /\ UNCHANGED <<now, access, unlock, increment, labels>>
      /\ ForwardedStateIsValid

BuildStop(tx, b, s) ==
  /\ ActsFor(tx, b)
  /\ ClientUnlocked(b, tx.lo)
  /\ \A c \in DOMAIN beneficiaries \ {b} :
       Signed(tx, beneficiaries[c].wallets) => ~ClientUnlocked(c, tx.lo)
  /\ BuildCancel(tx, s)
  /\ PayoutForElapsed(streams'[s].end - streams[s].start, streams[s].rate) >= streams[s].paid

-----------------------------------------------------------------------------
(* Settlement. *)

ListedAdmin(tx) == \E u \in DOMAIN users : users[u].admin /\ Signed(tx, users[u].wallets)
ListedUser(tx) == \E u \in DOMAIN users : Signed(tx, users[u].wallets)
ListedPayee(tx) == \E s \in DOMAIN streams : streams[s].payee \in tx.signers

UnlockedBeneficiary(tx) ==
  \E b \in DOMAIN beneficiaries :
    Signed(tx, beneficiaries[b].wallets) /\ ClientUnlocked(b, tx.lo)

\* A quorum consists of listed users, so it needs no alternative of its own.
MayCrank(tx) ==
  \/ ListedAdmin(tx)
  \/ UnlockedBeneficiary(tx)
  \/ ~FinalRecoveryOpens(tx) /\ (ListedUser(tx) \/ ListedPayee(tx))

\* How much may be asked for a stream, and what becomes of it.
Fulfilled(p) == p.paid = LifetimeTotal(p)
MostPayable(p, time) == Larger(0, AccruedAt(p, time) - p.paid)

\* Asked 0 stands for a stream without an output.
MayBeAsked(p, amount, time) ==
  IF Fulfilled(p)
  THEN amount = 0
  ELSE /\ amount <= MostPayable(p, time)
       /\ p.paid + amount <= LifetimeTotal(p)
       /\ p.paid + amount = LifetimeTotal(p) => p.end <= time

AskedSettles(p, amount) == p.paid + amount = LifetimeTotal(p)

Payable(tx) ==
  {asked \in [DOMAIN streams -> 0..MaxStateInteger] :
     \A s \in DOMAIN streams : MayBeAsked(streams[s], asked[s], tx.lo)}

\* The amounts asked for are one of the given plans, and something comes of them.
BuildPayout(tx, plans) ==
  /\ MayCrank(tx)
  /\ IF ListedAdmin(tx) THEN UNCHANGED stamp ELSE TakesTheClock(tx)
  /\ \E asked \in plans :
       LET settled == {s \in DOMAIN streams : AskedSettles(streams[s], asked[s])}
       IN  /\ asked \in Payable(tx)
           /\ settled # {} \/ \E s \in DOMAIN streams : asked[s] > 0
           /\ streams' = [s \in DOMAIN streams \ settled |->
                            [streams[s] EXCEPT !.paid = @ + asked[s]]]
  /\ UNCHANGED <<now, access, unlock, increment, labels>>
  /\ ForwardedStateIsValid

\* What the payee's page asks for: all that is due on one stream, by its own
\* computation, which reads neither the lifetime total nor the other streams.
DueAmount(p, time) ==
  LET until == Smaller(p.end, time)
  IN  IF until <= p.start
      THEN 0
      ELSE Larger(0, ((until - p.start) * p.rate) \div Day - p.paid)

CollectPlan(s, time) ==
  [r \in DOMAIN streams |-> IF r = s THEN DueAmount(streams[s], time) ELSE 0]

-----------------------------------------------------------------------------
(* Operators and spenders. *)

\* The furthest renewal the range allows, or none: not below the upper bound,
\* not below the deadline there is.
AutomaticRenewal_FromUpperBound(tx) ==
  IF increment = None THEN unlock ELSE Larger(unlock, tx.hi + increment)

AutomaticRenewal(tx) ==
  IF increment = None \/ tx.lo + increment < tx.hi
  THEN unlock
  ELSE Larger(unlock, tx.lo + increment)

BuildUse(tx) ==
  /\ unlock' = AutomaticRenewal(tx)
  /\ UNCHANGED <<now, access, increment, streams, labels, stamp>>
  /\ ForwardedStateIsValid

BuildUpdateState(tx) ==
  \E c \in Configurations :
    /\ users' = c.users
    /\ threshold' = c.threshold
    /\ beneficiaries' = c.beneficiaries
    /\ unlock' = c.unlock
    /\ increment' = c.increment
    /\ UNCHANGED <<now, streams, labels, stamp>>
    /\ ForwardedStateIsValid

\* The earliest end an existing stream may be given.
FloorForEnd(p, latest) ==
  IF p.end = p.start THEN p.start ELSE Larger(p.start + 1, Smaller(p.end, latest))

BuildManage(tx) ==
  /\ \E added \in SUBSET (StreamId \ DOMAIN streams) :
       \E fresh \in [added -> StreamRecord], end \in [DOMAIN streams -> EndDate] :
         /\ \A s \in added : fresh[s].paid = 0 /\ fresh[s].start < fresh[s].end
         /\ \A s \in DOMAIN streams : end[s] >= FloorForEnd(streams[s], tx.hi)
         /\ streams' = [s \in DOMAIN streams \cup added |->
                          IF s \in added THEN fresh[s] ELSE [streams[s] EXCEPT !.end = end[s]]]
  /\ UNCHANGED <<now, access, unlock, increment, labels, stamp>>
  /\ ForwardedStateIsValid

BuildRemoveAccess(tx) ==
  /\ \/ \E u \in DOMAIN users : users' = Without(users, u) /\ UNCHANGED beneficiaries
     \/ \E b \in DOMAIN beneficiaries :
          beneficiaries' = Without(beneficiaries, b) /\ UNCHANGED users
  /\ UNCHANGED <<now, threshold, unlock, increment, streams, labels, stamp>>
  /\ ForwardedStateIsValid

\* The budget a transfer is taken from: a new day's one once the range has passed
\* the reset.
Budget(u, earliest) == IF users[u].reset <= earliest THEN users[u].perDay ELSE users[u].remaining

\* Of the records that list the key, exactly one can cover the transfer.
CanCover(tx, key, spent) ==
  {u \in DOMAIN users :
     key \in users[u].wallets /\ \A a \in Asset : spent[a] <= Budget(u, tx.lo)[a]}

BuildAllowance(tx, key) ==
  /\ \E spent \in [Asset -> 0..MaxStateInteger], u \in DOMAIN users :
       /\ \E a \in Asset : spent[a] > 0
       /\ CanCover(tx, key, spent) = {u}
       /\ users' = [users EXCEPT
                      ![u].remaining = [a \in Asset |-> Budget(u, tx.lo)[a] - spent[a]],
                      ![u].reset = Larger(@, tx.hi + Day)]
       /\ unlock' = IF users[u].keeper /\ ~users[u].admin THEN AutomaticRenewal(tx) ELSE unlock
  /\ UNCHANGED <<now, threshold, beneficiaries, increment, streams, labels, stamp>>
  /\ ForwardedStateIsValid

-----------------------------------------------------------------------------
(* Properties. *)

\* The client's validation of a State, written a second time in another language,
\* accepts the configurations the contract accepts beside the current streams.
ConfigurationsAgree ==
  \A c \in Configurations :
    ClientAccepts(c, streams, stamp) <=> ValidConfiguration(c, streams, stamp)

\* Once somebody has signed for itself, the validator accepts what was built for
\* the recovery of the wallet: no State it can be in, no range around the time
\* and no further signature makes a withdrawal, a distribution, a stop, a
\* cancellation or a settlement leave behind another State than it demands.
RecoveryBuildsAreAccepted ==
  \A tx \in BuilderTransaction :
    /\ \A b \in DOMAIN beneficiaries :
         /\ UnlockedSigners(tx) = {b} =>
              ~ENABLED (BuildUseBeneficiary(tx, b) /\ ~UseBeneficiary(tx, b))
         /\ ~ENABLED (BuildDistribution(tx, b) /\ ~DistributeBeneficiaries(tx, b))
         /\ \A s \in DOMAIN streams :
              ~ENABLED (BuildStop(tx, b, s) /\ ~StopBeneficiaryStream(tx, b, s))
    /\ \A s \in DOMAIN streams :
         streams[s].payee \in tx.signers =>
           ~ENABLED (BuildCancel(tx, s) /\ ~CancelStreamingPayment(tx, s))
    /\ ~ENABLED (BuildPayout(tx, Payable(tx)) /\ ~PayStreamingPayment(tx))

\* Nobody the contract lets act is left without a transaction: the builder
\* refuses no withdrawal, distribution, stop or cancellation the contract allows
\* in its range, nor the collection its own page offers a payee.  The exception
\* is a stream whose rounded accrual reaches the lifetime total before its end.
EverybodyCanBuild ==
  \A tx \in BuilderTransaction :
    /\ \A b \in DOMAIN beneficiaries :
         /\ ENABLED UseBeneficiary(tx, b) => ENABLED BuildUseBeneficiary(tx, b)
         /\ ENABLED DistributeBeneficiaries(tx, b) => ENABLED BuildDistribution(tx, b)
         /\ \A s \in DOMAIN streams :
              ENABLED StopBeneficiaryStream(tx, b, s) => ENABLED BuildStop(tx, b, s)
    /\ \A s \in DOMAIN streams :
         /\ ENABLED CancelStreamingPayment(tx, s) => ENABLED BuildCancel(tx, s)
         /\ /\ streams[s].payee \in tx.signers
            /\ SharedClockIsFree(tx)
            /\ DueAmount(streams[s], tx.lo) > 0
            /\ ENABLED PayStreamingPayment(tx)
            /\ streams[s].paid + DueAmount(streams[s], tx.lo) < LifetimeTotal(streams[s])
                 \/ streams[s].end <= tx.lo
            => ENABLED BuildPayout(tx, {CollectPlan(s, tx.lo)})

\* What an operator, a keeper or a spender has the dApp build is what the
\* contract demands, its automatic renewal included, and the configurations the
\* client accepts are those the contract accepts.
OperatorBuildersAgree ==
  /\ ConfigurationsAgree
  /\ \A tx \in BuilderTransaction :
       /\ tx.signers = SigningKey /\ HasOperatorAuthority(tx) =>
            /\ ~ENABLED (BuildUse(tx) /\ ~OperatorUse(tx))
            /\ ~ENABLED (BuildManage(tx) /\ ~ManageStreamingPayments(tx))
            /\ ~ENABLED (BuildRemoveAccess(tx) /\ ~RemoveAccessIndex(tx))
            /\ ENABLED RemoveAccessIndex(tx) => ENABLED BuildRemoveAccess(tx)
       /\ \A key \in SigningKey :
            tx.signers = {key} => ~ENABLED (BuildAllowance(tx, key) /\ ~UseAllowance(tx))
=============================================================================
