# Formal models of the Epora wallet

This directory holds TLA+ models of the Epora wallet, the TLC runs that check
them on small instances, and the TLAPS proofs of their properties for every
value of the constants. Paths below are relative to `code/smart-contract/`
unless they start with `dApp/` (which stands for `code/dApp/src/`).

## The system and its parts

An Epora wallet is two Plutus validators written in Aiken and a web
application that builds transactions for them.

| component | state | operations | what is hard about it | status |
|---|---|---|---|---|
| **State thread** (`validators/stt.ak`, `lib/stt`, `lib/state`) | one UTxO that carries a token and the wallet's `State`: users, multisig threshold, beneficiaries, proof of life, streams, name, stake credential, the shared non-admin clock | mint; the five operator actions; proof-of-life renewal, allowance draw; beneficiary share, distribution, stream stop; crank, payee cancellation, consolidation | a transaction knows only its own validity range, whose ends its author chooses; actions of operators, users, beneficiaries and payees interleave in any order; most actions check only what they change | modelled |
| **Streaming payments** (`lib/streaming_payments`) | the stream entries of the `State` | accrual, reschedule, stop, settle, reserve, routing of tagged payouts | floored arithmetic, several entries settled at once | asset names and proofs of fresh assets left out |
| **Configuration** (`lib/state/configuration.ak`, `proof_of_life.ak`) | none: predicates over a `State` | validation, quorum, reachability | it is checked at mint and `UpdateState` only | byte widths and per-record caps left out |
| **Wallet validator** (`validators/wallet.ak`, `lib/wallet`) | the value of every wallet UTxO | spends under the state thread's action in the same transaction, governance, minting | the two validators divide the checks of one transaction between them; the wallet sees only the UTxOs that are spent | spends modelled, governance and stake left out |
| **Reference-script store** (`validators/stt_reference_store.ak`) | UTxOs with scripts | spend with the owner's signature | nothing | not modelled |
| **Proposals** (`dApp/lib/proposals`, `dApp/app/api/proposals`) | proposal rows, signature rows | create, sign, rebuild, claim, submit, complete, release, cancel, delete | concurrent requests over a database, a network call between two of their steps, unknown outcomes, crashes | modelled; reads (listing, verification) are not |
| **Signing in** (`dApp/lib/proposals/auth*`) | challenges, registrations, cookies | issue, clean up, verify, consume, hand out | the same signed challenge presented several times, clocks read before statements, crashes | modelled |
| **Indexer** (`dApp/lib/stt-cache`) | cached state threads, transactions, scan cursors, a lock | head scan, history backfill, reconciliation on demand and as a walk | scans that stop anywhere and run beside requests against a chain that grows | modelled; roll-backs are not |
| **Rate limiter** (`dApp/lib/http`) | counters per window | consume, consume two, prune | concurrent increments at a window's edge, refusals in a sequence of charges | modelled |
| **Off-chain rules and transaction builders** (`dApp/lib/contracts`, `dApp/lib/mesh/transactions`) | none that outlives a call | the `State` and the validity range of every transaction; mirrors of the contract's rules | they must agree with a contract written in another language | the forwarded `State` of every action but mint, stake and consolidation |
| wallet connection, public API, directories, presentation, observability, scripts | none that outlives a call, or only third-party state | | | not modelled |

The parts interact through transactions and the database. Every transaction
that moves wallet value also spends the state thread, so the state thread
serialises the wallet: it decides who may act and what the new `State` is, and
the wallet validator, run in the same transaction, decides how much value may
leave under that action. The application reads both from the chain through the
indexer, builds a transaction with its mirrors of the rules, and, when several
people must sign, keeps it as a proposal until it is submitted.

What makes each part correct:

- *State thread*: nobody acts without authority or before time; no series of
  legal actions leaves a `State` that is invalid or out of reach; payees keep
  what they have accrued and are never paid ahead; the shared clock cannot be
  abused to freeze the wallet; recovery can always be retried.
- *Wallet validator*: value leaves only as the action in the same transaction
  allows; the streams' reserve stays; every counted payout reaches its payee.
- *Proposals*: a witness is assembled only with the body it signs; a claim is
  exclusive; one request moves value at most once, whatever is retried.
- *Signing in*: a signed challenge opens one session at most, and none late.
- *Indexer*: what it reports was true of the chain and it misses nothing for ever.
- *Rate limiter*: concurrent requests do not get more than the limits, what is
  served has been charged, and one caller's excess is not charged to all.
- *Builders*: what the dApp has people sign is what the validator demands, and
  nobody the contract lets act is left without a transaction.

## The modules

| module | models | extends |
|---|---|---|
| `StreamingPayments` | arithmetic and rules of streams: `PayoutForElapsed`, `AccruedAt`, `StreamIsShaped`, `EndDateFloor`, `Cutoff`, `RetainedWith`, `Removable` | |
| `StreamLists` | the lists of streams a transaction brings, and the contract's comparisons of them | `StreamingPayments` |
| `StateConfiguration` | `ValidConfiguration`, the weighted multisig, reachability | `StreamingPayments` |
| `SttThread` | the state-thread validator: one action per `SttAction`, `Init` for the mint, `Tick` for the ledger's time; the properties | `StateConfiguration` |
| `AllowanceVelocity` | `SttThread` with a history of draws: what a user takes in a day | `SttThread` |
| `RecoveryDelay` | `SttThread` with a count of the delays of the last beneficiary | `SttThread` |
| `TransactionBuilders` | the dApp's builders and its client-side rules, set against the actions of `SttThread` | `SttThread` |
| `Wallet` | the wallet validator composed with the state thread: the wallet's UTxOs, what each action lets leave, who gets it | `SttThread`, instantiates `WalletAccounts` |
| `WalletAccounts` | abstract: the accounts of one purse and of those who depend on it | |
| `ReserveLists` | the reserve as the ordered list the contract computes, and its comparisons with the wallet's value | `Wallet`, `StreamLists` |
| `PayoutRouting` | where the money of one settlement or distribution may land: outputs, tags, both validators | |
| `FinalRecovery` | the last beneficiary empties the wallet while others use the clock, with relative time and fairness | `StreamingPayments` |
| `OneShotSubmission` | abstract: a request is filed, opened, claimed and handed over at most once | |
| `Proposals` | proposal and signature rows, one action per request step, the network call and its outcomes; the properties | instantiates `OneShotSubmission` |
| `ProposalAuth` | challenges, attempts, sessions | |
| `SttIndexer` | the chain, the database, the three phases of a run, requests beside it | |
| `RateLimiter` | buckets and the charges of two kinds of routes | |
| `Sums` | lemmas about sums over finite sets | |
| `SttThreadProofs` | lemmas about accrual, type correctness and safety of the state thread; the daily limit, the bound on delays; the builders agree with the contract; lists of streams agree with tables | `AllowanceVelocity`, `RecoveryDelay`, `TransactionBuilders`, `StreamLists`, `Sums` |
| `WalletProofs` | the properties of the wallet's money; the wallet implements `WalletAccounts`; ordered reserves agree with tables | `ReserveLists`, `SttThreadProofs` |
| `PayoutRoutingProofs` | every claim is paid, the author gets no more than it brought and is owed | `PayoutRouting`, `Sums` |
| `ProposalsProofs` | type correctness and safety of proposals; they implement `OneShotSubmission` | `Proposals` |
| `ProposalAuthProofs` | the properties of signing in | `ProposalAuth` |
| `SttIndexerProofs` | the safety of the indexer | `SttIndexer` |
| `RateLimiterProofs` | the properties of the request limits | `RateLimiter`, `Sums` |
| `MCRecovery`, `MCOperators`, `MCWallet`, `MCPayoutRouting`, `MCFinalRecovery`, `MCProposals`, `MCProposalAuth`, `MCIndexer`, `MCIndexerHistory`, `MCRateLimiter` | the instances TLC checks | |

A definition named `Rule_Mistake` is `Rule` with a plausible mistake in it. No
action uses it; replacing `Rule` by it breaks the property it was written for.

### How `SttThread` corresponds to the code

The variables are the fields of `State` (`lib/state/types.ak`), with
`access.users`, `access.multi_sig_threshold`, `access.beneficiaries`,
`proof_of_life.unlock_time` and `.increment` as variables of their own, and
`now`, the ledger's clock. `stamp` is `last_non_admin_payout_at`. Lists with
unique ids are functions from ids. For users, beneficiaries and labels, uniqueness
and the order that a removal preserves therefore hold by the shape of the data.
For streams they do not: `StreamLists` has the lists, see below.

Transactions that spend one UTxO are serialised, so a step is one accepted
transaction or a tick. `Transaction` is what the rules read of one: the two
ends of its validity range, either of which may be open (`None`), and the keys
that signed it. The ledger accepts it only while `lo <= now <= hi`, so these
are the ranges enumerated; the rules themselves see only the declared ends and
never `now`. Properties that speak of the real time speak of `now`.

Each action is one branch of `eval_spend` with everything its handler checks of
the `State`: authority (`lib/state/authorization.ak`), the range rules, the
transition of the fields it may change and, through
`lib/stt/preservation.ak`, the equality of all others (`UNCHANGED`).

- `Renew` is the part of the operator use, the stream management, the keeper's
  renewal and the allowance draw that may move the deadline.
- `NonAdminCadence` is the shared clock: range at most `MaxWindow`, lower end at
  least `Cooldown` after the stamp, stamp set to the upper end.
- `UseAllowance` is `eval_use_allowance` with `expect_single_allowance_update`;
  the budget debited is what the `State` shows, its equality with the value that
  leaves is the wallet validator's concern.
- `PayStreamingPayment` chooses for every stream whether it is kept, and with
  which new paid amount, or removed: the choices the ordered walk accepts.
- `Init` is the mint: a valid configuration, streams that are fresh, no stamp.

What the data is abstracted to: a wallet is a key; a stream's payee is a key or
`None` for a script; a bundle of assets is a function from `Asset`; a user
without `multi_sig_power` has power 0, since neither is ever counted.
`SigningKey` is the set of keys somebody still holds, so that a run may lose
the owner's. Left out: byte widths of hashes, names and addresses, the caps on
wallets and allowance entries per record, and the action `ReservedBeneficiaryExit`,
which always fails.

### How `StreamLists` and `ReserveLists` correspond to the code

`SttThread` and `Wallet` say what becomes of each stream and of each asset. The
contract has lists and walks along them, and whether a stream can be dropped,
doubled or paid twice is a question of those walks.

- An entry is a record `[id, stream]`; `Table` is what `find_by_id` says of each id.
  `AreForwarded`, `IsPayeeCancelled` and `AreForwardedRescheduledOrAdded` look for
  each input among the outputs by id (`forwarding.ak`). None of them looks for
  duplicates: `ListIsValid` does (`shape.ak`), where the code calls it.
- `PayoutIsValid` is the settlement's recursion along both lists (`payout.ak`).
  `cursor[n]` is how many outputs it has passed after n inputs; `IsWalk` says how
  each step moves it, so a walk is determined by the lists. `ValueChange` is what
  the walk adds up.
- `AddReserveEntry` inserts into a list ordered by asset or adds to the entry that
  is there; `CalculateStreamingReserve` folds it over the streams (`funding.ak`).
  `ReserveAssetsRemainFunded` is the single pass along the reserve and the values
  before and after: `SkipTo` passes the rows of assets that come earlier, and what
  was passed is not looked at again. `RemainsFunded` looks up only what leaves.
- `FullReserveIsPreserved` and `LeavingReserveIsPreserved` are the two comparisons
  `expect_reserve_preserved` chooses between, with its shortcut once every stream is
  settled.

Policies and names are one ordered set of assets, so the walk of policies and then
of names is one walk of a list. The pairs of a ledger value come in that order
(external). Left out: the width of ids, and the outputs that carry the payouts, which
`PayoutRouting` models. What an allowance declares to draw stands for what leaves:
`ExactWithdrawal` in `Wallet` demands that they are equal.

### How `Proposals` corresponds to the code

Rows are functions from ids to what the code tests of a `MultiSigProposal` row:
creator, status, body (the transaction and its hash, which determine each
other) and `submittedTxHash`. `signatures` holds the `ProposalSignature` rows.
`requests` and `submits` are the calls in flight: what a handler keeps in local
variables between its database statements.

- `Create` and `Sign` are single steps, because the code holds a lock from the
  read to the write (the creator's advisory lock, `SELECT ... FOR UPDATE`).
- Rebuild, claim, cancel and delete read the row and decide, then write it under
  a condition (`updateMany ... where`, a transaction that reads again): `Ask` is
  the read, `Rebuild`, `Claim`, `Cancel` and `Delete` the write, `Conflict` the
  write that finds the row changed and answers 409. Requests read and write in
  any order.
- A submission is the claim, the call of the provider and a last write. `Claim`
  returns the row and its witnesses, and the rest of the route works on these.
  `Refuse` is a failed assembly or a 4xx, which the code takes as proof that the
  network never saw the body; `Accept` an answer with the hash; `LoseAnswer` a
  timeout or 5xx of a call that went through. `Release` and `Complete` are the
  last writes, conditional on the row being as it was claimed.
- `Abandon` ends a submission without a last write: the server dies, the write
  fails, the provider answers with a different hash, or a lost answer hid that
  nothing went through. The row then stays `SUBMITTING`; no request moves it,
  which the code leaves to an operator on purpose, and so no liveness is claimed.
- `Land`, `Overtake` and `Drop` are the network as the submission relies on it.
  Every body spends the state thread in the one state it was built for (`Base`),
  so the chain takes at most one body per state and the others are void.

Claims and submissions name their actor, so that two people may submit the same body
at the same time. `Key` is the set of participants who may create and sign; every
one may submit, as in the code. Not modelled: verification of a submitted body and
of witness cryptography, expiry of a body's validity range, the pages of the
listing, roll-backs of the chain, and participants who submit an assembled
transaction by other means than the application. The last two are why
`OneTransferPerRow` speaks of what the application has sent (`sent`).

### How the wallet modules correspond to the code

`Wallet` extends `SttThread` with `purse`, the bag of values of the UTxOs under
the wallet's credential, and `taken`, a history of what each stakeholder got
out of it. A step is a transaction of `SttThread` without a wallet UTxO, one
that spends some (`Spend`), or a deposit. `SpendAsOperator`, `SpendAllowance`,
`SpendShare`, `SpendDistribution`, `SpendSettlement` and `SpendConsolidation` are
the branches of `lib/wallet/rules.ak`, each with the handler's checks of what
leaves and of the reserve (`funding.ak`). The validator sees the spent UTxOs
only, so a spender chooses any subbag of them, and `\in Outputs` chooses any
split of what returns. `WalletAccounts` says the same as one account per
stakeholder, without UTxOs, ranges and signatures; a user's budget there is the
larger of the daily amount and what it has left, since a configuration may grant
more for the first day.

`PayoutRouting` takes over where `Wallet` says "theirs": one transaction, whose
author puts together any outputs with any tags, for one or two deployments, and
the checks of both validators (`payout.ak`, `payout_routing.ak`,
`beneficiary_distribution.ak`). The author may be a payee or an heir: a stream's
payee may ask for a settlement. A stream may pay a wallet of the same transaction,
its own or that of the other deployment, and so may a distribution. The output that
pays such a wallet may be one it has to get back anyway, and then as much is left
over. `Unassigned` says who may hold that: of a settlement only ADA, and only at
the tagged outputs of its payees, as the comments at `payout_routing.ak:178-183` and
`payout.ak:353-356` say; of a distribution any asset, since no rule of the heir's
wallet is about what it does not pay out.

`FinalRecovery` asks a question that needs infinite behaviours: does the last
beneficiary get everything in the end? Dates are relative to now, and a date no
transaction can see any more is forgotten, so time has no bound. Others crank
and cancel whenever the clock is free; deposits arrive, finitely many
(`MaxDeposits`): against somebody who pays the wallet for ever there is no last
withdrawal. The beneficiary stops streams, settles and withdraws in any order,
with any range, except for nothing: a settlement or withdrawal of its own that
moves no money spends the clock on purpose.

### How `TransactionBuilders` corresponds to the code

The module adds no variable and no step. `BuildX(tx)` relates the `State` the
dApp reads to the one its builder of action X leaves behind, for a range of the
width `getValidityWindow` returns; its properties compare `BuildX` with the
action X in every state the contract reaches, by `ENABLED`:
`~ENABLED (BuildX(tx) /\ ~X(tx))` is that no built transaction is refused, and
`ENABLED X(tx) => ENABLED BuildX(tx)` that no builder refuses what the contract
allows. Who may ask for an action is left to the pages, so the first kind
presupposes that somebody signed for itself. Of a proof-of-life renewal only the
automatic mode is modelled; the other two pass on a date of the user's.

What the comparison leaves out, because the code differs there and says or
means to: a collection that would bring a stream's paid amount to the lifetime
total before its end date is refused by the builder, which wants such an entry
removed (the exception in `EverybodyCanBuild`); the builder of a beneficiary's
use does not look at the unlock, and that of a proof-of-life renewal passes an
unchanged deadline on, so both leave the refusal to the validator; and the
client's validation of a `State` does not compare a paid amount with the
lifetime total.

### How `ProposalAuth`, `SttIndexer` and `RateLimiter` correspond to the code

Each statement to the database and each exchange with the provider is a step;
what a request keeps between them is in `attempts`, `runs`, `passes`, `calls`.
The time is read (`ReadTime`) before the statement that uses it, which comes up
to `MaxDelay` later: `Date.now()` and the transaction are two steps in the code.

- In `ProposalAuth`, `Consume` is the conditional update of
  `auth-challenge-store.ts`. An attempt crashes anywhere; a challenge that was
  consumed stays consumed.
- In `SttIndexer` a transaction is its position on the chain. A run goes through
  the phases that `runs` names; `DeadlineReached` is the time budget running out
  at half (the share of the reconciliation) or entirely, `Crash` an error or the
  death of the process, which frees the lock with its session. `Ask` and `Answer`
  are the reconciliation of one wallet by a request, outside the lock: the read
  of the live output and the write, which refuses what is behind. `walk`,
  `attested` and `closed` are histories, for the properties.
- In `RateLimiter` a call is charged by a plan, a sequence of statements of one
  or two debits, which the two kinds of routes put together differently.

## The runs

| run | instance | properties |
|---|---|---|
| `recovery` | owner's key lost; two beneficiaries with different unlocks, a stream to a key and one to a script; the time up to 6 | `TypeOK`, `PaidWithinAccrued`, `CrankIsNeverWedged`, `StopIsNeverRefused`, `ClockIsNear`, `DelayIsBounded`, `RecoveryBuildsAreAccepted`, `EverybodyCanBuild`, `RecoveryIsOrderly`, `CadenceIsKept` |
| `operators` | admin, a quorum of two, a keeper, a spender with a daily budget; nine configurations to ask for, valid and invalid; a stream to add and reschedule | `ConfigurationStaysValid`, `DailyLimit`, `OperatorBuildersAgree`, `NoClawback`, `RenewalIsBounded` |
| `wallet` | an admin and a spender of two assets, or two heirs of weights 1 and 2; a stream or none; up to two UTxOs and five units; and, as assumptions TLC evaluates, `WalksAgree` and `ReservesAgree` on all lists of at most two streams of four kinds and values of at most two units | `ReserveStays`, `HeirsKeepTheirWorth`, `NothingIsLost`, `ImplementsAccounts` |
| `payout_routing` | settlements of two claims with and without the wallet's money, of two deployments, of a stream to the wallet itself or to the other deployment's; distributions to two heirs or to the other deployment's wallet; the author a stranger, a payee or an heir; up to four outputs | `EveryClaimIsPaid`, `AuthorNeverGains` |
| `final_recovery` | a salary and a rent, one stream or none, one or two UTxOs, batches of two | `EverythingIsRecovered` |
| `proposals` | one row, two participants, three bodies of two states of the thread, three requests at a time; and two rows with the quota of active ones at one | `TypeOK`, `OneTransferPerRow`, `ClaimIsExclusive`, `SignaturesAreCurrent`, `AssemblyIsOnRecord`, `SubmittedWasSent`, `ActiveWithinQuota`, `ImplementsOneShot` |
| `proposal_final` | the instance of `proposals` | `SubmittedIsFinal`, violated |
| `sign_in` | two challenges, two attempts, late statements and crashes until all has expired | `OncePerChallenge`, `SpentInTime` |
| `indexer` | two wallets, the second minted meanwhile, three transactions in pages of one, a run that is late and dies, a request beside it | `StampIsHonest`, `SnapshotsMoveForward`, `Converges`, `HistoryCompletes` |
| `indexer_closed` | two wallets, a request beside a run, without faults | `NewerReadPrevails`, violated |
| `indexer_partial` | one wallet, four transactions in pages of two entries, two servers, without faults | `NoGap`, violated |
| `limits` | three calls of one caller, builds or RPC calls, over two windows | `BurstIsBounded`, `ServedIsPaid`, `OnlyAcceptedReachTheDeployment`, `WindowsEnd` |

What the properties say:

- `ConfigurationStaysValid`: actions that check only what they change leave the
  whole configuration valid, so that no series of them locks the wallet.
- `PaidWithinAccrued`, `NoClawback`, `StopIsNeverRefused`, `CrankIsNeverWedged`:
  the payees' side. Nobody is paid ahead of the real time although a crank, a
  stop and a reschedule each declare their own; nobody loses what has accrued;
  payments never take away the right to stop; no stream blocks the settlement
  of the others (`payout.ak` names this hazard above `removed_streaming_payment_change`).
- `ClockIsNear`, `CadenceIsKept`: the shared clock. A transaction may stamp a
  time to come, by at most one window, and uses are a cooldown apart in real time.
- `RenewalIsBounded`: outside `UpdateState` the deadline only moves forward and
  never further than one increment from the real time.
- `RecoveryIsOrderly`: without an operator a beneficiary leaves only when it is
  unlocked in real time and the last one never leaves.
- `DailyLimit`: a user never takes more than one day's budget, or the larger
  remainder an operator configured, in any stretch shorter than a day, whatever
  ranges it declares.
- `DelayIsBounded`: after recovery has opened in real time, others move the
  shared clock at most once per stream and once more, which is the argument of
  the comment above `eval_cancel_streaming_payment` (at most 16 intervals).
- `RecoveryBuildsAreAccepted`, `EverybodyCanBuild`, `OperatorBuildersAgree`: the
  builders agree with the contract in every state it reaches.
- `ReserveStays`: whoever withdraws from whichever UTxOs, what payees have earned
  stays, unless it goes to them. `HeirsKeepTheirWorth`: no order and no choice
  of UTxOs makes the part of another heir smaller. `NothingIsLost`: what leaves
  is with one of the stakeholders. `ImplementsAccounts`: the wallet implements
  `WalletAccounts`.
- `EveryClaimIsPaid`: several claims in one transaction, of one wallet or of
  several, are all paid: no output serves twice. `AuthorNeverGains`: no choice of
  outputs gives the author of settlements and distributions more than it brought and
  is owed itself, but for what is owed to a wallet of the same transaction and
  assigned to nobody (`Unassigned`). In the instance both happen: without the claims of
  the author, or without what is unassigned, in the bound, the property is violated.
- `EverythingIsRecovered`: the wallet is empty in the end, for ever.
- `OneTransferPerRow`: a request is refused, lost, abandoned, rebuilt and
  submitted again, and still at most one of its bodies reaches the chain. This is
  why a lost answer must not reopen the row.
- `ClaimIsExclusive`, `SignaturesAreCurrent`, `AssemblyIsOnRecord`: no request
  changes a row under a running submission, and no witness is kept or assembled
  for a body it did not sign, although nothing is locked during the call.
- `SubmittedWasSent`: `SUBMITTED` is recorded only of the body that was sent.
- `ActiveWithinQuota`: the quota is tested at creation only and holds throughout.
- `ImplementsOneShot`: a row implements `OneShotSubmission`, in which a request
  is handed to the network at most once, and never after it was withdrawn.
- `OncePerChallenge`, `SpentInTime`: a signed challenge opens one session at most,
  and is spent at most the delay of one statement after its expiry.
- `StampIsHonest`: when a full walk is attested, no row is older than the chain
  was when the walk began, over however many runs, unless a request has closed it
  since. `SnapshotsMoveForward`: a row never shows an older state, whoever writes
  last, and only a request that found nothing takes one away. `Converges`,
  `HistoryCompletes`: once the chain rests, every wallet is shown as it is, and
  the history is complete.
- `BurstIsBounded`: in a stretch shorter than a window at most twice the limit is
  accepted. `ServedIsPaid`: what is served was charged in full, whatever the
  header announced. `OnlyAcceptedReachTheDeployment`: a refused caller costs the
  others nothing. `WindowsEnd`: refused attempts do not prolong a window.

### What the runs found

- `SubmittedIsFinal` is what a comment in `dApp/lib/proposals/create-record.ts`
  (line 22) says of a submitted body, "final on chain". The run shows the
  contrary: the row becomes `SUBMITTED` when the provider takes the body; another
  transaction of the wallet spends the thread first; the body never lands, and
  nothing updates the row. Until a day has passed or the row is deleted, saving
  the same bytes again is answered with that row.
- `NoGap` is what `dApp/lib/stt-cache/indexer.ts` (lines 151-156) relies on when it
  re-arms the backfill: ascending pages stay stable. The last page does not. The
  backfill may pass it while it is partial, when the next page appears before it
  reads on or when the budget ends the run there; after a gap the re-armed
  backfill starts behind that page, and what filled it meanwhile is never stored.
  `indexer` has pages of one entry, which are never partial, and there the
  history completes.
- `NewerReadPrevails` is what `dApp/lib/stt-cache/indexer.ts` (lines 603-604) and
  `indexer-persistence.ts` (lines 161-168) say of two reconciliations of one
  wallet: they may run at the same time, for the comparison of positions under the
  wallet's lock orders them. The branch that found no live output (lines 543-590)
  makes no comparison. A request about a token that is not minted yet reads
  nothing; the token is minted and a walk stores it; then the request writes,
  finds a row and closes it: transaction, datum and participants are gone until
  the next walk. Had there been no row it would have written nothing, so the
  race needs the walk in between.

Not a run of its own, but met while modelling: on the very first run the head
cursor is unset, so what the head scan leaves behind is left to the backfill
alone (the `head # 0` in `LeavesGap`).

### Bounds

`MaxTime` stops the clock. Time is in units in which the code's day, window and
cooldown are small numbers (`Day`, `MaxWindow`, `Cooldown`), kept distinct enough
that a rounding of accrual, a range that straddles a deadline and several uses of
the clock fit below `MaxTime`: in `recovery` both unlocks, the end of the rent and
several cooldowns pass, while the salary can still be cut off; in `operators` two
full days of the spender. `MaxStateInteger` is the width of stored integers and lies
at or just above `MaxTime`, so that upper ends beyond every date occur and the width
is reached.

`operators` has two wallets in one: `ScopedSpec` lets a wallet with a spender run
longer, with its two users and no stream, and stops the others after one or two
ticks. It restricts which steps are taken, never what a step does. `wallet`
bounds what is ever paid in (`MaxValue`), the UTxOs (`MaxCoins`), and by `Scope`
the users' wallet to a shorter time than the heirs', which hold one asset.
`limits` explores builds and announced methods apart (`MethodsApart`): they are
charged to different buckets, so calls of the two kinds do not meet.

`MaxRequests` bounds the requests between their read and their write, and
`MaxTip` the states of the thread: three requests let every pair of kinds race
with a third beside it, and three bodies include two that compete for one state
and one for the next, so a rebuild may be for the same state or a later one.
Identifiers are not reused, as in the code. Once there are two rows, which are
interchangeable, one request runs at a time (`OneAtATime`): the quota counts rows
under the creator's lock, and races on a row are those of the first.

`MaxChain`, `MaxLate`, `MaxCrashes` and `MaxAsks` bound the indexer's surroundings;
runs are not bounded. The passing run has one server: as long as the lock admits one
run at a time a second server differs from the first by its name only. That the
properties rest on the lock can be seen with `Server = {s1, s2}` and `LockFree` always
true: `StampIsHonest` and `HistoryCompletes` are then violated. With the lock all four hold
for two servers as well; that instance takes four minutes and is not among the runs.
`StampsAreHonest` proves the first for any number of servers. `MaxOutputs` lets a settlement of two claims return change
to the wallet and to its author.

### Fairness

The safety runs assume none: nobody is obliged to send a transaction, so
deadlock is not checked (with `MaxTime` reached and no legal transaction left
the wallet simply rests). `SttIndexer` assumes weak fairness of the runs'
steps: every visit to the application requests a run, and a run goes on until it
ends, dies or is late; deadlines and crashes are bounded, which stands for
runs that get through at times. `FinalRecovery` assumes that time passes and that
a beneficiary who may act for long enough does, `WF_vars(BeneficiaryActs)`. Weak
fairness is enough although others take the clock away again and again, because
their supply of reasons ends: that is what the run shows.

## What is proved

TLAPS proves, for every value of the constants that satisfies their named
assumptions, every property of the passing runs except liveness (`Converges`,
`HistoryCompletes`, `EverythingIsRecovered`) and the three properties of
`TransactionBuilders`. What those say with `ENABLED` is proved builder by
builder without it. It also proves that the contract's comparisons of lists are
those the state thread and the wallet make of tables.

| module | theorem | property |
|---|---|---|
| `SttThreadProofs` | `TypeCorrect` | `TypeOK` |
| | `ConfigurationIsInvariant` | `ConfigurationStaysValid` |
| | `PaymentsStayWithinAccrual` | `PaidWithinAccrued` |
| | `AccrualIsNeverClawedBack` | `NoClawback` |
| | `StopsAreNeverRefused` | `StopIsNeverRefused` |
| | `CrankIsAlwaysFree` | `CrankIsNeverWedged` |
| | `ClockStaysNear`, `CadenceKept` | `ClockIsNear`, `CadenceIsKept` |
| | `RenewalsAreBounded` | `RenewalIsBounded` |
| | `RecoveryStaysOrderly` | `RecoveryIsOrderly` |
| | `DailyLimitHolds` | `DailyLimit` |
| | `DelaysAreBounded` | `DelayIsBounded` |
| | `ClientAndContractAgree`, `ConfigurationsAlwaysAgree` | a conjunct of `OperatorBuildersAgree` |
| | `WithdrawalsAgree`, `DistributionsAgree`, `StopsAgree`, `CancellationsAgree` | conjuncts of `RecoveryBuildsAreAccepted` and `EverybodyCanBuild` |
| | `SettlementsAreAccepted` | a conjunct of `RecoveryBuildsAreAccepted` |
| | `CollectionsAreBuilt` | a conjunct of `EverybodyCanBuild` |
| | `OperatorUsesAreAccepted`, `ReschedulesAreAccepted`, `RemovalsAgree`, `AllowancesAreAccepted` | conjuncts of `OperatorBuildersAgree` |
| | `ListsAreTables`, `ForwardedListsAgree`, `StoppedListsAgree`, `RescheduledListsAgree`, `SettledListsAgree` | the comparisons of `StreamLists` are those of `SttThread` |
| `WalletProofs` | `ReserveAlwaysStays` | `ReserveStays` |
| | `NothingGetsLost` | `NothingIsLost` |
| | `HeirsAlwaysKeepTheirWorth` | `HeirsKeepTheirWorth` |
| | `WalletImplementsAccounts` | `ImplementsAccounts` |
| | `ValueChangeIsThePayout`, `ReserveOfTheList`, `ReserveListsAgree`, `SharesAgree` | the sums and comparisons of `ReserveLists` are those of `Wallet` |
| `PayoutRoutingProofs` | `EveryClaimGetsPaid` | `EveryClaimIsPaid` |
| | `AuthorNeverGetsMore` | `AuthorNeverGains` |
| `ProposalsProofs` | `TypeCorrect` | `TypeOK` |
| | `OneTransferEach` | `OneTransferPerRow` |
| | `ClaimsAreExclusive` | `ClaimIsExclusive` |
| | `SignaturesStayCurrent` | `SignaturesAreCurrent` |
| | `AssemblyStaysOnRecord` | `AssemblyIsOnRecord` |
| | `SubmittedMeansSent` | `SubmittedWasSent` |
| | `QuotaHolds` | `ActiveWithinQuota` |
| | `ProposalsAreOneShot` | `ImplementsOneShot` |
| `ProposalAuthProofs` | `ChallengesAreOneShot` | `OncePerChallenge` |
| | `ChallengesAreSpentInTime` | `SpentInTime` |
| `SttIndexerProofs` | `StampsAreHonest` | `StampIsHonest` |
| | `SnapshotsOnlyMoveForward` | `SnapshotsMoveForward` |
| `RateLimiterProofs` | `ServedIsAlwaysPaid` | `ServedIsPaid` |
| | `OnlyAcceptedEverReachTheDeployment` | `OnlyAcceptedReachTheDeployment` |
| | `WindowsAlwaysEnd` | `WindowsEnd` |
| | `BurstsAreBounded` | `BurstIsBounded` |

Assumptions: the numeric constants are naturals (`Day` and `Cooldown` positive),
ids are finite in number, `None` is neither a number nor a key, and the
configurations and streams somebody asks for decode (their integers may have any
size and sign: the rules reject them). For the wallet, the values an output may
hold are natural numbers of each asset, what a transaction writes is a finite bag
of them, and the accounts of users and beneficiaries have different names; the
order of assets is a strict total order (`AssetOrderAssumption`). For the routing
of payouts (`PlansAssumption`), the author's address is no wallet's and no
thread's, a stream owes one asset, a wallet of which nothing is spent brings
nothing, and what a distribution divides is all that its wallet brings: `Wallet`
has the exact division, and `SharesAddUp` shows that nothing is left over. For the
request limits, limits and the window are positive, no client is called `"all"`,
and a statement is at most as late as an expired bucket is kept
(`DelayAssumption`): the code keeps it for a day.

### The state thread

`TypeOK` and `ConfigurationStaysValid` are inductive together: each
action that does not check the whole configuration is shown to leave each part
of it valid. Removing an entry keeps every rule that quantifies over a table,
and reachability is either checked again (`RemoveAccessIndex`) or kept because
another beneficiary remains (`UseBeneficiary`); a draw changes neither wallets
nor powers, so the sum that decides reachability is the same. `PaidWithinAccrued`
is not inductive alone, because only shaped streams have monotone accrual:
`StreamInvariant` adds `TypeOK` and `StreamsAreValid`. One lemma,
`StreamsAreRespected`, says what any accepted transaction may do to one stream;
it rests on `EntitlementIsMonotone` (a schedule with the same start and rate
that has run longer entitles to no less) and on the floors: a stop's cutoff and
a reschedule's floor are at least the upper end of the range, hence at least
`now`. `NoClawback` and `PaidWithinAccrued` follow from it, and
`StopIsNeverRefused` from the two invariants: what is paid is at most the
entitlement now, hence at most the lifetime total of the stream cut off later.

Two theorems are about histories of the thread. `AllowanceInvariant` ties what a user
drew to what it has left: whatever it drew within the last day is missing
from `remaining` (`DrawnIsMissing`), and by the time its budget renews a draw is
a day old (`ResetIsADayAway`), because a draw sets the reset a day past the upper
end of its range, which is not before now, and a renewal is tested at the lower
end of a later range, which is not after now. `granted` keeps the largest budget
a configuration has given the user.

`DelayInvariant` counts downwards: the delays so far and the streams somebody may
still stop are together at most `MaxStreams`, and one more once the clock's stamp
is past the last beneficiary's deadline (`StampIsPastDeadline`). A use of the
clock whose range begins before the deadline takes the stamp past it, which
happens once; after it only stops of streams are left to others, and a stop cuts
its stream off at the new stamp, so that nobody can stop that stream again. A
keeper's renewal moves the deadline and restarts the count.

### The builders

The theorems about builders are about one step: in a State the contract has
reached (`StoredState`: `TypeOK`, `ConfigurationStaysValid`, `PaidWithinAccrued`,
an invariant by `StoredStateHolds`) and for a range and signatures the dApp
uses, `BuildX(tx)` implies the action X, or the two are equivalent. So the runs'
`~ENABLED (BuildX /\ ~X)` holds for every value of the constants although the
prover cannot say `ENABLED`; and where the two are equivalent, a step of the
contract is a step the builder would have built, so that the builder refuses
nobody.

In one direction, the client's last check does not compare what is paid on a
stream with its lifetime total, and the contract does. That the rewritten stream
still owes what was paid is therefore not a consequence of the check but of the
invariant: `PaidWithinAccrued` and the floors (`CutStreamIsShaped` for stops,
`RescheduledStreamIsRespected` for reschedules). In the other direction,
`AcceptedIsForwardable` shows that no State the contract leaves behind fails the
client's check: the next State is valid again (`ConfigurationStep`), and on valid
streams the two validations agree (`ClientAndContractAgree`), because a key listed
in at most one record is what pairwise disjoint wallets mean (`OneHolder`). The
operator's and the spender's theorems suppose that the date the automatic
renewal falls on is among those that may be chosen (`ScheduleDate`).

### The wallet

Every step of the wallet is a step of its state thread or leaves the thread alone
(`WalletRunsThread`, from which `WalletIsThread`), so what is proved of the thread
holds of the wallet. `WalletInvariant` is the thread's `StreamInvariant` and
`ConfigurationStaysValid` with `MoneyTypeOK`, which says that the purse is a finite
bag of values and that what each taker took is a value. The wallet's properties say
what a transaction may do to its money, so each is proved of one step at a time, by
a lemma per kind of transaction. Five lemmas say what a spend does to the balance
and to the takers, whichever UTxOs it consumes: `OperatorWithdraws`, `UserWithdraws`,
`HeirWithdraws`, `HeirsDivide` and `PayeesWithdraw`.

- `ReserveStays` (`ReserveStep`): a spend leaves what is owed at the end of its range
  in what it pays back, which covers what is owed now, since debts grow with time
  (`ReserveCoversDebts`); the UTxOs it does not touch only add to that
  (`ReservedLeavesDebts`). A distribution needs that no
  stream is left, a settlement pays nobody but payees.
- `NothingIsLost` (`IncomeStep`): what leaves the outputs is added to the taker it
  is paid to. The distribution needs that the shares add up to the whole
  (`SharesAddUp`, `DivisionKeepsIncome`), which holds because it must divide exactly.
- `HeirsKeepTheirWorth` (`WorthStep`): an heir who leaves takes its weight and at
  most the floor of its share, so what the others may claim does not shrink
  (`PartOfBalance`, `ShareKeepsWorth`).
- `ImplementsAccounts` (`AccountsStep`): each kind of transaction is the step of
  `WalletAccounts` that its lemma names (`OperatorDisposes`, `UserDrawsMoney`,
  `HeirInherits`, `HeirsDistribute`, `PayeesSettle`, `DepositIsReceived`,
  `ThreadArranges`) or a stutter (`ConsolidationStutters`): the choice of UTxOs, the
  range and the signatures disappear in it. What is owed falls by what a settlement
  pays (`DebtsAreSettled`) and in no other step (`DebtsGrow`).

The money is a bag of UTxOs whose value is a sum over the bag, the debts are a sum
over streams, and the weights a sum over beneficiaries. `Sums` proves what such a
sum does when a term is added, taken away or changed, once for all: the community
modules' fold is a recursive function, and it is unfolded by an induction on the
size of the set that needs no operator as a parameter (`SubsetsAreReached`, from
the well-foundedness of the naturals).

### Lists and tables

The theorems are about any two lists of entries whose integers may have any size,
and take of the list before what the State that stores it guarantees (`ListIsValid`,
which `ListsAreTables` shows to be unique ids and `StreamsAreValid` of the table).
Each says that a comparison of lists holds exactly if the comparison of tables does.

- *Forwarding* (`ForwardedListsAgree`, `StoppedListsAgree`): each input is found
  among as many outputs. Since the inputs' ids are unique, the matched outputs are
  different ones, so every output is matched (`EverybodyIsMatched`, by counting):
  uniqueness of the new ids, which the code need not check there, follows.
  For a reschedule it does not, since entries may be added: `RescheduledListsAgree`
  takes it from `ListIsValid` of the new list, which the code checks.
- *Settlement* (`SettledListsAgree`): the cursor moves by at most one per input and
  ends at the last output, so every output is met by exactly one input, and the
  outputs stand in the order of the inputs (`IsOrderedPart`). Conversely, from such
  an order the walk is constructed. That order is the only thing the walk demands
  beside `Settled`; `SttThread` has no order. `ValueChangeIsThePayout` renames the
  walk's sum over positions to the sum over ids (`SumIsRenamed`).
- *The reserve* (`ReserveOfTheList`): an insertion keeps the list ordered, adds to
  one asset what it is given and changes no other; so after the fold the list
  has of each asset the sum of the streams in it, for all assets or only those asked for.
- *The comparisons* (`ReserveListsAgree`, `SharesAgree`): after n entries of the
  reserve the pass has left behind just the rows up to the n-th asset, so what it
  reads is the quantity of the value, or zero where there is no row. It leaves out
  the rows after for an asset of which there was nothing before, which is sound
  since the next reserved asset comes later. An asset that does not shrink needs no
  comparison, and if all streams are settled, nothing is reserved
  (`NothingIsReserved`), so that the shortcuts change nothing.

Each comparison says that a walk exists, and that one exists for all lists is part of
what is proved: `OrderedListsAreWalked` for the settlement, `ScanExists` for the
reserve, from `StepsAreTaken` in `Sums`. `MCWallet` evaluates the statements about
forwarding, stops, settlements and reserves on small lists, duplicates included; those
about reschedules, payout sums and shares are only proved.

### Where payouts land

`PayoutInvariant` says that the outputs placed so far are a finite bag of amounts and
that what was accepted is routed. Both properties count outputs. A claim is covered by
an output of its own (`EachIsPaid`, `SumIsCovered`), since two claims differ in the
tags of their outputs; the outputs of different threads are disjoint, and disjoint
parts come to no more than the whole (`SumOfParts`). For `AuthorNeverGains` there are
three cases, for each asset. If some settlement pays it out with its wallet's money and
owes the author nothing, no output of the author holds any of it
(`StrangersGetNothing`). If some settlement pays it out and it is a token, the tagged
outputs hold just what is due, and those of the others have their own tags, so the
author holds at most what that settlement owes it (`TokensAreExact`). Otherwise money
is conserved. What a wallet brings returns to it or goes to claims; the outputs that
return it, and those that pay claims of others who are no wallets of the transaction,
hold all but what is owed to the author and to such wallets (`PurseIsKept`); they are
disjoint and not the author's (`KeptApart`), so the author gets at most the rest
(`AuthorGetsTheRest`), which is what it brought, what it is owed and what is unassigned
(`LooseIsAccountedFor`). The claims on wallets of the transaction cannot be counted as
kept: the output that pays one may be among those that return its own money.

### Proposals and signing in

For proposals the constants are arbitrary but for naturals and a `None` that is
no proposal and no body: the number of rows, participants, bodies and requests
in flight is unbounded. `Inv` adds to `TypeOK` and the properties what makes them
inductive: a body that was sent leaves its row in `SUBMITTING` with that body or
`SUBMITTED`, or deleted and its id spent (`SentIsFinal`); it was sent once per
row (`SentOnce`); and a submission's stage tells the truth about `sent`
(`StagesAreTrue`). The conditional writes keep it because the condition is the
guard itself: while a submission runs, the guards of all writes on its row are
false. The refinement maps a row to the phase its history and status show and to
the body that counts in that phase; each action moves one row by one abstract
step or none, and a deletion of a row that was sent is a stutter, since what was
handed over stays so. `QuotaHolds` needs `Inv` as well: a creator's active rows
stay a finite set within the quota (`WithinQuota`) since only a creation, which
tests the quota, adds to them, and a submission that ends puts back only the
row it had claimed.

For signing in, `Inv` in `ProposalAuthProofs` relates the rows to those who hold
them: an attempt past its consumption is the only one of its challenge
(`OneHolder`), and while there is one the row is consumed or gone for good,
because a clean-up removes only what has expired and an id is stored once. An
attempt's reading of the time is at most `MaxDelay` old, which bounds how late
it spends the challenge.

### The indexer

`IndexerInvariant` follows one walk over all the runs it takes. What lies below
the cursor, or below the position of the run that walks, has a row at least as new
as the chain was when the walk began, or was closed by a request since. Four
facts carry it: the chain only grows, so a read later in the walk is newer
than its beginning; the collection lists tokens by their first transaction, so a
wallet keeps its place while others are minted (`Place` is injective and stable);
a position is done only when its wallet's pass has been written, and a pass that
is refused as behind leaves a newer row; and only the holder of the lock moves the
cursor.

### The request limits

`CallInvariant` keeps, of every call, that each debit it must have made when it
is served is either recorded as accepted or still due and binding, and that a
debit of the deployment's bucket comes after a binding debit of the caller's own.
`ServedIsPaid` is the case in which nothing is due. `BurstIsBounded` needs the
windows of each bucket. `Windows` says, for the set of debits a bucket has accepted,
that there are a last window, the stamp that opened it, and the debits accepted in
it, whose cost is at most the count; that all others were made at most `MaxDelay`
after that stamp; and that of these, what was made in a stretch that reaches into
the last window costs at most the limit. A new window opens with a stamp that is
not before the end of the last one. For a bucket that was pruned this holds only
because a statement is not later than the retention (`DelayAssumption`); without
it two statements with old times could open windows that overlap.

### What is only model-checked

Liveness (`Converges`, `HistoryCompletes`, `EverythingIsRecovered`), and the
properties of `TransactionBuilders` in the words they are checked in, which speak of
`ENABLED`: both are outside the prover's reach. Recursive functions are not in the
way: an induction over a finite set goes through `SubsetsAreReached`.

## Not modelled

- The reference-script store: one rule, no state of its own.
- Stake delegation, withdrawals of rewards, certificates and votes: they need
  operator use, and move no UTxO of the wallet.
- Roll-backs of the chain: the code has no notion of them. A lost database
  session that frees the advisory lock while its run goes on: two runs then
  write side by side, and the cursors are the last one's.
- Listing and verification of proposals, discovery, directories, forms and pages:
  reads and presentation. Wallet extensions, relays and providers: third parties.
- Coin selection, fees, minimum ADA, encodings, and byte widths.

## Plan

In the order of importance:

1. That `FinalRecovery`'s steps keep its safety half: what the beneficiary has
   taken never comes from the payees' reserve.
2. The distribution's division among heirs as the list of outputs the contract
   walks, as `StreamLists` has the settlement.
3. The builders of mint and consolidation, and the drafts the forms keep.
