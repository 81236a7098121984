----------------------------- MODULE FinalRecovery -----------------------------
(***************************************************************************)
(* The owner's keys are lost and one beneficiary remains.  It is to empty  *)
(* the wallet, a batch of UTxOs at a time, while users and payees use the  *)
(* clock they share with it, streams accrue and somebody still sends       *)
(* money.  Nothing but the order of events is left of State and wallet:    *)
(* SttThread and Wallet have the rest.                                     *)
(*                                                                         *)
(* Times are relative to now, so that the clock needs no bound: Tick moves *)
(* every date one unit closer, and forgets what no transaction can see any *)
(* more.                                                                   *)
(***************************************************************************)
EXTENDS StreamingPayments, Bags, FiniteSetsExt, Functions

CONSTANTS
  Schedules,    \* the streams that run when the owner is gone
  Purses,       \* the wallet's UTxOs at that time, by their value
  Coin,         \* values of UTxOs somebody may still send
  Batch,        \* UTxOs that fit in a transaction
  Cooldown,     \* non_admin_payout_cooldown_ms
  MaxWindow,    \* max_payout_validity_window_ms
  Unlocks,      \* how far ahead the beneficiary's unlock is at first
  MaxDeposits,  \* bound: UTxOs sent after the owner is gone
  None

ASSUME ClockAssumption == Cooldown \in Nat \ {0} /\ MaxWindow \in Nat
ASSUME BatchAssumption == Batch \in Nat \ {0}

VARIABLES
  purse,     \* the wallet's UTxOs: a bag of values
  streams,   \* streaming_payments
  gate,      \* when the shared clock frees
  open,      \* when the beneficiary unlocks
  deposits   \* UTxOs sent so far

vars == <<purse, streams, gate, open, deposits>>

\* The lower bounds a transaction may still declare.
Seen == (-MaxWindow)..0

Transaction == {tx \in [lo : Seen, hi : 0..MaxWindow] : tx.hi - tx.lo <= MaxWindow}

-----------------------------------------------------------------------------
(* The clock. *)

Cadence(tx) == tx.lo >= gate /\ gate' = tx.hi + Cooldown

FinalRecoveryIsActive(tx) == tx.lo >= open

\* A stream that ended before any lower bound looks the same ever after.
Closer(stream) ==
  IF stream.end <= -MaxWindow THEN stream
  ELSE [stream EXCEPT !.start = @ - 1, !.end = @ - 1]

Tick ==
  /\ gate' = Larger(gate - 1, -MaxWindow)
  /\ open' = Larger(open - 1, -MaxWindow)
  /\ streams' = [s \in DOMAIN streams |-> Closer(streams[s])]
  /\ UNCHANGED <<purse, deposits>>

-----------------------------------------------------------------------------
(* What moves streams and money. *)

Total(b) == FoldFunctionOnSet(+, 0, [v \in DOMAIN b |-> v * b[v]], DOMAIN b)

\* UTxOs that one transaction spends; what remains returns as one UTxO.
Inputs == {b \in SubBag(purse) : BagCardinality(b) <= Batch}

Spend(spent, rest) ==
  purse' = (purse (-) spent) (+) (IF rest = 0 THEN EmptyBag ELSE SetToBag({rest}))

StopStream(tx, s, exactly) ==
  LET cutoff == Cutoff(streams[s], tx.hi)
  IN  /\ Cadence(tx)
      /\ \E end \in cutoff..(streams[s].end - 1) :
           /\ exactly => end = cutoff
           /\ streams' = [streams EXCEPT ![s].end = end]
      /\ UNCHANGED <<purse, open, deposits>>

\* A removed stream counts as paid in full.
Payout(kept, paid) ==
  MapThenSumSet(LAMBDA s : (IF s \in kept THEN paid[s] ELSE LifetimeTotal(streams[s])) - streams[s].paid,
                DOMAIN streams)

\* The wallet pays exactly what is counted as paid, or somebody else does.
Settle(tx) ==
  /\ Cadence(tx)
  /\ \E kept \in SUBSET DOMAIN streams :
       \E paid \in [kept -> 0..MaxStateInteger], spent \in Inputs :
         /\ \A s \in DOMAIN streams \ kept : Removable(streams[s], tx.lo)
         /\ \A s \in kept : RetainedWith(streams[s], paid[s], tx.lo)
         /\ streams' = [s \in kept |-> [streams[s] EXCEPT !.paid = paid[s]]]
         /\ \/ spent = EmptyBag /\ purse' = purse
            \/ /\ Payout(kept, paid) <= Total(spent)
               /\ Spend(spent, Total(spent) - Payout(kept, paid))
  /\ UNCHANGED <<open, deposits>>

\* One unit more than is owed, until the whole schedule is paid.
Reserve(latest) ==
  MapThenSumSet(LAMBDA s : IF streams[s].paid >= LifetimeTotal(streams[s]) THEN 0
                           ELSE Larger(0, AccruedAt(streams[s], latest) + 1 - streams[s].paid),
                DOMAIN streams)

Withdraw(tx) ==
  /\ Cadence(tx)
  /\ \E spent \in Inputs : \E rest \in 0..Total(spent) :
       /\ rest >= Smaller(Total(spent), Reserve(tx.hi))
       /\ Spend(spent, rest)
  /\ UNCHANGED <<streams, open, deposits>>

-----------------------------------------------------------------------------
(* Those who act. *)

Crank_ByUsers(tx) == Settle(tx)

\* Users and payees settle until the last beneficiary has unlocked.
Crank(tx) == ~FinalRecoveryIsActive(tx) /\ Settle(tx)

\* A payee stops its own stream; None marks one that cannot sign.
Cancel(tx) ==
  \E s \in DOMAIN streams :
    streams[s].payee # None /\ StopStream(tx, s, FinalRecoveryIsActive(tx))

Deposit ==
  /\ deposits < MaxDeposits
  /\ deposits' = deposits + 1
  /\ \E value \in Coin : purse' = purse (+) SetToBag({value})
  /\ UNCHANGED <<streams, gate, open>>

\* The beneficiary stops streams, settles with the wallet's money and withdraws,
\* in any order and with any range, but never for nothing.
Recover(tx) ==
  /\ FinalRecoveryIsActive(tx)
  /\ \/ \E s \in DOMAIN streams : StopStream(tx, s, TRUE)
     \/ Settle(tx) /\ purse' # purse
     \/ Withdraw(tx) /\ purse' # purse

BeneficiaryActs == purse # EmptyBag /\ \E tx \in Transaction : Recover(tx)

-----------------------------------------------------------------------------
Init ==
  /\ purse \in Purses
  /\ streams \in Schedules
  /\ gate \in (-MaxWindow)..(MaxWindow + Cooldown)
  /\ open \in Unlocks
  /\ deposits = 0

Next ==
  \/ Tick
  \/ \E tx \in Transaction : Crank(tx) \/ Cancel(tx)
  \/ Deposit
  \/ BeneficiaryActs

\* Time passes, and a beneficiary that may act at once for long enough does.
Fairness == WF_vars(Tick) /\ WF_vars(BeneficiaryActs)

Spec == Init /\ [][Next]_vars /\ Fairness

-----------------------------------------------------------------------------
\* Whoever uses the clock whenever it frees, whatever the streams still take and
\* in whatever order it acts, the last beneficiary finds the wallet empty in the
\* end (user_handlers.ak:219-225, settlement_handlers.ak:97-105, 249-259).
EverythingIsRecovered == <>[](purse = EmptyBag)
=============================================================================
