----------------------------- MODULE RecoveryDelay -----------------------------
(***************************************************************************)
(* The state thread with a count of the times anybody but the last         *)
(* beneficiary pushed back its recovery by moving the shared clock, after  *)
(* the recovery had opened in real time.  No action of the thread reads    *)
(* the count.                                                              *)
(***************************************************************************)
EXTENDS SttThread

VARIABLE delays

delayVars == <<vars, delays>>

FinalRecoveryIsOpen == \E b \in DOMAIN beneficiaries : IsSole(b) /\ IsUnlockedAt(b, now)

SignedByBeneficiary(tx) == \E b \in DOMAIN beneficiaries : Signed(tx, beneficiaries[b].wallets)

\* Operators may extend or add streams, which starts the count again; so does a
\* liveness keeper, whose renewal closes the recovery.
Intervene(tx) == Operate(tx) /\ delays' = 0

Proceed(tx) ==
  /\ RenewProofOfLife(tx) \/ UseAllowance(tx) \/ Recover(tx) \/ Settle(tx)
  /\ delays' = IF ~FinalRecoveryIsOpen \/ unlock' # unlock THEN 0
               ELSE IF stamp' = stamp \/ SignedByBeneficiary(tx) THEN delays ELSE delays + 1

DelayInit == Init /\ delays = 0

DelayNext ==
  \/ Tick /\ UNCHANGED delays
  \/ \E tx \in Transaction : Intervene(tx) \/ Proceed(tx)

DelaySpec == DelayInit /\ [][DelayNext]_delayVars

-----------------------------------------------------------------------------
\* Payees and users who keep the cadence can hold the last beneficiary up at
\* most once per stream, and once more with a range that began before it
\* unlocked: the sixteen intervals of the settlement handler's comment.
DelayIsBounded == delays <= MaxStreams + 1
=============================================================================
