-------------------------- MODULE StreamingPayments --------------------------
(***************************************************************************)
(* The arithmetic and the transition rules of streaming payments: what a   *)
(* stream has accrued, which streams may be stored, how low a stop may     *)
(* bring an end date, and which settlements the payout walk accepts        *)
(* (lib/streaming_payments/{types,shape,funding,forwarding,payout}.ak).    *)
(*                                                                         *)
(* A stream is a record                                                    *)
(*   [payee, asset, rate, start, end, paid]                                *)
(* kept in a function from stream ids.  StreamLists has the lists of the   *)
(* code and its comparisons of them.  The payee is a key, or None for a    *)
(* script address, which can sign nothing.                                 *)
(*                                                                         *)
(* A definition named Rule_Mistake is Rule with that mistake; see          *)
(* SttThread.                                                              *)
(***************************************************************************)
EXTENDS Integers, FiniteSets

CONSTANTS
  Day,              \* milliseconds_per_day, in the model's time unit
  MaxStreams,       \* max_streaming_payments
  MaxStateInteger   \* max_state_integer: the width of every stored integer

ASSUME DayAssumption == Day \in Nat \ {0}
ASSUME MaxStreamsAssumption == MaxStreams \in Nat
ASSUME MaxStateIntegerAssumption == MaxStateInteger \in Nat

Larger(m, n) == IF m >= n THEN m ELSE n
Smaller(m, n) == IF m <= n THEN m ELSE n

\* Stored integers are natural numbers of bounded width.
Bounded(n) == n >= 0 /\ n <= MaxStateInteger

-----------------------------------------------------------------------------
(* Accrual.  \div is floored division, as Plutus's integer division is. *)

PayoutForElapsed(elapsed, rate) == (elapsed * rate) \div Day

AccruedAt(stream, time) ==
  PayoutForElapsed(Smaller(time, stream.end) - stream.start, stream.rate)

LifetimeTotal(stream) ==
  PayoutForElapsed(stream.end - stream.start, stream.rate)

\* What the payee may no longer lose: nothing before the stream starts.
Entitlement(stream, time) == Larger(0, AccruedAt(stream, time))

-----------------------------------------------------------------------------
(* Which streams may be stored. *)

StreamIsShaped(stream) ==
  /\ Bounded(stream.start) /\ Bounded(stream.end)
  /\ Bounded(stream.rate) /\ Bounded(stream.paid)
  /\ stream.start <= stream.end
  /\ LifetimeTotal(stream) <= MaxStateInteger
  /\ stream.paid <= LifetimeTotal(stream)

StreamsAreValid(ss) ==
  /\ Cardinality(DOMAIN ss) <= MaxStreams
  /\ \A s \in DOMAIN ss : StreamIsShaped(ss[s])

StreamIsFresh(stream) == stream.paid = 0 /\ stream.start < stream.end

-----------------------------------------------------------------------------
(* Stopping and rescheduling. *)

\* The earliest end date an operator may give an existing stream; latest is
\* the transaction's upper bound, noLatest the mark of an open one.
EndDateFloor_IgnoresNow(stream, latest, noLatest) == stream.start

EndDateFloor(stream, latest, noLatest) ==
  IF stream.end = stream.start
  THEN stream.start
  ELSE Larger(stream.start + 1,
              IF latest = noLatest THEN stream.end ELSE Smaller(stream.end, latest))

\* The earliest end date a payee or a beneficiary may stop a stream at.
Cutoff(stream, latest) == Larger(stream.start, latest)

-----------------------------------------------------------------------------
(* Settlement: every stream of the input is either kept or removed. *)

StillOwes(stream, paid) == paid < LifetimeTotal(stream)

RetainedWith_NoCeiling(stream, paid, earliest) ==
  Bounded(paid) /\ paid >= stream.paid /\ StillOwes(stream, paid)

RetainedWith(stream, paid, earliest) ==
  /\ Bounded(paid)
  /\ paid >= stream.paid
  /\ paid - stream.paid <= Larger(0, AccruedAt(stream, earliest) - stream.paid)
  /\ StillOwes(stream, paid)

Removable_OnlyMatured(stream, earliest) == stream.end <= earliest

Removable(stream, earliest) ==
  stream.end <= earliest \/ stream.paid >= LifetimeTotal(stream)
=============================================================================
