----------------------------- MODULE ReserveLists -----------------------------
(***************************************************************************)
(* The reserve of the streams as the contract computes and compares it     *)
(* (lib/streaming_payments/funding.ak, lib/wallet/reserve.ak): one entry   *)
(* per asset, in the ledger's order of assets, which one pass along the    *)
(* reserve and the values before and after relies on.  Wallet has a        *)
(* function from assets in its place.                                      *)
(*                                                                         *)
(* An asset is a policy and a name, and the order is that of policies      *)
(* first.  A value lists what it holds of each asset in that order, so     *)
(* that walking its policies and the names of each is walking that list.   *)
(***************************************************************************)
EXTENDS Wallet, StreamLists

CONSTANT AssetOrder  \* the pairs of assets of which the first comes first

Precedes(a, b) == <<a, b>> \in AssetOrder

ASSUME AssetOrderAssumption ==
  /\ \A a \in Asset : ~ Precedes(a, a)
  /\ \A a, b \in Asset : a = b \/ Precedes(a, b) \/ Precedes(b, a)
  /\ \A a, b, c \in Asset : Precedes(a, b) /\ Precedes(b, c) => Precedes(a, c)

\* Entries are records [asset, quantity].
IsOrdered(entries) ==
  \A j, k \in DOMAIN entries : j < k => Precedes(entries[j].asset, entries[k].asset)

QuantityOf(entries, asset) ==
  FoldFunctionOnSet(+, 0, [k \in DOMAIN entries |-> entries[k].quantity],
                    {k \in DOMAIN entries : entries[k].asset = asset})

\* The value that lists these entries.
Held(entries) == [a \in Asset |-> QuantityOf(entries, a)]

-----------------------------------------------------------------------------
(* Computing the reserve. *)

\* The first position whose asset does not come before.
PlaceOf(entries, asset) ==
  CHOOSE p \in 1..(Len(entries) + 1) :
    /\ \A k \in 1..(p - 1) : Precedes(entries[k].asset, asset)
    /\ p \in DOMAIN entries => ~ Precedes(entries[p].asset, asset)

AddReserveEntry(entries, entry) ==
  LET p == PlaceOf(entries, entry.asset)
  IN  IF p \in DOMAIN entries /\ entries[p].asset = entry.asset
      THEN [entries EXCEPT ![p].quantity = @ + entry.quantity]
      ELSE [k \in 1..(Len(entries) + 1) |->
              IF k < p THEN entries[k] ELSE IF k = p THEN entry ELSE entries[k - 1]]

WithReserveOf(entries, stream, latest, relevant) ==
  LET owed == ReservedFor(stream, latest)
  IN  IF stream.asset \in relevant /\ owed > 0
      THEN AddReserveEntry(entries, [asset |-> stream.asset, quantity |-> owed])
      ELSE entries

\* The reserve of the first n streams.
ReserveOfFirst(list, latest, relevant) ==
  LET reserve[n \in 0..Len(list)] ==
        IF n = 0 THEN <<>> ELSE WithReserveOf(reserve[n - 1], list[n].stream, latest, relevant)
  IN  reserve

CalculateStreamingReserveForAssets(list, latest, relevant) ==
  ReserveOfFirst(list, latest, relevant)[Len(list)]

CalculateStreamingReserve(list, latest) == CalculateStreamingReserveForAssets(list, latest, Asset)

-----------------------------------------------------------------------------
(* Comparing values with it. *)

\* The assets of which something leaves.  A draw on an allowance says which; it
\* must be what leaves (ExactWithdrawal).
Leaving(before, after) == {a \in Asset : before[a] - after[a] > 0}

RemainsFunded(reserve, before, after) ==
  \A a \in Leaving(before, after) :
    LET reserved == QuantityOf(reserve, a)
    IN  reserved > 0 => after[a] >= Smaller(before[a], reserved)

\* Past the rows that come before an asset, from those already passed.
SkipTo(holding, passed, asset) ==
  CHOOSE k \in passed..Len(holding) :
    /\ \A l \in (passed + 1)..k : Precedes(holding[l].asset, asset)
    /\ k = Len(holding) \/ ~ Precedes(holding[k + 1].asset, asset)

IsNext(holding, passed, asset) ==
  LET next == SkipTo(holding, passed, asset) + 1
  IN  next \in DOMAIN holding /\ holding[next].asset = asset

\* The row of the asset is taken along, if there is one.
PassedWith(holding, passed, asset) ==
  SkipTo(holding, passed, asset) + (IF IsNext(holding, passed, asset) THEN 1 ELSE 0)

TakenQuantity(holding, passed, asset) ==
  IF IsNext(holding, passed, asset) THEN holding[SkipTo(holding, passed, asset) + 1].quantity ELSE 0

\* The rows of both values passed after n entries of the reserve.  Those after
\* are left alone for an asset of which there was nothing before.
IsReserveScan(reserve, befores, afters, passedBefore, passedAfter) ==
  /\ passedBefore[0] = 0 /\ passedAfter[0] = 0
  /\ \A n \in DOMAIN reserve :
       /\ passedBefore[n] = PassedWith(befores, passedBefore[n - 1], reserve[n].asset)
       /\ passedAfter[n] = IF TakenQuantity(befores, passedBefore[n - 1], reserve[n].asset) <= 0
                           THEN passedAfter[n - 1]
                           ELSE PassedWith(afters, passedAfter[n - 1], reserve[n].asset)

ScanAccepts(reserve, befores, afters, passedBefore, passedAfter) ==
  \A n \in DOMAIN reserve :
    LET before == TakenQuantity(befores, passedBefore[n - 1], reserve[n].asset)
        after == TakenQuantity(afters, passedAfter[n - 1], reserve[n].asset)
    IN  before > 0 => after >= Smaller(before, reserve[n].quantity)

ReserveAssetsRemainFunded(reserve, befores, afters) ==
  \E passedBefore \in [0..Len(reserve) -> 0..Len(befores)],
     passedAfter \in [0..Len(reserve) -> 0..Len(afters)] :
    /\ IsReserveScan(reserve, befores, afters, passedBefore, passedAfter)
    /\ ScanAccepts(reserve, befores, afters, passedBefore, passedAfter)

-----------------------------------------------------------------------------
(* Which comparison a spend is held to (expect_reserve_preserved). *)

AllSettled(list) == \A n \in DOMAIN list : list[n].stream.paid >= LifetimeTotal(list[n].stream)

\* Operators and the last beneficiary: whatever is reserved.
FullReserveIsPreserved(list, befores, afters, latest) ==
  \/ AllSettled(list)
  \/ ReserveAssetsRemainFunded(CalculateStreamingReserve(list, latest), befores, afters)

\* Users and the other beneficiaries: the reserve of what leaves.
ReserveOfLeaving(list, before, after, latest) ==
  IF AllSettled(list) THEN <<>>
  ELSE CalculateStreamingReserveForAssets(list, latest, Leaving(before, after))

LeavingReserveIsPreserved(list, before, after, latest) ==
  AllSettled(list) \/ RemainsFunded(ReserveOfLeaving(list, before, after, latest), before, after)
=============================================================================
