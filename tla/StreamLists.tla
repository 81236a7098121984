----------------------------- MODULE StreamLists -----------------------------
(***************************************************************************)
(* The streams of a State are a list.  A transaction brings the list of    *)
(* its next State, and the contract compares the two by walking them       *)
(* (lib/streaming_payments/{types,shape,forwarding,payout}.ak).  SttThread *)
(* has a table of streams in their place; the proofs show that the walks   *)
(* accept what it says of the tables.                                      *)
(*                                                                         *)
(* An entry of a list is a record [id, stream].  That an id is a bounded   *)
(* integer is left out, and so are the outputs that carry the payouts      *)
(* (PayoutRouting).                                                        *)
(***************************************************************************)
EXTENDS StreamingPayments, Sequences, Functions

Ids(list) == {list[n].id : n \in DOMAIN list}

IdsAreUnique(list) == \A m, n \in DOMAIN list : list[m].id = list[n].id => m = n

\* The first stream of that id.
FindById(list, id) ==
  LET first == CHOOSE n \in DOMAIN list :
                 list[n].id = id /\ \A m \in 1..(n - 1) : list[m].id # id
  IN  list[first].stream

\* What a list says of each id.
Table(list) == [id \in Ids(list) |-> FindById(list, id)]

ListIsValid(list) ==
  /\ Len(list) <= MaxStreams
  /\ IdsAreUnique(list)
  /\ \A n \in DOMAIN list : StreamIsShaped(list[n].stream)

-----------------------------------------------------------------------------
(* Forwarding: entries are looked for by id, wherever they stand. *)

CoreFieldsMatch(input, output) == output = [input EXCEPT !.paid = output.paid, !.end = output.end]

IsForwardedBy(entry, other) ==
  /\ other.id = entry.id
  /\ CoreFieldsMatch(entry.stream, other.stream)
  /\ other.stream.paid = entry.stream.paid

AreForwarded(inputs, outputs) ==
  /\ Len(outputs) = Len(inputs)
  /\ \A n \in DOMAIN inputs : \E m \in DOMAIN outputs :
       /\ IsForwardedBy(inputs[n], outputs[m])
       /\ outputs[m].stream.end = inputs[n].stream.end

\* Whoever stops a stream lowers the end date of that one, to the cutoff at least.
EndMayBe(entry, target, latest, end) ==
  IF entry.id = target
  THEN end < entry.stream.end /\ end >= Cutoff(entry.stream, latest)
  ELSE end = entry.stream.end

IsPayeeCancelled(inputs, outputs, target, latest) ==
  /\ Len(outputs) = Len(inputs)
  /\ \A n \in DOMAIN inputs : \E m \in DOMAIN outputs :
       /\ IsForwardedBy(inputs[n], outputs[m])
       /\ EndMayBe(inputs[n], target, latest, outputs[m].stream.end)

\* An operator also adds entries, wherever in the list.
AreForwardedRescheduledOrAdded(inputs, outputs, latest, noLatest) ==
  /\ \A n \in DOMAIN inputs : \E m \in DOMAIN outputs :
       /\ IsForwardedBy(inputs[n], outputs[m])
       /\ outputs[m].stream.end >= EndDateFloor(inputs[n].stream, latest, noLatest)
  /\ \A m \in DOMAIN outputs :
       outputs[m].id \in Ids(inputs) \/ StreamIsFresh(outputs[m].stream)

-----------------------------------------------------------------------------
(* Settlement: one walk along both lists. *)

\* After n inputs the walk has passed cursor[n] outputs.  The next output is the
\* next input's if they have the same id; an input without an output is removed.
Meets(inputs, outputs, cursor, n) ==
  LET next == cursor[n - 1] + 1
  IN  next \in DOMAIN outputs /\ outputs[next].id = inputs[n].id

IsWalk(inputs, outputs, cursor) ==
  /\ cursor[0] = 0
  /\ \A n \in DOMAIN inputs :
       cursor[n] = cursor[n - 1] + (IF Meets(inputs, outputs, cursor, n) THEN 1 ELSE 0)

\* An unchanged stream passes without its amount being checked.
IsRetained(input, output, earliest) ==
  IF output = input
  THEN StillOwes(input, input.paid)
  ELSE /\ output = [input EXCEPT !.paid = output.paid]
       /\ RetainedWith(input, output.paid, earliest)

WalkIsAccepted(inputs, outputs, cursor, earliest) ==
  /\ IsWalk(inputs, outputs, cursor)
  /\ cursor[Len(inputs)] = Len(outputs)
  /\ \A n \in DOMAIN inputs :
       IF Meets(inputs, outputs, cursor, n)
       THEN IsRetained(inputs[n].stream, outputs[cursor[n]].stream, earliest)
       ELSE Removable(inputs[n].stream, earliest)

Cursors(inputs, outputs) == [0..Len(inputs) -> 0..Len(outputs)]

\* What the walk adds to the payout at an input.
ChangeAt(inputs, outputs, cursor, n) ==
  (IF Meets(inputs, outputs, cursor, n)
   THEN outputs[cursor[n]].stream.paid
   ELSE LifetimeTotal(inputs[n].stream)) - inputs[n].stream.paid

ValueChange(inputs, outputs, cursor, asset) ==
  FoldFunctionOnSet(+, 0, [n \in DOMAIN inputs |-> ChangeAt(inputs, outputs, cursor, n)],
                    {n \in DOMAIN inputs : inputs[n].stream.asset = asset})

\* The payout is some change of the wallet's value (validated_value_change).
PayoutIsValid(inputs, outputs, earliest) ==
  \E cursor \in Cursors(inputs, outputs) : WalkIsAccepted(inputs, outputs, cursor, earliest)

\* The outputs stand in the order of the inputs.
IsOrderedPart(outputs, inputs) ==
  \E place \in [DOMAIN outputs -> DOMAIN inputs] :
    /\ \A m \in DOMAIN outputs : inputs[place[m]].id = outputs[m].id
    /\ \A l, m \in DOMAIN outputs : l < m => place[l] < place[m]
=============================================================================
