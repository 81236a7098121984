--------------------------- MODULE ProposalsProofs ---------------------------
(***************************************************************************)
(* The safety of signature requests, for any number of participants, rows, *)
(* bodies and concurrent requests.                                         *)
(*                                                                         *)
(* The invariant ties four tables together: the row, its witnesses, the    *)
(* submission that runs for it and what has been sent through it.  A row   *)
(* through which something was sent never becomes OPEN again; as long as   *)
(* nothing was, at most one submission holds it.                           *)
(***************************************************************************)
EXTENDS Proposals, FiniteSetTheorems, TLAPS

\* What was sent through a row is what the row shows, for good.
SentIsFinal ==
  \A p \in sent :
    /\ p[1] \in used
    /\ p[1] \in Stored =>
         proposals[p[1]].status \in {"SUBMITTING", "SUBMITTED"} /\ proposals[p[1]].body = p[2]

SentOnce == \A p, q \in sent : p[1] = q[1] => p = q

\* A submission has sent its body exactly if its stage says so.
StagesAreTrue ==
  \A s \in submits :
    IF s.stage = "taken" THEN <<s.row, s.body>> \in sent ELSE \A p \in sent : p[1] # s.row

Orderly ==
  /\ Stored \subseteq used
  /\ ClaimIsExclusive
  /\ SignaturesAreCurrent
  /\ AssemblyIsOnRecord
  /\ SubmittedWasSent
  /\ SentIsFinal
  /\ SentOnce
  /\ StagesAreTrue

Inv == TypeOK /\ Orderly
-----------------------------------------------------------------------------
(* Types. *)

LEMMA RequestKinds ==
  ASSUME NEW q \in Request
  PROVE  /\ q.row \in Row
         /\ q.kind = "rebuild" => q.actor \in Key /\ q.expected \in Body /\ q.body \in Body
         /\ q.kind = "claim" => q.actor \in Key /\ q.expected \in Body
BY DEF Request, RebuildRequest, ClaimRequest, DisposeRequest

\* A row that changes one field, or appears or disappears, keeps the table's type.
LEMMA RowUpdate ==
  ASSUME TypeOK, NEW r \in Row, NEW p \in Proposal \cup {None}
  PROVE  [proposals EXCEPT ![r] = p] \in [Row -> Proposal \cup {None}]
BY DEF TypeOK

LEMMA RowFields ==
  ASSUME TypeOK, NEW r \in Stored
  PROVE  proposals[r] \in Proposal /\ r \in Row
BY DEF TypeOK, Stored

LEMMA TypeInit == Init => TypeOK
BY BoundAssumption DEF Init, TypeOK

LEMMA TypeStep == TypeOK /\ [Next]_vars => TypeOK'
<1> SUFFICES ASSUME TypeOK, [Next]_vars PROVE TypeOK'
  OBVIOUS
<1>1. ASSUME NEW key \in Key, NEW r \in Row, NEW b \in Body, Create(key, r, b) PROVE TypeOK'
  <2>1. [creator |-> key, status |-> "OPEN", body |-> b, submittedTx |-> None] \in Proposal
    BY DEF Proposal, Status
  <2> QED BY <1>1, <2>1, RowUpdate DEF Create, TypeOK, network
<1>2. ASSUME NEW key \in Key, NEW r \in Row, NEW b \in Body, Sign(r, key, b) PROVE TypeOK'
  BY <1>2 DEF Sign, TypeOK, Signature, network
<1>3. ASSUME NEW r \in Row, Age(r) PROVE TypeOK'
  BY <1>3 DEF Age, TypeOK, network
<1>4. ASSUME NEW q \in Request, Ask(q) PROVE TypeOK'
  BY <1>4 DEF Ask, TypeOK, network
<1>5. ASSUME NEW q \in requests, Write(q) PROVE TypeOK'
  <2>1. q \in Request
    BY DEF TypeOK
  <2>2. CASE Rebuild(q)
    <3>1. q.row \in Stored /\ proposals[q.row] \in Proposal /\ q.row \in Row /\ q.body \in Body
      BY <2>1, <2>2, RequestKinds, RowFields DEF Rebuild, RebuildGuard
    <3>2. [proposals[q.row] EXCEPT !.body = q.body, !.submittedTx = None] \in Proposal
      BY <3>1 DEF Proposal
    <3>3. proposals' = [proposals EXCEPT ![q.row] =
                          [proposals[q.row] EXCEPT !.body = q.body, !.submittedTx = None]]
      BY <2>2, <3>1 DEF Rebuild, TypeOK
    <3>4. proposals' \in [Row -> Proposal \cup {None}]
      BY <3>1, <3>2, <3>3, RowUpdate
    <3> QED BY <2>2, <3>4 DEF Rebuild, TypeOK, network
  <2>3. CASE Claim(q)
    <3>1. /\ q.row \in Stored /\ proposals[q.row] \in Proposal
          /\ q.row \in Row /\ q.actor \in Key /\ q.expected \in Body
      BY <2>1, <2>3, RequestKinds, RowFields DEF Claim, SubmissionGuard
    <3>2. proposals' \in [Row -> Proposal \cup {None}]
      BY <2>3, <3>1 DEF Claim, TypeOK, Proposal, Status
    <3>3. CurrentSigners(q.row) \subseteq Key
      BY DEF CurrentSigners, TypeOK, Signature
    <3> QED BY <2>3, <3>1, <3>2, <3>3 DEF Claim, TypeOK, Submit, network
  <2>4. CASE Cancel(q)
    <3>1. proposals[q.row] \in Proposal
      BY <2>4, RowFields DEF Cancel, CancelGuard
    <3> QED BY <2>4, <3>1 DEF Cancel, TypeOK, Proposal, Status, network
  <2>5. CASE Delete(q)
    BY <2>5 DEF Delete, TypeOK, network
  <2>6. CASE Conflict(q)
    BY <2>6 DEF Conflict, TypeOK, network
  <2> QED BY <1>5, <2>2, <2>3, <2>4, <2>5, <2>6 DEF Write
<1>6. ASSUME NEW s \in submits, Finish(s) PROVE TypeOK'
  <2>1. s \in Submit
    BY DEF TypeOK
  <2>2. \A stage \in {"refused", "taken"} : Advance(s, stage) \subseteq Submit
    BY <2>1 DEF Advance, TypeOK, Submit
  <2>3. CASE Refuse(s)
    BY <2>2, <2>3 DEF Refuse, TypeOK, network
  <2>4. CASE Accept(s) \/ LoseAnswer(s)
    BY <2>1, <2>2, <2>4 DEF Accept, LoseAnswer, Forward, TypeOK, Submit
  <2>5. CASE Release(s)
    <3>1. proposals' \in [Row -> Proposal \cup {None}]
      BY <2>5, RowFields DEF Release, IsClaimed, TypeOK, Proposal, Status
    <3> QED BY <2>5, <3>1 DEF Release, TypeOK, network
  <2>6. CASE Complete(s)
    <3>1. ASSUME IsClaimed(s) PROVE proposals' \in [Row -> Proposal \cup {None}]
      <4>1. s.row \in Row /\ proposals[s.row] \in Proposal /\ s.body \in Body
        BY <2>1, <3>1, RowFields DEF IsClaimed, Submit
      <4>2. [proposals[s.row] EXCEPT !.status = "SUBMITTED", !.submittedTx = s.body] \in Proposal
        BY <4>1 DEF Proposal, Status
      <4>3. proposals' = [proposals EXCEPT ![s.row] =
              [proposals[s.row] EXCEPT !.status = "SUBMITTED", !.submittedTx = s.body]]
        BY <2>6, <3>1, <4>1 DEF Complete, TypeOK
      <4> QED BY <4>1, <4>2, <4>3, RowUpdate
    <3>2. proposals' \in [Row -> Proposal \cup {None}]
      BY <2>6, <3>1 DEF Complete, TypeOK
    <3> QED BY <2>6, <3>2 DEF Complete, TypeOK, network
  <2>7. CASE Abandon(s)
    BY <2>7 DEF Abandon, TypeOK, network
  <2> QED BY <1>6, <2>3, <2>4, <2>5, <2>6, <2>7 DEF Finish
<1>7. ASSUME NEW b \in mempool, Land(b) \/ Drop(b) PROVE TypeOK'
  BY <1>7, BoundAssumption DEF Land, Drop, TypeOK
<1>8. CASE Overtake
  BY <1>8, BoundAssumption DEF Overtake, TypeOK
<1>9. CASE UNCHANGED vars
  BY <1>9 DEF vars, TypeOK, network
<1> QED BY <1>1, <1>2, <1>3, <1>4, <1>5, <1>6, <1>7, <1>8, <1>9 DEF Next

\* Every variable keeps its type under every request, submission and block.
THEOREM TypeCorrect == Spec => []TypeOK
BY TypeInit, TypeStep, PTL DEF Spec
-----------------------------------------------------------------------------
(* The order among row, witnesses, submission and what was sent. *)

LEMMA OrderlyInit == Init => Orderly
BY DEF Init, Orderly, Stored, ClaimIsExclusive, SignaturesAreCurrent, AssemblyIsOnRecord,
       SubmittedWasSent, SentIsFinal, SentOnce, StagesAreTrue

\* Nothing holds a row that is OPEN: no submission, and nothing was sent through it.
LEMMA OpenRowIsFree ==
  ASSUME Inv, NEW r \in Stored, proposals[r].status = "OPEN"
  PROVE  (\A s \in submits : s.row # r) /\ (\A p \in sent : p[1] # r)
BY DEF Inv, Orderly, ClaimIsExclusive, IsClaimed, SentIsFinal

\* Steps that leave the four tables alone.
LEMMA OrderlyFrame ==
  ASSUME Inv, UNCHANGED <<proposals, signatures, used, submits, sent>>
  PROVE  Orderly'
BY DEF Inv, Orderly, Stored, ClaimIsExclusive, IsClaimed, SignaturesAreCurrent,
       AssemblyIsOnRecord, SubmittedWasSent, SentIsFinal, SentOnce, StagesAreTrue

LEMMA OrderlyCreate ==
  ASSUME Inv, NEW key \in Key, NEW r \in Row, NEW b \in Body, Create(key, r, b)
  PROVE  Orderly'
<1> USE DEF Inv, Orderly
<1>1. r \notin Stored /\ (\A o \in Row \ {r} : proposals'[o] = proposals[o])
  BY DEF Create, TypeOK
<1>2. /\ proposals'[r] # None /\ proposals'[r].status = "OPEN"
      /\ Stored' = Stored \cup {r}
  BY <1>1, NoneAssumption DEF Create, TypeOK, Stored, Proposal, Status
<1>3. UNCHANGED <<signatures, submits, sent>> /\ used' = used \cup {r}
  BY DEF Create
<1>4. ClaimIsExclusive'
  BY <1>1, <1>2, <1>3 DEF ClaimIsExclusive, IsClaimed, Stored
<1>5. SignaturesAreCurrent' /\ AssemblyIsOnRecord'
  BY <1>1, <1>2, <1>3 DEF SignaturesAreCurrent, AssemblyIsOnRecord, Stored
<1>6. SubmittedWasSent'
  BY <1>1, <1>2, <1>3 DEF SubmittedWasSent, Stored
<1>7. SentIsFinal' /\ SentOnce'
  <2>1. \A p \in sent : p[1] # r
    BY DEF Create, SentIsFinal
  <2> QED BY <1>1, <1>2, <1>3, <2>1 DEF SentIsFinal, SentOnce, Stored
<1>8. StagesAreTrue'
  BY <1>3 DEF StagesAreTrue
<1> QED BY <1>2, <1>3, <1>4, <1>5, <1>6, <1>7, <1>8

LEMMA OrderlySign ==
  ASSUME Inv, NEW key \in Key, NEW r \in Row, NEW b \in Body, Sign(r, key, b)
  PROVE  Orderly'
<1> USE DEF Inv, Orderly
<1>1. UNCHANGED <<proposals, used, submits, sent>> /\ Stored' = Stored
  BY DEF Sign, Stored
<1>2. \A s \in submits : s.row # r
  BY OpenRowIsFree DEF Sign, SignatureGuard
<1>3. SignaturesAreCurrent'
  BY <1>1 DEF Sign, SignatureGuard, SignaturesAreCurrent
<1>4. AssemblyIsOnRecord'
  BY <1>1, <1>2 DEF Sign, AssemblyIsOnRecord
<1>5. ClaimIsExclusive' /\ StagesAreTrue'
  BY <1>1 DEF ClaimIsExclusive, IsClaimed, StagesAreTrue
<1>6. SubmittedWasSent' /\ SentIsFinal' /\ SentOnce'
  BY <1>1 DEF SubmittedWasSent, SentIsFinal, SentOnce
<1> QED BY <1>1, <1>3, <1>4, <1>5, <1>6

\* A rebuild or a withdrawal rewrites a row that is OPEN.
LEMMA OrderlyRewrite ==
  ASSUME Inv, NEW r \in Stored, proposals[r].status = "OPEN",
         NEW p \in Proposal, p.status \in {"OPEN", "CANCELLED"},
         proposals' = [proposals EXCEPT ![r] = p],
         \/ signatures' = {g \in signatures : g.row # r}
         \/ signatures' = signatures /\ p.body = proposals[r].body,
         UNCHANGED <<used, submits, sent>>
  PROVE  Orderly'
<1> USE DEF Inv, Orderly
<1>1. r \in Row /\ (\A o \in Row \ {r} : proposals'[o] = proposals[o]) /\ proposals'[r] = p
  BY DEF TypeOK, Stored
<1>2. Stored' = Stored
  BY <1>1, NoneAssumption DEF Stored
<1>3. (\A s \in submits : s.row # r) /\ (\A q \in sent : q[1] # r)
  BY OpenRowIsFree
<1>4. ClaimIsExclusive'
  BY <1>1, <1>2, <1>3 DEF ClaimIsExclusive, IsClaimed, Stored
<1>5. SignaturesAreCurrent'
  BY <1>1, <1>2 DEF SignaturesAreCurrent, Stored
<1>6. AssemblyIsOnRecord'
  BY <1>3 DEF AssemblyIsOnRecord
<1>7. SubmittedWasSent' /\ SentIsFinal' /\ SentOnce'
  BY <1>1, <1>2, <1>3 DEF SubmittedWasSent, SentIsFinal, SentOnce, Stored
<1>8. StagesAreTrue'
  BY DEF StagesAreTrue
<1> QED BY <1>2, <1>4, <1>5, <1>6, <1>7, <1>8

LEMMA OrderlyClaim ==
  ASSUME Inv, NEW q \in Request, Claim(q)
  PROVE  Orderly'
<1> USE DEF Inv, Orderly
<1> DEFINE r == q.row
           new == [row |-> r, actor |-> q.actor, body |-> q.expected,
                   witnesses |-> CurrentSigners(r), stage |-> "claimed"]
<1>0. /\ new.row = r /\ new.body = q.expected
      /\ new.witnesses = CurrentSigners(r) /\ new.stage = "claimed"
  OBVIOUS
<1>1. /\ r \in Stored /\ r \in Row /\ proposals[r] \in Proposal
      /\ proposals[r].status = "OPEN" /\ proposals[r].body = q.expected
  BY RowFields DEF Claim, SubmissionGuard
<1>2. /\ \A o \in Row \ {r} : proposals'[o] = proposals[o]
      /\ proposals'[r] \in Proposal
      /\ proposals'[r].status = "SUBMITTING" /\ proposals'[r].body = q.expected
  BY <1>1 DEF Claim, TypeOK, Proposal, Status
<1>3. Stored' = Stored
  BY <1>1, <1>2, NoneAssumption DEF Stored
<1>4. submits' = submits \cup {new} /\ UNCHANGED <<signatures, used, sent>>
  BY DEF Claim
<1>5. (\A s \in submits : s.row # r) /\ (\A p \in sent : p[1] # r)
  BY <1>1, OpenRowIsFree
<1> HIDE DEF new
<1>6. ClaimIsExclusive'
  BY <1>0, <1>1, <1>2, <1>3, <1>4, <1>5 DEF ClaimIsExclusive, IsClaimed, Stored
<1>7. SignaturesAreCurrent'
  BY <1>1, <1>2, <1>3, <1>4 DEF SignaturesAreCurrent, Stored
<1>8. AssemblyIsOnRecord'
  <2>1. \A key \in CurrentSigners(r) :
          [row |-> r, signer |-> key, body |-> q.expected] \in signatures
    BY <1>1 DEF CurrentSigners, TypeOK, Signature
  <2> QED BY <1>0, <1>4, <2>1 DEF AssemblyIsOnRecord
<1>9. SubmittedWasSent' /\ SentIsFinal' /\ SentOnce'
  BY <1>1, <1>2, <1>3, <1>4, <1>5 DEF SubmittedWasSent, SentIsFinal, SentOnce, Stored
<1>10. StagesAreTrue'
  BY <1>0, <1>4, <1>5 DEF StagesAreTrue
<1> QED BY <1>3, <1>4, <1>6, <1>7, <1>8, <1>9, <1>10

LEMMA OrderlyDelete ==
  ASSUME Inv, NEW q \in Request, Delete(q)
  PROVE  Orderly'
<1> USE DEF Inv, Orderly
<1>1. q.row \in Stored /\ q.row \in Row /\ proposals[q.row].status \in TerminalStatus
  BY RowFields DEF Delete, DeleteGuard
<1>2. (\A o \in Row \ {q.row} : proposals'[o] = proposals[o]) /\ Stored' = Stored \ {q.row}
  BY <1>1 DEF Delete, TypeOK, Stored
<1>3. \A s \in submits : s.row # q.row
  BY <1>1 DEF ClaimIsExclusive, IsClaimed, TerminalStatus
<1>4. UNCHANGED <<used, submits, sent>> /\ signatures' = {g \in signatures : g.row # q.row}
  BY DEF Delete
<1>5. ClaimIsExclusive'
  BY <1>2, <1>3, <1>4 DEF ClaimIsExclusive, IsClaimed, Stored
<1>6. SignaturesAreCurrent' /\ AssemblyIsOnRecord'
  BY <1>2, <1>3, <1>4 DEF SignaturesAreCurrent, AssemblyIsOnRecord, Stored
<1>7. SubmittedWasSent' /\ SentIsFinal' /\ SentOnce'
  BY <1>2, <1>4 DEF SubmittedWasSent, SentIsFinal, SentOnce, Stored
<1>8. StagesAreTrue'
  BY <1>4 DEF StagesAreTrue
<1> QED BY <1>2, <1>4, <1>5, <1>6, <1>7, <1>8

\* A submission that ends or advances keeps its row, its body and its witnesses.
LEMMA SubmitAdvances ==
  ASSUME Inv, NEW s \in submits, NEW stage \in {"refused", "taken"},
         submits' \in {submits \ {s}, Advance(s, stage)},
         UNCHANGED <<proposals, signatures, used>>
  PROVE  /\ ClaimIsExclusive' /\ AssemblyIsOnRecord' /\ SignaturesAreCurrent'
         /\ \A t \in submits' : (t \in submits /\ t.row # s.row)
              \/ (t.row = s.row /\ t.body = s.body /\ t.stage = stage)
<1> USE DEF Inv, Orderly
<1> DEFINE adv == [s EXCEPT !.stage = stage]
<1>1. /\ adv.row = s.row /\ adv.body = s.body
      /\ adv.witnesses = s.witnesses /\ adv.stage = stage
  BY DEF TypeOK, Submit
<1> HIDE DEF adv
<1>2. submits' \subseteq (submits \ {s}) \cup {adv}
  BY DEF Advance, adv
<1>3. Stored' = Stored
  BY DEF Stored
<1>4. \A t \in submits \ {s} : t.row # s.row
  BY DEF ClaimIsExclusive
<1>5. ClaimIsExclusive'
  BY <1>1, <1>2, <1>3, <1>4 DEF ClaimIsExclusive, IsClaimed
<1>6. AssemblyIsOnRecord'
  BY <1>1, <1>2 DEF AssemblyIsOnRecord
<1>7. SignaturesAreCurrent'
  BY <1>3 DEF SignaturesAreCurrent
<1> QED BY <1>1, <1>2, <1>4, <1>5, <1>6, <1>7

\* Steps of a submission that send nothing and write no row.
LEMMA OrderlyUnsent ==
  ASSUME Inv, NEW s \in submits, Refuse(s) \/ Abandon(s)
  PROVE  Orderly'
<1> USE DEF Inv, Orderly
<1>1. UNCHANGED <<proposals, signatures, used, sent>> /\ Stored' = Stored
  BY DEF Refuse, Abandon, Stored
<1>2. SubmittedWasSent' /\ SentIsFinal' /\ SentOnce'
  BY <1>1 DEF SubmittedWasSent, SentIsFinal, SentOnce
<1>3. CASE Refuse(s)
  <2>1. s.stage = "claimed" /\ submits' = Advance(s, "refused")
    BY <1>3 DEF Refuse
  <2>2. ClaimIsExclusive' /\ AssemblyIsOnRecord' /\ SignaturesAreCurrent'
    BY <1>1, <2>1, SubmitAdvances
  <2>3. \A t \in submits' : (t \in submits /\ t.row # s.row)
          \/ (t.row = s.row /\ t.body = s.body /\ t.stage = "refused")
    BY <1>1, <2>1, SubmitAdvances
  <2>4. StagesAreTrue'
    BY <1>1, <2>1, <2>3 DEF StagesAreTrue
  <2> QED BY <1>1, <1>2, <2>2, <2>4
<1>4. CASE Abandon(s)
  <2>1. submits' = submits \ {s}
    BY <1>4 DEF Abandon
  <2>2. ClaimIsExclusive' /\ AssemblyIsOnRecord' /\ SignaturesAreCurrent'
    BY <1>1, <2>1, SubmitAdvances
  <2>3. StagesAreTrue'
    BY <1>1, <2>1 DEF StagesAreTrue
  <2> QED BY <1>1, <1>2, <2>2, <2>3
<1> QED BY <1>3, <1>4

LEMMA OrderlySend ==
  ASSUME Inv, NEW s \in submits, Accept(s) \/ LoseAnswer(s)
  PROVE  Orderly'
<1> USE DEF Inv, Orderly
<1>1. UNCHANGED <<proposals, signatures, used>> /\ Stored' = Stored
  BY DEF Accept, LoseAnswer, Stored
<1>2. /\ s.stage = "claimed" /\ sent' = sent \cup {<<s.row, s.body>>}
      /\ submits' = submits \ {s} \/ submits' = Advance(s, "taken")
  BY DEF Accept, LoseAnswer, Forward
<1>3. ClaimIsExclusive' /\ AssemblyIsOnRecord' /\ SignaturesAreCurrent'
  BY <1>1, <1>2, SubmitAdvances
<1>4. \A t \in submits' : (t \in submits /\ t.row # s.row)
        \/ (t.row = s.row /\ t.body = s.body /\ t.stage = "taken")
  BY <1>1, <1>2, SubmitAdvances
<1>5. (\A p \in sent : p[1] # s.row) /\ IsClaimed(s)
  BY <1>2 DEF StagesAreTrue, ClaimIsExclusive
<1>6. SubmittedWasSent'
  BY <1>1, <1>2 DEF SubmittedWasSent
<1>7. SentIsFinal' /\ SentOnce'
  <2> DEFINE pair == <<s.row, s.body>>
  <2>1. pair[1] = s.row /\ pair[2] = s.body /\ sent' = sent \cup {pair}
    BY <1>2
  <2> HIDE DEF pair
  <2>2. SentIsFinal'
    BY <1>1, <1>5, <2>1 DEF SentIsFinal, IsClaimed
  <2>3. SentOnce'
    BY <1>5, <2>1 DEF SentOnce
  <2> QED BY <2>2, <2>3
<1>8. StagesAreTrue'
  <2>1. ASSUME NEW t \in submits', t \in submits, t.row # s.row
        PROVE  IF t.stage = "taken" THEN <<t.row, t.body>> \in sent' ELSE \A p \in sent' : p[1] # t.row
    BY <1>2, <2>1 DEF StagesAreTrue
  <2>2. ASSUME NEW t \in submits', t.row = s.row, t.body = s.body, t.stage = "taken"
        PROVE  <<t.row, t.body>> \in sent'
    BY <1>2, <2>2
  <2> QED BY <1>4, <2>1, <2>2 DEF StagesAreTrue
<1> QED BY <1>1, <1>3, <1>6, <1>7, <1>8

LEMMA OrderlyFinish ==
  ASSUME Inv, NEW s \in submits, Release(s) \/ Complete(s)
  PROVE  Orderly'
<1> USE DEF Inv, Orderly
<1>1. /\ IsClaimed(s) /\ s.row \in Row /\ s.body \in Body /\ proposals[s.row] \in Proposal
      /\ \A t \in submits \ {s} : t.row # s.row
  BY RowFields DEF ClaimIsExclusive, IsClaimed, TypeOK, Submit
<1>2. submits' = submits \ {s} /\ UNCHANGED <<signatures, used, sent>>
  BY DEF Release, Complete
<1>3. /\ \A o \in Row \ {s.row} : proposals'[o] = proposals[o]
      /\ proposals'[s.row] \in Proposal /\ proposals'[s.row].body = s.body
      /\ \/ s.stage = "refused" /\ proposals'[s.row].status = "OPEN"
         \/ /\ s.stage = "taken" /\ proposals'[s.row].status = "SUBMITTED"
            /\ proposals'[s.row].submittedTx = s.body
  <2>1. CASE Release(s)
    BY <1>1, <2>1 DEF Release, TypeOK, Proposal, Status, IsClaimed
  <2>2. CASE Complete(s)
    BY <1>1, <2>2 DEF Complete, TypeOK, Proposal, Status, IsClaimed
  <2> QED BY <2>1, <2>2
<1>4. Stored' = Stored
  BY <1>1, <1>3, NoneAssumption DEF Stored, IsClaimed
<1>5. ClaimIsExclusive'
  BY <1>1, <1>2, <1>3, <1>4 DEF ClaimIsExclusive, IsClaimed, Stored
<1>6. SignaturesAreCurrent'
  BY <1>1, <1>2, <1>3, <1>4 DEF SignaturesAreCurrent, IsClaimed, Stored
<1>7. AssemblyIsOnRecord'
  BY <1>2 DEF AssemblyIsOnRecord
<1>8. IF s.stage = "taken" THEN <<s.row, s.body>> \in sent ELSE \A p \in sent : p[1] # s.row
  BY DEF StagesAreTrue
<1>9. SubmittedWasSent'
  BY <1>2, <1>3, <1>4, <1>8 DEF SubmittedWasSent, Stored
<1>10. SentIsFinal'
  <2>1. ASSUME NEW p \in sent, p[1] = s.row, p[1] \in Stored
        PROVE  proposals'[p[1]].status \in {"SUBMITTING", "SUBMITTED"} /\ proposals'[p[1]].body = p[2]
    BY <1>1, <1>3, <1>8, <2>1 DEF SentIsFinal, IsClaimed
  <2>2. ASSUME NEW p \in sent, p[1] # s.row, p[1] \in Stored
        PROVE  proposals'[p[1]].status \in {"SUBMITTING", "SUBMITTED"} /\ proposals'[p[1]].body = p[2]
    BY <1>3, <2>2 DEF SentIsFinal, Stored
  <2> QED BY <1>2, <1>4, <2>1, <2>2 DEF SentIsFinal
<1>11. SentOnce' /\ StagesAreTrue'
  BY <1>2 DEF SentOnce, StagesAreTrue
<1> QED BY <1>2, <1>4, <1>5, <1>6, <1>7, <1>9, <1>10, <1>11

LEMMA OrderlyStep == Inv /\ [Next]_vars => Orderly'
<1> SUFFICES ASSUME Inv, [Next]_vars PROVE Orderly'
  OBVIOUS
<1>1. ASSUME NEW key \in Key, NEW r \in Row, NEW b \in Body, Create(key, r, b) \/ Sign(r, key, b)
      PROVE  Orderly'
  BY <1>1, OrderlyCreate, OrderlySign
<1>2. ASSUME NEW r \in Row, Age(r) PROVE Orderly'
  BY <1>2, OrderlyFrame DEF Age
<1>3. ASSUME NEW q \in Request, Ask(q) PROVE Orderly'
  BY <1>3, OrderlyFrame DEF Ask
<1>4. ASSUME NEW q \in requests, Write(q) PROVE Orderly'
  <2>1. q \in Request
    BY DEF Inv, TypeOK
  <2>2. CASE Rebuild(q)
    <3> DEFINE p == [proposals[q.row] EXCEPT !.body = q.body, !.submittedTx = None]
    <3>1. /\ q.row \in Stored /\ proposals[q.row].status = "OPEN" /\ q.row \in Row
          /\ proposals[q.row] \in Proposal /\ q.body \in Body
      BY <2>1, <2>2, RequestKinds, RowFields DEF Inv, Rebuild, RebuildGuard
    <3>2. p \in Proposal /\ p.status = "OPEN"
      BY <3>1 DEF Proposal
    <3>3. proposals' = [proposals EXCEPT ![q.row] = p]
      BY <2>2, <3>1 DEF Rebuild, Inv, TypeOK
    <3>4. signatures' = {g \in signatures : g.row # q.row} /\ UNCHANGED <<used, submits, sent>>
      BY <2>2 DEF Rebuild
    <3> HIDE DEF p
    <3> QED BY <3>1, <3>2, <3>3, <3>4, OrderlyRewrite
  <2>3. CASE Claim(q)
    BY <2>1, <2>3, OrderlyClaim
  <2>4. CASE Cancel(q)
    <3> DEFINE p == [proposals[q.row] EXCEPT !.status = "CANCELLED"]
    <3>1. /\ q.row \in Stored /\ proposals[q.row].status = "OPEN"
          /\ proposals[q.row] \in Proposal
      BY <2>4, RowFields DEF Inv, Cancel, CancelGuard
    <3>2. p \in Proposal /\ p.status = "CANCELLED" /\ p.body = proposals[q.row].body
      BY <3>1 DEF Proposal, Status
    <3>3. proposals' = [proposals EXCEPT ![q.row] = p] /\ UNCHANGED <<signatures, used, submits, sent>>
      BY <2>4, <3>1 DEF Cancel, Inv, TypeOK
    <3> HIDE DEF p
    <3> QED BY <3>1, <3>2, <3>3, OrderlyRewrite
  <2>5. CASE Delete(q)
    BY <2>1, <2>5, OrderlyDelete
  <2>6. CASE Conflict(q)
    BY <2>6, OrderlyFrame DEF Conflict
  <2> QED BY <1>4, <2>2, <2>3, <2>4, <2>5, <2>6 DEF Write
<1>5. ASSUME NEW s \in submits, Finish(s) PROVE Orderly'
  BY <1>5, OrderlyUnsent, OrderlySend, OrderlyFinish DEF Finish
<1>6. ASSUME NEW b \in mempool, Land(b) \/ Drop(b) PROVE Orderly'
  BY <1>6, OrderlyFrame DEF Land, Drop
<1>7. CASE Overtake
  BY <1>7, OrderlyFrame DEF Overtake
<1>8. CASE UNCHANGED vars
  BY <1>8, OrderlyFrame DEF vars
<1> QED BY <1>1, <1>2, <1>3, <1>4, <1>5, <1>6, <1>7, <1>8 DEF Next

LEMMA Invariance == Spec => []Inv
<1>1. Init => Inv
  BY TypeInit, OrderlyInit DEF Inv
<1>2. Inv /\ [Next]_vars => Inv'
  BY TypeStep, OrderlyStep DEF Inv
<1> QED BY <1>1, <1>2, PTL DEF Spec

\* However its submissions end, at most one body of a row reaches the chain.
THEOREM OneTransferEach == Spec => []OneTransferPerRow
<1>1. Inv => OneTransferPerRow
  BY DEF Inv, Orderly, SentOnce, OneTransferPerRow
<1> QED BY <1>1, Invariance, PTL

\* A running submission has its row to itself.
THEOREM ClaimsAreExclusive == Spec => []ClaimIsExclusive
<1>1. Inv => ClaimIsExclusive
  BY DEF Inv, Orderly
<1> QED BY <1>1, Invariance, PTL

\* Rebuilds and signatures that cross never mix bodies.
THEOREM SignaturesStayCurrent == Spec => []SignaturesAreCurrent
<1>1. Inv => SignaturesAreCurrent
  BY DEF Inv, Orderly
<1> QED BY <1>1, Invariance, PTL

\* What is assembled is on record for the body that is sent.
THEOREM AssemblyStaysOnRecord == Spec => []AssemblyIsOnRecord
<1>1. Inv => AssemblyIsOnRecord
  BY DEF Inv, Orderly
<1> QED BY <1>1, Invariance, PTL

\* SUBMITTED is never recorded of a body that was not sent.
THEOREM SubmittedMeansSent == Spec => []SubmittedWasSent
<1>1. Inv => SubmittedWasSent
  BY DEF Inv, Orderly
<1> QED BY <1>1, Invariance, PTL
-----------------------------------------------------------------------------
(* The quota: only a creation adds to a creator's active rows. *)

WithinQuota == \A key \in Key : IsFiniteSet(ActiveOf(key)) /\ Cardinality(ActiveOf(key)) <= MaxActive

LEMMA ActiveInit == Init => WithinQuota
<1> SUFFICES ASSUME Init, NEW key \in Key
             PROVE  IsFiniteSet(ActiveOf(key)) /\ Cardinality(ActiveOf(key)) <= MaxActive
  BY DEF WithinQuota
<1>1. ActiveOf(key) = {}
  BY DEF Init, ActiveOf, FiledBy, Stored
<1> QED BY <1>1, FS_EmptySet, BoundAssumption

\* A creation adds one row to its creator's active rows and none to another's.
LEMMA CreateAddsOne ==
  ASSUME Inv, WithinQuota, NEW creator \in Key, NEW r \in Row, NEW b \in Body, Create(creator, r, b)
  PROVE  WithinQuota'
<1> SUFFICES ASSUME NEW key \in Key
             PROVE  IsFiniteSet(ActiveOf(key)') /\ Cardinality(ActiveOf(key)') <= MaxActive
  BY DEF WithinQuota
<1>1. IsFiniteSet(ActiveOf(key)) /\ Cardinality(ActiveOf(key)) <= MaxActive
  BY DEF WithinQuota
<1>2. ActiveOf(key)' \subseteq
        IF key = creator THEN ActiveOf(key) \cup {r} ELSE ActiveOf(key)
  BY DEF Create, Inv, TypeOK, ActiveOf, FiledBy, Stored
<1>3. CASE key = creator
  <2>1. Cardinality(ActiveOf(key)) < MaxActive
    BY <1>3 DEF Create
  <2>2. /\ IsFiniteSet(ActiveOf(key) \cup {r})
        /\ Cardinality(ActiveOf(key) \cup {r}) <= MaxActive
    <3>1. Cardinality(ActiveOf(key)) \in Nat /\ MaxActive \in Nat
      BY <1>1, FS_CardinalityType, BoundAssumption
    <3>2. /\ IsFiniteSet(ActiveOf(key) \cup {r})
          /\ \/ Cardinality(ActiveOf(key) \cup {r}) = Cardinality(ActiveOf(key))
             \/ Cardinality(ActiveOf(key) \cup {r}) = Cardinality(ActiveOf(key)) + 1
      BY <1>1, FS_AddElement
    <3> QED BY <2>1, <3>1, <3>2
  <2>3. /\ IsFiniteSet(ActiveOf(key)')
        /\ Cardinality(ActiveOf(key)') <= Cardinality(ActiveOf(key) \cup {r})
    BY <1>2, <1>3, <2>2, FS_Subset
  <2> QED BY <2>2, <2>3, FS_CardinalityType, BoundAssumption
<1>4. CASE key # creator
  <2>1. IsFiniteSet(ActiveOf(key)') /\ Cardinality(ActiveOf(key)') <= Cardinality(ActiveOf(key))
    BY <1>1, <1>2, <1>4, FS_Subset
  <2> QED BY <1>1, <2>1, FS_CardinalityType, BoundAssumption
<1> QED BY <1>3, <1>4

\* A row that keeps its creator and was active, or is not active now, adds nothing.
LEMMA RowAddsNothing ==
  ASSUME Inv, NEW r \in Stored, NEW p \in Proposal \cup {None},
         proposals' = [proposals EXCEPT ![r] = p],
         \/ p = None
         \/ p \in Proposal /\ p.creator = proposals[r].creator
              /\ (proposals[r].status \in ActiveStatus \/ p.status \notin ActiveStatus),
         NEW key \in Key
  PROVE  ActiveOf(key)' \subseteq ActiveOf(key)
BY DEF Inv, TypeOK, ActiveOf, FiledBy, Stored

\* Every other step leaves each creator the active rows it has, or fewer.
LEMMA OthersAddNothing ==
  ASSUME Inv, [Next]_vars, NEW key \in Key,
         ~ \E creator \in Key, r \in Row, b \in Body : Create(creator, r, b)
  PROVE  ActiveOf(key)' \subseteq ActiveOf(key)
<1>1. CASE UNCHANGED proposals
  BY <1>1 DEF ActiveOf, FiledBy, Stored
<1>2. ASSUME NEW q \in requests, Write(q) PROVE ActiveOf(key)' \subseteq ActiveOf(key)
  <2>1. CASE Rebuild(q)
    <3> DEFINE p == [proposals[q.row] EXCEPT !.body = q.body, !.submittedTx = None]
    <3>1. /\ q.row \in Stored /\ proposals[q.row] \in Proposal /\ q.row \in Row
          /\ proposals[q.row].status = "OPEN" /\ q.body \in Body
      BY <2>1, RequestKinds, RowFields DEF Inv, TypeOK, Rebuild, RebuildGuard
    <3>2. p \in Proposal /\ p.creator = proposals[q.row].creator
      BY <3>1 DEF Proposal
    <3>3. proposals' = [proposals EXCEPT ![q.row] = p]
      BY <2>1, <3>1 DEF Rebuild, Inv, TypeOK
    <3> HIDE DEF p
    <3> QED BY <3>1, <3>2, <3>3, RowAddsNothing DEF ActiveStatus
  <2>2. CASE Claim(q) \/ Cancel(q)
    <3>1. PICK status \in {"SUBMITTING", "CANCELLED"} :
            proposals' = [proposals EXCEPT ![q.row].status = status]
      BY <2>2 DEF Claim, Cancel
    <3> DEFINE p == [proposals[q.row] EXCEPT !.status = status]
    <3>2. q.row \in Stored /\ proposals[q.row] \in Proposal /\ proposals[q.row].status = "OPEN"
      BY <2>2, RowFields DEF Inv, Claim, SubmissionGuard, Cancel, CancelGuard
    <3>3. p \in Proposal /\ p.creator = proposals[q.row].creator
      BY <3>2 DEF Proposal, Status
    <3>4. proposals' = [proposals EXCEPT ![q.row] = p]
      BY <3>1, <3>2 DEF Inv, TypeOK
    <3> HIDE DEF p
    <3> QED BY <3>2, <3>3, <3>4, RowAddsNothing DEF ActiveStatus
  <2>3. CASE Delete(q)
    <3>1. q.row \in Stored /\ proposals' = [proposals EXCEPT ![q.row] = None]
      BY <2>3 DEF Delete, DeleteGuard
    <3> QED BY <3>1, RowAddsNothing
  <2>4. CASE Conflict(q)
    BY <1>1, <2>4 DEF Conflict
  <2> QED BY <1>2, <2>1, <2>2, <2>3, <2>4 DEF Write
<1>3. ASSUME NEW s \in submits, Finish(s) PROVE ActiveOf(key)' \subseteq ActiveOf(key)
  <2>1. CASE Release(s) \/ Complete(s)
    <3> DEFINE p == IF s.stage = "refused" THEN [proposals[s.row] EXCEPT !.status = "OPEN"]
                    ELSE [proposals[s.row] EXCEPT !.status = "SUBMITTED", !.submittedTx = s.body]
    <3>1. /\ s.row \in Stored /\ proposals[s.row] \in Proposal /\ s.row \in Row
          /\ proposals[s.row].status = "SUBMITTING" /\ s.body \in Body /\ IsClaimed(s)
      BY RowFields DEF Inv, Orderly, TypeOK, Submit, ClaimIsExclusive, IsClaimed
    <3>2. p \in Proposal /\ p.creator = proposals[s.row].creator
      BY <3>1 DEF Proposal, Status
    <3>3. proposals' = [proposals EXCEPT ![s.row] = p]
      BY <2>1, <3>1 DEF Release, Complete, Inv, TypeOK
    <3> HIDE DEF p
    <3> QED BY <3>1, <3>2, <3>3, RowAddsNothing DEF ActiveStatus
  <2>2. CASE ~ (Release(s) \/ Complete(s))
    BY <1>1, <1>3, <2>2 DEF Finish, Refuse, Accept, LoseAnswer, Abandon
  <2> QED BY <2>1, <2>2
<1>4. ASSUME NEW signer \in Key, NEW r \in Row, NEW b \in Body, Sign(r, signer, b)
      PROVE  ActiveOf(key)' \subseteq ActiveOf(key)
  BY <1>1, <1>4 DEF Sign
<1>5. CASE \/ \E r \in Row : Age(r)
           \/ \E q \in Request : Ask(q)
           \/ \E b \in mempool : Land(b) \/ Drop(b)
           \/ Overtake
           \/ UNCHANGED vars
  BY <1>1, <1>5 DEF Age, Ask, Land, Drop, Overtake, vars
<1> QED BY <1>2, <1>3, <1>4, <1>5 DEF Next

LEMMA WithinQuotaInvariance == Spec => []WithinQuota
<1>1. Inv /\ WithinQuota /\ [Next]_vars => WithinQuota'
  <2> SUFFICES ASSUME Inv, WithinQuota, [Next]_vars PROVE WithinQuota'
    OBVIOUS
  <2>1. CASE \E creator \in Key, r \in Row, b \in Body : Create(creator, r, b)
    BY <2>1, CreateAddsOne
  <2>2. CASE ~ \E creator \in Key, r \in Row, b \in Body : Create(creator, r, b)
    <3> SUFFICES ASSUME NEW key \in Key
                 PROVE  IsFiniteSet(ActiveOf(key)') /\ Cardinality(ActiveOf(key)') <= MaxActive
      BY DEF WithinQuota
    <3>1. IsFiniteSet(ActiveOf(key)) /\ Cardinality(ActiveOf(key)) <= MaxActive
      BY DEF WithinQuota
    <3>2. ActiveOf(key)' \subseteq ActiveOf(key)
      BY <2>2, OthersAddNothing
    <3>3. IsFiniteSet(ActiveOf(key)') /\ Cardinality(ActiveOf(key)') <= Cardinality(ActiveOf(key))
      BY <3>1, <3>2, FS_Subset
    <3> QED BY <3>1, <3>3, FS_CardinalityType, BoundAssumption
  <2> QED BY <2>1, <2>2
<1> QED BY <1>1, ActiveInit, Invariance, PTL DEF Spec

\* However requests and submissions cross, nobody holds more active rows than the quota.
THEOREM QuotaHolds == Spec => []ActiveWithinQuota
<1>1. Inv /\ WithinQuota => ActiveWithinQuota
  <2> SUFFICES ASSUME Inv, WithinQuota, NEW key \in Key
               PROVE  Cardinality({r \in FiledBy(key) : proposals[r].status \notin TerminalStatus})
                        <= MaxActive
    BY DEF ActiveWithinQuota
  <2>1. \A r \in FiledBy(key) : proposals[r].status \in Status
    BY RowFields DEF Inv, FiledBy, Proposal
  <2>2. {r \in FiledBy(key) : proposals[r].status \notin TerminalStatus} = ActiveOf(key)
    BY <2>1 DEF ActiveOf, Status, TerminalStatus, ActiveStatus
  <2> QED BY <2>2 DEF WithinQuota
<1> QED BY <1>1, WithinQuotaInvariance, Invariance, PTL
-----------------------------------------------------------------------------
(* Signature requests implement one-shot submissions: every step of the    *)
(* rows, their requests, submissions and the network is a step of          *)
(* OneShotSubmission for one row, or changes nothing that the signers of   *)
(* a row can see.                                                          *)

\* The network holds only what a submission gave it.
MempoolWasSent == \A b \in mempool : \E r \in Row : <<r, b>> \in sent

LEMMA MempoolInvariance == Spec => []MempoolWasSent
<1>1. Init => MempoolWasSent
  BY DEF Init, MempoolWasSent
<1>2. TypeOK /\ MempoolWasSent /\ [Next]_vars => MempoolWasSent'
  <2> SUFFICES ASSUME TypeOK, MempoolWasSent, [Next]_vars PROVE MempoolWasSent'
    OBVIOUS
  <2>1. CASE mempool' \subseteq mempool /\ sent' = sent
    BY <2>1 DEF MempoolWasSent
  <2>2. ASSUME NEW s \in submits, Accept(s) \/ LoseAnswer(s) PROVE MempoolWasSent'
    <3>1. /\ s.row \in Row /\ mempool' = mempool \cup {s.body}
          /\ sent' = sent \cup {<<s.row, s.body>>}
      BY <2>2 DEF Accept, LoseAnswer, Forward, TypeOK, Submit
    <3> QED BY <3>1 DEF MempoolWasSent
  <2>3. ASSUME NEW s \in submits, Finish(s) PROVE MempoolWasSent'
    BY <2>1, <2>2, <2>3 DEF Finish, Refuse, Release, Complete, Abandon, network
  <2>4. ASSUME NEW q \in requests, Write(q) PROVE MempoolWasSent'
    BY <2>1, <2>4 DEF Write, Rebuild, Claim, Cancel, Delete, Conflict, network
  <2>5. ASSUME NEW key \in Key, NEW r \in Row, NEW b \in Body, Create(key, r, b) \/ Sign(r, key, b)
        PROVE  MempoolWasSent'
    BY <2>1, <2>5 DEF Create, Sign, network
  <2>6. ASSUME NEW r \in Row, Age(r) PROVE MempoolWasSent'
    BY <2>1, <2>6 DEF Age, network
  <2>7. ASSUME NEW q \in Request, Ask(q) PROVE MempoolWasSent'
    BY <2>1, <2>7 DEF Ask, network
  <2>8. ASSUME NEW b \in mempool, Land(b) \/ Drop(b) PROVE MempoolWasSent'
    BY <2>1, <2>8 DEF Land, Drop
  <2>9. CASE Overtake
    BY <2>1, <2>9 DEF Overtake
  <2>10. CASE UNCHANGED vars
    BY <2>1, <2>10 DEF vars, network
  <2> QED BY <2>3, <2>4, <2>5, <2>6, <2>7, <2>8, <2>9, <2>10 DEF Next
<1> QED BY <1>1, <1>2, TypeCorrect, PTL DEF Spec
-----------------------------------------------------------------------------
(* What the mapping shows of a row. *)

\* The mapping of a row that something was sent through, and of one that is still unsent.
SentRows ==
  \A r \in Row, b \in Body : <<r, b>> \in sent =>
    AbstractPhase(r) = "handed over" /\ AbstractBody(r) = b

UnsentRows ==
  \A r \in Row : (\A p \in sent : p[1] # r) =>
    /\ r \notin used => AbstractPhase(r) = "unfiled" /\ AbstractBody(r) = None
    /\ r \in used \ Stored => AbstractPhase(r) = "closed" /\ AbstractBody(r) = None
    /\ HasStatus(r, "OPEN") => AbstractPhase(r) = "open" /\ AbstractBody(r) = proposals[r].body
    /\ HasStatus(r, "SUBMITTING") =>
         AbstractPhase(r) = "claimed" /\ AbstractBody(r) = proposals[r].body
    /\ HasStatus(r, "CANCELLED") => AbstractPhase(r) = "closed" /\ AbstractBody(r) = None

LEMMA Shown == Inv => SentRows /\ UnsentRows
<1> SUFFICES ASSUME Inv PROVE SentRows /\ UnsentRows
  OBVIOUS
<1>1. ASSUME NEW r \in Row, NEW b \in Body, <<r, b>> \in sent
      PROVE  AbstractPhase(r) = "handed over" /\ AbstractBody(r) = b
  <2>1. SentBodies(r) = {b}
    BY <1>1 DEF Inv, Orderly, SentOnce, SentBodies
  <2> QED BY <2>1 DEF AbstractPhase, AbstractBody
<1>2. UnsentRows
  <2>1. ASSUME NEW r \in Row, \A p \in sent : p[1] # r PROVE SentBodies(r) = {}
    BY <2>1 DEF SentBodies
  <2>2. Stored \subseteq used
    BY DEF Inv, Orderly
  <2> QED BY <2>1, <2>2 DEF UnsentRows, AbstractPhase, AbstractBody, HasStatus
<1> QED BY <1>1, <1>2 DEF SentRows

LEMMA ShownNext == Inv' => SentRows' /\ UnsentRows'
BY Shown, PTL

\* A step shows nothing of a row that it leaves alone.
LEMMA OtherRow ==
  ASSUME NEW r \in Row, proposals'[r] = proposals[r], r \in used' <=> r \in used,
         \A b \in Body : <<r, b>> \in sent' <=> <<r, b>> \in sent
  PROVE  AbstractPhase(r)' = AbstractPhase(r) /\ AbstractBody(r)' = AbstractBody(r)
<1>1. SentBodies(r)' = SentBodies(r)
  BY DEF SentBodies
<1>2. r \in Stored' <=> r \in Stored
  BY DEF Stored
<1>3. AbstractPhase(r)' = AbstractPhase(r)
  BY <1>1, <1>2 DEF AbstractPhase, HasStatus
<1> QED BY <1>1, <1>3 DEF AbstractBody
-----------------------------------------------------------------------------
(* One row moves, the others stay. *)

LEMMA MoveOf ==
  ASSUME NEW r \in Row, NEW to, NEW b,
         \A o \in Row \ {r} :
           AbstractPhase(o)' = AbstractPhase(o) /\ AbstractBody(o)' = AbstractBody(o),
         AbstractPhase(r)' = to, AbstractBody(r)' = b,
         landed' = landed
  PROVE  OneShot!Move(r, AbstractPhase(r), to, b)
BY DEF OneShot!Move

LEMMA StutterOf ==
  ASSUME \A o \in Row :
           AbstractPhase(o)' = AbstractPhase(o) /\ AbstractBody(o)' = AbstractBody(o),
         landed' = landed
  PROVE  UNCHANGED OneShot!vars
BY DEF OneShot!vars

\* Steps that write neither a row nor the history show nothing.
LEMMA InvisibleStep ==
  ASSUME UNCHANGED <<proposals, used, sent, landed>>
  PROVE  UNCHANGED OneShot!vars
BY OtherRow, StutterOf

\* A step that writes one row shows nothing of the others.
LEMMA SingleRow ==
  ASSUME NEW r \in Row,
         \A o \in Row \ {r} : proposals'[o] = proposals[o],
         used' \in {used, used \cup {r}},
         UNCHANGED sent \/ \E b \in Body : sent' = sent \cup {<<r, b>>}
  PROVE  \A o \in Row \ {r} :
           AbstractPhase(o)' = AbstractPhase(o) /\ AbstractBody(o)' = AbstractBody(o)
<1> SUFFICES ASSUME NEW o \in Row \ {r}
             PROVE  AbstractPhase(o)' = AbstractPhase(o) /\ AbstractBody(o)' = AbstractBody(o)
  OBVIOUS
<1>1. \A b \in Body : <<o, b>> \in sent' <=> <<o, b>> \in sent
  OBVIOUS
<1> QED BY <1>1, OtherRow

LEMMA CreateFiles ==
  ASSUME Inv, Inv', NEW key \in Key, NEW r \in Row, NEW b \in Body, Create(key, r, b)
  PROVE  OneShot!File(r, b)
<1>1. /\ r \notin used /\ r \in used' /\ r \in Stored'
      /\ proposals'[r].status = "OPEN" /\ proposals'[r].body = b
      /\ UNCHANGED <<sent, landed>>
  BY NoneAssumption DEF Create, Inv, TypeOK, Stored, Proposal, Status, network
<1>2. \A p \in sent : p[1] # r
  BY <1>1 DEF Inv, Orderly, SentIsFinal
<1>3. AbstractPhase(r) = "unfiled"
  BY <1>1, <1>2, Shown DEF UnsentRows
<1>4. AbstractPhase(r)' = "open" /\ AbstractBody(r)' = b
  BY <1>1, <1>2, ShownNext DEF UnsentRows, HasStatus
<1>5. \A o \in Row \ {r} :
        AbstractPhase(o)' = AbstractPhase(o) /\ AbstractBody(o)' = AbstractBody(o)
  BY SingleRow DEF Create, Inv, TypeOK
<1> QED BY <1>1, <1>3, <1>4, <1>5, MoveOf DEF OneShot!File

\* A request writes a row that is OPEN and unsent.
LEMMA OpenRow ==
  ASSUME Inv, NEW r \in Stored, proposals[r].status = "OPEN"
  PROVE  /\ r \in Row /\ proposals[r] \in Proposal
         /\ \A p \in sent : p[1] # r
         /\ AbstractPhase(r) = "open" /\ AbstractBody(r) = proposals[r].body
<1>1. r \in Row /\ proposals[r] \in Proposal
  BY RowFields DEF Inv
<1>2. \A p \in sent : p[1] # r
  BY OpenRowIsFree
<1> QED BY <1>1, <1>2, Shown DEF UnsentRows, HasStatus

LEMMA RebuildRevises ==
  ASSUME Inv, Inv', NEW q \in Request, Rebuild(q)
  PROVE  OneShot!Revise(q.row, q.body) /\ q.row \in Row /\ q.body \in Body
<1> DEFINE r == q.row
<1>1. r \in Stored /\ proposals[r].status = "OPEN" /\ q.body \in Body
  BY RequestKinds DEF Rebuild, RebuildGuard
<1>2. /\ r \in Row /\ proposals[r] \in Proposal /\ \A p \in sent : p[1] # r
      /\ AbstractPhase(r) = "open"
  BY <1>1, OpenRow
<1>3. /\ \A o \in Row \ {r} : proposals'[o] = proposals[o]
      /\ proposals'[r] \in Proposal
      /\ proposals'[r].status = "OPEN" /\ proposals'[r].body = q.body
      /\ UNCHANGED <<used, sent, landed>>
  BY <1>1, <1>2 DEF Rebuild, Inv, TypeOK, Proposal, network
<1>4. AbstractPhase(r)' = "open" /\ AbstractBody(r)' = q.body
  BY <1>2, <1>3, ShownNext, NoneAssumption DEF UnsentRows, HasStatus, Stored
<1> QED BY <1>1, <1>2, <1>3, <1>4, SingleRow, MoveOf DEF OneShot!Revise

LEMMA ClaimClaims ==
  ASSUME Inv, Inv', NEW q \in Request, Claim(q)
  PROVE  OneShot!Claim(q.row) /\ q.row \in Row
<1> DEFINE r == q.row
<1>1. r \in Stored /\ proposals[r].status = "OPEN"
  BY DEF Claim, SubmissionGuard
<1>2. /\ r \in Row /\ proposals[r] \in Proposal /\ \A p \in sent : p[1] # r
      /\ AbstractPhase(r) = "open" /\ AbstractBody(r) = proposals[r].body
  BY <1>1, OpenRow
<1>3. /\ \A o \in Row \ {r} : proposals'[o] = proposals[o]
      /\ proposals'[r] \in Proposal
      /\ proposals'[r].status = "SUBMITTING" /\ proposals'[r].body = proposals[r].body
      /\ UNCHANGED <<used, sent, landed>>
  BY <1>1, <1>2 DEF Claim, Inv, TypeOK, Proposal, Status, network
<1>4. AbstractPhase(r)' = "claimed" /\ AbstractBody(r)' = proposals[r].body
  BY <1>2, <1>3, ShownNext, NoneAssumption DEF UnsentRows, HasStatus, Stored
<1>5. OneShot!Move(r, "open", "claimed", proposals[r].body)
  BY <1>2, <1>3, <1>4, SingleRow, MoveOf
<1> QED BY <1>2, <1>5 DEF OneShot!Claim

LEMMA CancelWithdraws ==
  ASSUME Inv, Inv', NEW q \in Request, Cancel(q)
  PROVE  OneShot!Withdraw(q.row) /\ q.row \in Row
<1> DEFINE r == q.row
<1>1. r \in Stored /\ proposals[r].status = "OPEN"
  BY DEF Cancel, CancelGuard
<1>2. /\ r \in Row /\ proposals[r] \in Proposal /\ \A p \in sent : p[1] # r
      /\ AbstractPhase(r) = "open"
  BY <1>1, OpenRow
<1>3. /\ \A o \in Row \ {r} : proposals'[o] = proposals[o]
      /\ proposals'[r] \in Proposal /\ proposals'[r].status = "CANCELLED"
      /\ UNCHANGED <<used, sent, landed>>
  BY <1>1, <1>2 DEF Cancel, Inv, TypeOK, Proposal, Status, network
<1>4. AbstractPhase(r)' = "closed" /\ AbstractBody(r)' = None
  BY <1>2, <1>3, ShownNext, NoneAssumption DEF UnsentRows, HasStatus, Stored
<1> QED BY <1>2, <1>3, <1>4, SingleRow, MoveOf DEF OneShot!Withdraw

\* Deleting a finished row shows nothing: it stays closed, or handed over.
LEMMA DeleteIsInvisible ==
  ASSUME Inv, Inv', NEW q \in Request, Delete(q)
  PROVE  UNCHANGED OneShot!vars
<1> DEFINE r == q.row
<1>1. r \in Stored /\ r \in Row /\ proposals[r].status \in TerminalStatus /\ r \in used
  BY RowFields DEF Delete, DeleteGuard, Inv, Orderly
<1>2. /\ \A o \in Row \ {r} : proposals'[o] = proposals[o]
      /\ proposals'[r] = None /\ UNCHANGED <<used, sent, landed>>
  BY <1>1 DEF Delete, Inv, TypeOK, network
<1>3. AbstractPhase(r)' = AbstractPhase(r) /\ AbstractBody(r)' = AbstractBody(r)
  <2>1. CASE \E b \in Body : <<r, b>> \in sent
    BY <1>1, <1>2, <2>1, Shown, ShownNext DEF SentRows
  <2>2. CASE \A b \in Body : <<r, b>> \notin sent
    <3>1. \A p \in sent : p[1] # r
      BY <1>1, <2>2 DEF Inv, TypeOK
    <3>2. proposals[r].status = "CANCELLED"
      BY <1>1, <2>2, RowFields DEF Inv, Orderly, SubmittedWasSent, TerminalStatus, Proposal
    <3>3. r \in used' \ Stored'
      BY <1>1, <1>2 DEF Stored
    <3> QED BY <1>1, <1>2, <3>1, <3>2, <3>3, Shown, ShownNext DEF UnsentRows, HasStatus
  <2> QED BY <2>1, <2>2
<1>4. \A o \in Row \ {r} :
        AbstractPhase(o)' = AbstractPhase(o) /\ AbstractBody(o)' = AbstractBody(o)
  BY <1>1, <1>2, SingleRow
<1> QED BY <1>2, <1>3, <1>4, StutterOf

\* A submission that has not sent holds a row that shows as claimed.
LEMMA ClaimedRow ==
  ASSUME Inv, NEW s \in submits, s.stage # "taken"
  PROVE  /\ s.row \in Row /\ s.body \in Body /\ s.row \in Stored
         /\ proposals[s.row] \in Proposal /\ proposals[s.row].body = s.body
         /\ \A p \in sent : p[1] # s.row
         /\ AbstractPhase(s.row) = "claimed" /\ AbstractBody(s.row) = s.body
<1>1. s.row \in Row /\ s.body \in Body /\ IsClaimed(s) /\ \A p \in sent : p[1] # s.row
  BY DEF Inv, TypeOK, Submit, Orderly, ClaimIsExclusive, StagesAreTrue
<1> QED BY <1>1, RowFields, Shown DEF Inv, UnsentRows, HasStatus, IsClaimed

LEMMA SendHandsOver ==
  ASSUME Inv, Inv', NEW s \in submits, Accept(s) \/ LoseAnswer(s)
  PROVE  OneShot!HandOver(s.row) /\ s.row \in Row
<1> DEFINE r == s.row
<1>1. /\ s.stage # "taken" /\ UNCHANGED <<proposals, used, landed>>
      /\ sent' = sent \cup {<<r, s.body>>}
  BY DEF Accept, LoseAnswer, Forward
<1>2. /\ r \in Row /\ s.body \in Body
      /\ AbstractPhase(r) = "claimed" /\ AbstractBody(r) = s.body
  BY <1>1, ClaimedRow
<1>3. AbstractPhase(r)' = "handed over" /\ AbstractBody(r)' = s.body
  BY <1>1, <1>2, ShownNext DEF SentRows
<1>4. \A o \in Row \ {r} :
        AbstractPhase(o)' = AbstractPhase(o) /\ AbstractBody(o)' = AbstractBody(o)
  BY <1>1, <1>2, SingleRow
<1>5. OneShot!Move(r, "claimed", "handed over", s.body)
  BY <1>1, <1>2, <1>3, <1>4, MoveOf
<1> QED BY <1>2, <1>5 DEF OneShot!HandOver

LEMMA ReleaseReopens ==
  ASSUME Inv, Inv', NEW s \in submits, Release(s)
  PROVE  OneShot!Reopen(s.row) /\ s.row \in Row
<1> DEFINE r == s.row
<1>1. s.stage # "taken" /\ IsClaimed(s)
  BY DEF Release, Inv, Orderly, ClaimIsExclusive
<1>2. /\ r \in Row /\ proposals[r] \in Proposal /\ proposals[r].body = s.body
      /\ \A p \in sent : p[1] # r
      /\ AbstractPhase(r) = "claimed" /\ AbstractBody(r) = s.body
  BY <1>1, ClaimedRow
<1>3. /\ \A o \in Row \ {r} : proposals'[o] = proposals[o]
      /\ proposals'[r] \in Proposal
      /\ proposals'[r].status = "OPEN" /\ proposals'[r].body = s.body
      /\ UNCHANGED <<used, sent, landed>>
  BY <1>1, <1>2 DEF Release, Inv, TypeOK, Proposal, Status, network
<1>4. AbstractPhase(r)' = "open" /\ AbstractBody(r)' = s.body
  BY <1>2, <1>3, ShownNext, NoneAssumption DEF UnsentRows, HasStatus, Stored
<1>5. OneShot!Move(r, "claimed", "open", s.body)
  BY <1>2, <1>3, <1>4, SingleRow, MoveOf
<1> QED BY <1>2, <1>5 DEF OneShot!Reopen

LEMMA CompleteIsInvisible ==
  ASSUME Inv, Inv', NEW s \in submits, Complete(s)
  PROVE  UNCHANGED OneShot!vars
<1> DEFINE r == s.row
<1>1. r \in Row /\ s.body \in Body /\ <<r, s.body>> \in sent
  BY DEF Complete, Inv, TypeOK, Submit, Orderly, StagesAreTrue
<1>2. /\ \A o \in Row \ {r} : proposals'[o] = proposals[o]
      /\ UNCHANGED <<used, sent, landed>>
  BY <1>1 DEF Complete, Inv, TypeOK, network
<1>3. AbstractPhase(r)' = AbstractPhase(r) /\ AbstractBody(r)' = AbstractBody(r)
  BY <1>1, <1>2, Shown, ShownNext DEF SentRows
<1>4. \A o \in Row \ {r} :
        AbstractPhase(o)' = AbstractPhase(o) /\ AbstractBody(o)' = AbstractBody(o)
  BY <1>1, <1>2, SingleRow
<1> QED BY <1>2, <1>3, <1>4, StutterOf

LEMMA LandLands ==
  ASSUME Inv, MempoolWasSent, NEW b \in mempool, Land(b)
  PROVE  OneShot!Land(b) /\ b \in Body
<1>1. b \in Body /\ landed' = landed \cup {b} /\ UNCHANGED <<proposals, used, sent>>
  BY DEF Land, Inv, TypeOK
<1>2. PICK r \in Row : <<r, b>> \in sent
  BY DEF MempoolWasSent
<1>3. AbstractPhase(r) = "handed over" /\ AbstractBody(r) = b
  BY <1>1, <1>2, Shown DEF SentRows
<1>4. \A o \in Row : AbstractPhase(o)' = AbstractPhase(o) /\ AbstractBody(o)' = AbstractBody(o)
  BY <1>1, OtherRow
<1> QED BY <1>1, <1>3, <1>4 DEF OneShot!Land
-----------------------------------------------------------------------------
LEMMA MapsInit == Init => OneShot!Init
<1> SUFFICES ASSUME Init PROVE OneShot!Init
  OBVIOUS
<1>1. Inv
  BY TypeInit, OrderlyInit DEF Inv
<1>2. \A r \in Row : AbstractPhase(r) = "unfiled" /\ AbstractBody(r) = None
  BY <1>1, Shown DEF Init, UnsentRows
<1> QED BY <1>2 DEF Init, OneShot!Init

LEMMA MapsStep ==
  ASSUME Inv, Inv', MempoolWasSent, [Next]_vars
  PROVE  [OneShot!Next]_(OneShot!vars)
<1>1. ASSUME NEW key \in Key, NEW r \in Row, NEW b \in Body, Create(key, r, b)
      PROVE  OneShot!Next
  BY <1>1, CreateFiles DEF OneShot!Next
<1>2. ASSUME NEW key \in Key, NEW r \in Row, NEW b \in Body, Sign(r, key, b)
      PROVE  UNCHANGED OneShot!vars
  BY <1>2, InvisibleStep DEF Sign, network
<1>3. ASSUME NEW r \in Row, Age(r) PROVE UNCHANGED OneShot!vars
  BY <1>3, InvisibleStep DEF Age, network
<1>4. ASSUME NEW q \in Request, Ask(q) PROVE UNCHANGED OneShot!vars
  BY <1>4, InvisibleStep DEF Ask, network
<1>5. ASSUME NEW q \in requests, Write(q) PROVE [OneShot!Next]_(OneShot!vars)
  <2>1. q \in Request
    BY DEF Inv, TypeOK
  <2>2. CASE Rebuild(q)
    BY <2>1, <2>2, RebuildRevises DEF OneShot!Next
  <2>3. CASE Claim(q)
    BY <2>1, <2>3, ClaimClaims DEF OneShot!Next
  <2>4. CASE Cancel(q)
    BY <2>1, <2>4, CancelWithdraws DEF OneShot!Next
  <2>5. CASE Delete(q)
    BY <2>1, <2>5, DeleteIsInvisible
  <2>6. CASE Conflict(q)
    BY <2>6, InvisibleStep DEF Conflict, network
  <2> QED BY <1>5, <2>2, <2>3, <2>4, <2>5, <2>6 DEF Write
<1>6. ASSUME NEW s \in submits, Finish(s) PROVE [OneShot!Next]_(OneShot!vars)
  <2>1. CASE Accept(s) \/ LoseAnswer(s)
    BY <2>1, SendHandsOver DEF OneShot!Next
  <2>2. CASE Release(s)
    BY <2>2, ReleaseReopens DEF OneShot!Next
  <2>3. CASE Complete(s)
    BY <2>3, CompleteIsInvisible
  <2>4. CASE Refuse(s) \/ Abandon(s)
    BY <2>4, InvisibleStep DEF Refuse, Abandon, network
  <2> QED BY <1>6, <2>1, <2>2, <2>3, <2>4 DEF Finish
<1>7. ASSUME NEW b \in mempool, Land(b) PROVE OneShot!Next
  BY <1>7, LandLands DEF OneShot!Next
<1>8. ASSUME NEW b \in mempool, Drop(b) PROVE UNCHANGED OneShot!vars
  BY <1>8, InvisibleStep DEF Drop
<1>9. CASE Overtake
  BY <1>9, InvisibleStep DEF Overtake
<1>10. CASE UNCHANGED vars
  BY <1>10, InvisibleStep DEF vars, network
<1> QED BY <1>1, <1>2, <1>3, <1>4, <1>5, <1>6, <1>7, <1>8, <1>9, <1>10 DEF Next

\* Concurrent requests, crashes and lost answers implement a one-shot submission
\* per row.
THEOREM ProposalsAreOneShot == Spec => ImplementsOneShot
<1>1. Inv /\ Inv' /\ MempoolWasSent /\ [Next]_vars => [OneShot!Next]_(OneShot!vars)
  BY MapsStep
<1> QED BY <1>1, MapsInit, Invariance, MempoolInvariance, PTL
    DEF Spec, ImplementsOneShot, OneShot!Spec
=============================================================================
