------------------------------ MODULE Proposals ------------------------------
(***************************************************************************)
(* Signature requests ("proposals") of the Epora application: rows of a    *)
(* database that collect the witnesses of one transaction until somebody   *)
(* submits it (dApp/lib/proposals, dApp/app/api/proposals).                *)
(*                                                                         *)
(* Requests of several people run concurrently, on several servers.  Most  *)
(* of them read a row, decide, and then write it with a condition: between *)
(* the two another request may have written it.  A submission holds no     *)
(* lock while it calls the network: it marks the row SUBMITTING, calls,    *)
(* and then finalises or releases the row.  The call may be refused, may   *)
(* be taken, or may end without an answer, and the server may die at any   *)
(* of these steps.                                                         *)
(*                                                                         *)
(* All bodies spend the wallet's state thread, so a body fits exactly one  *)
(* state of it (Base): at most one body per state ever lands.              *)
(*                                                                         *)
(* Rule_Mistake is what Rule would be with that mistake in the code; no    *)
(* action uses it.                                                         *)
(***************************************************************************)
EXTENDS Naturals, FiniteSets

CONSTANTS
  Key,          \* the participants, who create and sign
  Row,          \* ids a proposal may get
  Body,         \* transaction bodies (their hashes)
  Base,         \* Base[b]: the state of the thread that b spends
  Listed,       \* Listed[b]: the required signers of b
  None,
  MaxActive,    \* MAX_OPEN_PROPOSALS_PER_CREATOR_WALLET
  MaxRecent,    \* MAX_PROPOSALS_PER_CREATOR_WALLET_PER_DAY
  MaxRequests,  \* bound: requests between their read and their write
  MaxTip        \* bound: the thread's states

ASSUME BaseAssumption == Base \in [Body -> Nat]
ASSUME ListedAssumption == Listed \in [Body -> SUBSET Key]
ASSUME BoundAssumption == {MaxActive, MaxRecent, MaxRequests, MaxTip} \subseteq Nat

VARIABLES
  proposals,   \* the rows, None where there is none
  signatures,  \* the rows of ProposalSignature
  used,        \* the ids given so far
  today,       \* the rows filed within the quota's window
  requests,    \* requests that have read a row and are about to write it
  submits,     \* submissions between their claim and their last write
  mempool,     \* bodies the network holds
  landed,      \* bodies on the chain
  tip,         \* the state of the thread
  sent         \* history: <<row, body>> that a submission handed to the network

network == <<mempool, landed, tip>>
vars == <<proposals, signatures, used, today, requests, submits, network, sent>>

Status == {"OPEN", "SUBMITTING", "SUBMITTED", "CANCELLED"}
TerminalStatus == {"SUBMITTED", "CANCELLED"}
ActiveStatus == {"OPEN", "SUBMITTING"}
DeduplicableStatus == {"OPEN", "SUBMITTING", "SUBMITTED"}

Proposal == [creator : Key, status : Status, body : Body, submittedTx : Body \cup {None}]
Signature == [row : Row, signer : Key, body : Body]

\* expected is the body the caller has seen, body the one a rebuild brings.
RebuildRequest == [kind : {"rebuild"}, row : Row, actor : Key, expected : Body, body : Body]
ClaimRequest == [kind : {"claim"}, row : Row, actor : Key, expected : Body]
DisposeRequest == [kind : {"cancel", "delete"}, row : Row, actor : Key]
Request == RebuildRequest \cup ClaimRequest \cup DisposeRequest

Submit == [row : Row, actor : Key, body : Body, witnesses : SUBSET Key,
           stage : {"claimed", "refused", "taken"}]

ASSUME NoneAssumption == None \notin Proposal /\ None \notin Body

Init ==
  /\ proposals = [r \in Row |-> None]
  /\ signatures = {}
  /\ used = {}
  /\ today = {}
  /\ requests = {}
  /\ submits = {}
  /\ mempool = {}
  /\ landed = {}
  /\ tip = 0
  /\ sent = {}
-----------------------------------------------------------------------------
(* Creating and signing: each is one transaction under a lock. *)

Stored == {r \in Row : proposals[r] # None}

FiledBy(creator) == {r \in Stored : proposals[r].creator = creator}

ActiveOf_OnlyOpen(creator) == {r \in FiledBy(creator) : proposals[r].status = "OPEN"}

ActiveOf(creator) == {r \in FiledBy(creator) : proposals[r].status \in ActiveStatus}

\* The rows a save of the same bytes is answered with.
Duplicates(creator, b) ==
  {r \in FiledBy(creator) \cap today :
     proposals[r].body = b /\ proposals[r].status \in DeduplicableStatus}

MaySign(key, b) == Listed[b] = {} \/ key \in Listed[b]

\* The advisory lock serialises the saves of one creator, so counting and
\* inserting are one step; a save with a duplicate changes nothing.
Create(creator, r, b) ==
  /\ r \notin used
  /\ Base[b] <= tip
  /\ MaySign(creator, b)
  /\ Duplicates(creator, b) = {}
  /\ Cardinality(ActiveOf(creator)) < MaxActive
  /\ Cardinality(FiledBy(creator) \cap today) < MaxRecent
  /\ proposals' = [proposals EXCEPT ![r] =
       [creator |-> creator, status |-> "OPEN", body |-> b, submittedTx |-> None]]
  /\ used' = used \cup {r}
  /\ today' = today \cup {r}
  /\ UNCHANGED <<signatures, requests, submits, network, sent>>

\* A day has passed since the row was filed.
Age(r) ==
  /\ r \in today
  /\ today' = today \ {r}
  /\ UNCHANGED <<proposals, signatures, used, requests, submits, network, sent>>

SignatureGuard(r, key, expected) ==
  /\ r \in Stored
  /\ proposals[r].status = "OPEN"
  /\ proposals[r].body = expected
  /\ MaySign(key, expected)

\* SELECT ... FOR UPDATE holds the row from the guard to the upsert.
Sign(r, key, expected) ==
  /\ SignatureGuard(r, key, expected)
  /\ signatures' =
       {g \in signatures : <<g.row, g.signer>> # <<r, key>>}
         \cup {[row |-> r, signer |-> key, body |-> expected]}
  /\ UNCHANGED <<proposals, used, today, requests, submits, network, sent>>
-----------------------------------------------------------------------------
(* Requests that read, decide, and write on condition. *)

RebuildGuard(q) ==
  /\ q.row \in Stored
  /\ proposals[q.row].creator = q.actor
  /\ proposals[q.row].status = "OPEN"
  /\ proposals[q.row].body = q.expected

SubmissionGuard(q) ==
  /\ q.row \in Stored
  /\ proposals[q.row].status = "OPEN"
  /\ proposals[q.row].body = q.expected

CancelGuard(q) ==
  /\ q.row \in Stored
  /\ proposals[q.row].creator = q.actor
  /\ proposals[q.row].status = "OPEN"

DeleteGuard(q) ==
  /\ q.row \in Stored
  /\ proposals[q.row].creator = q.actor
  /\ proposals[q.row].status \in TerminalStatus

\* The condition of a request, evaluated at its read and again by its write.
Guard(q) ==
  \/ q.kind = "rebuild" /\ RebuildGuard(q)
  \/ q.kind = "claim" /\ SubmissionGuard(q)
  \/ q.kind = "cancel" /\ CancelGuard(q)
  \/ q.kind = "delete" /\ DeleteGuard(q)

Ask(q) ==
  /\ Cardinality(requests) < MaxRequests
  /\ q \notin requests
  /\ Guard(q)
  /\ q.kind = "rebuild" => Base[q.body] <= tip
  /\ requests' = requests \cup {q}
  /\ UNCHANGED <<proposals, signatures, used, today, submits, network, sent>>

\* The write finds the row changed and answers 409.
Conflict(q) ==
  /\ q \in requests
  /\ ~ Guard(q)
  /\ requests' = requests \ {q}
  /\ UNCHANGED <<proposals, signatures, used, today, submits, network, sent>>

Rebuild_KeepsSignatures(q) ==
  /\ q \in requests
  /\ q.kind = "rebuild"
  /\ RebuildGuard(q)
  /\ proposals' = [proposals EXCEPT ![q.row].body = q.body, ![q.row].submittedTx = None]
  /\ requests' = requests \ {q}
  /\ UNCHANGED <<signatures, used, today, submits, network, sent>>

Rebuild_TrustsItsRead(q) ==
  /\ q \in requests
  /\ q.kind = "rebuild"
  /\ q.row \in Stored
  /\ proposals' = [proposals EXCEPT ![q.row].body = q.body, ![q.row].submittedTx = None]
  /\ signatures' = {g \in signatures : g.row # q.row}
  /\ requests' = requests \ {q}
  /\ UNCHANGED <<used, today, submits, network, sent>>

\* The signatures of the old body go in the same transaction.
Rebuild(q) ==
  /\ q \in requests
  /\ q.kind = "rebuild"
  /\ RebuildGuard(q)
  /\ proposals' = [proposals EXCEPT ![q.row].body = q.body, ![q.row].submittedTx = None]
  /\ signatures' = {g \in signatures : g.row # q.row}
  /\ requests' = requests \ {q}
  /\ UNCHANGED <<used, today, submits, network, sent>>

CurrentSigners(r) ==
  {g.signer : g \in {h \in signatures : h.row = r /\ h.body = proposals[r].body}}

Claim_TrustsItsRead(q) ==
  /\ q \in requests
  /\ q.kind = "claim"
  /\ q.row \in Stored
  /\ proposals' = [proposals EXCEPT ![q.row].status = "SUBMITTING"]
  /\ submits' = submits \cup {[row |-> q.row, actor |-> q.actor, body |-> q.expected,
                               witnesses |-> CurrentSigners(q.row), stage |-> "claimed"]}
  /\ requests' = requests \ {q}
  /\ UNCHANGED <<signatures, used, today, network, sent>>

\* The claim returns the row and its witnesses; the submission goes on with these.
Claim(q) ==
  /\ q \in requests
  /\ q.kind = "claim"
  /\ SubmissionGuard(q)
  /\ proposals' = [proposals EXCEPT ![q.row].status = "SUBMITTING"]
  /\ submits' = submits \cup {[row |-> q.row, actor |-> q.actor, body |-> q.expected,
                               witnesses |-> CurrentSigners(q.row), stage |-> "claimed"]}
  /\ requests' = requests \ {q}
  /\ UNCHANGED <<signatures, used, today, network, sent>>

Cancel_TrustsItsRead(q) ==
  /\ q \in requests
  /\ q.kind = "cancel"
  /\ q.row \in Stored
  /\ proposals' = [proposals EXCEPT ![q.row].status = "CANCELLED"]
  /\ requests' = requests \ {q}
  /\ UNCHANGED <<signatures, used, today, submits, network, sent>>

Cancel(q) ==
  /\ q \in requests
  /\ q.kind = "cancel"
  /\ CancelGuard(q)
  /\ proposals' = [proposals EXCEPT ![q.row].status = "CANCELLED"]
  /\ requests' = requests \ {q}
  /\ UNCHANGED <<signatures, used, today, submits, network, sent>>

\* The schema deletes the signatures with their proposal.
Delete(q) ==
  /\ q \in requests
  /\ q.kind = "delete"
  /\ DeleteGuard(q)
  /\ proposals' = [proposals EXCEPT ![q.row] = None]
  /\ signatures' = {g \in signatures : g.row # q.row}
  /\ requests' = requests \ {q}
  /\ UNCHANGED <<used, today, submits, network, sent>>
-----------------------------------------------------------------------------
(* The submission after its claim. *)

\* What the network may take: a body of the thread's present state, witnessed
\* by every signer it lists.
Acceptable(s) == Base[s.body] = tip /\ Listed[s.body] \subseteq s.witnesses

Advance(s, stage) == (submits \ {s}) \cup {[s EXCEPT !.stage = stage]}

Refuse_CountsAsTaken(s) ==
  /\ s \in submits
  /\ s.stage = "claimed"
  /\ submits' = Advance(s, "taken")
  /\ UNCHANGED <<proposals, signatures, used, today, requests, network, sent>>

\* Assembly fails, or the provider answers 4xx: the network never saw the body.
Refuse(s) ==
  /\ s \in submits
  /\ s.stage = "claimed"
  /\ submits' = Advance(s, "refused")
  /\ UNCHANGED <<proposals, signatures, used, today, requests, network, sent>>

Forward(s) ==
  /\ s.stage = "claimed"
  /\ Acceptable(s)
  /\ mempool' = mempool \cup {s.body}
  /\ sent' = sent \cup {<<s.row, s.body>>}

\* The provider takes the body and answers with its hash.
Accept(s) ==
  /\ s \in submits
  /\ Forward(s)
  /\ submits' = Advance(s, "taken")
  /\ UNCHANGED <<proposals, signatures, used, today, requests, landed, tip>>

LoseAnswer_Releases(s) ==
  /\ s \in submits
  /\ Forward(s)
  /\ submits' = Advance(s, "refused")
  /\ UNCHANGED <<proposals, signatures, used, today, requests, landed, tip>>

\* A timeout or a 5xx after the body went through: the call ends, the row stays.
LoseAnswer(s) ==
  /\ s \in submits
  /\ Forward(s)
  /\ submits' = submits \ {s}
  /\ UNCHANGED <<proposals, signatures, used, today, requests, landed, tip>>

IsClaimed(s) ==
  /\ s.row \in Stored
  /\ proposals[s.row].status = "SUBMITTING"
  /\ proposals[s.row].body = s.body

Release_ClearsStatus(s) ==
  /\ s \in submits
  /\ s.stage = "refused"
  /\ proposals' = IF IsClaimed(s) THEN [proposals EXCEPT ![s.row].status = None] ELSE proposals
  /\ submits' = submits \ {s}
  /\ UNCHANGED <<signatures, used, today, requests, network, sent>>

Release(s) ==
  /\ s \in submits
  /\ s.stage = "refused"
  /\ proposals' = IF IsClaimed(s) THEN [proposals EXCEPT ![s.row].status = "OPEN"] ELSE proposals
  /\ submits' = submits \ {s}
  /\ UNCHANGED <<signatures, used, today, requests, network, sent>>

Complete(s) ==
  /\ s \in submits
  /\ s.stage = "taken"
  /\ proposals' = IF IsClaimed(s)
                  THEN [proposals EXCEPT ![s.row].status = "SUBMITTED",
                                         ![s.row].submittedTx = s.body]
                  ELSE proposals
  /\ submits' = submits \ {s}
  /\ UNCHANGED <<signatures, used, today, requests, network, sent>>

\* The server dies, a write of Release or Complete fails, the answer carries
\* another hash, or a lost answer hid a body that never went through: nobody
\* finishes the row.
Abandon(s) ==
  /\ s \in submits
  /\ submits' = submits \ {s}
  /\ UNCHANGED <<proposals, signatures, used, today, requests, network, sent>>
-----------------------------------------------------------------------------
(* The network, as the submission meets it. *)

\* A block takes a body: it spends the thread and creates its next state, which
\* no other body in the mempool fits.
Land(b) ==
  /\ b \in mempool
  /\ tip < MaxTip
  /\ landed' = landed \cup {b}
  /\ mempool' = {}
  /\ tip' = tip + 1
  /\ UNCHANGED <<proposals, signatures, used, today, requests, submits, sent>>

\* A transaction that no proposal holds spends the thread first.
Overtake ==
  /\ tip < MaxTip
  /\ mempool' = {}
  /\ tip' = tip + 1
  /\ UNCHANGED <<proposals, signatures, used, today, requests, submits, landed, sent>>

\* The network forgets a body before any block takes it.
Drop(b) ==
  /\ b \in mempool
  /\ mempool' = mempool \ {b}
  /\ UNCHANGED <<proposals, signatures, used, today, requests, submits, landed, tip, sent>>

Write(q) == Rebuild(q) \/ Claim(q) \/ Cancel(q) \/ Delete(q) \/ Conflict(q)

Finish(s) == Refuse(s) \/ Accept(s) \/ LoseAnswer(s) \/ Release(s) \/ Complete(s) \/ Abandon(s)

Next ==
  \/ \E key \in Key, r \in Row, b \in Body : Create(key, r, b) \/ Sign(r, key, b)
  \/ \E r \in Row : Age(r)
  \/ \E q \in Request : Ask(q)
  \/ \E q \in requests : Write(q)
  \/ \E s \in submits : Finish(s)
  \/ \E b \in mempool : Land(b) \/ Drop(b)
  \/ Overtake

Spec == Init /\ [][Next]_vars
-----------------------------------------------------------------------------
(* Properties. *)

\* Every variable keeps its type.
TypeOK ==
  /\ proposals \in [Row -> Proposal \cup {None}]
  /\ signatures \subseteq Signature
  /\ used \subseteq Row /\ today \subseteq used
  /\ requests \subseteq Request
  /\ submits \subseteq Submit
  /\ mempool \subseteq Body /\ landed \subseteq Body
  /\ tip \in 0..MaxTip
  /\ sent \subseteq Row \X Body

\* One request is one transfer: whatever is refused, lost, abandoned, rebuilt
\* and submitted again, at most one of a row's bodies reaches the chain.
OneTransferPerRow ==
  \A r \in Row, a, b \in landed :
    <<r, a>> \in sent /\ <<r, b>> \in sent => a = b

\* While a submission runs its row stays as it claimed it, and no other
\* submission runs for that row: nobody can cancel, rebuild or claim it meanwhile.
ClaimIsExclusive ==
  /\ \A s \in submits : IsClaimed(s)
  /\ \A s, t \in submits : s.row = t.row => s = t

\* A witness on record is for the body the row has now: a rebuild and a
\* signature that cross never leave a signature of the old body behind.
SignaturesAreCurrent ==
  \A g \in signatures : g.row \in Stored /\ g.body = proposals[g.row].body

\* What a submission assembles outside any transaction are witnesses that are
\* still on record for exactly the body it sends.
AssemblyIsOnRecord ==
  \A s \in submits : \A key \in s.witnesses :
    [row |-> s.row, signer |-> key, body |-> s.body] \in signatures

\* A row says SUBMITTED only of a body that the network has been given through it.
SubmittedWasSent ==
  \A r \in Stored : proposals[r].status = "SUBMITTED" =>
    proposals[r].submittedTx = proposals[r].body /\ <<r, proposals[r].body>> \in sent

\* Creation alone checks the quota, and no other request brings a creator above it.
ActiveWithinQuota ==
  \A key \in Key :
    Cardinality({r \in FiledBy(key) : proposals[r].status \notin TerminalStatus}) <= MaxActive

\* The comment at create-record.ts:22 says a SUBMITTED body is final on chain:
\* it is on the chain, or the thread has still the state that it spends.
SubmittedIsFinal ==
  \A r \in Stored : proposals[r].status = "SUBMITTED" =>
    proposals[r].body \in landed \/ Base[proposals[r].body] = tip
-----------------------------------------------------------------------------
(* Each row, seen from its signers, is a one-shot submission. *)

SentBodies(r) == {b \in Body : <<r, b>> \in sent}

HasStatus(r, status) == r \in Stored /\ proposals[r].status = status

AbstractPhase(r) ==
  IF SentBodies(r) # {} THEN "handed over"
  ELSE CASE r \notin used -> "unfiled"
         [] r \in used /\ HasStatus(r, "OPEN") -> "open"
         [] r \in used /\ HasStatus(r, "SUBMITTING") -> "claimed"
         [] OTHER -> "closed"

AbstractBody(r) ==
  CASE AbstractPhase(r) = "handed over" -> CHOOSE b \in Body : b \in SentBodies(r)
    [] AbstractPhase(r) \in {"open", "claimed"} -> proposals[r].body
    [] OTHER -> None

OneShot == INSTANCE OneShotSubmission WITH
  phase <- [r \in Row |-> AbstractPhase(r)],
  body <- [r \in Row |-> AbstractBody(r)]

\* The rows, under all these requests, behave as one-shot submissions.
ImplementsOneShot == OneShot!Spec
=============================================================================
