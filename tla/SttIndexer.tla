----------------------------- MODULE SttIndexer -----------------------------
(***************************************************************************)
(* The indexer of the Epora application (dApp/lib/stt-cache): a database   *)
(* that follows the state threads on the chain.                            *)
(*                                                                         *)
(* A run, under one advisory lock, has three phases.  The head scan lists  *)
(* the newest transactions down to the ones it knows; the wallet           *)
(* reconciliation walks all state tokens and stores the live output of     *)
(* each; the history backfill walks the oldest transactions upwards.  Each *)
(* may stop at a deadline or die anywhere, and leaves a cursor for the     *)
(* next run.  Besides, a request may reconcile one wallet at any time      *)
(* without the lock.  The chain grows all the while.                       *)
(*                                                                         *)
(* A transaction is its position on the chain, which orders slots and      *)
(* indexes; chain[i] is the wallet whose state thread it moves.            *)
(*                                                                         *)
(* Rule_Mistake is what Rule would be with that mistake in the code; no    *)
(* action uses it.                                                         *)
(***************************************************************************)
EXTENDS Integers, Sequences, FiniteSets, FiniteSetsExt

CONSTANTS
  Unit,            \* state tokens, one of each wallet
  Server,          \* instances that may run a synchronisation
  None,
  PageSize,        \* BLOCKFROST_PAGE_SIZE
  HeadBudget,      \* recentHeadPageBudget
  BackfillBudget,  \* historyBackfillPageBudget
  Genesis,         \* the chain at the first run
  MaxChain,        \* bound: transactions
  MaxLate,         \* bound: deadlines
  MaxCrashes,      \* bound: deaths
  MaxAsks          \* bound: requests that reconcile at the same time

ASSUME PageAssumption == {PageSize, HeadBudget, BackfillBudget} \subseteq Nat \ {0}
ASSUME GenesisAssumption == Genesis \in Seq(Unit)
ASSUME BoundAssumption == {MaxChain, MaxLate, MaxCrashes, MaxAsks} \subseteq Nat
ASSUME NoneAssumption ==
  None \notin Server \cup [status : {"ACTIVE", "CLOSED"}, current : Nat, seen : Nat]

VARIABLES
  chain,      \* the wallets moved, in the order of the chain
  txs,        \* rows of SttChainTransaction and SttWalletTransaction
  rows,       \* rows of SttWallet
  head,       \* cursor of the head scan: the newest transaction, 0 for none
  backfill,   \* cursor of the history backfill
  reconcile,  \* cursor of the wallet reconciliation: the last position done
  lock,       \* the server that holds the advisory lock
  runs,       \* what each server is doing
  passes,     \* wallets whose live output has been read and not yet written
  faults,     \* how many there were
  walk,       \* history: the live outputs when the walk began
  attested,   \* history: those of the walk that the last stamp was set for
  closed      \* history: wallets closed by requests that found nothing, until a walk comes by

vars == <<chain, txs, rows, head, backfill, reconcile, lock, runs, passes, faults,
          walk, attested, closed>>

db == <<txs, rows>>
cursors == <<head, backfill, reconcile>>
history == <<walk, attested, closed>>

\* A row is [status, current, seen]: ACTIVE or CLOSED, the transaction whose output
\* it shows, and the newest that a page of the chain has shown.  A pass is
\* [by, unit, live]: the server whose walk it is, or None for a request, the
\* wallet, and the live output that was read.
\*
\* A run is what Idle shows.  phase: idle, list, persist, rearm, stamp head, page,
\* wallets, stamp walk, read, store or stamp history.  page: the one to read next.
\* met: the head scan has reached what it knows, or the end.  late: past the half
\* of the time that is the reconciliation's, or past all of it.  at, last: the
\* position in the collection that is done, and the last one on the page read.
Idle == [phase |-> "idle", page |-> 1, todo |-> {}, newest |-> 0,
         met |-> FALSE, late |-> "no", at |-> 0, last |-> 0]

Init ==
  /\ chain = Genesis
  /\ txs = {}
  /\ rows = [u \in Unit |-> None]
  /\ head = 0
  /\ backfill = [page |-> 1, completed |-> FALSE]
  /\ reconcile = 0
  /\ lock = None
  /\ runs = [s \in Server |-> Idle]
  /\ passes = {}
  /\ faults = [late |-> 0, crashes |-> 0]
  /\ walk = [u \in Unit |-> 0]
  /\ attested = [u \in Unit |-> 0]
  /\ closed = {}
-----------------------------------------------------------------------------
(* What the provider answers. *)

OldestFirst(page) == ((page - 1) * PageSize + 1 .. page * PageSize) \cap (1..Len(chain))

NewestFirst(page) == {i \in 1..Len(chain) : Len(chain) + 1 - i \in
                        (page - 1) * PageSize + 1 .. page * PageSize}

Moves(u) == {i \in 1..Len(chain) : chain[i] = u}

\* The transaction of the output that holds u's token.
Live(u) == IF Moves(u) = {} THEN 0 ELSE Max(Moves(u))

Minted == {u \in Unit : Moves(u) # {}}

\* The collection lists tokens in the order of their mints.
Place(u) == Cardinality({v \in Minted : Min(Moves(v)) <= Min(Moves(u))})

Grow(u) ==
  /\ Len(chain) < MaxChain
  /\ chain' = Append(chain, u)
  /\ UNCHANGED <<db, cursors, lock, runs, passes, faults, history>>
-----------------------------------------------------------------------------
(* Writing rows. *)

Larger(a, b) == IF a >= b THEN a ELSE b

\* A wallet that a transaction moves has a row, without a state until a
\* reconciliation fills it.  height is 0 when the provider does not tell it.
WithSkeleton(u, height) ==
  IF rows[u] # None
  THEN [rows EXCEPT ![u].seen = Larger(@, height)]
  ELSE [rows EXCEPT ![u] = [status |-> "ACTIVE", current |-> 0, seen |-> height]]

\* fetchAndPersistTransaction, for an entry of a page.
Persist(i) ==
  /\ txs' = txs \cup {i}
  /\ rows' = WithSkeleton(chain[i], i)

\* Reads the live output and persists its transaction.
Fetch(p) ==
  /\ passes' = passes \cup {p}
  /\ IF p.live = 0 THEN UNCHANGED <<txs, rows>>
     ELSE txs' = txs \cup {p.live} /\ rows' = WithSkeleton(p.unit, 0)

IsBehindStored_Never(p) == FALSE

IsBehindStored(p) == rows[p.unit] # None /\ rows[p.unit].current > p.live

\* Under the wallet's lock: what was read is written unless it is behind.
Written(p) ==
  IF p.live # 0
  THEN IF IsBehindStored(p) THEN rows
       ELSE [rows EXCEPT ![p.unit] = [status |-> "ACTIVE", current |-> p.live,
                                      seen |-> IF @ = None THEN 0 ELSE @.seen]]
  ELSE IF p.by = None /\ rows[p.unit] = None THEN rows
       ELSE [rows EXCEPT ![p.unit] = [status |-> "CLOSED", current |-> 0, seen |-> 0]]

Indexed(u) == rows[u] # None /\ rows[u].status = "ACTIVE" /\ rows[u].current # 0

\* A request about a wallet that is not indexed reconciles it in line.
Ask(u) ==
  /\ Cardinality({p \in passes : p.by = None}) < MaxAsks
  /\ ~ Indexed(u)
  /\ Fetch([by |-> None, unit |-> u, live |-> Live(u)])
  /\ UNCHANGED <<chain, cursors, lock, runs, faults, history>>

Answer(p) ==
  /\ p \in passes
  /\ p.by = None
  /\ rows' = Written(p)
  /\ passes' = passes \ {p}
  /\ closed' = IF p.live = 0 THEN closed \cup {p.unit} ELSE closed
  /\ UNCHANGED <<chain, txs, cursors, lock, runs, faults, walk, attested>>
-----------------------------------------------------------------------------
(* A run.  Each step is one exchange with the provider or one statement. *)

\* Where s is when the step is over.
Goes(s, run) == runs' = [runs EXCEPT ![s] = run]

LockFree == lock = None

StartRun(s) ==
  /\ runs[s].phase = "idle"
  /\ LockFree
  /\ lock' = s
  /\ Goes(s, [Idle EXCEPT !.phase = "list", !.newest = head])
  /\ UNCHANGED <<chain, db, cursors, passes, faults, history>>

Late(s) == runs[s].late = "all"

ListPage(s) ==
  LET run == runs[s]
      entries == NewestFirst(run.page)
  IN /\ run.phase = "list"
     /\ ~ run.met /\ run.page <= HeadBudget /\ ~ Late(s)
     /\ Goes(s, [run EXCEPT
          !.page = @ + 1,
          !.todo = @ \cup {i \in entries : i > head},
          !.newest = IF run.page = 1 /\ entries # {} THEN Max(entries) ELSE @,
          !.met = entries = {} \/ (head # 0 /\ head \in entries)])
     /\ UNCHANGED <<chain, db, cursors, lock, passes, faults, history>>

Listed(s) ==
  /\ runs[s].phase = "list"
  /\ runs[s].met \/ runs[s].page > HeadBudget \/ Late(s)
  /\ Goes(s, [runs[s] EXCEPT !.phase = "persist"])
  /\ UNCHANGED <<chain, db, cursors, lock, passes, faults, history>>

PersistEntry(s) ==
  /\ runs[s].phase = "persist"
  /\ runs[s].todo # {} /\ ~ Late(s)
  /\ Persist(Min(runs[s].todo))
  /\ Goes(s, [runs[s] EXCEPT !.todo = @ \ {Min(@)}])
  /\ UNCHANGED <<chain, cursors, lock, passes, faults, history>>

LeavesGap_Never(run) == FALSE

\* What the scan saw and what was known do not meet, or not all was stored.
LeavesGap(run) == (run.page > 1 /\ head # 0 /\ ~ run.met) \/ run.todo # {}

Persisted(s) ==
  /\ runs[s].phase = "persist"
  /\ runs[s].todo = {} \/ Late(s)
  /\ Goes(s, [runs[s] EXCEPT !.phase = IF LeavesGap(runs[s]) THEN "rearm" ELSE "stamp head"])
  /\ UNCHANGED <<chain, db, cursors, lock, passes, faults, history>>

RearmBackfill(s) ==
  /\ runs[s].phase = "rearm"
  /\ backfill' = [backfill EXCEPT !.completed = FALSE]
  /\ Goes(s, [runs[s] EXCEPT !.phase = "stamp head"])
  /\ UNCHANGED <<chain, db, head, reconcile, lock, passes, faults, history>>

StampHead(s) ==
  /\ runs[s].phase = "stamp head"
  /\ head' = runs[s].newest
  /\ Goes(s, [runs[s] EXCEPT !.phase = "page", !.at = reconcile])
  /\ UNCHANGED <<chain, db, backfill, reconcile, lock, passes, faults, history>>
-----------------------------------------------------------------------------
(* The reconciliation walks the collection from the position after the last *)
(* that is done, on the page that holds it. *)

\* A walk from the beginning forgets the one before.
ReadCollectionPage(s) ==
  LET page == (runs[s].at \div PageSize) + 1
  IN /\ runs[s].phase = "page"
     /\ runs[s].late = "no"
     /\ Goes(s, [runs[s] EXCEPT
          !.phase = "wallets", !.page = page,
          !.last = IF Cardinality(Minted) < page * PageSize THEN Cardinality(Minted)
                   ELSE page * PageSize])
     /\ walk' = IF runs[s].at = 0 THEN [u \in Unit |-> Live(u)] ELSE walk
     /\ UNCHANGED <<chain, db, cursors, lock, passes, faults, attested, closed>>

Walking(s) == {p \in passes : p.by = s}

FetchWallet(s) ==
  /\ runs[s].phase = "wallets"
  /\ Walking(s) = {} /\ runs[s].at < runs[s].last /\ runs[s].late = "no"
  /\ \E u \in Minted : /\ Place(u) = runs[s].at + 1
                       /\ Fetch([by |-> s, unit |-> u, live |-> Live(u)])
  /\ UNCHANGED <<chain, cursors, lock, runs, faults, history>>

StoreWallet(s) ==
  /\ runs[s].phase = "wallets"
  /\ \E p \in Walking(s) :
       rows' = Written(p) /\ passes' = passes \ {p} /\ closed' = closed \ {p.unit}
  /\ Goes(s, [runs[s] EXCEPT !.at = @ + 1])
  /\ UNCHANGED <<chain, txs, cursors, lock, faults, walk, attested>>

\* A full page has a next one; the deadline is looked at before a wallet and
\* before a page, never after the last.
PageDone(s) ==
  /\ runs[s].phase = "wallets"
  /\ Walking(s) = {} /\ runs[s].at >= runs[s].last
  /\ Goes(s, [runs[s] EXCEPT
       !.phase = IF runs[s].last = runs[s].page * PageSize THEN "page" ELSE "stamp walk"])
  /\ UNCHANGED <<chain, db, cursors, lock, passes, faults, history>>

\* Without the time to go on, where the walk stopped is kept and nothing attested.
Progress_WholePage(run) == run.last

Progress(run) == run.at

StopWalk(s) ==
  /\ runs[s].phase \in {"page", "wallets"}
  /\ runs[s].late # "no" /\ Walking(s) = {}
  /\ runs[s].phase = "wallets" => runs[s].at < runs[s].last
  /\ reconcile' = Progress(runs[s])
  /\ Goes(s, [runs[s] EXCEPT !.phase = "read", !.page = backfill.page, !.todo = {},
                             !.late = IF @ = "half" THEN "no" ELSE @])
  /\ UNCHANGED <<chain, db, head, backfill, lock, passes, faults, history>>

AfterWalk_Kept(run) == run.at

AfterWalk(run) == 0

StampWalk(s) ==
  /\ runs[s].phase = "stamp walk"
  /\ reconcile' = AfterWalk(runs[s])
  /\ attested' = walk
  /\ Goes(s, [runs[s] EXCEPT !.phase = "read", !.page = backfill.page, !.todo = {},
                             !.late = IF @ = "half" THEN "no" ELSE @])
  /\ UNCHANGED <<chain, db, head, backfill, lock, passes, faults, walk, closed>>
-----------------------------------------------------------------------------
(* The backfill reads pages of the oldest transactions from where it was. *)

EndRun(s) ==
  /\ Goes(s, Idle)
  /\ lock' = IF lock = s THEN None ELSE lock

BackfillDone(s) ==
  /\ runs[s].phase = "read"
  /\ backfill.completed
  /\ EndRun(s)
  /\ UNCHANGED <<chain, db, cursors, passes, faults, history>>

\* The page before the empty one may have been partial: it is read again.
NextPage(page) == Larger(page - 1, 1)

ReadOldestPage(s) ==
  LET run == runs[s]
      entries == OldestFirst(run.page)
  IN /\ run.phase = "read"
     /\ ~ backfill.completed
     /\ run.page < backfill.page + BackfillBudget /\ ~ Late(s)
     /\ IF entries = {}
        THEN Goes(s, [run EXCEPT !.phase = "stamp history", !.page = NextPage(@), !.met = TRUE])
        ELSE Goes(s, [run EXCEPT !.phase = "store", !.todo = entries])
     /\ UNCHANGED <<chain, db, cursors, lock, passes, faults, history>>

StoreEntry(s) ==
  /\ runs[s].phase = "store"
  /\ runs[s].todo # {} /\ ~ Late(s)
  /\ Persist(Min(runs[s].todo))
  /\ Goes(s, [runs[s] EXCEPT !.todo = @ \ {Min(@)}])
  /\ UNCHANGED <<chain, cursors, lock, passes, faults, history>>

OldestPageDone(s) ==
  /\ runs[s].phase = "store"
  /\ runs[s].todo = {}
  /\ Goes(s, [runs[s] EXCEPT !.phase = "read", !.page = @ + 1, !.met = FALSE])
  /\ UNCHANGED <<chain, db, cursors, lock, passes, faults, history>>

\* A page of which a part is stored stays the one to read.
StopBackfill(s) ==
  /\ ~ backfill.completed
  /\ \/ runs[s].phase = "read" /\ (Late(s) \/ runs[s].page >= backfill.page + BackfillBudget)
     \/ runs[s].phase = "store" /\ Late(s) /\ runs[s].todo # {}
  /\ Goes(s, [runs[s] EXCEPT !.phase = "stamp history", !.met = FALSE])
  /\ UNCHANGED <<chain, db, cursors, lock, passes, faults, history>>

StampHistory(s) ==
  /\ runs[s].phase = "stamp history"
  /\ backfill' = [page |-> runs[s].page, completed |-> runs[s].met]
  /\ EndRun(s)
  /\ UNCHANGED <<chain, db, head, reconcile, passes, faults, history>>
-----------------------------------------------------------------------------
(* Faults. *)

DeadlineReached(s) ==
  /\ faults.late < MaxLate
  /\ runs[s].phase # "idle"
  /\ \E late \in {"half", "all"} :
       /\ runs[s].late = "no" \/ (runs[s].late = "half" /\ late = "all")
       /\ late = "half" => runs[s].phase \in {"page", "wallets"} /\ ~ backfill.completed
       /\ Goes(s, [runs[s] EXCEPT !.late = late])
  /\ faults' = [faults EXCEPT !.late = @ + 1]
  /\ UNCHANGED <<chain, db, cursors, lock, passes, history>>

\* The provider or the database fails, or the process dies: what is not in the
\* database is gone, and the lock with its session.
Crash(s) ==
  /\ faults.crashes < MaxCrashes
  /\ runs[s].phase # "idle"
  /\ EndRun(s)
  /\ passes' = passes \ Walking(s)
  /\ faults' = [faults EXCEPT !.crashes = @ + 1]
  /\ UNCHANGED <<chain, db, cursors, history>>

Step(s) ==
  \/ StartRun(s)
  \/ ListPage(s) \/ Listed(s) \/ PersistEntry(s) \/ Persisted(s)
  \/ RearmBackfill(s) \/ StampHead(s)
  \/ ReadCollectionPage(s) \/ FetchWallet(s) \/ StoreWallet(s) \/ PageDone(s)
  \/ StopWalk(s) \/ StampWalk(s)
  \/ BackfillDone(s) \/ ReadOldestPage(s) \/ StoreEntry(s) \/ OldestPageDone(s)
  \/ StopBackfill(s) \/ StampHistory(s)

Next ==
  \/ \E u \in Unit : Grow(u) \/ Ask(u)
  \/ \E p \in passes : Answer(p)
  \/ \E s \in Server : Step(s) \/ DeadlineReached(s) \/ Crash(s)

\* Visits to the application keep requesting runs.
Spec == Init /\ [][Next]_vars /\ WF_vars(\E s \in Server : Step(s))
-----------------------------------------------------------------------------
\* Once the backfill is complete nothing up to the head cursor is missing: the
\* database has the whole history, whatever died in between (indexer.ts:151-156).
NoGap == backfill.completed => \A i \in 1..head : i \in txs

\* What the stamp of a full walk says is true: no row is older than the chain was
\* when the walk began, however many runs it took, unless a request has closed it
\* since (indexer.ts:383-385).
StampIsHonest ==
  \A u \in Unit : attested[u] # 0 =>
    rows[u] # None /\ (rows[u].current >= attested[u] \/ u \in closed)

\* A request found no output of the wallet and has not yet written that down.
FoundNothing(u) == [by |-> None, unit |-> u, live |-> 0] \in passes

\* The state shown of a wallet never becomes an older one, whoever writes last;
\* only a request that found nothing may take it away (indexer-persistence.ts:161-168).
SnapshotsMoveForward ==
  [][\A u \in Unit : rows[u] # None =>
       rows'[u] # None /\ (rows'[u].current >= rows[u].current \/ FoundNothing(u))]_vars

\* Of two reconciliations of a wallet the one with the newer read prevails, so it
\* is safe to run them concurrently (indexer.ts:603-604).
NewerReadPrevails ==
  [][\A u \in Unit : rows[u] # None => rows'[u] # None /\ rows'[u].current >= rows[u].current]_vars

\* When the chain rests, every wallet is shown as it is.
Converges ==
  <>[](\A u \in Minted : rows[u] # None /\ rows[u].current = Live(u))

\* When the chain rests, the whole history is stored.
HistoryCompletes == <>[](backfill.completed /\ txs = 1..Len(chain))
=============================================================================
