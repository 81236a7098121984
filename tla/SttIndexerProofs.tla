--------------------------- MODULE SttIndexerProofs ---------------------------
(***************************************************************************)
(* The safety of the indexer, for any number of wallets, servers, requests *)
(* and faults.                                                             *)
(*                                                                         *)
(* The invariant follows one walk through the collection over all the runs *)
(* it takes: what lies below the cursor, or below the position of the run  *)
(* that walks, shows at least the state the wallet had when the walk       *)
(* began.  It rests on the collection's order, in which a wallet keeps its *)
(* place while others are minted, and on the lock, which lets no other run *)
(* start the walk anew.                                                    *)
(***************************************************************************)
EXTENDS SttIndexer, Sums

-----------------------------------------------------------------------------
(* Least and greatest positions. *)

LEMMA MinIsLeast ==
  ASSUME NEW S, S \subseteq Nat, S # {}
  PROVE  Min(S) \in S /\ \A y \in S : Min(S) <= y
BY LeastExists DEF Min

LEMMA MaxIsGreatest ==
  ASSUME NEW n \in Nat, NEW S \in SUBSET (1..n), S # {}
  PROVE  Max(S) \in S /\ \A y \in S : y <= Max(S)
<1> DEFINE T == {n - x : x \in S}
<1>0. \A x \in S : n - x \in Nat
  OBVIOUS
<1>1. T \in SUBSET Nat /\ T # {}
  BY <1>0
<1>2. PICK m \in T : \A y \in T : m <= y
  <2> HIDE DEF T
  <2> QED BY <1>1, MinIsLeast
<1>3. n - m \in S /\ \A y \in S : n - m >= y
  BY <1>2
<1>4. \E x \in S : \A y \in S : x >= y
  BY <1>3
<1> QED BY <1>4 DEF Max

-----------------------------------------------------------------------------
(* The chain. *)

ChainOK == chain \in Seq(Unit)

LEMMA MovesFacts ==
  ASSUME ChainOK, NEW u
  PROVE  /\ Len(chain) \in Nat
         /\ Moves(u) \in SUBSET (1..Len(chain))
         /\ Live(u) \in Nat
         /\ Live(u) # 0 <=> Moves(u) # {}
         /\ Moves(u) # {} => Live(u) \in Moves(u) /\ \A i \in Moves(u) : i <= Live(u)
<1>1. Len(chain) \in Nat /\ Moves(u) \in SUBSET (1..Len(chain))
  BY DEF ChainOK, Moves
<1>2. Moves(u) # {} => Max(Moves(u)) \in Moves(u) /\ \A i \in Moves(u) : i <= Max(Moves(u))
  BY <1>1, MaxIsGreatest
<1> QED BY <1>1, <1>2 DEF Live

LEMMA FirstMove ==
  ASSUME ChainOK, NEW u \in Minted
  PROVE  /\ Min(Moves(u)) \in Moves(u)
         /\ \A i \in Moves(u) : Min(Moves(u)) <= i
         /\ Min(Moves(u)) \in 1..Len(chain)
<1>1. Moves(u) \in SUBSET (1..Len(chain)) /\ Moves(u) # {} /\ Moves(u) \in SUBSET Nat
  BY MovesFacts DEF Minted
<1> QED BY <1>1, MinIsLeast

LEMMA MintedIsFinite ==
  ASSUME ChainOK
  PROVE  IsFiniteSet(Minted) /\ Cardinality(Minted) \in Nat
<1>1. Len(chain) \in Nat /\ chain \in [1..Len(chain) -> Unit]
  BY DEF ChainOK
<1>2. Minted = {u \in Unit : \E i \in 1..Len(chain) : chain[i] = u}
  BY DEF Minted, Moves
<1>3. chain \in [1..Len(chain) -> Minted] /\ \A u \in Minted : \E i \in 1..Len(chain) : chain[i] = u
  BY <1>1, <1>2
<1>4. ExistsSurjection(1..Len(chain), Minted)
  BY <1>3 DEF ExistsSurjection, Surjection
<1> QED BY <1>1, <1>4, FS_NatSurjection, FS_CardinalityType

\* The wallets minted up to u.
Before(u) == {v \in Minted : Min(Moves(v)) <= Min(Moves(u))}

LEMMA PlaceFacts ==
  ASSUME ChainOK, NEW u \in Minted
  PROVE  /\ Place(u) \in Nat \ {0}
         /\ Place(u) <= Cardinality(Minted)
         /\ IsFiniteSet(Before(u)) /\ Before(u) \subseteq Minted /\ u \in Before(u)
         /\ Place(u) = Cardinality(Before(u))
<1>1. Before(u) \subseteq Minted /\ Place(u) = Cardinality(Before(u))
  BY DEF Before, Place
<1>2. u \in Before(u)
  BY FirstMove DEF Before
<1>3. /\ IsFiniteSet(Before(u)) /\ Cardinality(Before(u)) <= Cardinality(Minted)
      /\ Cardinality(Before(u)) \in Nat
  BY <1>1, MintedIsFinite, FS_Subset, FS_CardinalityType
<1>4. Cardinality(Before(u)) # 0
  BY <1>2, <1>3, FS_EmptySet
<1> QED BY <1>1, <1>2, <1>3, <1>4

\* No two wallets share a place.
LEMMA PlacesDiffer ==
  ASSUME ChainOK, NEW u \in Minted, NEW v \in Minted, Place(u) = Place(v)
  PROVE  u = v
<1>1. ASSUME NEW x \in Minted, NEW y \in Minted, Place(x) = Place(y),
             Min(Moves(x)) <= Min(Moves(y))
      PROVE  x = y
  <2>1. /\ \A z \in Minted : Min(Moves(z)) \in 1..Len(chain) /\ Min(Moves(z)) \in Moves(z)
        /\ Len(chain) \in Nat
    BY FirstMove, MovesFacts
  <2>2. Before(x) \subseteq Before(y)
    BY <1>1, <2>1 DEF Before
  <2>3. IsFiniteSet(Before(y)) /\ Cardinality(Before(x)) = Cardinality(Before(y)) /\ y \in Before(y)
    BY <1>1, PlaceFacts
  <2>4. y \in Before(x)
    BY <2>2, <2>3, FS_Subset
  <2>5. Min(Moves(x)) = Min(Moves(y))
    BY <1>1, <2>1, <2>4 DEF Before
  <2> QED BY <2>1, <2>5 DEF Moves
<1>2. Min(Moves(u)) \in 1..Len(chain) /\ Min(Moves(v)) \in 1..Len(chain) /\ Len(chain) \in Nat
  BY FirstMove, MovesFacts
<1> QED BY <1>1, <1>2

\* The chain grows at its end: nobody's place changes.
LEMMA GrowFacts ==
  ASSUME ChainOK, NEW w \in Unit, chain' = Append(chain, w)
  PROVE  /\ ChainOK'
         /\ Minted \subseteq Minted'
         /\ \A u \in Unit : Live(u)' \in Nat /\ Live(u) <= Live(u)'
         /\ \A u \in Minted : Place(u)' = Place(u)
<1>1. ChainOK' /\ Len(chain) \in Nat /\ Len(chain') = Len(chain) + 1
  BY DEF ChainOK
<1>2. \A u : Moves(u)' = Moves(u) \cup (IF u = w THEN {Len(chain) + 1} ELSE {})
  BY <1>1 DEF Moves, ChainOK
<1>3. \A u : Moves(u) \in SUBSET (1..Len(chain))
  BY MovesFacts
<1>4. Minted \subseteq Minted' /\ Minted' \subseteq Minted \cup {w}
  BY <1>2 DEF Minted
<1>5. ASSUME NEW u \in Unit PROVE Live(u)' \in Nat /\ Live(u) <= Live(u)'
  <2>1. Live(u) \in Nat /\ (Live(u) # 0 => Live(u) \in Moves(u))
    BY MovesFacts
  <2>2. /\ Live(u)' \in Nat
        /\ Moves(u)' # {} => \A i \in Moves(u)' : i <= Live(u)'
    <3>1. Moves(u)' \in SUBSET (1..(Len(chain) + 1)) /\ Len(chain) + 1 \in Nat
      BY <1>1, <1>2, <1>3
    <3>2. Moves(u)' # {} => Max(Moves(u)') \in Moves(u)' /\ \A i \in Moves(u)' : i <= Max(Moves(u)')
      BY <3>1, MaxIsGreatest
    <3> QED BY <3>1, <3>2 DEF Live
  <2> QED BY <1>2, <2>1, <2>2
<1>6. ASSUME NEW u \in Minted PROVE Min(Moves(u)') = Min(Moves(u))
  <2>1. /\ Min(Moves(u)) \in Moves(u) /\ (\A i \in Moves(u) : Min(Moves(u)) <= i)
        /\ Min(Moves(u)) \in 1..Len(chain)
    BY FirstMove
  <2>2. Moves(u)' \in SUBSET Nat /\ Moves(u)' # {}
    BY <1>1, <1>2, <1>3, <2>1
  <2>3. Min(Moves(u)') \in Moves(u)' /\ \A y \in Moves(u)' : Min(Moves(u)') <= y
    BY <2>2, MinIsLeast
  <2>4. \A y \in Moves(u)' : y \in Nat /\ Min(Moves(u)) <= y
    BY <1>1, <1>2, <1>3, <2>1
  <2> QED BY <1>1, <1>2, <2>1, <2>3, <2>4
<1>7. ASSUME w \notin Minted PROVE Min(Moves(w)') = Len(chain) + 1
  <2>1. Moves(w)' = {Len(chain) + 1}
    BY <1>2, <1>7 DEF Minted
  <2>2. Min({Len(chain) + 1}) \in {Len(chain) + 1}
    BY <1>1, MinIsLeast
  <2> QED BY <2>1, <2>2
<1>8. ASSUME NEW u \in Minted PROVE Place(u)' = Place(u)
  <2>1. Min(Moves(u)) \in 1..Len(chain)
    BY FirstMove
  <2>2. {v \in Minted' : Min(Moves(v)') <= Min(Moves(u)')} = {v \in Minted : Min(Moves(v)) <= Min(Moves(u))}
    BY <1>1, <1>4, <1>6, <1>7, <2>1
  <2> QED BY <2>2 DEF Place
<1> QED BY <1>1, <1>4, <1>5, <1>8

-----------------------------------------------------------------------------
(* The invariant. *)

Row == [status : {"ACTIVE", "CLOSED"}, current : Nat, seen : Nat]
Pass == [by : Server \cup {None}, unit : Unit, live : Nat]
Phase == {"idle", "list", "persist", "rearm", "stamp head", "page", "wallets",
          "stamp walk", "read", "store", "stamp history"}
Run == [phase : Phase, page : Nat, todo : SUBSET Nat, newest : Nat,
        met : BOOLEAN, late : {"no", "half", "all"}, at : Nat, last : Nat]

IndexerTypeOK ==
  /\ ChainOK
  /\ rows \in [Unit -> Row \cup {None}]
  /\ passes \subseteq Pass
  /\ head \in Nat
  /\ reconcile \in Nat
  /\ backfill \in [page : Nat, completed : BOOLEAN]
  /\ lock \in Server \cup {None}
  /\ runs \in [Server -> Run]
  /\ walk \in [Unit -> Nat]
  /\ attested \in [Unit -> Nat]

\* The row of u shows at least the state k, unless a request has closed it.
Shows(u, k) == rows[u] # None /\ (rows[u].current >= k \/ u \in closed)

\* The walk has been past the first n places.
WalkedTo(n) == \A u \in Unit : walk[u] # 0 /\ Place(u) <= n => Shows(u, walk[u])

WalkEndsBy(n) == \A u \in Unit : walk[u] # 0 => Place(u) <= n

LockIsHeld == \A s \in Server : runs[s].phase # "idle" => lock = s

WalkIsPast == \A u \in Unit : attested[u] <= walk[u] /\ walk[u] <= Live(u)

\* A server reads one wallet at a time, the next one.
WalkerReadsNext ==
  \A p \in passes : p.by \in Server =>
    /\ runs[p.by].phase = "wallets"
    /\ p.live # 0 /\ p.live >= walk[p.unit]
    /\ p.unit \in Minted /\ Place(p.unit) = runs[p.by].at + 1
    /\ \A q \in passes : q.by = p.by => q = p

WalkIsSound ==
  /\ WalkedTo(reconcile)
  /\ \A s \in Server :
       /\ runs[s].phase \in {"page", "wallets", "stamp walk"}
            => reconcile <= runs[s].at /\ WalkedTo(runs[s].at)
       /\ runs[s].phase = "wallets"
            => runs[s].last = runs[s].page * PageSize \/ WalkEndsBy(runs[s].last)
       /\ runs[s].phase = "stamp walk" => WalkEndsBy(runs[s].at)

IndexerInvariant ==
  /\ IndexerTypeOK
  /\ LockIsHeld
  /\ WalkIsPast
  /\ WalkerReadsNext
  /\ WalkIsSound
  /\ StampIsHonest

-----------------------------------------------------------------------------
(* Rows. *)

\* What a step may do to the rows: what was shown up to the walk's state stays shown.
RowsGrow == \A u \in Unit, k \in Nat : k <= walk[u] /\ Shows(u, k) => Shows(u, k)'

LEMMA SkeletonFacts ==
  ASSUME IndexerTypeOK, NEW u, NEW height \in Nat
  PROVE  /\ WithSkeleton(u, height) \in [Unit -> Row \cup {None}]
         /\ \A v \in Unit : rows[v] # None
              => /\ WithSkeleton(u, height)[v] # None
                 /\ WithSkeleton(u, height)[v].current = rows[v].current
<1>0. rows \in [Unit -> Row \cup {None}] /\ None \notin Row
  BY NoneAssumption DEF IndexerTypeOK, Row
<1>1. CASE u \notin Unit
  BY <1>0, <1>1 DEF WithSkeleton
<1>2. CASE u \in Unit /\ rows[u] = None
  <2> DEFINE new == [status |-> "ACTIVE", current |-> 0, seen |-> height]
  <2>1. WithSkeleton(u, height) = [rows EXCEPT ![u] = new] /\ new \in Row
    BY <1>2 DEF WithSkeleton, Row
  <2> HIDE DEF new
  <2> QED BY <1>0, <1>2, <2>1
<1>3. CASE u \in Unit /\ rows[u] # None
  <2> DEFINE new == [rows[u] EXCEPT !.seen = Larger(@, height)]
  <2>1. WithSkeleton(u, height) = [rows EXCEPT ![u] = new]
    BY <1>3 DEF WithSkeleton
  <2>2. new \in Row /\ new.current = rows[u].current
    BY <1>0, <1>3 DEF Row, Larger
  <2> HIDE DEF new
  <2> QED BY <1>0, <1>3, <2>1, <2>2
<1> QED BY <1>1, <1>2, <1>3

LEMMA SkeletonKeeps ==
  ASSUME IndexerTypeOK, NEW u, NEW height \in Nat, rows' = WithSkeleton(u, height), closed' = closed
  PROVE  rows' \in [Unit -> Row \cup {None}] /\ RowsGrow
BY SkeletonFacts DEF RowsGrow, Shows

LEMMA SameRowsGrow ==
  ASSUME UNCHANGED <<rows, closed>> PROVE RowsGrow
BY DEF RowsGrow, Shows

LEMMA WrittenFacts ==
  ASSUME IndexerTypeOK, NEW p \in Pass
  PROVE  /\ Written(p) \in [Unit -> Row \cup {None}]
         /\ \A v \in Unit : v # p.unit => Written(p)[v] = rows[v]
         /\ rows[p.unit] # None => Written(p)[p.unit] # None
         /\ p.live # 0 => /\ Written(p)[p.unit] # None
                          /\ Written(p)[p.unit].current >= p.live
                          /\ rows[p.unit] # None
                               => Written(p)[p.unit].current >= rows[p.unit].current
<1>1. p.unit \in Unit /\ p.live \in Nat
  BY DEF Pass
<1>2. rows \in [Unit -> Row \cup {None}]
  BY DEF IndexerTypeOK
<1>3. CASE p.live # 0 /\ IsBehindStored(p)
  BY <1>1, <1>2, <1>3 DEF Written, IsBehindStored, Row
<1>4. CASE p.live # 0 /\ ~ IsBehindStored(p)
  <2> DEFINE new == [status |-> "ACTIVE", current |-> p.live,
                     seen |-> IF rows[p.unit] = None THEN 0 ELSE rows[p.unit].seen]
  <2>1. Written(p) = [rows EXCEPT ![p.unit] = new]
    BY <1>4 DEF Written
  <2>2. new \in Row /\ new.current = p.live
    BY <1>1, <1>2 DEF Row
  <2>3. new # None
    BY <2>2, NoneAssumption DEF Row
  <2>4. rows[p.unit] # None => rows[p.unit].current \in Nat /\ rows[p.unit].current <= p.live
    BY <1>1, <1>2, <1>4 DEF IsBehindStored, Row
  <2> HIDE DEF new
  <2> QED BY <1>1, <1>2, <1>4, <2>1, <2>2, <2>3, <2>4
<1>5. CASE p.live = 0
  <2> DEFINE new == [status |-> "CLOSED", current |-> 0, seen |-> 0]
  <2>1. new \in Row /\ new # None
    BY NoneAssumption DEF Row
  <2>2. Written(p) \in {rows, [rows EXCEPT ![p.unit] = new]}
    BY <1>5 DEF Written
  <2> HIDE DEF new
  <2> QED BY <1>1, <1>2, <1>5, <2>1, <2>2
<1> QED BY <1>3, <1>4, <1>5

LEMMA FetchKeeps ==
  ASSUME IndexerTypeOK, NEW p \in Pass, Fetch(p), closed' = closed
  PROVE  rows' \in [Unit -> Row \cup {None}] /\ RowsGrow /\ passes' \subseteq Pass
<1>1. passes' \subseteq Pass
  BY DEF Fetch, IndexerTypeOK
<1>2. CASE p.live = 0
  BY <1>2, SameRowsGrow DEF Fetch, IndexerTypeOK
<1>3. CASE p.live # 0
  BY <1>1, <1>3, SkeletonKeeps DEF Fetch
<1> QED BY <1>1, <1>2, <1>3

LEMMA PersistKeeps ==
  ASSUME IndexerTypeOK, NEW T \in SUBSET Nat, T # {}, Persist(Min(T)), closed' = closed
  PROVE  rows' \in [Unit -> Row \cup {None}] /\ RowsGrow
<1>1. Min(T) \in Nat
  BY MinIsLeast
<1> QED BY <1>1, SkeletonKeeps DEF Persist

LEMMA PageFacts ==
  ASSUME IndexerTypeOK, NEW page \in Nat
  PROVE  /\ NewestFirst(page) \in SUBSET Nat /\ OldestFirst(page) \in SUBSET Nat
         /\ NewestFirst(page) # {} => Max(NewestFirst(page)) \in Nat
<1>1. Len(chain) \in Nat
  BY DEF IndexerTypeOK, ChainOK
<1>2. NewestFirst(page) \in SUBSET (1..Len(chain)) /\ OldestFirst(page) \in SUBSET (1..Len(chain))
  BY DEF NewestFirst, OldestFirst
<1>3. NewestFirst(page) # {} => Max(NewestFirst(page)) \in NewestFirst(page)
  BY <1>1, <1>2, MaxIsGreatest
<1> QED BY <1>1, <1>2, <1>3

LEMMA RunFields ==
  ASSUME IndexerTypeOK, NEW s \in Server
  PROVE  /\ runs[s] \in Run /\ runs[s].phase \in Phase /\ runs[s].todo \in SUBSET Nat
         /\ runs[s].met \in BOOLEAN /\ runs[s].late \in {"no", "half", "all"}
         /\ runs[s].at \in Nat /\ runs[s].page \in Nat /\ runs[s].last \in Nat
         /\ runs[s].newest \in Nat
         /\ PageSize \in Nat \ {0}
BY PageAssumption DEF IndexerTypeOK, Run

LEMMA GoesFacts ==
  ASSUME IndexerTypeOK, NEW s \in Server, NEW r \in Run, Goes(s, r)
  PROVE  /\ runs' \in [Server -> Run]
         /\ runs'[s] = r
         /\ \A t \in Server : t # s => runs'[t] = runs[t]
BY DEF IndexerTypeOK, Goes

LEMMA GoesWhere ==
  ASSUME IndexerTypeOK, NEW s \in Server, NEW r, Goes(s, r)
  PROVE  runs'[s] = r /\ \A t \in Server : t # s => runs'[t] = runs[t]
BY DEF IndexerTypeOK, Goes

LEMMA IdleIsRun == Idle \in Run /\ Idle.phase = "idle"
BY DEF Idle, Run, Phase

\* The steps of a run keep the types.
LEMMA RunStepTypes ==
  ASSUME IndexerTypeOK, NEW s \in Server, Step(s) \/ DeadlineReached(s) \/ Crash(s)
  PROVE  IndexerTypeOK'
<1> DEFINE run == runs[s]
<1>0. /\ run \in Run /\ run.phase \in Phase /\ run.todo \in SUBSET Nat
      /\ run.met \in BOOLEAN /\ run.late \in {"no", "half", "all"}
      /\ run.at \in Nat /\ run.page \in Nat /\ run.last \in Nat /\ run.newest \in Nat
      /\ PageSize \in Nat
  BY RunFields
<1>b. run.at + 1 \in Nat /\ run.page + 1 \in Nat
  BY <1>0
<1>a. backfill.page \in Nat /\ reconcile \in Nat /\ head \in Nat
  BY DEF IndexerTypeOK
<1>1. CASE StartRun(s)
  <2> DEFINE r == [Idle EXCEPT !.phase = "list", !.newest = head]
  <2>1. r \in Run
    BY <1>a, IdleIsRun DEF Run, Phase
  <2> HIDE DEF r
  <2>2. Goes(s, r)
    BY <1>1 DEF StartRun, r
  <2>3. runs' \in [Server -> Run]
    BY <2>1, <2>2, GoesFacts
  <2> QED BY <1>0, <1>1, <2>3 DEF StartRun, IndexerTypeOK, ChainOK, db, cursors, history
<1>2. CASE ListPage(s)
  <2> DEFINE entries == NewestFirst(run.page)
             todo == run.todo \cup {i \in entries : i > head}
             newest == IF run.page = 1 /\ entries # {} THEN Max(entries) ELSE run.newest
             met == entries = {} \/ (head # 0 /\ head \in entries)
             r == [run EXCEPT !.page = run.page + 1, !.todo = todo, !.newest = newest, !.met = met]
  <2>1. todo \in SUBSET Nat /\ newest \in Nat /\ met \in BOOLEAN
    BY <1>0, PageFacts
  <2>2. Goes(s, r)
    BY <1>2 DEF ListPage
  <2> HIDE DEF todo, newest, met
  <2>3. r \in Run
    BY <1>0, <1>b, <2>1 DEF Run
  <2>4. runs' \in [Server -> Run]
    BY <2>2, <2>3, GoesFacts
  <2> QED BY <1>2, <2>4 DEF ListPage, IndexerTypeOK, ChainOK, db, cursors, history
<1>3. CASE Listed(s)
  <2> DEFINE r == [run EXCEPT !.phase = "persist"]
  <2>1. r \in Run
    BY <1>0 DEF Run, Phase
  <2> HIDE DEF r
  <2>2. Goes(s, r)
    BY <1>3 DEF Listed, r
  <2>3. runs' \in [Server -> Run]
    BY <2>1, <2>2, GoesFacts
  <2> QED BY <1>0, <1>3, <2>3 DEF Listed, IndexerTypeOK, ChainOK, db, cursors, history
<1>4. CASE PersistEntry(s)
  <2>1. rows' \in [Unit -> Row \cup {None}]
    BY <1>0, <1>4, PersistKeeps DEF PersistEntry, history
  <2> DEFINE r == [run EXCEPT !.todo = @ \ {Min(@)}]
  <2>2. r \in Run
    BY <1>0 DEF Run, Phase
  <2> HIDE DEF r
  <2>3. Goes(s, r)
    BY <1>4 DEF PersistEntry, r
  <2>4. runs' \in [Server -> Run]
    BY <2>2, <2>3, GoesFacts
  <2> QED BY <1>0, <1>4, <2>1, <2>4 DEF PersistEntry, IndexerTypeOK, ChainOK, cursors, history
<1>5. CASE Persisted(s)
  <2> DEFINE r == [run EXCEPT !.phase = IF LeavesGap(run) THEN "rearm" ELSE "stamp head"]
  <2>1. r \in Run
    BY <1>0 DEF Run, Phase
  <2> HIDE DEF r
  <2>2. Goes(s, r)
    BY <1>5 DEF Persisted, r
  <2>3. runs' \in [Server -> Run]
    BY <2>1, <2>2, GoesFacts
  <2> QED BY <1>0, <1>5, <2>3 DEF Persisted, IndexerTypeOK, ChainOK, db, cursors, history
<1>6. CASE RearmBackfill(s)
  <2> DEFINE r == [run EXCEPT !.phase = "stamp head"]
  <2>1. r \in Run
    BY <1>0 DEF Run, Phase
  <2> HIDE DEF r
  <2>2. Goes(s, r)
    BY <1>6 DEF RearmBackfill, r
  <2>3. runs' \in [Server -> Run]
    BY <2>1, <2>2, GoesFacts
  <2> QED BY <1>0, <1>6, <2>3 DEF RearmBackfill, IndexerTypeOK, ChainOK, db, history
<1>7. CASE StampHead(s)
  <2> DEFINE r == [run EXCEPT !.phase = "page", !.at = reconcile]
  <2>1. r \in Run
    BY <1>0, <1>a DEF Run, Phase
  <2> HIDE DEF r
  <2>2. Goes(s, r)
    BY <1>7 DEF StampHead, r
  <2>3. runs' \in [Server -> Run]
    BY <2>1, <2>2, GoesFacts
  <2> QED BY <1>0, <1>7, <2>3 DEF StampHead, IndexerTypeOK, ChainOK, db, history
<1>8. CASE ReadCollectionPage(s)
  <2> DEFINE page == (run.at \div PageSize) + 1
             last == IF Cardinality(Minted) < page * PageSize THEN Cardinality(Minted)
                     ELSE page * PageSize
             r == [run EXCEPT !.phase = "wallets", !.page = page, !.last = last]
  <2>1. page \in Nat /\ page * PageSize \in Nat
    BY <1>0, RunFields
  <2>2. last \in Nat
    BY <2>1, MintedIsFinite DEF IndexerTypeOK
  <2>3. Goes(s, r)
    BY <1>8 DEF ReadCollectionPage
  <2> HIDE DEF page, last
  <2>4. r \in Run
    BY <1>0, <2>1, <2>2 DEF Run, Phase
  <2>5. runs' \in [Server -> Run]
    BY <2>3, <2>4, GoesFacts
  <2>6. walk' \in [Unit -> Nat]
    BY <1>8, MovesFacts DEF ReadCollectionPage, IndexerTypeOK
  <2> QED BY <1>8, <2>5, <2>6 DEF ReadCollectionPage, IndexerTypeOK, ChainOK, db, cursors
<1>9. CASE FetchWallet(s)
  <2>1. PICK u \in Unit : Fetch([by |-> s, unit |-> u, live |-> Live(u)])
    BY <1>9 DEF FetchWallet, Minted
  <2>2. [by |-> s, unit |-> u, live |-> Live(u)] \in Pass
    BY MovesFacts DEF Pass, IndexerTypeOK
  <2>3. rows' \in [Unit -> Row \cup {None}] /\ passes' \subseteq Pass
    BY <1>9, <2>1, <2>2, FetchKeeps DEF FetchWallet, history
  <2> QED BY <1>9, <2>3 DEF FetchWallet, IndexerTypeOK, ChainOK, cursors, history
<1>10. CASE StoreWallet(s)
  <2>1. PICK p \in Walking(s) : rows' = Written(p) /\ passes' = passes \ {p}
    BY <1>10 DEF StoreWallet
  <2>2. p \in Pass
    BY DEF Walking, IndexerTypeOK
  <2>3. rows' \in [Unit -> Row \cup {None}] /\ passes' \subseteq Pass
    BY <2>1, <2>2, WrittenFacts DEF IndexerTypeOK
  <2> DEFINE r == [run EXCEPT !.at = @ + 1]
  <2>4. r \in Run
    BY <1>0, <1>b DEF Run, Phase
  <2> HIDE DEF r
  <2>5. Goes(s, r)
    BY <1>10 DEF StoreWallet, r
  <2>6. runs' \in [Server -> Run]
    BY <2>4, <2>5, GoesFacts
  <2> QED BY <1>0, <1>10, <2>3, <2>6 DEF StoreWallet, IndexerTypeOK, ChainOK, cursors
<1>11. CASE PageDone(s)
  <2> DEFINE r == [run EXCEPT !.phase = IF run.last = run.page * PageSize THEN "page" ELSE "stamp walk"]
  <2>1. r \in Run
    BY <1>0 DEF Run, Phase
  <2> HIDE DEF r
  <2>2. Goes(s, r)
    BY <1>11 DEF PageDone, r
  <2>3. runs' \in [Server -> Run]
    BY <2>1, <2>2, GoesFacts
  <2> QED BY <1>0, <1>11, <2>3 DEF PageDone, IndexerTypeOK, ChainOK, db, cursors, history
<1>12. CASE StopWalk(s)
  <2> DEFINE r == [run EXCEPT !.phase = "read", !.page = backfill.page, !.todo = {},
                             !.late = IF @ = "half" THEN "no" ELSE @]
  <2>1. r \in Run
    BY <1>0, <1>a DEF Run, Phase
  <2> HIDE DEF r
  <2>2. Goes(s, r)
    BY <1>12 DEF StopWalk, Progress, r
  <2>3. runs' \in [Server -> Run]
    BY <2>1, <2>2, GoesFacts
  <2> QED BY <1>0, <1>12, <2>3 DEF StopWalk, Progress, IndexerTypeOK, ChainOK, db, history
<1>13. CASE StampWalk(s)
  <2> DEFINE r == [run EXCEPT !.phase = "read", !.page = backfill.page, !.todo = {},
                             !.late = IF @ = "half" THEN "no" ELSE @]
  <2>1. r \in Run
    BY <1>0, <1>a DEF Run, Phase
  <2> HIDE DEF r
  <2>2. Goes(s, r)
    BY <1>13 DEF StampWalk, AfterWalk, r
  <2>3. runs' \in [Server -> Run]
    BY <2>1, <2>2, GoesFacts
  <2> QED BY <1>0, <1>13, <2>3 DEF StampWalk, AfterWalk, IndexerTypeOK, ChainOK, db
<1>14. CASE BackfillDone(s)
  <2> DEFINE r == Idle
  <2>1. r \in Run
    BY IdleIsRun DEF Run, Phase
  <2> HIDE DEF r
  <2>2. Goes(s, r)
    BY <1>14 DEF BackfillDone, EndRun, r
  <2>3. runs' \in [Server -> Run]
    BY <2>1, <2>2, GoesFacts
  <2> QED BY <1>0, <1>14, <2>3 DEF BackfillDone, EndRun, IndexerTypeOK, ChainOK, db, cursors, history
<1>15. CASE ReadOldestPage(s)
  <2>1. NextPage(run.page) \in Nat
    BY <1>0 DEF NextPage, Larger
  <2>2. ASSUME OldestFirst(run.page) = {} PROVE runs' \in [Server -> Run]
    <3> DEFINE r == [run EXCEPT !.phase = "stamp history", !.page = NextPage(@), !.met = TRUE]
    <3>1. r \in Run
      BY <1>0, <2>1 DEF Run, Phase
    <3> HIDE DEF r
    <3>2. Goes(s, r)
      BY <1>15, <2>2 DEF ReadOldestPage, r
    <3> QED BY <3>1, <3>2, GoesFacts
  <2>3. ASSUME OldestFirst(run.page) # {} PROVE runs' \in [Server -> Run]
    <3> DEFINE r == [run EXCEPT !.phase = "store", !.todo = OldestFirst(run.page)]
    <3>1. r \in Run
      BY <1>0, PageFacts DEF Run, Phase
    <3> HIDE DEF r
    <3>2. Goes(s, r)
      BY <1>15, <2>3 DEF ReadOldestPage, r
    <3> QED BY <3>1, <3>2, GoesFacts
  <2>4. runs' \in [Server -> Run]
    BY <2>2, <2>3
  <2> QED BY <1>15, <2>4 DEF ReadOldestPage, IndexerTypeOK, ChainOK, db, cursors, history
<1>16. CASE StoreEntry(s)
  <2>1. rows' \in [Unit -> Row \cup {None}]
    BY <1>0, <1>16, PersistKeeps DEF StoreEntry, history
  <2> DEFINE r == [run EXCEPT !.todo = @ \ {Min(@)}]
  <2>2. r \in Run
    BY <1>0 DEF Run, Phase
  <2> HIDE DEF r
  <2>3. Goes(s, r)
    BY <1>16 DEF StoreEntry, r
  <2>4. runs' \in [Server -> Run]
    BY <2>2, <2>3, GoesFacts
  <2> QED BY <1>0, <1>16, <2>1, <2>4 DEF StoreEntry, IndexerTypeOK, ChainOK, cursors, history
<1>17. CASE OldestPageDone(s)
  <2> DEFINE r == [run EXCEPT !.phase = "read", !.page = @ + 1, !.met = FALSE]
  <2>1. r \in Run
    BY <1>0, <1>b DEF Run, Phase
  <2> HIDE DEF r
  <2>2. Goes(s, r)
    BY <1>17 DEF OldestPageDone, r
  <2>3. runs' \in [Server -> Run]
    BY <2>1, <2>2, GoesFacts
  <2> QED BY <1>0, <1>17, <2>3 DEF OldestPageDone, IndexerTypeOK, ChainOK, db, cursors, history
<1>18. CASE StopBackfill(s)
  <2> DEFINE r == [run EXCEPT !.phase = "stamp history", !.met = FALSE]
  <2>1. r \in Run
    BY <1>0 DEF Run, Phase
  <2> HIDE DEF r
  <2>2. Goes(s, r)
    BY <1>18 DEF StopBackfill, r
  <2>3. runs' \in [Server -> Run]
    BY <2>1, <2>2, GoesFacts
  <2> QED BY <1>0, <1>18, <2>3 DEF StopBackfill, IndexerTypeOK, ChainOK, db, cursors, history
<1>19. CASE StampHistory(s)
  <2> DEFINE r == Idle
  <2>1. r \in Run
    BY IdleIsRun DEF Run, Phase
  <2> HIDE DEF r
  <2>2. Goes(s, r)
    BY <1>19 DEF StampHistory, EndRun, r
  <2>3. runs' \in [Server -> Run]
    BY <2>1, <2>2, GoesFacts
  <2> QED BY <1>0, <1>19, <2>3 DEF StampHistory, EndRun, IndexerTypeOK, ChainOK, db, history
<1>20. CASE DeadlineReached(s)
  <2>1. PICK late \in {"half", "all"} : Goes(s, [run EXCEPT !.late = late])
    BY <1>20 DEF DeadlineReached
  <2>2. [run EXCEPT !.late = late] \in Run
    BY <1>0 DEF Run
  <2>3. runs' \in [Server -> Run]
    BY <2>1, <2>2, GoesFacts
  <2> QED BY <1>20, <2>3 DEF DeadlineReached, IndexerTypeOK, ChainOK, db, cursors, history
<1>21. CASE Crash(s)
  <2> DEFINE r == Idle
  <2>1. r \in Run
    BY IdleIsRun DEF Run, Phase
  <2> HIDE DEF r
  <2>2. Goes(s, r)
    BY <1>21 DEF Crash, EndRun, r
  <2>3. runs' \in [Server -> Run]
    BY <2>1, <2>2, GoesFacts
  <2> QED BY <1>0, <1>21, <2>3 DEF Crash, EndRun, IndexerTypeOK, ChainOK, db, cursors, history
<1> QED BY <1>1, <1>2, <1>3, <1>4, <1>5, <1>6, <1>7, <1>8, <1>9, <1>10, <1>11, <1>12, <1>13,
           <1>14, <1>15, <1>16, <1>17, <1>18, <1>19, <1>20, <1>21 DEF Step

-----------------------------------------------------------------------------
(* The walk. *)

LEMMA ChainStays ==
  ASSUME chain' = chain
  PROVE  /\ Minted' = Minted
         /\ \A u : Live(u)' = Live(u)
         /\ \A u : Place(u)' = Place(u)
<1>1. \A u : Moves(u)' = Moves(u)
  BY DEF Moves
<1>2. Minted' = Minted /\ \A u : Live(u)' = Live(u)
  BY <1>1 DEF Minted, Live
<1>3. ASSUME NEW u PROVE Place(u)' = Place(u)
  <2>1. {v \in Minted' : Min(Moves(v)') <= Min(Moves(u)')} = {v \in Minted : Min(Moves(v)) <= Min(Moves(u))}
    BY <1>1, <1>2
  <2> QED BY <2>1 DEF Place
<1> QED BY <1>2, <1>3

\* A wallet the walk knows of has a place.
LEMMA WalkedArePlaced ==
  ASSUME IndexerTypeOK, WalkIsPast, NEW u \in Unit, walk[u] # 0
  PROVE  /\ u \in Minted
         /\ Place(u) \in Nat \ {0} /\ Place(u) <= Cardinality(Minted)
         /\ Cardinality(Minted) \in Nat
<1>1. walk[u] \in Nat /\ walk[u] <= Live(u) /\ ChainOK
  BY DEF IndexerTypeOK, WalkIsPast
<1>2. Moves(u) # {}
  BY <1>1, MovesFacts
<1>3. u \in Minted
  BY <1>2 DEF Minted
<1> QED BY <1>1, <1>3, PlaceFacts, MintedIsFinite

\* Nobody but s is at work.
Alone(s) == \A t \in Server : t # s => runs[t].phase = "idle"

LEMMA TheLockIsExclusive ==
  ASSUME LockIsHeld, NEW s \in Server, runs[s].phase # "idle" \/ LockFree
  PROVE  Alone(s)
BY NoneAssumption DEF LockIsHeld, Alone, LockFree

\* After this step the walk will have been past the first n places.
WillBeWalkedTo(n) ==
  \A u \in Unit : walk[u] # 0 /\ Place(u) <= n => Shows(u, walk[u])'

LEMMA WhatWasWalkedStays ==
  ASSUME IndexerTypeOK, RowsGrow, NEW n, WalkedTo(n), walk' = walk
  PROVE  WillBeWalkedTo(n)
<1> SUFFICES ASSUME NEW u \in Unit, walk[u] # 0, Place(u) <= n
             PROVE  Shows(u, walk[u])'
  BY DEF WillBeWalkedTo
<1>1. Shows(u, walk[u]) /\ walk[u] \in Nat
  BY DEF WalkedTo, IndexerTypeOK
<1> QED BY <1>1 DEF RowsGrow, Shows

LEMMA WhatIsAttestedIsPast ==
  ASSUME IndexerTypeOK, WalkIsPast, attested' = attested \/ attested' = walk
  PROVE  \A u \in Unit : attested'[u] <= walk[u]
BY DEF IndexerTypeOK, WalkIsPast

LEMMA AtMostIsTransitive ==
  \A a, b, c \in Nat : a <= b /\ b <= c => a <= c
OBVIOUS

\* The step of a run that leaves the chain and the walk as they are: what has to be
\* seen of where the run is next.
LEMMA RunMoves ==
  ASSUME IndexerInvariant, NEW s \in Server, Alone(s), NEW r, Goes(s, r),
         UNCHANGED <<chain, walk>>, RowsGrow, passes' \subseteq passes,
         r.phase # "idle" => lock' = s,
         \A p \in passes' : p.by = s => r.phase = "wallets" /\ r.at = runs[s].at,
         WillBeWalkedTo(reconcile'),
         r.phase \in {"page", "wallets", "stamp walk"}
           => reconcile' <= r.at /\ WillBeWalkedTo(r.at),
         r.phase = "wallets" => r.last = r.page * PageSize \/ WalkEndsBy(r.last),
         r.phase = "stamp walk" => WalkEndsBy(r.at),
         \/ attested' = attested
         \/ attested' = walk /\ WalkEndsBy(runs[s].at) /\ WillBeWalkedTo(runs[s].at)
  PROVE  (LockIsHeld /\ WalkIsPast /\ WalkerReadsNext /\ WalkIsSound /\ StampIsHonest)'
<1>0. IndexerTypeOK /\ WalkIsPast /\ WalkerReadsNext /\ StampIsHonest
  BY DEF IndexerInvariant
<1>1. runs'[s] = r /\ \A t \in Server : t # s => runs'[t] = runs[t]
  BY <1>0, GoesWhere
<1>2. \A t \in Server : t # s => runs'[t].phase = "idle"
  BY <1>1 DEF Alone
<1>3. /\ Minted' = Minted
      /\ \A u : Live(u)' = Live(u)
      /\ \A u : Place(u)' = Place(u)
  BY ChainStays
<1>4. LockIsHeld'
  BY <1>1, <1>2 DEF LockIsHeld
<1>5. WalkIsPast'
  <2>1. \A u \in Unit : walk[u] \in Nat /\ attested[u] <= walk[u] /\ walk[u] <= Live(u)
    BY <1>0 DEF IndexerTypeOK, WalkIsPast
  <2>3. \A u \in Unit : attested'[u] <= walk[u]
    BY <1>0, WhatIsAttestedIsPast
  <2>4. \A u \in Unit : walk[u] <= Live(u)'
    BY <1>3, <2>1
  <2> QED BY <2>3, <2>4 DEF WalkIsPast
<1>6. WalkerReadsNext'
  <2>1. ASSUME NEW p \in passes', p.by \in Server
        PROVE  /\ runs'[p.by].phase = "wallets"
               /\ p.live # 0 /\ p.live >= walk[p.unit]
               /\ p.unit \in Minted /\ Place(p.unit) = runs'[p.by].at + 1
               /\ \A q \in passes' : q.by = p.by => q = p
    <3>1. p \in passes /\ runs[p.by].phase = "wallets"
      BY <1>0, <2>1 DEF WalkerReadsNext
    <3>2. p.by = s
      BY <2>1, <3>1 DEF Alone
    <3> QED BY <1>0, <1>1, <2>1, <3>1, <3>2 DEF WalkerReadsNext
  <2>2. walk' = walk /\ Minted' = Minted /\ \A u : Place(u)' = Place(u)
    BY <1>3
  <2> QED BY <2>1, <2>2 DEF WalkerReadsNext
<1>7. \A n : WillBeWalkedTo(n) => WalkedTo(n)'
  BY <1>3 DEF WillBeWalkedTo, WalkedTo, Shows
<1>8. \A n : WalkEndsBy(n) => WalkEndsBy(n)'
  BY <1>3 DEF WalkEndsBy
<1>9. WalkIsSound'
  BY <1>1, <1>2, <1>7, <1>8 DEF WalkIsSound, WalkedTo
<1>10. StampIsHonest'
  <2>1. ASSUME NEW u \in Unit, attested'[u] # 0, attested' = attested
        PROVE  Shows(u, attested[u])'
    <3>1. Shows(u, attested[u]) /\ attested[u] \in Nat /\ attested[u] <= walk[u]
      BY <1>0, <2>1 DEF StampIsHonest, Shows, IndexerTypeOK, WalkIsPast
    <3>2. \A k \in Nat : k <= walk[u] /\ Shows(u, k) => Shows(u, k)'
      BY DEF RowsGrow
    <3> QED BY <2>1, <3>1, <3>2 DEF Shows
  <2>2. ASSUME NEW u \in Unit, attested'[u] # 0, attested' = walk,
               WalkEndsBy(runs[s].at), WillBeWalkedTo(runs[s].at)
        PROVE  Shows(u, attested[u])'
    BY <2>2 DEF WalkEndsBy, WillBeWalkedTo, Shows
  <2> QED BY <2>1, <2>2 DEF StampIsHonest, Shows
<1> QED BY <1>4, <1>5, <1>6, <1>9, <1>10

LEMMA NobodyIsRead ==
  ASSUME WalkerReadsNext, NEW s \in Server, runs[s].phase # "wallets"
  PROVE  Walking(s) = {}
BY DEF WalkerReadsNext, Walking

\* The step of a run that is not walking afterwards.
LEMMA OffTheWalk ==
  ASSUME IndexerInvariant, NEW s \in Server, runs[s].phase # "idle" \/ LockFree,
         NEW r, Goes(s, r),
         r.phase \notin {"page", "wallets", "stamp walk"},
         r.phase # "idle" => lock' = s,
         UNCHANGED <<chain, reconcile, walk, attested>>, RowsGrow,
         passes' = passes \ Walking(s)
  PROVE  (LockIsHeld /\ WalkIsPast /\ WalkerReadsNext /\ WalkIsSound /\ StampIsHonest)'
<1>1. Alone(s)
  BY TheLockIsExclusive DEF IndexerInvariant
<1>2. WillBeWalkedTo(reconcile')
  <2>1. IndexerTypeOK /\ WalkedTo(reconcile) /\ walk' = walk /\ reconcile' = reconcile
    BY DEF IndexerInvariant, WalkIsSound
  <2>2. WillBeWalkedTo(reconcile)
    BY <2>1, WhatWasWalkedStays
  <2> QED BY <2>1, <2>2 DEF WillBeWalkedTo, Shows
<1>3. passes' \subseteq passes /\ \A p \in passes' : p.by # s
  BY DEF Walking
<1> QED BY <1>1, <1>2, <1>3, RunMoves

\* A run that is not walking goes on with something else.
LEMMA ElsewhereKeeps ==
  ASSUME IndexerInvariant, NEW s \in Server,
         runs[s].phase \notin {"idle", "page", "wallets", "stamp walk"},
         NEW r, Goes(s, r),
         r.phase \notin {"idle", "page", "wallets", "stamp walk"},
         UNCHANGED <<chain, lock, reconcile, passes, history>>, RowsGrow
  PROVE  (LockIsHeld /\ WalkIsPast /\ WalkerReadsNext /\ WalkIsSound /\ StampIsHonest)'
<1>1. lock = s /\ Walking(s) = {}
  BY NobodyIsRead DEF IndexerInvariant, LockIsHeld
<1>2. UNCHANGED <<chain, reconcile, walk, attested>> /\ lock' = s /\ passes' = passes \ Walking(s)
  BY <1>1 DEF history
<1> QED BY <1>2, OffTheWalk

\* While no run moves, rows that grow are enough.
LEMMA RunsRest ==
  ASSUME IndexerInvariant, UNCHANGED <<chain, lock, runs, reconcile, walk, attested>>, RowsGrow
  PROVE  (LockIsHeld /\ WalkIsPast /\ WalkIsSound /\ StampIsHonest)'
<1>0. IndexerTypeOK /\ LockIsHeld /\ WalkIsPast /\ WalkIsSound /\ StampIsHonest
  BY DEF IndexerInvariant
<1>1. (\A u : Live(u)' = Live(u)) /\ (\A u : Place(u)' = Place(u))
  BY ChainStays
<1>2. \A n : WalkedTo(n) => WalkedTo(n)'
  <2> SUFFICES ASSUME NEW n, WalkedTo(n) PROVE WalkedTo(n)'
    OBVIOUS
  <2>1. WillBeWalkedTo(n)
    BY <1>0, WhatWasWalkedStays
  <2> QED BY <1>1, <2>1 DEF WillBeWalkedTo, WalkedTo, Shows
<1>3. \A n : WalkEndsBy(n) => WalkEndsBy(n)'
  BY <1>1 DEF WalkEndsBy
<1>4. WalkIsSound'
  BY <1>0, <1>2, <1>3 DEF WalkIsSound, WalkedTo
<1>5. StampIsHonest'
  <2>1. ASSUME NEW u \in Unit, attested'[u] # 0 PROVE Shows(u, attested[u])'
    <3>1. Shows(u, attested[u]) /\ attested[u] \in Nat /\ attested[u] <= walk[u]
      BY <1>0, <2>1 DEF StampIsHonest, Shows, IndexerTypeOK, WalkIsPast
    <3>2. \A k \in Nat : k <= walk[u] /\ Shows(u, k) => Shows(u, k)'
      BY DEF RowsGrow
    <3> QED BY <2>1, <3>1, <3>2 DEF Shows
  <2> QED BY <2>1 DEF StampIsHonest, Shows
<1> QED BY <1>0, <1>1, <1>4, <1>5 DEF LockIsHeld, WalkIsPast

LEMMA RunStepKeeps ==
  ASSUME IndexerInvariant, NEW s \in Server, Step(s) \/ DeadlineReached(s) \/ Crash(s)
  PROVE  (LockIsHeld /\ WalkIsPast /\ WalkerReadsNext /\ WalkIsSound /\ StampIsHonest)'
<1> DEFINE run == runs[s]
<1>0. /\ run \in Run /\ run.at \in Nat /\ run.page \in Nat /\ run.last \in Nat
      /\ run.todo \in SUBSET Nat /\ PageSize \in Nat \ {0} /\ IndexerTypeOK
  BY RunFields DEF IndexerInvariant
<1>a. UNCHANGED <<rows, closed>> => RowsGrow
  BY SameRowsGrow
<1>b. run.phase # "idle" => Alone(s) /\ lock = s
  BY TheLockIsExclusive DEF IndexerInvariant, LockIsHeld
<1>c. ASSUME RowsGrow, walk' = walk, NEW n, WalkedTo(n) PROVE WillBeWalkedTo(n)
  BY <1>0, <1>c, WhatWasWalkedStays
<1>d. /\ WalkedTo(reconcile)
      /\ run.phase \in {"page", "wallets", "stamp walk"} => reconcile <= run.at /\ WalkedTo(run.at)
      /\ run.phase = "wallets" => run.last = run.page * PageSize \/ WalkEndsBy(run.last)
      /\ run.phase = "stamp walk" => WalkEndsBy(run.at)
  BY DEF IndexerInvariant, WalkIsSound
<1>e. \A n : WillBeWalkedTo(n) <=> \A u \in Unit : walk[u] # 0 /\ Place(u) <= n => Shows(u, walk[u])'
  BY DEF WillBeWalkedTo
<1>f. run.phase # "wallets" => Walking(s) = {}
  BY NobodyIsRead DEF IndexerInvariant
<1>1. CASE StartRun(s)
  <2> DEFINE r == [Idle EXCEPT !.phase = "list", !.newest = head]
  <2>1. run.phase = "idle" /\ LockFree /\ lock' = s /\ Goes(s, r)
    BY <1>1 DEF StartRun
  <2>2. r.phase = "list"
    BY DEF Idle
  <2>3. Walking(s) = {}
    BY <2>1, NobodyIsRead DEF IndexerInvariant
  <2>4. UNCHANGED <<chain, reconcile, walk, attested>> /\ passes' = passes \ Walking(s) /\ RowsGrow
    BY <1>a, <1>1, <2>3 DEF StartRun, db, cursors, history
  <2> HIDE DEF r
  <2> QED BY <2>1, <2>2, <2>4, OffTheWalk
<1>2. CASE ListPage(s)
  <2> DEFINE r == [run EXCEPT
          !.page = @ + 1,
          !.todo = @ \cup {i \in NewestFirst(run.page) : i > head},
          !.newest = IF run.page = 1 /\ NewestFirst(run.page) # {}
                     THEN Max(NewestFirst(run.page)) ELSE @,
          !.met = NewestFirst(run.page) = {} \/ (head # 0 /\ head \in NewestFirst(run.page))]
  <2>1. run.phase = "list"
    BY <1>2 DEF ListPage
  <2>2. r.phase \notin {"idle", "page", "wallets", "stamp walk"}
    BY <1>0, <2>1 DEF Run
  <2>3. Goes(s, r)
    BY <1>2 DEF ListPage
  <2>4. RowsGrow
    BY <1>a, <1>2 DEF ListPage, db, history
  <2>5. UNCHANGED <<chain, lock, reconcile, passes, history>>
    BY <1>2 DEF ListPage, cursors
  <2> HIDE DEF r
  <2> QED BY <2>1, <2>2, <2>3, <2>4, <2>5, ElsewhereKeeps
<1>3. CASE Listed(s)
  <2> DEFINE r == [run EXCEPT !.phase = "persist"]
  <2>1. run.phase = "list"
    BY <1>3 DEF Listed
  <2>2. r.phase \notin {"idle", "page", "wallets", "stamp walk"}
    BY <1>0 DEF Run
  <2>3. Goes(s, r)
    BY <1>3 DEF Listed
  <2>4. RowsGrow
    BY <1>a, <1>3 DEF Listed, db, history
  <2>5. UNCHANGED <<chain, lock, reconcile, passes, history>>
    BY <1>3 DEF Listed, cursors
  <2> HIDE DEF r
  <2> QED BY <2>1, <2>2, <2>3, <2>4, <2>5, ElsewhereKeeps
<1>4. CASE PersistEntry(s)
  <2> DEFINE r == [run EXCEPT !.todo = @ \ {Min(@)}]
  <2>1. run.phase = "persist"
    BY <1>4 DEF PersistEntry
  <2>2. r.phase \notin {"idle", "page", "wallets", "stamp walk"}
    BY <1>0, <2>1 DEF Run
  <2>3. Goes(s, r)
    BY <1>4 DEF PersistEntry
  <2>4. RowsGrow
    BY <1>0, <1>4, PersistKeeps DEF PersistEntry, history
  <2>5. UNCHANGED <<chain, lock, reconcile, passes, history>>
    BY <1>4 DEF PersistEntry, cursors
  <2> HIDE DEF r
  <2> QED BY <2>1, <2>2, <2>3, <2>4, <2>5, ElsewhereKeeps
<1>5. CASE Persisted(s)
  <2> DEFINE r == [run EXCEPT !.phase = IF LeavesGap(run) THEN "rearm" ELSE "stamp head"]
  <2>1. run.phase = "persist"
    BY <1>5 DEF Persisted
  <2>2. r.phase \notin {"idle", "page", "wallets", "stamp walk"}
    BY <1>0 DEF Run
  <2>3. Goes(s, r)
    BY <1>5 DEF Persisted
  <2>4. RowsGrow
    BY <1>a, <1>5 DEF Persisted, db, history
  <2>5. UNCHANGED <<chain, lock, reconcile, passes, history>>
    BY <1>5 DEF Persisted, cursors
  <2> HIDE DEF r
  <2> QED BY <2>1, <2>2, <2>3, <2>4, <2>5, ElsewhereKeeps
<1>6. CASE RearmBackfill(s)
  <2> DEFINE r == [run EXCEPT !.phase = "stamp head"]
  <2>1. run.phase = "rearm"
    BY <1>6 DEF RearmBackfill
  <2>2. r.phase \notin {"idle", "page", "wallets", "stamp walk"}
    BY <1>0 DEF Run
  <2>3. Goes(s, r)
    BY <1>6 DEF RearmBackfill
  <2>4. RowsGrow
    BY <1>a, <1>6 DEF RearmBackfill, db, history
  <2>5. UNCHANGED <<chain, lock, reconcile, passes, history>>
    BY <1>6 DEF RearmBackfill, cursors
  <2> HIDE DEF r
  <2> QED BY <2>1, <2>2, <2>3, <2>4, <2>5, ElsewhereKeeps
<1>15. CASE ReadOldestPage(s)
  <2>1. run.phase = "read" /\ RowsGrow /\ UNCHANGED <<chain, lock, reconcile, passes, history>>
    BY <1>a, <1>15 DEF ReadOldestPage, db, cursors, history
  <2>2. PICK r : /\ Goes(s, r)
                 /\ \/ r = [run EXCEPT !.phase = "stamp history", !.page = NextPage(@), !.met = TRUE]
                    \/ r = [run EXCEPT !.phase = "store", !.todo = OldestFirst(run.page)]
    BY <1>15 DEF ReadOldestPage
  <2>3. r.phase \in {"stamp history", "store"}
    BY <1>0, <2>2 DEF Run
  <2> QED BY <2>1, <2>2, <2>3, ElsewhereKeeps
<1>14. CASE BackfillDone(s)
  <2>1. run.phase = "read" /\ Goes(s, Idle) /\ Idle.phase = "idle"
    BY <1>14 DEF BackfillDone, EndRun, Idle
  <2>2. Walking(s) = {}
    BY <2>1, NobodyIsRead DEF IndexerInvariant
  <2>3. UNCHANGED <<chain, reconcile, walk, attested>> /\ passes' = passes \ Walking(s) /\ RowsGrow
    BY <1>a, <1>14, <2>2 DEF BackfillDone, db, cursors, history
  <2> QED BY <2>1, <2>3, OffTheWalk
<1>16. CASE StoreEntry(s)
  <2> DEFINE r == [run EXCEPT !.todo = @ \ {Min(@)}]
  <2>1. run.phase = "store"
    BY <1>16 DEF StoreEntry
  <2>2. r.phase \notin {"idle", "page", "wallets", "stamp walk"}
    BY <1>0, <2>1 DEF Run
  <2>3. Goes(s, r)
    BY <1>16 DEF StoreEntry
  <2>4. RowsGrow
    BY <1>0, <1>16, PersistKeeps DEF StoreEntry, history
  <2>5. UNCHANGED <<chain, lock, reconcile, passes, history>>
    BY <1>16 DEF StoreEntry, cursors
  <2> HIDE DEF r
  <2> QED BY <2>1, <2>2, <2>3, <2>4, <2>5, ElsewhereKeeps
<1>17. CASE OldestPageDone(s)
  <2> DEFINE r == [run EXCEPT !.phase = "read", !.page = @ + 1, !.met = FALSE]
  <2>1. run.phase = "store"
    BY <1>17 DEF OldestPageDone
  <2>2. r.phase \notin {"idle", "page", "wallets", "stamp walk"}
    BY <1>0 DEF Run
  <2>3. Goes(s, r)
    BY <1>17 DEF OldestPageDone
  <2>4. RowsGrow
    BY <1>a, <1>17 DEF OldestPageDone, db, history
  <2>5. UNCHANGED <<chain, lock, reconcile, passes, history>>
    BY <1>17 DEF OldestPageDone, cursors
  <2> HIDE DEF r
  <2> QED BY <2>1, <2>2, <2>3, <2>4, <2>5, ElsewhereKeeps
<1>18. CASE StopBackfill(s)
  <2> DEFINE r == [run EXCEPT !.phase = "stamp history", !.met = FALSE]
  <2>1. run.phase \in {"read", "store"}
    BY <1>18 DEF StopBackfill
  <2>2. r.phase \notin {"idle", "page", "wallets", "stamp walk"}
    BY <1>0 DEF Run
  <2>3. Goes(s, r)
    BY <1>18 DEF StopBackfill
  <2>4. RowsGrow
    BY <1>a, <1>18 DEF StopBackfill, db, history
  <2>5. UNCHANGED <<chain, lock, reconcile, passes, history>>
    BY <1>18 DEF StopBackfill, cursors
  <2> HIDE DEF r
  <2> QED BY <2>1, <2>2, <2>3, <2>4, <2>5, ElsewhereKeeps
<1>19. CASE StampHistory(s)
  <2>1. run.phase = "stamp history" /\ Goes(s, Idle) /\ Idle.phase = "idle"
    BY <1>19 DEF StampHistory, EndRun, Idle
  <2>2. Walking(s) = {}
    BY <2>1, NobodyIsRead DEF IndexerInvariant
  <2>3. UNCHANGED <<chain, reconcile, walk, attested>> /\ passes' = passes \ Walking(s) /\ RowsGrow
    BY <1>a, <1>19, <2>2 DEF StampHistory, db, cursors, history
  <2> QED BY <2>1, <2>3, OffTheWalk
<1>21. CASE Crash(s)
  <2>1. run.phase # "idle" /\ Goes(s, Idle) /\ Idle.phase = "idle"
    BY <1>21 DEF Crash, EndRun, Idle
  <2>2. UNCHANGED <<chain, reconcile, walk, attested>> /\ passes' = passes \ Walking(s) /\ RowsGrow
    BY <1>a, <1>21 DEF Crash, db, cursors, history
  <2> QED BY <2>1, <2>2, OffTheWalk
<1>7. CASE StampHead(s)
  <2> DEFINE r == [run EXCEPT !.phase = "page", !.at = reconcile]
  <2>1. run.phase = "stamp head" /\ Goes(s, r) /\ UNCHANGED <<chain, walk, reconcile, lock, passes, attested>>
    BY <1>7 DEF StampHead, history
  <2>2. r.phase = "page" /\ r.at = reconcile
    BY <1>0 DEF Run
  <2>3. RowsGrow
    BY <1>a, <1>7 DEF StampHead, db, history
  <2>4. WillBeWalkedTo(reconcile) /\ reconcile \in Nat
    BY <1>0, <1>c, <1>d, <2>1, <2>3 DEF IndexerTypeOK
  <2> HIDE DEF r
  <2>a. reconcile <= reconcile
    BY <2>4
  <2>5. WillBeWalkedTo(reconcile') /\ reconcile' <= r.at /\ WillBeWalkedTo(r.at)
    BY <2>1, <2>2, <2>4, <2>a DEF WillBeWalkedTo
  <2>6. passes' \subseteq passes /\ \A p \in passes' : p.by # s
    BY <1>f, <2>1 DEF Walking
  <2> QED BY <1>b, <2>1, <2>2, <2>3, <2>5, <2>6, RunMoves
<1>10. CASE StoreWallet(s)
  <2> DEFINE r == [run EXCEPT !.at = @ + 1]
  <2>1. run.phase = "wallets" /\ Goes(s, r) /\ UNCHANGED <<chain, walk, reconcile, lock, attested>>
    BY <1>10 DEF StoreWallet, cursors
  <2>2. r.phase = "wallets" /\ r.at = run.at + 1 /\ r.last = run.last /\ r.page = run.page
    BY <1>0, <2>1 DEF Run
  <2>3. PICK p \in Walking(s) : rows' = Written(p) /\ passes' = passes \ {p} /\ closed' = closed \ {p.unit}
    BY <1>10 DEF StoreWallet
  <2>4. p \in passes /\ p \in Pass /\ p.by = s /\ p.unit \in Unit /\ p.live \in Nat
    BY <1>0 DEF Walking, IndexerTypeOK, Pass
  <2>5. /\ p.live # 0 /\ p.live >= walk[p.unit] /\ p.unit \in Minted /\ Place(p.unit) = run.at + 1
        /\ \A q \in passes : q.by = s => q = p
    BY <2>4 DEF IndexerInvariant, WalkerReadsNext
  <2>6. /\ \A v \in Unit : v # p.unit => rows'[v] = rows[v]
        /\ rows'[p.unit] # None /\ rows'[p.unit].current >= p.live /\ rows'[p.unit].current \in Nat
    BY <1>0, <2>3, <2>4, <2>5, WrittenFacts DEF Row
  <2>7. \A k \in Nat : k <= walk[p.unit] => Shows(p.unit, k)'
    <3>1. walk[p.unit] \in Nat
      BY <1>0, <2>4 DEF IndexerTypeOK
    <3> QED BY <2>4, <2>5, <2>6, <3>1 DEF Shows
  <2>8. RowsGrow
    <3> SUFFICES ASSUME NEW u \in Unit, NEW k \in Nat, k <= walk[u], Shows(u, k)
                 PROVE  Shows(u, k)'
      BY DEF RowsGrow
    <3> QED BY <2>3, <2>6, <2>7 DEF Shows
  <2>9. WillBeWalkedTo(run.at + 1)
    <3> SUFFICES ASSUME NEW u \in Unit, walk[u] # 0, Place(u) <= run.at + 1
                 PROVE  Shows(u, walk[u])'
      BY <1>e
    <3>1. u \in Minted /\ Place(u) \in Nat /\ walk[u] \in Nat /\ ChainOK
      BY <1>0, WalkedArePlaced DEF IndexerInvariant, IndexerTypeOK
    <3>2. CASE Place(u) = run.at + 1
      <4>1. u = p.unit
        BY <2>5, <3>1, <3>2, PlacesDiffer
      <4>2. \A k \in Nat : k <= walk[u] => Shows(u, k)'
        BY <2>7, <4>1
      <4>3. walk'[u] = walk[u] /\ walk[u] <= walk[u]
        BY <2>1, <3>1
      <4> QED BY <3>1, <4>2, <4>3 DEF Shows
    <3>3. CASE Place(u) <= run.at
      <4>1. WillBeWalkedTo(run.at)
        BY <1>c, <1>d, <2>1, <2>8
      <4> QED BY <1>e, <3>3, <4>1
    <3> QED BY <1>0, <3>1, <3>2, <3>3
  <2>10. WillBeWalkedTo(reconcile') /\ reconcile' <= r.at /\ WillBeWalkedTo(r.at)
    <3>1. WillBeWalkedTo(reconcile) /\ reconcile <= run.at /\ reconcile \in Nat
      BY <1>0, <1>c, <1>d, <2>1, <2>8 DEF IndexerTypeOK
    <3>2. reconcile <= run.at + 1
      BY <1>0, <3>1
    <3> QED BY <1>e, <2>1, <2>2, <2>9, <3>1, <3>2
  <2>11. passes' \subseteq passes /\ \A q \in passes' : q.by # s
    BY <2>3, <2>5
  <2> HIDE DEF r
  <2> QED BY <1>b, <1>d, <2>1, <2>2, <2>8, <2>10, <2>11, RunMoves
<1>11. CASE PageDone(s)
  <2> DEFINE r == [run EXCEPT !.phase = IF run.last = run.page * PageSize THEN "page" ELSE "stamp walk"]
  <2>1. /\ run.phase = "wallets" /\ Goes(s, r) /\ Walking(s) = {} /\ run.at >= run.last
        /\ UNCHANGED <<chain, walk, reconcile, lock, attested, passes>>
    BY <1>11 DEF PageDone, cursors, history
  <2>2. /\ r.phase \in {"page", "stamp walk"} /\ r.at = run.at
        /\ r.phase = "stamp walk" => run.last # run.page * PageSize
    BY <1>0 DEF Run
  <2>3. RowsGrow
    BY <1>a, <1>11 DEF PageDone, db, history
  <2>4. WillBeWalkedTo(reconcile) /\ WillBeWalkedTo(run.at) /\ reconcile <= run.at
    BY <1>c, <1>d, <2>1, <2>3
  <2>5. WillBeWalkedTo(reconcile') /\ reconcile' <= r.at /\ WillBeWalkedTo(r.at)
    BY <1>e, <2>1, <2>2, <2>4
  <2>6. r.phase = "stamp walk" => WalkEndsBy(r.at)
    <3> SUFFICES ASSUME r.phase = "stamp walk", NEW u \in Unit, walk[u] # 0
                 PROVE  Place(u) <= run.at
      BY <2>2 DEF WalkEndsBy
    <3>1. Place(u) \in Nat
      BY <1>0, WalkedArePlaced DEF IndexerInvariant
    <3>2. Place(u) <= run.last
      BY <1>d, <2>1, <2>2 DEF WalkEndsBy
    <3>3. run.at \in Nat /\ run.last \in Nat /\ run.last <= run.at
      BY <1>0, <2>1
    <3> QED BY <3>1, <3>2, <3>3, AtMostIsTransitive, Zenon
  <2>7. passes' \subseteq passes /\ \A q \in passes' : q.by # s
    BY <2>1 DEF Walking
  <2> HIDE DEF r
  <2> QED BY <1>b, <2>1, <2>2, <2>3, <2>5, <2>6, <2>7, RunMoves
<1>12. CASE StopWalk(s)
  <2> DEFINE r == [run EXCEPT !.phase = "read", !.page = backfill.page, !.todo = {},
                             !.late = IF @ = "half" THEN "no" ELSE @]
  <2>1. /\ run.phase \in {"page", "wallets"} /\ Goes(s, r) /\ Walking(s) = {} /\ reconcile' = run.at
        /\ UNCHANGED <<chain, walk, lock, attested, passes>>
    BY <1>12 DEF StopWalk, Progress, history
  <2>2. r.phase = "read"
    BY <1>0 DEF Run
  <2>3. RowsGrow
    BY <1>a, <1>12 DEF StopWalk, db, history
  <2>4. WillBeWalkedTo(run.at)
    BY <1>c, <1>d, <2>1, <2>3
  <2>5. WillBeWalkedTo(reconcile')
    BY <1>e, <2>1, <2>4
  <2>6. passes' \subseteq passes /\ \A q \in passes' : q.by # s
    BY <2>1 DEF Walking
  <2> HIDE DEF r
  <2> QED BY <1>b, <2>1, <2>2, <2>3, <2>5, <2>6, RunMoves
<1>13. CASE StampWalk(s)
  <2> DEFINE r == [run EXCEPT !.phase = "read", !.page = backfill.page, !.todo = {},
                             !.late = IF @ = "half" THEN "no" ELSE @]
  <2>1. /\ run.phase = "stamp walk" /\ Goes(s, r) /\ reconcile' = 0
        /\ attested' = walk /\ UNCHANGED <<chain, walk, lock, passes>>
    BY <1>13 DEF StampWalk, AfterWalk
  <2>2. r.phase = "read"
    BY <1>0 DEF Run
  <2>3. RowsGrow
    BY <1>a, <1>13 DEF StampWalk, db
  <2>4. WillBeWalkedTo(run.at) /\ WalkEndsBy(run.at)
    BY <1>c, <1>d, <2>1, <2>3
  <2>5. WillBeWalkedTo(0)
    <3> SUFFICES ASSUME NEW u \in Unit, walk[u] # 0, Place(u) <= 0
                 PROVE  FALSE
      BY <1>e
    <3> QED BY <1>0, WalkedArePlaced DEF IndexerInvariant
  <2>6. WillBeWalkedTo(reconcile')
    BY <1>e, <2>1, <2>5
  <2>7. passes' \subseteq passes /\ \A q \in passes' : q.by # s
    BY <1>f, <2>1 DEF Walking
  <2> HIDE DEF r
  <2> QED BY <1>b, <2>1, <2>2, <2>3, <2>4, <2>6, <2>7, RunMoves
<1>20. CASE DeadlineReached(s)
  <2>1. PICK late \in {"half", "all"} : Goes(s, [run EXCEPT !.late = late])
    BY <1>20 DEF DeadlineReached
  <2> DEFINE r == [run EXCEPT !.late = late]
  <2>2. /\ run.phase # "idle" /\ Goes(s, r)
        /\ UNCHANGED <<chain, walk, reconcile, lock, attested, passes>>
    BY <1>20, <2>1 DEF DeadlineReached, cursors, history
  <2>3. r.phase = run.phase /\ r.at = run.at /\ r.last = run.last /\ r.page = run.page
    BY <1>0 DEF Run
  <2>4. RowsGrow
    BY <1>a, <1>20 DEF DeadlineReached, db, history
  <2>5. WillBeWalkedTo(reconcile')
    BY <1>c, <1>d, <1>e, <2>2, <2>4
  <2>6. r.phase \in {"page", "wallets", "stamp walk"} => reconcile' <= r.at /\ WillBeWalkedTo(r.at)
    BY <1>c, <1>d, <1>e, <2>2, <2>3, <2>4
  <2>7. passes' \subseteq passes /\ \A q \in passes' : q.by = s => r.phase = "wallets" /\ r.at = run.at
    BY <1>f, <2>2, <2>3 DEF Walking
  <2>8. /\ r.phase = "wallets" => r.last = r.page * PageSize \/ WalkEndsBy(r.last)
        /\ r.phase = "stamp walk" => WalkEndsBy(r.at)
    BY <1>d, <2>3
  <2>9. Alone(s) /\ lock' = s
    BY <1>b, <2>2
  <2>10. UNCHANGED <<chain, walk>> /\ attested' = attested /\ Goes(s, r)
    BY <2>2
  <2> HIDE DEF r
  <2> QED BY <2>4, <2>5, <2>6, <2>7, <2>8, <2>9, <2>10, RunMoves
<1>8. CASE ReadCollectionPage(s)
  <2> DEFINE page == (run.at \div PageSize) + 1
             last == IF Cardinality(Minted) < page * PageSize THEN Cardinality(Minted)
                     ELSE page * PageSize
             r == [run EXCEPT !.phase = "wallets", !.page = page, !.last = last]
  <2>1. /\ run.phase = "page" /\ Goes(s, r)
        /\ walk' = IF run.at = 0 THEN [u \in Unit |-> Live(u)] ELSE walk
        /\ UNCHANGED <<chain, rows, reconcile, lock, passes, attested, closed>>
    BY <1>8 DEF ReadCollectionPage, db, cursors
  <2>2. /\ r.phase = "wallets" /\ r.at = run.at
        /\ r.last = r.page * PageSize \/ r.last = Cardinality(Minted)
    <3> HIDE DEF page
    <3> QED BY <1>0 DEF Run
  <2> HIDE DEF r
  <2>3. runs'[s] = r /\ \A t \in Server : t # s => runs'[t] = runs[t] /\ runs'[t].phase = "idle"
    BY <1>0, <1>b, <2>1, GoesWhere DEF Alone
  <2>4. Minted' = Minted /\ (\A u : Live(u)' = Live(u)) /\ (\A u : Place(u)' = Place(u))
    BY <2>1, ChainStays
  <2>5. \A p \in passes : p.by \notin Server
    <3> SUFFICES ASSUME NEW p \in passes, p.by \in Server PROVE FALSE
      OBVIOUS
    <3>1. runs[p.by].phase = "wallets"
      BY DEF IndexerInvariant, WalkerReadsNext
    <3> QED BY <1>b, <2>1, <3>1 DEF Alone
  <2>6. \A u \in Unit : /\ walk[u] \in Nat /\ attested[u] \in Nat /\ Live(u) \in Nat
                         /\ attested[u] <= walk[u] /\ walk[u] <= Live(u)
    BY <1>0, MovesFacts DEF IndexerInvariant, IndexerTypeOK, WalkIsPast
  <2>7. \A u \in Unit : attested[u] <= walk'[u] /\ walk'[u] <= Live(u) /\ walk'[u] \in Nat
    BY <2>1, <2>6
  <2>8. ASSUME NEW u \in Unit, walk'[u] # 0
        PROVE  /\ u \in Minted /\ Place(u) \in Nat \ {0} /\ Place(u) <= Cardinality(Minted)
    <3>1. Live(u) # 0 /\ ChainOK
      BY <1>0, <2>6, <2>7, <2>8 DEF IndexerTypeOK
    <3>2. u \in Minted
      BY <3>1, MovesFacts DEF Minted
    <3> QED BY <3>1, <3>2, PlaceFacts
  <2>9. LockIsHeld'
    BY <1>b, <2>1, <2>3 DEF LockIsHeld
  <2>10. WalkIsPast'
    BY <2>1, <2>4, <2>7 DEF WalkIsPast
  <2>11. WalkerReadsNext'
    BY <2>1, <2>5 DEF WalkerReadsNext
  <2>12. WalkedTo(run.at)'
    <3>1. CASE run.at = 0
      BY <2>3, <2>4, <2>8, <3>1, <2>2 DEF WalkedTo
    <3>2. CASE run.at # 0
      BY <1>d, <2>1, <2>2, <2>3, <2>4, <3>2 DEF WalkedTo, Shows
    <3> QED BY <3>1, <3>2
  <2>13. reconcile' <= run.at /\ reconcile' \in Nat /\ WalkedTo(reconcile)'
    <3>1. reconcile <= run.at /\ reconcile \in Nat /\ runs'[s].at = run.at
      BY <1>0, <1>d, <2>1, <2>2, <2>3 DEF IndexerTypeOK
    <3>2. ASSUME NEW u \in Unit, walk'[u] # 0, Place(u) <= reconcile PROVE Place(u) <= run.at
      BY <1>0, <2>8, <3>1, <3>2
    <3> QED BY <2>1, <2>4, <2>12, <3>1, <3>2 DEF WalkedTo
  <2>14. Cardinality(Minted) \in Nat /\ WalkEndsBy(Cardinality(Minted))'
    <3>1. Cardinality(Minted) \in Nat
      BY <1>0, MintedIsFinite DEF IndexerTypeOK
    <3> QED BY <2>4, <2>8, <3>1 DEF WalkEndsBy
  <2>15. r.last = r.page * PageSize \/ WalkEndsBy(runs[s].last)'
    BY <2>2, <2>3, <2>4, <2>14 DEF WalkEndsBy
  <2>16. WalkIsSound'
    BY <2>2, <2>3, <2>12, <2>13, <2>15 DEF WalkIsSound
  <2>17. StampIsHonest'
    BY <2>1 DEF IndexerInvariant, StampIsHonest
  <2> QED BY <2>9, <2>10, <2>11, <2>16, <2>17
<1>9. CASE FetchWallet(s)
  <2>1. /\ run.phase = "wallets" /\ Walking(s) = {}
        /\ UNCHANGED <<chain, lock, runs, reconcile, walk, attested, closed>>
    BY <1>9 DEF FetchWallet, cursors, history
  <2>2. PICK u \in Minted : /\ Place(u) = run.at + 1
                            /\ Fetch([by |-> s, unit |-> u, live |-> Live(u)])
    BY <1>9 DEF FetchWallet
  <2> DEFINE p == [by |-> s, unit |-> u, live |-> Live(u)]
  <2>3. u \in Unit /\ Live(u) \in Nat /\ Live(u) # 0 /\ walk[u] \in Nat /\ walk[u] <= Live(u)
    BY <1>0, MovesFacts DEF Minted, IndexerInvariant, IndexerTypeOK, WalkIsPast
  <2>4. p \in Pass /\ p.by = s /\ p.unit = u /\ p.live = Live(u)
    BY <2>3 DEF Pass
  <2>5. passes' = passes \cup {p} /\ Fetch(p)
    BY <2>2 DEF Fetch
  <2> HIDE DEF p
  <2>6. RowsGrow
    BY <1>0, <2>1, <2>4, <2>5, FetchKeeps
  <2>7. Minted' = Minted /\ \A v : Place(v)' = Place(v)
    BY <2>1, ChainStays
  <2>8. WalkerReadsNext'
    <3> SUFFICES ASSUME NEW q \in passes', q.by \in Server
                 PROVE  /\ runs[q.by].phase = "wallets"
                        /\ q.live # 0 /\ q.live >= walk[q.unit]
                        /\ q.unit \in Minted /\ Place(q.unit) = runs[q.by].at + 1
                        /\ \A o \in passes' : o.by = q.by => o = q
      BY <2>1, <2>7 DEF WalkerReadsNext
    <3>1. CASE q = p
      BY <2>1, <2>2, <2>3, <2>4, <2>5, <3>1 DEF Walking
    <3>2. CASE q \in passes
      BY <2>1, <2>4, <2>5, <3>2 DEF IndexerInvariant, WalkerReadsNext, Walking
    <3> QED BY <2>5, <3>1, <3>2
  <2> QED BY <2>1, <2>6, <2>8, RunsRest
<1> QED BY <1>1, <1>2, <1>3, <1>4, <1>5, <1>6, <1>7, <1>8, <1>9, <1>10, <1>11, <1>12, <1>13,
           <1>14, <1>15, <1>16, <1>17, <1>18, <1>19, <1>20, <1>21 DEF Step

-----------------------------------------------------------------------------
(* The chain and the requests. *)

LEMMA GrowKeeps ==
  ASSUME IndexerInvariant, NEW w \in Unit, Grow(w)
  PROVE  IndexerInvariant'
<1>0. /\ IndexerTypeOK /\ LockIsHeld /\ WalkIsPast /\ WalkerReadsNext /\ WalkIsSound
      /\ StampIsHonest /\ ChainOK
  BY DEF IndexerInvariant, IndexerTypeOK
<1>1. UNCHANGED <<rows, head, reconcile, backfill, lock, runs, passes, walk, attested, closed>>
  BY DEF Grow, db, cursors, history
<1>2. /\ ChainOK' /\ Minted \subseteq Minted'
      /\ \A u \in Unit : Live(u)' \in Nat /\ Live(u) <= Live(u)'
      /\ \A u \in Minted : Place(u)' = Place(u)
  BY <1>0, GrowFacts DEF Grow
<1>3. IndexerTypeOK'
  BY <1>0, <1>1, <1>2 DEF IndexerTypeOK
<1>4. LockIsHeld' /\ StampIsHonest'
  BY <1>0, <1>1 DEF LockIsHeld, StampIsHonest
<1>5. WalkIsPast'
  <2>1. \A u \in Unit : /\ attested[u] <= walk[u] /\ walk[u] <= Live(u)
                         /\ walk[u] \in Nat /\ Live(u) \in Nat
    BY <1>0, MovesFacts DEF WalkIsPast, IndexerTypeOK
  <2>2. \A u \in Unit : walk[u] <= Live(u)'
    BY <1>2, <2>1
  <2> QED BY <1>1, <2>1, <2>2 DEF WalkIsPast
<1>6. WalkerReadsNext'
  BY <1>0, <1>1, <1>2 DEF WalkerReadsNext
<1>7. \A u \in Unit : walk[u] # 0 => Place(u)' = Place(u)
  BY <1>0, <1>2, WalkedArePlaced
<1>8. \A n : (WalkedTo(n) => WalkedTo(n)') /\ (WalkEndsBy(n) => WalkEndsBy(n)')
  BY <1>1, <1>7 DEF WalkedTo, WalkEndsBy, Shows
<1>9. WalkIsSound'
  BY <1>0, <1>1, <1>8 DEF WalkIsSound, WalkedTo
<1> QED BY <1>3, <1>4, <1>5, <1>6, <1>9 DEF IndexerInvariant

LEMMA AskKeeps ==
  ASSUME IndexerInvariant, NEW u \in Unit, Ask(u)
  PROVE  IndexerInvariant'
<1> DEFINE p == [by |-> None, unit |-> u, live |-> Live(u)]
<1>0. IndexerTypeOK /\ WalkerReadsNext /\ ChainOK
  BY DEF IndexerInvariant, IndexerTypeOK
<1>1. UNCHANGED <<chain, head, backfill, reconcile, lock, runs, walk, attested, closed>> /\ Fetch(p)
  BY DEF Ask, cursors, history
<1>2. p \in Pass /\ p.by = None
  BY <1>0, MovesFacts DEF Pass
<1>3. passes' = passes \cup {p}
  BY <1>1 DEF Fetch
<1> HIDE DEF p
<1>4. rows' \in [Unit -> Row \cup {None}] /\ RowsGrow /\ passes' \subseteq Pass
  BY <1>0, <1>1, <1>2, FetchKeeps
<1>5. IndexerTypeOK'
  BY <1>0, <1>1, <1>4 DEF IndexerTypeOK, ChainOK
<1>6. Minted' = Minted /\ \A v : Place(v)' = Place(v)
  BY <1>1, ChainStays
<1>7. WalkerReadsNext'
  BY <1>0, <1>1, <1>2, <1>3, <1>6, NoneAssumption DEF WalkerReadsNext
<1> QED BY <1>1, <1>4, <1>5, <1>7, RunsRest DEF IndexerInvariant

LEMMA AnswerKeeps ==
  ASSUME IndexerInvariant, NEW p \in passes, Answer(p)
  PROVE  IndexerInvariant'
<1>0. IndexerTypeOK /\ WalkerReadsNext /\ p \in Pass
  BY DEF IndexerInvariant, IndexerTypeOK
<1>1. /\ UNCHANGED <<chain, head, backfill, reconcile, lock, runs, walk, attested>>
      /\ rows' = Written(p) /\ passes' = passes \ {p} /\ p.by = None
      /\ closed' = IF p.live = 0 THEN closed \cup {p.unit} ELSE closed
  BY DEF Answer, cursors
<1>2. rows' \in [Unit -> Row \cup {None}]
  BY <1>0, <1>1, WrittenFacts
<1>3. RowsGrow
  <2> SUFFICES ASSUME NEW u \in Unit, NEW k \in Nat, k <= walk[u], Shows(u, k)
               PROVE  Shows(u, k)'
    BY DEF RowsGrow
  <2>1. rows \in [Unit -> Row \cup {None}] /\ p.unit \in Unit
    BY <1>0 DEF IndexerTypeOK, Pass
  <2>2. CASE u # p.unit
    BY <1>0, <1>1, <2>2, WrittenFacts DEF Shows
  <2>3. CASE u = p.unit /\ p.live = 0
    BY <1>0, <1>1, <2>3, WrittenFacts DEF Shows
  <2>4. CASE u = p.unit /\ p.live # 0
    <3>1. rows[u] # None /\ rows[u].current \in Nat
      BY <2>1 DEF Shows, Row
    <3>2. rows'[u] # None /\ rows'[u].current >= rows[u].current /\ rows'[u].current \in Nat
      BY <1>0, <1>1, <1>2, <2>4, <3>1, WrittenFacts DEF Row
    <3> QED BY <1>1, <2>4, <3>1, <3>2 DEF Shows
  <2> QED BY <2>2, <2>3, <2>4
<1>4. IndexerTypeOK'
  BY <1>0, <1>1, <1>2 DEF IndexerTypeOK, ChainOK
<1>5. Minted' = Minted /\ \A v : Place(v)' = Place(v)
  BY <1>1, ChainStays
<1>6. WalkerReadsNext'
  BY <1>0, <1>1, <1>5 DEF WalkerReadsNext
<1> QED BY <1>1, <1>3, <1>4, <1>6, RunsRest DEF IndexerInvariant

-----------------------------------------------------------------------------
LEMMA IndexerStarts == Init => IndexerInvariant
<1> SUFFICES ASSUME Init PROVE IndexerInvariant
  OBVIOUS
<1>1. IndexerTypeOK
  BY GenesisAssumption, IdleIsRun DEF Init, IndexerTypeOK, ChainOK
<1>2. \A u \in Unit : Live(u) \in Nat
  BY <1>1, MovesFacts DEF IndexerTypeOK
<1>3. \A u \in Unit : attested[u] <= walk[u] /\ walk[u] <= Live(u)
  BY <1>2 DEF Init
<1>4. LockIsHeld /\ WalkIsPast /\ WalkerReadsNext /\ WalkIsSound /\ StampIsHonest
  BY <1>3, IdleIsRun
    DEF Init, LockIsHeld, WalkIsPast, WalkerReadsNext, WalkIsSound, WalkedTo, StampIsHonest
<1> QED BY <1>1, <1>4 DEF IndexerInvariant

LEMMA IndexerKeeps == IndexerInvariant /\ [Next]_vars => IndexerInvariant'
<1> SUFFICES ASSUME IndexerInvariant, [Next]_vars PROVE IndexerInvariant'
  OBVIOUS
<1>1. CASE \E u \in Unit : Grow(u) \/ Ask(u)
  BY <1>1, GrowKeeps, AskKeeps
<1>2. CASE \E p \in passes : Answer(p)
  BY <1>2, AnswerKeeps
<1>3. CASE \E s \in Server : Step(s) \/ DeadlineReached(s) \/ Crash(s)
  <2>1. PICK s \in Server : Step(s) \/ DeadlineReached(s) \/ Crash(s)
    BY <1>3
  <2>2. IndexerTypeOK'
    BY <2>1, RunStepTypes DEF IndexerInvariant
  <2>3. (LockIsHeld /\ WalkIsPast /\ WalkerReadsNext /\ WalkIsSound /\ StampIsHonest)'
    BY <2>1, RunStepKeeps
  <2> QED BY <2>2, <2>3 DEF IndexerInvariant
<1>4. CASE UNCHANGED vars
  <2>1. UNCHANGED <<chain, rows, passes, head, backfill, reconcile, lock, runs, walk, attested, closed>>
    BY <1>4 DEF vars
  <2>2. RowsGrow /\ Minted' = Minted /\ \A u : Place(u)' = Place(u)
    BY <2>1, SameRowsGrow, ChainStays
  <2>3. IndexerTypeOK' /\ WalkerReadsNext'
    BY <2>1, <2>2 DEF IndexerInvariant, IndexerTypeOK, ChainOK, WalkerReadsNext
  <2> QED BY <2>1, <2>2, <2>3, RunsRest DEF IndexerInvariant
<1> QED BY <1>1, <1>2, <1>3, <1>4 DEF Next

-----------------------------------------------------------------------------
\* The stamp of a full walk is honest: no row is older than the chain was when the
\* walk began, whatever ran, died or was late in between (indexer.ts:383-385).
THEOREM StampsAreHonest == Spec => []StampIsHonest
<1>1. IndexerInvariant => StampIsHonest
  BY DEF IndexerInvariant
<1> QED BY <1>1, IndexerStarts, IndexerKeeps, PTL DEF Spec

LEMMA OnlyRequestsTakeAway ==
  ASSUME IndexerInvariant, [Next]_vars, NEW u \in Unit, rows[u] # None
  PROVE  rows'[u] # None /\ (rows'[u].current >= rows[u].current \/ FoundNothing(u))
<1>0. IndexerTypeOK /\ WalkerReadsNext /\ rows[u].current \in Nat
  BY DEF IndexerInvariant, IndexerTypeOK, Row
<1>1. ASSUME rows' = rows PROVE rows'[u] # None /\ rows'[u].current >= rows[u].current
  BY <1>0, <1>1
<1>2. ASSUME NEW v, NEW height \in Nat, rows' = WithSkeleton(v, height)
      PROVE  rows'[u] # None /\ rows'[u].current >= rows[u].current
  BY <1>0, <1>2, SkeletonFacts
<1>3. ASSUME NEW p \in Pass, Fetch(p)
      PROVE  rows'[u] # None /\ rows'[u].current >= rows[u].current
  BY <1>1, <1>2, <1>3 DEF Fetch
<1>4. ASSUME NEW p \in passes, rows' = Written(p), p.by = None \/ p.live # 0
      PROVE  rows'[u] # None /\ (rows'[u].current >= rows[u].current \/ FoundNothing(u))
  <2>1. p \in Pass
    BY <1>0 DEF IndexerTypeOK
  <2>2. CASE p.unit # u
    BY <1>0, <1>4, <2>1, <2>2, WrittenFacts
  <2>3. CASE p.unit = u /\ p.live # 0
    BY <1>0, <1>4, <2>1, <2>3, WrittenFacts
  <2>4. CASE p.unit = u /\ p.live = 0
    <3>1. p = [by |-> None, unit |-> u, live |-> 0]
      BY <1>4, <2>1, <2>4 DEF Pass
    <3>2. rows'[u] # None
      BY <1>0, <1>4, <2>1, <2>4, WrittenFacts
    <3> QED BY <3>1, <3>2 DEF FoundNothing
  <2> QED BY <2>2, <2>3, <2>4
<1>5. ASSUME NEW T \in SUBSET Nat, T # {}, Persist(Min(T))
      PROVE  rows'[u] # None /\ rows'[u].current >= rows[u].current
  <2>1. Min(T) \in Nat
    BY <1>5, MinIsLeast
  <2> QED BY <1>2, <1>5, <2>1 DEF Persist
<1>6. CASE \E v \in Unit : Grow(v)
  BY <1>1, <1>6 DEF Grow, db
<1>7. CASE \E v \in Unit : Ask(v)
  <2>1. PICK v \in Unit : Fetch([by |-> None, unit |-> v, live |-> Live(v)])
    BY <1>7 DEF Ask
  <2>2. [by |-> None, unit |-> v, live |-> Live(v)] \in Pass
    BY <1>0, MovesFacts DEF Pass, IndexerTypeOK
  <2> QED BY <1>3, <2>1, <2>2
<1>8. CASE \E p \in passes : Answer(p)
  BY <1>4, <1>8 DEF Answer
<1>9. ASSUME NEW s \in Server, FetchWallet(s)
      PROVE  rows'[u] # None /\ rows'[u].current >= rows[u].current
  <2>1. PICK v \in Minted : Fetch([by |-> s, unit |-> v, live |-> Live(v)])
    BY <1>9 DEF FetchWallet
  <2>2. [by |-> s, unit |-> v, live |-> Live(v)] \in Pass
    BY <1>0, MovesFacts DEF Pass, IndexerTypeOK, Minted
  <2> QED BY <1>3, <2>1, <2>2
<1>10. ASSUME NEW s \in Server, StoreWallet(s)
       PROVE  rows'[u] # None /\ (rows'[u].current >= rows[u].current \/ FoundNothing(u))
  <2>1. PICK p \in Walking(s) : rows' = Written(p)
    BY <1>10 DEF StoreWallet
  <2>2. p \in passes /\ p.live # 0
    BY <1>0 DEF Walking, WalkerReadsNext
  <2> QED BY <1>4, <2>1, <2>2
<1>11. ASSUME NEW s \in Server, PersistEntry(s) \/ StoreEntry(s)
       PROVE  rows'[u] # None /\ rows'[u].current >= rows[u].current
  <2>1. runs[s].todo \in SUBSET Nat
    BY <1>0, RunFields
  <2> QED BY <1>5, <1>11, <2>1 DEF PersistEntry, StoreEntry
<1>12. ASSUME NEW s \in Server, Step(s) \/ DeadlineReached(s) \/ Crash(s)
       PROVE  \/ FetchWallet(s) \/ StoreWallet(s) \/ PersistEntry(s) \/ StoreEntry(s)
              \/ rows' = rows
  BY <1>12 DEF Step, StartRun, ListPage, Listed, Persisted, RearmBackfill, StampHead,
     ReadCollectionPage, PageDone, StopWalk, StampWalk, BackfillDone, ReadOldestPage,
     OldestPageDone, StopBackfill, StampHistory, DeadlineReached, Crash, db
<1>13. CASE \E s \in Server : Step(s) \/ DeadlineReached(s) \/ Crash(s)
  BY <1>1, <1>9, <1>10, <1>11, <1>12, <1>13
<1>14. CASE UNCHANGED vars
  BY <1>1, <1>14 DEF vars
<1> QED BY <1>6, <1>7, <1>8, <1>13, <1>14 DEF Next

\* The state shown of a wallet never becomes an older one, whoever writes last; only a
\* request that found nothing takes it away (indexer-persistence.ts:161-168).
THEOREM SnapshotsOnlyMoveForward == Spec => SnapshotsMoveForward
<1>1. IndexerInvariant /\ [Next]_vars
        => [\A u \in Unit : rows[u] # None =>
              rows'[u] # None /\ (rows'[u].current >= rows[u].current \/ FoundNothing(u))]_vars
  BY OnlyRequestsTakeAway
<1> QED BY <1>1, IndexerStarts, IndexerKeeps, PTL DEF Spec, SnapshotsMoveForward
=============================================================================
