-------------------------- MODULE SttThreadProofs -----------------------------
(***************************************************************************)
(* Proofs about the state thread, for every choice of its constants: the   *)
(* arithmetic of streams, type correctness, the safety properties, what a  *)
(* history shows (no user draws more than a day's budget within a day, and *)
(* others hold up the last beneficiary only so often), that the            *)
(* transactions the dApp builds are the ones the contract accepts, and     *)
(* that its walks along lists of streams accept what it says of tables.    *)
(***************************************************************************)
EXTENDS AllowanceVelocity, RecoveryDelay, TransactionBuilders, StreamLists, Sums

-----------------------------------------------------------------------------
(* Streaming payments: accrual and schedules. *)

\* Floored division by a day is an integer and keeps the order.
LEMMA DivisionFacts ==
  ASSUME NEW m \in Int, NEW n \in Int
  PROVE  /\ m \div Day \in Int
         /\ m <= n => m \div Day <= n \div Day
         /\ 0 <= m => 0 <= m \div Day
BY DayAssumption, SMT

LEMMA ProductIsMonotone ==
  ASSUME NEW m \in Int, NEW n \in Int, NEW rate \in Nat, m <= n
  PROVE  m * rate <= n * rate
BY SMT

\* A longer elapsed time never pays less.
LEMMA PayoutIsMonotone ==
  ASSUME NEW m \in Int, NEW n \in Int, NEW rate \in Nat
  PROVE  /\ PayoutForElapsed(m, rate) \in Int
         /\ m <= n => PayoutForElapsed(m, rate) <= PayoutForElapsed(n, rate)
<1>1. m * rate \in Int /\ n * rate \in Int
  OBVIOUS
<1>2. m <= n => m * rate <= n * rate
  BY ProductIsMonotone
<1> QED
  BY <1>1, <1>2, DivisionFacts DEF PayoutForElapsed

\* The parts of a stream the arithmetic reads.
IsSchedule(stream) ==
  /\ stream.start \in Int /\ stream.end \in Int /\ stream.paid \in Int
  /\ stream.rate \in Nat

\* What a stream has accrued is an integer, at most its lifetime total.
LEMMA AccrualFacts ==
  ASSUME NEW stream, IsSchedule(stream), NEW time \in Int
  PROVE  /\ AccruedAt(stream, time) \in Int
         /\ LifetimeTotal(stream) \in Int
         /\ AccruedAt(stream, time) <= LifetimeTotal(stream)
         /\ Entitlement(stream, time) \in Int
         /\ 0 <= Entitlement(stream, time)
<1>1. Smaller(time, stream.end) \in Int /\ Smaller(time, stream.end) <= stream.end
  BY DEF Smaller, IsSchedule
<1>2. /\ Smaller(time, stream.end) - stream.start \in Int
      /\ stream.end - stream.start \in Int
      /\ Smaller(time, stream.end) - stream.start <= stream.end - stream.start
  BY <1>1 DEF IsSchedule
<1>3. /\ AccruedAt(stream, time) \in Int
      /\ LifetimeTotal(stream) \in Int
      /\ AccruedAt(stream, time) <= LifetimeTotal(stream)
  BY <1>2, PayoutIsMonotone DEF AccruedAt, LifetimeTotal, IsSchedule
<1> QED
  BY <1>3 DEF Entitlement, Larger

\* Two schedules with the same start and rate: the one that has run longer
\* entitles its payee to at least as much.
LEMMA EntitlementIsMonotone ==
  ASSUME NEW stream, IsSchedule(stream), NEW other, IsSchedule(other),
         other.start = stream.start, other.rate = stream.rate,
         NEW time \in Int, NEW later \in Int,
         Smaller(time, stream.end) <= Smaller(later, other.end)
  PROVE  Entitlement(stream, time) <= Entitlement(other, later)
<1>1. /\ Smaller(time, stream.end) - stream.start \in Int
      /\ Smaller(later, other.end) - other.start \in Int
      /\ Smaller(time, stream.end) - stream.start <= Smaller(later, other.end) - other.start
  BY DEF Smaller, IsSchedule
<1>2. AccruedAt(stream, time) <= AccruedAt(other, later)
  BY <1>1, PayoutIsMonotone DEF AccruedAt, IsSchedule
<1> QED
  BY <1>2, AccrualFacts DEF Entitlement, Larger

\* A schedule of no or negative length entitles to nothing.
LEMMA EmptyScheduleOwesNothing ==
  ASSUME NEW stream, IsSchedule(stream), stream.end <= stream.start, NEW time \in Int
  PROVE  Entitlement(stream, time) = 0
<1>1. /\ Smaller(time, stream.end) - stream.start \in Int
      /\ Smaller(time, stream.end) - stream.start <= 0
  BY DEF Smaller, IsSchedule
<1>2. PayoutForElapsed(0, stream.rate) = 0
  <2>1. 0 * stream.rate = 0
    BY DEF IsSchedule
  <2> QED
    BY <2>1, DayAssumption DEF PayoutForElapsed
<1>3. AccruedAt(stream, time) <= 0 /\ AccruedAt(stream, time) \in Int
  BY <1>1, <1>2, PayoutIsMonotone DEF AccruedAt, IsSchedule
<1> QED
  BY <1>3 DEF Entitlement, Larger

\* A schedule that does not end before it starts has a lifetime total of at least 0.
LEMMA LifetimeIsNatural ==
  ASSUME NEW stream, IsSchedule(stream), stream.start <= stream.end
  PROVE  0 <= LifetimeTotal(stream)
<1>1. (stream.end - stream.start) * stream.rate \in Nat
  <2>1. stream.end - stream.start \in Nat /\ stream.rate \in Nat
    BY DEF IsSchedule
  <2> QED
    BY <2>1
<1> QED
  BY <1>1, DivisionFacts DEF LifetimeTotal, PayoutForElapsed
-----------------------------------------------------------------------------
(* Tables. *)

\* Removing an entry leaves a table.
LEMMA WithoutIsTable ==
  ASSUME NEW ids, NEW records, NEW table, IsTable(table, ids, records), NEW id
  PROVE  /\ IsTable(Without(table, id), ids, records)
         /\ DOMAIN Without(table, id) = DOMAIN table \ {id}
         /\ \A r \in DOMAIN table \ {id} : Without(table, id)[r] = table[r]
BY DEF IsTable, Without, Restrict

\* Replacing one entry by another record leaves a table.
LEMMA ReplaceIsTable ==
  ASSUME NEW ids, NEW records, NEW table, IsTable(table, ids, records),
         NEW id \in DOMAIN table, NEW record \in records
  PROVE  IsTable([table EXCEPT ![id] = record], ids, records)
BY DEF IsTable

-----------------------------------------------------------------------------
(* Type correctness. *)

LEMMA TransactionFields ==
  ASSUME TypeOK, NEW tx \in Transaction
  PROVE  /\ now \in 0..MaxStateInteger
         /\ tx.lo # None => tx.lo \in 0..now
         /\ tx.hi # None => tx.hi \in now..MaxStateInteger
         /\ tx.signers \subseteq SigningKey
BY MaxTimeAssumption, MaxStateIntegerAssumption DEF TypeOK, Transaction

LEMMA RenewKeepsType ==
  ASSUME TypeOK, NEW tx \in Transaction, Renew(tx)
  PROVE  unlock' \in Int \cup {None}
BY ScheduleDateAssumption DEF TypeOK, Renew

LEMMA NonAdminCadenceKeepsType ==
  ASSUME TypeOK, NEW tx \in Transaction, NonAdminCadence(tx)
  PROVE  stamp' \in Int
BY TransactionFields DEF NonAdminCadence, FiniteRange

LEMMA StopStreamKeepsType ==
  ASSUME TypeOK, NEW tx \in Transaction, NEW s \in DOMAIN streams, NEW exact,
         StopStream(tx, s, exact)
  PROVE  TypeOK'
<1>1. PICK end \in Time : streams' = [streams EXCEPT ![s].end = end]
  BY DEF StopStream
<1>2. stamp' \in Int
  BY NonAdminCadenceKeepsType DEF StopStream
<1>3. [streams[s] EXCEPT !.end = end] \in StreamingPayment
  BY MaxStateIntegerAssumption DEF TypeOK, IsTable, StreamingPayment, Time
<1>4. IsTable(streams', StreamId, StreamingPayment)
  BY <1>1, <1>3 DEF TypeOK, IsTable
<1> QED
  BY <1>2, <1>4 DEF TypeOK, StopStream, access, labels

LEMMA BeneficiaryCadenceKeepsType ==
  ASSUME TypeOK, NEW tx \in Transaction, NEW b, BeneficiaryCadence(tx, b)
  PROVE  stamp' \in Int \cup {None}
BY NonAdminCadenceKeepsType DEF BeneficiaryCadence, TypeOK

LEMMA OperateKeepsType ==
  ASSUME TypeOK, NEW tx \in Transaction, Operate(tx)
  PROVE  TypeOK'
<1>1. CASE OperatorUse(tx)
  BY <1>1, RenewKeepsType DEF OperatorUse, TypeOK, access, labels
<1>2. CASE UpdateState(tx)
  BY <1>2, ConfigurationsAssumption DEF UpdateState, TypeOK
<1>3. CASE ManageStreamingPayments(tx)
  <2>1. PICK added \in SUBSET (StreamId \ DOMAIN streams) :
          \E fresh \in [added -> StreamRecord], end \in [DOMAIN streams -> EndDate] :
            Rescheduled(tx, added, fresh, end)
    BY <1>3 DEF ManageStreamingPayments
  <2>2. PICK fresh \in [added -> StreamRecord], end \in [DOMAIN streams -> EndDate] :
          Rescheduled(tx, added, fresh, end)
    BY <2>1
  <2>3. \A s \in DOMAIN streams : end[s] \in Int
    BY ScheduleDateAssumption DEF TypeOK, IsTable, StreamingPayment, EndDate
  <2>4. \A s \in DOMAIN streams : [streams[s] EXCEPT !.end = end[s]] \in StreamingPayment
    BY <2>3 DEF TypeOK, IsTable, StreamingPayment
  <2>5. \A s \in added : fresh[s] \in StreamingPayment
    BY StreamsAssumption
  <2>6. IsTable(streams', StreamId, StreamingPayment)
    BY <2>2, <2>4, <2>5 DEF TypeOK, IsTable, Rescheduled
  <2> QED
    BY <1>3, <2>6, RenewKeepsType DEF ManageStreamingPayments, TypeOK, access, labels
<1>4. CASE RemoveAccessIndex(tx)
  <2>1. /\ \A u \in DOMAIN users : IsTable(Without(users, u), UserId, User)
        /\ \A b \in DOMAIN beneficiaries :
             IsTable(Without(beneficiaries, b), BeneficiaryId, Beneficiary)
    BY WithoutIsTable DEF TypeOK
  <2>2. IsTable(users', UserId, User) /\ IsTable(beneficiaries', BeneficiaryId, Beneficiary)
    BY <1>4, <2>1 DEF RemoveAccessIndex, AccessIndexRemoved, TypeOK
  <2> QED
    BY <1>4, <2>2 DEF RemoveAccessIndex, TypeOK, labels
<1>5. CASE SetIntendedStakeCredential(tx)
  BY <1>5 DEF SetIntendedStakeCredential, TypeOK, access
<1> QED
  BY <1>1, <1>2, <1>3, <1>4, <1>5 DEF Operate

LEMMA DrawKeepsType ==
  ASSUME TypeOK, NEW tx \in Transaction, FiniteRange(tx), NEW u \in DOMAIN users,
         NEW left \in [Asset -> 0..MaxStateInteger], DrawAllowance(tx, u, left)
  PROVE  IsTable(users', UserId, User)
<1>1. NextReset(u, tx.hi) \in Int
  BY TransactionFields, DayAssumption
  DEF NextReset, Larger, FiniteRange, TypeOK, IsTable, User
<1>2. left \in [Asset -> Int]
  BY MaxStateIntegerAssumption
<1>3. [users[u] EXCEPT !.remaining = left, !.reset = NextReset(u, tx.hi)] \in User
  BY <1>1, <1>2 DEF TypeOK, IsTable, User
<1>4. users' = [users EXCEPT ![u] = [users[u] EXCEPT !.remaining = left,
                                                     !.reset = NextReset(u, tx.hi)]]
  BY DEF DrawAllowance, TypeOK, IsTable, User
<1> QED
  BY <1>3, <1>4, ReplaceIsTable DEF TypeOK

LEMMA RecoverKeepsType ==
  ASSUME TypeOK, NEW tx \in Transaction, Recover(tx)
  PROVE  TypeOK'
<1>1. CASE \E b \in DOMAIN beneficiaries : UseBeneficiary(tx, b)
  <2>1. PICK b \in DOMAIN beneficiaries : UseBeneficiary(tx, b)
    BY <1>1
  <2>2. IsTable(Without(beneficiaries, b), BeneficiaryId, Beneficiary)
    BY WithoutIsTable DEF TypeOK
  <2>3. IsTable(beneficiaries', BeneficiaryId, Beneficiary)
    BY <2>1, <2>2 DEF UseBeneficiary, TypeOK
  <2>4. stamp' \in Int \cup {None}
    BY <2>1, BeneficiaryCadenceKeepsType DEF UseBeneficiary
  <2> QED
    BY <2>1, <2>3, <2>4 DEF UseBeneficiary, TypeOK, labels
<1>2. CASE \E b \in DOMAIN beneficiaries : DistributeBeneficiaries(tx, b)
  BY <1>2, BeneficiaryCadenceKeepsType DEF DistributeBeneficiaries, TypeOK, access, labels
<1>3. CASE \E b \in DOMAIN beneficiaries, s \in DOMAIN streams : StopBeneficiaryStream(tx, b, s)
  BY <1>3, StopStreamKeepsType DEF StopBeneficiaryStream
<1> QED
  BY <1>1, <1>2, <1>3 DEF Recover

LEMMA SettleKeepsType ==
  ASSUME TypeOK, NEW tx \in Transaction, Settle(tx)
  PROVE  TypeOK'
<1>1. CASE \E s \in DOMAIN streams : CancelStreamingPayment(tx, s)
  BY <1>1, StopStreamKeepsType DEF CancelStreamingPayment
<1>2. CASE PayStreamingPayment(tx)
  <2>1. PICK kept \in SUBSET DOMAIN streams :
          \E paid \in [kept -> 0..MaxStateInteger] : Settled(tx, kept, paid)
    BY <1>2 DEF PayStreamingPayment
  <2>2. PICK paid \in [kept -> 0..MaxStateInteger] : Settled(tx, kept, paid)
    BY <2>1
  <2>3. \A s \in kept : [streams[s] EXCEPT !.paid = paid[s]] \in StreamingPayment
    BY MaxStateIntegerAssumption DEF TypeOK, IsTable, StreamingPayment
  <2>4. IsTable(streams', StreamId, StreamingPayment)
    BY <2>2, <2>3 DEF TypeOK, IsTable, Settled
  <2>5. stamp' \in Int \cup {None}
    BY <1>2, NonAdminCadenceKeepsType DEF PayStreamingPayment, CrankIsAuthorized, TypeOK
  <2> QED
    BY <1>2, <2>4, <2>5 DEF PayStreamingPayment, TypeOK, access, labels
<1>3. CASE Consolidate(tx)
  BY <1>3 DEF Consolidate, TypeOK, vars
<1> QED
  BY <1>1, <1>2, <1>3 DEF Settle

LEMMA TypeStep ==
  ASSUME TypeOK, [Next]_vars
  PROVE  TypeOK'
<1>1. CASE Tick
  BY <1>1, MaxTimeAssumption DEF Tick, TypeOK, access, labels
<1>2. ASSUME NEW tx \in Transaction, Operate(tx)
      PROVE  TypeOK'
  BY <1>2, OperateKeepsType
<1>3. ASSUME NEW tx \in Transaction, RenewProofOfLife(tx)
      PROVE  TypeOK'
  BY <1>3, RenewKeepsType DEF RenewProofOfLife, TypeOK, access, labels
<1>4. ASSUME NEW tx \in Transaction, UseAllowance(tx)
      PROVE  TypeOK'
  BY <1>4, DrawKeepsType, RenewKeepsType DEF UseAllowance, SignedUsers, TypeOK, labels
<1>5. ASSUME NEW tx \in Transaction, Recover(tx)
      PROVE  TypeOK'
  BY <1>5, RecoverKeepsType
<1>6. ASSUME NEW tx \in Transaction, Settle(tx)
      PROVE  TypeOK'
  BY <1>6, SettleKeepsType
<1>7. CASE UNCHANGED vars
  BY <1>7 DEF vars, TypeOK
<1> QED
  BY <1>1, <1>2, <1>3, <1>4, <1>5, <1>6, <1>7 DEF Next, Accept

\* Every part of the State keeps its type under every action.
THEOREM TypeCorrect == Spec => []TypeOK
<1>1. Init => TypeOK
  BY ConfigurationsAssumption, StreamsAssumption, MaxTimeAssumption DEF Init, TypeOK
<1>2. TypeOK /\ [Next]_vars => TypeOK'
  BY TypeStep
<1> QED
  BY <1>1, <1>2, PTL DEF Spec
-----------------------------------------------------------------------------
(* The shared clock. *)

LEMMA CadenceFacts ==
  ASSUME TypeOK, NEW tx \in Transaction, NonAdminCadence(tx)
  PROVE  /\ stamp' \in 0..MaxStateInteger
         /\ now <= stamp' /\ stamp' <= now + MaxWindow
         /\ stamp # None => now >= stamp + Cooldown
<1>1. /\ tx.lo \in 0..now /\ tx.hi \in now..MaxStateInteger
      /\ now \in Int
  BY TransactionFields DEF NonAdminCadence, FiniteRange
<1>2. stamp # None => stamp \in Int
  BY DEF TypeOK
<1> QED
  BY <1>1, <1>2, MaxWindowAssumption, CooldownAssumption, MaxStateIntegerAssumption
  DEF NonAdminCadence

\* A transaction leaves the time alone, and the clock unless it keeps the cadence.
LEMMA AcceptKeepsTime ==
  ASSUME NEW tx \in Transaction, Accept(tx)
  PROVE  now' = now /\ (stamp' = stamp \/ NonAdminCadence(tx))
<1>1. CASE Operate(tx)
  BY <1>1 DEF Operate, OperatorUse, UpdateState, ManageStreamingPayments, RemoveAccessIndex,
     SetIntendedStakeCredential
<1>2. CASE RenewProofOfLife(tx) \/ UseAllowance(tx)
  BY <1>2 DEF RenewProofOfLife, UseAllowance
<1>3. CASE Recover(tx)
  BY <1>3 DEF Recover, UseBeneficiary, DistributeBeneficiaries, StopBeneficiaryStream,
     BeneficiaryCadence, StopStream
<1>4. CASE Settle(tx)
  BY <1>4 DEF Settle, CancelStreamingPayment, StopStream, PayStreamingPayment,
     CrankIsAuthorized, Consolidate, vars
<1> QED
  BY <1>1, <1>2, <1>3, <1>4 DEF Accept

LEMMA ClockStep ==
  ASSUME TypeOK, [Next]_vars
  PROVE  /\ ClockIsNear => ClockIsNear'
         /\ stamp' # stamp => stamp' >= now /\ (stamp # None => now >= stamp + Cooldown)
<1>1. CASE Tick
  BY <1>1, MaxTimeAssumption, MaxWindowAssumption, NoneAssumption
  DEF Tick, ClockIsNear, TypeOK
<1>2. ASSUME NEW tx \in Transaction, Accept(tx)
      PROVE  /\ ClockIsNear => ClockIsNear'
             /\ stamp' # stamp => stamp' >= now /\ (stamp # None => now >= stamp + Cooldown)
  BY <1>2, AcceptKeepsTime, CadenceFacts DEF ClockIsNear
<1>3. CASE UNCHANGED vars
  BY <1>3 DEF vars, ClockIsNear
<1> QED
  BY <1>1, <1>2, <1>3 DEF Next

\* The shared clock is never more than one window ahead of the real time.
THEOREM ClockStaysNear == Spec => []ClockIsNear
<1>1. Init => ClockIsNear
  BY DEF Init, ClockIsNear
<1>2. TypeOK /\ ClockIsNear /\ [Next]_vars => ClockIsNear'
  BY ClockStep
<1> QED
  BY <1>1, <1>2, TypeCorrect, PTL DEF Spec

\* Non-admin uses of the shared clock are a cooldown apart in real time.
THEOREM CadenceKept == Spec => CadenceIsKept
<1>1. TypeOK /\ [Next]_vars
        => [stamp' # stamp => stamp' >= now /\ (stamp # None => now >= stamp + Cooldown)]_vars
  BY ClockStep
<1> QED
  BY <1>1, TypeCorrect, PTL DEF Spec, CadenceIsKept

-----------------------------------------------------------------------------
(* Validity of the stored configuration. *)

LEMMA SmallerTable ==
  ASSUME NEW ids, IsFiniteSet(ids), NEW table, DOMAIN table \subseteq ids,
         NEW kept, kept \subseteq DOMAIN table
  PROVE  /\ Cardinality(DOMAIN table) \in Nat
         /\ Cardinality(kept) \in Nat
         /\ Cardinality(kept) <= Cardinality(DOMAIN table)
<1>1. IsFiniteSet(DOMAIN table)
  BY FS_Subset
<1> QED
  BY <1>1, FS_Subset, FS_CardinalityType

\* What an accepted transaction may do to the streams.
LEMMA AcceptOnStreams ==
  ASSUME NEW tx \in Transaction, Accept(tx)
  PROVE  \/ streams' = streams
         \/ ManageStreamingPayments(tx)
         \/ \E s \in DOMAIN streams, exact \in BOOLEAN : StopStream(tx, s, exact)
         \/ PayStreamingPayment(tx)
<1>1. CASE Operate(tx)
  BY <1>1 DEF Operate, OperatorUse, UpdateState, RemoveAccessIndex, SetIntendedStakeCredential
<1>2. CASE RenewProofOfLife(tx) \/ UseAllowance(tx)
  BY <1>2 DEF RenewProofOfLife, UseAllowance
<1>3. CASE Recover(tx)
  BY <1>3 DEF Recover, UseBeneficiary, DistributeBeneficiaries, StopBeneficiaryStream
<1>4. CASE Settle(tx)
  BY <1>4 DEF Settle, CancelStreamingPayment, FinalRecoveryIsActive, Consolidate, vars
<1> QED
  BY <1>1, <1>2, <1>3, <1>4 DEF Accept

LEMMA StreamsStayValid ==
  ASSUME TypeOK, StreamsAreValid(streams), NEW tx \in Transaction, Accept(tx)
  PROVE  StreamsAreValid(streams')
<1>1. CASE PayStreamingPayment(tx)
  <2>1. PICK kept \in SUBSET DOMAIN streams :
          \E paid \in [kept -> 0..MaxStateInteger] : Settled(tx, kept, paid)
    BY <1>1 DEF PayStreamingPayment
  <2>2. PICK paid \in [kept -> 0..MaxStateInteger] : Settled(tx, kept, paid)
    BY <2>1
  <2>3. streams' = [s \in kept |-> [streams[s] EXCEPT !.paid = paid[s]]]
    BY <2>2 DEF Settled
  <2>4. Cardinality(DOMAIN streams') <= MaxStreams
    <3>1. DOMAIN streams' = kept
      BY <2>3
    <3>2. /\ Cardinality(DOMAIN streams) \in Nat
          /\ Cardinality(kept) \in Nat
          /\ Cardinality(kept) <= Cardinality(DOMAIN streams)
      BY SmallerTable, IdAssumption DEF TypeOK, IsTable
    <3> QED
      BY <3>1, <3>2, MaxStreamsAssumption DEF StreamsAreValid
  <2>5. ASSUME NEW s \in kept
        PROVE  StreamIsShaped(streams'[s])
    <3>1. streams[s] \in StreamingPayment /\ StreamIsShaped(streams[s])
      BY DEF TypeOK, IsTable, StreamsAreValid
    <3>2. RetainedWith(streams[s], paid[s], tx.lo)
      BY <2>2 DEF Settled
    <3>3. /\ streams'[s].start = streams[s].start /\ streams'[s].end = streams[s].end
          /\ streams'[s].rate = streams[s].rate /\ streams'[s].paid = paid[s]
      BY <2>3, <3>1 DEF StreamingPayment
    <3>4. IsSchedule(streams[s])
      BY <3>1 DEF IsSchedule, StreamIsShaped, StreamingPayment, Bounded
    <3>5. LifetimeTotal(streams[s]) \in Int
      BY <3>4, AccrualFacts
    <3>6. LifetimeTotal(streams'[s]) = LifetimeTotal(streams[s])
      BY <3>3 DEF LifetimeTotal
    <3> QED
      BY <3>1, <3>2, <3>3, <3>5, <3>6 DEF RetainedWith, StillOwes, StreamIsShaped
  <2> QED
    BY <2>3, <2>4, <2>5 DEF StreamsAreValid
<1>2. CASE ManageStreamingPayments(tx)
  BY <1>2 DEF ManageStreamingPayments
<1>3. CASE \E s \in DOMAIN streams, exact \in BOOLEAN : StopStream(tx, s, exact)
  BY <1>3 DEF StopStream
<1> QED
  BY <1>1, <1>2, <1>3, AcceptOnStreams

\* Every rule that applies to a whole table applies to the table without an entry.
LEMMA FewerUsersAreValid ==
  ASSUME TypeOK, UsersAreValid(users), NEW u \in DOMAIN users
  PROVE  UsersAreValid(Without(users, u))
<1> DEFINE rest == Without(users, u)
<1>1. /\ DOMAIN rest = DOMAIN users \ {u}
      /\ \A v \in DOMAIN rest : rest[v] = users[v]
  BY DEF Without, Restrict
<1>2. Cardinality(DOMAIN rest) <= MaxUsers
  <2>1. /\ Cardinality(DOMAIN users) \in Nat
        /\ Cardinality(DOMAIN rest) \in Nat
        /\ Cardinality(DOMAIN rest) <= Cardinality(DOMAIN users)
    BY <1>1, SmallerTable, IdAssumption DEF TypeOK, IsTable
  <2> QED
    BY <2>1, MaxUsersAssumption DEF UsersAreValid
<1> HIDE DEF rest
<1>3. UsersAreValid(rest)
  BY <1>1, <1>2 DEF UsersAreValid
<1> QED
  BY <1>3 DEF rest

LEMMA FewerBeneficiariesAreValid ==
  ASSUME TypeOK, BeneficiariesAreValid(beneficiaries), NEW b \in DOMAIN beneficiaries
  PROVE  BeneficiariesAreValid(Without(beneficiaries, b))
<1> DEFINE rest == Without(beneficiaries, b)
<1>1. /\ DOMAIN rest = DOMAIN beneficiaries \ {b}
      /\ \A c \in DOMAIN rest : rest[c] = beneficiaries[c]
  BY DEF Without, Restrict
<1> HIDE DEF rest
<1>2. BeneficiariesAreValid(rest)
  BY <1>1 DEF BeneficiariesAreValid
<1> QED
  BY <1>2 DEF rest

\* A draw disturbs no wallet, no power and no bound.
LEMMA DrawKeepsAccess ==
  ASSUME TypeOK, AccessIsValid(users, threshold, beneficiaries, unlock),
         NEW tx \in Transaction, FiniteRange(tx), NEW u \in DOMAIN users,
         NEW left \in [Asset -> 0..MaxStateInteger], DrawAllowance(tx, u, left)
  PROVE  AccessIsValid(users', threshold, beneficiaries, unlock)
<1> DEFINE reset == NextReset(u, tx.hi)
<1>1. /\ DOMAIN users' = DOMAIN users
      /\ \A v \in DOMAIN users :
           /\ users'[v].wallets = users[v].wallets
           /\ users'[v].admin = users[v].admin
           /\ users'[v].power = users[v].power
           /\ users'[v].perDay = users[v].perDay
           /\ v # u => users'[v] = users[v]
      /\ users'[u].remaining = left
      /\ users'[u].reset = reset
      /\ Bounded(reset)
  BY DEF DrawAllowance, TypeOK, IsTable, User
<1> HIDE DEF reset
<1>2. /\ Power(users') = Power(users)
      /\ Signable(users') = Signable(users)
  BY <1>1 DEF Power, Signable
<1>3. HasReachableAccessPath(users', threshold, beneficiaries)
  BY <1>1, <1>2 DEF AccessIsValid, HasReachableAccessPath, MultisigThresholdIsMet, Signable
<1>4. \A v \in DOMAIN users' : \A a \in DOMAIN users'[v].remaining :
        Bounded(users'[v].remaining[a])
  <2> SUFFICES ASSUME NEW v \in DOMAIN users', NEW a \in DOMAIN users'[v].remaining
               PROVE  Bounded(users'[v].remaining[a])
    OBVIOUS
  <2>1. CASE v = u
    BY <1>1, <2>1, MaxStateIntegerAssumption DEF Bounded
  <2>2. CASE v # u
    BY <1>1, <2>2 DEF AccessIsValid, UsersAreValid
  <2> QED
    BY <2>1, <2>2
<1>5. UsersAreValid(users')
  BY <1>1, <1>4 DEF AccessIsValid, UsersAreValid
<1> QED
  BY <1>1, <1>3, <1>5 DEF AccessIsValid

\* Removing the entry of one user or one beneficiary is judged by reachability alone.
LEMMA RemovalKeepsAccess ==
  ASSUME TypeOK, AccessIsValid(users, threshold, beneficiaries, unlock),
         AccessIndexRemoved, HasReachableAccessPath(users', threshold, beneficiaries')
  PROVE  AccessIsValid(users', threshold, beneficiaries', unlock)
<1>1. /\ UsersAreValid(users') /\ BeneficiariesAreValid(beneficiaries')
      /\ DOMAIN users' \subseteq DOMAIN users
      /\ DOMAIN beneficiaries' \subseteq DOMAIN beneficiaries
  <2>1. CASE \E u \in DOMAIN users : users' = Without(users, u) /\ UNCHANGED beneficiaries
    BY <2>1, FewerUsersAreValid DEF AccessIsValid, Without, Restrict
  <2>2. CASE \E b \in DOMAIN beneficiaries :
               beneficiaries' = Without(beneficiaries, b) /\ UNCHANGED users
    BY <2>2, FewerBeneficiariesAreValid DEF AccessIsValid, Without, Restrict
  <2> QED
    BY <2>1, <2>2 DEF AccessIndexRemoved
<1>2. Cardinality(DOMAIN users') + Cardinality(DOMAIN beneficiaries') <= MaxAccess
  <2>1. /\ Cardinality(DOMAIN users) \in Nat
        /\ Cardinality(DOMAIN users') \in Nat
        /\ Cardinality(DOMAIN users') <= Cardinality(DOMAIN users)
    BY <1>1, SmallerTable, IdAssumption DEF TypeOK, IsTable
  <2>2. /\ Cardinality(DOMAIN beneficiaries) \in Nat
        /\ Cardinality(DOMAIN beneficiaries') \in Nat
        /\ Cardinality(DOMAIN beneficiaries') <= Cardinality(DOMAIN beneficiaries)
    BY <1>1, SmallerTable, IdAssumption DEF TypeOK, IsTable
  <2> QED
    BY <2>1, <2>2, MaxAccessAssumption DEF AccessIsValid
<1> QED
  BY <1>1, <1>2 DEF AccessIsValid, BeneficiariesRequireProofOfLife

\* What an accepted transaction may do to the deadline and its increment.
LEMMA AcceptOnDeadline ==
  ASSUME NEW tx \in Transaction, Accept(tx)
  PROVE  \/ UpdateState(tx)
         \/ increment' = increment /\ unlock' = unlock
         \/ increment' = increment /\ RenewalIsValid(tx, unlock')
<1>1. CASE Operate(tx)
  BY <1>1 DEF Operate, OperatorUse, ManageStreamingPayments, RemoveAccessIndex,
     SetIntendedStakeCredential, Renew
<1>2. CASE RenewProofOfLife(tx) \/ UseAllowance(tx)
  BY <1>2 DEF RenewProofOfLife, UseAllowance, Renew
<1>3. CASE Recover(tx)
  BY <1>3 DEF Recover, UseBeneficiary, DistributeBeneficiaries, StopBeneficiaryStream, StopStream
<1>4. CASE Settle(tx)
  BY <1>4 DEF Settle, CancelStreamingPayment, StopStream, PayStreamingPayment, Consolidate, vars
<1> QED
  BY <1>1, <1>2, <1>3, <1>4 DEF Accept

\* What an accepted transaction may do to the access lists.
LEMMA AcceptOnAccess ==
  ASSUME NEW tx \in Transaction, Accept(tx)
  PROVE  \/ UpdateState(tx)
         \/ RemoveAccessIndex(tx)
         \/ UseAllowance(tx)
         \/ \E b \in DOMAIN beneficiaries : UseBeneficiary(tx, b)
         \/ UNCHANGED access
<1>1. CASE Operate(tx)
  BY <1>1 DEF Operate, OperatorUse, ManageStreamingPayments, SetIntendedStakeCredential
<1>2. CASE RenewProofOfLife(tx) \/ UseAllowance(tx)
  BY <1>2 DEF RenewProofOfLife
<1>3. CASE Recover(tx)
  BY <1>3 DEF Recover, DistributeBeneficiaries, StopBeneficiaryStream, StopStream
<1>4. CASE Settle(tx)
  BY <1>4 DEF Settle, CancelStreamingPayment, StopStream, PayStreamingPayment, Consolidate,
     vars, access
<1> QED
  BY <1>1, <1>2, <1>3, <1>4 DEF Accept

LEMMA DeadlineStaysValid ==
  ASSUME ProofOfLifeIsValid(unlock, increment), NEW tx \in Transaction, Accept(tx)
  PROVE  /\ ProofOfLifeIsValid(unlock', increment') \/ UpdateState(tx)
         /\ unlock' = None => unlock = None \/ UpdateState(tx)
BY AcceptOnDeadline DEF RenewalIsValid, ProofOfLifeIsValid

LEMMA AccessStaysValid ==
  ASSUME TypeOK, AccessIsValid(users, threshold, beneficiaries, unlock),
         ProofOfLifeIsValid(unlock, increment), NEW tx \in Transaction, Accept(tx)
  PROVE  AccessIsValid(users', threshold', beneficiaries', unlock')
<1>1. CASE UpdateState(tx)
  BY <1>1 DEF UpdateState, ValidConfiguration
<1>2. CASE ~UpdateState(tx)
  <2>1. /\ threshold' = threshold
        /\ AccessIsValid(users', threshold, beneficiaries', unlock)
    <3>1. CASE RemoveAccessIndex(tx)
      BY <3>1, RemovalKeepsAccess DEF RemoveAccessIndex
    <3>2. CASE UseAllowance(tx)
      <4>1. PICK u \in DOMAIN users :
              \E left \in [Asset -> 0..MaxStateInteger] : DrawAllowance(tx, u, left)
        BY <3>2 DEF UseAllowance, SignedUsers
      <4>2. AccessIsValid(users', threshold, beneficiaries, unlock)
        BY <3>2, <4>1, DrawKeepsAccess DEF UseAllowance
      <4> QED
        BY <3>2, <4>2 DEF UseAllowance
    <3>3. CASE \E b \in DOMAIN beneficiaries : UseBeneficiary(tx, b)
      <4>1. PICK b \in DOMAIN beneficiaries : UseBeneficiary(tx, b)
        BY <3>3
      <4>2. CASE IsSole(b)
        BY <4>1, <4>2 DEF UseBeneficiary
      <4>3. CASE ~IsSole(b)
        <5>1. AccessIndexRemoved
          BY <4>1, <4>3 DEF UseBeneficiary, AccessIndexRemoved
        <5>2. DOMAIN beneficiaries' = DOMAIN beneficiaries \ {b}
          BY <4>1, <4>3 DEF UseBeneficiary, Without, Restrict
        <5>3. HasReachableAccessPath(users', threshold, beneficiaries')
          BY <4>3, <5>2 DEF HasReachableAccessPath, IsSole
        <5> QED
          BY <4>1, <5>1, <5>3, RemovalKeepsAccess DEF UseBeneficiary
      <4> QED
        BY <4>2, <4>3
    <3>4. CASE UNCHANGED access
      BY <3>4 DEF access
    <3> QED
      BY <1>2, <3>1, <3>2, <3>3, <3>4, AcceptOnAccess
  <2>2. unlock' = None => unlock = None
    BY <1>2, DeadlineStaysValid
  <2> QED
    BY <2>1, <2>2 DEF AccessIsValid, BeneficiariesRequireProofOfLife
<1> QED
  BY <1>1, <1>2

LEMMA ConfigurationStep ==
  ASSUME TypeOK, ConfigurationStaysValid, [Next]_vars
  PROVE  ConfigurationStaysValid'
<1>1. /\ BoundedOption(stamp)
      /\ StreamsAreValid(streams)
      /\ ProofOfLifeIsValid(unlock, increment)
      /\ AccessIsValid(users, threshold, beneficiaries, unlock)
  BY DEF ConfigurationStaysValid, ValidConfiguration, CurrentConfiguration
<1>2. CASE Tick
  BY <1>1, <1>2 DEF Tick, access, ConfigurationStaysValid, ValidConfiguration,
     CurrentConfiguration
<1>3. ASSUME NEW tx \in Transaction, Accept(tx)
      PROVE  ConfigurationStaysValid'
  <2>1. BoundedOption(stamp')
    BY <1>1, <1>3, AcceptKeepsTime, CadenceFacts DEF BoundedOption, Bounded
  <2>2. StreamsAreValid(streams')
    BY <1>1, <1>3, StreamsStayValid
  <2>3. ProofOfLifeIsValid(unlock', increment')
    BY <1>1, <1>3, DeadlineStaysValid DEF UpdateState, ValidConfiguration
  <2>4. AccessIsValid(users', threshold', beneficiaries', unlock')
    BY <1>1, <1>3, AccessStaysValid
  <2> QED
    BY <2>1, <2>2, <2>3, <2>4
    DEF ConfigurationStaysValid, ValidConfiguration, CurrentConfiguration
<1>4. CASE UNCHANGED vars
  BY <1>1, <1>4 DEF vars, ConfigurationStaysValid, ValidConfiguration, CurrentConfiguration
<1> QED
  BY <1>2, <1>3, <1>4 DEF Next

\* Actions that check nothing of it leave the whole configuration valid.
THEOREM ConfigurationIsInvariant == Spec => []ConfigurationStaysValid
<1>1. Init => ConfigurationStaysValid
  BY DEF Init, ConfigurationStaysValid, ValidConfiguration, CurrentConfiguration
<1>2. TypeOK /\ ConfigurationStaysValid /\ [Next]_vars => ConfigurationStaysValid'
  BY ConfigurationStep
<1> QED
  BY <1>1, <1>2, TypeCorrect, PTL DEF Spec

-----------------------------------------------------------------------------
(* What payees are owed. *)

LEMMA StoredStreamFacts ==
  ASSUME TypeOK, StreamsAreValid(streams), NEW s \in DOMAIN streams
  PROVE  /\ streams[s] \in StreamingPayment
         /\ StreamIsShaped(streams[s])
         /\ IsSchedule(streams[s])
BY DEF TypeOK, IsTable, StreamsAreValid, StreamIsShaped, Bounded, StreamingPayment, IsSchedule

\* A stream whose new end lies no earlier than its old end or than the present
\* has lost nothing.
LEMMA LaterEndKeepsEntitlement ==
  ASSUME TypeOK, StreamsAreValid(streams), NEW s \in DOMAIN streams, NEW end \in Int,
         \/ end >= now
         \/ end >= streams[s].end
         \/ streams[s].end <= streams[s].start
  PROVE  Entitlement(streams[s], now) <= Entitlement([streams[s] EXCEPT !.end = end], now)
<1> DEFINE other == [streams[s] EXCEPT !.end = end]
<1>1. /\ streams[s] \in StreamingPayment /\ IsSchedule(streams[s])
      /\ now \in Int
  BY StoredStreamFacts, MaxTimeAssumption DEF TypeOK
<1>2. /\ other.start = streams[s].start /\ other.rate = streams[s].rate
      /\ other.paid = streams[s].paid /\ other.end = end
  BY <1>1 DEF StreamingPayment
<1> HIDE DEF other
<1>3. IsSchedule(other)
  BY <1>1, <1>2 DEF IsSchedule
<1>4. streams[s].end <= streams[s].start
        => Entitlement(streams[s], now) <= Entitlement(other, now)
  BY <1>1, <1>3, EmptyScheduleOwesNothing, AccrualFacts
<1>5. end >= now \/ end >= streams[s].end
        => Entitlement(streams[s], now) <= Entitlement(other, now)
  <2> SUFFICES ASSUME end >= now \/ end >= streams[s].end
               PROVE  Entitlement(streams[s], now) <= Entitlement(other, now)
    OBVIOUS
  <2>1. Smaller(now, streams[s].end) <= Smaller(now, other.end)
    BY <1>1, <1>2 DEF Smaller, IsSchedule
  <2> QED
    BY <1>1, <1>2, <1>3, <2>1, EntitlementIsMonotone
<1> QED
  BY <1>4, <1>5 DEF other

\* How an accepted transaction may rewrite the stream s.
StreamIsRespected(s) ==
  IF s \in DOMAIN streams'
  THEN /\ Entitlement(streams[s], now) <= Entitlement(streams'[s], now)
       /\ streams[s].paid <= streams'[s].paid
       /\ streams'[s].paid <= Larger(streams[s].paid, Entitlement(streams[s], now))
  ELSE LifetimeTotal(streams[s]) \in {Entitlement(streams[s], now), streams[s].paid}

LEMMA RescheduledStreamIsRespected ==
  ASSUME TypeOK, StreamsAreValid(streams), NEW tx \in Transaction, NEW s \in DOMAIN streams,
         NEW added \in SUBSET (StreamId \ DOMAIN streams),
         NEW fresh \in [added -> StreamRecord], NEW end \in [DOMAIN streams -> EndDate],
         Rescheduled(tx, added, fresh, end)
  PROVE  /\ StreamIsRespected(s)
         /\ s \in DOMAIN streams' /\ streams'[s].paid = streams[s].paid
<1>1. /\ s \in DOMAIN streams'
      /\ streams'[s] = [streams[s] EXCEPT !.end = end[s]]
      /\ end[s] >= EndDateFloor(streams[s], tx.hi, None)
  BY DEF Rescheduled
<1>2. /\ streams[s] \in StreamingPayment /\ IsSchedule(streams[s])
      /\ now \in Int
      /\ tx.hi # None => tx.hi \in Int /\ tx.hi >= now
  BY StoredStreamFacts, TransactionFields, MaxStateIntegerAssumption
<1>3. end[s] \in Int
  BY ScheduleDateAssumption DEF TypeOK, IsTable, StreamingPayment, EndDate
<1>4. \/ end[s] >= now
      \/ end[s] >= streams[s].end
      \/ streams[s].end <= streams[s].start
  BY <1>1, <1>2, <1>3 DEF EndDateFloor, Larger, Smaller, IsSchedule
<1>5. Entitlement(streams[s], now) <= Entitlement(streams'[s], now)
  BY <1>1, <1>3, <1>4, LaterEndKeepsEntitlement
<1>6. streams'[s].paid = streams[s].paid
  BY <1>1, <1>2 DEF StreamingPayment
<1> QED
  BY <1>1, <1>2, <1>5, <1>6, AccrualFacts DEF StreamIsRespected, Larger, IsSchedule

LEMMA RescheduleRespectsStreams ==
  ASSUME TypeOK, StreamsAreValid(streams), NEW tx \in Transaction,
         ManageStreamingPayments(tx), NEW s \in DOMAIN streams
  PROVE  StreamIsRespected(s)
<1>1. PICK added \in SUBSET (StreamId \ DOMAIN streams) :
        \E fresh \in [added -> StreamRecord], end \in [DOMAIN streams -> EndDate] :
          Rescheduled(tx, added, fresh, end)
  BY DEF ManageStreamingPayments
<1> QED
  BY <1>1, RescheduledStreamIsRespected

LEMMA StopRespectsStreams ==
  ASSUME TypeOK, StreamsAreValid(streams), NEW tx \in Transaction,
         NEW r \in DOMAIN streams, NEW exact, StopStream(tx, r, exact), NEW s \in DOMAIN streams
  PROVE  StreamIsRespected(s)
<1>1. PICK end \in Time : /\ end >= Cutoff(streams[r], tx.hi)
                          /\ streams' = [streams EXCEPT ![r].end = end]
  BY DEF StopStream
<1>2. /\ streams[s] \in StreamingPayment /\ IsSchedule(streams[s]) /\ IsSchedule(streams[r])
      /\ now \in Int
      /\ tx.hi \in Int /\ tx.hi >= now
  BY StoredStreamFacts, TransactionFields, MaxStateIntegerAssumption
  DEF StopStream, NonAdminCadence, FiniteRange
<1>3. CASE s = r
  <2>1. /\ s \in DOMAIN streams'
        /\ streams'[s] = [streams[s] EXCEPT !.end = end]
    BY <1>1, <1>3
  <2>2. end \in Int /\ end >= now
    BY <1>1, <1>2, MaxStateIntegerAssumption DEF Time, Cutoff, Larger, IsSchedule
  <2>3. Entitlement(streams[s], now) <= Entitlement(streams'[s], now)
    BY <2>1, <2>2, LaterEndKeepsEntitlement
  <2>4. streams'[s].paid = streams[s].paid
    BY <1>2, <2>1 DEF StreamingPayment
  <2> QED
    BY <1>2, <2>1, <2>3, <2>4, AccrualFacts DEF StreamIsRespected, Larger, IsSchedule
<1>4. CASE s # r
  <2>1. s \in DOMAIN streams' /\ streams'[s] = streams[s]
    BY <1>1, <1>4
  <2> QED
    BY <1>2, <2>1, AccrualFacts DEF StreamIsRespected, Larger, IsSchedule
<1> QED
  BY <1>3, <1>4

LEMMA PayRespectsStreams ==
  ASSUME TypeOK, StreamsAreValid(streams), NEW tx \in Transaction,
         PayStreamingPayment(tx), NEW s \in DOMAIN streams
  PROVE  StreamIsRespected(s)
<1>1. PICK kept \in SUBSET DOMAIN streams :
        \E paid \in [kept -> 0..MaxStateInteger] : Settled(tx, kept, paid)
  BY DEF PayStreamingPayment
<1>2. PICK paid \in [kept -> 0..MaxStateInteger] : Settled(tx, kept, paid)
  BY <1>1
<1>3. DOMAIN streams' = kept
  BY <1>2 DEF Settled
<1>4. /\ streams[s] \in StreamingPayment /\ IsSchedule(streams[s]) /\ StreamIsShaped(streams[s])
      /\ now \in Int
      /\ tx.lo \in Int /\ tx.lo <= now
  BY StoredStreamFacts, TransactionFields DEF PayStreamingPayment, FiniteRange
<1>5. Entitlement(streams[s], tx.lo) <= Entitlement(streams[s], now)
  <2>1. Smaller(tx.lo, streams[s].end) <= Smaller(now, streams[s].end)
    BY <1>4 DEF Smaller, IsSchedule
  <2> QED
    BY <1>4, <2>1, EntitlementIsMonotone
<1>6. /\ LifetimeTotal(streams[s]) \in Int
      /\ AccruedAt(streams[s], tx.lo) \in Int
      /\ Entitlement(streams[s], tx.lo) \in Int
      /\ Entitlement(streams[s], now) \in Int
      /\ AccruedAt(streams[s], now) <= LifetimeTotal(streams[s])
  BY <1>4, AccrualFacts
<1>7. CASE s \in kept
  <2>1. streams'[s] = [streams[s] EXCEPT !.paid = paid[s]] /\ RetainedWith(streams[s], paid[s], tx.lo)
    BY <1>2, <1>7 DEF Settled
  <2>2. /\ streams'[s].start = streams[s].start /\ streams'[s].end = streams[s].end
        /\ streams'[s].rate = streams[s].rate /\ streams'[s].paid = paid[s]
    BY <1>4, <2>1 DEF StreamingPayment
  <2>3. Entitlement(streams'[s], now) = Entitlement(streams[s], now)
    BY <2>2 DEF Entitlement, AccruedAt
  <2>4. paid[s] \in Int
    BY <1>7, MaxStateIntegerAssumption
  <2>5. paid[s] >= streams[s].paid
    BY <2>1 DEF RetainedWith
  <2>6. paid[s] <= Larger(streams[s].paid, Entitlement(streams[s], tx.lo))
    BY <1>4, <1>6, <2>1, <2>4 DEF RetainedWith, Entitlement, Larger, IsSchedule
  <2>7. paid[s] <= Larger(streams[s].paid, Entitlement(streams[s], now))
    BY <1>4, <1>5, <1>6, <2>4, <2>6 DEF Larger, IsSchedule
  <2> QED
    BY <1>3, <1>4, <1>6, <1>7, <2>2, <2>3, <2>4, <2>5, <2>7 DEF StreamIsRespected, IsSchedule
<1>8. CASE s \notin kept
  <2>1. Removable(streams[s], tx.lo)
    BY <1>2, <1>8 DEF Settled
  <2>2. CASE streams[s].end <= tx.lo
    <3>1. Smaller(now, streams[s].end) = streams[s].end
      BY <1>4, <2>2 DEF Smaller, IsSchedule
    <3>2. AccruedAt(streams[s], now) = LifetimeTotal(streams[s])
      BY <3>1 DEF AccruedAt, LifetimeTotal
    <3>3. 0 <= LifetimeTotal(streams[s])
      BY <1>4, <1>6 DEF StreamIsShaped, Bounded, IsSchedule
    <3>4. LifetimeTotal(streams[s]) = Entitlement(streams[s], now)
      BY <1>6, <3>2, <3>3 DEF Entitlement, Larger
    <3> QED
      BY <1>3, <1>8, <3>4 DEF StreamIsRespected
  <2>3. CASE streams[s].paid >= LifetimeTotal(streams[s])
    <3>1. LifetimeTotal(streams[s]) = streams[s].paid
      BY <1>4, <1>6, <2>3 DEF StreamIsShaped, IsSchedule
    <3> QED
      BY <1>3, <1>8, <3>1 DEF StreamIsRespected
  <2> QED
    BY <2>1, <2>2, <2>3 DEF Removable
<1> QED
  BY <1>7, <1>8

LEMMA StreamsAreRespected ==
  ASSUME TypeOK, StreamsAreValid(streams), NEW tx \in Transaction, Accept(tx),
         NEW s \in DOMAIN streams
  PROVE  StreamIsRespected(s)
<1>1. CASE streams' = streams
  <2>1. IsSchedule(streams[s]) /\ now \in Int
    BY StoredStreamFacts, MaxTimeAssumption DEF TypeOK
  <2> QED
    BY <1>1, <2>1, AccrualFacts DEF StreamIsRespected, Larger, IsSchedule
<1>2. CASE ManageStreamingPayments(tx)
  BY <1>2, RescheduleRespectsStreams
<1>3. CASE \E r \in DOMAIN streams, exact \in BOOLEAN : StopStream(tx, r, exact)
  BY <1>3, StopRespectsStreams
<1>4. CASE PayStreamingPayment(tx)
  BY <1>4, PayRespectsStreams
<1> QED
  BY <1>1, <1>2, <1>3, <1>4, AcceptOnStreams

LEMMA NewStreamsAreUnsettled ==
  ASSUME NEW tx \in Transaction, Accept(tx), NEW s \in DOMAIN streams', s \notin DOMAIN streams
  PROVE  streams'[s].paid = 0
<1>1. CASE ManageStreamingPayments(tx)
  BY <1>1 DEF ManageStreamingPayments, Rescheduled, StreamIsFresh
<1>2. CASE PayStreamingPayment(tx)
  BY <1>2 DEF PayStreamingPayment, Settled
<1>3. CASE \E r \in DOMAIN streams, exact \in BOOLEAN : StopStream(tx, r, exact)
  BY <1>3 DEF StopStream
<1> QED
  BY <1>1, <1>2, <1>3, AcceptOnStreams

\* The inductive invariant of the payees' properties.
StreamInvariant == TypeOK /\ StreamsAreValid(streams) /\ PaidWithinAccrued

LEMMA PaidStep ==
  ASSUME StreamInvariant, [Next]_vars, TypeOK', StreamsAreValid(streams')
  PROVE  PaidWithinAccrued'
<1>1. now \in Int /\ now' \in Int
  BY MaxTimeAssumption DEF StreamInvariant, TypeOK
<1>2. \A s \in DOMAIN streams : IsSchedule(streams[s])
  BY StoredStreamFacts DEF StreamInvariant
<1>3. \A s \in DOMAIN streams' : IsSchedule(streams'[s])
  BY DEF TypeOK, IsTable, StreamsAreValid, StreamIsShaped, Bounded, StreamingPayment, IsSchedule
<1>4. CASE Tick
  <2> SUFFICES ASSUME NEW s \in DOMAIN streams
               PROVE  streams[s].paid <= Entitlement(streams[s], now')
    BY <1>4 DEF Tick, PaidWithinAccrued
  <2>1. Smaller(now, streams[s].end) <= Smaller(now', streams[s].end)
    BY <1>1, <1>2, <1>4 DEF Tick, Smaller, IsSchedule
  <2>2. Entitlement(streams[s], now) <= Entitlement(streams[s], now')
    BY <1>1, <1>2, <2>1, EntitlementIsMonotone
  <2> QED
    BY <1>1, <1>2, <2>2, AccrualFacts DEF StreamInvariant, PaidWithinAccrued, IsSchedule
<1>5. ASSUME NEW tx \in Transaction, Accept(tx)
      PROVE  PaidWithinAccrued'
  <2> SUFFICES ASSUME NEW s \in DOMAIN streams'
               PROVE  streams'[s].paid <= Entitlement(streams'[s], now)
    BY <1>5, AcceptKeepsTime DEF PaidWithinAccrued
  <2>1. Entitlement(streams'[s], now) \in Int /\ 0 <= Entitlement(streams'[s], now)
    BY <1>1, <1>3, AccrualFacts
  <2>2. CASE s \in DOMAIN streams
    <3>1. StreamIsRespected(s)
      BY <1>5, <2>2, StreamsAreRespected DEF StreamInvariant
    <3>2. Entitlement(streams[s], now) \in Int
      BY <1>1, <1>2, <2>2, AccrualFacts
    <3>3. streams[s].paid <= Entitlement(streams[s], now)
      BY <2>2 DEF StreamInvariant, PaidWithinAccrued
    <3> QED
      BY <1>2, <1>3, <2>1, <2>2, <3>1, <3>2, <3>3 DEF StreamIsRespected, Larger, IsSchedule
  <2>3. CASE s \notin DOMAIN streams
    BY <1>5, <2>1, <2>3, NewStreamsAreUnsettled
  <2> QED
    BY <2>2, <2>3
<1>6. CASE UNCHANGED vars
  BY <1>6 DEF vars, StreamInvariant, PaidWithinAccrued
<1> QED
  BY <1>4, <1>5, <1>6 DEF Next

LEMMA StreamInvariantHolds == Spec => []StreamInvariant
<1>1. TypeOK /\ ConfigurationStaysValid => StreamsAreValid(streams)
  BY DEF ConfigurationStaysValid, ValidConfiguration
<1>2. Init /\ TypeOK /\ StreamsAreValid(streams) => StreamInvariant
  <2> SUFFICES ASSUME Init, TypeOK, StreamsAreValid(streams), NEW s \in DOMAIN streams
               PROVE  streams[s].paid <= Entitlement(streams[s], now)
    BY DEF StreamInvariant, PaidWithinAccrued
  <2>1. streams[s].paid = 0
    BY DEF Init, StreamIsFresh
  <2>2. IsSchedule(streams[s]) /\ now \in Int
    BY StoredStreamFacts, MaxTimeAssumption DEF TypeOK
  <2> QED
    BY <2>1, <2>2, AccrualFacts
<1>3. StreamInvariant /\ [Next]_vars /\ TypeOK' /\ StreamsAreValid(streams')
        => StreamInvariant'
  BY PaidStep DEF StreamInvariant
<1>4. TypeOK' /\ ConfigurationStaysValid' => StreamsAreValid(streams')
  BY DEF ConfigurationStaysValid, ValidConfiguration
<1> DEFINE Known == TypeOK /\ ConfigurationStaysValid
<1>5. Init /\ Known => StreamInvariant
  BY <1>1, <1>2
<1>6. StreamInvariant /\ [Next]_vars /\ Known' => StreamInvariant'
  BY <1>3, <1>4
<1>7. Spec => []Known
  BY TypeCorrect, ConfigurationIsInvariant, PTL
<1> HIDE DEF Known
<1> QED
  BY <1>5, <1>6, <1>7, PTL DEF Spec

\* No stream is ever paid ahead of the real time.
THEOREM PaymentsStayWithinAccrual == Spec => []PaidWithinAccrued
<1>1. StreamInvariant => PaidWithinAccrued
  BY DEF StreamInvariant
<1> QED
  BY <1>1, StreamInvariantHolds, PTL

\* No rewrite of a stream takes back what has accrued on it.
THEOREM AccrualIsNeverClawedBack == Spec => NoClawback
<1> DEFINE Kept ==
      \A s \in DOMAIN streams :
        IF s \in DOMAIN streams'
        THEN /\ Entitlement(streams[s], now) <= Entitlement(streams'[s], now)
             /\ streams[s].paid <= streams'[s].paid
        ELSE LifetimeTotal(streams[s]) \in {Entitlement(streams[s], now), streams[s].paid}
<1>1. StreamInvariant /\ [Next]_vars => [Kept]_vars
  <2> SUFFICES ASSUME StreamInvariant, Next
               PROVE  Kept
    OBVIOUS
  <2>1. CASE Tick
    <3>1. /\ \A s \in DOMAIN streams : IsSchedule(streams[s])
          /\ now \in Int
      BY StoredStreamFacts, MaxTimeAssumption DEF StreamInvariant, TypeOK
    <3> QED
      BY <2>1, <3>1, AccrualFacts DEF Tick, IsSchedule
  <2>2. ASSUME NEW tx \in Transaction, Accept(tx)
        PROVE  Kept
    BY <2>2, StreamsAreRespected DEF StreamInvariant, StreamIsRespected
  <2> QED
    BY <2>1, <2>2 DEF Next
<1> HIDE DEF Kept
<1>2. Spec => [][Kept]_vars
  BY <1>1, StreamInvariantHolds, PTL DEF Spec
<1> QED
  BY <1>2 DEF NoClawback, Kept

\* A stream cut off at an upper bound still owes what has been paid on it.
LEMMA CutStreamIsShaped ==
  ASSUME StreamInvariant,
         NEW s \in DOMAIN streams, NEW latest \in now..MaxStateInteger,
         Cutoff(streams[s], latest) < streams[s].end
  PROVE  StreamIsShaped([streams[s] EXCEPT !.end = Cutoff(streams[s], latest)])
<1> DEFINE cut == Cutoff(streams[s], latest)
           other == [streams[s] EXCEPT !.end = cut]
<1>1. /\ streams[s] \in StreamingPayment /\ IsSchedule(streams[s])
      /\ StreamIsShaped(streams[s])
      /\ now \in Int /\ latest \in Int /\ now <= latest
  BY StoredStreamFacts, MaxTimeAssumption, MaxStateIntegerAssumption DEF StreamInvariant, TypeOK
<1>2. /\ cut \in Int /\ streams[s].start <= cut /\ now <= cut /\ cut < streams[s].end
      /\ Bounded(cut)
  BY <1>1, MaxStateIntegerAssumption
  DEF Cutoff, Larger, IsSchedule, StreamIsShaped, Bounded
<1> HIDE DEF cut
<1>3. /\ other.start = streams[s].start /\ other.rate = streams[s].rate
      /\ other.paid = streams[s].paid /\ other.end = cut
  BY <1>1 DEF StreamingPayment
<1> HIDE DEF other
<1>4. IsSchedule(other)
  BY <1>1, <1>2, <1>3 DEF IsSchedule
<1>5. LifetimeTotal(other) <= MaxStateInteger
  <2>1. /\ other.end - other.start \in Int /\ streams[s].end - streams[s].start \in Int
        /\ other.end - other.start <= streams[s].end - streams[s].start
    BY <1>1, <1>2, <1>3 DEF IsSchedule
  <2>2. LifetimeTotal(other) <= LifetimeTotal(streams[s])
    BY <1>1, <1>3, <2>1, PayoutIsMonotone DEF LifetimeTotal, IsSchedule
  <2> QED
    BY <1>1, <1>4, <2>2, AccrualFacts, MaxStateIntegerAssumption DEF StreamIsShaped
<1>6. other.paid <= LifetimeTotal(other)
  <2>1. Smaller(cut, other.end) = cut
    BY <1>2, <1>3 DEF Smaller
  <2>2. Smaller(now, streams[s].end) <= Smaller(cut, other.end)
    BY <1>1, <1>2, <1>3 DEF Smaller, IsSchedule
  <2>3. Entitlement(streams[s], now) <= Entitlement(other, cut)
    BY <1>1, <1>2, <1>3, <1>4, <2>2, EntitlementIsMonotone
  <2>4. AccruedAt(other, cut) = LifetimeTotal(other)
    BY <1>3, <2>1 DEF AccruedAt, LifetimeTotal
  <2>5. 0 <= LifetimeTotal(other)
    BY <1>1, <1>2, <1>3, <1>4, LifetimeIsNatural DEF IsSchedule
  <2>6. Entitlement(other, cut) = LifetimeTotal(other)
    BY <1>4, <1>2, <2>4, <2>5, AccrualFacts DEF Entitlement, Larger
  <2>7. streams[s].paid <= Entitlement(streams[s], now)
    BY DEF StreamInvariant, PaidWithinAccrued
  <2>8. Entitlement(streams[s], now) \in Int
    BY <1>1, AccrualFacts
  <2>9. LifetimeTotal(other) \in Int
    BY <1>2, <1>4, AccrualFacts
  <2> QED
    BY <1>1, <1>3, <2>3, <2>6, <2>7, <2>8, <2>9 DEF IsSchedule
<1>7. StreamIsShaped(other)
  BY <1>1, <1>2, <1>3, <1>5, <1>6 DEF StreamIsShaped
<1> QED
  BY <1>7 DEF other, cut

\* Whatever has been paid, the stream may still be stopped at its cutoff.
THEOREM StopsAreNeverRefused == Spec => []StopIsNeverRefused
<1>1. StreamInvariant => StopIsNeverRefused
  BY CutStreamIsShaped DEF StopIsNeverRefused
<1> QED
  BY <1>1, StreamInvariantHolds, PTL

\* At every lower bound the crank may remove a stream or bring it up to date.
THEOREM CrankIsAlwaysFree == Spec => []CrankIsNeverWedged
<1>1. StreamInvariant => CrankIsNeverWedged
  <2> SUFFICES ASSUME StreamInvariant,
                      NEW s \in DOMAIN streams, NEW earliest \in 0..now,
                      ~Removable(streams[s], earliest)
               PROVE  RetainedWith(streams[s],
                        Smaller(Larger(streams[s].paid, AccruedAt(streams[s], earliest)),
                                LifetimeTotal(streams[s]) - 1), earliest)
    BY DEF CrankIsNeverWedged
  <2>1. IsSchedule(streams[s]) /\ StreamIsShaped(streams[s]) /\ earliest \in Int
    BY StoredStreamFacts, MaxTimeAssumption DEF StreamInvariant, TypeOK
  <2>2. /\ LifetimeTotal(streams[s]) \in Int
        /\ AccruedAt(streams[s], earliest) \in Int
    BY <2>1, AccrualFacts
  <2> QED
    BY <2>1, <2>2, MaxStateIntegerAssumption
    DEF Removable, RetainedWith, StillOwes, Bounded, Smaller, Larger, StreamIsShaped, IsSchedule
<1> QED
  BY <1>1, StreamInvariantHolds, PTL

-----------------------------------------------------------------------------
(* Proof of life and recovery. *)

\* Outside UpdateState the deadline moves forward, past the present and by at
\* most one increment from it.
THEOREM RenewalsAreBounded == Spec => RenewalIsBounded
<1> DEFINE Moved ==
      unlock' # unlock =>
        \/ {unlock, unlock'} \subseteq Int /\ unlock <= unlock' /\ unlock' \in now..(now + increment)
        \/ \E tx \in Transaction : UpdateState(tx)
<1>1. TypeOK /\ ConfigurationStaysValid /\ [Next]_vars => [Moved]_vars
  <2> SUFFICES ASSUME TypeOK, ConfigurationStaysValid, Next
               PROVE  Moved
    OBVIOUS
  <2>1. CASE Tick
    BY <2>1 DEF Tick
  <2>2. ASSUME NEW tx \in Transaction, Accept(tx)
        PROVE  Moved
    <3> SUFFICES ASSUME unlock' # unlock, RenewalIsValid(tx, unlock')
                 PROVE  /\ {unlock, unlock'} \subseteq Int /\ unlock <= unlock'
                        /\ unlock' \in now..(now + increment)
      BY <2>2, AcceptOnDeadline
    <3>1. /\ FiniteRange(tx) /\ increment # None /\ unlock' # None
          /\ Bounded(unlock')
          /\ unlock' >= tx.hi
          /\ unlock' <= tx.lo + increment
          /\ unlock # None => unlock' >= unlock
      BY DEF RenewalIsValid
    <3>2. unlock # None
      BY <3>1 DEF ConfigurationStaysValid, ValidConfiguration, CurrentConfiguration,
         ProofOfLifeIsValid
    <3>3. /\ tx.lo \in 0..now /\ tx.hi \in now..MaxStateInteger
          /\ now \in Int /\ unlock \in Int /\ increment \in Int
      BY <3>1, <3>2, TransactionFields DEF FiniteRange, TypeOK
    <3>4. unlock' \in Int
      <4>1. TypeOK'
        BY TypeStep
      <4> QED
        BY <3>1, <4>1 DEF TypeOK
    <3> QED
      BY <3>1, <3>2, <3>3, <3>4, MaxStateIntegerAssumption
  <2> QED
    BY <2>1, <2>2 DEF Next
<1> HIDE DEF Moved
<1>2. Spec => [][Moved]_vars
  BY <1>1, TypeCorrect, ConfigurationIsInvariant, PTL DEF Spec
<1> QED
  BY <1>2 DEF RenewalIsBounded, Moved

\* Without an operator a beneficiary leaves only once it is unlocked in real
\* time, and the last one stays.
THEOREM RecoveryStaysOrderly == Spec => RecoveryIsOrderly
<1> DEFINE Orderly ==
      \/ /\ \A b \in DOMAIN beneficiaries \ DOMAIN beneficiaries' : IsUnlockedAt(b, now)
         /\ DOMAIN beneficiaries # {} => DOMAIN beneficiaries' # {}
      \/ \E tx \in Transaction : Operate(tx)
<1>1. TypeOK /\ [Next]_vars => [Orderly]_vars
  <2> SUFFICES ASSUME TypeOK, Next
               PROVE  Orderly
    OBVIOUS
  <2>1. CASE Tick
    BY <2>1 DEF Tick, access
  <2>2. ASSUME NEW tx \in Transaction, Accept(tx)
        PROVE  Orderly
    <3>1. CASE UpdateState(tx) \/ RemoveAccessIndex(tx)
      BY <3>1 DEF Operate
    <3>2. CASE UseAllowance(tx) \/ UNCHANGED access
      BY <3>2 DEF UseAllowance, access
    <3>3. CASE \E b \in DOMAIN beneficiaries : UseBeneficiary(tx, b)
      <4>1. PICK b \in DOMAIN beneficiaries : UseBeneficiary(tx, b)
        BY <3>3
      <4>2. CASE IsSole(b)
        BY <4>1, <4>2 DEF UseBeneficiary
      <4>3. CASE ~IsSole(b)
        <5>1. DOMAIN beneficiaries' = DOMAIN beneficiaries \ {b}
          BY <4>1, <4>3 DEF UseBeneficiary, Without, Restrict
        <5>2. IsUnlocked(tx, b)
          BY <4>1 DEF UseBeneficiary, UnlockedSigners
        <5>3. /\ tx.lo \in Int /\ tx.lo <= now /\ now \in Int
          BY <5>2, TransactionFields, MaxStateIntegerAssumption DEF IsUnlocked
        <5>4. unlock # None => unlock \in Int
          BY DEF TypeOK
        <5>5. beneficiaries[b].after # None => beneficiaries[b].after \in Int
          BY DEF TypeOK, IsTable, Beneficiary
        <5>6. IsUnlockedAt(b, now)
          BY <5>2, <5>3, <5>4, <5>5
          DEF IsUnlocked, IsUnlockedAt, BeneficiaryUnlockTime, Larger
        <5> QED
          BY <4>3, <5>1, <5>6 DEF IsSole
      <4> QED
        BY <4>2, <4>3
    <3> QED
      BY <2>2, <3>1, <3>2, <3>3, AcceptOnAccess
  <2> QED
    BY <2>1, <2>2 DEF Next
<1> HIDE DEF Orderly
<1>2. Spec => [][Orderly]_vars
  BY <1>1, TypeCorrect, PTL DEF Spec
<1> QED
  BY <1>2 DEF RecoveryIsOrderly, Orderly
-----------------------------------------------------------------------------
(* Allowances: what was drawn within the last day. *)

Ages == 0..(Day - 1)
Limit(u, a) == Larger(users[u].perDay[a], granted[u][a])

HistoryTypeOK ==
  /\ drawn \in [UserId -> [Ages -> [Asset -> Int]]]
  /\ granted \in [UserId -> [Asset -> Int]]

\* What was drawn within the last day is missing from what is left, ...
DrawnIsMissing ==
  \A u \in DOMAIN users, a \in Asset, age \in Ages :
    /\ 0 <= drawn[u][age][a]
    /\ drawn[u][age][a] + users[u].remaining[a] <= Limit(u, a)

\* ... and a draw is a day old when the budget renews.
ResetIsADayAway ==
  \A u \in DOMAIN users, a \in Asset, age \in Ages :
    users[u].reset + age < now + Day => drawn[u][age][a] = 0

AllowanceInvariant ==
  /\ TypeOK
  /\ HistoryTypeOK /\ DrawnIsMissing /\ ResetIsADayAway

-----------------------------------------------------------------------------
LEMMA DayIsLong == Day \in Nat \ {0} /\ Ages \subseteq Nat /\ Day - 1 \in Ages
BY DayAssumption DEF Ages

LEMMA UserFields ==
  ASSUME TypeOK, NEW u \in DOMAIN users
  PROVE  /\ u \in UserId
         /\ users[u].perDay \in [Asset -> Int]
         /\ users[u].remaining \in [Asset -> Int]
         /\ users[u].reset \in Int
BY DEF TypeOK, IsTable, User

\* Every step of the history is a step of the thread.
LEMMA AllowanceStepIsStep ==
  ASSUME [AllowanceNext]_allowanceVars
  PROVE  [Next]_vars
BY DEF AllowanceNext, allowanceVars, Age, Draw, Grant, Other, Next, Accept

\* A renewal, a recovery and a settlement leave the users alone.
LEMMA OthersLeaveUsers ==
  ASSUME NEW tx \in Transaction, RenewProofOfLife(tx) \/ Recover(tx) \/ Settle(tx)
  PROVE  users' = users /\ now' = now
<1>1. CASE RenewProofOfLife(tx)
  BY <1>1 DEF RenewProofOfLife, access
<1>2. CASE Recover(tx)
  BY <1>2 DEF Recover, UseBeneficiary, DistributeBeneficiaries, StopBeneficiaryStream,
     StopStream, access
<1>3. CASE Settle(tx)
  BY <1>3 DEF Settle, CancelStreamingPayment, StopStream, PayStreamingPayment,
     Consolidate, vars, access
<1> QED
  BY <1>1, <1>2, <1>3

-----------------------------------------------------------------------------
(* The draw. *)

\* The budget of a new day is untouched; otherwise it is what is left.
LEMMA BudgetIsFree ==
  ASSUME AllowanceInvariant, NEW tx \in Transaction, FiniteRange(tx),
         NEW u \in DOMAIN users, NEW a \in Asset, NEW age \in Ages
  PROVE  drawn[u][age][a] + EffectiveAllowance(u, tx.lo)[a] <= Limit(u, a)
<1>1. /\ users[u].perDay[a] \in Int /\ users[u].remaining[a] \in Int
      /\ users[u].reset \in Int /\ u \in UserId
  BY UserFields DEF AllowanceInvariant
<1>2. drawn[u][age][a] \in Int /\ granted[u][a] \in Int
  BY <1>1 DEF AllowanceInvariant, HistoryTypeOK
<1>3. CASE users[u].reset <= tx.lo
  <2>1. tx.lo <= now /\ tx.lo \in Int /\ now \in Int
    BY TransactionFields DEF AllowanceInvariant, FiniteRange
  <2>2. age < Day /\ age \in Int /\ Day \in Int
    BY DayAssumption DEF Ages
  <2>3. users[u].reset + age < now + Day
    BY <1>1, <1>3, <2>1, <2>2
  <2>4. drawn[u][age][a] = 0
    BY <2>3 DEF AllowanceInvariant, ResetIsADayAway
  <2> QED
    BY <1>1, <1>2, <1>3, <2>4 DEF EffectiveAllowance, Limit, Larger
<1>4. CASE ~(users[u].reset <= tx.lo)
  BY <1>4 DEF AllowanceInvariant, DrawnIsMissing, EffectiveAllowance
<1> QED
  BY <1>3, <1>4

\* A draw changes the record of its user, and no other.
LEMMA DrawIsOfOneUser ==
  ASSUME TypeOK, HistoryTypeOK, NEW tx \in Transaction, Draw(tx)
  PROVE  \E u \in DOMAIN users, left \in [Asset -> 0..MaxStateInteger] :
           /\ FiniteRange(tx)
           /\ users' = [users EXCEPT ![u] =
                [users[u] EXCEPT !.remaining = left, !.reset = NextReset(u, tx.hi)]]
           /\ drawn' = [drawn EXCEPT ![u] = [age \in Ages |->
                [a \in Asset |-> drawn[u][age][a] + EffectiveAllowance(u, tx.lo)[a] - left[a]]]]
           /\ \A a \in Asset : left[a] <= EffectiveAllowance(u, tx.lo)[a]
           /\ now' = now /\ granted' = granted
<1>1. PICK u \in SignedUsers(tx), left \in [Asset -> 0..MaxStateInteger] :
        DrawAllowance(tx, u, left)
  BY DEF Draw, UseAllowance
<1>2. u \in DOMAIN users
  BY DEF SignedUsers
<1>3. users' = [users EXCEPT ![u] =
                  [users[u] EXCEPT !.remaining = left, !.reset = NextReset(u, tx.hi)]]
  BY <1>1, <1>2 DEF DrawAllowance, TypeOK, IsTable, User
<1>4. PICK v \in DOMAIN users :
        /\ users'[v] # users[v]
        /\ drawn' = [drawn EXCEPT ![v] = [age \in 0..(Day - 1) |->
                       [a \in Asset |-> @[age][a] + Taken(tx, v)[a]]]]
  BY DEF Draw
<1>5. v = u
  BY <1>2, <1>3, <1>4 DEF TypeOK, IsTable
<1>6. users'[u].remaining = left
  BY <1>2, <1>3 DEF TypeOK, IsTable, User
<1>7. drawn' = [drawn EXCEPT ![u] = [age \in Ages |->
        [a \in Asset |-> drawn[u][age][a] + EffectiveAllowance(u, tx.lo)[a] - left[a]]]]
  <2>1. \A a \in Asset : Taken(tx, u)[a] = EffectiveAllowance(u, tx.lo)[a] - left[a]
    BY <1>6 DEF Taken
  <2>2. drawn' = [drawn EXCEPT ![u] = [age \in Ages |->
          [a \in Asset |-> drawn[u][age][a] + Taken(tx, u)[a]]]]
    BY <1>4, <1>5 DEF Ages
  <2>3. [age \in Ages |-> [a \in Asset |-> drawn[u][age][a] + Taken(tx, u)[a]]] =
        [age \in Ages |->
          [a \in Asset |-> drawn[u][age][a] + EffectiveAllowance(u, tx.lo)[a] - left[a]]]
    BY <1>2, <2>1, UserFields DEF HistoryTypeOK
  <2> QED
    BY <2>2, <2>3
<1>8. FiniteRange(tx) /\ now' = now /\ granted' = granted
  BY DEF Draw, UseAllowance
<1>9. \A a \in Asset : left[a] <= EffectiveAllowance(u, tx.lo)[a]
  BY <1>1 DEF DrawAllowance
<1> QED
  BY <1>2, <1>3, <1>7, <1>8, <1>9

HistoryInvariant == HistoryTypeOK /\ DrawnIsMissing /\ ResetIsADayAway

LEMMA DrawStep ==
  ASSUME AllowanceInvariant, NEW tx \in Transaction, Draw(tx)
  PROVE  HistoryInvariant'
<1>1. PICK u \in DOMAIN users, left \in [Asset -> 0..MaxStateInteger] :
        /\ FiniteRange(tx)
        /\ users' = [users EXCEPT ![u] =
             [users[u] EXCEPT !.remaining = left, !.reset = NextReset(u, tx.hi)]]
        /\ drawn' = [drawn EXCEPT ![u] = [age \in Ages |->
             [a \in Asset |-> drawn[u][age][a] + EffectiveAllowance(u, tx.lo)[a] - left[a]]]]
        /\ \A a \in Asset : left[a] <= EffectiveAllowance(u, tx.lo)[a]
        /\ now' = now /\ granted' = granted
  BY DrawIsOfOneUser DEF AllowanceInvariant
<1>2. /\ DOMAIN users' = DOMAIN users
      /\ users'[u].remaining = left /\ users'[u].perDay = users[u].perDay
      /\ users'[u].reset = NextReset(u, tx.hi)
      /\ \A v \in DOMAIN users \ {u} : users'[v] = users[v]
  BY <1>1 DEF AllowanceInvariant, TypeOK, IsTable, User
<1>3. u \in UserId /\ drawn \in [UserId -> [Ages -> [Asset -> Int]]]
  BY <1>1, UserFields DEF AllowanceInvariant, HistoryTypeOK
<1>4. \A a \in Asset : EffectiveAllowance(u, tx.lo)[a] \in Int /\ left[a] \in Int
  BY UserFields, MaxStateIntegerAssumption DEF EffectiveAllowance, AllowanceInvariant
<1>5. \A age \in Ages, a \in Asset :
        drawn'[u][age][a] = drawn[u][age][a] + EffectiveAllowance(u, tx.lo)[a] - left[a]
  BY <1>1, <1>3
<1>6. \A v \in UserId \ {u} : drawn'[v] = drawn[v]
  BY <1>1, <1>3
<1>7. HistoryTypeOK'
  <2>1. [age \in Ages |-> [a \in Asset |->
           drawn[u][age][a] + EffectiveAllowance(u, tx.lo)[a] - left[a]]]
          \in [Ages -> [Asset -> Int]]
    BY <1>3, <1>4
  <2> QED
    BY <1>1, <1>3, <2>1 DEF AllowanceInvariant, HistoryTypeOK
<1>8. DrawnIsMissing'
  <2> SUFFICES ASSUME NEW v \in DOMAIN users, NEW a \in Asset, NEW age \in Ages
               PROVE  /\ 0 <= drawn'[v][age][a]
                      /\ drawn'[v][age][a] + users'[v].remaining[a]
                           <= Larger(users'[v].perDay[a], granted[v][a])
    BY <1>1, <1>2 DEF DrawnIsMissing, Limit
  <2>1. CASE v = u
    <3>1. drawn[u][age][a] + EffectiveAllowance(u, tx.lo)[a] <= Limit(u, a)
      BY <1>1, BudgetIsFree
    <3>2. /\ drawn'[u][age][a] + left[a] = drawn[u][age][a] + EffectiveAllowance(u, tx.lo)[a]
          /\ 0 <= drawn'[u][age][a]
      BY <1>1, <1>3, <1>4, <1>5 DEF AllowanceInvariant, DrawnIsMissing
    <3> QED
      BY <1>2, <2>1, <3>1, <3>2 DEF Limit
  <2>2. CASE v # u
    BY <1>2, <1>6, <2>2, UserFields
    DEF AllowanceInvariant, DrawnIsMissing, Limit
  <2> QED
    BY <2>1, <2>2
<1>9. ResetIsADayAway'
  <2> SUFFICES ASSUME NEW v \in DOMAIN users, NEW a \in Asset, NEW age \in Ages,
                      users'[v].reset + age < now + Day
               PROVE  drawn'[v][age][a] = 0
    BY <1>1, <1>2 DEF ResetIsADayAway
  <2>1. CASE v = u
    <3>1. tx.hi >= now /\ tx.hi \in Int /\ now \in Int
      BY <1>1, TransactionFields, MaxTimeAssumption DEF AllowanceInvariant, FiniteRange
    <3>2. users[u].reset \in Int /\ Day \in Int /\ age \in Nat
      BY UserFields, DayIsLong DEF AllowanceInvariant
    <3>3. NextReset(u, tx.hi) >= now + Day /\ NextReset(u, tx.hi) \in Int
      BY <3>1, <3>2 DEF NextReset, Larger
    <3> QED
      BY <1>2, <2>1, <3>1, <3>2, <3>3
  <2>2. CASE v # u
    BY <1>2, <1>6, <2>2, UserFields DEF AllowanceInvariant, ResetIsADayAway
  <2> QED
    BY <2>1, <2>2
<1> QED
  BY <1>7, <1>8, <1>9 DEF HistoryInvariant

-----------------------------------------------------------------------------
(* Everybody else. *)

LEMMA GrantStep ==
  ASSUME AllowanceInvariant, TypeOK', NEW tx \in Transaction, Grant(tx)
  PROVE  HistoryInvariant'
<1>1. now' = now
  BY AcceptKeepsTime DEF Grant, Accept
<1>2. \A u \in UserId :
        IF Untouched(u) THEN drawn'[u] = drawn[u] /\ granted'[u] = granted[u]
        ELSE drawn'[u] = NothingDrawn
             /\ granted'[u] = IF u \in DOMAIN users' THEN users'[u].remaining ELSE Nothing
  BY DEF Grant
<1>3. \A u \in DOMAIN users' :
        /\ u \in UserId /\ users'[u].perDay \in [Asset -> Int]
        /\ users'[u].remaining \in [Asset -> Int]
        /\ users'[u].reset \in Int
  BY DEF TypeOK, IsTable, User
<1>4. \A age \in Ages, a \in Asset : NothingDrawn[age][a] = 0
  BY DEF NothingDrawn, Nothing, Ages
<1>5. HistoryTypeOK'
  <2>1. NothingDrawn \in [Ages -> [Asset -> Int]] /\ Nothing \in [Asset -> Int]
    BY DEF NothingDrawn, Nothing, Ages
  <2> QED
    BY <1>3, <2>1 DEF Grant, AllowanceInvariant, HistoryTypeOK
<1>6. DrawnIsMissing'
  <2> SUFFICES ASSUME NEW u \in DOMAIN users', NEW a \in Asset, NEW age \in Ages
               PROVE  /\ 0 <= drawn'[u][age][a]
                      /\ drawn'[u][age][a] + users'[u].remaining[a]
                           <= Larger(users'[u].perDay[a], granted'[u][a])
    BY DEF DrawnIsMissing, Limit
  <2>1. CASE Untouched(u)
    BY <1>2, <1>3, <2>1 DEF Untouched, AllowanceInvariant, DrawnIsMissing, Limit
  <2>2. CASE ~Untouched(u)
    <3>1. users'[u].perDay[a] \in Int /\ users'[u].remaining[a] \in Int
      BY <1>3
    <3>2. drawn'[u][age][a] = 0 /\ granted'[u][a] = users'[u].remaining[a]
      BY <1>2, <1>3, <1>4, <2>2
    <3> QED
      BY <3>1, <3>2 DEF Larger
  <2> QED
    BY <2>1, <2>2
<1>7. ResetIsADayAway'
  <2> SUFFICES ASSUME NEW u \in DOMAIN users', NEW a \in Asset, NEW age \in Ages,
                      users'[u].reset + age < now + Day
               PROVE  drawn'[u][age][a] = 0
    BY <1>1 DEF ResetIsADayAway
  <2>1. CASE Untouched(u)
    BY <1>2, <1>3, <2>1 DEF Untouched, AllowanceInvariant, ResetIsADayAway
  <2>2. CASE ~Untouched(u)
    BY <1>2, <1>3, <1>4, <2>2
  <2> QED
    BY <2>1, <2>2
<1> QED
  BY <1>5, <1>6, <1>7 DEF HistoryInvariant

LEMMA AgeStep ==
  ASSUME AllowanceInvariant, Age
  PROVE  HistoryInvariant'
<1>1. now' = now + 1 /\ users' = users /\ granted' = granted /\ now \in Int
  BY MaxTimeAssumption DEF Age, Tick, access, AllowanceInvariant, TypeOK
<1>2. \A u \in UserId, age \in Ages :
        drawn'[u][age] = IF age = 0 THEN Nothing ELSE drawn[u][age - 1]
  BY DEF Age, Ages
<1>3. \A age \in Ages : age # 0 => age - 1 \in Ages
  BY DayAssumption DEF Ages
<1>4. HistoryTypeOK'
  <2>1. Nothing \in [Asset -> Int]
    BY DEF Nothing
  <2> QED
    BY <1>1, <1>3, <2>1 DEF Age, Ages, AllowanceInvariant, HistoryTypeOK
<1>5. \A u \in DOMAIN users, a \in Asset :
        /\ u \in UserId /\ users[u].reset \in Int
        /\ users[u].remaining[a] \in Int /\ Limit(u, a) \in Int
  BY UserFields DEF AllowanceInvariant, HistoryTypeOK, Limit, Larger
<1>6. DrawnIsMissing'
  <2> SUFFICES ASSUME NEW u \in DOMAIN users, NEW a \in Asset, NEW age \in Ages
               PROVE  /\ 0 <= drawn'[u][age][a]
                      /\ drawn'[u][age][a] + users[u].remaining[a] <= Limit(u, a)
    BY <1>1 DEF DrawnIsMissing, Limit
  <2>1. CASE age = 0
    <3>1. drawn'[u][age][a] = 0
      BY <1>2, <1>5, <2>1 DEF Nothing
    <3>2. /\ 0 <= drawn[u][age][a] /\ drawn[u][age][a] \in Int
          /\ drawn[u][age][a] + users[u].remaining[a] <= Limit(u, a)
      BY <1>5 DEF AllowanceInvariant, DrawnIsMissing, HistoryTypeOK
    <3> QED
      BY <1>5, <3>1, <3>2
  <2>2. CASE age # 0
    BY <1>2, <1>3, <1>5, <2>2 DEF AllowanceInvariant, DrawnIsMissing
  <2> QED
    BY <2>1, <2>2
<1>7. ResetIsADayAway'
  <2> SUFFICES ASSUME NEW u \in DOMAIN users, NEW a \in Asset, NEW age \in Ages,
                      users[u].reset + age < now + 1 + Day
               PROVE  drawn'[u][age][a] = 0
    BY <1>1 DEF ResetIsADayAway
  <2>1. CASE age = 0
    BY <1>2, <1>5, <2>1 DEF Nothing
  <2>2. CASE age # 0
    <3>1. users[u].reset + (age - 1) < now + Day
      BY <1>1, <1>5, DayIsLong
    <3> QED
      BY <1>2, <1>3, <1>5, <2>2, <3>1 DEF AllowanceInvariant, ResetIsADayAway
  <2> QED
    BY <2>1, <2>2
<1> QED
  BY <1>4, <1>6, <1>7 DEF HistoryInvariant

LEMMA HistoryIsKept ==
  ASSUME AllowanceInvariant, users' = users, now' = now, drawn' = drawn, granted' = granted
  PROVE  HistoryInvariant'
<1>1. HistoryTypeOK'
  BY DEF AllowanceInvariant, HistoryTypeOK
<1>2. DrawnIsMissing'
  BY DEF AllowanceInvariant, DrawnIsMissing, Limit
<1>3. ResetIsADayAway'
  BY DEF AllowanceInvariant, ResetIsADayAway
<1> QED
  BY <1>1, <1>2, <1>3 DEF HistoryInvariant

LEMMA AllowanceStep ==
  ASSUME AllowanceInvariant, [AllowanceNext]_allowanceVars
  PROVE  AllowanceInvariant'
<1>1. TypeOK'
  BY AllowanceStepIsStep, TypeStep DEF AllowanceInvariant
<1>2. ASSUME NEW tx \in Transaction, Other(tx)
      PROVE  HistoryInvariant'
  BY <1>2, OthersLeaveUsers, HistoryIsKept DEF Other
<1>3. ASSUME UNCHANGED allowanceVars
      PROVE  HistoryInvariant'
  <2>1. users' = users /\ now' = now /\ drawn' = drawn /\ granted' = granted
    BY <1>3 DEF allowanceVars, vars
  <2> QED
    BY <2>1, HistoryIsKept
<1>4. HistoryInvariant'
  <2>1. ASSUME NEW tx \in Transaction, Draw(tx)
        PROVE  HistoryInvariant'
    BY <2>1, DrawStep
  <2>2. ASSUME NEW tx \in Transaction, Grant(tx)
        PROVE  HistoryInvariant'
    BY <1>1, <2>2, GrantStep
  <2>3. CASE Age
    BY <2>3, AgeStep
  <2> QED
    BY <1>2, <1>3, <2>1, <2>2, <2>3 DEF AllowanceNext
<1> QED
  BY <1>1, <1>4 DEF AllowanceInvariant, HistoryInvariant

LEMMA AllowanceInitially ==
  ASSUME AllowanceInit, TypeOK
  PROVE  AllowanceInvariant
<1>1. \A u \in DOMAIN users :
        /\ u \in UserId /\ users[u].perDay \in [Asset -> Int]
        /\ users[u].remaining \in [Asset -> Int]
  BY UserFields
<1>2. Nothing \in [Asset -> Int] /\ NothingDrawn \in [Ages -> [Asset -> Int]]
  BY DEF Nothing, NothingDrawn, Ages
<1>3. HistoryTypeOK
  BY <1>1, <1>2 DEF AllowanceInit, HistoryTypeOK
<1>4. \A u \in DOMAIN users, a \in Asset, age \in Ages :
        /\ drawn[u][age][a] = 0
        /\ granted[u][a] = users[u].remaining[a]
  BY <1>1 DEF AllowanceInit, NothingDrawn, Nothing, Ages
<1>5. DrawnIsMissing
  BY <1>1, <1>4 DEF DrawnIsMissing, Limit, Larger
<1> QED
  BY <1>3, <1>4, <1>5 DEF AllowanceInvariant, ResetIsADayAway

\* No choice of ranges lets a user draw more within a day than a day's budget, or
\* the larger remainder it was configured with, for any number of users, assets
\* and draws (user_handlers.ak, eval_use_allowance).
THEOREM DailyLimitHolds == AllowanceSpec => []DailyLimit
<1>1. AllowanceSpec => Spec
  <2>1. AllowanceInit => Init
    BY DEF AllowanceInit
  <2>2. [AllowanceNext]_allowanceVars => [Next]_vars
    BY AllowanceStepIsStep
  <2> QED
    BY <2>1, <2>2, PTL DEF AllowanceSpec, Spec
<1>2. AllowanceSpec => []ConfigurationStaysValid
  BY <1>1, ConfigurationIsInvariant, PTL
<1>3. AllowanceInit /\ TypeOK => AllowanceInvariant
  BY AllowanceInitially
<1>4. AllowanceInvariant /\ [AllowanceNext]_allowanceVars => AllowanceInvariant'
  BY AllowanceStep
<1>5. AllowanceInvariant /\ ConfigurationStaysValid => DailyLimit
  <2> SUFFICES ASSUME AllowanceInvariant, ConfigurationStaysValid,
                      NEW u \in DOMAIN users, NEW a \in Asset
               PROVE  drawn[u][Day - 1][a] <= Limit(u, a)
    BY DEF DailyLimit, Limit
  <2>1. /\ u \in UserId /\ users[u].perDay[a] \in Int /\ users[u].remaining[a] \in Int
        /\ a \in DOMAIN users[u].remaining
    BY UserFields DEF AllowanceInvariant
  <2>2. users[u].remaining[a] >= 0
    BY <2>1 DEF ConfigurationStaysValid, CurrentConfiguration, ValidConfiguration,
       AccessIsValid, UsersAreValid, Bounded
  <2>3. drawn[u][Day - 1][a] \in Int /\ Limit(u, a) \in Int
    BY <2>1, DayIsLong DEF AllowanceInvariant, HistoryTypeOK, Limit, Larger
  <2>4. drawn[u][Day - 1][a] + users[u].remaining[a] <= Limit(u, a)
    BY DayIsLong DEF AllowanceInvariant, DrawnIsMissing
  <2> QED
    BY <2>1, <2>2, <2>3, <2>4
<1> QED
  BY <1>1, <1>2, <1>3, <1>4, <1>5, TypeCorrect, PTL DEF AllowanceSpec
-----------------------------------------------------------------------------
(* The final recovery: who may still stop a stream. *)

\* The streams somebody may still stop: one that was cut off at the clock's last
\* stamp cannot be cut off again, since every later range lies behind the stamp.
Stoppable ==
  {s \in DOMAIN streams : stamp = None \/ streams[s].end > Larger(streams[s].start, stamp)}

\* The clock has been used since the deadline: every later range begins after it.
StampIsPastDeadline ==
  stamp # None /\ \E b \in DOMAIN beneficiaries : IsSole(b) /\ BeneficiaryUnlockTime(b) <= stamp

Headroom == MaxStreams + IF StampIsPastDeadline THEN 1 ELSE 0

DelayInvariant ==
  /\ delays \in Nat
  /\ delays + Cardinality(Stoppable) <= Headroom
  /\ ~FinalRecoveryIsOpen => delays = 0

-----------------------------------------------------------------------------
\* What can be stopped is among the streams, which are few.
LEMMA FewStreams ==
  ASSUME NEW ss, DOMAIN ss \subseteq StreamId, StreamsAreValid(ss), NEW S, S \subseteq DOMAIN ss
  PROVE  IsFiniteSet(S) /\ Cardinality(S) \in Nat /\ Cardinality(S) <= MaxStreams
<1>1. IsFiniteSet(DOMAIN ss)
  BY IdAssumption, FS_Subset
<1>2. IsFiniteSet(S) /\ Cardinality(S) <= Cardinality(DOMAIN ss)
  BY <1>1, FS_Subset
<1>3. Cardinality(S) \in Nat /\ Cardinality(DOMAIN ss) \in Nat
  BY <1>1, <1>2, FS_CardinalityType
<1> QED
  BY <1>2, <1>3, MaxStreamsAssumption DEF StreamsAreValid

LEMMA StoppableIsSmall ==
  ASSUME TypeOK, StreamsAreValid(streams)
  PROVE  IsFiniteSet(Stoppable) /\ Cardinality(Stoppable) \in Nat
         /\ Cardinality(Stoppable) <= MaxStreams
<1>1. DOMAIN streams \subseteq StreamId /\ Stoppable \subseteq DOMAIN streams
  BY DEF TypeOK, IsTable, Stoppable
<1> QED
  BY <1>1, FewStreams

LEMMA StoppableIsSmallAfter ==
  ASSUME TypeOK', StreamsAreValid(streams')
  PROVE  IsFiniteSet(Stoppable') /\ Cardinality(Stoppable') \in Nat
         /\ Cardinality(Stoppable') <= MaxStreams
<1>1. DOMAIN streams' \subseteq StreamId /\ Stoppable' \subseteq DOMAIN streams'
  BY DEF TypeOK, IsTable, Stoppable
<1> QED
  BY <1>1, FewStreams

\* The count starts at nothing whenever it starts again.
LEMMA FreshCount ==
  ASSUME TypeOK, StreamsAreValid(streams), delays = 0
  PROVE  DelayInvariant
BY StoppableIsSmall, MaxStreamsAssumption DEF DelayInvariant, Headroom

LEMMA DelayStepIsStep ==
  ASSUME [DelayNext]_delayVars
  PROVE  [Next]_vars
BY DEF DelayNext, delayVars, Intervene, Proceed, Next, Accept

-----------------------------------------------------------------------------
(* Once the recovery is open. *)

\* Without an operator and a renewal the deadline and the last beneficiary stay.
LEMMA OpenStaysOpen ==
  ASSUME TypeOK, NEW tx \in Transaction, FinalRecoveryIsOpen,
         RenewProofOfLife(tx) \/ UseAllowance(tx) \/ Recover(tx) \/ Settle(tx),
         unlock' = unlock
  PROVE  beneficiaries' = beneficiaries /\ now' = now /\ FinalRecoveryIsOpen'
<1>1. PICK b \in DOMAIN beneficiaries : IsSole(b)
  BY DEF FinalRecoveryIsOpen
<1>2. CASE RenewProofOfLife(tx) \/ UseAllowance(tx)
  BY <1>2 DEF RenewProofOfLife, UseAllowance, access, FinalRecoveryIsOpen, IsSole, IsUnlockedAt,
     BeneficiaryUnlockTime
<1>3. CASE Recover(tx)
  <2>1. beneficiaries' = beneficiaries /\ now' = now
    BY <1>1, <1>3 DEF Recover, UseBeneficiary, DistributeBeneficiaries, StopBeneficiaryStream,
       StopStream, access, IsSole
  <2> QED
    BY <2>1 DEF FinalRecoveryIsOpen, IsSole, IsUnlockedAt, BeneficiaryUnlockTime
<1>4. CASE Settle(tx)
  <2>1. beneficiaries' = beneficiaries /\ now' = now
    BY <1>4 DEF Settle, CancelStreamingPayment, StopStream, PayStreamingPayment, Consolidate,
       vars, access
  <2> QED
    BY <2>1 DEF FinalRecoveryIsOpen, IsSole, IsUnlockedAt, BeneficiaryUnlockTime
<1> QED
  BY <1>2, <1>3, <1>4

\* Those transactions only shorten, pay and remove streams.
LEMMA StreamsOnlyEnd ==
  ASSUME TypeOK, NEW tx \in Transaction,
         RenewProofOfLife(tx) \/ UseAllowance(tx) \/ Recover(tx) \/ Settle(tx)
  PROVE  \A s \in DOMAIN streams' :
           /\ s \in DOMAIN streams
           /\ streams'[s].start = streams[s].start
           /\ streams'[s].end <= streams[s].end
           /\ streams'[s].start \in Int /\ streams'[s].end \in Int /\ streams[s].end \in Int
<1>1. \A s \in DOMAIN streams :
        streams[s] \in StreamingPayment /\ streams[s].start \in Int /\ streams[s].end \in Int
  BY DEF TypeOK, IsTable, StreamingPayment
<1>2. ASSUME NEW s \in DOMAIN streams, NEW exact, StopStream(tx, s, exact)
      PROVE  \A r \in DOMAIN streams' :
               /\ r \in DOMAIN streams
               /\ streams'[r].start = streams[r].start
               /\ streams'[r].end <= streams[r].end
               /\ streams'[r].end \in Int
  <2>1. PICK end \in Time : end < streams[s].end /\ streams' = [streams EXCEPT ![s].end = end]
    BY <1>2 DEF StopStream
  <2>2. end \in Int
    BY MaxStateIntegerAssumption DEF Time
  <2>3. DOMAIN streams' = DOMAIN streams
    BY <2>1
  <2>4. streams'[s].end = end /\ streams'[s].start = streams[s].start
    BY <2>1, <1>1 DEF StreamingPayment
  <2>5. \A r \in DOMAIN streams \ {s} : streams'[r] = streams[r]
    BY <2>1
  <2> QED
    BY <1>1, <2>1, <2>2, <2>3, <2>4, <2>5
<1>3. CASE PayStreamingPayment(tx)
  <2>1. PICK kept \in SUBSET DOMAIN streams :
          \E paid \in [kept -> 0..MaxStateInteger] : Settled(tx, kept, paid)
    BY <1>3 DEF PayStreamingPayment
  <2>2. PICK paid \in [kept -> 0..MaxStateInteger] : Settled(tx, kept, paid)
    BY <2>1
  <2>3. streams' = [s \in kept |-> [streams[s] EXCEPT !.paid = paid[s]]]
    BY <2>2 DEF Settled
  <2>4. \A s \in kept : streams'[s].start = streams[s].start /\ streams'[s].end = streams[s].end
    BY <1>1, <2>1, <2>3 DEF StreamingPayment
  <2> QED
    BY <1>1, <2>1, <2>3, <2>4
<1>4. CASE streams' = streams
  BY <1>1, <1>4
<1>5. \/ streams' = streams \/ PayStreamingPayment(tx)
      \/ \E s \in DOMAIN streams : StopStream(tx, s, TRUE)
      \/ \E s \in DOMAIN streams : StopStream(tx, s, FinalRecoveryIsActive(tx))
  BY DEF RenewProofOfLife, UseAllowance, Recover, UseBeneficiary, DistributeBeneficiaries,
     StopBeneficiaryStream, Settle, CancelStreamingPayment, Consolidate, vars
<1> QED
  BY <1>1, <1>2, <1>3, <1>4, <1>5

\* The clock only moves forward, and what is behind it stays there.
LEMMA StoppableShrinks ==
  ASSUME TypeOK, NEW tx \in Transaction,
         RenewProofOfLife(tx) \/ UseAllowance(tx) \/ Recover(tx) \/ Settle(tx)
  PROVE  Stoppable' \subseteq Stoppable
<1> SUFFICES ASSUME NEW s \in Stoppable', stamp # None
             PROVE  s \in DOMAIN streams /\ streams[s].end > Larger(streams[s].start, stamp)
  BY StreamsOnlyEnd DEF Stoppable
<1>1. /\ s \in DOMAIN streams' /\ s \in DOMAIN streams
      /\ streams'[s].start = streams[s].start /\ streams'[s].end <= streams[s].end
      /\ streams'[s].start \in Int /\ streams'[s].end \in Int /\ streams[s].end \in Int
  BY StreamsOnlyEnd DEF Stoppable
<1>2. stamp \in Int
  BY DEF TypeOK
<1>3. stamp' \in Int /\ stamp <= stamp' /\ stamp' # None
  <2>1. CASE stamp' = stamp
    BY <1>2, <2>1, NoneAssumption
  <2>2. CASE NonAdminCadence(tx)
    <3>1. stamp' \in 0..MaxStateInteger /\ now <= stamp' /\ now >= stamp + Cooldown
      BY <2>2, CadenceFacts
    <3>2. now \in Int
      BY MaxTimeAssumption DEF TypeOK
    <3> QED
      BY <1>2, <3>1, <3>2, CooldownAssumption, MaxStateIntegerAssumption, NoneAssumption
  <2> QED
    BY <2>1, <2>2, AcceptKeepsTime DEF Accept
<1>4. streams'[s].end > Larger(streams'[s].start, stamp')
  BY <1>3 DEF Stoppable
<1> QED
  BY <1>1, <1>2, <1>3, <1>4 DEF Larger

\* Somebody else may use the clock once before the deadline of its own range, and
\* then only to cut off a stream for good.
LEMMA PushingBackTakesSomething ==
  ASSUME TypeOK, NEW tx \in Transaction, FinalRecoveryIsOpen,
         RenewProofOfLife(tx) \/ UseAllowance(tx) \/ Recover(tx) \/ Settle(tx),
         unlock' = unlock, stamp' # stamp, ~SignedByBeneficiary(tx)
  PROVE  \/ \E s \in Stoppable : s \notin Stoppable'
         \/ ~StampIsPastDeadline /\ StampIsPastDeadline'
<1>1. NonAdminCadence(tx)
  BY AcceptKeepsTime DEF Accept
<1>2. /\ tx.lo \in 0..now /\ tx.hi \in now..MaxStateInteger
      /\ tx.lo # None /\ tx.hi # None /\ now \in Int /\ stamp' = tx.hi
      /\ stamp # None => stamp \in Int /\ tx.lo >= stamp + Cooldown
  BY <1>1, TransactionFields DEF NonAdminCadence, FiniteRange, TypeOK
<1>3. PICK b \in DOMAIN beneficiaries : IsSole(b) /\ IsUnlockedAt(b, now)
  BY DEF FinalRecoveryIsOpen
<1>4. /\ unlock # None /\ BeneficiaryUnlockTime(b) \in Int
      /\ BeneficiaryUnlockTime(b) <= now
  <2>1. unlock \in Int /\ beneficiaries[b].after \in Int \cup {None}
    BY <1>3 DEF IsUnlockedAt, TypeOK, IsTable, Beneficiary
  <2> QED
    BY <1>3, <2>1 DEF IsUnlockedAt, BeneficiaryUnlockTime, Larger
<1>5. CASE FinalRecoveryIsActive(tx)
  <2>1. PICK s \in DOMAIN streams : CancelStreamingPayment(tx, s)
    <3>1. ~Recover(tx)
      BY DEF Recover, UseBeneficiary, DistributeBeneficiaries, StopBeneficiaryStream,
         UnlockedSigners, SignedByBeneficiary
    <3>2. ~PayStreamingPayment(tx)
      BY <1>5 DEF PayStreamingPayment, CrankIsAuthorized, UnlockedSigners, SignedByBeneficiary
    <3> QED
      BY <3>1, <3>2 DEF RenewProofOfLife, UseAllowance, Settle, Consolidate, vars
  <2>2. PICK end \in Time :
          /\ end < streams[s].end /\ end = Cutoff(streams[s], tx.hi)
          /\ streams' = [streams EXCEPT ![s].end = end]
    BY <1>5, <2>1 DEF CancelStreamingPayment, StopStream
  <2>3. /\ streams[s] \in StreamingPayment /\ streams[s].start \in Int /\ streams[s].end \in Int
    BY DEF TypeOK, IsTable, StreamingPayment
  <2>4. streams'[s].end = end /\ streams'[s].start = streams[s].start
    BY <2>2, <2>3 DEF StreamingPayment
  <2>5. s \in Stoppable
    BY <1>2, <2>2, <2>3, CooldownAssumption DEF Stoppable, Cutoff, Larger
  <2>6. s \notin Stoppable'
    BY <1>2, <2>2, <2>3, <2>4 DEF Stoppable, Cutoff, Larger
  <2> QED
    BY <2>5, <2>6
<1>6. CASE ~FinalRecoveryIsActive(tx)
  <2>1. tx.lo < BeneficiaryUnlockTime(b)
    BY <1>2, <1>3, <1>4, <1>6 DEF FinalRecoveryIsActive, IsUnlocked, IsUnlockedAt
  <2>2. \A c \in DOMAIN beneficiaries : c = b
    BY <1>3 DEF IsSole
  <2>3. ~StampIsPastDeadline
    BY <1>2, <1>4, <2>1, <2>2, CooldownAssumption DEF StampIsPastDeadline
  <2>4. beneficiaries' = beneficiaries
    BY OpenStaysOpen
  <2>5. BeneficiaryUnlockTime(b) <= tx.hi
    BY <1>2, <1>4
  <2>6. StampIsPastDeadline'
    BY <1>2, <1>3, <2>4, <2>5 DEF StampIsPastDeadline, IsSole, BeneficiaryUnlockTime
  <2> QED
    BY <2>3, <2>6
<1> QED
  BY <1>5, <1>6

\* What the clock has passed it stays past.
LEMMA DeadlineStaysPast ==
  ASSUME TypeOK, NEW tx \in Transaction, FinalRecoveryIsOpen, StampIsPastDeadline,
         RenewProofOfLife(tx) \/ UseAllowance(tx) \/ Recover(tx) \/ Settle(tx),
         unlock' = unlock
  PROVE  StampIsPastDeadline'
<1>1. PICK b \in DOMAIN beneficiaries : IsSole(b) /\ BeneficiaryUnlockTime(b) <= stamp
  BY DEF StampIsPastDeadline
<1>2. beneficiaries' = beneficiaries /\ stamp \in Int
  BY OpenStaysOpen DEF StampIsPastDeadline, TypeOK
<1>3. BeneficiaryUnlockTime(b) \in Int
  <2>1. unlock \in Int /\ beneficiaries[b].after \in Int \cup {None}
    BY DEF FinalRecoveryIsOpen, IsUnlockedAt, TypeOK, IsTable, Beneficiary
  <2> QED
    BY <2>1 DEF BeneficiaryUnlockTime, Larger
<1>4. stamp' \in Int /\ stamp <= stamp'
  <2>1. CASE stamp' = stamp
    BY <1>2, <2>1
  <2>2. CASE NonAdminCadence(tx)
    <3>1. stamp' \in 0..MaxStateInteger /\ now <= stamp' /\ now >= stamp + Cooldown
      BY <2>2, CadenceFacts DEF StampIsPastDeadline
    <3>2. now \in Int
      BY MaxTimeAssumption DEF TypeOK
    <3> QED
      BY <1>2, <3>1, <3>2, CooldownAssumption, MaxStateIntegerAssumption
  <2> QED
    BY <2>1, <2>2, AcceptKeepsTime DEF Accept
<1>5. BeneficiaryUnlockTime(b) <= stamp'
  BY <1>1, <1>2, <1>3, <1>4
<1> QED
  BY <1>1, <1>2, <1>4, <1>5, NoneAssumption DEF StampIsPastDeadline, IsSole, BeneficiaryUnlockTime

-----------------------------------------------------------------------------
LEMMA ProceedStep ==
  ASSUME TypeOK, TypeOK', StreamsAreValid(streams), StreamsAreValid(streams'),
         DelayInvariant, NEW tx \in Transaction, Proceed(tx)
  PROVE  DelayInvariant'
<1>1. CASE delays' = 0
  <2>1. IsFiniteSet(Stoppable') /\ Cardinality(Stoppable') \in Nat
        /\ Cardinality(Stoppable') <= MaxStreams
    BY StoppableIsSmallAfter
  <2> QED
    BY <1>1, <2>1, MaxStreamsAssumption DEF DelayInvariant, Headroom
<1>2. CASE FinalRecoveryIsOpen /\ unlock' = unlock
  <2>1. FinalRecoveryIsOpen'
    BY <1>2, OpenStaysOpen DEF Proceed
  <2>2. IsFiniteSet(Stoppable) /\ Cardinality(Stoppable) \in Nat
    BY StoppableIsSmall
  <2>3. Stoppable' \subseteq Stoppable
    BY StoppableShrinks DEF Proceed
  <2>4. IsFiniteSet(Stoppable') /\ Cardinality(Stoppable') <= Cardinality(Stoppable)
        /\ Cardinality(Stoppable') \in Nat
    BY <2>2, <2>3, FS_Subset, FS_CardinalityType
  <2>5. StampIsPastDeadline => StampIsPastDeadline'
    BY <1>2, DeadlineStaysPast DEF Proceed
  <2>6. CASE delays' = delays
    BY <2>1, <2>2, <2>4, <2>5, <2>6, MaxStreamsAssumption DEF DelayInvariant, Headroom
  <2>7. CASE delays' = delays + 1 /\ stamp' # stamp /\ ~SignedByBeneficiary(tx)
    <3>1. CASE \E s \in Stoppable : s \notin Stoppable'
      <4>1. PICK s \in Stoppable : s \notin Stoppable'
        BY <3>1
      <4>2. /\ IsFiniteSet(Stoppable \ {s})
            /\ Cardinality(Stoppable \ {s}) = Cardinality(Stoppable) - 1
        BY <2>2, <4>1, FS_RemoveElement
      <4>3. Cardinality(Stoppable') <= Cardinality(Stoppable \ {s})
        BY <2>3, <4>1, <4>2, FS_Subset
      <4> QED
        BY <2>1, <2>2, <2>4, <2>5, <2>7, <4>2, <4>3, MaxStreamsAssumption
        DEF DelayInvariant, Headroom
    <3>2. CASE ~StampIsPastDeadline /\ StampIsPastDeadline'
      BY <2>1, <2>2, <2>4, <2>7, <3>2, MaxStreamsAssumption DEF DelayInvariant, Headroom
    <3> QED
      BY <1>2, <2>7, <3>1, <3>2, PushingBackTakesSomething DEF Proceed
  <2> QED
    BY <1>2, <2>6, <2>7 DEF Proceed
<1> QED
  BY <1>1, <1>2 DEF Proceed

LEMMA DelayStep ==
  ASSUME TypeOK, TypeOK', StreamsAreValid(streams), StreamsAreValid(streams'),
         DelayInvariant, [DelayNext]_delayVars
  PROVE  DelayInvariant'
<1>1. CASE Tick /\ UNCHANGED delays
  <2>1. /\ Stoppable' = Stoppable /\ Headroom' = Headroom /\ delays' = delays
    BY <1>1 DEF Tick, access, Stoppable, Headroom, StampIsPastDeadline, IsSole,
       BeneficiaryUnlockTime
  <2>2. FinalRecoveryIsOpen => FinalRecoveryIsOpen'
    <3> SUFFICES ASSUME NEW b \in DOMAIN beneficiaries, IsSole(b), IsUnlockedAt(b, now)
                 PROVE  FinalRecoveryIsOpen'
      BY DEF FinalRecoveryIsOpen
    <3>1. BeneficiaryUnlockTime(b) \in Int
      <4>1. unlock \in Int /\ beneficiaries[b].after \in Int \cup {None}
        BY DEF IsUnlockedAt, TypeOK, IsTable, Beneficiary
      <4> QED
        BY <4>1 DEF BeneficiaryUnlockTime, Larger
    <3>2. now \in Int /\ now' = now + 1 /\ unlock' = unlock /\ beneficiaries' = beneficiaries
      BY <1>1, MaxTimeAssumption DEF TypeOK, Tick, access
    <3>3. BeneficiaryUnlockTime(b)' = BeneficiaryUnlockTime(b)
      BY <3>2 DEF BeneficiaryUnlockTime
    <3> QED
      BY <3>1, <3>2, <3>3 DEF FinalRecoveryIsOpen, IsSole, IsUnlockedAt
  <2> QED
    BY <2>1, <2>2 DEF DelayInvariant
<1>2. ASSUME NEW tx \in Transaction, Intervene(tx)
      PROVE  DelayInvariant'
  <2>1. IsFiniteSet(Stoppable') /\ Cardinality(Stoppable') \in Nat
        /\ Cardinality(Stoppable') <= MaxStreams
    BY StoppableIsSmallAfter
  <2> QED
    BY <1>2, <2>1, MaxStreamsAssumption DEF Intervene, DelayInvariant, Headroom
<1>3. CASE UNCHANGED delayVars
  BY <1>3 DEF delayVars, vars, DelayInvariant, Stoppable, Headroom, StampIsPastDeadline,
     IsSole, BeneficiaryUnlockTime, FinalRecoveryIsOpen, IsUnlockedAt
<1> QED
  BY <1>1, <1>2, <1>3, ProceedStep DEF DelayNext

\* Once its recovery has opened, the last beneficiary waits for nobody more often
\* than once per stream and once more, for any streams, keys and ranges
\* (settlement_handlers.ak, above eval_cancel_streaming_payment).
THEOREM DelaysAreBounded == DelaySpec => []DelayIsBounded
<1>1. DelaySpec => Spec
  <2>1. DelayInit => Init
    BY DEF DelayInit
  <2>2. [DelayNext]_delayVars => [Next]_vars
    BY DelayStepIsStep
  <2> QED
    BY <2>1, <2>2, PTL DEF DelaySpec, Spec
<1>2. ConfigurationStaysValid => StreamsAreValid(streams)
  BY DEF ConfigurationStaysValid, ValidConfiguration
<1>3. TypeOK /\ StreamsAreValid(streams) /\ DelayInit => DelayInvariant
  BY FreshCount DEF DelayInit
<1>4. TypeOK /\ TypeOK' /\ StreamsAreValid(streams) /\ StreamsAreValid(streams)'
        /\ DelayInvariant /\ [DelayNext]_delayVars => DelayInvariant'
  BY DelayStep
<1>5. TypeOK /\ StreamsAreValid(streams) /\ DelayInvariant => DelayIsBounded
  <2> SUFFICES ASSUME TypeOK, StreamsAreValid(streams), DelayInvariant
               PROVE  DelayIsBounded
    OBVIOUS
  <2>1. Cardinality(Stoppable) \in Nat
    BY StoppableIsSmall
  <2> QED
    BY <2>1, MaxStreamsAssumption DEF DelayInvariant, DelayIsBounded, Headroom
<1> QED
  BY <1>1, <1>2, <1>3, <1>4, <1>5, TypeCorrect, ConfigurationIsInvariant, PTL DEF DelaySpec

-----------------------------------------------------------------------------
(* What the dApp builds is what the contract accepts. *)

\* A transaction the dApp builds is one of the ledger's: its range covers the
\* present, and both ends are closed.
LEMMA BuilderRange ==
  ASSUME TypeOK, NEW tx \in BuilderTransaction
  PROVE  /\ tx \in Transaction
         /\ FiniteRange(tx)
         /\ tx.lo \in 0..now /\ tx.hi \in now..MaxStateInteger
         /\ tx.signers \subseteq SigningKey
<1>1. now \in Int
  BY MaxTimeAssumption DEF TypeOK
<1>2. PICK from \in Larger(0, now - BuildWindow)..Smaller(now, MaxStateInteger - BuildWindow),
           keys \in SUBSET SigningKey \ {{}} :
             tx = [lo |-> from, hi |-> from + BuildWindow, signers |-> keys]
  BY DEF BuilderTransaction
<1>3. from \in 0..now /\ from + BuildWindow \in now..MaxStateInteger
  BY <1>1, BuildWindowAssumption, MaxStateIntegerAssumption DEF Larger, Smaller
<1> QED
  BY <1>2, <1>3, <1>1, NoneAssumption DEF Transaction, FiniteRange

\* At most one of the given sets holds a key: they are pairwise disjoint.
LEMMA OneHolder ==
  ASSUME NEW records, IsFiniteSet(records)
  PROVE  Cardinality(records) <= 1 <=> \A r, q \in records : r = q
<1>1. CASE records = {}
  BY <1>1, FS_EmptySet
<1>2. ASSUME NEW r \in records, \A q \in records : r = q
      PROVE  Cardinality(records) <= 1
  <2>1. records = {r}
    BY <1>2
  <2> QED
    BY <2>1, FS_Singleton
<1>3. ASSUME NEW r \in records, NEW q \in records, r # q
      PROVE  ~ (Cardinality(records) <= 1)
  <2>1. {r} \subseteq records /\ {r} # records
    BY <1>3
  <2>2. Cardinality({r}) = 1 /\ Cardinality(records) \in Nat
    BY FS_Singleton, FS_CardinalityType
  <2>3. Cardinality({r}) <= Cardinality(records) /\ Cardinality({r}) # Cardinality(records)
    BY <2>1, FS_Subset
  <2> QED
    BY <2>2, <2>3
<1> QED
  BY <1>1, <1>2, <1>3

\* Of one key at a time, or of two records at a time: nobody counts twice.
LEMMA ClientUsersAgree ==
  ASSUME NEW us, IsTable(us, UserId, User)
  PROVE  /\ Cardinality(DOMAIN us) <= MaxUsers
         /\ \A u \in DOMAIN us : ClientUser(us[u])
         /\ \A key \in Key : Cardinality(PoweredRecords(us, key)) <= 1
         <=> UsersAreValid(us)
<1>1. ASSUME NEW u \in DOMAIN us
      PROVE  /\ us[u] \in User
             /\ ClientUser(us[u]) <=>
                  /\ Bounded(us[u].reset) /\ Bounded(us[u].power)
                  /\ \A a \in DOMAIN us[u].perDay : Bounded(us[u].perDay[a])
                  /\ \A a \in DOMAIN us[u].remaining : Bounded(us[u].remaining[a])
  <2>1. us[u] \in User
    BY DEF IsTable
  <2>2. /\ us[u].reset \in Int /\ us[u].power \in Int
        /\ DOMAIN us[u].perDay = Asset /\ DOMAIN us[u].remaining = Asset
        /\ \A a \in Asset : us[u].perDay[a] \in Int /\ us[u].remaining[a] \in Int
    BY <2>1 DEF User
  <2>3. \A n \in Int : n \in Time <=> Bounded(n)
    BY MaxStateIntegerAssumption DEF Time, Bounded
  <2> QED
    BY <2>1, <2>2, <2>3 DEF ClientUser
<1>2. ASSUME NEW key \in Key
      PROVE  Cardinality(PoweredRecords(us, key)) <= 1
             <=> \A u, v \in PoweredRecords(us, key) : u = v
  <2>1. IsFiniteSet(PoweredRecords(us, key))
    BY IdAssumption, FS_Subset DEF PoweredRecords, IsTable
  <2> QED
    BY <2>1, OneHolder
<1>3. ASSUME NEW u \in DOMAIN us
      PROVE  us[u].wallets \subseteq Key
  BY <1>1 DEF User
<1>4. (\A key \in Key : \A u, v \in PoweredRecords(us, key) : u = v)
        <=> \A u, v \in DOMAIN us :
              u # v /\ us[u].power > 0 /\ us[v].power > 0
                => us[u].wallets \cap us[v].wallets = {}
  BY <1>3 DEF PoweredRecords
<1> QED
  BY <1>1, <1>2, <1>4 DEF UsersAreValid

LEMMA ClientBeneficiariesAgree ==
  ASSUME NEW bs, IsTable(bs, BeneficiaryId, Beneficiary)
  PROVE  /\ \A b \in DOMAIN bs : ClientBeneficiary(bs[b])
         /\ \A key \in Key : Cardinality(HoldersOf(bs, key)) <= 1
         <=> BeneficiariesAreValid(bs)
<1>1. ASSUME NEW b \in DOMAIN bs
      PROVE  /\ bs[b] \in Beneficiary
             /\ ClientBeneficiary(bs[b]) <=>
                  /\ bs[b].weight >= 1 /\ Bounded(bs[b].weight)
                  /\ BoundedOption(bs[b].after)
                  /\ bs[b].wallets # {}
  <2>1. bs[b] \in Beneficiary
    BY DEF IsTable
  <2>2. bs[b].weight \in Int
    BY <2>1 DEF Beneficiary
  <2>3. \A n \in Int : n \in Time \ {0} <=> n >= 1 /\ Bounded(n)
    BY MaxStateIntegerAssumption DEF Time, Bounded
  <2> QED
    BY <2>1, <2>2, <2>3 DEF ClientBeneficiary, ClientOption, BoundedOption, Bounded
<1>2. ASSUME NEW key \in Key
      PROVE  Cardinality(HoldersOf(bs, key)) <= 1 <=> \A b, c \in HoldersOf(bs, key) : b = c
  <2>1. IsFiniteSet(HoldersOf(bs, key))
    BY IdAssumption, FS_Subset DEF HoldersOf, IsTable
  <2> QED
    BY <2>1, OneHolder
<1>3. ASSUME NEW b \in DOMAIN bs
      PROVE  bs[b].wallets \subseteq Key
  BY <1>1 DEF Beneficiary
<1>4. (\A key \in Key : \A b, c \in HoldersOf(bs, key) : b = c)
        <=> \A b, c \in DOMAIN bs : b # c => bs[b].wallets \cap bs[c].wallets = {}
  BY <1>3 DEF HoldersOf
<1> QED
  BY <1>1, <1>2, <1>4 DEF BeneficiariesAreValid

\* The client's sum leaves negative powers out, where none is left to leave out.
LEMMA ClientQuorumAgrees ==
  ASSUME NEW us, IsTable(us, UserId, User), UsersAreValid(us), NEW required \in Int \cup {None}
  PROVE  QuorumIsReachable(us, required) <=> MultisigThresholdIsMet(us, required, Signable(us))
<1>1. [u \in DOMAIN us |-> Larger(0, us[u].power)] = Power(us)
  <2>1. ASSUME NEW u \in DOMAIN us
        PROVE  Larger(0, us[u].power) = us[u].power
    BY DEF IsTable, User, UsersAreValid, Bounded, Larger
  <2> QED
    BY <2>1 DEF Power
<1>2. {u \in DOMAIN us : us[u].wallets # {}} = Signable(us)
  BY DEF Signable
<1> QED
  BY <1>1, <1>2, Zenon DEF QuorumIsReachable, MultisigThresholdIsMet, SummedPower

\* A stream that is not overpaid passes one check exactly if it passes the other.
LEMMA ClientStreamAgrees ==
  ASSUME NEW p \in StreamingPayment, p.paid <= LifetimeTotal(p)
  PROVE  ClientStream(p) <=> StreamIsShaped(p)
<1>1. /\ p.paid \in Int /\ p.rate \in Int /\ p.start \in Int /\ p.end \in Int
  BY DEF StreamingPayment
<1>2. \A n \in Int : n \in Time <=> Bounded(n)
  BY MaxStateIntegerAssumption DEF Time, Bounded
<1>3. {p.paid, p.rate, p.start, p.end} \subseteq Time
        <=> Bounded(p.start) /\ Bounded(p.end) /\ Bounded(p.rate) /\ Bounded(p.paid)
  BY <1>1, <1>2
<1>4. LifetimeTotal(p) = ((p.end - p.start) * p.rate) \div Day
  BY DEF LifetimeTotal, PayoutForElapsed
<1> QED
  BY <1>3, <1>4, Zenon DEF ClientStream, StreamIsShaped

IsConfiguration(c) ==
  /\ IsTable(c.users, UserId, User)
  /\ c.threshold \in Int \cup {None}
  /\ IsTable(c.beneficiaries, BeneficiaryId, Beneficiary)
  /\ c.unlock \in Int \cup {None}
  /\ c.increment \in Int \cup {None}

\* The client's validation of a State and the contract's, written twice in two
\* languages, accept the same configurations beside streams that are not overpaid.
THEOREM ClientAndContractAgree ==
  ASSUME NEW c, IsConfiguration(c),
         NEW ss, IsTable(ss, StreamId, StreamingPayment),
         \A s \in DOMAIN ss : ss[s].paid <= LifetimeTotal(ss[s]),
         NEW stampedAt \in Int \cup {None}
  PROVE  ClientAccepts(c, ss, stampedAt) <=> ValidConfiguration(c, ss, stampedAt)
<1> DEFINE us == c.users
           bs == c.beneficiaries
<1>1. /\ IsTable(us, UserId, User) /\ IsTable(bs, BeneficiaryId, Beneficiary)
      /\ c.threshold \in Int \cup {None}
      /\ c.unlock \in Int \cup {None} /\ c.increment \in Int \cup {None}
  BY DEF IsConfiguration
<1>2. \A n : ClientOption(n) <=> BoundedOption(n)
  BY DEF ClientOption, BoundedOption, Bounded
<1>3. ClientProofOfLife(c.unlock, c.increment) <=> ProofOfLifeIsValid(c.unlock, c.increment)
  <2>1. \A n \in Int : /\ n \in Time <=> Bounded(n)
                       /\ n \in Time \ {0} <=> Bounded(n) /\ n >= 1
    BY MaxStateIntegerAssumption DEF Time, Bounded
  <2>2. None \notin Time
    BY NoneAssumption, MaxStateIntegerAssumption DEF Time
  <2> QED
    BY <1>1, <2>1, <2>2 DEF ClientProofOfLife, ProofOfLifeIsValid
<1>4. (DOMAIN bs # {} => c.unlock # None) <=> BeneficiariesRequireProofOfLife(bs, c.unlock)
  BY DEF BeneficiariesRequireProofOfLife
<1>5. /\ Cardinality(DOMAIN us) <= MaxUsers
      /\ \A u \in DOMAIN us : ClientUser(us[u])
      /\ \A key \in Key : Cardinality(PoweredRecords(us, key)) <= 1
      <=> UsersAreValid(us)
  BY <1>1, ClientUsersAgree
<1>6. /\ \A b \in DOMAIN bs : ClientBeneficiary(bs[b])
      /\ \A key \in Key : Cardinality(HoldersOf(bs, key)) <= 1
      <=> BeneficiariesAreValid(bs)
  BY <1>1, ClientBeneficiariesAgree
<1>7. UsersAreValid(us) /\ BeneficiariesAreValid(bs)
        => (ClientAccessPath(us, c.threshold, bs) <=> HasReachableAccessPath(us, c.threshold, bs))
  <2> SUFFICES ASSUME UsersAreValid(us), BeneficiariesAreValid(bs)
               PROVE  ClientAccessPath(us, c.threshold, bs)
                        <=> HasReachableAccessPath(us, c.threshold, bs)
    OBVIOUS
  <2>1. QuorumIsReachable(us, c.threshold)
          <=> MultisigThresholdIsMet(us, c.threshold, Signable(us))
    BY <1>1, ClientQuorumAgrees
  <2>2. (\E b \in DOMAIN bs : bs[b].wallets # {}) <=> DOMAIN bs # {}
    BY DEF BeneficiariesAreValid
  <2>3. (\E u \in DOMAIN us : us[u].admin /\ us[u].wallets # {})
          <=> \E u \in Signable(us) : us[u].admin
    BY DEF Signable
  <2> QED
    BY <2>1, <2>2, <2>3 DEF ClientAccessPath, HasReachableAccessPath
<1>8. /\ Cardinality(DOMAIN ss) <= MaxStreams
      /\ \A s \in DOMAIN ss : ClientStream(ss[s])
      <=> StreamsAreValid(ss)
  BY ClientStreamAgrees DEF IsTable, StreamsAreValid
<1> QED
  BY <1>2, <1>3, <1>4, <1>5, <1>6, <1>7, <1>8, Zenon
  DEF ClientAccepts, ValidConfiguration, AccessIsValid

-----------------------------------------------------------------------------
(* Recovery, as it is built and as it is accepted. *)

\* What a builder reads: a State some accepted transaction has left behind.
StoredState == TypeOK /\ ConfigurationStaysValid /\ PaidWithinAccrued

LEMMA StoredStateHolds == Spec => []StoredState
<1>1. TypeOK /\ ConfigurationStaysValid /\ PaidWithinAccrued => StoredState
  BY DEF StoredState
<1> QED
  BY <1>1, TypeCorrect, ConfigurationIsInvariant, PaymentsStayWithinAccrual, PTL

LEMMA StoredParts ==
  ASSUME StoredState
  PROVE  /\ TypeOK /\ PaidWithinAccrued /\ StreamInvariant
         /\ BoundedOption(stamp)
         /\ StreamsAreValid(streams)
         /\ ProofOfLifeIsValid(unlock, increment)
         /\ UsersAreValid(users) /\ BeneficiariesAreValid(beneficiaries)
         /\ AccessIsValid(users, threshold, beneficiaries, unlock)
BY DEF StoredState, ConfigurationStaysValid, ValidConfiguration, CurrentConfiguration,
   AccessIsValid, StreamInvariant

\* In every State the contract reaches, the client accepts the configurations
\* the contract accepts, and no others.
THEOREM ConfigurationsAlwaysAgree == Spec => []ConfigurationsAgree
<1>1. StoredState => ConfigurationsAgree
  <2> SUFFICES ASSUME StoredState, NEW c \in Configurations
               PROVE  ClientAccepts(c, streams, stamp) <=> ValidConfiguration(c, streams, stamp)
    BY DEF ConfigurationsAgree
  <2>1. IsConfiguration(c)
    BY ConfigurationsAssumption DEF IsConfiguration
  <2>2. \A s \in DOMAIN streams : streams[s].paid <= LifetimeTotal(streams[s])
    BY StoredParts DEF StreamsAreValid, StreamIsShaped
  <2>3. IsTable(streams, StreamId, StreamingPayment) /\ stamp \in Int \cup {None}
    BY DEF StoredState, TypeOK
  <2> QED
    BY <2>1, <2>2, <2>3, ClientAndContractAgree
<1> QED
  BY <1>1, StoredStateHolds, PTL

\* The last check of a build passes on every State the contract accepts next.
LEMMA AcceptedIsForwardable ==
  ASSUME StoredState, NEW tx \in Transaction, Accept(tx)
  PROVE  ForwardedStateIsValid
<1>1. Next
  BY DEF Next
<1>2. TypeOK' /\ ConfigurationStaysValid'
  BY <1>1, TypeStep, ConfigurationStep DEF StoredState
<1> DEFINE c == [users |-> users', threshold |-> threshold', beneficiaries |-> beneficiaries',
                 unlock |-> unlock', increment |-> increment']
<1>3. IsConfiguration(c)
  BY <1>2 DEF TypeOK, IsConfiguration
<1>4. ValidConfiguration(c, streams', stamp')
  BY <1>2 DEF ConfigurationStaysValid, CurrentConfiguration
<1>5. /\ IsTable(streams', StreamId, StreamingPayment)
      /\ stamp' \in Int \cup {None}
      /\ \A s \in DOMAIN streams' : streams'[s].paid <= LifetimeTotal(streams'[s])
  BY <1>2, <1>4 DEF TypeOK, ValidConfiguration, StreamsAreValid, StreamIsShaped
<1> HIDE DEF c
<1>6. ClientAccepts(c, streams', stamp')
  BY <1>3, <1>4, <1>5, ClientAndContractAgree
<1> QED
  BY <1>6 DEF ForwardedStateIsValid, c

\* The client's reading of the shared clock is the contract's.
LEMMA ClientClockAgrees ==
  ASSUME StoredState, NEW tx \in BuilderTransaction
  PROVE  TakesTheClock(tx) <=> NonAdminCadence(tx)
<1>1. FiniteRange(tx) /\ tx.lo \in Int /\ stamp \in Int \cup {None}
  BY BuilderRange, MaxTimeAssumption DEF StoredState, TypeOK
<1>2. stamp # None => (stamp + Cooldown - tx.lo <= 0 <=> tx.lo >= stamp + Cooldown)
  BY <1>1, CooldownAssumption
<1> QED
  BY <1>1, <1>2, Zenon DEF TakesTheClock, SharedClockIsFree, NonAdminCadence

LEMMA ClientUnlockAgrees ==
  ASSUME StoredState, NEW tx \in BuilderTransaction, NEW b \in DOMAIN beneficiaries
  PROVE  /\ ClientUnlocked(b, tx.lo) <=> IsUnlocked(tx, b)
         /\ ClientUnlocked(b, tx.lo) <=>
              /\ unlock # None /\ tx.lo >= unlock
              /\ beneficiaries[b].after # None => tx.lo >= beneficiaries[b].after
<1>1. tx.lo # None /\ tx.lo \in Int /\ unlock \in Int \cup {None}
  BY BuilderRange, MaxTimeAssumption DEF StoredState, TypeOK, FiniteRange
<1>2. beneficiaries[b].after \in Int \cup {None}
  BY DEF StoredState, TypeOK, IsTable, Beneficiary
<1> QED
  BY <1>1, <1>2, NoneAssumption
  DEF ClientUnlocked, IsUnlocked, IsUnlockedAt, BeneficiaryUnlockTime, Larger

\* A wallet acts for the one beneficiary that lists it.
LEMMA ActsForSigned ==
  ASSUME StoredState, NEW tx \in BuilderTransaction, NEW b \in DOMAIN beneficiaries
  PROVE  ActsFor(tx, b) <=> Signed(tx, beneficiaries[b].wallets)
<1>1. \A c \in DOMAIN beneficiaries : b # c => beneficiaries[b].wallets \cap beneficiaries[c].wallets = {}
  BY StoredParts DEF BeneficiariesAreValid
<1>2. \A key \in beneficiaries[b].wallets : HoldersOf(beneficiaries, key) = {b}
  BY <1>1 DEF HoldersOf
<1>3. \A key : HoldersOf(beneficiaries, key) = {b} => key \in beneficiaries[b].wallets
  BY DEF HoldersOf
<1> QED
  BY <1>2, <1>3 DEF ActsFor, Signed

LEMMA SoleIsCounted ==
  ASSUME StoredState, NEW b \in DOMAIN beneficiaries
  PROVE  Cardinality(DOMAIN beneficiaries) = 1 <=> IsSole(b)
<1>1. IsFiniteSet(DOMAIN beneficiaries)
  BY IdAssumption, FS_Subset DEF StoredState, TypeOK, IsTable
<1>2. Cardinality(DOMAIN beneficiaries) = 1 <=> \E x : DOMAIN beneficiaries = {x}
  BY <1>1, FS_Singleton
<1> QED
  BY <1>2 DEF IsSole

\* A withdrawal is built for the one unlocked signer exactly if it is accepted.
THEOREM WithdrawalsAgree ==
  ASSUME StoredState, NEW tx \in BuilderTransaction, NEW b \in DOMAIN beneficiaries,
         UnlockedSigners(tx) = {b}
  PROVE  BuildUseBeneficiary(tx, b) <=> UseBeneficiary(tx, b)
<1>1. ActsFor(tx, b)
  BY ActsForSigned DEF UnlockedSigners
<1>2. ASSUME BuildUseBeneficiary(tx, b)
      PROVE  UseBeneficiary(tx, b)
  BY <1>2, SoleIsCounted, ClientClockAgrees
  DEF BuildUseBeneficiary, UseBeneficiary, BeneficiaryCadence, labels
<1>3. ASSUME UseBeneficiary(tx, b)
      PROVE  BuildUseBeneficiary(tx, b)
  <2>1. tx \in Transaction /\ Accept(tx)
    BY <1>3, BuilderRange DEF Accept, Recover, StoredState
  <2>2. ForwardedStateIsValid
    BY <2>1, AcceptedIsForwardable
  <2> QED
    BY <1>1, <1>3, <2>2, SoleIsCounted, ClientClockAgrees
    DEF BuildUseBeneficiary, UseBeneficiary, BeneficiaryCadence, labels
<1> QED
  BY <1>2, <1>3

\* A distribution is built for a beneficiary exactly if it is accepted.
THEOREM DistributionsAgree ==
  ASSUME StoredState, NEW tx \in BuilderTransaction, NEW b \in DOMAIN beneficiaries
  PROVE  BuildDistribution(tx, b) <=> DistributeBeneficiaries(tx, b)
<1>1. ActsFor(tx, b) <=> Signed(tx, beneficiaries[b].wallets)
  BY ActsForSigned
<1>2. (\A c \in DOMAIN beneficiaries : IsUnlocked(tx, c))
        <=> /\ unlock # None /\ tx.lo >= unlock
            /\ \A c \in DOMAIN beneficiaries :
                 beneficiaries[c].after # None => tx.lo >= beneficiaries[c].after
  BY ClientUnlockAgrees
<1>3. ASSUME BuildDistribution(tx, b)
      PROVE  DistributeBeneficiaries(tx, b)
  BY <1>1, <1>2, <1>3, SoleIsCounted, ClientClockAgrees
  DEF BuildDistribution, DistributeBeneficiaries, BeneficiaryCadence, labels
<1>4. ASSUME DistributeBeneficiaries(tx, b)
      PROVE  BuildDistribution(tx, b)
  <2>1. ClientAccepts(CurrentConfiguration, streams, stamp)
    <3>1. IsConfiguration(CurrentConfiguration)
      BY DEF StoredState, TypeOK, IsConfiguration, CurrentConfiguration
    <3> QED
      BY <3>1, ClientAndContractAgree
      DEF StoredState, TypeOK, ConfigurationStaysValid, ValidConfiguration, StreamsAreValid, StreamIsShaped
  <2> QED
    BY <1>1, <1>2, <1>4, <2>1, SoleIsCounted, ClientClockAgrees
    DEF BuildDistribution, DistributeBeneficiaries, BeneficiaryCadence, labels
<1> QED
  BY <1>3, <1>4

\* What is built for a stop is a stop at the cutoff, and the stream cut off there
\* may be stored, whatever has been paid on it.
LEMMA BuiltStopIsStop ==
  ASSUME StoredState, NEW tx \in BuilderTransaction, NEW s \in DOMAIN streams,
         BuildCancel(tx, s), NEW exact \in BOOLEAN
  PROVE  StopStream(tx, s, exact)
<1> DEFINE cut == Cutoff(streams[s], tx.hi)
<1>1. NonAdminCadence(tx)
  BY ClientClockAgrees DEF BuildCancel
<1>2. /\ cut < streams[s].end
      /\ streams' = [streams EXCEPT ![s].end = cut]
      /\ UNCHANGED <<now, access, unlock, increment, labels>>
      /\ Cardinality(DOMAIN streams') <= MaxStreams
  BY DEF BuildCancel, Cutoff, ForwardedStateIsValid, ClientAccepts
<1>3. /\ tx.hi \in now..MaxStateInteger /\ now \in Int /\ 0 <= now
      /\ \A r \in DOMAIN streams : streams[r] \in StreamingPayment /\ StreamIsShaped(streams[r])
  BY BuilderRange, MaxTimeAssumption, StoredStreamFacts, StoredParts DEF TypeOK
<1>4. cut \in Time
  BY <1>2, <1>3, MaxStateIntegerAssumption
  DEF Cutoff, Larger, Time, StreamIsShaped, Bounded, StreamingPayment
<1>5. StreamIsShaped([streams[s] EXCEPT !.end = cut])
  BY <1>2, <1>3, StoredParts, CutStreamIsShaped
<1>6. cut >= Cutoff(streams[s], tx.hi) /\ cut = Cutoff(streams[s], tx.hi)
  BY <1>4, MaxStateIntegerAssumption DEF Time
<1> HIDE DEF cut
<1>7. StreamsAreValid(streams')
  BY <1>2, <1>3, <1>5 DEF StreamsAreValid
<1> QED
  BY <1>1, <1>2, <1>4, <1>6, <1>7, Zenon DEF StopStream

\* A stop at the cutoff is one the dApp builds.
LEMMA ExactStopIsBuilt ==
  ASSUME StoredState, NEW tx \in BuilderTransaction, NEW s \in DOMAIN streams,
         StopStream(tx, s, TRUE), ForwardedStateIsValid
  PROVE  /\ BuildCancel(tx, s)
         /\ PayoutForElapsed(streams'[s].end - streams[s].start, streams[s].rate) >= streams[s].paid
<1>1. /\ TakesTheClock(tx)
      /\ Cutoff(streams[s], tx.hi) < streams[s].end
      /\ streams' = [streams EXCEPT ![s].end = Cutoff(streams[s], tx.hi)]
      /\ StreamIsShaped(streams'[s])
      /\ UNCHANGED <<now, access, unlock, increment, labels>>
  BY ClientClockAgrees DEF StopStream, StreamsAreValid
<1>2. streams[s] \in StreamingPayment
  BY DEF StoredState, TypeOK, IsTable
<1>3. streams'[s].paid = streams[s].paid /\ streams'[s].start = streams[s].start
      /\ streams'[s].rate = streams[s].rate
  BY <1>1, <1>2 DEF StreamingPayment
<1>4. /\ LifetimeTotal(streams'[s]) = PayoutForElapsed(streams'[s].end - streams[s].start, streams[s].rate)
      /\ streams[s].paid <= LifetimeTotal(streams'[s])
  BY <1>1, <1>3 DEF LifetimeTotal, StreamIsShaped
<1>5. streams[s].paid \in Int /\ LifetimeTotal(streams'[s]) \in Int
  <2>1. streams'[s].end \in Int
    BY <1>1, <1>2, BuilderRange, MaxTimeAssumption
    DEF Cutoff, Larger, StreamingPayment, StoredState, TypeOK
  <2>2. IsSchedule(streams'[s])
    BY <1>1, <1>2, <1>3, <2>1 DEF IsSchedule, StreamingPayment, StreamIsShaped, Bounded
  <2> QED
    BY <1>2, <2>2, AccrualFacts DEF StreamingPayment, IsSchedule, StoredState
<1> QED
  BY <1>1, <1>4, <1>5 DEF BuildCancel, Cutoff

\* A stop is built for a beneficiary exactly if it is accepted.
THEOREM StopsAgree ==
  ASSUME StoredState, NEW tx \in BuilderTransaction,
         NEW b \in DOMAIN beneficiaries, NEW s \in DOMAIN streams
  PROVE  BuildStop(tx, b, s) <=> StopBeneficiaryStream(tx, b, s)
<1>1. (/\ ActsFor(tx, b)
       /\ ClientUnlocked(b, tx.lo)
       /\ \A c \in DOMAIN beneficiaries \ {b} :
            Signed(tx, beneficiaries[c].wallets) => ~ClientUnlocked(c, tx.lo))
        <=> UnlockedSigners(tx) = {b}
  BY ActsForSigned, ClientUnlockAgrees DEF UnlockedSigners
<1>2. ASSUME BuildStop(tx, b, s)
      PROVE  StopBeneficiaryStream(tx, b, s)
  <2>1. UnlockedSigners(tx) = {b} /\ BuildCancel(tx, s)
    BY <1>1, <1>2 DEF BuildStop
  <2> QED
    BY <2>1, BuiltStopIsStop DEF StopBeneficiaryStream
<1>3. ASSUME StopBeneficiaryStream(tx, b, s)
      PROVE  BuildStop(tx, b, s)
  <2>1. tx \in Transaction /\ Accept(tx)
    BY <1>3, BuilderRange DEF Accept, Recover, StoredState
  <2>2. ForwardedStateIsValid
    BY <2>1, AcceptedIsForwardable
  <2>3. UnlockedSigners(tx) = {b} /\ StopStream(tx, s, TRUE)
    BY <1>3 DEF StopBeneficiaryStream
  <2> QED
    BY <1>1, <2>2, <2>3, ExactStopIsBuilt DEF BuildStop
<1> QED
  BY <1>2, <1>3

\* What is built for a payee is the cancellation at the earliest end the
\* contract allows, and that one is built.
THEOREM CancellationsAgree ==
  ASSUME StoredState, NEW tx \in BuilderTransaction, NEW s \in DOMAIN streams,
         streams[s].payee \in tx.signers
  PROVE  BuildCancel(tx, s)
           <=> CancelStreamingPayment(tx, s) /\ streams'[s].end = Cutoff(streams[s], tx.hi)
<1>1. streams[s] \in StreamingPayment
  BY DEF StoredState, TypeOK, IsTable
<1>2. ASSUME BuildCancel(tx, s)
      PROVE  CancelStreamingPayment(tx, s) /\ streams'[s].end = Cutoff(streams[s], tx.hi)
  <2>1. CancelStreamingPayment(tx, s)
    BY <1>2, BuiltStopIsStop DEF CancelStreamingPayment, FinalRecoveryIsActive
  <2>2. streams' = [streams EXCEPT ![s].end = Cutoff(streams[s], tx.hi)]
    BY <1>2 DEF BuildCancel, Cutoff
  <2> QED
    BY <1>1, <2>1, <2>2 DEF StreamingPayment
<1>3. ASSUME CancelStreamingPayment(tx, s), streams'[s].end = Cutoff(streams[s], tx.hi)
      PROVE  BuildCancel(tx, s)
  <2>1. tx \in Transaction /\ Accept(tx)
    BY <1>3, BuilderRange DEF Accept, Settle, StoredState
  <2>2. ForwardedStateIsValid
    BY <2>1, AcceptedIsForwardable
  <2>3. PICK end \in Time :
          /\ NonAdminCadence(tx)
          /\ end < streams[s].end
          /\ end >= Cutoff(streams[s], tx.hi)
          /\ streams' = [streams EXCEPT ![s].end = end]
          /\ StreamsAreValid(streams')
          /\ UNCHANGED <<now, access, unlock, increment, labels>>
    BY <1>3 DEF CancelStreamingPayment, StopStream
  <2>4. streams'[s].end = end
    BY <1>1, <2>3 DEF StreamingPayment
  <2>5. StopStream(tx, s, TRUE)
    BY <1>3, <2>3, <2>4, Zenon DEF StopStream
  <2> QED
    BY <2>2, <2>5, ExactStopIsBuilt
<1> QED
  BY <1>2, <1>3

\* Whom the client lets crank the contract lets crank, and nobody else.
LEMMA CrankersAgree ==
  ASSUME StoredState, NEW tx \in BuilderTransaction
  PROVE  /\ MayCrank(tx)
         /\ IF ListedAdmin(tx) THEN UNCHANGED stamp ELSE TakesTheClock(tx)
         <=> CrankIsAuthorized(tx)
<1>1. ListedAdmin(tx) <=> HasAdminAuthority(tx)
  BY DEF ListedAdmin, HasAdminAuthority, SignedUsers
<1>2. UnlockedBeneficiary(tx) <=> UnlockedSigners(tx) # {}
  BY ClientUnlockAgrees DEF UnlockedBeneficiary, UnlockedSigners
<1>3. FinalRecoveryIsActive(tx) <=> FinalRecoveryOpens(tx)
  <2>1. ASSUME NEW b \in DOMAIN beneficiaries, IsSole(b), IsUnlocked(tx, b)
        PROVE  FinalRecoveryOpens(tx)
    <3>1. Cardinality(DOMAIN beneficiaries) = 1
      BY <2>1, SoleIsCounted
    <3>2. ClientUnlocked(b, tx.lo)
      BY <2>1, ClientUnlockAgrees
    <3> QED
      BY <2>1, <3>1, <3>2 DEF FinalRecoveryOpens, IsSole
  <2>2. ASSUME FinalRecoveryOpens(tx)
        PROVE  FinalRecoveryIsActive(tx)
    <3>1. DOMAIN beneficiaries # {}
      BY <2>2, FS_EmptySet DEF FinalRecoveryOpens
    <3>2. PICK b \in DOMAIN beneficiaries : TRUE
      BY <3>1
    <3>3. IsSole(b)
      BY <2>2, SoleIsCounted DEF FinalRecoveryOpens
    <3>4. IsUnlocked(tx, b)
      BY <2>2, ClientUnlockAgrees DEF FinalRecoveryOpens
    <3> QED
      BY <3>3, <3>4 DEF FinalRecoveryIsActive
  <2> QED
    BY <2>1, <2>2 DEF FinalRecoveryIsActive
<1>4. /\ ListedUser(tx) <=> SignedUsers(tx) # {}
      /\ ListedPayee(tx) <=> HasAnyPayeeAuthority(tx)
  BY DEF ListedUser, ListedPayee, SignedUsers, HasAnyPayeeAuthority
<1> QED
  BY <1>1, <1>2, <1>3, <1>4, ClientClockAgrees DEF CrankIsAuthorized, MayCrank

\* The streams a settlement of the given amounts leaves behind.
AfterPayment(asked) ==
  [s \in DOMAIN streams \ {r \in DOMAIN streams : AskedSettles(streams[r], asked[r])} |->
     [streams[s] EXCEPT !.paid = @ + asked[s]]]

LEMMA PayableIsSettled ==
  ASSUME StoredState, NEW tx \in BuilderTransaction, CrankIsAuthorized(tx),
         NEW asked \in Payable(tx), streams' = AfterPayment(asked),
         UNCHANGED <<now, access, unlock, increment, labels>>
  PROVE  PayStreamingPayment(tx)
<1> DEFINE kept == {s \in DOMAIN streams : ~AskedSettles(streams[s], asked[s])}
           paid == [s \in kept |-> streams[s].paid + asked[s]]
<1>1. /\ asked \in [DOMAIN streams -> 0..MaxStateInteger]
      /\ \A s \in DOMAIN streams : MayBeAsked(streams[s], asked[s], tx.lo)
  BY DEF Payable
<1>2. ASSUME NEW s \in DOMAIN streams
      PROVE  /\ streams[s] \in StreamingPayment /\ StreamIsShaped(streams[s])
             /\ streams[s].paid \in Int
             /\ asked[s] \in Int /\ 0 <= asked[s]
             /\ LifetimeTotal(streams[s]) \in Int /\ AccruedAt(streams[s], tx.lo) \in Int
             /\ tx.lo \in Int
             /\ MayBeAsked(streams[s], asked[s], tx.lo)
  <2>1. /\ streams[s] \in StreamingPayment /\ IsSchedule(streams[s])
        /\ StreamIsShaped(streams[s])
    BY StoredStreamFacts, StoredParts
  <2>2. tx.lo \in Int
    BY BuilderRange, MaxTimeAssumption DEF StoredState, TypeOK
  <2> QED
    BY <1>1, <2>1, <2>2, AccrualFacts, MaxStateIntegerAssumption DEF IsSchedule
<1>3. streams' = [s \in kept |-> [streams[s] EXCEPT !.paid = paid[s]]]
  <2>1. kept = DOMAIN streams \ {r \in DOMAIN streams : AskedSettles(streams[r], asked[r])}
    OBVIOUS
  <2>2. ASSUME NEW s \in kept
        PROVE  [streams[s] EXCEPT !.paid = @ + asked[s]] = [streams[s] EXCEPT !.paid = paid[s]]
    BY <1>2
  <2> HIDE DEF kept, paid
  <2> QED
    BY <2>1, <2>2 DEF AfterPayment
<1>4. ASSUME NEW s \in kept
      PROVE  RetainedWith(streams[s], paid[s], tx.lo)
  <2>1. s \in DOMAIN streams /\ paid[s] = streams[s].paid + asked[s]
    OBVIOUS
  <2>2. /\ asked[s] <= MostPayable(streams[s], tx.lo)
        /\ paid[s] < LifetimeTotal(streams[s])
    BY <1>2 DEF AskedSettles, MayBeAsked, Fulfilled, MostPayable, Larger
  <2> HIDE DEF kept, paid
  <2>3. Bounded(paid[s])
    BY <1>2, <2>1, <2>2, MaxStateIntegerAssumption DEF StreamIsShaped, Bounded
  <2> QED
    BY <1>2, <2>1, <2>2, <2>3 DEF RetainedWith, StillOwes, MostPayable
<1>5. ASSUME NEW s \in DOMAIN streams \ kept
      PROVE  Removable(streams[s], tx.lo)
  BY <1>2 DEF AskedSettles, MayBeAsked, Fulfilled, Removable
<1>6. kept \in SUBSET DOMAIN streams /\ paid \in [kept -> 0..MaxStateInteger]
  <2>1. ASSUME NEW s \in kept
        PROVE  paid[s] \in 0..MaxStateInteger
    <3>1. Bounded(paid[s])
      BY <1>4 DEF RetainedWith
    <3>2. paid[s] \in Int
      BY <1>2
    <3> HIDE DEF kept, paid
    <3> QED
      BY <3>1, <3>2, MaxStateIntegerAssumption DEF Bounded
  <2> QED
    BY <2>1
<1> HIDE DEF kept, paid
<1>7. Settled(tx, kept, paid)
  BY <1>3, <1>4, <1>5 DEF Settled
<1>8. FiniteRange(tx)
  BY BuilderRange DEF StoredState
<1> QED
  BY <1>6, <1>7, <1>8 DEF PayStreamingPayment

\* The settlement the dApp builds, whatever amounts are asked for, is accepted.
THEOREM SettlementsAreAccepted ==
  ASSUME StoredState, NEW tx \in BuilderTransaction, BuildPayout(tx, Payable(tx))
  PROVE  PayStreamingPayment(tx)
<1>1. PICK asked \in Payable(tx) : streams' = AfterPayment(asked)
  BY DEF BuildPayout, AfterPayment
<1>2. CrankIsAuthorized(tx) /\ UNCHANGED <<now, access, unlock, increment, labels>>
  BY CrankersAgree DEF BuildPayout
<1> QED
  BY <1>1, <1>2, PayableIsSettled

\* What the page offers a payee may be asked for, unless the rounded accrual
\* reaches the lifetime total before the end.
LEMMA CollectionIsPayable ==
  ASSUME StoredState, NEW tx \in BuilderTransaction, NEW s \in DOMAIN streams,
         DueAmount(streams[s], tx.lo) > 0,
         \/ streams[s].paid + DueAmount(streams[s], tx.lo) < LifetimeTotal(streams[s])
         \/ streams[s].end <= tx.lo
  PROVE  CollectPlan(s, tx.lo) \in Payable(tx)
<1> DEFINE due == DueAmount(streams[s], tx.lo)
<1>1. ASSUME NEW r \in DOMAIN streams
      PROVE  /\ IsSchedule(streams[r]) /\ StreamIsShaped(streams[r])
             /\ LifetimeTotal(streams[r]) \in Int /\ AccruedAt(streams[r], tx.lo) \in Int
             /\ AccruedAt(streams[r], tx.lo) <= LifetimeTotal(streams[r])
             /\ tx.lo \in Int
  <2>1. IsSchedule(streams[r]) /\ StreamIsShaped(streams[r])
    BY StoredStreamFacts, StoredParts
  <2>2. tx.lo \in Int
    BY BuilderRange, MaxTimeAssumption DEF StoredState, TypeOK
  <2> QED
    BY <2>1, <2>2, AccrualFacts
<1>2. due = AccruedAt(streams[s], tx.lo) - streams[s].paid
  <2>1. Smaller(streams[s].end, tx.lo) = Smaller(tx.lo, streams[s].end)
    BY <1>1 DEF Smaller, IsSchedule
  <2>2. due = Larger(0, AccruedAt(streams[s], tx.lo) - streams[s].paid)
    BY <2>1 DEF DueAmount, AccruedAt, PayoutForElapsed
  <2> QED
    BY <1>1, <2>2 DEF Larger, IsSchedule
<1>3. MayBeAsked(streams[s], due, tx.lo) /\ due \in 0..MaxStateInteger
  <2> HIDE DEF due
  <2>1. due > 0
    BY DEF due
  <2>2. streams[s].paid + due < LifetimeTotal(streams[s]) \/ streams[s].end <= tx.lo
    BY DEF due
  <2> QED
    BY <1>1, <1>2, <2>1, <2>2, MaxStateIntegerAssumption
    DEF MayBeAsked, Fulfilled, MostPayable, Larger, IsSchedule, StreamIsShaped, Bounded
<1>4. ASSUME NEW r \in DOMAIN streams
      PROVE  MayBeAsked(streams[r], 0, tx.lo)
  BY <1>1, <1>4 DEF MayBeAsked, Fulfilled, MostPayable, Larger, IsSchedule, StreamIsShaped
<1> HIDE DEF due
<1>5. CollectPlan(s, tx.lo) = [r \in DOMAIN streams |-> IF r = s THEN due ELSE 0]
  BY DEF CollectPlan, due
<1> QED
  BY <1>3, <1>4, <1>5, MaxStateIntegerAssumption DEF Payable

\* The collection the page offers a payee is built whenever the contract lets
\* anybody with these signatures settle.
THEOREM CollectionsAreBuilt ==
  ASSUME StoredState, NEW tx \in BuilderTransaction, NEW s \in DOMAIN streams,
         CrankIsAuthorized(tx),
         DueAmount(streams[s], tx.lo) > 0,
         \/ streams[s].paid + DueAmount(streams[s], tx.lo) < LifetimeTotal(streams[s])
         \/ streams[s].end <= tx.lo,
         streams' = AfterPayment(CollectPlan(s, tx.lo)),
         UNCHANGED <<now, access, unlock, increment, labels>>
  PROVE  BuildPayout(tx, {CollectPlan(s, tx.lo)})
<1> DEFINE asked == CollectPlan(s, tx.lo)
<1>1. asked \in Payable(tx)
  BY CollectionIsPayable
<1>2. asked[s] > 0
  BY DEF CollectPlan
<1> HIDE DEF asked
<1>3. streams' = AfterPayment(asked)
  BY DEF asked
<1>4. PayStreamingPayment(tx)
  BY <1>1, <1>3, PayableIsSettled
<1>5. ForwardedStateIsValid
  BY <1>4, AcceptedIsForwardable, BuilderRange DEF Accept, Settle, StoredState
<1>6. /\ MayCrank(tx)
      /\ IF ListedAdmin(tx) THEN UNCHANGED stamp ELSE TakesTheClock(tx)
  BY CrankersAgree
<1>7. BuildPayout(tx, {asked})
  BY <1>1, <1>2, <1>3, <1>5, <1>6 DEF BuildPayout, AfterPayment
<1> QED
  BY <1>7 DEF asked

-----------------------------------------------------------------------------
(* Operators, keepers and spenders. *)

\* The automatic renewal is one the contract grants, whenever the State built
\* with it passes the client's own check.
LEMMA AutomaticRenewalIsValid ==
  ASSUME StoredState, NEW tx \in BuilderTransaction,
         ClientProofOfLife(AutomaticRenewal(tx), increment)
  PROVE  RenewalIsValid(tx, AutomaticRenewal(tx))
<1>1. CASE AutomaticRenewal(tx) = unlock
  BY <1>1 DEF RenewalIsValid
<1>2. CASE AutomaticRenewal(tx) # unlock
  <2>1. /\ increment # None
        /\ tx.lo + increment >= tx.hi
        /\ AutomaticRenewal(tx) = tx.lo + increment
    <3>1. increment # None /\ ~(tx.lo + increment < tx.hi)
      BY <1>2 DEF AutomaticRenewal
    <3>2. tx.lo \in Int /\ tx.hi \in Int /\ increment \in Int
      BY <3>1, BuilderRange, MaxTimeAssumption, MaxStateIntegerAssumption DEF StoredState, TypeOK
    <3> QED
      BY <1>2, <3>1, <3>2 DEF AutomaticRenewal, Larger
  <2>2. /\ tx.lo \in Int /\ tx.hi \in Int /\ increment \in Int /\ unlock \in Int
    BY <2>1, StoredParts, BuilderRange, MaxTimeAssumption, MaxStateIntegerAssumption
    DEF TypeOK, ProofOfLifeIsValid
  <2>3. /\ AutomaticRenewal(tx) \in Int
        /\ AutomaticRenewal(tx) >= tx.hi
        /\ AutomaticRenewal(tx) <= tx.lo + increment
        /\ AutomaticRenewal(tx) >= unlock
    BY <1>2, <2>1, <2>2 DEF AutomaticRenewal, Larger
  <2>4. Bounded(AutomaticRenewal(tx))
    BY <2>1, MaxStateIntegerAssumption DEF ClientProofOfLife, Time, Bounded
  <2> QED
    BY <2>1, <2>3, <2>4, NoneAssumption, BuilderRange DEF RenewalIsValid, StoredState
<1> QED
  BY <1>1, <1>2

\* What an operator has the dApp build with its automatic renewal is accepted,
\* if the date it falls on is one of those that may be chosen.
THEOREM OperatorUsesAreAccepted ==
  ASSUME StoredState, NEW tx \in BuilderTransaction,
         AutomaticRenewal(tx) \in ScheduleDate \cup {unlock},
         HasOperatorAuthority(tx), BuildUse(tx)
  PROVE  OperatorUse(tx)
<1>1. /\ unlock' = AutomaticRenewal(tx)
      /\ ClientProofOfLife(AutomaticRenewal(tx), increment)
  BY DEF BuildUse, ForwardedStateIsValid, ClientAccepts
<1>2. RenewalIsValid(tx, AutomaticRenewal(tx))
  BY <1>1, AutomaticRenewalIsValid
<1>3. Renew(tx)
  BY <1>1, <1>2 DEF Renew
<1> QED
  BY <1>3 DEF BuildUse, OperatorUse

\* New and rescheduled streams pass the contract's checks: a reschedule above
\* the client's floor still owes what has been paid.
THEOREM ReschedulesAreAccepted ==
  ASSUME StoredState, NEW tx \in BuilderTransaction,
         HasOperatorAuthority(tx), BuildManage(tx)
  PROVE  ManageStreamingPayments(tx)
<1>1. PICK added \in SUBSET (StreamId \ DOMAIN streams) :
        \E fresh \in [added -> StreamRecord], end \in [DOMAIN streams -> EndDate] :
          /\ \A s \in added : fresh[s].paid = 0 /\ fresh[s].start < fresh[s].end
          /\ \A s \in DOMAIN streams : end[s] >= FloorForEnd(streams[s], tx.hi)
          /\ streams' = [s \in DOMAIN streams \cup added |->
                           IF s \in added THEN fresh[s] ELSE [streams[s] EXCEPT !.end = end[s]]]
  BY DEF BuildManage
<1>2. PICK fresh \in [added -> StreamRecord], end \in [DOMAIN streams -> EndDate] :
        /\ \A s \in added : fresh[s].paid = 0 /\ fresh[s].start < fresh[s].end
        /\ \A s \in DOMAIN streams : end[s] >= FloorForEnd(streams[s], tx.hi)
        /\ streams' = [s \in DOMAIN streams \cup added |->
                         IF s \in added THEN fresh[s] ELSE [streams[s] EXCEPT !.end = end[s]]]
  BY <1>1
<1>3. Rescheduled(tx, added, fresh, end)
  <2>1. tx.hi # None
    BY BuilderRange DEF StoredState, FiniteRange
  <2>2. \A s \in DOMAIN streams : FloorForEnd(streams[s], tx.hi) = EndDateFloor(streams[s], tx.hi, None)
    BY <2>1 DEF FloorForEnd, EndDateFloor
  <2> QED
    BY <1>2, <2>2 DEF Rescheduled, StreamIsFresh
<1>4. ASSUME NEW s \in DOMAIN streams'
      PROVE  /\ streams'[s] \in StreamingPayment
             /\ ClientStream(streams'[s])
  <2>1. CASE s \in added
    BY <1>2, <2>1, StreamsAssumption DEF BuildManage, ForwardedStateIsValid, ClientAccepts
  <2>2. CASE s \notin added
    <3>1. s \in DOMAIN streams /\ streams'[s] = [streams[s] EXCEPT !.end = end[s]]
      BY <1>2, <2>2
    <3>2. end[s] \in Int
      BY <3>1, ScheduleDateAssumption DEF StoredState, TypeOK, IsTable, StreamingPayment, EndDate
    <3>3. streams[s] \in StreamingPayment
      BY <3>1 DEF StoredState, TypeOK, IsTable
    <3> QED
      BY <3>1, <3>2, <3>3 DEF StreamingPayment, BuildManage, ForwardedStateIsValid, ClientAccepts
  <2> QED
    BY <2>1, <2>2
<1>5. ASSUME NEW s \in DOMAIN streams'
      PROVE  streams'[s].paid <= LifetimeTotal(streams'[s])
  <2>1. IsSchedule(streams'[s]) /\ streams'[s].start <= streams'[s].end
    BY <1>4, MaxStateIntegerAssumption DEF ClientStream, Time, IsSchedule
  <2>2. LifetimeTotal(streams'[s]) \in Int /\ 0 <= LifetimeTotal(streams'[s])
    BY <2>1, AccrualFacts, LifetimeIsNatural, MaxTimeAssumption DEF StoredState, TypeOK
  <2>3. CASE s \in added
    BY <1>2, <2>2, <2>3
  <2>4. CASE s \notin added
    <3>1. s \in DOMAIN streams
      BY <1>2, <2>4
    <3>2. Entitlement(streams[s], now) <= Entitlement(streams'[s], now)
          /\ streams'[s].paid = streams[s].paid
      BY <1>3, <3>1, StoredParts, BuilderRange, RescheduledStreamIsRespected DEF StreamIsRespected
    <3>3. now \in Int /\ IsSchedule(streams[s])
      BY <3>1, StoredParts, StoredStreamFacts, MaxTimeAssumption DEF TypeOK
    <3>4. Entitlement(streams'[s], now) <= LifetimeTotal(streams'[s])
      BY <2>1, <2>2, <3>3, AccrualFacts DEF Entitlement, Larger
    <3>5. streams[s].paid <= Entitlement(streams[s], now)
      BY <3>1 DEF StoredState, PaidWithinAccrued
    <3> QED
      BY <2>1, <2>2, <3>2, <3>3, <3>4, <3>5, AccrualFacts DEF IsSchedule
  <2> QED
    BY <2>3, <2>4
<1>6. StreamsAreValid(streams')
  <2>1. Cardinality(DOMAIN streams') <= MaxStreams
    BY DEF BuildManage, ForwardedStateIsValid, ClientAccepts
  <2> QED
    BY <1>4, <1>5, <2>1, ClientStreamAgrees DEF StreamsAreValid
<1>7. Renew(tx)
  BY DEF Renew, RenewalIsValid, BuildManage
<1> QED
  BY <1>1, <1>2, <1>3, <1>6, <1>7 DEF ManageStreamingPayments, BuildManage

\* A removal is built for an operator exactly if it is accepted.
THEOREM RemovalsAgree ==
  ASSUME StoredState, NEW tx \in BuilderTransaction, HasOperatorAuthority(tx)
  PROVE  BuildRemoveAccess(tx) <=> RemoveAccessIndex(tx)
<1>1. ASSUME RemoveAccessIndex(tx)
      PROVE  BuildRemoveAccess(tx)
  <2>1. tx \in Transaction /\ Accept(tx)
    BY <1>1, BuilderRange DEF Accept, Operate, StoredState
  <2>2. ForwardedStateIsValid
    BY <2>1, AcceptedIsForwardable
  <2> QED
    BY <1>1, <2>2 DEF BuildRemoveAccess, RemoveAccessIndex, AccessIndexRemoved
<1>2. ASSUME BuildRemoveAccess(tx)
      PROVE  RemoveAccessIndex(tx)
  <2>1. /\ AccessIndexRemoved
        /\ UNCHANGED <<now, threshold, unlock, increment, streams, labels, stamp>>
    BY <1>2, Zenon DEF BuildRemoveAccess, AccessIndexRemoved
  <2> DEFINE c == [users |-> users', threshold |-> threshold', beneficiaries |-> beneficiaries',
                   unlock |-> unlock', increment |-> increment']
  <2>2. IsConfiguration(c)
    <3>1. IsTable(users', UserId, User) /\ IsTable(beneficiaries', BeneficiaryId, Beneficiary)
      <4>1. IsTable(users, UserId, User) /\ IsTable(beneficiaries, BeneficiaryId, Beneficiary)
        BY DEF StoredState, TypeOK
      <4>2. /\ \A u : IsTable(Without(users, u), UserId, User)
            /\ \A b : IsTable(Without(beneficiaries, b), BeneficiaryId, Beneficiary)
        BY <4>1, WithoutIsTable
      <4> QED
        BY <2>1, <4>1, <4>2, Zenon DEF AccessIndexRemoved
    <3>2. /\ threshold' \in Int \cup {None}
          /\ unlock' \in Int \cup {None} /\ increment' \in Int \cup {None}
      BY <2>1 DEF StoredState, TypeOK
    <3> QED
      BY <3>1, <3>2 DEF IsConfiguration
  <2>3. ClientAccepts(c, streams', stamp')
    BY <1>2 DEF BuildRemoveAccess, ForwardedStateIsValid
  <2>4. /\ IsTable(streams', StreamId, StreamingPayment)
        /\ stamp' \in Int \cup {None}
        /\ \A s \in DOMAIN streams' : streams'[s].paid <= LifetimeTotal(streams'[s])
    BY <2>1, StoredParts DEF TypeOK, StreamsAreValid, StreamIsShaped
  <2> HIDE DEF c
  <2>5. ValidConfiguration(c, streams', stamp')
    BY <2>2, <2>3, <2>4, ClientAndContractAgree
  <2>6. HasReachableAccessPath(users', threshold', beneficiaries')
    BY <2>5 DEF c, ValidConfiguration, AccessIsValid
  <2> QED
    BY <2>1, <2>6 DEF RemoveAccessIndex
<1> QED
  BY <1>1, <1>2

\* The transfer a spender has the dApp build is a draw the contract grants to
\* the one record that can cover it, together with its automatic renewal.
THEOREM AllowancesAreAccepted ==
  ASSUME StoredState, NEW tx \in BuilderTransaction,
         AutomaticRenewal(tx) \in ScheduleDate \cup {unlock},
         NEW key, key \in tx.signers, BuildAllowance(tx, key)
  PROVE  UseAllowance(tx)
<1>1. PICK spent \in [Asset -> 0..MaxStateInteger], u \in DOMAIN users :
        /\ \E a \in Asset : spent[a] > 0
        /\ CanCover(tx, key, spent) = {u}
        /\ users' = [users EXCEPT
                       ![u].remaining = [a \in Asset |-> Budget(u, tx.lo)[a] - spent[a]],
                       ![u].reset = Larger(@, tx.hi + Day)]
        /\ unlock' = IF users[u].keeper /\ ~users[u].admin THEN AutomaticRenewal(tx) ELSE unlock
  BY DEF BuildAllowance
<1> DEFINE left == [a \in Asset |-> Budget(u, tx.lo)[a] - spent[a]]
<1>2. /\ Budget(u, tx.lo) = EffectiveAllowance(u, tx.lo)
      /\ NextReset(u, tx.hi) = Larger(users[u].reset, tx.hi + Day)
  BY DEF Budget, EffectiveAllowance, NextReset
<1>3. /\ users[u] \in User
      /\ Budget(u, tx.lo) \in [Asset -> Int]
      /\ \A a \in Asset : spent[a] \in Int /\ 0 <= spent[a]
  BY MaxStateIntegerAssumption DEF StoredState, TypeOK, IsTable, User, Budget
<1>4. users' = [users EXCEPT ![u].remaining = left, ![u].reset = NextReset(u, tx.hi)]
  BY <1>1, <1>2
<1>5. u \in SignedUsers(tx)
  BY <1>1 DEF CanCover, SignedUsers, Signed
<1>6. ClientUser(users'[u]) /\ users'[u].remaining = left /\ users'[u].reset = NextReset(u, tx.hi)
  <2>1. DOMAIN users' = DOMAIN users
    BY <1>4
  <2>2. ClientUser(users'[u])
    BY <2>1 DEF BuildAllowance, ForwardedStateIsValid, ClientAccepts
  <2> HIDE DEF left
  <2>3. users[u] \in User /\ u \in DOMAIN users
    BY <1>3
  <2> QED
    BY <1>4, <2>2, <2>3 DEF User
<1>7. left \in [Asset -> 0..MaxStateInteger] /\ Bounded(NextReset(u, tx.hi))
  <2> HIDE DEF left
  <2>1. /\ \A a \in Asset : left[a] \in Time
        /\ NextReset(u, tx.hi) \in Time
    BY <1>6 DEF ClientUser
  <2>2. left = [a \in Asset |-> left[a]]
    BY DEF left
  <2>3. left \in [Asset -> 0..MaxStateInteger]
    BY <2>1, <2>2 DEF Time
  <2>4. Bounded(NextReset(u, tx.hi))
    BY <2>1, MaxStateIntegerAssumption DEF Time, Bounded
  <2> QED
    BY <2>3, <2>4
<1>8. /\ \A a \in Asset : left[a] <= EffectiveAllowance(u, tx.lo)[a]
      /\ left # EffectiveAllowance(u, tx.lo)
  <2>1. \A a \in Asset : left[a] = Budget(u, tx.lo)[a] - spent[a] /\ Budget(u, tx.lo)[a] \in Int
    BY <1>3
  <2> HIDE DEF left
  <2>2. \A a \in Asset : left[a] <= Budget(u, tx.lo)[a]
    BY <1>3, <2>1
  <2>3. PICK a \in Asset : spent[a] > 0
    BY <1>1
  <2>4. left[a] # Budget(u, tx.lo)[a]
    BY <1>3, <2>1, <2>3
  <2> QED
    BY <1>2, <2>2, <2>4
<1> HIDE DEF left
<1>9. DrawAllowance(tx, u, left)
  BY <1>4, <1>7, <1>8 DEF DrawAllowance
<1>10. Renew(tx)
  <2>1. CASE unlock' = unlock
    BY <2>1 DEF Renew, RenewalIsValid
  <2>2. CASE unlock' # unlock
    <3>1. unlock' = AutomaticRenewal(tx)
      BY <1>1, <2>2
    <3>2. ClientProofOfLife(AutomaticRenewal(tx), increment)
      BY <3>1 DEF BuildAllowance, ForwardedStateIsValid, ClientAccepts
    <3> QED
      BY <3>1, <3>2, AutomaticRenewalIsValid DEF Renew
  <2> QED
    BY <2>1, <2>2
<1>11. \/ unlock' = unlock
       \/ \E v \in DOMAIN users : IsLivenessKeeper(v) /\ users[v].wallets = users[u].wallets
  BY <1>1 DEF IsLivenessKeeper
<1>12. /\ FiniteRange(tx)
       /\ UNCHANGED <<now, threshold, beneficiaries, increment, streams, labels, stamp>>
  BY BuilderRange DEF BuildAllowance, StoredState
<1> QED
  BY <1>5, <1>7, <1>9, <1>10, <1>11, <1>12 DEF UseAllowance

-----------------------------------------------------------------------------
(* The lists of streams. *)

StreamList == Seq([id : StreamId, stream : StreamingPayment])

LEMMA ListFacts ==
  ASSUME NEW list \in StreamList
  PROVE  /\ Len(list) \in Nat
         /\ DOMAIN list = 1..Len(list)
         /\ IsFiniteSet(DOMAIN list) /\ Cardinality(DOMAIN list) = Len(list)
         /\ \A n \in DOMAIN list : list[n].id \in StreamId /\ list[n].stream \in StreamingPayment
<1>1. /\ Len(list) \in Nat
      /\ DOMAIN list = 1..Len(list)
      /\ \A n \in DOMAIN list : list[n].id \in StreamId /\ list[n].stream \in StreamingPayment
  <2> DEFINE Entry == [id : StreamId, stream : StreamingPayment]
  <2>1. list \in Seq(Entry)
    BY DEF StreamList
  <2>2. \A entry \in Entry : entry.id \in StreamId /\ entry.stream \in StreamingPayment
    OBVIOUS
  <2> HIDE DEF Entry
  <2>3. Len(list) \in Nat /\ DOMAIN list = 1..Len(list) /\ \A n \in DOMAIN list : list[n] \in Entry
    BY <2>1
  <2> QED BY <2>2, <2>3
<1>2. /\ IsFiniteSet(1..Len(list))
      /\ Cardinality(1..Len(list)) = IF 1 > Len(list) THEN 0 ELSE Len(list) - 1 + 1
  <2>1. 1 \in Int /\ Len(list) \in Int
    BY <1>1
  <2> QED BY <2>1, FS_Interval, Zenon
<1> QED BY <1>1, <1>2

\* With unique ids the table says of an id what the one entry of that id says.
LEMMA TableSaysTheEntry ==
  ASSUME NEW list \in StreamList, IdsAreUnique(list), NEW n \in DOMAIN list
  PROVE  FindById(list, list[n].id) = list[n].stream
<1> DEFINE IsFirst(k) == list[k].id = list[n].id /\ \A m \in 1..(k - 1) : list[m].id # list[n].id
           first == CHOOSE k \in DOMAIN list : IsFirst(k)
<1>1. DOMAIN list = 1..Len(list) /\ Len(list) \in Nat
  BY ListFacts
<1>2. IsFirst(n)
  BY <1>1 DEF IdsAreUnique
<1>3. first \in DOMAIN list /\ IsFirst(first)
  BY <1>2
<1>4. first = n
  BY <1>3 DEF IdsAreUnique
<1> QED BY <1>4 DEF FindById

LEMMA TableFacts ==
  ASSUME NEW list \in StreamList, IdsAreUnique(list)
  PROVE  /\ DOMAIN Table(list) = Ids(list)
         /\ \A n \in DOMAIN list : list[n].id \in Ids(list) /\ Table(list)[list[n].id] = list[n].stream
         /\ \A f : f = [s \in Ids(list) |-> f[s]] /\ (\A n \in DOMAIN list : f[list[n].id] = list[n].stream)
                     => Table(list) = f
<1>1. DOMAIN Table(list) = Ids(list) /\ \A s \in Ids(list) : Table(list)[s] = FindById(list, s)
  BY DEF Table
<1>2. \A n \in DOMAIN list : list[n].id \in Ids(list) /\ Table(list)[list[n].id] = list[n].stream
  BY <1>1, TableSaysTheEntry DEF Ids
<1>3. ASSUME NEW f, f = [s \in Ids(list) |-> f[s]], \A n \in DOMAIN list : f[list[n].id] = list[n].stream
      PROVE  Table(list) = f
  <2>1. \A s \in Ids(list) : Table(list)[s] = f[s]
    BY <1>2, <1>3 DEF Ids
  <2>2. Table(list) = [s \in Ids(list) |-> Table(list)[s]]
    BY DEF Table
  <2> QED BY <1>3, <2>1, <2>2
<1> QED BY <1>1, <1>2, <1>3

\* A list of which every entry has a partner in a list of the same length and
\* no two the same: no entry of the other is without a partner.
LEMMA EverybodyIsMatched ==
  ASSUME NEW inputs \in StreamList, NEW outputs \in StreamList,
         IdsAreUnique(inputs), Len(outputs) = Len(inputs),
         \A n \in DOMAIN inputs : \E m \in DOMAIN outputs : outputs[m].id = inputs[n].id
  PROVE  /\ \A m \in DOMAIN outputs : \E n \in DOMAIN inputs : outputs[m].id = inputs[n].id
         /\ IdsAreUnique(outputs)
         /\ Ids(outputs) = Ids(inputs)
<1> DEFINE Partner == [n \in DOMAIN inputs |-> CHOOSE m \in DOMAIN outputs : outputs[m].id = inputs[n].id]
<1>1. \A n \in DOMAIN inputs : Partner[n] \in DOMAIN outputs /\ outputs[Partner[n]].id = inputs[n].id
  OBVIOUS
<1>2. Partner \in [DOMAIN inputs -> DOMAIN outputs]
  BY <1>1
<1> HIDE DEF Partner
<1>3. Partner \in Injection(DOMAIN inputs, DOMAIN outputs)
  BY <1>1, <1>2 DEF Injection, IsInjective, IdsAreUnique
<1>4. /\ IsFiniteSet(DOMAIN outputs)
      /\ Cardinality(DOMAIN inputs) = Cardinality(DOMAIN outputs)
  BY ListFacts
<1>5. Partner \in Surjection(DOMAIN inputs, DOMAIN outputs)
  <2>1. (Cardinality(DOMAIN inputs) = Cardinality(DOMAIN outputs))
          <=> Partner \in Surjection(DOMAIN inputs, DOMAIN outputs)
    BY <1>3, <1>4, FS_Injection, Zenon
  <2> QED BY <1>4, <2>1
<1>6. ASSUME NEW m \in DOMAIN outputs
      PROVE  \E n \in DOMAIN inputs : Partner[n] = m /\ outputs[m].id = inputs[n].id
  BY <1>1, <1>5 DEF Surjection
<1>7. IdsAreUnique(outputs)
  BY <1>6 DEF IdsAreUnique
<1>8. Ids(outputs) = Ids(inputs)
  <2>1. \A s : s \in Ids(outputs) => s \in Ids(inputs)
    BY <1>6 DEF Ids
  <2>2. \A s : s \in Ids(inputs) => s \in Ids(outputs)
    BY <1>1 DEF Ids
  <2> QED BY <2>1, <2>2
<1> QED BY <1>6, <1>7, <1>8

\* A list whose ids are unique is as long as its table is large.
LEMMA TableIsAsLarge ==
  ASSUME NEW list \in StreamList, IdsAreUnique(list)
  PROVE  IsFiniteSet(Ids(list)) /\ Cardinality(Ids(list)) = Len(list)
<1> DEFINE IdAt == [n \in DOMAIN list |-> list[n].id]
<1>1. IdAt \in Surjection(DOMAIN list, Ids(list)) /\ IdAt \in Injection(DOMAIN list, Ids(list))
  BY DEF Surjection, Injection, IsInjective, Ids, IdsAreUnique
<1>2. IsFiniteSet(DOMAIN list) /\ Cardinality(DOMAIN list) = Len(list)
  BY ListFacts
<1> QED BY <1>1, <1>2, FS_Surjection

\* The checks of one list are those of its table (streaming_payments/shape.ak).
THEOREM ListsAreTables ==
  ASSUME NEW list \in StreamList
  PROVE  ListIsValid(list) <=> IdsAreUnique(list) /\ StreamsAreValid(Table(list))
<1> SUFFICES ASSUME IdsAreUnique(list)
             PROVE  ListIsValid(list) <=> StreamsAreValid(Table(list))
  BY DEF ListIsValid
<1>1. Cardinality(DOMAIN Table(list)) = Len(list)
  BY TableFacts, TableIsAsLarge
<1>2. (\A n \in DOMAIN list : StreamIsShaped(list[n].stream))
        <=> \A s \in DOMAIN Table(list) : StreamIsShaped(Table(list)[s])
  <2>1. \A n \in DOMAIN list : list[n].id \in DOMAIN Table(list) /\ Table(list)[list[n].id] = list[n].stream
    BY TableFacts, Zenon
  <2>2. \A s \in DOMAIN Table(list) : \E n \in DOMAIN list : s = list[n].id
    BY DEF Table, Ids
  <2>3. ASSUME \A n \in DOMAIN list : StreamIsShaped(list[n].stream), NEW s \in DOMAIN Table(list)
        PROVE  StreamIsShaped(Table(list)[s])
    <3>1. PICK n \in DOMAIN list : s = list[n].id
      BY <2>2
    <3>2. Table(list)[s] = list[n].stream
      BY <2>1, <3>1
    <3> QED BY <2>3, <3>2
  <2>4. ASSUME \A s \in DOMAIN Table(list) : StreamIsShaped(Table(list)[s]), NEW n \in DOMAIN list
        PROVE  StreamIsShaped(list[n].stream)
    BY <2>1, <2>4
  <2> QED BY <2>3, <2>4
<1> QED BY <1>1, <1>2 DEF ListIsValid, StreamsAreValid

-----------------------------------------------------------------------------
(* Forwarding. *)

LEMMA ForwardingLeavesTheEnd ==
  ASSUME NEW input \in StreamingPayment, NEW output \in StreamingPayment
  PROVE  CoreFieldsMatch(input, output) /\ output.paid = input.paid
           <=> output = [input EXCEPT !.end = output.end]
BY DEF CoreFieldsMatch, StreamingPayment

LEMMA SameEndIsSameStream ==
  ASSUME NEW input \in StreamingPayment
  PROVE  [input EXCEPT !.end = input.end] = input
BY DEF StreamingPayment

LEMMA PartnersAreForwarded ==
  ASSUME NEW inputs \in StreamList, NEW outputs \in StreamList,
         NEW n \in DOMAIN inputs, NEW m \in DOMAIN outputs
  PROVE  IsForwardedBy(inputs[n], outputs[m])
           <=> /\ outputs[m].id = inputs[n].id
               /\ outputs[m].stream = [inputs[n].stream EXCEPT !.end = outputs[m].stream.end]
<1>1. inputs[n].stream \in StreamingPayment /\ outputs[m].stream \in StreamingPayment
  BY ListFacts
<1>2. CoreFieldsMatch(inputs[n].stream, outputs[m].stream) /\ outputs[m].stream.paid = inputs[n].stream.paid
        <=> outputs[m].stream = [inputs[n].stream EXCEPT !.end = outputs[m].stream.end]
  BY <1>1, ForwardingLeavesTheEnd
<1> QED BY <1>2 DEF IsForwardedBy

\* Where nothing may change, the contract looks for every input among the
\* outputs, by id (are_forwarded).  That makes the tables equal.
THEOREM ForwardedListsAgree ==
  ASSUME NEW inputs \in StreamList, NEW outputs \in StreamList, IdsAreUnique(inputs)
  PROVE  AreForwarded(inputs, outputs)
           <=> IdsAreUnique(outputs) /\ Table(outputs) = Table(inputs)
<1>1. ASSUME AreForwarded(inputs, outputs)
      PROVE  IdsAreUnique(outputs) /\ Table(outputs) = Table(inputs)
  <2>1. /\ \A m \in DOMAIN outputs : \E n \in DOMAIN inputs : outputs[m].id = inputs[n].id
        /\ IdsAreUnique(outputs)
        /\ Ids(outputs) = Ids(inputs)
    BY <1>1, EverybodyIsMatched DEF AreForwarded, IsForwardedBy
  <2>2. ASSUME NEW m \in DOMAIN outputs
        PROVE  Table(inputs)[outputs[m].id] = outputs[m].stream
    <3>1. PICK n \in DOMAIN inputs : outputs[m].id = inputs[n].id
      BY <2>1
    <3>2. PICK l \in DOMAIN outputs :
            IsForwardedBy(inputs[n], outputs[l]) /\ outputs[l].stream.end = inputs[n].stream.end
      BY <1>1 DEF AreForwarded
    <3>3. l = m
      BY <2>1, <3>1, <3>2 DEF IdsAreUnique, IsForwardedBy
    <3>4. outputs[m].stream = inputs[n].stream
      BY <3>2, <3>3, PartnersAreForwarded, SameEndIsSameStream, ListFacts
    <3> QED BY <3>1, <3>4, TableFacts
  <2>3. Table(inputs) = [s \in Ids(outputs) |-> Table(inputs)[s]]
    BY <2>1 DEF Table
  <2> QED BY <2>1, <2>2, <2>3, TableFacts
<1>2. ASSUME IdsAreUnique(outputs), Table(outputs) = Table(inputs)
      PROVE  AreForwarded(inputs, outputs)
  <2>1. Ids(outputs) = Ids(inputs)
    BY <1>2, TableFacts
  <2>2. Len(outputs) = Len(inputs)
    BY <1>2, <2>1, TableIsAsLarge
  <2>3. ASSUME NEW n \in DOMAIN inputs
        PROVE  \E m \in DOMAIN outputs :
                 IsForwardedBy(inputs[n], outputs[m]) /\ outputs[m].stream.end = inputs[n].stream.end
    <3>1. PICK m \in DOMAIN outputs : outputs[m].id = inputs[n].id
      BY <2>1 DEF Ids
    <3>2. outputs[m].stream = inputs[n].stream
      BY <1>2, <3>1, TableFacts
    <3> QED BY <3>1, <3>2, PartnersAreForwarded, SameEndIsSameStream, ListFacts
  <2> QED BY <2>2, <2>3 DEF AreForwarded
<1> QED BY <1>1, <1>2


LEMMA CancelledListsAgree ==
  ASSUME NEW inputs \in StreamList, NEW outputs \in StreamList, IdsAreUnique(inputs),
         NEW target \in Ids(inputs), NEW latest
  PROVE  IsPayeeCancelled(inputs, outputs, target, latest)
           <=> /\ IdsAreUnique(outputs)
               /\ \E end \in Int :
                    /\ end < Table(inputs)[target].end
                    /\ end >= Cutoff(Table(inputs)[target], latest)
                    /\ Table(outputs) = [Table(inputs) EXCEPT ![target].end = end]
<1> DEFINE Stopped(end) == [Table(inputs) EXCEPT ![target].end = end]
<1>1. PICK i \in DOMAIN inputs : inputs[i].id = target
  BY DEF Ids
<1>2. /\ Table(inputs)[target] = inputs[i].stream
      /\ DOMAIN Table(inputs) = Ids(inputs)
      /\ \A n \in DOMAIN inputs : Table(inputs)[inputs[n].id] = inputs[n].stream
  BY <1>1, TableFacts
<1>3. \A end : /\ DOMAIN Stopped(end) = Ids(inputs)
               /\ Stopped(end) = [s \in Ids(inputs) |-> Stopped(end)[s]]
               /\ Stopped(end)[target] = [inputs[i].stream EXCEPT !.end = end]
               /\ \A n \in DOMAIN inputs : n # i => Stopped(end)[inputs[n].id] = inputs[n].stream
  <2> TAKE end
  <2>1. DOMAIN Stopped(end) = Ids(inputs) /\ Stopped(end) = [s \in Ids(inputs) |-> Stopped(end)[s]]
    BY <1>2
  <2>2. Stopped(end)[target] = [inputs[i].stream EXCEPT !.end = end]
    BY <1>2
  <2>3. ASSUME NEW n \in DOMAIN inputs, n # i
        PROVE  Stopped(end)[inputs[n].id] = inputs[n].stream
    <3>1. inputs[n].id # target /\ inputs[n].id \in Ids(inputs)
      BY <1>1, <2>3 DEF IdsAreUnique, Ids
    <3> QED BY <1>2, <3>1
  <2> QED BY <2>1, <2>2, <2>3
<1> HIDE DEF Stopped
<1>4. ASSUME IsPayeeCancelled(inputs, outputs, target, latest)
      PROVE  /\ IdsAreUnique(outputs)
             /\ \E end \in Int : /\ end < Table(inputs)[target].end
                                 /\ end >= Cutoff(Table(inputs)[target], latest)
                                 /\ Table(outputs) = Stopped(end)
  <2>1. /\ \A m \in DOMAIN outputs : \E n \in DOMAIN inputs : outputs[m].id = inputs[n].id
        /\ IdsAreUnique(outputs)
        /\ Ids(outputs) = Ids(inputs)
    BY <1>4, EverybodyIsMatched DEF IsPayeeCancelled, IsForwardedBy
  <2>2. PICK k \in DOMAIN outputs :
          /\ IsForwardedBy(inputs[i], outputs[k])
          /\ EndMayBe(inputs[i], target, latest, outputs[k].stream.end)
    BY <1>4 DEF IsPayeeCancelled
  <2> DEFINE end == outputs[k].stream.end
  <2>3. end \in Int
    BY ListFacts DEF StreamingPayment
  <2>4. end < Table(inputs)[target].end /\ end >= Cutoff(Table(inputs)[target], latest)
    BY <1>1, <1>2, <2>2 DEF EndMayBe
  <2> HIDE DEF end
  <2>5. ASSUME NEW m \in DOMAIN outputs
        PROVE  Stopped(end)[outputs[m].id] = outputs[m].stream
    <3>1. PICK n \in DOMAIN inputs : outputs[m].id = inputs[n].id
      BY <2>1
    <3>2. PICK l \in DOMAIN outputs :
            /\ IsForwardedBy(inputs[n], outputs[l])
            /\ EndMayBe(inputs[n], target, latest, outputs[l].stream.end)
      BY <1>4 DEF IsPayeeCancelled
    <3>3. l = m
      BY <2>1, <3>1, <3>2 DEF IdsAreUnique, IsForwardedBy
    <3>4. outputs[m].stream = [inputs[n].stream EXCEPT !.end = outputs[m].stream.end]
      BY <3>2, <3>3, PartnersAreForwarded
    <3>5. CASE n = i
      <4>1. m = k
        BY <2>1, <2>2, <3>1, <3>5 DEF IdsAreUnique, IsForwardedBy
      <4> QED BY <1>1, <1>3, <3>1, <3>4, <3>5, <4>1 DEF end
    <3>6. CASE n # i
      <4>1. inputs[n].id # target
        BY <1>1, <3>6 DEF IdsAreUnique
      <4>2. outputs[m].stream.end = inputs[n].stream.end
        BY <3>2, <3>3, <4>1 DEF EndMayBe
      <4>3. outputs[m].stream = inputs[n].stream
        BY <3>4, <4>2, SameEndIsSameStream, ListFacts
      <4> QED BY <1>3, <3>1, <3>6, <4>3
    <3> QED BY <3>5, <3>6
  <2>6. Stopped(end) = [s \in Ids(outputs) |-> Stopped(end)[s]]
    BY <1>3, <2>1
  <2>7. Table(outputs) = Stopped(end)
    BY <2>1, <2>5, <2>6, TableFacts
  <2> QED BY <2>1, <2>3, <2>4, <2>7
<1>5. ASSUME IdsAreUnique(outputs), NEW end \in Int,
             end < Table(inputs)[target].end,
             end >= Cutoff(Table(inputs)[target], latest),
             Table(outputs) = Stopped(end)
      PROVE  IsPayeeCancelled(inputs, outputs, target, latest)
  <2>1. Ids(outputs) = Ids(inputs)
    BY <1>3, <1>5, TableFacts
  <2>2. Len(outputs) = Len(inputs)
    BY <1>5, <2>1, TableIsAsLarge
  <2>3. ASSUME NEW n \in DOMAIN inputs
        PROVE  \E m \in DOMAIN outputs :
                 /\ IsForwardedBy(inputs[n], outputs[m])
                 /\ EndMayBe(inputs[n], target, latest, outputs[m].stream.end)
    <3>1. PICK m \in DOMAIN outputs : outputs[m].id = inputs[n].id
      BY <2>1 DEF Ids
    <3>2. outputs[m].stream = Stopped(end)[inputs[n].id]
      BY <1>5, <3>1, TableFacts
    <3>3. CASE n = i
      <4>1. outputs[m].stream = [inputs[n].stream EXCEPT !.end = end]
        BY <1>1, <1>3, <3>2, <3>3
      <4>2. outputs[m].stream.end = end
        BY <4>1, ListFacts DEF StreamingPayment
      <4>3. IsForwardedBy(inputs[n], outputs[m])
        BY <3>1, <4>1, <4>2, PartnersAreForwarded
      <4> QED BY <1>1, <1>2, <1>5, <3>3, <4>2, <4>3 DEF EndMayBe
    <3>4. CASE n # i
      <4>1. outputs[m].stream = inputs[n].stream
        BY <1>3, <3>2, <3>4
      <4>2. IsForwardedBy(inputs[n], outputs[m])
        BY <3>1, <4>1, PartnersAreForwarded, SameEndIsSameStream, ListFacts
      <4>3. inputs[n].id # target
        BY <1>1, <3>4 DEF IdsAreUnique
      <4> QED BY <4>1, <4>2, <4>3 DEF EndMayBe
    <3> QED BY <3>3, <3>4
  <2> QED BY <2>2, <2>3 DEF IsPayeeCancelled
<1> QED BY <1>4, <1>5 DEF Stopped

\* StopStream is what the contract checks of the lists of a stop.
THEOREM StoppedListsAgree ==
  ASSUME NEW inputs \in StreamList, NEW outputs \in StreamList, IdsAreUnique(inputs),
         streams = Table(inputs), streams' = Table(outputs),
         NEW s \in DOMAIN streams, NEW tx, NEW exact \in BOOLEAN
  PROVE  IdsAreUnique(outputs) /\ StopStream(tx, s, exact)
           <=> /\ NonAdminCadence(tx)
               /\ IsPayeeCancelled(inputs, outputs, s, tx.hi)
               /\ exact => FindById(outputs, s).end = Cutoff(FindById(inputs, s), tx.hi)
               /\ ListIsValid(outputs)
               /\ UNCHANGED <<now, access, unlock, increment, labels>>
<1>1. s \in Ids(inputs) /\ FindById(inputs, s) = streams[s]
  BY DEF Table
<1>2. IsPayeeCancelled(inputs, outputs, s, tx.hi)
        <=> /\ IdsAreUnique(outputs)
            /\ \E end \in Int : /\ end < streams[s].end
                                /\ end >= Cutoff(streams[s], tx.hi)
                                /\ streams' = [streams EXCEPT ![s].end = end]
  BY <1>1, CancelledListsAgree
<1>3. ASSUME NEW end, streams' = [streams EXCEPT ![s].end = end]
      PROVE  FindById(outputs, s).end = end /\ s \in DOMAIN streams' /\ streams'[s].end = end
  <2>1. s \in DOMAIN streams' /\ streams'[s] = [streams[s] EXCEPT !.end = end]
    BY <1>3
  <2>2. streams[s] \in StreamingPayment
    <3>1. PICK n \in DOMAIN inputs : inputs[n].id = s
      BY <1>1 DEF Ids
    <3> QED BY <1>1, <3>1, TableFacts, ListFacts
  <2>3. streams'[s].end = end
    BY <2>1, <2>2 DEF StreamingPayment
  <2>4. FindById(outputs, s) = streams'[s]
    BY <2>1 DEF Table
  <2> QED BY <2>1, <2>3, <2>4
<1>4. ListIsValid(outputs) <=> IdsAreUnique(outputs) /\ StreamsAreValid(streams')
  BY ListsAreTables
<1>5. ASSUME NEW end \in Int, s \in DOMAIN streams', streams'[s].end = end, StreamsAreValid(streams')
      PROVE  end \in Time
  BY <1>5, MaxStateIntegerAssumption DEF Time, StreamsAreValid, StreamIsShaped, Bounded
<1>6. ASSUME IdsAreUnique(outputs), StopStream(tx, s, exact)
      PROVE  /\ NonAdminCadence(tx)
             /\ IsPayeeCancelled(inputs, outputs, s, tx.hi)
             /\ exact => FindById(outputs, s).end = Cutoff(FindById(inputs, s), tx.hi)
             /\ ListIsValid(outputs)
             /\ UNCHANGED <<now, access, unlock, increment, labels>>
  <2>1. PICK end \in Time :
          /\ NonAdminCadence(tx)
          /\ end < streams[s].end
          /\ end >= Cutoff(streams[s], tx.hi)
          /\ exact => end = Cutoff(streams[s], tx.hi)
          /\ streams' = [streams EXCEPT ![s].end = end]
          /\ StreamsAreValid(streams')
          /\ UNCHANGED <<now, access, unlock, increment, labels>>
    BY <1>6 DEF StopStream
  <2>2. end \in Int
    BY MaxStateIntegerAssumption DEF Time
  <2>3. FindById(outputs, s).end = end
    BY <1>3, <2>1
  <2> QED BY <1>1, <1>2, <1>4, <1>6, <2>1, <2>2, <2>3
<1>7. ASSUME NonAdminCadence(tx),
             IsPayeeCancelled(inputs, outputs, s, tx.hi),
             exact => FindById(outputs, s).end = Cutoff(FindById(inputs, s), tx.hi),
             ListIsValid(outputs),
             UNCHANGED <<now, access, unlock, increment, labels>>
      PROVE  IdsAreUnique(outputs) /\ StopStream(tx, s, exact)
  <2>1. PICK end \in Int : /\ end < streams[s].end
                           /\ end >= Cutoff(streams[s], tx.hi)
                           /\ streams' = [streams EXCEPT ![s].end = end]
    BY <1>2, <1>7
  <2>2. FindById(outputs, s).end = end /\ s \in DOMAIN streams' /\ streams'[s].end = end
    BY <1>3, <2>1
  <2>3. IdsAreUnique(outputs) /\ StreamsAreValid(streams')
    BY <1>4, <1>7
  <2>4. end \in Time
    BY <1>5, <2>2, <2>3
  <2>5. exact => end = Cutoff(streams[s], tx.hi)
    BY <1>1, <1>7, <2>2
  <2> QED BY <1>7, <2>1, <2>3, <2>4, <2>5 DEF StopStream
<1> QED BY <1>6, <1>7


\* Rescheduled is what the contract checks of the lists of a reschedule.
THEOREM RescheduledListsAgree ==
  ASSUME NEW inputs \in StreamList, NEW outputs \in StreamList,
         IdsAreUnique(inputs), IdsAreUnique(outputs),
         streams = Table(inputs), streams' = Table(outputs), NEW tx
  PROVE  AreForwardedRescheduledOrAdded(inputs, outputs, tx.hi, None)
           <=> \E added \in SUBSET (StreamId \ DOMAIN streams) :
                 \E fresh \in [added -> StreamingPayment], end \in [DOMAIN streams -> Int] :
                   Rescheduled(tx, added, fresh, end)
<1>1. /\ DOMAIN streams = Ids(inputs) /\ DOMAIN streams' = Ids(outputs)
      /\ \A n \in DOMAIN inputs : inputs[n].id \in Ids(inputs) /\ streams[inputs[n].id] = inputs[n].stream
      /\ \A m \in DOMAIN outputs : outputs[m].id \in Ids(outputs) /\ streams'[outputs[m].id] = outputs[m].stream
  BY TableFacts
<1>2. /\ \A n \in DOMAIN inputs : inputs[n].stream \in StreamingPayment
      /\ \A m \in DOMAIN outputs : outputs[m].id \in StreamId /\ outputs[m].stream \in StreamingPayment
  BY ListFacts
<1>3. ASSUME AreForwardedRescheduledOrAdded(inputs, outputs, tx.hi, None)
      PROVE  \E added \in SUBSET (StreamId \ DOMAIN streams) :
               \E fresh \in [added -> StreamingPayment], end \in [DOMAIN streams -> Int] :
                 Rescheduled(tx, added, fresh, end)
  <2> DEFINE added == Ids(outputs) \ Ids(inputs)
             fresh == [s \in added |-> streams'[s]]
             end == [s \in DOMAIN streams |-> streams'[s].end]
  <2>1. ASSUME NEW s \in DOMAIN streams
        PROVE  /\ s \in DOMAIN streams'
               /\ end[s] \in Int
               /\ end[s] >= EndDateFloor(streams[s], tx.hi, None)
               /\ streams'[s] = [streams[s] EXCEPT !.end = end[s]]
    <3>1. PICK n \in DOMAIN inputs : inputs[n].id = s
      BY <1>1 DEF Ids
    <3>2. PICK m \in DOMAIN outputs :
            /\ IsForwardedBy(inputs[n], outputs[m])
            /\ outputs[m].stream.end >= EndDateFloor(inputs[n].stream, tx.hi, None)
      BY <1>3 DEF AreForwardedRescheduledOrAdded
    <3>3. /\ outputs[m].id = s
          /\ outputs[m].stream = [inputs[n].stream EXCEPT !.end = outputs[m].stream.end]
      BY <3>1, <3>2, PartnersAreForwarded
    <3>4. streams'[s] = outputs[m].stream /\ streams[s] = inputs[n].stream /\ s \in DOMAIN streams'
      BY <1>1, <3>1, <3>3
    <3>5. end[s] = outputs[m].stream.end /\ end[s] \in Int
      BY <1>2, <3>4 DEF StreamingPayment
    <3> HIDE DEF end
    <3> QED BY <3>2, <3>3, <3>4, <3>5
  <2>2. ASSUME NEW s \in added
        PROVE  /\ s \in StreamId
               /\ streams'[s] \in StreamingPayment
               /\ StreamIsFresh(streams'[s])
    <3>1. PICK m \in DOMAIN outputs : outputs[m].id = s /\ outputs[m].id \notin Ids(inputs)
      BY DEF Ids
    <3>2. StreamIsFresh(outputs[m].stream)
      BY <1>3, <3>1 DEF AreForwardedRescheduledOrAdded
    <3> QED BY <1>1, <1>2, <3>1, <3>2
  <2>3. added \in SUBSET (StreamId \ DOMAIN streams)
    BY <1>1, <2>2
  <2>4. fresh \in [added -> StreamingPayment] /\ end \in [DOMAIN streams -> Int]
    BY <2>1, <2>2
  <2>5. streams' = [s \in DOMAIN streams \cup added |->
                      IF s \in added THEN fresh[s] ELSE [streams[s] EXCEPT !.end = end[s]]]
    <3>1. DOMAIN streams' = DOMAIN streams \cup added
      BY <1>1, <2>1
    <3>2. streams' = [s \in DOMAIN streams' |-> streams'[s]]
      BY DEF Table
    <3>3. \A s \in DOMAIN streams \cup added :
            streams'[s] = IF s \in added THEN fresh[s] ELSE [streams[s] EXCEPT !.end = end[s]]
      BY <2>1
    <3> HIDE DEF added, fresh, end
    <3> QED BY <3>1, <3>2, <3>3
  <2>6. \A s \in added : StreamIsFresh(fresh[s])
    BY <2>2
  <2>7. Rescheduled(tx, added, fresh, end)
    <3> HIDE DEF added, fresh, end
    <3> QED BY <2>1, <2>5, <2>6 DEF Rescheduled
  <2> HIDE DEF added, fresh, end
  <2> QED BY <2>3, <2>4, <2>7
<1>4. ASSUME NEW added \in SUBSET (StreamId \ DOMAIN streams),
             NEW fresh \in [added -> StreamingPayment], NEW end \in [DOMAIN streams -> Int],
             Rescheduled(tx, added, fresh, end)
      PROVE  AreForwardedRescheduledOrAdded(inputs, outputs, tx.hi, None)
  <2>1. /\ \A s \in added : StreamIsFresh(fresh[s])
        /\ \A s \in DOMAIN streams : end[s] >= EndDateFloor(streams[s], tx.hi, None)
        /\ streams' = [s \in DOMAIN streams \cup added |->
                         IF s \in added THEN fresh[s] ELSE [streams[s] EXCEPT !.end = end[s]]]
    BY <1>4 DEF Rescheduled
  <2>2. DOMAIN streams' = DOMAIN streams \cup added
    BY <2>1
  <2>3. \A s \in added : s \in DOMAIN streams' /\ streams'[s] = fresh[s]
    BY <2>1
  <2>4. \A s \in DOMAIN streams : streams'[s] = [streams[s] EXCEPT !.end = end[s]] /\ end[s] \in Int
    BY <2>1
  <2>5. ASSUME NEW n \in DOMAIN inputs
        PROVE  \E m \in DOMAIN outputs :
                 /\ IsForwardedBy(inputs[n], outputs[m])
                 /\ outputs[m].stream.end >= EndDateFloor(inputs[n].stream, tx.hi, None)
    <3>1. inputs[n].id \in DOMAIN streams /\ streams[inputs[n].id] = inputs[n].stream
      BY <1>1
    <3>2. PICK m \in DOMAIN outputs : outputs[m].id = inputs[n].id
      BY <1>1, <2>2, <3>1 DEF Ids
    <3> DEFINE e == end[inputs[n].id]
    <3>3. outputs[m].stream = [inputs[n].stream EXCEPT !.end = e] /\ e \in Int
      BY <1>1, <2>4, <3>1, <3>2
    <3>4. e >= EndDateFloor(inputs[n].stream, tx.hi, None)
      BY <2>1, <3>1
    <3> HIDE DEF e
    <3>5. outputs[m].stream.end = e
      BY <1>2, <3>3 DEF StreamingPayment
    <3>6. IsForwardedBy(inputs[n], outputs[m])
      BY <3>2, <3>3, <3>5, PartnersAreForwarded
    <3> QED BY <3>4, <3>5, <3>6
  <2>6. ASSUME NEW m \in DOMAIN outputs
        PROVE  outputs[m].id \in Ids(inputs) \/ StreamIsFresh(outputs[m].stream)
    <3> SUFFICES ASSUME outputs[m].id \notin Ids(inputs) PROVE StreamIsFresh(outputs[m].stream)
      OBVIOUS
    <3>1. outputs[m].id \in added /\ streams'[outputs[m].id] = outputs[m].stream
      BY <1>1, <2>2
    <3>2. fresh[outputs[m].id] = outputs[m].stream
      BY <2>3, <3>1
    <3> QED BY <2>1, <3>1, <3>2
  <2> QED BY <2>5, <2>6 DEF AreForwardedRescheduledOrAdded
<1> QED BY <1>3, <1>4

-----------------------------------------------------------------------------
(* The walk of a settlement. *)

\* Every output is met by one input, in order, so that none is added, doubled or moved.
LEMMA EveryOutputIsMet ==
  ASSUME NEW inputs \in StreamList, NEW outputs \in StreamList, IdsAreUnique(inputs),
         NEW cursor \in Cursors(inputs, outputs),
         IsWalk(inputs, outputs, cursor), cursor[Len(inputs)] = Len(outputs)
  PROVE  /\ \A n \in DOMAIN inputs : Meets(inputs, outputs, cursor, n) =>
              cursor[n] \in DOMAIN outputs /\ outputs[cursor[n]].id = inputs[n].id
         /\ \A m \in DOMAIN outputs : \E n \in DOMAIN inputs :
              /\ cursor[n] = m /\ Meets(inputs, outputs, cursor, n)
              /\ \A k \in 0..(n - 1) : cursor[k] < m
         /\ IdsAreUnique(outputs)
<1> DEFINE Met(n) == Meets(inputs, outputs, cursor, n)
<1>1. /\ Len(inputs) \in Nat /\ DOMAIN inputs = 1..Len(inputs)
      /\ Len(outputs) \in Nat /\ DOMAIN outputs = 1..Len(outputs)
  BY ListFacts
<1>2. \A k \in 0..Len(inputs) : cursor[k] \in 0..Len(outputs)
  BY DEF Cursors
<1>3. \A n \in DOMAIN inputs : cursor[n] = cursor[n - 1] + (IF Met(n) THEN 1 ELSE 0)
  BY DEF IsWalk
<1>4. \A n \in DOMAIN inputs : Met(n) =>
        cursor[n - 1] + 1 \in DOMAIN outputs /\ outputs[cursor[n - 1] + 1].id = inputs[n].id
  BY DEF Meets
<1>5. cursor[0] = 0
  BY DEF IsWalk
<1> HIDE DEF Met
<1>6. \A n \in DOMAIN inputs : Met(n) => cursor[n] \in DOMAIN outputs /\ outputs[cursor[n]].id = inputs[n].id
  <2> TAKE n \in DOMAIN inputs
  <2> HAVE Met(n)
  <2>1. cursor[n] = cursor[n - 1] + 1
    BY <1>3
  <2> QED BY <1>4, <2>1
<1>7. ASSUME NEW m \in DOMAIN outputs
      PROVE  \E n \in DOMAIN inputs : cursor[n] = m /\ Met(n) /\ \A k \in 0..(n - 1) : cursor[k] < m
  <2> DEFINE Passed == {k \in 0..Len(inputs) : cursor[k] >= m}
  <2>1. Len(inputs) \in Passed /\ Passed \subseteq Nat
    BY <1>1
  <2>2. PICK n \in Passed : \A k \in Passed : n <= k
    <3> HIDE DEF Passed
    <3> QED BY <2>1, LeastExists
  <2>3. n # 0
    BY <1>1, <1>5, <2>2
  <2>4. n \in DOMAIN inputs /\ n - 1 \in 0..Len(inputs) /\ n - 1 \notin Passed
    BY <1>1, <2>2, <2>3
  <2>5. \A k \in 0..(n - 1) : cursor[k] < m
    <3> TAKE k \in 0..(n - 1)
    <3>1. k \in 0..Len(inputs) /\ k \notin Passed
      BY <1>1, <2>2, <2>4
    <3>2. cursor[k] \in Int /\ m \in Int
      BY <1>1, <1>2, <3>1
    <3> QED BY <3>1, <3>2
  <2>6. /\ cursor[n - 1] < m /\ cursor[n] >= m
        /\ cursor[n - 1] \in Int /\ cursor[n] \in Int /\ m \in Int
    BY <1>1, <1>2, <2>2, <2>4, <2>5
  <2>7. Met(n) /\ cursor[n] = cursor[n - 1] + 1
    BY <1>3, <2>4, <2>6
  <2>8. cursor[n] = m
    BY <2>6, <2>7
  <2> QED BY <2>4, <2>5, <2>7, <2>8
<1>8. IdsAreUnique(outputs)
  <2> SUFFICES ASSUME NEW l \in DOMAIN outputs, NEW m \in DOMAIN outputs, outputs[l].id = outputs[m].id
               PROVE  l = m
    BY DEF IdsAreUnique
  <2>1. PICK i \in DOMAIN inputs : cursor[i] = l /\ Met(i)
    BY <1>7
  <2>2. PICK j \in DOMAIN inputs : cursor[j] = m /\ Met(j)
    BY <1>7
  <2>3. inputs[i].id = inputs[j].id
    BY <1>6, <2>1, <2>2
  <2>4. i = j
    BY <2>3 DEF IdsAreUnique
  <2> QED BY <2>1, <2>2, <2>4
<1> QED BY <1>6, <1>7, <1>8 DEF Met


\* An unchanged stream is kept with the amount it has.
LEMMA RetainedIsRewritten ==
  ASSUME NEW input \in StreamingPayment, NEW output \in StreamingPayment, StreamIsShaped(input),
         NEW earliest \in Int
  PROVE  IsRetained(input, output, earliest)
           <=> RetainedWith(input, output.paid, earliest) /\ output = [input EXCEPT !.paid = output.paid]
<1>1. [input EXCEPT !.paid = input.paid] = input
  BY DEF StreamingPayment
<1>2. IsSchedule(input)
  BY DEF StreamIsShaped, Bounded, IsSchedule, StreamingPayment
<1>3. AccruedAt(input, earliest) \in Int /\ input.paid \in Int /\ Bounded(input.paid)
  BY <1>2, AccrualFacts DEF StreamIsShaped, IsSchedule
<1>4. RetainedWith(input, input.paid, earliest) <=> StillOwes(input, input.paid)
  <2>1. 0 <= Larger(0, AccruedAt(input, earliest) - input.paid)
    BY <1>3 DEF Larger
  <2>2. input.paid - input.paid = 0 /\ input.paid >= input.paid
    BY <1>3
  <2> QED BY <1>3, <2>1, <2>2 DEF RetainedWith
<1>5. CASE output = input
  BY <1>1, <1>4, <1>5 DEF IsRetained
<1>6. CASE output # input
  BY <1>6 DEF IsRetained
<1> QED BY <1>5, <1>6

\* A walk comes to the end of both lists if the outputs stand in the order of the inputs.
LEMMA OrderedListsAreWalked ==
  ASSUME NEW inputs \in StreamList, NEW outputs \in StreamList, IdsAreUnique(inputs),
         IsOrderedPart(outputs, inputs)
  PROVE  \E cursor \in Cursors(inputs, outputs) :
           IsWalk(inputs, outputs, cursor) /\ cursor[Len(inputs)] = Len(outputs)
<1>1. /\ Len(inputs) \in Nat /\ DOMAIN inputs = 1..Len(inputs)
      /\ Len(outputs) \in Nat /\ DOMAIN outputs = 1..Len(outputs)
  BY ListFacts
<1>2. PICK place \in [DOMAIN outputs -> DOMAIN inputs] :
        /\ \A m \in DOMAIN outputs : inputs[place[m]].id = outputs[m].id
        /\ \A l, m \in DOMAIN outputs : l < m => place[l] < place[m]
  BY DEF IsOrderedPart
<1> DEFINE Passed(n, k) == /\ \A m \in 1..k : place[m] <= n
                           /\ \A m \in (k + 1)..Len(outputs) : place[m] > n
           cursor == [n \in 0..Len(inputs) |-> CHOOSE k \in 0..Len(outputs) : Passed(n, k)]
<1>3. \A m \in 1..Len(outputs) : place[m] \in 1..Len(inputs)
  BY <1>1, <1>2
<1>4. ASSUME NEW n \in 0..Len(inputs)
      PROVE  \E k \in 0..Len(outputs) : Passed(n, k)
  <2> DEFINE Ahead == {k \in 0..Len(outputs) : \A m \in (k + 1)..Len(outputs) : place[m] > n}
  <2>1. Len(outputs) \in Ahead /\ Ahead \subseteq Nat
    BY <1>1
  <2>2. PICK k \in Ahead : \A l \in Ahead : k <= l
    <3> HIDE DEF Ahead
    <3> QED BY <2>1, LeastExists
  <2>3. k \in 0..Len(outputs) /\ \A m \in (k + 1)..Len(outputs) : place[m] > n
    BY <2>2
  <2>4. ASSUME k > 0 PROVE place[k] <= n
    <3> SUFFICES ASSUME ~ (place[k] <= n) PROVE FALSE
      OBVIOUS
    <3>1. k \in 1..Len(outputs) /\ k - 1 \in 0..Len(outputs) /\ k - 1 < k
      BY <1>1, <2>3, <2>4
    <3>2. place[k] > n
      BY <1>3, <3>1
    <3>3. ASSUME NEW m \in ((k - 1) + 1)..Len(outputs) PROVE place[m] > n
      <4>1. m = k \/ m \in (k + 1)..Len(outputs)
        BY <3>1
      <4> QED BY <2>3, <3>2, <4>1
    <3>4. k - 1 \in Ahead
      BY <3>1, <3>3
    <3>5. k <= k - 1
      <4> HIDE DEF Ahead
      <4> QED BY <2>2, <3>4
    <3> QED BY <3>1, <3>5
  <2>5. ASSUME NEW m \in 1..k PROVE place[m] <= n
    <3>1. m \in 1..Len(outputs) /\ k \in 1..Len(outputs) /\ k > 0
      BY <1>1, <2>3
    <3>2. m = k \/ place[m] < place[k]
      BY <1>1, <1>2, <2>3, <3>1
    <3> QED BY <1>3, <2>4, <3>1, <3>2
  <2> QED BY <2>3, <2>5
<1>5. ASSUME NEW n \in 0..Len(inputs)
      PROVE  cursor[n] \in 0..Len(outputs) /\ Passed(n, cursor[n])
  BY <1>4
<1>6. ASSUME NEW n \in 0..Len(inputs), NEW k \in 0..Len(outputs), Passed(n, k)
      PROVE  cursor[n] = k
  <2> SUFFICES ASSUME NEW l \in 0..Len(outputs), Passed(n, l) PROVE l = k
    BY <1>5
  <2>1. ~ (l < k)
    <3> SUFFICES ASSUME l < k PROVE FALSE
      OBVIOUS
    <3>1. l + 1 \in 1..k /\ l + 1 \in (l + 1)..Len(outputs) /\ l + 1 \in 1..Len(outputs)
      BY <1>1
    <3>2. place[l + 1] <= n /\ place[l + 1] > n
      BY <1>6, <3>1
    <3> QED BY <1>3, <3>1, <3>2
  <2>2. ~ (k < l)
    <3> SUFFICES ASSUME k < l PROVE FALSE
      OBVIOUS
    <3>1. k + 1 \in 1..l /\ k + 1 \in (k + 1)..Len(outputs) /\ k + 1 \in 1..Len(outputs)
      BY <1>1
    <3>2. place[k + 1] <= n /\ place[k + 1] > n
      BY <1>6, <3>1
    <3> QED BY <1>3, <3>1, <3>2
  <2> QED BY <2>1, <2>2
<1>7. cursor \in Cursors(inputs, outputs)
  BY <1>5 DEF Cursors
<1> HIDE DEF cursor
<1>8. cursor[0] = 0
  <2>1. Passed(0, 0)
    BY <1>1, <1>3
  <2> QED BY <1>1, <1>6, <2>1
<1>9. cursor[Len(inputs)] = Len(outputs)
  <2>1. Passed(Len(inputs), Len(outputs))
    BY <1>1, <1>3
  <2> QED BY <1>1, <1>6, <2>1
<1>10. ASSUME NEW n \in DOMAIN inputs
       PROVE  cursor[n] = cursor[n - 1] + (IF Meets(inputs, outputs, cursor, n) THEN 1 ELSE 0)
  <2> DEFINE k == cursor[n - 1]
  <2>1. n - 1 \in 0..Len(inputs) /\ n \in 0..Len(inputs) /\ n \in Int
    BY <1>1
  <2>2. k \in 0..Len(outputs) /\ Passed(n - 1, k)
    BY <1>5, <2>1
  <2>3. Meets(inputs, outputs, cursor, n) <=> k + 1 \in DOMAIN outputs /\ outputs[k + 1].id = inputs[n].id
    BY DEF Meets
  <2> HIDE DEF k
  <2>4. CASE k + 1 \in DOMAIN outputs /\ outputs[k + 1].id = inputs[n].id
    <3>1. place[k + 1] = n /\ k + 1 \in 1..Len(outputs)
      BY <1>1, <1>2, <2>4 DEF IdsAreUnique
    <3>2. ASSUME NEW m \in 1..(k + 1) PROVE place[m] <= n
      <4>1. m \in 1..k \/ m = k + 1
        BY <2>2
      <4>2. m \in 1..Len(outputs)
        BY <1>1, <3>1
      <4> QED BY <1>3, <2>1, <2>2, <3>1, <4>1, <4>2
    <3>3. ASSUME NEW m \in (k + 2)..Len(outputs) PROVE place[m] > n
      <4>1. m \in DOMAIN outputs /\ k + 1 \in DOMAIN outputs /\ k + 1 < m
        BY <1>1, <2>2, <2>4
      <4>2. place[k + 1] < place[m]
        BY <1>2, <4>1
      <4> QED BY <1>1, <1>3, <2>1, <3>1, <4>1, <4>2
    <3>4. k + 1 \in 0..Len(outputs) /\ (k + 1) + 1 = k + 2
      BY <1>1, <2>2, <3>1
    <3>5. Passed(n, k + 1)
      BY <3>2, <3>3, <3>4
    <3>6. cursor[n] = k + 1
      BY <1>6, <2>1, <3>4, <3>5
    <3> QED BY <2>3, <2>4, <3>6 DEF k
  <2>5. CASE ~ (k + 1 \in DOMAIN outputs /\ outputs[k + 1].id = inputs[n].id)
    <3>1. ASSUME NEW m \in 1..k PROVE place[m] <= n
      <4>1. m \in 1..Len(outputs)
        BY <1>1, <2>2
      <4> QED BY <1>3, <2>1, <2>2, <4>1
    <3>2. ASSUME NEW m \in (k + 1)..Len(outputs) PROVE place[m] > n
      <4>1. m \in 1..Len(outputs) /\ k + 1 \in 1..Len(outputs)
        BY <1>1, <2>2
      <4>2. place[m] > n - 1 /\ place[k + 1] > n - 1
        BY <2>2, <4>1
      <4>3. place[k + 1] # n
        BY <1>1, <1>2, <2>5, <4>1
      <4>4. m = k + 1 \/ place[k + 1] < place[m]
        BY <1>1, <1>2, <2>2, <4>1
      <4> QED BY <1>3, <2>1, <4>1, <4>2, <4>3, <4>4
    <3>3. cursor[n] = k
      BY <1>6, <2>1, <2>2, <3>1, <3>2
    <3>4. k + 0 = k
      BY <2>2
    <3> QED BY <2>3, <2>5, <3>3, <3>4 DEF k
  <2> QED BY <2>4, <2>5
<1>11. IsWalk(inputs, outputs, cursor)
  BY <1>8, <1>10 DEF IsWalk
<1> QED BY <1>7, <1>9, <1>11


LEMMA MetOutputsAreOrdered ==
  ASSUME NEW inputs \in StreamList, NEW outputs \in StreamList, IdsAreUnique(inputs),
         NEW cursor \in Cursors(inputs, outputs),
         IsWalk(inputs, outputs, cursor), cursor[Len(inputs)] = Len(outputs)
  PROVE  IsOrderedPart(outputs, inputs)
<1> DEFINE MetBy(m, n) == /\ cursor[n] = m /\ Meets(inputs, outputs, cursor, n)
                          /\ \A k \in 0..(n - 1) : cursor[k] < m
           place == [m \in DOMAIN outputs |-> CHOOSE n \in DOMAIN inputs : MetBy(m, n)]
<1>1. \A m \in DOMAIN outputs : \E n \in DOMAIN inputs : MetBy(m, n)
  BY EveryOutputIsMet
<1>2. \A m \in DOMAIN outputs : place[m] \in DOMAIN inputs /\ MetBy(m, place[m])
  BY <1>1
<1>3. place \in [DOMAIN outputs -> DOMAIN inputs]
  BY <1>2
<1> HIDE DEF place
<1>4. \A m \in DOMAIN outputs : inputs[place[m]].id = outputs[m].id
  <2>1. \A n \in DOMAIN inputs : Meets(inputs, outputs, cursor, n) => outputs[cursor[n]].id = inputs[n].id
    BY EveryOutputIsMet
  <2> QED BY <1>2, <2>1
<1>5. ASSUME NEW l \in DOMAIN outputs, NEW m \in DOMAIN outputs, l < m
      PROVE  place[l] < place[m]
  <2>1. /\ Len(inputs) \in Nat /\ DOMAIN inputs = 1..Len(inputs)
        /\ Len(outputs) \in Nat /\ DOMAIN outputs = 1..Len(outputs)
    BY ListFacts
  <2>2. place[l] \in 1..Len(inputs) /\ place[m] \in 1..Len(inputs) /\ l \in Int /\ m \in Int
    BY <1>2, <2>1
  <2>3. cursor[place[l]] = l /\ cursor[place[m]] = m /\ \A k \in 0..(place[l] - 1) : cursor[k] < l
    BY <1>2
  <2>4. place[m] \notin 0..(place[l] - 1)
    BY <1>5, <2>2, <2>3
  <2>5. place[l] # place[m]
    BY <1>5, <2>2, <2>3
  <2> QED BY <2>2, <2>4, <2>5
<1> QED BY <1>3, <1>4, <1>5 DEF IsOrderedPart

\* Settled is what the walk checks, beside the order of the outputs.
THEOREM SettledListsAgree ==
  ASSUME NEW inputs \in StreamList, NEW outputs \in StreamList, ListIsValid(inputs),
         streams = Table(inputs), streams' = Table(outputs),
         NEW tx \in Transaction, FiniteRange(tx), now \in Nat
  PROVE  PayoutIsValid(inputs, outputs, tx.lo)
           <=> /\ IdsAreUnique(outputs)
               /\ IsOrderedPart(outputs, inputs)
               /\ \E kept \in SUBSET DOMAIN streams : \E paid \in [kept -> 0..MaxStateInteger] :
                    Settled(tx, kept, paid)
<1>1. /\ IdsAreUnique(inputs)
      /\ \A n \in DOMAIN inputs : StreamIsShaped(inputs[n].stream) /\ inputs[n].stream \in StreamingPayment
      /\ \A m \in DOMAIN outputs : outputs[m].stream \in StreamingPayment
      /\ tx.lo \in Int
  <2>1. tx.lo \in (0..now) \cup {None} /\ tx.lo # None
    BY DEF FiniteRange, Transaction
  <2>2. IdsAreUnique(inputs) /\ \A n \in DOMAIN inputs : StreamIsShaped(inputs[n].stream)
    BY DEF ListIsValid
  <2>3. /\ \A n \in DOMAIN inputs : inputs[n].stream \in StreamingPayment
        /\ \A m \in DOMAIN outputs : outputs[m].stream \in StreamingPayment
    BY ListFacts
  <2> QED BY <2>1, <2>2, <2>3
<1>2. /\ DOMAIN streams = Ids(inputs)
      /\ \A n \in DOMAIN inputs : inputs[n].id \in Ids(inputs) /\ streams[inputs[n].id] = inputs[n].stream
  BY <1>1, TableFacts
<1>3. ASSUME PayoutIsValid(inputs, outputs, tx.lo)
      PROVE  /\ IdsAreUnique(outputs)
             /\ IsOrderedPart(outputs, inputs)
             /\ \E kept \in SUBSET DOMAIN streams : \E paid \in [kept -> 0..MaxStateInteger] :
                  Settled(tx, kept, paid)
  <2>1. PICK cursor \in Cursors(inputs, outputs) : WalkIsAccepted(inputs, outputs, cursor, tx.lo)
    BY <1>3 DEF PayoutIsValid
  <2>2. IsWalk(inputs, outputs, cursor) /\ cursor[Len(inputs)] = Len(outputs)
    BY <2>1 DEF WalkIsAccepted
  <2>3. /\ \A n \in DOMAIN inputs : Meets(inputs, outputs, cursor, n) =>
             cursor[n] \in DOMAIN outputs /\ outputs[cursor[n]].id = inputs[n].id
        /\ \A m \in DOMAIN outputs : \E n \in DOMAIN inputs :
             cursor[n] = m /\ Meets(inputs, outputs, cursor, n)
        /\ IdsAreUnique(outputs)
        /\ IsOrderedPart(outputs, inputs)
    <3>1. \A m \in DOMAIN outputs : \E n \in DOMAIN inputs :
            /\ cursor[n] = m /\ Meets(inputs, outputs, cursor, n)
            /\ \A k \in 0..(n - 1) : cursor[k] < m
      BY <1>1, <2>2, EveryOutputIsMet
    <3> QED BY <1>1, <2>2, <3>1, EveryOutputIsMet, MetOutputsAreOrdered
  <2>4. /\ DOMAIN streams' = Ids(outputs)
        /\ \A m \in DOMAIN outputs : outputs[m].id \in Ids(outputs) /\ streams'[outputs[m].id] = outputs[m].stream
    BY <2>3, TableFacts
  <2> DEFINE kept == Ids(outputs)
             paid == [s \in kept |-> streams'[s].paid]
  <2>5. ASSUME NEW s \in kept
        PROVE  /\ s \in DOMAIN streams
               /\ paid[s] \in 0..MaxStateInteger
               /\ RetainedWith(streams[s], paid[s], tx.lo)
               /\ streams'[s] = [streams[s] EXCEPT !.paid = paid[s]]
    <3>1. PICK m \in DOMAIN outputs : s = outputs[m].id
      BY DEF Ids
    <3>2. PICK n \in DOMAIN inputs : cursor[n] = m /\ Meets(inputs, outputs, cursor, n)
      BY <2>3
    <3>3. inputs[n].id = s
      BY <2>3, <3>1, <3>2
    <3>4. IsRetained(inputs[n].stream, outputs[m].stream, tx.lo)
      BY <2>1, <3>2 DEF WalkIsAccepted
    <3>5. /\ RetainedWith(inputs[n].stream, outputs[m].stream.paid, tx.lo)
          /\ outputs[m].stream = [inputs[n].stream EXCEPT !.paid = outputs[m].stream.paid]
      BY <1>1, <3>4, RetainedIsRewritten
    <3>6. streams[s] = inputs[n].stream /\ streams'[s] = outputs[m].stream /\ s \in DOMAIN streams
      BY <1>2, <2>4, <3>1, <3>3
    <3>7. outputs[m].stream.paid \in 0..MaxStateInteger
      BY <1>1, <3>5, MaxStateIntegerAssumption DEF RetainedWith, Bounded, StreamingPayment
    <3> QED BY <3>5, <3>6, <3>7
  <2>6. ASSUME NEW s \in DOMAIN streams \ kept
        PROVE  Removable(streams[s], tx.lo)
    <3>1. PICK n \in DOMAIN inputs : inputs[n].id = s
      BY <1>2 DEF Ids
    <3>2. ~ Meets(inputs, outputs, cursor, n)
      BY <2>3, <2>4, <3>1
    <3>3. Removable(inputs[n].stream, tx.lo)
      BY <2>1, <3>2 DEF WalkIsAccepted
    <3> QED BY <1>2, <3>1, <3>3
  <2>7. streams' = [s \in kept |-> [streams[s] EXCEPT !.paid = paid[s]]]
    <3>1. streams' = [s \in kept |-> streams'[s]]
      BY DEF Table
    <3>2. \A s \in kept : streams'[s] = [streams[s] EXCEPT !.paid = paid[s]]
      BY <2>5
    <3> HIDE DEF kept, paid
    <3> QED BY <3>1, <3>2
  <2>8. kept \in SUBSET DOMAIN streams /\ paid \in [kept -> 0..MaxStateInteger]
    BY <2>5
  <2> HIDE DEF kept, paid
  <2>9. Settled(tx, kept, paid)
    BY <2>5, <2>6, <2>7 DEF Settled
  <2> QED BY <2>3, <2>8, <2>9
<1>4. ASSUME IdsAreUnique(outputs), IsOrderedPart(outputs, inputs),
             NEW kept \in SUBSET DOMAIN streams, NEW paid \in [kept -> 0..MaxStateInteger],
             Settled(tx, kept, paid)
      PROVE  PayoutIsValid(inputs, outputs, tx.lo)
  <2>1. PICK cursor \in Cursors(inputs, outputs) :
          IsWalk(inputs, outputs, cursor) /\ cursor[Len(inputs)] = Len(outputs)
    BY <1>1, <1>4, OrderedListsAreWalked
  <2>2. /\ DOMAIN streams' = Ids(outputs)
        /\ \A m \in DOMAIN outputs : outputs[m].id \in Ids(outputs) /\ streams'[outputs[m].id] = outputs[m].stream
    BY <1>4, TableFacts
  <2>3. /\ \A s \in DOMAIN streams \ kept : Removable(streams[s], tx.lo)
        /\ \A s \in kept : RetainedWith(streams[s], paid[s], tx.lo)
        /\ streams' = [s \in kept |-> [streams[s] EXCEPT !.paid = paid[s]]]
    BY <1>4 DEF Settled
  <2>4. kept = Ids(outputs) /\ \A s \in kept : streams'[s] = [streams[s] EXCEPT !.paid = paid[s]]
    BY <2>2, <2>3
  <2>5. ASSUME NEW n \in DOMAIN inputs, Meets(inputs, outputs, cursor, n)
        PROVE  IsRetained(inputs[n].stream, outputs[cursor[n]].stream, tx.lo)
    <3> DEFINE m == cursor[n]
    <3>1. m \in DOMAIN outputs /\ outputs[m].id = inputs[n].id
      BY <1>1, <2>1, <2>5, EveryOutputIsMet
    <3> HIDE DEF m
    <3> DEFINE s == inputs[n].id
    <3>2. s \in kept /\ streams[s] = inputs[n].stream /\ streams'[s] = outputs[m].stream
      BY <1>2, <2>2, <2>4, <3>1
    <3>3. RetainedWith(inputs[n].stream, paid[s], tx.lo) /\ outputs[m].stream = [inputs[n].stream EXCEPT !.paid = paid[s]]
      BY <2>3, <2>4, <3>2
    <3> HIDE DEF s
    <3>4. outputs[m].stream.paid = paid[s]
      BY <1>1, <3>3 DEF StreamingPayment
    <3>5. IsRetained(inputs[n].stream, outputs[m].stream, tx.lo)
      BY <1>1, <3>1, <3>3, <3>4, RetainedIsRewritten
    <3> QED BY <3>5 DEF m
  <2>6. ASSUME NEW n \in DOMAIN inputs, ~ Meets(inputs, outputs, cursor, n)
        PROVE  Removable(inputs[n].stream, tx.lo)
    <3>1. inputs[n].id \notin kept
      <4> SUFFICES ASSUME inputs[n].id \in kept PROVE FALSE
        OBVIOUS
      <4>1. PICK m \in DOMAIN outputs : outputs[m].id = inputs[n].id
        BY <2>4 DEF Ids
      <4>2. PICK k \in DOMAIN inputs :
              /\ cursor[k] = m /\ Meets(inputs, outputs, cursor, k)
              /\ \A l \in 0..(k - 1) : cursor[l] < m
        BY <1>1, <2>1, EveryOutputIsMet
      <4>3. inputs[k].id = inputs[n].id
        BY <1>1, <2>1, <4>1, <4>2, EveryOutputIsMet
      <4>4. k = n
        BY <1>1, <4>3 DEF IdsAreUnique
      <4> QED BY <2>6, <4>2, <4>4
    <3> QED BY <1>2, <2>3, <3>1
  <2>7. WalkIsAccepted(inputs, outputs, cursor, tx.lo)
    BY <2>1, <2>5, <2>6 DEF WalkIsAccepted
  <2> QED BY <2>7 DEF PayoutIsValid
<1> QED BY <1>3, <1>4
=============================================================================
