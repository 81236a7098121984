-------------------------- MODULE RateLimiterProofs --------------------------
(***************************************************************************)
(* Proofs about the request limits.  What is served has been charged, and  *)
(* only what a caller's own bucket accepted reaches the deployment's: both *)
(* follow from what each call still has to pay.  A burst is bounded since  *)
(* what a bucket accepted falls into windows of which the next one opens   *)
(* no earlier than a window after the stamp of the last.                   *)
(***************************************************************************)
EXTENDS RateLimiter, Sums, SequenceTheorems

-----------------------------------------------------------------------------
(* Types. *)

Debit == [key : Key, cost : Nat, binding : BOOLEAN]

\* One debit, or two of different buckets of which the first one binds.
IsStatement(due) ==
  /\ due \in Seq(Debit)
  /\ Len(due) \in {1, 2}
  /\ due[1].binding
  /\ Len(due) = 2 => due[1].key # due[2].key

IsPlan(due) == due \in Seq(Seq(Debit)) /\ \A n \in DOMAIN due : IsStatement(due[n])

Bucket == [count : Nat, expires : Nat]

CallRecord ==
  [client : Client \cup {None}, method : Method \cup {None, "build"}, inputs : Nat,
   due : Seq(Seq(Debit)), stamp : Nat,
   is : {"new", "charging", "reading", "served", "refused"}]

TypeOK ==
  /\ now \in Nat
  /\ buckets \in [Key -> Bucket \cup {None}]
  /\ calls \in [Call -> CallRecord]
  /\ \A r \in Call :
       /\ IsPlan(calls[r].due)
       /\ calls[r].is = "charging" => calls[r].stamp <= now /\ now <= calls[r].stamp + MaxDelay
       /\ calls[r].is \in {"charging", "reading"} => calls[r].due # <<>>
  /\ IsFiniteSet(debits)
  /\ debits \subseteq [call : Call, key : Key, cost : Nat, at : Nat, ok : BOOLEAN]
  /\ \A d \in debits : d.at <= now

-----------------------------------------------------------------------------
(* What the routes charge. *)

LEMMA ConstantFacts ==
  /\ Window \in Nat /\ Retention \in Nat /\ MaxDelay \in Nat /\ MaxTime \in Nat
  /\ MaxDelay <= Retention + 1
  /\ Inputs \subseteq Nat
  /\ \A key \in Key : Limit(key) \in Nat
<1>1. \A key \in Key : Limit(key) \in Nat
  BY LimitAssumption DEF Limit
<1> QED BY <1>1, LimitAssumption, BoundAssumption, DelayAssumption

LEMMA KeyFacts ==
  ASSUME NEW c \in Client
  PROVE  /\ c # All
         /\ <<"build", c>> \in Key /\ <<"build", All>> \in Key
         /\ <<"inputs", c>> \in Key /\ <<"inputs", All>> \in Key
         /\ <<"rpc", c>> \in Key
         /\ \A m \in Method : <<m, c>> \in Key /\ m # "rpc" /\ m # "build" /\ m # None
<1>1. c # All
  BY NameAssumption DEF All
<1>2. \A kind \in {"build", "inputs"}, who \in Client \cup {All} : <<kind, who>> \in Key
  BY DEF Key
<1>3. \A kind \in {"rpc"} \cup Method : <<kind, c>> \in Key
  BY DEF Key
<1>4. \A m \in Method : m # "rpc" /\ m # "build" /\ m # None
  BY NameAssumption
<1> QED BY <1>1, <1>2, <1>3, <1>4

LEMMA JoinTwo ==
  ASSUME NEW S, NEW a \in S, NEW b \in S
  PROVE  /\ <<a, b>> \o <<>> = <<a, b>>
         /\ <<a>> \o <<>> = <<a>>
         /\ <<a>> \o <<b>> = <<a, b>>
<1>1. /\ <<a>> \in Seq(S) /\ Len(<<a>>) = 1
      /\ <<b>> \in Seq(S) /\ Len(<<b>>) = 1
      /\ <<a, b>> \in Seq(S) /\ Len(<<a, b>>) = 2
  OBVIOUS
<1>2. <<a, b>> \o <<>> = <<a, b>> /\ <<a>> \o <<>> = <<a>>
  BY <1>1, ConcatEmptySeq
<1>3. <<a>> \o <<b>> = <<a, b>>
  <2> DEFINE s == <<a>>
             t == <<b>>
  <2>1. /\ s \o t \in Seq(S) /\ Len(s \o t) = 2
        /\ \A i \in 1..2 : (s \o t)[i] = IF i <= 1 THEN s[i] ELSE t[i - 1]
    BY <1>1, ConcatProperties
  <2>2. \A i \in 1..2 : (s \o t)[i] = <<a, b>>[i]
    BY <2>1
  <2> HIDE DEF s, t
  <2>3. s \o t = <<a, b>>
    BY <1>1, <2>1, <2>2, SeqEqual
  <2> QED BY <2>3 DEF s, t
<1> QED BY <1>2, <1>3

LEMMA JoinFour ==
  ASSUME NEW a \in Seq(Debit), NEW b \in Seq(Debit), NEW c \in Seq(Debit), NEW d \in Seq(Debit)
  PROVE  <<a, b>> \o <<c, d>> = <<a, b, c, d>>
<1> DEFINE S == Seq(Debit)
<1> HIDE DEF S
<1>a. a \in S /\ b \in S /\ c \in S /\ d \in S
  BY DEF S
<1>0. /\ <<a, b>> \in Seq(S) /\ Len(<<a, b>>) = 2
      /\ <<c, d>> \in Seq(S) /\ Len(<<c, d>>) = 2
      /\ <<a, b, c, d>> \in Seq(S) /\ Len(<<a, b, c, d>>) = 4
  BY <1>a
<1> DEFINE s == <<a, b>>
           t == <<c, d>>
<1>1. /\ s \o t \in Seq(S) /\ Len(s \o t) = 4
      /\ \A i \in 1..4 : (s \o t)[i] = IF i <= 2 THEN s[i] ELSE t[i - 2]
  BY <1>0, ConcatProperties
<1>2. \A i \in 1..4 : (s \o t)[i] = <<a, b, c, d>>[i]
  BY <1>1
<1> DEFINE joined == s \o t
           listed == <<a, b, c, d>>
<1>3. joined \in Seq(S) /\ listed \in Seq(S) /\ Len(joined) = 4 /\ Len(listed) = 4
  BY <1>0, <1>1
<1>4. \A i \in 1..4 : joined[i] = listed[i]
  BY <1>2
<1> HIDE DEF s, t, joined, listed
<1>5. joined = listed
  BY <1>3, <1>4, SeqEqual
<1> QED BY <1>5 DEF s, t, joined, listed

LEMMA SinglePays ==
  ASSUME NEW key \in Key, NEW cost \in Nat
  PROVE  IsStatement(<<Pays(key, cost, TRUE)>>) /\ <<Pays(key, cost, TRUE)>> \in Seq(Debit)
BY DEF IsStatement, Pays, Debit

LEMMA SmallerIsNat ==
  ASSUME NEW m \in Nat, NEW n \in Nat
  PROVE  Smaller(m, n) \in Nat /\ Smaller(m, n) <= m /\ Smaller(m, n) <= n
BY DEF Smaller

\* A list of one, of two, of four statements.
LEMMA ShortPlans ==
  /\ \A x \in Seq(Debit) : IsStatement(x) => IsPlan(<<x>>) /\ <<x>> # <<>>
  /\ \A x, y \in Seq(Debit) :
       IsStatement(x) /\ IsStatement(y) => IsPlan(<<x, y>>) /\ <<x, y>> # <<>>
  /\ \A x, y, z, w \in Seq(Debit) :
       IsStatement(x) /\ IsStatement(y) /\ IsStatement(z) /\ IsStatement(w)
         => IsPlan(<<x, y, z, w>>) /\ <<x, y, z, w>> # <<>>
BY DEF IsPlan

LEMMA BuildPlanIs ==
  ASSUME NEW c \in Client, NEW inputs \in Nat
  PROVE  /\ inputs = 0 => BuildPlan(c, inputs) =
              <<<<Pays(<<"build", c>>, 1, TRUE)>>, <<Pays(<<"build", All>>, 1, TRUE)>>>>
         /\ inputs # 0 => BuildPlan(c, inputs) =
              <<<<Pays(<<"build", c>>, 1, TRUE)>>, <<Pays(<<"build", All>>, 1, TRUE)>>,
                <<Pays(<<"inputs", c>>, Smaller(inputs, ClientInputs), TRUE)>>,
                <<Pays(<<"inputs", All>>, inputs, TRUE)>>>>
         /\ IsPlan(BuildPlan(c, inputs)) /\ BuildPlan(c, inputs) # <<>>
<1> DEFINE a == <<Pays(<<"build", c>>, 1, TRUE)>>
           b == <<Pays(<<"build", All>>, 1, TRUE)>>
           d == <<Pays(<<"inputs", c>>, Smaller(inputs, ClientInputs), TRUE)>>
           e == <<Pays(<<"inputs", All>>, inputs, TRUE)>>
<1>1. /\ IsStatement(a) /\ IsStatement(b) /\ IsStatement(d) /\ IsStatement(e)
      /\ a \in Seq(Debit) /\ b \in Seq(Debit) /\ d \in Seq(Debit) /\ e \in Seq(Debit)
  <2>1. Smaller(inputs, ClientInputs) \in Nat
    BY LimitAssumption, SmallerIsNat
  <2> QED BY <2>1, KeyFacts, SinglePays
<1>2. BuildPlan(c, inputs) = <<a, b>> \o IF inputs = 0 THEN <<>> ELSE <<d, e>>
  BY DEF BuildPlan
<1> HIDE DEF a, b, d, e
<1>3. inputs = 0 => BuildPlan(c, inputs) = <<a, b>>
  BY <1>1, <1>2, JoinTwo
<1>4. inputs # 0 => BuildPlan(c, inputs) = <<a, b, d, e>>
  <2>1. <<a, b>> \o <<d, e>> = <<a, b, d, e>>
    BY <1>1, JoinFour
  <2> QED BY <1>2, <2>1
<1>5. IsPlan(BuildPlan(c, inputs)) /\ BuildPlan(c, inputs) # <<>>
  BY <1>1, <1>3, <1>4, ShortPlans
<1> QED BY <1>3, <1>4, <1>5 DEF a, b, d, e

LEMMA RpcPlanIs ==
  ASSUME NEW c \in Client, NEW hint \in Method \cup {None}, NEW method \in Method \cup {None}
  PROVE  /\ hint = None /\ method = None =>
              RpcPlan(c, hint, method) = <<<<Pays(<<"rpc", c>>, 1, TRUE)>>>>
         /\ hint = None /\ method # None =>
              RpcPlan(c, hint, method) =
                <<<<Pays(<<"rpc", c>>, 1, TRUE)>>, <<Pays(<<method, c>>, 1, TRUE)>>>>
         /\ hint # None /\ method = hint =>
              RpcPlan(c, hint, method) =
                <<<<Pays(<<"rpc", c>>, 1, TRUE), Pays(<<hint, c>>, 1, TRUE)>>>>
         /\ hint # None /\ method = None =>
              RpcPlan(c, hint, method) =
                <<<<Pays(<<"rpc", c>>, 1, TRUE), Pays(<<hint, c>>, 1, FALSE)>>>>
         /\ hint # None /\ method \notin {None, hint} =>
              RpcPlan(c, hint, method) =
                <<<<Pays(<<"rpc", c>>, 1, TRUE), Pays(<<hint, c>>, 1, FALSE)>>,
                  <<Pays(<<method, c>>, 1, TRUE)>>>>
         /\ IsPlan(RpcPlan(c, hint, method)) /\ RpcPlan(c, hint, method) # <<>>
<1> DEFINE a == <<Pays(<<"rpc", c>>, 1, TRUE)>>
           b == <<Pays(<<"rpc", c>>, 1, TRUE), Pays(<<hint, c>>, 1, hint = method)>>
           d == <<Pays(<<method, c>>, 1, TRUE)>>
           plan == RpcPlan(c, hint, method)
<1>1. IsStatement(a) /\ a \in Seq(Debit)
  BY KeyFacts, SinglePays
<1>2. hint # None => IsStatement(b) /\ b \in Seq(Debit)
  <2>1. hint # None => /\ <<"rpc", c>> \in Key /\ <<hint, c>> \in Key
                       /\ <<"rpc", c>> # <<hint, c>>
    BY KeyFacts
  <2>2. (hint = method) \in BOOLEAN
    OBVIOUS
  <2> QED BY <2>1, <2>2 DEF IsStatement, Pays, Debit
<1>3. method # None => IsStatement(d) /\ d \in Seq(Debit)
  BY KeyFacts, SinglePays
<1>4. plan = <<IF hint = None THEN a ELSE b>> \o IF method \in {None, hint} THEN <<>> ELSE <<d>>
  BY DEF RpcPlan
<1> HIDE DEF a, b, d, plan
<1>6. hint = None /\ method = None => plan = <<a>>
  BY <1>1, <1>4, JoinTwo
<1>7. hint = None /\ method # None => plan = <<a, d>>
  BY <1>1, <1>3, <1>4, JoinTwo
<1>8. hint # None /\ method \in {None, hint} => plan = <<b>>
  BY <1>2, <1>4, JoinTwo
<1>9. hint # None /\ method \notin {None, hint} => plan = <<b, d>>
  BY <1>2, <1>3, <1>4, JoinTwo
<1>10. IsPlan(plan) /\ plan # <<>>
  BY <1>1, <1>2, <1>3, <1>6, <1>7, <1>8, <1>9, ShortPlans
<1>11. method # hint => b = <<Pays(<<"rpc", c>>, 1, TRUE), Pays(<<hint, c>>, 1, FALSE)>>
  <2>1. method # hint => (hint = method) = FALSE
    OBVIOUS
  <2> QED BY <2>1 DEF b
<1>12. method = hint => b = <<Pays(<<"rpc", c>>, 1, TRUE), Pays(<<hint, c>>, 1, TRUE)>>
  <2>1. method = hint => (hint = method) = TRUE
    OBVIOUS
  <2> QED BY <2>1 DEF b
<1>13. /\ hint # None /\ method = hint => plan = <<b>>
       /\ hint # None /\ method = None => plan = <<b>> /\ method # hint
       /\ hint # None /\ method \notin {None, hint} => plan = <<b, d>> /\ method # hint
  BY <1>8, <1>9
<1> QED BY <1>6, <1>7, <1>10, <1>11, <1>12, <1>13 DEF a, d, plan

-----------------------------------------------------------------------------
(* One statement. *)

Due(r) == calls[r].due[1]
Ok(r, i) == Accepts(Due(r)[i].key, Due(r)[i].cost, calls[r].stamp)
Made(r) == {i \in DOMAIN Due(r) : \A j \in 1..(i - 1) : Ok(r, j)}
Refuses(r) == \E i \in Made(r) : Due(r)[i].binding /\ ~ Ok(r, i)

Record(r, i) ==
  [call |-> r, key |-> Due(r)[i].key, cost |-> Due(r)[i].cost, at |-> now, ok |-> Ok(r, i)]

Status(r) ==
  IF Refuses(r) THEN "refused" ELSE IF Len(calls[r].due) = 1 THEN "served" ELSE "reading"

LEMMA PlanFacts ==
  ASSUME NEW due, IsPlan(due), due # <<>>
  PROVE  /\ Head(due) = due[1] /\ IsStatement(due[1])
         /\ Len(due) \in Nat /\ Len(due) >= 1
         /\ Tail(due) \in Seq(Seq(Debit)) /\ IsPlan(Tail(due))
         /\ Len(Tail(due)) = Len(due) - 1
         /\ \A n \in 1..(Len(due) - 1) : Tail(due)[n] = due[n + 1]
         /\ Len(due) # 1 => Tail(due) # <<>>
         /\ Len(due) = 1 => Tail(due) = <<>>
<1>1. due \in Seq(Seq(Debit)) /\ Len(due) \in Nat /\ Len(due) >= 1 /\ DOMAIN due = 1..Len(due)
  BY EmptySeq DEF IsPlan
<1>2. Head(due) = due[1] /\ IsStatement(due[1])
  BY <1>1 DEF IsPlan
<1>3. /\ Tail(due) \in Seq(Seq(Debit)) /\ Len(Tail(due)) = Len(due) - 1
      /\ \A n \in 1..(Len(due) - 1) : Tail(due)[n] = due[n + 1]
  BY <1>1, HeadTailProperties
<1>4. \A n \in DOMAIN Tail(due) : IsStatement(Tail(due)[n])
  <2> TAKE n \in DOMAIN Tail(due)
  <2>1. n \in 1..(Len(due) - 1) /\ n + 1 \in 1..Len(due)
    BY <1>1, <1>3, LenProperties
  <2> QED BY <1>1, <1>3, <2>1 DEF IsPlan
<1>5. Len(due) # 1 => Tail(due) # <<>>
  <2>1. Len(Tail(due)) # 0 \/ Len(due) = 1
    BY <1>1, <1>3
  <2>2. Len(<<>>) = 0
    OBVIOUS
  <2> QED BY <2>1, <2>2, Zenon
<1>6. Len(due) = 1 => Tail(due) = <<>>
  <2>1. <<>> \in Seq(Seq(Debit)) /\ Len(<<>>) = 0
    OBVIOUS
  <2>2. Len(due) = 1 => Len(Tail(due)) = 0
    BY <1>3
  <2>3. \A i \in 1..0 : FALSE
    OBVIOUS
  <2>4. Len(due) = 1 => \A i \in 1..Len(Tail(due)) : Tail(due)[i] = <<>>[i]
    BY <2>2, <2>3, Zenon
  <2> QED BY <1>3, <2>1, <2>2, <2>4, SeqEqual, Zenon
<1> QED BY <1>1, <1>2, <1>3, <1>4, <1>5, <1>6 DEF IsPlan

LEMMA StatementFacts ==
  ASSUME NEW due, IsStatement(due)
  PROVE  /\ DOMAIN due = 1..Len(due)
         /\ 1 \in DOMAIN due /\ due[1].binding
         /\ \A i \in DOMAIN due :
              /\ i \in {1, 2} /\ (i = 2 => Len(due) = 2)
              /\ due[i] \in Debit /\ due[i].key \in Key /\ due[i].cost \in Nat
         /\ \A i, j \in DOMAIN due : due[i].key = due[j].key => i = j
<1>1. due \in Seq(Debit) /\ Len(due) \in {1, 2} /\ DOMAIN due = 1..Len(due)
  BY LenProperties DEF IsStatement
<1>2. ASSUME NEW i \in DOMAIN due
      PROVE  /\ i \in {1, 2} /\ (i = 2 => Len(due) = 2)
             /\ due[i] \in Debit /\ due[i].key \in Key /\ due[i].cost \in Nat
  <2>1. i \in {1, 2} /\ (i = 2 => Len(due) = 2)
    BY <1>1
  <2>2. due[i] \in Debit
    BY <1>1, ElementOfSeq
  <2> QED BY <2>1, <2>2 DEF Debit
<1>3. \A i, j \in DOMAIN due : due[i].key = due[j].key => i = j
  BY <1>2 DEF IsStatement
<1> QED BY <1>1, <1>2, <1>3 DEF IsStatement

LEMMA ChargeFacts ==
  ASSUME TypeOK, NEW r \in Call, Charge(r)
  PROVE  /\ calls[r].is = "charging" /\ calls[r].due # <<>> /\ IsPlan(calls[r].due)
         /\ IsStatement(Due(r)) /\ Made(r) \subseteq DOMAIN Due(r) /\ 1 \in Made(r)
         /\ debits' = debits \cup {Record(r, i) : i \in Made(r)}
         /\ DOMAIN buckets' = Key
         /\ \A i \in Made(r) :
              buckets'[Due(r)[i].key] = Debited(Due(r)[i].key, Due(r)[i].cost, calls[r].stamp)
         /\ \A key \in Key :
              (\A i \in Made(r) : Due(r)[i].key # key) => buckets'[key] = buckets[key]
         /\ now' = now
<1>1. /\ calls[r].is = "charging" /\ calls[r].due # <<>> /\ IsPlan(calls[r].due)
  BY DEF Charge, TypeOK
<1>2. Head(calls[r].due) = Due(r) /\ IsStatement(Due(r))
  BY <1>1, PlanFacts DEF Due
<1>3. 1 \in Made(r) /\ Made(r) \subseteq DOMAIN Due(r)
  BY <1>2, StatementFacts DEF Made
<1>4. debits' = debits \cup {Record(r, i) : i \in Made(r)}
  BY <1>2 DEF Charge, Made, Ok, Record
<1>5. buckets' = [key \in Key |->
          IF \E i \in Made(r) : Due(r)[i].key = key
          THEN LET i == CHOOSE i \in Made(r) : Due(r)[i].key = key
               IN Debited(key, Due(r)[i].cost, calls[r].stamp)
          ELSE buckets[key]]
  BY <1>2 DEF Charge, Made, Ok
<1>7. ASSUME NEW i \in Made(r)
      PROVE  buckets'[Due(r)[i].key] = Debited(Due(r)[i].key, Due(r)[i].cost, calls[r].stamp)
  <2>1. \A j \in Made(r) : Due(r)[j].key = Due(r)[i].key => j = i
    BY <1>2, <1>3, <1>7, StatementFacts
  <2>2. (CHOOSE j \in Made(r) : Due(r)[j].key = Due(r)[i].key) = i
    BY <1>7, <2>1
  <2>3. Due(r)[i].key \in Key
    BY <1>2, <1>3, <1>7, StatementFacts
  <2> QED BY <1>5, <1>7, <2>2, <2>3
<1>8. now' = now
  BY DEF Charge
<1> QED BY <1>1, <1>2, <1>3, <1>4, <1>5, <1>7, <1>8

LEMMA ShorterCall ==
  ASSUME NEW call \in CallRecord, NEW due \in Seq(Seq(Debit)),
         NEW status \in {"refused", "served", "reading"}
  PROVE  [call EXCEPT !.due = due, !.stamp = 0, !.is = status] \in CallRecord
<1> DEFINE Lists == Seq(Seq(Debit))
           shorter == [call EXCEPT !.due = due, !.stamp = 0, !.is = status]
<1>1. due \in Lists
  OBVIOUS
<1> HIDE DEF Lists
<1>2. call \in [client : Client \cup {None}, method : Method \cup {None, "build"}, inputs : Nat,
                due : Lists, stamp : Nat,
                is : {"new", "charging", "reading", "served", "refused"}]
  BY DEF CallRecord, Lists
<1>3. shorter \in [client : Client \cup {None}, method : Method \cup {None, "build"}, inputs : Nat,
                   due : Lists, stamp : Nat,
                   is : {"new", "charging", "reading", "served", "refused"}]
  BY <1>1, <1>2
<1> QED BY <1>3 DEF CallRecord, Lists

LEMMA ChargedCall ==
  ASSUME TypeOK, NEW r \in Call, Charge(r)
  PROVE  /\ calls' \in [Call -> CallRecord]
         /\ calls'[r].client = calls[r].client /\ calls'[r].method = calls[r].method
         /\ calls'[r].inputs = calls[r].inputs
         /\ calls'[r].due = Tail(calls[r].due) /\ calls'[r].is = Status(r)
         /\ \A q \in Call : q # r => calls'[q] = calls[q]
         /\ Status(r) \in {"refused", "served", "reading"}
<1>1. calls \in [Call -> CallRecord] /\ calls[r] \in CallRecord
  BY DEF TypeOK
<1>2. calls' = [calls EXCEPT ![r].due = Tail(calls[r].due), ![r].stamp = 0, ![r].is = Status(r)]
  <2>1. Head(calls[r].due) = Due(r)
    BY ChargeFacts, PlanFacts DEF Due
  <2> QED BY <2>1 DEF Charge, Made, Ok, Status, Refuses
<1>3. Tail(calls[r].due) \in Seq(Seq(Debit))
  BY ChargeFacts, PlanFacts
<1>4. Status(r) \in {"refused", "served", "reading"}
  BY DEF Status
<1>5. calls'[r] = [calls[r] EXCEPT !.due = Tail(calls[r].due), !.stamp = 0, !.is = Status(r)]
  BY <1>1, <1>2
<1>6. /\ calls'[r].client = calls[r].client /\ calls'[r].method = calls[r].method
      /\ calls'[r].inputs = calls[r].inputs
      /\ calls'[r].due = Tail(calls[r].due) /\ calls'[r].is = Status(r)
      /\ calls'[r] \in CallRecord
  <2>1. /\ calls'[r].client = calls[r].client /\ calls'[r].method = calls[r].method
        /\ calls'[r].inputs = calls[r].inputs
        /\ calls'[r].due = Tail(calls[r].due) /\ calls'[r].is = Status(r)
    BY <1>1, <1>5 DEF CallRecord
  <2> DEFINE rest == Tail(calls[r].due)
             status == Status(r)
  <2> HIDE DEF rest, status
  <2>2. calls'[r] = [calls[r] EXCEPT !.due = rest, !.stamp = 0, !.is = status]
    BY <1>5 DEF rest, status
  <2>3. rest \in Seq(Seq(Debit)) /\ status \in {"refused", "served", "reading"}
    BY <1>3, <1>4 DEF rest, status
  <2>4. calls'[r] \in CallRecord
    <3> DEFINE shorter == [calls[r] EXCEPT !.due = rest, !.stamp = 0, !.is = status]
    <3>1. shorter \in CallRecord
      BY <1>1, <2>3, ShorterCall
    <3>2. calls'[r] = shorter
      BY <2>2
    <3> HIDE DEF shorter
    <3> QED BY <3>1, <3>2
  <2> QED BY <2>1, <2>4
<1>7. \A q \in Call : q # r => calls'[q] = calls[q]
  BY <1>1, <1>2
<1>8. calls' \in [Call -> CallRecord]
  <2>1. DOMAIN calls' = Call /\ calls' = [q \in Call |-> calls'[q]]
    BY <1>1, <1>2
  <2>2. \A q \in Call : calls'[q] \in CallRecord
    BY <1>1, <1>6, <1>7
  <2> QED BY <2>1, <2>2
<1> QED BY <1>4, <1>6, <1>7, <1>8

LEMMA ArrivedCall ==
  ASSUME TypeOK, NEW r \in Call, NEW c \in Client, NEW method \in Method \cup {None, "build"},
         NEW inputs \in Nat, NEW plan, IsPlan(plan), Arrive(r, c, method, inputs, plan)
  PROVE  /\ calls' \in [Call -> CallRecord]
         /\ calls[r].is = "new"
         /\ calls'[r].client = c /\ calls'[r].method = method /\ calls'[r].inputs = inputs
         /\ calls'[r].due = plan /\ calls'[r].stamp = now /\ calls'[r].is = "charging"
         /\ \A q \in Call : q # r => calls'[q] = calls[q]
<1> DEFINE made == [client |-> c, method |-> method, inputs |-> inputs,
                    due |-> plan, stamp |-> now, is |-> "charging"]
<1>1. /\ calls \in [Call -> CallRecord] /\ now \in Nat
      /\ calls' = [calls EXCEPT ![r] = made]
  BY DEF TypeOK, Arrive
<1>2. made \in CallRecord
  BY <1>1 DEF CallRecord, IsPlan
<1>3. calls[r].is = "new"
  BY DEF Arrive
<1> QED BY <1>1, <1>2, <1>3

LEMMA ReadCall ==
  ASSUME TypeOK, NEW r \in Call, ReadTime(r)
  PROVE  /\ calls' \in [Call -> CallRecord]
         /\ calls[r].is = "reading"
         /\ calls'[r] = [calls[r] EXCEPT !.stamp = now, !.is = "charging"]
         /\ calls'[r].client = calls[r].client /\ calls'[r].method = calls[r].method
         /\ calls'[r].inputs = calls[r].inputs
         /\ calls'[r].due = calls[r].due /\ calls'[r].stamp = now /\ calls'[r].is = "charging"
         /\ \A q \in Call : q # r => calls'[q] = calls[q]
<1>1. /\ calls \in [Call -> CallRecord] /\ now \in Nat /\ calls[r] \in CallRecord
      /\ calls' = [calls EXCEPT ![r].stamp = now, ![r].is = "charging"]
  BY DEF TypeOK, ReadTime
<1>2. calls'[r] = [calls[r] EXCEPT !.stamp = now, !.is = "charging"]
  BY <1>1
<1>3. /\ calls'[r].client = calls[r].client /\ calls'[r].method = calls[r].method
      /\ calls'[r].inputs = calls[r].inputs
      /\ calls'[r].due = calls[r].due /\ calls'[r].stamp = now /\ calls'[r].is = "charging"
      /\ calls'[r] \in CallRecord
  BY <1>1, <1>2 DEF CallRecord
<1>4. \A q \in Call : q # r => calls'[q] = calls[q]
  BY <1>1
<1>5. calls' \in [Call -> CallRecord]
  BY <1>1, <1>3, <1>4
<1>6. calls[r].is = "reading"
  BY DEF ReadTime
<1> QED BY <1>2, <1>3, <1>4, <1>5, <1>6

\* The next state, action by action.
LEMMA NextIs ==
  ASSUME Next
  PROVE  \/ \E r \in Call, c \in Client, inputs \in Inputs : Build(r, c, inputs)
         \/ \E r \in Call, c \in Client, hint \in Method \cup {None}, method \in Method \cup {None} :
              Rpc(r, c, hint, method)
         \/ \E r \in Call : ReadTime(r)
         \/ \E r \in Call : Charge(r)
         \/ Prune
         \/ Tick
BY DEF Next

LEMMA DebitedIsBucket ==
  ASSUME TypeOK, NEW key \in Key, NEW cost \in Nat, NEW stamp \in Nat
  PROVE  /\ Debited(key, cost, stamp) \in Bucket
         /\ IsOver(buckets[key], stamp) =>
              /\ Debited(key, cost, stamp).expires = stamp + Window
              /\ Debited(key, cost, stamp).count = Smaller(cost, Limit(key) + 1)
         /\ ~ IsOver(buckets[key], stamp) =>
              /\ buckets[key] \in Bucket /\ ~ (buckets[key].expires <= stamp)
              /\ Debited(key, cost, stamp).expires = buckets[key].expires
              /\ Debited(key, cost, stamp).count
                   = Smaller(buckets[key].count + cost, Limit(key) + 1)
<1>1. Limit(key) + 1 \in Nat /\ stamp + Window \in Nat
  BY ConstantFacts
<1>2. CASE IsOver(buckets[key], stamp)
  <2>1. Smaller(cost, Limit(key) + 1) \in Nat
    BY <1>1, SmallerIsNat
  <2> QED BY <1>1, <1>2, <2>1 DEF Debited, Bucket
<1>3. CASE ~ IsOver(buckets[key], stamp)
  <2>1. buckets[key] \in Bucket /\ ~ (buckets[key].expires <= stamp)
    BY <1>3 DEF IsOver, TypeOK
  <2>2. buckets[key].count + cost \in Nat
    BY <2>1 DEF Bucket
  <2>3. Smaller(buckets[key].count + cost, Limit(key) + 1) \in Nat
    BY <1>1, <2>2, SmallerIsNat
  <2>4. Debited(key, cost, stamp)
          = [buckets[key] EXCEPT !.count = Smaller(buckets[key].count + cost, Limit(key) + 1)]
    BY <1>3 DEF Debited
  <2> QED BY <1>3, <2>1, <2>3, <2>4 DEF Bucket
<1> QED BY <1>2, <1>3

LEMMA RecordFacts ==
  ASSUME TypeOK, NEW r \in Call, Charge(r), NEW i \in Made(r)
  PROVE  /\ Record(r, i) \in [call : Call, key : Key, cost : Nat, at : Nat, ok : BOOLEAN]
         /\ Record(r, i).call = r /\ Record(r, i).at = now
         /\ Record(r, i).key = Due(r)[i].key /\ Record(r, i).cost = Due(r)[i].cost
         /\ (Record(r, i).ok <=> Ok(r, i))
         /\ Due(r)[i].key \in Key /\ Due(r)[i].cost \in Nat
<1>1. Due(r)[i].key \in Key /\ Due(r)[i].cost \in Nat
  BY ChargeFacts, StatementFacts
<1>2. now \in Nat /\ Ok(r, i) \in BOOLEAN
  BY DEF TypeOK, Ok, Accepts
<1> QED BY <1>1, <1>2 DEF Record

LEMMA PairIsFinite ==
  ASSUME NEW x, NEW y PROVE IsFiniteSet({x, y})
<1>1. IsFiniteSet({}) /\ IsFiniteSet({} \cup {x})
  BY FS_EmptySet, FS_AddElement
<1>2. IsFiniteSet(({} \cup {x}) \cup {y})
  BY <1>1, FS_AddElement
<1>3. ({} \cup {x}) \cup {y} = {x, y}
  OBVIOUS
<1> QED BY <1>2, <1>3

LEMMA TypeStep ==
  ASSUME TypeOK, [Next]_vars
  PROVE  TypeOK'
<1>1. ASSUME NEW r \in Call, NEW c \in Client, NEW method \in Method \cup {None, "build"},
             NEW inputs \in Nat, NEW plan, IsPlan(plan), plan # <<>>,
             Arrive(r, c, method, inputs, plan)
      PROVE  TypeOK'
  <2>1. UNCHANGED <<now, buckets, debits>>
    BY <1>1 DEF Arrive
  <2>2. \A q \in Call :
          /\ IsPlan(calls'[q].due)
          /\ calls'[q].is = "charging" => calls'[q].stamp <= now /\ now <= calls'[q].stamp + MaxDelay
          /\ calls'[q].is \in {"charging", "reading"} => calls'[q].due # <<>>
    <3> TAKE q \in Call
    <3>1. CASE q = r
      <4>1. /\ calls'[r].due = plan /\ calls'[r].stamp = now
        BY <1>1, ArrivedCall
      <4>2. now \in Nat /\ now <= now + MaxDelay
        BY ConstantFacts DEF TypeOK
      <4>3. calls'[r].stamp <= now /\ now <= calls'[r].stamp + MaxDelay
        BY <4>1, <4>2
      <4> QED BY <1>1, <3>1, <4>1, <4>3
    <3>2. CASE q # r
      BY <1>1, <3>2, ArrivedCall DEF TypeOK
    <3> QED BY <3>1, <3>2
  <2> QED BY <1>1, <2>1, <2>2, ArrivedCall DEF TypeOK
<1>2. ASSUME NEW r \in Call, NEW c \in Client, NEW inputs \in Inputs, Build(r, c, inputs)
      PROVE  TypeOK'
  <2>1. inputs \in Nat
    BY ConstantFacts
  <2>2. IsPlan(BuildPlan(c, inputs)) /\ BuildPlan(c, inputs) # <<>>
    BY <2>1, BuildPlanIs
  <2> QED BY <1>1, <1>2, <2>1, <2>2 DEF Build
<1>3. ASSUME NEW r \in Call, NEW c \in Client, NEW hint \in Method \cup {None},
             NEW method \in Method \cup {None}, Rpc(r, c, hint, method)
      PROVE  TypeOK'
  <2>1. IsPlan(RpcPlan(c, hint, method)) /\ RpcPlan(c, hint, method) # <<>>
    BY RpcPlanIs
  <2> QED BY <1>1, <1>3, <2>1 DEF Rpc
<1>4. ASSUME NEW r \in Call, ReadTime(r) PROVE TypeOK'
  <2>1. UNCHANGED <<now, buckets, debits>>
    BY <1>4 DEF ReadTime
  <2>2. \A q \in Call :
          /\ IsPlan(calls'[q].due)
          /\ calls'[q].is = "charging" => calls'[q].stamp <= now /\ now <= calls'[q].stamp + MaxDelay
          /\ calls'[q].is \in {"charging", "reading"} => calls'[q].due # <<>>
    <3> TAKE q \in Call
    <3>1. CASE q = r
      <4>1. /\ calls'[r].due = calls[r].due /\ calls'[r].stamp = now
            /\ calls[r].is = "reading"
        BY <1>4, ReadCall
      <4>2. now \in Nat /\ now <= now + MaxDelay
        BY ConstantFacts DEF TypeOK
      <4>3. calls'[r].stamp <= now /\ now <= calls'[r].stamp + MaxDelay
        BY <4>1, <4>2
      <4>4. IsPlan(calls[r].due) /\ calls[r].due # <<>>
        BY <4>1 DEF TypeOK
      <4> QED BY <3>1, <4>1, <4>3, <4>4
    <3>2. CASE q # r
      BY <1>4, <3>2, ReadCall DEF TypeOK
    <3> QED BY <3>1, <3>2
  <2> QED BY <1>4, <2>1, <2>2, ReadCall DEF TypeOK
<1>5. ASSUME NEW r \in Call, Charge(r) PROVE TypeOK'
  <2>1. now' = now /\ calls' \in [Call -> CallRecord]
    BY <1>5, ChargeFacts, ChargedCall
  <2>2. \A q \in Call :
          /\ IsPlan(calls'[q].due)
          /\ calls'[q].is = "charging" => calls'[q].stamp <= now /\ now <= calls'[q].stamp + MaxDelay
          /\ calls'[q].is \in {"charging", "reading"} => calls'[q].due # <<>>
    <3> TAKE q \in Call
    <3>1. CASE q = r
      <4>1. /\ calls'[r].due = Tail(calls[r].due) /\ calls'[r].is = Status(r)
            /\ IsPlan(Tail(calls[r].due))
            /\ Len(calls[r].due) # 1 => Tail(calls[r].due) # <<>>
        BY <1>5, ChargedCall, ChargeFacts, PlanFacts
      <4>2. /\ Status(r) # "charging"
            /\ Status(r) = "reading" => Len(calls[r].due) # 1
        BY DEF Status
      <4> QED BY <3>1, <4>1, <4>2
    <3>2. CASE q # r
      BY <1>5, <3>2, ChargedCall DEF TypeOK
    <3> QED BY <3>1, <3>2
  <2>3. buckets' \in [Key -> Bucket \cup {None}]
    <3>1. \A key \in Key : buckets'[key] \in Bucket \cup {None}
      <4> TAKE key \in Key
      <4>1. CASE \A i \in Made(r) : Due(r)[i].key # key
        BY <1>5, <4>1, ChargeFacts DEF TypeOK
      <4>2. ASSUME NEW i \in Made(r), Due(r)[i].key = key
            PROVE  buckets'[key] \in Bucket \cup {None}
        <5>1. Due(r)[i].cost \in Nat /\ calls[r].stamp \in Nat
          BY <1>5, RecordFacts DEF TypeOK, CallRecord
        <5>2. buckets'[key] = Debited(key, Due(r)[i].cost, calls[r].stamp)
          BY <1>5, <4>2, ChargeFacts
        <5> QED BY <5>1, <5>2, DebitedIsBucket
      <4> QED BY <4>1, <4>2
    <3>2. buckets' = [key \in Key |-> buckets'[key]]
      BY <1>5 DEF Charge
    <3> QED BY <3>1, <3>2
  <2>4. /\ IsFiniteSet(debits')
        /\ debits' \subseteq [call : Call, key : Key, cost : Nat, at : Nat, ok : BOOLEAN]
        /\ \A d \in debits' : d.at <= now
    <3>1. debits' = debits \cup {Record(r, i) : i \in Made(r)}
      BY <1>5, ChargeFacts
    <3>2. \A i \in Made(r) :
            /\ Record(r, i) \in [call : Call, key : Key, cost : Nat, at : Nat, ok : BOOLEAN]
            /\ Record(r, i).at = now
      BY <1>5, RecordFacts
    <3>3. IsFiniteSet({Record(r, i) : i \in Made(r)})
      <4>1. Made(r) \subseteq {1, 2}
        BY <1>5, ChargeFacts, StatementFacts
      <4>2. {Record(r, i) : i \in Made(r)} \subseteq {Record(r, 1), Record(r, 2)}
        BY <4>1
      <4>3. IsFiniteSet({Record(r, 1), Record(r, 2)})
        BY PairIsFinite
      <4> QED BY <4>2, <4>3, FS_Subset
    <3>4. IsFiniteSet(debits')
      BY <3>1, <3>3, FS_Union DEF TypeOK
    <3> QED BY <3>1, <3>2, <3>4 DEF TypeOK
  <2> QED BY <2>1, <2>2, <2>3, <2>4 DEF TypeOK
<1>6. CASE Prune
  BY <1>6 DEF Prune, TypeOK
<1>7. CASE Tick
  BY <1>7, ConstantFacts DEF Tick, TypeOK, CallRecord
<1>8. CASE UNCHANGED vars
  BY <1>8 DEF vars, TypeOK
<1> QED BY <1>2, <1>3, <1>4, <1>5, <1>6, <1>7, <1>8, NextIs

-----------------------------------------------------------------------------
(* What each call has paid and still has to pay. *)

IsPaid(r, key, cost) == \E d \in debits : d.call = r /\ d.key = key /\ d.cost = cost /\ d.ok

Binds(debit, key, cost) == debit.key = key /\ debit.cost = cost /\ debit.binding

Owes(due, key, cost) == \E n \in DOMAIN due : \E i \in DOMAIN due[n] : Binds(due[n][i], key, cost)

\* What a call must have paid when it is served.
Requires(call, key, cost) ==
  IF call.method = "build"
  THEN \/ cost = 1 /\ key \in {<<"build", call.client>>, <<"build", All>>}
       \/ cost = call.inputs /\ call.inputs > 0 /\ key = <<"inputs", All>>
  ELSE \/ cost = 1 /\ key = <<"rpc", call.client>>
       \/ cost = 1 /\ call.method # None /\ key = <<call.method, call.client>>

\* The caller's own bucket of the same kind has accepted, or is due earlier.
OwnBucketPaid(r, kind) ==
  \E d \in debits : d.call = r /\ d.key = <<kind, calls[r].client>> /\ d.ok

OwnBucketDue(call, kind, n) ==
  \E m \in 1..(n - 1) : \E i \in DOMAIN call.due[m] :
    call.due[m][i].key = <<kind, call.client>> /\ call.due[m][i].binding

OwnComesFirst(r) ==
  \A n \in DOMAIN calls[r].due : \A i \in DOMAIN calls[r].due[n] :
    calls[r].due[n][i].key[2] = All =>
      \/ OwnBucketPaid(r, calls[r].due[n][i].key[1])
      \/ OwnBucketDue(calls[r], calls[r].due[n][i].key[1], n)

CallIsHonest(r) ==
  /\ calls[r].is # "new" => calls[r].client \in Client
  /\ calls[r].is = "served" => calls[r].due = <<>>
  /\ calls[r].is \in {"charging", "reading", "served"} =>
       \A key \in Key, cost \in Nat :
         Requires(calls[r], key, cost) => IsPaid(r, key, cost) \/ Owes(calls[r].due, key, cost)
  /\ calls[r].is \in {"charging", "reading"} => OwnComesFirst(r)

CallInvariant ==
  /\ TypeOK
  /\ \A r \in Call : CallIsHonest(r)
  /\ \A d \in debits : calls[d.call].is # "new"
  /\ OnlyAcceptedReachTheDeployment

\* A statement of one debit, of two.
IsOne(due, key, cost) ==
  DOMAIN due = {1} /\ Binds(due[1], key, cost)

IsTwo(due, one, two) ==
  DOMAIN due = {1, 2} /\ Binds(due[1], one, 1) /\ due[2].key = two

LEMMA OneIs ==
  ASSUME NEW key, NEW cost PROVE IsOne(<<Pays(key, cost, TRUE)>>, key, cost)
<1> DEFINE debit == Pays(key, cost, TRUE)
<1>1. Binds(debit, key, cost)
  BY DEF Binds, Pays
<1> HIDE DEF debit
<1>2. DOMAIN <<debit>> = {1} /\ <<debit>>[1] = debit
  OBVIOUS
<1>3. IsOne(<<debit>>, key, cost)
  BY <1>1, <1>2 DEF IsOne
<1> QED BY <1>3 DEF debit

LEMMA TwoIs ==
  ASSUME NEW one, NEW two, NEW binding \in BOOLEAN
  PROVE  /\ IsTwo(<<Pays(one, 1, TRUE), Pays(two, 1, binding)>>, one, two)
         /\ binding => Binds(<<Pays(one, 1, TRUE), Pays(two, 1, binding)>>[2], two, 1)
<1> DEFINE a == Pays(one, 1, TRUE)
           b == Pays(two, 1, binding)
<1>1. Binds(a, one, 1) /\ b.key = two /\ (binding => Binds(b, two, 1))
  BY DEF Binds, Pays
<1> HIDE DEF a, b
<1>2. DOMAIN <<a, b>> = {1, 2} /\ <<a, b>>[1] = a /\ <<a, b>>[2] = b
  OBVIOUS
<1>3. IsTwo(<<a, b>>, one, two) /\ (binding => Binds(<<a, b>>[2], two, 1))
  BY <1>1, <1>2 DEF IsTwo
<1> QED BY <1>3 DEF a, b

LEMMA ListItems ==
  ASSUME NEW list, NEW a, NEW b, NEW d, NEW e
  PROVE  /\ list = <<a>> => DOMAIN list = {1} /\ list[1] = a
         /\ list = <<a, b>> => DOMAIN list = {1, 2} /\ list[1] = a /\ list[2] = b
         /\ list = <<a, b, d, e>> =>
              /\ DOMAIN list = {1, 2, 3, 4}
              /\ list[1] = a /\ list[2] = b /\ list[3] = d /\ list[4] = e
<1>1. list = <<a>> => DOMAIN list = {1} /\ list[1] = a
  OBVIOUS
<1>2. list = <<a, b>> => DOMAIN list = {1, 2} /\ list[1] = a /\ list[2] = b
  OBVIOUS
<1>3. list = <<a, b, d, e>> =>
        /\ DOMAIN list = {1, 2, 3, 4}
        /\ list[1] = a /\ list[2] = b /\ list[3] = d /\ list[4] = e
  OBVIOUS
<1> QED BY <1>1, <1>2, <1>3

LEMMA BuildShape ==
  ASSUME NEW c \in Client, NEW inputs \in Nat, NEW due, due = BuildPlan(c, inputs)
  PROVE  /\ DOMAIN due = IF inputs = 0 THEN {1, 2} ELSE {1, 2, 3, 4}
         /\ IsOne(due[1], <<"build", c>>, 1) /\ IsOne(due[2], <<"build", All>>, 1)
         /\ inputs # 0 =>
              /\ IsOne(due[3], <<"inputs", c>>, Smaller(inputs, ClientInputs))
              /\ IsOne(due[4], <<"inputs", All>>, inputs)
<1> DEFINE a == <<Pays(<<"build", c>>, 1, TRUE)>>
           b == <<Pays(<<"build", All>>, 1, TRUE)>>
           d == <<Pays(<<"inputs", c>>, Smaller(inputs, ClientInputs), TRUE)>>
           e == <<Pays(<<"inputs", All>>, inputs, TRUE)>>
<1>1. /\ inputs = 0 => due = <<a, b>>
      /\ inputs # 0 => due = <<a, b, d, e>>
  BY BuildPlanIs
<1>2. IsOne(a, <<"build", c>>, 1)
  BY OneIs
<1>3. IsOne(b, <<"build", All>>, 1)
  BY OneIs
<1>4. IsOne(d, <<"inputs", c>>, Smaller(inputs, ClientInputs))
  BY OneIs
<1>5. IsOne(e, <<"inputs", All>>, inputs)
  BY OneIs
<1> HIDE DEF a, b, d, e
<1>6. inputs = 0 => DOMAIN due = {1, 2} /\ due[1] = a /\ due[2] = b
  BY <1>1, ListItems, Zenon
<1>7. inputs # 0 => /\ DOMAIN due = {1, 2, 3, 4} /\ due[1] = a /\ due[2] = b
                    /\ due[3] = d /\ due[4] = e
  <2> SUFFICES ASSUME inputs # 0
               PROVE  /\ DOMAIN due = {1, 2, 3, 4} /\ due[1] = a /\ due[2] = b
                      /\ due[3] = d /\ due[4] = e
    OBVIOUS
  <2>1. due = <<a, b, d, e>>
    BY <1>1
  <2> QED BY <2>1, ListItems
<1> QED BY <1>2, <1>3, <1>4, <1>5, <1>6, <1>7, Zenon

LEMMA RpcShape ==
  ASSUME NEW c \in Client, NEW hint \in Method \cup {None}, NEW method \in Method \cup {None},
         NEW due, due = RpcPlan(c, hint, method)
  PROVE  \/ DOMAIN due = {1} /\ IsOne(due[1], <<"rpc", c>>, 1) /\ method = None
         \/ /\ DOMAIN due = {1, 2}
            /\ IsOne(due[1], <<"rpc", c>>, 1) /\ IsOne(due[2], <<method, c>>, 1)
         \/ /\ DOMAIN due = {1} /\ method = None
            /\ IsTwo(due[1], <<"rpc", c>>, <<hint, c>>)
         \/ /\ DOMAIN due = {1}
            /\ IsTwo(due[1], <<"rpc", c>>, <<method, c>>) /\ Binds(due[1][2], <<method, c>>, 1)
         \/ /\ DOMAIN due = {1, 2} /\ IsTwo(due[1], <<"rpc", c>>, <<hint, c>>)
            /\ IsOne(due[2], <<method, c>>, 1)
<1> DEFINE a == <<Pays(<<"rpc", c>>, 1, TRUE)>>
           b == <<Pays(<<"rpc", c>>, 1, TRUE), Pays(<<method, c>>, 1, TRUE)>>
           d == <<Pays(<<method, c>>, 1, TRUE)>>
           e == <<Pays(<<"rpc", c>>, 1, TRUE), Pays(<<hint, c>>, 1, FALSE)>>
<1>1. /\ hint = None /\ method = None => due = <<a>>
      /\ hint = None /\ method # None => due = <<a, d>>
      /\ hint # None /\ method = hint => due = <<b>>
      /\ hint # None /\ method = None => due = <<e>>
      /\ hint # None /\ method \notin {None, hint} => due = <<e, d>>
  BY RpcPlanIs
<1>2. IsOne(a, <<"rpc", c>>, 1)
  BY OneIs
<1>3. IsTwo(b, <<"rpc", c>>, <<method, c>>) /\ Binds(b[2], <<method, c>>, 1)
  BY TwoIs
<1>4. IsOne(d, <<method, c>>, 1)
  BY OneIs
<1>5. IsTwo(e, <<"rpc", c>>, <<hint, c>>)
  BY TwoIs
<1> HIDE DEF a, b, d, e
<1>6. /\ \A one : due = <<one>> => DOMAIN due = {1} /\ due[1] = one
      /\ \A one, two : due = <<one, two>> => DOMAIN due = {1, 2} /\ due[1] = one /\ due[2] = two
  BY ListItems
<1>7. /\ hint = None /\ method = None => DOMAIN due = {1} /\ due[1] = a
      /\ hint = None /\ method # None => DOMAIN due = {1, 2} /\ due[1] = a /\ due[2] = d
      /\ hint # None /\ method = hint => DOMAIN due = {1} /\ due[1] = b
      /\ hint # None /\ method = None => DOMAIN due = {1} /\ due[1] = e
      /\ hint # None /\ method \notin {None, hint} =>
           DOMAIN due = {1, 2} /\ due[1] = e /\ due[2] = d
  BY <1>1, <1>6, Zenon
<1> QED BY <1>2, <1>3, <1>4, <1>5, <1>7

LEMMA PairParts ==
  ASSUME NEW pair, NEW a, NEW b, pair = <<a, b>> PROVE pair[1] = a /\ pair[2] = b
OBVIOUS

\* What a build has to pay is due, its own bucket of each kind first.
LEMMA BuildIsHonest ==
  ASSUME NEW call, NEW c \in Client, NEW inputs \in Nat, call.client = c,
         call.due = BuildPlan(c, inputs), call.inputs = inputs, call.method = "build"
  PROVE  /\ \A key \in Key, cost \in Nat : Requires(call, key, cost) => Owes(call.due, key, cost)
         /\ \A n \in DOMAIN call.due : \A i \in DOMAIN call.due[n] :
              call.due[n][i].key[2] = All => OwnBucketDue(call, call.due[n][i].key[1], n)
<1> DEFINE due == call.due
<1>1. /\ DOMAIN due = IF inputs = 0 THEN {1, 2} ELSE {1, 2, 3, 4}
      /\ IsOne(due[1], <<"build", c>>, 1) /\ IsOne(due[2], <<"build", All>>, 1)
      /\ inputs # 0 =>
           /\ IsOne(due[3], <<"inputs", c>>, Smaller(inputs, ClientInputs))
           /\ IsOne(due[4], <<"inputs", All>>, inputs)
  BY BuildShape
<1>2. c # All
  BY KeyFacts
<1> HIDE DEF due
<1>3. ASSUME NEW n \in DOMAIN due, NEW key, NEW cost, IsOne(due[n], key, cost)
      PROVE  Owes(due, key, cost)
  BY <1>3 DEF Owes, IsOne
<1>4. ASSUME NEW key \in Key, NEW cost \in Nat, Requires(call, key, cost)
      PROVE  Owes(due, key, cost)
  <2>1. \/ cost = 1 /\ key = <<"build", c>>
        \/ cost = 1 /\ key = <<"build", All>>
        \/ cost = inputs /\ inputs > 0 /\ key = <<"inputs", All>>
    BY <1>4, Zenon DEF Requires
  <2>2. 1 \in DOMAIN due /\ 2 \in DOMAIN due /\ (inputs > 0 => 4 \in DOMAIN due /\ inputs # 0)
    BY <1>1
  <2> QED BY <1>1, <1>3, <2>1, <2>2, Zenon
<1>5. ASSUME NEW n \in DOMAIN due, NEW i \in DOMAIN due[n], due[n][i].key[2] = All
      PROVE  OwnBucketDue(call, due[n][i].key[1], n)
  <2>1. n = 1 \/ n = 2 \/ (inputs # 0 /\ n = 3) \/ (inputs # 0 /\ n = 4)
    BY <1>1
  <2>2. ASSUME NEW m \in {1, 2, 3, 4}, NEW key, NEW cost, IsOne(due[m], key, cost)
        PROVE  DOMAIN due[m] = {1} /\ due[m][1].key = key /\ due[m][1].binding
    BY <2>2, Zenon DEF IsOne, Binds
  <2>3. CASE n = 1
    <3>1. due[n][i].key = <<"build", c>>
      BY <1>1, <2>2, <2>3
    <3>2. due[n][i].key[2] = c
      BY <3>1, PairParts, Zenon
    <3> QED BY <1>2, <1>5, <3>2
  <2>4. CASE inputs # 0 /\ n = 3
    <3>1. due[n][i].key = <<"inputs", c>>
      BY <1>1, <2>2, <2>4
    <3>2. due[n][i].key[2] = c
      BY <3>1, PairParts, Zenon
    <3> QED BY <1>2, <1>5, <3>2
  <2>5. ASSUME NEW kind, NEW cost, NEW own \in {1, 2, 3, 4}, IsOne(due[own], <<kind, c>>, cost),
               NEW all, IsOne(due[n], <<kind, All>>, all), n \in {1, 2, 3, 4}, own \in 1..(n - 1)
        PROVE  OwnBucketDue(call, due[n][i].key[1], n)
    <3>1. due[n][i].key = <<kind, All>>
      BY <2>2, <2>5
    <3>2. due[n][i].key[1] = kind
      BY <3>1, PairParts
    <3>3. 1 \in DOMAIN due[own] /\ due[own][1].key = <<kind, c>> /\ due[own][1].binding
      BY <2>2, <2>5
    <3>4. call.client = c
      OBVIOUS
    <3>5. OwnBucketDue(call, kind, n)
      BY <2>5, <3>3, <3>4, Zenon DEF OwnBucketDue, due
    <3> QED BY <3>2, <3>5
  <2>6. CASE n = 2
    <3>1. 1 \in 1..(n - 1) /\ n \in {1, 2, 3, 4} /\ 1 \in {1, 2, 3, 4}
      BY <2>6
    <3> QED BY <1>1, <2>5, <2>6, <3>1, Zenon
  <2>7. CASE inputs # 0 /\ n = 4
    <3>1. 3 \in 1..(n - 1) /\ n \in {1, 2, 3, 4} /\ 3 \in {1, 2, 3, 4}
      BY <2>7
    <3> QED BY <1>1, <2>5, <2>7, <3>1, Zenon
  <2> QED BY <2>1, <2>3, <2>4, <2>6, <2>7
<1> QED BY <1>4, <1>5 DEF due

\* What a proxy call has to pay is due, whatever its header announces.
LEMMA RpcIsHonest ==
  ASSUME NEW call, NEW c \in Client, NEW hint \in Method \cup {None},
         NEW method \in Method \cup {None}, call.client = c, call.method = method,
         call.due = RpcPlan(c, hint, method)
  PROVE  /\ \A key \in Key, cost \in Nat : Requires(call, key, cost) => Owes(call.due, key, cost)
         /\ \A n \in DOMAIN call.due : \A i \in DOMAIN call.due[n] : call.due[n][i].key[2] # All
<1> DEFINE due == call.due
<1>1. \/ DOMAIN due = {1} /\ IsOne(due[1], <<"rpc", c>>, 1) /\ method = None
      \/ /\ DOMAIN due = {1, 2}
         /\ IsOne(due[1], <<"rpc", c>>, 1) /\ IsOne(due[2], <<method, c>>, 1)
      \/ /\ DOMAIN due = {1} /\ method = None
         /\ IsTwo(due[1], <<"rpc", c>>, <<hint, c>>)
      \/ /\ DOMAIN due = {1}
         /\ IsTwo(due[1], <<"rpc", c>>, <<method, c>>) /\ Binds(due[1][2], <<method, c>>, 1)
      \/ /\ DOMAIN due = {1, 2} /\ IsTwo(due[1], <<"rpc", c>>, <<hint, c>>)
         /\ IsOne(due[2], <<method, c>>, 1)
  BY RpcShape
<1>2. c # All /\ method # "build"
  BY KeyFacts, NameAssumption
<1> HIDE DEF due
<1>3. ASSUME NEW key \in Key, NEW cost \in Nat, Requires(call, key, cost)
      PROVE  Owes(due, key, cost)
  <2>1. \/ cost = 1 /\ key = <<"rpc", c>>
        \/ cost = 1 /\ method # None /\ key = <<method, c>>
    BY <1>2, <1>3, Zenon DEF Requires
  <2>2. \/ /\ 1 \in DOMAIN due /\ 1 \in DOMAIN due[1] /\ Binds(due[1][1], key, cost)
        \/ /\ 1 \in DOMAIN due /\ 2 \in DOMAIN due[1] /\ Binds(due[1][2], key, cost)
        \/ /\ 2 \in DOMAIN due /\ 1 \in DOMAIN due[2] /\ Binds(due[2][1], key, cost)
    BY <1>1, <2>1 DEF IsOne, IsTwo, Binds
  <2> QED BY <2>2 DEF Owes
<1>4. ASSUME NEW n \in DOMAIN due, NEW i \in DOMAIN due[n]
      PROVE  due[n][i].key[2] # All
  <2>1. due[n][i].key \in {<<"rpc", c>>, <<method, c>>, <<hint, c>>}
    BY <1>1 DEF IsOne, IsTwo, Binds
  <2> QED BY <1>2, <2>1, PairParts
<1> QED BY <1>3, <1>4 DEF due

-----------------------------------------------------------------------------
(* The invariant of the calls. *)

LEMMA NewCall ==
  /\ New \in CallRecord /\ New.is = "new" /\ New.due = <<>> /\ IsPlan(New.due)
<1>1. <<>> \in Seq(Seq(Debit)) /\ DOMAIN <<>> = {}
  OBVIOUS
<1>2. New.is = "new" /\ New.due = <<>>
  BY DEF New
<1>3. New \in CallRecord
  BY <1>1 DEF New, CallRecord
<1> QED BY <1>1, <1>2, <1>3 DEF IsPlan

LEMMA CallInit ==
  ASSUME Init PROVE CallInvariant
<1>1. \A r \in Call : calls[r] = New
  BY DEF Init
<1>2. debits = {} /\ IsFiniteSet(debits)
  BY FS_EmptySet DEF Init
<1>3. TypeOK
  <2>1. calls \in [Call -> CallRecord] /\ buckets \in [Key -> Bucket \cup {None}] /\ now \in Nat
    BY NewCall DEF Init
  <2> QED BY <1>1, <1>2, <2>1, NewCall DEF TypeOK
<1>4. \A r \in Call : CallIsHonest(r)
  BY <1>1, NewCall DEF CallIsHonest
<1> QED BY <1>2, <1>3, <1>4 DEF CallInvariant, OnlyAcceptedReachTheDeployment

\* A debit stays in the history.
LEMMA HonestStays ==
  ASSUME NEW r \in Call, CallIsHonest(r), calls'[r] = calls[r], debits \subseteq debits'
  PROVE  CallIsHonest(r)'
<1>1. \A key \in Key, cost \in Nat : IsPaid(r, key, cost) => IsPaid(r, key, cost)'
  BY DEF IsPaid
<1>2. OwnComesFirst(r) => OwnComesFirst(r)'
  BY DEF OwnComesFirst, OwnBucketPaid
<1> QED BY <1>1, <1>2 DEF CallIsHonest

LEMMA OldDebitsStay ==
  ASSUME CallInvariant, debits \subseteq debits',
         \A q \in Call : calls[q].is # "new" => calls'[q].client = calls[q].client,
         NEW d \in debits, d.key[2] = All
  PROVE  \E e \in debits' : /\ e.call = d.call /\ e.ok
                            /\ e.key = <<d.key[1], calls'[d.call].client>>
<1>1. d.call \in Call /\ calls[d.call].is # "new"
  BY DEF CallInvariant, TypeOK
<1>2. PICK e \in debits : /\ e.call = d.call /\ e.ok
                          /\ e.key = <<d.key[1], calls[d.call].client>>
  BY DEF CallInvariant, OnlyAcceptedReachTheDeployment
<1> QED BY <1>1, <1>2

LEMMA NotRefused ==
  ASSUME TypeOK, NEW r \in Call, Charge(r), ~ Refuses(r),
         NEW i \in DOMAIN Due(r), Due(r)[i].binding
  PROVE  i \in Made(r) /\ Ok(r, i)
<1>1. IsStatement(Due(r)) /\ 1 \in Made(r)
  BY ChargeFacts
<1>2. Due(r)[1].binding /\ i \in {1, 2}
  BY <1>1, StatementFacts
<1>3. Ok(r, 1)
  BY <1>1, <1>2 DEF Refuses
<1>4. \A j \in 1..(i - 1) : j = 1
  BY <1>2
<1>5. i \in Made(r)
  BY <1>3, <1>4 DEF Made
<1> QED BY <1>5 DEF Refuses

\* What a statement that refuses nothing has paid.
LEMMA BoundIsPaid ==
  ASSUME TypeOK, NEW r \in Call, Charge(r), ~ Refuses(r),
         NEW i \in DOMAIN Due(r), Due(r)[i].binding
  PROVE  \E d \in debits' : /\ d.call = r /\ d.key = Due(r)[i].key
                            /\ d.cost = Due(r)[i].cost /\ d.ok
<1>1. i \in Made(r) /\ Ok(r, i)
  BY NotRefused
<1>2. Record(r, i) \in debits'
  BY <1>1, ChargeFacts
<1> QED BY <1>1, <1>2, RecordFacts

LEMMA ChargedIsHonest ==
  ASSUME CallInvariant, NEW r \in Call, Charge(r)
  PROVE  CallIsHonest(r)'
<1> DEFINE due == calls[r].due
           rest == Tail(due)
<1>1. /\ TypeOK /\ CallIsHonest(r) /\ calls[r].is = "charging"
      /\ due # <<>> /\ IsPlan(due) /\ due[1] = Due(r)
      /\ debits \subseteq debits'
  BY ChargeFacts DEF CallInvariant, Due
<1>2. /\ calls'[r].client = calls[r].client /\ calls'[r].method = calls[r].method
      /\ calls'[r].inputs = calls[r].inputs
      /\ calls'[r].due = rest /\ calls'[r].is = Status(r)
      /\ Status(r) \in {"refused", "served", "reading"}
  BY <1>1, ChargedCall
<1>3. /\ Len(due) \in Nat /\ Len(due) >= 1 /\ DOMAIN due = 1..Len(due)
      /\ DOMAIN rest = 1..(Len(due) - 1)
      /\ \A n \in 1..(Len(due) - 1) : rest[n] = due[n + 1]
      /\ Len(due) = 1 => rest = <<>>
  BY <1>1, PlanFacts, LenProperties DEF IsPlan
<1> HIDE DEF due, rest
<1>4. calls'[r].is # "new" => calls'[r].client \in Client
  BY <1>1, <1>2 DEF CallIsHonest
<1>5. calls'[r].is = "served" => calls'[r].due = <<>>
  BY <1>2, <1>3 DEF Status, due
<1>6. ASSUME Status(r) # "refused", NEW key \in Key, NEW cost \in Nat,
             Requires(calls'[r], key, cost)
      PROVE  IsPaid(r, key, cost)' \/ Owes(rest, key, cost)
  <2>1. Requires(calls[r], key, cost)
    BY <1>2, <1>6 DEF Requires
  <2>2. IsPaid(r, key, cost) \/ Owes(due, key, cost)
    BY <1>1, <2>1, Zenon DEF CallIsHonest, due
  <2>3. CASE IsPaid(r, key, cost)
    BY <1>1, <2>3 DEF IsPaid
  <2>4. ASSUME NEW n \in DOMAIN due, NEW i \in DOMAIN due[n], Binds(due[n][i], key, cost)
        PROVE  IsPaid(r, key, cost)' \/ Owes(rest, key, cost)
    <3>1. CASE n = 1
      <4>1. ~ Refuses(r)
        BY <1>6 DEF Status
      <4>2. /\ i \in DOMAIN Due(r) /\ Due(r)[i].binding
            /\ Due(r)[i].key = key /\ Due(r)[i].cost = cost
        BY <1>1, <2>4, <3>1 DEF Binds
      <4> QED BY <1>1, <4>1, <4>2, BoundIsPaid DEF IsPaid
    <3>2. CASE n # 1
      <4>1. n - 1 \in DOMAIN rest /\ rest[n - 1] = due[n]
        BY <1>3, <3>2
      <4> QED BY <2>4, <4>1 DEF Owes
    <3> QED BY <3>1, <3>2
  <2> QED BY <2>2, <2>3, <2>4 DEF Owes
<1>7. ASSUME Status(r) = "reading", NEW n \in DOMAIN rest, NEW i \in DOMAIN rest[n],
             rest[n][i].key[2] = All, NEW kind, kind = rest[n][i].key[1]
      PROVE  OwnBucketPaid(r, kind)' \/ OwnBucketDue(calls'[r], kind, n)
  <2>1. n + 1 \in DOMAIN due /\ rest[n] = due[n + 1] /\ n \in Nat
    BY <1>3
  <2>2. OwnBucketPaid(r, kind) \/ OwnBucketDue(calls[r], kind, n + 1)
    BY <1>1, <1>7, <2>1 DEF CallIsHonest, OwnComesFirst, due
  <2>3. CASE OwnBucketPaid(r, kind)
    BY <1>1, <1>2, <2>3 DEF OwnBucketPaid
  <2>4. ASSUME NEW m \in 1..n, NEW j \in DOMAIN due[m],
               due[m][j].key = <<kind, calls[r].client>>, due[m][j].binding
        PROVE  \/ OwnBucketPaid(r, kind)'
               \/ OwnBucketDue(calls'[r], kind, n)
    <3>1. CASE m = 1
      <4>1. ~ Refuses(r)
        BY <1>7 DEF Status
      <4>2. j \in DOMAIN Due(r) /\ Due(r)[j].binding /\ Due(r)[j].key = <<kind, calls[r].client>>
        BY <1>1, <2>4, <3>1
      <4>3. \E d \in debits' : d.call = r /\ d.key = <<kind, calls[r].client>> /\ d.ok
        BY <1>1, <4>1, <4>2, BoundIsPaid
      <4>4. OwnBucketPaid(r, kind)'
        BY <1>2, <4>3 DEF OwnBucketPaid
      <4> QED BY <4>4
    <3>2. CASE m # 1
      <4>1. m - 1 \in 1..(n - 1) /\ rest[m - 1] = due[m]
        BY <1>3, <2>1, <3>2
      <4>2. OwnBucketDue(calls'[r], kind, n)
        BY <1>2, <2>4, <4>1 DEF OwnBucketDue
      <4> QED BY <4>2
    <3> QED BY <3>1, <3>2
  <2>5. CASE OwnBucketDue(calls[r], kind, n + 1)
    <3>1. (n + 1) - 1 = n
      BY <2>1
    <3> QED BY <2>4, <2>5, <3>1 DEF OwnBucketDue, due
  <2> QED BY <2>2, <2>3, <2>5
<1>8. Status(r) = "reading" => OwnComesFirst(r)'
  <2> SUFFICES ASSUME Status(r) = "reading", NEW n \in DOMAIN rest, NEW i \in DOMAIN rest[n],
                      rest[n][i].key[2] = All, NEW kind, kind = rest[n][i].key[1]
               PROVE  OwnBucketPaid(r, kind)' \/ OwnBucketDue(calls'[r], kind, n)
    BY <1>2 DEF OwnComesFirst, OwnBucketPaid
  <2> QED BY <1>7
<1> QED BY <1>2, <1>4, <1>5, <1>6, <1>8 DEF CallIsHonest

LEMMA ArrivedIsHonest ==
  ASSUME NEW r \in Call, calls'[r].is = "charging", calls'[r].client \in Client,
         \A key \in Key, cost \in Nat :
           Requires(calls'[r], key, cost) => Owes(calls'[r].due, key, cost),
         \A n \in DOMAIN calls'[r].due : \A i \in DOMAIN calls'[r].due[n] :
           calls'[r].due[n][i].key[2] = All =>
             OwnBucketDue(calls'[r], calls'[r].due[n][i].key[1], n)
  PROVE  CallIsHonest(r)'
BY DEF CallIsHonest, OwnComesFirst

LEMMA CallStep ==
  ASSUME CallInvariant, [Next]_vars
  PROVE  CallInvariant'
<1>1. TypeOK /\ TypeOK'
  BY TypeStep DEF CallInvariant
\* A call that arrives owes all that it has to pay.
<1>2. ASSUME NEW r \in Call, NEW c \in Client, NEW method \in Method \cup {None, "build"},
             NEW inputs \in Nat, NEW plan, IsPlan(plan), Arrive(r, c, method, inputs, plan),
             CallIsHonest(r)'
      PROVE  CallInvariant'
  <2>1. /\ calls[r].is = "new" /\ calls'[r].is = "charging"
        /\ \A q \in Call : q # r => calls'[q] = calls[q]
        /\ debits' = debits
    BY <1>1, <1>2, ArrivedCall DEF Arrive
  <2>2. \A q \in Call : CallIsHonest(q)'
    BY <1>2, <2>1, HonestStays DEF CallInvariant
  <2>3. \A d \in debits' : calls'[d.call].is # "new"
    BY <2>1 DEF CallInvariant, TypeOK
  <2>4. \A q \in Call : calls[q].is # "new" => calls'[q].client = calls[q].client
    BY <2>1
  <2>5. OnlyAcceptedReachTheDeployment'
    <3> SUFFICES ASSUME NEW d \in debits', d.key[2] = All
                 PROVE  \E e \in debits' : /\ e.call = d.call /\ e.ok
                                           /\ e.key = <<d.key[1], calls'[d.call].client>>
      BY DEF OnlyAcceptedReachTheDeployment, All
    <3> QED BY <2>1, <2>4, OldDebitsStay
  <2> QED BY <1>1, <2>2, <2>3, <2>5 DEF CallInvariant
<1>3. ASSUME NEW r \in Call, NEW c \in Client, NEW inputs \in Inputs, Build(r, c, inputs)
      PROVE  CallInvariant'
  <2>1. /\ inputs \in Nat /\ IsPlan(BuildPlan(c, inputs))
        /\ Arrive(r, c, "build", inputs, BuildPlan(c, inputs))
    BY <1>3, ConstantFacts, BuildPlanIs DEF Build
  <2>2. /\ calls'[r].client = c /\ calls'[r].inputs = inputs /\ calls'[r].method = "build"
        /\ calls'[r].due = BuildPlan(c, inputs) /\ calls'[r].is = "charging"
    BY <1>1, <2>1, ArrivedCall
  <2>3. CallIsHonest(r)'
    <3> DEFINE call == calls'[r]
    <3>1. /\ call.client = c /\ call.inputs = inputs /\ call.method = "build"
          /\ call.due = BuildPlan(c, inputs)
      BY <2>2
    <3> HIDE DEF call
    <3>2. /\ \A key \in Key, cost \in Nat :
               Requires(call, key, cost) => Owes(call.due, key, cost)
          /\ \A n \in DOMAIN call.due : \A i \in DOMAIN call.due[n] :
               call.due[n][i].key[2] = All => OwnBucketDue(call, call.due[n][i].key[1], n)
      BY <2>1, <3>1, BuildIsHonest
    <3> QED BY <2>2, <3>2, ArrivedIsHonest DEF call
  <2> QED BY <1>2, <2>1, <2>3
<1>4. ASSUME NEW r \in Call, NEW c \in Client, NEW hint \in Method \cup {None},
             NEW method \in Method \cup {None}, Rpc(r, c, hint, method)
      PROVE  CallInvariant'
  <2>1. IsPlan(RpcPlan(c, hint, method)) /\ Arrive(r, c, method, 0, RpcPlan(c, hint, method))
    BY <1>4, RpcPlanIs DEF Rpc
  <2>2. /\ calls'[r].client = c /\ calls'[r].method = method
        /\ calls'[r].due = RpcPlan(c, hint, method) /\ calls'[r].is = "charging"
    BY <1>1, <2>1, ArrivedCall
  <2>3. CallIsHonest(r)'
    <3> DEFINE call == calls'[r]
    <3>1. /\ call.client = c /\ call.method = method /\ call.due = RpcPlan(c, hint, method)
      BY <2>2
    <3> HIDE DEF call
    <3>2. /\ \A key \in Key, cost \in Nat :
               Requires(call, key, cost) => Owes(call.due, key, cost)
          /\ \A n \in DOMAIN call.due : \A i \in DOMAIN call.due[n] :
               call.due[n][i].key[2] # All
      BY <3>1, RpcIsHonest
    <3> QED BY <2>2, <3>2, ArrivedIsHonest DEF call
  <2> QED BY <1>2, <2>1, <2>3
<1>5. ASSUME NEW r \in Call, ReadTime(r)
      PROVE  CallInvariant'
  <2>1. /\ calls[r].is = "reading" /\ calls'[r].is = "charging"
        /\ calls'[r].client = calls[r].client /\ calls'[r].method = calls[r].method
        /\ calls'[r].inputs = calls[r].inputs /\ calls'[r].due = calls[r].due
        /\ \A q \in Call : q # r => calls'[q] = calls[q]
        /\ debits' = debits
    BY <1>1, <1>5, ReadCall DEF ReadTime
  <2>2. CallIsHonest(r)'
    <3>1. CallIsHonest(r)
      BY DEF CallInvariant
    <3>2. \A key \in Key, cost \in Nat :
            Requires(calls'[r], key, cost) =>
              IsPaid(r, key, cost)' \/ Owes(calls'[r].due, key, cost)
      BY <2>1, <3>1 DEF CallIsHonest, Requires, IsPaid
    <3>3. OwnComesFirst(r)'
      <4>1. \A kind, n : OwnBucketDue(calls[r], kind, n) => OwnBucketDue(calls'[r], kind, n)
        BY <2>1 DEF OwnBucketDue
      <4> QED BY <2>1, <3>1, <4>1 DEF CallIsHonest, OwnComesFirst, OwnBucketPaid
    <3> QED BY <2>1, <3>1, <3>2, <3>3 DEF CallIsHonest
  <2>3. \A q \in Call : CallIsHonest(q)'
    BY <2>1, <2>2, HonestStays DEF CallInvariant
  <2>4. \A d \in debits' : calls'[d.call].is # "new"
    BY <2>1 DEF CallInvariant, TypeOK
  <2>5. OnlyAcceptedReachTheDeployment'
    <3> SUFFICES ASSUME NEW d \in debits', d.key[2] = All
                 PROVE  \E e \in debits' : /\ e.call = d.call /\ e.ok
                                           /\ e.key = <<d.key[1], calls'[d.call].client>>
      BY DEF OnlyAcceptedReachTheDeployment, All
    <3>1. \A q \in Call : calls'[q].client = calls[q].client
      BY <2>1
    <3> QED BY <2>1, <3>1, OldDebitsStay
  <2> QED BY <1>1, <2>3, <2>4, <2>5 DEF CallInvariant
\* What a statement charges follows what the caller's own bucket accepted.
<1>6. ASSUME NEW r \in Call, Charge(r)
      PROVE  CallInvariant'
  <2>1. /\ calls'[r].client = calls[r].client /\ calls'[r].is = Status(r)
        /\ Status(r) \in {"refused", "served", "reading"}
        /\ \A q \in Call : q # r => calls'[q] = calls[q]
        /\ debits' = debits \cup {Record(r, i) : i \in Made(r)}
        /\ calls[r].is = "charging"
    BY <1>1, <1>6, ChargedCall, ChargeFacts
  <2>2. \A q \in Call : CallIsHonest(q)'
    BY <1>6, <2>1, ChargedIsHonest, HonestStays DEF CallInvariant
  <2>3. \A d \in debits' : calls'[d.call].is # "new"
    <3> TAKE d \in debits'
    <3>1. CASE d \in debits
      BY <2>1, <3>1 DEF CallInvariant, TypeOK
    <3>2. ASSUME NEW i \in Made(r), d = Record(r, i) PROVE calls'[d.call].is # "new"
      BY <1>1, <1>6, <2>1, <3>2, RecordFacts
    <3> QED BY <2>1, <3>1, <3>2
  <2>4. \A q \in Call : calls'[q].client = calls[q].client
    BY <2>1
  <2>5. OnlyAcceptedReachTheDeployment'
    <3> SUFFICES ASSUME NEW d \in debits', d.key[2] = All
                 PROVE  \E e \in debits' : /\ e.call = d.call /\ e.ok
                                           /\ e.key = <<d.key[1], calls'[d.call].client>>
      BY DEF OnlyAcceptedReachTheDeployment, All
    <3>1. CASE d \in debits
      BY <2>1, <2>4, <3>1, OldDebitsStay
    <3>2. ASSUME NEW i \in Made(r), d = Record(r, i)
          PROVE  \E e \in debits' : /\ e.call = d.call /\ e.ok
                                    /\ e.key = <<d.key[1], calls'[d.call].client>>
      <4>1. d.call = r /\ d.key = Due(r)[i].key
        BY <1>1, <1>6, <3>2, RecordFacts
      <4>2. 1 \in DOMAIN calls[r].due /\ calls[r].due[1] = Due(r) /\ i \in DOMAIN Due(r)
        <5>1. IsPlan(calls[r].due) /\ calls[r].due # <<>> /\ Made(r) \subseteq DOMAIN Due(r)
          BY <1>1, <1>6, ChargeFacts
        <5>2. Len(calls[r].due) >= 1 /\ Len(calls[r].due) \in Nat
          BY <5>1, PlanFacts
        <5>3. DOMAIN calls[r].due = 1..Len(calls[r].due)
          BY <5>1, LenProperties DEF IsPlan
        <5> QED BY <5>1, <5>2, <5>3 DEF Due
      <4>3. OwnComesFirst(r)
        BY <2>1 DEF CallInvariant, CallIsHonest
      <4>4. \/ OwnBucketPaid(r, Due(r)[i].key[1])
            \/ OwnBucketDue(calls[r], Due(r)[i].key[1], 1)
        BY <4>1, <4>2, <4>3 DEF OwnComesFirst
      <4>5. ~ OwnBucketDue(calls[r], Due(r)[i].key[1], 1)
        BY DEF OwnBucketDue
      <4>6. PICK e \in debits : /\ e.call = r /\ e.ok
                                /\ e.key = <<Due(r)[i].key[1], calls[r].client>>
        BY <4>4, <4>5 DEF OwnBucketPaid
      <4> QED BY <2>1, <2>4, <4>1, <4>6
    <3> QED BY <2>1, <3>1, <3>2
  <2> QED BY <1>1, <2>2, <2>3, <2>5 DEF CallInvariant
<1>7. ASSUME UNCHANGED <<calls, debits>> PROVE CallInvariant'
  <2>1. \A q \in Call : CallIsHonest(q)'
    BY <1>7, HonestStays DEF CallInvariant
  <2> QED BY <1>1, <1>7, <2>1 DEF CallInvariant, OnlyAcceptedReachTheDeployment
<1>8. CASE Prune
  BY <1>7, <1>8 DEF Prune
<1>9. CASE Tick
  BY <1>7, <1>9 DEF Tick
<1>10. CASE UNCHANGED vars
  BY <1>7, <1>10 DEF vars
<1> QED BY <1>3, <1>4, <1>5, <1>6, <1>8, <1>9, <1>10, NextIs

LEMMA CallsStayHonest == Spec => []CallInvariant
<1>1. Init => CallInvariant
  BY CallInit
<1>2. CallInvariant /\ [Next]_vars => CallInvariant'
  BY CallStep
<1> QED BY <1>1, <1>2, PTL DEF Spec

\* Whoever is served has been charged for all that it is served, for any
\* number of clients and methods, whatever header its request carried
\* (app/api/mesh/route.ts:71-72, tx-route.ts:105-118).
THEOREM ServedIsAlwaysPaid == Spec => []ServedIsPaid
<1>1. CallInvariant => ServedIsPaid
  <2> SUFFICES ASSUME CallInvariant, NEW r \in Call, calls[r].is = "served"
               PROVE  LET c == calls[r].client
                      IN IF calls[r].method = "build"
                         THEN /\ IsPaid(r, <<"build", c>>, 1) /\ IsPaid(r, <<"build", All>>, 1)
                              /\ calls[r].inputs > 0 => IsPaid(r, <<"inputs", All>>, calls[r].inputs)
                         ELSE /\ IsPaid(r, <<"rpc", c>>, 1)
                              /\ calls[r].method # None => IsPaid(r, <<calls[r].method, c>>, 1)
    BY DEF ServedIsPaid, IsPaid
  <2> DEFINE c == calls[r].client
  <2>1. /\ c \in Client /\ calls[r].due = <<>>
        /\ calls[r].method \in Method \cup {None, "build"} /\ calls[r].inputs \in Nat
    BY DEF CallInvariant, CallIsHonest, TypeOK, CallRecord
  <2>2. \A key \in Key, cost \in Nat : ~ Owes(calls[r].due, key, cost)
    <3>1. DOMAIN <<>> = {}
      OBVIOUS
    <3> QED BY <2>1, <3>1 DEF Owes
  <2>3. \A key \in Key, cost \in Nat : Requires(calls[r], key, cost) => IsPaid(r, key, cost)
    BY <2>2 DEF CallInvariant, CallIsHonest
  <2> HIDE DEF c
  <2>4. CASE calls[r].method = "build"
    <3>1. Requires(calls[r], <<"build", c>>, 1) /\ Requires(calls[r], <<"build", All>>, 1)
      BY <2>4 DEF Requires, c
    <3>2. calls[r].inputs > 0 => Requires(calls[r], <<"inputs", All>>, calls[r].inputs)
      BY <2>4 DEF Requires
    <3>3. IsPaid(r, <<"build", c>>, 1) /\ IsPaid(r, <<"build", All>>, 1)
      BY <2>1, <2>3, <3>1, KeyFacts
    <3>4. calls[r].inputs > 0 => IsPaid(r, <<"inputs", All>>, calls[r].inputs)
      BY <2>1, <2>3, <3>2, KeyFacts
    <3> QED BY <2>4, <3>3, <3>4 DEF c
  <2>5. CASE calls[r].method # "build"
    <3>1. Requires(calls[r], <<"rpc", c>>, 1)
      BY <2>5 DEF Requires, c
    <3>2. calls[r].method # None => Requires(calls[r], <<calls[r].method, c>>, 1)
      BY <2>5 DEF Requires, c
    <3>3. IsPaid(r, <<"rpc", c>>, 1)
      BY <2>1, <2>3, <3>1, KeyFacts
    <3>4. calls[r].method # None => IsPaid(r, <<calls[r].method, c>>, 1)
      BY <2>1, <2>3, <2>5, <3>2, KeyFacts
    <3> QED BY <2>5, <3>3, <3>4 DEF c
  <2> QED BY <2>4, <2>5
<1> QED BY <1>1, CallsStayHonest, PTL

\* Whoever is refused at its own limit costs the others nothing
\* (tx-route.ts:87-99).
THEOREM OnlyAcceptedEverReachTheDeployment == Spec => []OnlyAcceptedReachTheDeployment
<1>1. CallInvariant => OnlyAcceptedReachTheDeployment
  BY DEF CallInvariant
<1> QED BY <1>1, CallsStayHonest, PTL

-----------------------------------------------------------------------------
(* Windows. *)

LEMMA TypesHold == Spec => []TypeOK
<1>1. CallInvariant => TypeOK
  BY DEF CallInvariant
<1> QED BY <1>1, CallsStayHonest, PTL

\* A refused attempt does not move the end of a window, for any delay between
\* the reading of the time and the statement (rate-limit-store.ts:45-48).
THEOREM WindowsAlwaysEnd == Spec => WindowsEnd
<1> DEFINE Ends(key) == buckets[key] # None /\ buckets'[key] # buckets[key]
                          => \/ buckets'[key] # None /\ buckets'[key].expires = buckets[key].expires
                             \/ buckets[key].expires <= now
<1>1. ASSUME TypeOK, [Next]_vars, NEW key \in Key
      PROVE  Ends(key)
  <2> SUFFICES ASSUME buckets[key] # None, buckets'[key] # buckets[key]
               PROVE  \/ buckets'[key] # None /\ buckets'[key].expires = buckets[key].expires
                      \/ buckets[key].expires <= now
    OBVIOUS
  <2>0. buckets[key] \in Bucket /\ now \in Nat /\ None \notin Bucket
    <3>1. buckets[key] \in Bucket \cup {None} /\ now \in Nat
      BY <1>1 DEF TypeOK
    <3>2. None \notin Bucket
      BY NameAssumption, Zenon DEF Bucket
    <3> QED BY <3>1, <3>2
  <2>1. ASSUME NEW r \in Call, Charge(r)
        PROVE  \/ buckets'[key] # None /\ buckets'[key].expires = buckets[key].expires
               \/ buckets[key].expires <= now
    <3>1. PICK i \in Made(r) : Due(r)[i].key = key
      BY <1>1, <2>1, ChargeFacts
    <3> DEFINE cost == Due(r)[i].cost
               stamp == calls[r].stamp
    <3>2. cost \in Nat /\ stamp \in Nat /\ stamp <= now
      BY <1>1, <2>1, ChargeFacts, RecordFacts DEF TypeOK, CallRecord
    <3>3. buckets'[key] = Debited(key, cost, stamp)
      BY <1>1, <2>1, <3>1, ChargeFacts
    <3> HIDE DEF cost, stamp
    <3>4. CASE IsOver(buckets[key], stamp)
      <4>1. buckets[key].expires <= stamp /\ buckets[key].expires \in Nat
        BY <2>0, <3>4 DEF IsOver, Bucket
      <4> QED BY <2>0, <3>2, <4>1
    <3>5. CASE ~ IsOver(buckets[key], stamp)
      BY <1>1, <2>0, <3>2, <3>3, <3>5, DebitedIsBucket
    <3> QED BY <3>4, <3>5
  <2>2. CASE Prune
    <3>1. buckets[key].expires + Retention < now
      BY <2>2 DEF Prune, Prunable
    <3>2. buckets[key].expires \in Nat /\ Retention \in Nat
      BY <2>0, ConstantFacts DEF Bucket
    <3> QED BY <2>0, <3>1, <3>2
  <2>3. ASSUME UNCHANGED buckets PROVE FALSE
    BY <2>3
  <2>4. \A r \in Call, c \in Client : \A inputs \in Inputs : Build(r, c, inputs) => UNCHANGED buckets
    BY DEF Build, Arrive
  <2>5. \A r \in Call, c \in Client : \A hint, method \in Method \cup {None} :
          Rpc(r, c, hint, method) => UNCHANGED buckets
    BY DEF Rpc, Arrive
  <2>6. /\ \A r \in Call : ReadTime(r) => UNCHANGED buckets
        /\ Tick => UNCHANGED buckets
        /\ UNCHANGED vars => UNCHANGED buckets
    BY DEF ReadTime, Tick, vars
  <2> QED BY <1>1, <2>1, <2>2, <2>3, <2>4, <2>5, <2>6, NextIs
<1>2. TypeOK /\ [Next]_vars => [\A key \in Key : Ends(key)]_vars
  BY <1>1
<1> QED BY <1>2, TypesHold, PTL DEF Spec, WindowsEnd

-----------------------------------------------------------------------------
(* What debits cost together. *)

AreDebits(S) == IsFiniteSet(S) /\ \A d \in S : d.cost \in Nat

LEMMA CostIsSum ==
  ASSUME NEW S PROVE Cost(S) = Sum([d \in S |-> d.cost], S)
BY DEF Cost, Sum

LEMMA CostIsNat ==
  ASSUME NEW S, AreDebits(S) PROVE Cost(S) \in Nat
<1> DEFINE f == [d \in S |-> d.cost]
<1>1. \A d \in S : f[d] \in Nat
  BY DEF AreDebits
<1>2. Cost(S) = Sum(f, S)
  BY CostIsSum
<1> HIDE DEF f
<1> QED BY <1>1, <1>2, SumIsNat DEF AreDebits

LEMMA CostOfNone == Cost({}) = 0
BY CostIsSum, SumOfNone

LEMMA CostOfPart ==
  ASSUME NEW S, AreDebits(S), NEW T \in SUBSET S
  PROVE  AreDebits(T) /\ Cost(T) <= Cost(S)
<1> DEFINE f == [d \in S |-> d.cost]
           g == [d \in T |-> d.cost]
<1>1. AreDebits(T)
  BY FS_Subset DEF AreDebits
<1>2. \A d \in S : f[d] \in Nat
  BY DEF AreDebits
<1>3. \A d \in T : g[d] \in Int /\ g[d] = f[d]
  BY DEF AreDebits
<1>4. Cost(S) = Sum(f, S) /\ Cost(T) = Sum(g, T)
  BY CostIsSum
<1> HIDE DEF f, g
<1>5. Sum(f, T) <= Sum(f, S)
  BY <1>2, SumOfPart DEF AreDebits
<1>6. Sum(g, T) = Sum(f, T)
  BY <1>1, <1>3, SumDependsOnTerms DEF AreDebits
<1> QED BY <1>1, <1>4, <1>5, <1>6

LEMMA CostOfTwo ==
  ASSUME NEW S, NEW T, AreDebits(S), AreDebits(T)
  PROVE  AreDebits(S \cup T) /\ Cost(S \cup T) <= Cost(S) + Cost(T)
<1> DEFINE U == S \cup T
           f == [d \in U |-> d.cost]
           a == [d \in U |-> IF d \in S THEN d.cost ELSE 0]
           b == [d \in U |-> IF d \in T THEN d.cost ELSE 0]
           h == [d \in U |-> a[d] + b[d]]
           s == [d \in S |-> d.cost]
           t == [d \in T |-> d.cost]
<1>1. IsFiniteSet(U) /\ \A d \in U : d.cost \in Nat
  BY FS_Union DEF AreDebits
<1>2. \A d \in U : /\ a[d] \in Int /\ b[d] \in Int /\ f[d] \in Int
                   /\ h[d] = a[d] + b[d]
  BY <1>1
<1>3. \A d \in U : h[d] \in Int /\ f[d] <= h[d]
  BY <1>1
<1>4. /\ \A d \in S : s[d] \in Int /\ s[d] = a[d]
      /\ \A d \in T : t[d] \in Int /\ t[d] = b[d]
  BY DEF AreDebits
<1>5. /\ \A d \in U \ S : a[d] = 0
      /\ \A d \in U \ T : b[d] = 0
  OBVIOUS
<1>6. Cost(U) = Sum(f, U) /\ Cost(S) = Sum(s, S) /\ Cost(T) = Sum(t, T)
  BY CostIsSum
<1>7. S \in SUBSET U /\ T \in SUBSET U
  OBVIOUS
<1>8. AreDebits(U)
  BY <1>1 DEF AreDebits
<1> HIDE DEF U, f, a, b, h, s, t
<1>9. Sum(f, U) <= Sum(h, U)
  BY <1>1, <1>2, <1>3, SumIsMonotone
<1>10. Sum(h, U) = Sum(a, U) + Sum(b, U)
  BY <1>1, <1>2, SumIsLinear
<1>11. Sum(a, U) = Sum(a, S) /\ Sum(b, U) = Sum(b, T)
  BY <1>1, <1>2, <1>5, <1>7, SumIgnoresZeros
<1>12. Sum(s, S) = Sum(a, S) /\ Sum(t, T) = Sum(b, T)
  BY <1>4, SumDependsOnTerms DEF AreDebits
<1>13. Cost(U) <= Cost(S) + Cost(T)
  BY <1>6, <1>9, <1>10, <1>11, <1>12
<1> QED BY <1>8, <1>13 DEF U

LEMMA CostOfOne ==
  ASSUME NEW d, d.cost \in Nat
  PROVE  AreDebits({d}) /\ Cost({d}) = d.cost
<1> DEFINE f == [x \in {d} |-> x.cost]
<1>1. IsFiniteSet({}) /\ IsFiniteSet({} \cup {d}) /\ {} \cup {d} = {d}
  BY FS_EmptySet, FS_AddElement
<1>2. f[d] = d.cost /\ Cost({d}) = Sum(f, {d})
  BY CostIsSum
<1> HIDE DEF f
<1>3. Sum(f, {} \cup {d}) = f[d] + Sum(f, {})
  <2>1. \A x \in {} \cup {d} : f[x] \in Int
    BY <1>2
  <2> QED BY <1>1, <2>1, SumAdds
<1>4. Sum(f, {}) = 0
  BY SumOfNone
<1> QED BY <1>1, <1>2, <1>3, <1>4 DEF AreDebits

-----------------------------------------------------------------------------
(* The windows of one bucket, of which D is what it has accepted, C what it *)
(* has accepted in the window that it opened last, and s the stamp that     *)
(* opened this one.                                                         *)

Stretch == Window - MaxDelay

From(D, f) == {d \in D : f <= d.at}

Within(D, f) == {d \in D : d.at \in f..(f + Stretch - 1)}

Windows(D, C, s, bucket, time, limit) ==
  /\ C \in SUBSET D /\ s \in Int /\ s <= time
  /\ Cost(C) <= limit
  /\ \A d \in D : d.at < s + Window + MaxDelay
  /\ \A d \in D \ C : d.at <= s + MaxDelay
  /\ bucket = None => s + Window + Retention < time
  /\ bucket # None => /\ bucket.expires = s + Window
                      /\ bucket.count <= limit => Cost(C) <= bucket.count
  /\ \A f \in Int : s < f + Stretch => Cost(From(D \ C, f)) <= limit
  /\ \A f \in Int : Cost(Within(D, f)) <= 2 * limit

\* The debits of a bucket, made up to now.
AreAccepted(D, time) == AreDebits(D) /\ \A d \in D : d.at \in Nat /\ d.at <= time

\* A stretch that reaches into the last window meets no other than the one before.
LEMMA TwoWindows ==
  ASSUME NEW D, AreDebits(D), NEW C \in SUBSET D, NEW limit \in Nat, NEW f \in Int,
         \A d \in D : d.at \in Nat,
         Cost(C) <= limit, Cost(From(D \ C, f)) <= limit
  PROVE  Cost(Within(D, f)) <= 2 * limit
<1> DEFINE old == From(D \ C, f)
           both == C \cup old
           seen == Within(D, f)
<1>1. AreDebits(C) /\ AreDebits(old)
  <2>1. old \in SUBSET D
    BY DEF From
  <2> QED BY <2>1, CostOfPart
<1>2. AreDebits(both) /\ Cost(both) <= Cost(C) + Cost(old)
  BY <1>1, CostOfTwo
<1>3. seen \in SUBSET both
  BY DEF Within, From
<1>4. Cost(old) <= limit
  OBVIOUS
<1> HIDE DEF old, both, seen
<1>5. Cost(seen) <= Cost(both) /\ AreDebits(seen)
  BY <1>2, <1>3, CostOfPart
<1>6. Cost(C) \in Nat /\ Cost(old) \in Nat /\ Cost(both) \in Nat /\ Cost(seen) \in Nat
  BY <1>1, <1>2, <1>5, CostIsNat
<1>7. Cost(seen) <= 2 * limit
  BY <1>2, <1>4, <1>5, <1>6
<1> QED BY <1>7 DEF seen

LEMMA TimePasses ==
  ASSUME NEW D, NEW C, NEW s, NEW bucket, NEW limit, NEW time \in Nat, NEW later \in Nat,
         time <= later, Windows(D, C, s, bucket, time, limit)
  PROVE  Windows(D, C, s, bucket, later, limit)
<1>1. s \in Int /\ s <= later
  BY DEF Windows
<1>2. bucket = None => s + Window + Retention < later
  BY <1>1, ConstantFacts DEF Windows
<1> QED BY <1>1, <1>2 DEF Windows

LEMMA BucketPruned ==
  ASSUME NEW D, NEW C, NEW s, NEW bucket, bucket # None, NEW limit, NEW time \in Nat,
         Prunable(bucket, time), Windows(D, C, s, bucket, time, limit)
  PROVE  Windows(D, C, s, None, time, limit)
<1>1. s + Window + Retention < time
  BY DEF Windows, Prunable
<1> QED BY <1>1 DEF Windows

\* A debit in the window that is open: N is what it adds.
LEMMA WindowGoesOn ==
  ASSUME NEW D, NEW C, NEW s, NEW bucket \in Bucket, bucket # None, NEW limit \in Nat, NEW time \in Nat,
         AreAccepted(D, time), Windows(D, C, s, bucket, time, limit),
         NEW stamp \in Nat, stamp < bucket.expires, time <= stamp + MaxDelay,
         NEW d, d.cost \in Nat, d.at = time,
         NEW N, NEW after \in Bucket, after # None, after.expires = bucket.expires,
         after.count = Smaller(bucket.count + d.cost, limit + 1),
         N = IF after.count <= limit THEN {d} ELSE {}
  PROVE  Windows(D \cup N, C \cup N, s, after, time, limit)
<1> DEFINE D2 == D \cup N
           C2 == C \cup N
<1>1. /\ C \in SUBSET D /\ s \in Int /\ s <= time /\ Cost(C) <= limit
      /\ bucket.expires = s + Window
      /\ bucket.count <= limit => Cost(C) <= bucket.count
      /\ bucket.count \in Nat /\ bucket.expires \in Nat
      /\ AreDebits(D) /\ AreDebits(C) /\ AreDebits(N) /\ AreDebits(D2) /\ AreDebits(C2)
  <2>1. AreDebits(D) /\ C \in SUBSET D
    BY DEF Windows, AreAccepted
  <2>2. AreDebits({}) /\ AreDebits({d})
    BY CostOfOne, FS_EmptySet DEF AreDebits
  <2>3. AreDebits(N) /\ AreDebits(C)
    BY <2>1, <2>2, CostOfPart
  <2> QED BY <2>1, <2>3, CostOfTwo DEF Windows, Bucket
<1>2. time < s + Window + MaxDelay
  BY <1>1, ConstantFacts
<1>3. Cost(C2) <= limit /\ (after.count <= limit => Cost(C2) <= after.count)
  <2>1. CASE after.count <= limit
    <3>1. bucket.count + d.cost <= limit /\ after.count = bucket.count + d.cost
      BY <1>1, <2>1 DEF Smaller
    <3>2. N = {d} /\ Cost(N) = d.cost
      BY <2>1, CostOfOne
    <3>3. Cost(C2) <= Cost(C) + Cost(N)
      BY <1>1, CostOfTwo
    <3>4. Cost(C) \in Nat /\ Cost(C2) \in Nat
      BY <1>1, CostIsNat
    <3>5. bucket.count <= limit
      BY <1>1, <3>1
    <3> HIDE DEF C2
    <3> QED BY <1>1, <3>1, <3>2, <3>3, <3>4, <3>5
  <2>2. CASE ~ (after.count <= limit)
    <3>1. C2 = C
      BY <2>2
    <3> QED BY <1>1, <2>2, <3>1
  <2> QED BY <2>1, <2>2
<1>4. \A e \in D2 : e.at < s + Window + MaxDelay
  BY <1>2 DEF Windows
<1>5. D2 \ C2 \subseteq D \ C
  OBVIOUS
<1>6. \A e \in D2 \ C2 : e.at <= s + MaxDelay
  BY <1>5 DEF Windows
<1>7. ASSUME NEW f \in Int, s < f + Stretch
      PROVE  Cost(From(D2 \ C2, f)) <= limit
  <2> DEFINE old == From(D \ C, f)
             rest == From(D2 \ C2, f)
  <2>1. Cost(old) <= limit
    BY <1>7 DEF Windows
  <2>2. rest \in SUBSET old /\ old \in SUBSET D
    BY <1>5 DEF From
  <2> HIDE DEF old, rest
  <2>3. AreDebits(old) /\ AreDebits(rest) /\ Cost(rest) <= Cost(old)
    BY <1>1, <2>2, CostOfPart
  <2>4. Cost(old) \in Nat /\ Cost(rest) \in Nat
    BY <2>3, CostIsNat
  <2>5. Cost(rest) <= limit
    BY <2>1, <2>3, <2>4
  <2> QED BY <2>5 DEF rest
<1>8. ASSUME NEW f \in Int PROVE Cost(Within(D2, f)) <= 2 * limit
  <2>1. CASE s < f + Stretch
    <3>1. C2 \in SUBSET D2 /\ \A e \in D2 : e.at \in Nat
      BY <1>1 DEF AreAccepted
    <3> HIDE DEF C2, D2
    <3> QED BY <1>1, <1>3, <1>7, <2>1, <3>1, TwoWindows
  <2>2. CASE ~ (s < f + Stretch)
    <3>1. \A e \in N : ~ (e.at \in f..(f + Stretch - 1))
      <4>1. Stretch \in Int
        BY ConstantFacts DEF Stretch
      <4> QED BY <1>1, <2>2, <4>1
    <3>2. Within(D2, f) = Within(D, f)
      BY <3>1 DEF Within
    <3> QED BY <3>2 DEF Windows
  <2> QED BY <2>1, <2>2
<1>9. C2 \in SUBSET D2
  BY <1>1
<1> HIDE DEF C2, D2
<1>10. Windows(D2, C2, s, after, time, limit)
  BY <1>1, <1>3, <1>4, <1>6, <1>7, <1>8, <1>9 DEF Windows
<1> QED BY <1>10 DEF C2, D2

\* A debit that opens a window: what the bucket has accepted before was accepted
\* less than the delay of a statement after the end of the last window.
LEMMA WindowOpens ==
  ASSUME NEW D, NEW C, NEW s, NEW bucket, bucket # None => bucket \in Bucket,
         NEW limit \in Nat, NEW time \in Nat,
         AreAccepted(D, time), Windows(D, C, s, bucket, time, limit),
         NEW stamp \in Nat, IsOver(bucket, stamp), stamp <= time, time <= stamp + MaxDelay,
         NEW d, d.cost \in Nat, d.at = time,
         NEW N, NEW after \in Bucket, after # None, after.expires = stamp + Window,
         after.count = Smaller(d.cost, limit + 1),
         N = IF after.count <= limit THEN {d} ELSE {}
  PROVE  Windows(D \cup N, N, stamp, after, time, limit)
<1> DEFINE D2 == D \cup N
<1>1. /\ C \in SUBSET D /\ s \in Int /\ Cost(C) <= limit
      /\ Window \in Nat /\ Window > 0 /\ MaxDelay \in Nat
      /\ AreDebits(D) /\ AreDebits(C) /\ AreDebits(N) /\ AreDebits(D2)
      /\ \A e \in D : e.at \in Nat
  <2>1. AreDebits(D) /\ C \in SUBSET D
    BY DEF Windows, AreAccepted
  <2>2. AreDebits({}) /\ AreDebits({d})
    BY CostOfOne, FS_EmptySet DEF AreDebits
  <2>3. AreDebits(N) /\ AreDebits(C)
    BY <2>1, <2>2, CostOfPart
  <2>4. Window \in Nat /\ Window > 0 /\ MaxDelay \in Nat
    BY ConstantFacts, LimitAssumption
  <2> QED BY <2>1, <2>3, <2>4, CostOfTwo DEF Windows, AreAccepted
\* The new window begins no earlier than the last one ends.
<1>2. s + Window <= stamp
  <2>1. CASE bucket = None
    <3>1. s + Window + Retention < time
      BY <2>1 DEF Windows
    <3> QED BY <1>1, <3>1, ConstantFacts
  <2>2. CASE bucket # None
    BY <2>2 DEF Windows, IsOver
  <2> QED BY <2>1, <2>2
<1>3. Cost(N) <= limit /\ (after.count <= limit => Cost(N) <= after.count)
  <2>1. CASE after.count <= limit
    <3>1. d.cost <= limit /\ after.count = d.cost
      BY <2>1 DEF Smaller
    <3>2. Cost(N) = d.cost
      BY <2>1, CostOfOne
    <3> QED BY <3>1, <3>2
  <2>2. CASE ~ (after.count <= limit)
    BY <2>2, CostOfNone
  <2> QED BY <2>1, <2>2
<1>4. \A e \in D : e.at < stamp + MaxDelay
  <2>1. \A e \in D : e.at < s + Window + MaxDelay
    BY DEF Windows
  <2> QED BY <1>1, <1>2, <2>1
<1>5. \A e \in D2 : e.at < stamp + Window + MaxDelay
  <2>1. \A e \in D : e.at < stamp + Window + MaxDelay
    BY <1>1, <1>4
  <2>2. \A e \in N : e.at < stamp + Window + MaxDelay
    BY <1>1
  <2> QED BY <2>1, <2>2
<1>6. D2 \ N \subseteq D
  OBVIOUS
<1>7. \A e \in D2 \ N : e.at <= stamp + MaxDelay
  BY <1>1, <1>4, <1>6
<1>8. ASSUME NEW f \in Int, stamp < f + Stretch
      PROVE  Cost(From(D2 \ N, f)) <= limit
  <2> DEFINE rest == From(D2 \ N, f)
  <2>1. s + MaxDelay < f
    BY <1>1, <1>2, <1>8 DEF Stretch
  <2>2. \A e \in D \ C : ~ (f <= e.at)
    BY <1>1, <2>1 DEF Windows
  <2>3. rest \in SUBSET C
    BY <1>6, <2>2 DEF From
  <2> HIDE DEF rest
  <2>4. AreDebits(rest) /\ Cost(rest) <= Cost(C)
    BY <1>1, <2>3, CostOfPart
  <2>5. Cost(rest) \in Nat /\ Cost(C) \in Nat
    BY <1>1, <2>4, CostIsNat
  <2>6. Cost(rest) <= limit
    BY <1>1, <2>4, <2>5
  <2> QED BY <2>6 DEF rest
<1>9. ASSUME NEW f \in Int PROVE Cost(Within(D2, f)) <= 2 * limit
  <2>1. CASE stamp < f + Stretch
    <3>1. N \in SUBSET D2 /\ \A e \in D2 : e.at \in Nat
      BY <1>1
    <3> HIDE DEF D2
    <3> QED BY <1>1, <1>3, <1>8, <2>1, <3>1, TwoWindows
  <2>2. CASE ~ (stamp < f + Stretch)
    <3>1. \A e \in N : ~ (e.at \in f..(f + Stretch - 1))
      <4>1. Stretch \in Int
        BY ConstantFacts DEF Stretch
      <4> QED BY <2>2, <4>1
    <3>2. Within(D2, f) = Within(D, f)
      BY <3>1 DEF Within
    <3> QED BY <3>2 DEF Windows
  <2> QED BY <2>1, <2>2
<1>10. /\ N \in SUBSET D2 /\ stamp \in Int
       /\ after.expires = stamp + Window
  OBVIOUS
<1> HIDE DEF D2
<1>11. Windows(D2, N, stamp, after, time, limit)
  BY <1>3, <1>5, <1>7, <1>8, <1>9, <1>10 DEF Windows
<1> QED BY <1>11 DEF D2

-----------------------------------------------------------------------------
(* Bursts. *)

Accepted(key) == {d \in debits : d.key = key /\ d.ok}

KeyIsLimited(key) ==
  \E C, s : Windows(Accepted(key), C, s, buckets[key], now, Limit(key))

BurstInvariant == TypeOK /\ \A key \in Key : KeyIsLimited(key)

LEMMA BurstInit ==
  ASSUME Init PROVE BurstInvariant
<1>1. TypeOK
  BY CallInit DEF CallInvariant
<1>2. ASSUME NEW key \in Key PROVE KeyIsLimited(key)
  <2> DEFINE s == -1 - Window - Retention
  <2>1. /\ Accepted(key) = {} /\ buckets[key] = None /\ now = 0
    BY DEF Init, Accepted
  <2>2. s \in Int /\ s <= 0 /\ s + Window + Retention < 0
    BY ConstantFacts
  <2>3. Cost({}) = 0 /\ Limit(key) \in Nat
    BY CostOfNone, ConstantFacts
  <2>4. \A f \in Int : From({} \ {}, f) = {} /\ Within({}, f) = {}
    BY DEF From, Within
  <2> HIDE DEF s
  <2>5. Windows({}, {}, s, None, 0, Limit(key))
    <3>1. Cost({}) <= Limit(key) /\ Cost({}) <= 2 * Limit(key)
      BY <2>3
    <3>2. \A f \in Int : /\ Cost(From({} \ {}, f)) <= Limit(key)
                        /\ Cost(Within({}, f)) <= 2 * Limit(key)
      BY <2>4, <3>1, Zenon
    <3>3. \A d \in {} : FALSE
      OBVIOUS
    <3> QED BY <2>2, <3>1, <3>2, <3>3, Zenon DEF Windows
  <2> QED BY <2>1, <2>5 DEF KeyIsLimited
<1> QED BY <1>1, <1>2 DEF BurstInvariant

LEMMA AcceptedFacts ==
  ASSUME TypeOK, NEW key \in Key PROVE AreAccepted(Accepted(key), now)
<1>1. IsFiniteSet(Accepted(key))
  <2>1. Accepted(key) \subseteq debits
    BY DEF Accepted
  <2> QED BY <2>1, FS_Subset DEF TypeOK
<1>2. \A d \in Accepted(key) : d.cost \in Nat /\ d.at \in Nat /\ d.at <= now
  BY DEF Accepted, TypeOK
<1> QED BY <1>1, <1>2 DEF AreAccepted, AreDebits

\* A statement debits a bucket of its own window, or opens the next.
LEMMA DebitIsLimited ==
  ASSUME TypeOK, TypeOK', NEW r \in Call, Charge(r), NEW i \in Made(r),
         NEW key \in Key, key = Due(r)[i].key, KeyIsLimited(key)
  PROVE  KeyIsLimited(key)'
<1> DEFINE D == Accepted(key)
           d == Record(r, i)
           stamp == calls[r].stamp
           bucket == buckets[key]
           after == buckets'[key]
           limit == Limit(key)
           N == IF after.count <= limit THEN {d} ELSE {}
<1>1. PICK C, s : Windows(D, C, s, bucket, now, limit)
  BY DEF KeyIsLimited
<1>2. /\ limit \in Nat /\ now \in Nat /\ AreAccepted(D, now)
      /\ stamp \in Nat /\ stamp <= now /\ now <= stamp + MaxDelay
  <2>1. calls[r].is = "charging" /\ calls[r] \in CallRecord
    BY ChargeFacts DEF TypeOK
  <2> QED BY <2>1, ConstantFacts, AcceptedFacts DEF TypeOK, CallRecord
<1>3. d.cost \in Nat /\ d.at = now /\ d.cost = Due(r)[i].cost /\ d.key = key /\ (d.ok <=> Ok(r, i))
  BY RecordFacts
<1>4. after = Debited(key, d.cost, stamp)
  BY <1>3, ChargeFacts
<1>5. after.count <= limit <=> Ok(r, i)
  BY <1>3, <1>4 DEF Ok, Accepts
<1>6. Accepted(key)' = D \cup N
  <2>1. debits' = debits \cup {Record(r, j) : j \in Made(r)}
    BY ChargeFacts
  <2>2. \A j \in Made(r) : Record(r, j).key = key => j = i
    BY RecordFacts, ChargeFacts, StatementFacts
  <2> QED BY <1>3, <1>5, <2>1, <2>2 DEF Accepted
<1>7. /\ None \notin Bucket /\ (bucket # None => bucket \in Bucket)
      /\ after \in Bucket /\ after # None
  <2>1. None \notin Bucket
    BY NameAssumption, Zenon DEF Bucket
  <2>2. bucket \in Bucket \cup {None}
    BY DEF TypeOK
  <2>3. after \in Bucket
    BY <1>2, <1>3, <1>4, DebitedIsBucket
  <2> QED BY <2>1, <2>2, <2>3
<1>8. now' = now
  BY ChargeFacts
<1>9. CASE IsOver(bucket, stamp)
  <2>1. after.expires = stamp + Window /\ after.count = Smaller(d.cost, limit + 1)
    BY <1>2, <1>3, <1>4, <1>9, DebitedIsBucket
  <2>2. N = IF after.count <= limit THEN {d} ELSE {}
    OBVIOUS
  <2> HIDE DEF D, d, stamp, bucket, after, limit, N
  <2>3. Windows(D \cup N, N, stamp, after, now, limit)
    BY <1>1, <1>2, <1>3, <1>7, <1>9, <2>1, <2>2, WindowOpens
  <2>4. Windows(Accepted(key)', N, stamp, buckets'[key], now', Limit(key))
    BY <1>6, <1>8, <2>3 DEF after, limit
  <2> QED BY <2>4 DEF KeyIsLimited
<1>10. CASE ~ IsOver(bucket, stamp)
  <2>1. /\ bucket \in Bucket /\ bucket # None /\ ~ (bucket.expires <= stamp)
        /\ after.expires = bucket.expires
        /\ after.count = Smaller(bucket.count + d.cost, limit + 1)
    BY <1>2, <1>3, <1>4, <1>7, <1>10, DebitedIsBucket
  <2>2. N = IF after.count <= limit THEN {d} ELSE {}
    OBVIOUS
  <2> HIDE DEF D, d, stamp, bucket, after, limit, N
  <2>3. stamp < bucket.expires
    BY <1>2, <2>1 DEF Bucket
  <2>4. Windows(D \cup N, C \cup N, s, after, now, limit)
    BY <1>1, <1>2, <1>3, <1>7, <2>1, <2>2, <2>3, WindowGoesOn
  <2>5. Windows(Accepted(key)', C \cup N, s, buckets'[key], now', Limit(key))
    BY <1>6, <1>8, <2>4 DEF after, limit
  <2> QED BY <2>5 DEF KeyIsLimited
<1> QED BY <1>9, <1>10

LEMMA BurstStep ==
  ASSUME BurstInvariant, [Next]_vars
  PROVE  BurstInvariant'
<1>1. TypeOK /\ TypeOK'
  BY TypeStep DEF BurstInvariant
<1>2. SUFFICES ASSUME NEW key \in Key PROVE KeyIsLimited(key)'
  BY <1>1 DEF BurstInvariant
<1>3. KeyIsLimited(key)
  BY DEF BurstInvariant
<1>4. PICK C, s : Windows(Accepted(key), C, s, buckets[key], now, Limit(key))
  BY <1>3 DEF KeyIsLimited
<1>5. ASSUME Accepted(key)' = Accepted(key), now' \in Nat, now <= now', buckets'[key] = buckets[key]
      PROVE  KeyIsLimited(key)'
  <2>1. now \in Nat
    BY <1>1 DEF TypeOK
  <2>2. Windows(Accepted(key), C, s, buckets[key], now', Limit(key))
    BY <1>4, <1>5, <2>1, TimePasses
  <2>3. Windows(Accepted(key)', C, s, buckets'[key], now', Limit(key))
    BY <1>5, <2>2
  <2> QED BY <2>3 DEF KeyIsLimited
<1>6. ASSUME UNCHANGED <<now, buckets, debits>> PROVE KeyIsLimited(key)'
  <2>1. Accepted(key)' = Accepted(key) /\ now' \in Nat /\ now <= now' /\ buckets'[key] = buckets[key]
    BY <1>1, <1>6 DEF Accepted, TypeOK
  <2> QED BY <1>5, <2>1
<1>7. ASSUME NEW r \in Call, Charge(r) PROVE KeyIsLimited(key)'
  <2>1. CASE \E i \in Made(r) : Due(r)[i].key = key
    BY <1>1, <1>3, <1>7, <2>1, DebitIsLimited
  <2>2. CASE \A i \in Made(r) : Due(r)[i].key # key
    <3>1. buckets'[key] = buckets[key] /\ now' = now
          /\ debits' = debits \cup {Record(r, i) : i \in Made(r)}
      BY <1>1, <1>7, <2>2, ChargeFacts
    <3>2. \A i \in Made(r) : Record(r, i).key # key
      BY <1>1, <1>7, <2>2, RecordFacts
    <3>3. Accepted(key)' = Accepted(key)
      BY <3>1, <3>2 DEF Accepted
    <3>4. now' \in Nat /\ now <= now'
      BY <1>1, <3>1 DEF TypeOK
    <3> QED BY <1>5, <3>1, <3>3, <3>4
  <2> QED BY <2>1, <2>2
<1>8. CASE Prune
  <2>1. Accepted(key)' = Accepted(key) /\ now' = now /\ now \in Nat
    BY <1>1, <1>8 DEF Prune, Accepted, TypeOK
  <2>2. CASE buckets'[key] = buckets[key]
    <3>1. now <= now' /\ now' \in Nat
      BY <2>1
    <3> QED BY <1>5, <2>1, <2>2, <3>1
  <2>3. CASE buckets'[key] # buckets[key]
    <3>1. buckets[key] # None /\ Prunable(buckets[key], now) /\ buckets'[key] = None
      BY <1>8, <2>3 DEF Prune
    <3>2. Windows(Accepted(key), C, s, None, now, Limit(key))
      BY <1>4, <2>1, <3>1, BucketPruned
    <3>3. Windows(Accepted(key)', C, s, buckets'[key], now', Limit(key))
      BY <2>1, <3>1, <3>2
    <3> QED BY <3>3 DEF KeyIsLimited
  <2> QED BY <2>2, <2>3
<1>9. CASE Tick
  <2>1. Accepted(key)' = Accepted(key) /\ buckets'[key] = buckets[key] /\ now' = now + 1
    BY <1>9 DEF Tick, Accepted
  <2>2. now \in Nat
    BY <1>1 DEF TypeOK
  <2>3. now' \in Nat /\ now <= now'
    BY <2>1, <2>2
  <2> QED BY <1>5, <2>1, <2>3
<1>10. \A r \in Call, c \in Client :
         /\ \A inputs \in Inputs : Build(r, c, inputs) => UNCHANGED <<now, buckets, debits>>
         /\ \A hint, method \in Method \cup {None} :
              Rpc(r, c, hint, method) => UNCHANGED <<now, buckets, debits>>
  BY DEF Build, Rpc, Arrive
<1>11. /\ \A r \in Call : ReadTime(r) => UNCHANGED <<now, buckets, debits>>
       /\ UNCHANGED vars => UNCHANGED <<now, buckets, debits>>
  BY DEF ReadTime, vars
<1> QED BY <1>6, <1>7, <1>8, <1>9, <1>10, <1>11, NextIs

\* A stretch shorter than a window, less what a statement may be late, is charged
\* no more than twice the limit of a bucket, however many requests read old
\* times and however many buckets are pruned in between (rate-limit-store.ts:40-49).
THEOREM BurstsAreBounded == Spec => []BurstIsBounded
<1>1. Init => BurstInvariant
  BY BurstInit
<1>2. BurstInvariant /\ [Next]_vars => BurstInvariant'
  BY BurstStep
<1>3. BurstInvariant => BurstIsBounded
  <2> SUFFICES ASSUME BurstInvariant, NEW key \in Key, NEW from \in 0..now
               PROVE  Cost({d \in debits : d.key = key /\ d.ok
                             /\ d.at \in from..(from + Window - MaxDelay - 1)}) <= 2 * Limit(key)
    BY DEF BurstIsBounded
  <2>1. from \in Int
    OBVIOUS
  <2>2. PICK C, s : Windows(Accepted(key), C, s, buckets[key], now, Limit(key))
    BY DEF BurstInvariant, KeyIsLimited
  <2>3. Cost(Within(Accepted(key), from)) <= 2 * Limit(key)
    BY <2>1, <2>2 DEF Windows
  <2>4. from + Stretch - 1 = from + Window - MaxDelay - 1
    BY <2>1, ConstantFacts DEF Stretch
  <2>5. Within(Accepted(key), from)
          = {d \in debits : d.key = key /\ d.ok
                             /\ d.at \in from..(from + Window - MaxDelay - 1)}
    BY <2>4 DEF Within, Accepted
  <2> QED BY <2>3, <2>5
<1> QED BY <1>1, <1>2, <1>3, PTL DEF Spec
=============================================================================
