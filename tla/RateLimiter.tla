---------------------------- MODULE RateLimiter ----------------------------
(***************************************************************************)
(* Request limits of the Epora application (dApp/lib/http): fixed windows  *)
(* kept in the database, shared by all instances, and the two kinds of     *)
(* routes that charge them.                                                *)
(*                                                                         *)
(* A charge is one statement, but it carries the time that the instance    *)
(* read before it sent it, which may be old by the time it is executed.    *)
(*                                                                         *)
(* Rule_Mistake is what Rule would be with that mistake in the code; no    *)
(* action uses it.                                                         *)
(***************************************************************************)
EXTENDS Naturals, Sequences, FiniteSets, Functions

CONSTANTS
  Call,          \* requests, each made once
  Client,        \* what clientKey tells apart
  Method,        \* RPC methods with a limit of their own
  None,          \* no such method, no bucket
  ClientBuilds, AllBuilds,   \* limits of builds
  ClientInputs, AllInputs,   \* limits of the input work of builds
  ClientRpcs, MethodRpcs,    \* limits of the RPC proxy
  Window,        \* length of all windows
  Retention,     \* how long an expired bucket is kept
  Inputs,        \* bound: how many inputs a build may have
  MaxDelay,      \* bound: between the reading of the time and the statement
  MaxTime        \* bound: the clock

ASSUME LimitAssumption ==
  {ClientBuilds, AllBuilds, ClientInputs, AllInputs, ClientRpcs, MethodRpcs, Window}
    \subseteq Nat \ {0}
ASSUME BoundAssumption == {Retention, MaxDelay, MaxTime} \cup Inputs \subseteq Nat
\* The names of buckets, and of what is none of them.
ASSUME NameAssumption ==
  /\ "all" \notin Client
  /\ {"build", "inputs", "rpc", None} \cap Method = {}
  /\ None \notin {"build"} \cup [count : Nat, expires : Nat]
ASSUME DelayAssumption == MaxDelay <= Retention + 1

VARIABLES
  now,
  buckets,   \* rows of ApiRateLimit, None where there is none
  calls,     \* what each request still has to pay, and the time it has read
  debits     \* history: the statements executed

vars == <<now, buckets, calls, debits>>

All == "all"

Key == {<<kind, who>> : kind \in {"build", "inputs"}, who \in Client \cup {All}}
         \cup {<<kind, who>> : kind \in {"rpc"} \cup Method, who \in Client}

Limit(key) ==
  IF key[2] = All THEN IF key[1] = "build" THEN AllBuilds ELSE AllInputs
  ELSE IF key[1] = "build" THEN ClientBuilds
  ELSE IF key[1] = "inputs" THEN ClientInputs
  ELSE IF key[1] = "rpc" THEN ClientRpcs ELSE MethodRpcs

\* A debit of one bucket; binding if its refusal refuses the request.
Pays(key, cost, binding) == [key |-> key, cost |-> cost, binding |-> binding]

Smaller(a, b) == IF a <= b THEN a ELSE b

-----------------------------------------------------------------------------
(* What the routes charge: statements in their order, each of one or two *)
(* debits, of which the second is made only if the first is accepted.    *)

BuildPlan_DeploymentFirst(c, inputs) ==
  <<<<Pays(<<"build", All>>, 1, TRUE)>>, <<Pays(<<"build", c>>, 1, TRUE)>>>>

\* The caller's own work is capped at the caller's limit, the deployment's never.
BuildPlan(c, inputs) ==
  <<<<Pays(<<"build", c>>, 1, TRUE)>>, <<Pays(<<"build", All>>, 1, TRUE)>>>>
  \o IF inputs = 0 THEN <<>>
     ELSE <<<<Pays(<<"inputs", c>>, Smaller(inputs, ClientInputs), TRUE)>>,
            <<Pays(<<"inputs", All>>, inputs, TRUE)>>>>

RpcPlan_TrustsHint(c, hint, method) ==
  IF hint = None
  THEN <<<<Pays(<<"rpc", c>>, 1, TRUE)>>>>
       \o IF method = None THEN <<>> ELSE <<<<Pays(<<method, c>>, 1, TRUE)>>>>
  ELSE <<<<Pays(<<"rpc", c>>, 1, TRUE), Pays(<<hint, c>>, 1, TRUE)>>>>

\* The header names the method before the body is read.  A debit that it adds
\* binds only if the body names the same method; otherwise that one pays too.
RpcPlan(c, hint, method) ==
  <<IF hint = None THEN <<Pays(<<"rpc", c>>, 1, TRUE)>>
    ELSE <<Pays(<<"rpc", c>>, 1, TRUE), Pays(<<hint, c>>, 1, hint = method)>>>>
  \o IF method \in {None, hint} THEN <<>> ELSE <<<<Pays(<<method, c>>, 1, TRUE)>>>>
-----------------------------------------------------------------------------
(* One debit. *)

IsOver(bucket, stamp) == bucket = None \/ bucket.expires <= stamp

Debited_Sliding(key, cost, stamp) ==
  [count |-> IF IsOver(buckets[key], stamp) THEN Smaller(cost, Limit(key) + 1)
             ELSE Smaller(buckets[key].count + cost, Limit(key) + 1),
   expires |-> stamp + Window]

\* The count stops just above the limit and the end of a window stays.
Debited(key, cost, stamp) ==
  IF IsOver(buckets[key], stamp)
  THEN [count |-> Smaller(cost, Limit(key) + 1), expires |-> stamp + Window]
  ELSE [buckets[key] EXCEPT !.count = Smaller(@ + cost, Limit(key) + 1)]

Accepts_OneMore(key, cost, stamp) == Debited(key, cost, stamp).count <= Limit(key) + 1

Accepts(key, cost, stamp) == Debited(key, cost, stamp).count <= Limit(key)

-----------------------------------------------------------------------------
New == [client |-> None, method |-> None, inputs |-> 0, due |-> <<>>, stamp |-> 0, is |-> "new"]

Init ==
  /\ now = 0
  /\ buckets = [key \in Key |-> None]
  /\ calls = [r \in Call |-> New]
  /\ debits = {}

Arrive(r, c, method, inputs, plan) ==
  /\ calls[r].is = "new"
  /\ calls' = [calls EXCEPT ![r] = [client |-> c, method |-> method, inputs |-> inputs,
                                    due |-> plan, stamp |-> now, is |-> "charging"]]
  /\ UNCHANGED <<now, buckets, debits>>

Build(r, c, inputs) == Arrive(r, c, "build", inputs, BuildPlan(c, inputs))

Rpc(r, c, hint, method) == Arrive(r, c, method, 0, RpcPlan(c, hint, method))

\* Date.now(), before each statement; before the first one it is the arrival.
ReadTime(r) ==
  /\ calls[r].is = "reading"
  /\ calls' = [calls EXCEPT ![r].stamp = now, ![r].is = "charging"]
  /\ UNCHANGED <<now, buckets, debits>>

\* The debits of one statement that are made, and those of them accepted.
Charge(r) ==
  LET call == calls[r]
      due == Head(call.due)
      ok(i) == Accepts(due[i].key, due[i].cost, call.stamp)
      made == {i \in DOMAIN due : \A j \in 1..(i - 1) : ok(j)}
      refused == \E i \in made : due[i].binding /\ ~ ok(i)
  IN /\ call.is = "charging"
     /\ buckets' = [key \in Key |->
          IF \E i \in made : due[i].key = key
          THEN LET i == CHOOSE i \in made : due[i].key = key
               IN Debited(key, due[i].cost, call.stamp)
          ELSE buckets[key]]
     /\ debits' = debits \cup {[call |-> r, key |-> due[i].key, cost |-> due[i].cost,
                                at |-> now, ok |-> ok(i)] : i \in made}
     /\ calls' = [calls EXCEPT ![r].due = Tail(@), ![r].stamp = 0,
          ![r].is = IF refused THEN "refused"
                    ELSE IF Len(call.due) = 1 THEN "served" ELSE "reading"]
     /\ UNCHANGED now

Prunable(bucket, stamp) == bucket.expires + Retention < stamp

\* Sampled after a charge, of every bucket that has long expired.
Prune ==
  /\ \E key \in Key : buckets[key] # None /\ Prunable(buckets[key], now)
  /\ buckets' = [key \in Key |-> IF buckets[key] # None /\ Prunable(buckets[key], now)
                                 THEN None ELSE buckets[key]]
  /\ UNCHANGED <<now, calls, debits>>

Tick ==
  /\ now < MaxTime
  /\ \A r \in Call : calls[r].is = "charging" => now < calls[r].stamp + MaxDelay
  /\ now' = now + 1
  /\ UNCHANGED <<buckets, calls, debits>>

Next ==
  \/ \E r \in Call, c \in Client :
       \/ \E inputs \in Inputs : Build(r, c, inputs)
       \/ \E hint, method \in Method \cup {None} : Rpc(r, c, hint, method)
  \/ \E r \in Call : ReadTime(r) \/ Charge(r)
  \/ Prune
  \/ Tick

Spec == Init /\ [][Next]_vars
-----------------------------------------------------------------------------
Cost(S) == FoldFunctionOnSet(+, 0, [d \in S |-> d.cost], S)

\* A window admits its limit, and a stretch shorter than one window, less what a
\* statement may be late, meets two windows: however concurrent requests read
\* old times, no more than twice the limit is accepted in it
\* (rate-limit-store.ts:40-49).
BurstIsBounded ==
  \A key \in Key, from \in 0..now :
    Cost({d \in debits : d.key = key /\ d.ok
                          /\ d.at \in from..(from + Window - MaxDelay - 1)}) <= 2 * Limit(key)

\* What is served has been charged in full, whatever the header announced
\* (app/api/mesh/route.ts:71-72, tx-route.ts:105-118).
ServedIsPaid ==
  \A r \in Call : calls[r].is = "served" =>
    LET paid(key, cost) == \E d \in debits : d.call = r /\ d.key = key /\ d.cost = cost /\ d.ok
        c == calls[r].client
    IN IF calls[r].method = "build"
       THEN /\ paid(<<"build", c>>, 1) /\ paid(<<"build", All>>, 1)
            /\ calls[r].inputs > 0 => paid(<<"inputs", All>>, calls[r].inputs)
       ELSE /\ paid(<<"rpc", c>>, 1)
            /\ calls[r].method # None => paid(<<calls[r].method, c>>, 1)

\* Whoever is refused at its own limit costs the others nothing: only what its
\* own bucket accepted reaches the deployment's (tx-route.ts:87-99).
OnlyAcceptedReachTheDeployment ==
  \A d \in debits : d.key[2] = All =>
    \E e \in debits : /\ e.call = d.call /\ e.ok
                      /\ e.key = <<d.key[1], calls[d.call].client>>

\* Refused attempts do not prolong the wait: the end of a window stays until
\* the time has passed it (rate-limit-store.ts:45-48).
WindowsEnd ==
  [][\A key \in Key : buckets[key] # None /\ buckets'[key] # buckets[key]
       => \/ buckets'[key] # None /\ buckets'[key].expires = buckets[key].expires
          \/ buckets[key].expires <= now]_vars
=============================================================================
