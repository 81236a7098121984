---------------------------- MODULE ProposalAuth ----------------------------
(***************************************************************************)
(* Signing in to the proposals of the Epora application                    *)
(* (dApp/lib/proposals/auth.ts, auth-challenge-store.ts and the routes     *)
(* under dApp/app/api/proposals/auth): a challenge is issued for an        *)
(* address, signed by the wallet, and spent for one session.               *)
(*                                                                         *)
(* Tokens and sessions are signed by the server and cannot be made up, and *)
(* a signature of a token proves the key of its address; so a token is its *)
(* challenge, and an attempt presents one that was issued.                 *)
(*                                                                         *)
(* Rule_Mistake is what Rule would be with that mistake in the code; no    *)
(* action uses it.                                                         *)
(***************************************************************************)
EXTENDS Naturals, FiniteSets

CONSTANTS
  Address,
  Challenge,    \* challenge ids, each drawn once
  Attempt,      \* requests that present a signed challenge
  None,
  NonceTtl, SessionTtl,
  MaxDelay,     \* bound: between the reading of the time and the statement
  MaxTime       \* bound: the clock

ASSUME NumberAssumption == {NonceTtl, SessionTtl, MaxDelay, MaxTime} \subseteq Nat

Token == [address : Address, exp : Nat]
Row == [address : Address, expiresAt : Nat, consumedAt : Nat \cup {None}]
Spent == {"consumed", "remembered", "signed in"}
AttemptState == [
  is : {"fresh", "verified", "consuming", "refused", "lost"} \cup Spent,
  challenge : Challenge \cup {None}, address : Address \cup {None}, stamp : Nat]

ASSUME NoneAssumption == None \notin Address \cup Challenge \cup Nat \cup Token \cup Row

VARIABLES
  now,
  tokens,      \* what each challenge's token says, None before it is made
  issues,      \* how far the request for each challenge has come
  rows,        \* rows of ProposalAuthChallenge
  attempts,    \* requests between their checks, the consumption and the cookie
  registered,  \* rows of SignerRegistration
  sessions     \* the cookies handed out

vars == <<now, tokens, issues, rows, attempts, registered, sessions>>

Fresh == [is |-> "fresh", challenge |-> None, address |-> None, stamp |-> 0]

Init ==
  /\ now = 0
  /\ tokens = [c \in Challenge |-> None]
  /\ issues = [c \in Challenge |-> "none"]
  /\ rows = [c \in Challenge |-> None]
  /\ attempts = [r \in Attempt |-> Fresh]
  /\ registered = [a \in Address |-> None]
  /\ sessions = {}
-----------------------------------------------------------------------------
(* Issuing: the token, a clean-up of expired rows, the row, the answer. *)

IssueNonce(c, a) ==
  /\ issues[c] = "none"
  /\ tokens' = [tokens EXCEPT ![c] = [address |-> a, exp |-> now + NonceTtl]]
  /\ issues' = [issues EXCEPT ![c] = "cleaning"]
  /\ UNCHANGED <<now, rows, attempts, registered, sessions>>

IsExpired(row) == row.expiresAt <= now

CleanUp(c) ==
  /\ issues[c] = "cleaning"
  /\ rows' = [d \in Challenge |-> IF rows[d] # None /\ IsExpired(rows[d]) THEN None ELSE rows[d]]
  /\ issues' = [issues EXCEPT ![c] = "storing"]
  /\ UNCHANGED <<now, tokens, attempts, registered, sessions>>

Store(c) ==
  /\ issues[c] = "storing"
  /\ rows' = [rows EXCEPT ![c] = [address |-> tokens[c].address, expiresAt |-> tokens[c].exp,
                                  consumedAt |-> None]]
  /\ issues' = [issues EXCEPT ![c] = "issued"]
  /\ UNCHANGED <<now, tokens, attempts, registered, sessions>>
-----------------------------------------------------------------------------
(* Presenting: the token and the signature are checked, then the row is *)
(* consumed by one conditional statement, then the cookie is made.      *)

\* The wallet, or the network, may present the same challenge any number of times.
Verify(r, c) ==
  /\ attempts[r].is = "fresh"
  /\ issues[c] = "issued"
  /\ tokens[c].exp >= now
  /\ attempts' = [attempts EXCEPT ![r] = [is |-> "verified", challenge |-> c,
                                          address |-> tokens[c].address, stamp |-> 0]]
  /\ UNCHANGED <<now, tokens, issues, rows, registered, sessions>>

\* The time is read before the statement is sent.
ReadTime(r) ==
  /\ attempts[r].is = "verified"
  /\ attempts' = [attempts EXCEPT ![r].is = "consuming", ![r].stamp = now]
  /\ UNCHANGED <<now, tokens, issues, rows, registered, sessions>>

Consumable_Replayed(row, attempt) ==
  row # None /\ row.address = attempt.address /\ row.expiresAt > attempt.stamp

Consumable_AnyTime(row, attempt) ==
  row # None /\ row.address = attempt.address /\ row.consumedAt = None

Consumable(row, attempt) ==
  /\ row # None /\ row.address = attempt.address
  /\ row.expiresAt > attempt.stamp
  /\ row.consumedAt = None

Consume(r) ==
  LET c == attempts[r].challenge
  IN /\ attempts[r].is = "consuming"
     /\ IF Consumable(rows[c], attempts[r])
        THEN /\ rows' = [rows EXCEPT ![c].consumedAt = attempts[r].stamp]
             /\ attempts' = [attempts EXCEPT ![r].is = "consumed"]
        ELSE /\ attempts' = [attempts EXCEPT ![r].is = "refused"]
             /\ UNCHANGED rows
     /\ UNCHANGED <<now, tokens, issues, registered, sessions>>

\* A record of the sign-in that may fail without harm.
Remembered(a) == [first |-> IF registered[a] = None THEN now ELSE registered[a].first,
                  last |-> now]

Remember(r) ==
  /\ attempts[r].is = "consumed"
  /\ \/ registered' = [registered EXCEPT ![attempts[r].address] =
                         Remembered(attempts[r].address)]
     \/ UNCHANGED registered
  /\ attempts' = [attempts EXCEPT ![r].is = "remembered"]
  /\ UNCHANGED <<now, tokens, issues, rows, sessions>>

HandOut(r) ==
  /\ attempts[r].is = "remembered"
  /\ sessions' = sessions \cup {[by |-> r, challenge |-> attempts[r].challenge,
                                 address |-> attempts[r].address, at |-> now,
                                 exp |-> now + SessionTtl]}
  /\ attempts' = [attempts EXCEPT ![r].is = "signed in"]
  /\ UNCHANGED <<now, tokens, issues, rows, registered>>

\* The server dies: a consumed challenge stays consumed.
Crash(r) ==
  /\ attempts[r].is \in {"verified", "consuming", "consumed", "remembered"}
  /\ attempts' = [attempts EXCEPT ![r].is = "lost"]
  /\ UNCHANGED <<now, tokens, issues, rows, registered, sessions>>

Tick ==
  /\ now < MaxTime
  /\ \A r \in Attempt : attempts[r].is = "consuming" => now < attempts[r].stamp + MaxDelay
  /\ now' = now + 1
  /\ UNCHANGED <<tokens, issues, rows, attempts, registered, sessions>>

Next ==
  \/ \E c \in Challenge :
       \/ \E a \in Address : IssueNonce(c, a)
       \/ CleanUp(c)
       \/ Store(c)
  \/ \E r \in Attempt :
       \/ \E c \in Challenge : Verify(r, c)
       \/ ReadTime(r) \/ Consume(r) \/ Remember(r) \/ HandOut(r) \/ Crash(r)
  \/ Tick

Spec == Init /\ [][Next]_vars
-----------------------------------------------------------------------------
TypeOK ==
  /\ now \in Nat
  /\ tokens \in [Challenge -> Token \cup {None}]
  /\ issues \in [Challenge -> {"none", "cleaning", "storing", "issued"}]
  /\ rows \in [Challenge -> Row \cup {None}]
  /\ attempts \in [Attempt -> AttemptState]
  /\ registered \in [Address -> [first : Nat, last : Nat] \cup {None}]
  /\ sessions \subseteq [by : Attempt, challenge : Challenge, address : Address,
                         at : Nat, exp : Nat]

\* However often and however concurrently a signed challenge is presented, and
\* whatever clean-ups and crashes come between, it opens one session at most
\* (auth-challenge-store.ts:24-27).
OncePerChallenge ==
  \A s, t \in sessions : s.challenge = t.challenge => s = t

\* A challenge that has expired is of no use, even to an attempt that was
\* checked in time: it is spent at most the delay of one statement late.
SpentInTime ==
  [][\A r \in Attempt : attempts[r].is = "consuming" /\ attempts'[r].is = "consumed"
       => now < tokens[attempts[r].challenge].exp + MaxDelay]_vars
=============================================================================
