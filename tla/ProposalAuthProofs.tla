------------------------- MODULE ProposalAuthProofs -------------------------
(* Proofs about ProposalAuth, for any number of addresses, challenges and *)
(* attempts, any lifetimes and any delay.                                 *)
EXTENDS ProposalAuth, TLAPS

\* What a spent challenge leaves behind: its row is consumed or cleaned up, and
\* no request will store it again.
SpentStaysSpent ==
  \A r \in Attempt : attempts[r].is \in Spent =>
    /\ attempts[r].challenge \in Challenge
    /\ issues[attempts[r].challenge] = "issued"
    /\ rows[attempts[r].challenge] # None => rows[attempts[r].challenge].consumedAt # None

SpentByOne ==
  \A r, q \in Attempt :
    attempts[r].is \in Spent /\ attempts[q].is \in Spent
      /\ attempts[r].challenge = attempts[q].challenge => r = q

SessionsAreSpent ==
  /\ \A s \in sessions : /\ s.by \in Attempt
                         /\ attempts[s.by].is = "signed in"
                         /\ attempts[s.by].challenge = s.challenge
  /\ \A s, t \in sessions : s.by = t.by => s = t

PresentedWasIssued ==
  \A r \in Attempt : attempts[r].is \in {"verified", "consuming"} =>
    /\ attempts[r].challenge \in Challenge
    /\ issues[attempts[r].challenge] = "issued"

AuthInv ==
  /\ attempts \in [Attempt -> AttemptState]
  /\ rows \in [Challenge -> Row \cup {None}]
  /\ issues \in [Challenge -> {"none", "cleaning", "storing", "issued"}]
  /\ tokens \in [Challenge -> Token \cup {None}]
  /\ \A c \in Challenge : issues[c] # "none" => tokens[c] # None
  /\ now \in Nat
  /\ SpentStaysSpent
  /\ SpentByOne
  /\ SessionsAreSpent
  /\ PresentedWasIssued

LEMMA InitAuth == Init => AuthInv
<1> SUFFICES ASSUME Init PROVE AuthInv
  OBVIOUS
<1>1. /\ attempts \in [Attempt -> AttemptState]
      /\ \A r \in Attempt : attempts[r].is = "fresh"
  BY DEF Init, Fresh, AttemptState
<1>2. SpentStaysSpent /\ SpentByOne /\ SessionsAreSpent /\ PresentedWasIssued
  BY <1>1 DEF Init, Spent, SpentStaysSpent, SpentByOne, SessionsAreSpent, PresentedWasIssued
<1> QED BY <1>1, <1>2 DEF Init, AuthInv

\* What a step does to one attempt, when it leaves its challenge alone.
LEMMA StepOfAttempt ==
  ASSUME AuthInv, NEW r \in Attempt, NEW to \in {"consuming", "consumed", "refused", "remembered",
                                                "signed in", "lost"},
         \/ attempts' = [attempts EXCEPT ![r].is = to]
         \/ attempts' = [attempts EXCEPT ![r].is = to, ![r].stamp = now]
  PROVE  /\ attempts' \in [Attempt -> AttemptState]
         /\ attempts'[r].is = to
         /\ attempts'[r].challenge = attempts[r].challenge
         /\ \A q \in Attempt : q # r => attempts'[q] = attempts[q]
<1>1. attempts \in [Attempt -> AttemptState] /\ attempts[r] \in AttemptState /\ now \in Nat
  BY DEF AuthInv
<1>2. attempts'[r] = [attempts[r] EXCEPT !.is = to]
      \/ attempts'[r] = [attempts[r] EXCEPT !.is = to, !.stamp = now]
  BY <1>1
<1>3. attempts'[r] \in AttemptState /\ attempts'[r].is = to
      /\ attempts'[r].challenge = attempts[r].challenge
  BY <1>1, <1>2 DEF AttemptState, Spent
<1>4. \A q \in Attempt : q # r => attempts'[q] = attempts[q]
  BY <1>1
<1>5. attempts' \in [Attempt -> AttemptState]
  <2>1. attempts' = [q \in Attempt |-> attempts'[q]]
    BY <1>1
  <2>2. \A q \in Attempt : attempts'[q] \in AttemptState
    BY <1>1, <1>3, <1>4
  <2> QED BY <2>1, <2>2
<1> QED BY <1>3, <1>4, <1>5

\* A step of one attempt that spends nothing and hands out nothing.
LEMMA StepThatSpendsNothing ==
  ASSUME AuthInv, NEW r \in Attempt,
         UNCHANGED <<now, tokens, issues, rows, sessions>>,
         attempts' \in [Attempt -> AttemptState],
         \A q \in Attempt : q # r => attempts'[q] = attempts[q],
         attempts'[r].is \in Spent =>
           attempts[r].is \in Spent /\ attempts'[r].challenge = attempts[r].challenge,
         attempts'[r].is \in {"verified", "consuming"} =>
           attempts'[r].challenge \in Challenge /\ issues[attempts'[r].challenge] = "issued",
         attempts[r].is # "signed in"
  PROVE  AuthInv'
<1>1. \A q \in Attempt : attempts'[q].is \in Spent =>
        attempts[q].is \in Spent /\ attempts'[q].challenge = attempts[q].challenge
  OBVIOUS
<1>2. SpentStaysSpent'
  BY <1>1 DEF AuthInv, SpentStaysSpent
<1>3. SpentByOne'
  BY <1>1 DEF AuthInv, SpentByOne
<1>4. PresentedWasIssued'
  <2> SUFFICES ASSUME NEW q \in Attempt, attempts'[q].is \in {"verified", "consuming"}
               PROVE attempts'[q].challenge \in Challenge
                     /\ issues[attempts'[q].challenge] = "issued"
    BY DEF PresentedWasIssued
  <2> QED BY DEF AuthInv, PresentedWasIssued
<1>5. SessionsAreSpent'
  <2>1. \A s \in sessions : s.by \in Attempt /\ s.by # r
    BY DEF AuthInv, SessionsAreSpent
  <2> QED BY <2>1 DEF AuthInv, SessionsAreSpent
<1> QED BY <1>2, <1>3, <1>4, <1>5 DEF AuthInv

LEMMA NextAuth == AuthInv /\ [Next]_vars => AuthInv'
<1> SUFFICES ASSUME AuthInv, [Next]_vars PROVE AuthInv'
  OBVIOUS
<1> USE NumberAssumption, NoneAssumption
<1>1. ASSUME NEW c \in Challenge, NEW a \in Address, IssueNonce(c, a) PROVE AuthInv'
  <2>1. /\ issues[c] = "none" /\ issues' = [issues EXCEPT ![c] = "cleaning"]
        /\ UNCHANGED <<now, rows, attempts, sessions>>
    BY <1>1 DEF IssueNonce
  <2>2. tokens'[c] \in Token /\ tokens' \in [Challenge -> Token \cup {None}]
        /\ \A d \in Challenge : d # c => tokens'[d] = tokens[d]
    BY <1>1 DEF IssueNonce, AuthInv, Token
  <2>3. issues' \in [Challenge -> {"none", "cleaning", "storing", "issued"}]
        /\ \A d \in Challenge : d # c => issues'[d] = issues[d]
    BY <2>1 DEF AuthInv
  <2>4. SpentStaysSpent' /\ PresentedWasIssued'
    BY <2>1, <2>3 DEF AuthInv, SpentStaysSpent, PresentedWasIssued
  <2>5. SpentByOne' /\ SessionsAreSpent'
    BY <2>1 DEF AuthInv, SpentByOne, SessionsAreSpent
  <2>6. \A d \in Challenge : issues'[d] # "none" => tokens'[d] # None
    BY <2>2, <2>3 DEF AuthInv
  <2> QED BY <2>1, <2>2, <2>3, <2>4, <2>5, <2>6 DEF AuthInv
<1>2. ASSUME NEW c \in Challenge, CleanUp(c) PROVE AuthInv'
  <2>1. rows' \in [Challenge -> Row \cup {None}]
    BY <1>2 DEF AuthInv, CleanUp
  <2>2. \A d \in Challenge : rows'[d] # None => rows'[d] = rows[d]
    BY <1>2 DEF AuthInv, CleanUp
  <2> QED BY <1>2, <2>1, <2>2 DEF AuthInv, CleanUp, SpentStaysSpent, SpentByOne,
             SessionsAreSpent, PresentedWasIssued
<1>3. ASSUME NEW c \in Challenge, Store(c) PROVE AuthInv'
  <2>1. rows' \in [Challenge -> Row \cup {None}]
    BY <1>3 DEF AuthInv, Store, Row, Token
  <2>2. \A d \in Challenge : d # c => rows'[d] = rows[d] /\ issues'[d] = issues[d]
    BY <1>3 DEF AuthInv, Store
  <2>3. \A r \in Attempt : attempts[r].is \in Spent => attempts[r].challenge # c
    BY <1>3 DEF AuthInv, Store, SpentStaysSpent
  <2>4. \A r \in Attempt : attempts[r].is \in {"verified", "consuming"} => attempts[r].challenge # c
    BY <1>3 DEF AuthInv, Store, PresentedWasIssued
  <2>5. attempts' = attempts /\ sessions' = sessions /\ now' = now /\ tokens' = tokens
        /\ issues' \in [Challenge -> {"none", "cleaning", "storing", "issued"}]
        /\ issues[c] # "none"
    BY <1>3 DEF AuthInv, Store
  <2>6. SpentStaysSpent' /\ PresentedWasIssued'
    BY <2>2, <2>3, <2>4, <2>5 DEF AuthInv, SpentStaysSpent, PresentedWasIssued
  <2>7. SpentByOne' /\ SessionsAreSpent'
    BY <2>5 DEF AuthInv, SpentByOne, SessionsAreSpent
  <2>8. \A d \in Challenge : issues'[d] # "none" => tokens'[d] # None
    BY <2>2, <2>5 DEF AuthInv
  <2> QED BY <2>1, <2>5, <2>6, <2>7, <2>8 DEF AuthInv
<1>4. ASSUME NEW r \in Attempt, NEW c \in Challenge, Verify(r, c) PROVE AuthInv'
  <2>1. tokens[c] \in Token
    BY <1>4 DEF AuthInv, Verify
  <2>2. attempts[r].is = "fresh" /\ attempts'[r].is = "verified" /\ attempts'[r].challenge = c
        /\ attempts'[r] \in AttemptState
    BY <1>4, <2>1 DEF AuthInv, Verify, AttemptState, Token
  <2>3. \A q \in Attempt : q # r => attempts'[q] = attempts[q]
    BY <1>4 DEF AuthInv, Verify
  <2>4. issues[c] = "issued" /\ UNCHANGED <<now, tokens, issues, rows, sessions>>
    BY <1>4 DEF Verify
  <2>5. attempts' \in [Attempt -> AttemptState]
    BY <1>4, <2>2, <2>3 DEF AuthInv, Verify
  <2> QED BY <2>2, <2>3, <2>4, <2>5, StepThatSpendsNothing DEF Spent
<1>5. ASSUME NEW r \in Attempt, ReadTime(r) PROVE AuthInv'
  <2>1. /\ attempts' \in [Attempt -> AttemptState]
        /\ attempts'[r].is = "consuming"
        /\ attempts'[r].challenge = attempts[r].challenge
        /\ \A q \in Attempt : q # r => attempts'[q] = attempts[q]
    BY <1>5, StepOfAttempt DEF ReadTime
  <2>2. attempts[r].is = "verified" /\ UNCHANGED <<now, tokens, issues, rows, sessions>>
    BY <1>5 DEF ReadTime
  <2>3. attempts[r].challenge \in Challenge /\ issues[attempts[r].challenge] = "issued"
    BY <2>2 DEF AuthInv, PresentedWasIssued
  <2> QED BY <2>1, <2>2, <2>3, StepThatSpendsNothing DEF Spent
<1>6. ASSUME NEW r \in Attempt, Consume(r) PROVE AuthInv'
  <2> DEFINE c == attempts[r].challenge
  <2>1. attempts[r].is = "consuming" /\ c \in Challenge /\ issues[c] = "issued"
    BY <1>6 DEF AuthInv, Consume, PresentedWasIssued
  <2>2. UNCHANGED <<now, tokens, issues, sessions>>
    BY <1>6 DEF Consume
  <2>3. CASE Consumable(rows[c], attempts[r])
    <3>1. rows[c] \in Row /\ rows[c].consumedAt = None /\ attempts[r].stamp \in Nat
      BY <2>1, <2>3 DEF AuthInv, Consumable, AttemptState
    <3>2. rows' = [rows EXCEPT ![c].consumedAt = attempts[r].stamp]
          /\ attempts' = [attempts EXCEPT ![r].is = "consumed"]
      BY <1>6, <2>3 DEF Consume
    <3>3. rows' \in [Challenge -> Row \cup {None}] /\ rows'[c].consumedAt # None
          /\ \A d \in Challenge : d # c => rows'[d] = rows[d]
      BY <3>1, <3>2, <2>1 DEF AuthInv, Row
    <3>4. \A q \in Attempt : attempts[q].is \in Spent => attempts[q].challenge # c
      <4>1. rows[c] # None
        BY <2>3 DEF Consumable
      <4> QED BY <4>1, <3>1, <2>1 DEF AuthInv, SpentStaysSpent
    <3>5. /\ attempts'[r].is = "consumed" /\ attempts'[r].challenge = c
          /\ \A q \in Attempt : q # r => attempts'[q] = attempts[q]
          /\ attempts' \in [Attempt -> AttemptState]
      BY <3>2, StepOfAttempt
    <3>6. SpentStaysSpent'
      BY <3>3, <3>4, <3>5, <2>1, <2>2 DEF AuthInv, SpentStaysSpent
    <3>7. SpentByOne'
      BY <3>4, <3>5 DEF AuthInv, SpentByOne
    <3>8. SessionsAreSpent'
      <4>1. \A s \in sessions : s.by \in Attempt /\ s.by # r
        BY <2>1 DEF AuthInv, SessionsAreSpent
      <4> QED BY <4>1, <3>5, <2>2 DEF AuthInv, SessionsAreSpent
    <3>9. PresentedWasIssued'
      <4>1. \A q \in Attempt : attempts'[q].is \in {"verified", "consuming"} =>
              attempts'[q] = attempts[q]
        BY <3>5
      <4> QED BY <4>1, <2>2 DEF AuthInv, PresentedWasIssued
    <3> QED BY <3>3, <3>5, <3>6, <3>7, <3>8, <3>9, <2>2 DEF AuthInv
  <2>4. CASE ~ Consumable(rows[c], attempts[r])
    <3>1. rows' = rows /\ attempts' = [attempts EXCEPT ![r].is = "refused"]
      BY <1>6, <2>4 DEF Consume
    <3>2. /\ attempts'[r].is = "refused"
          /\ \A q \in Attempt : q # r => attempts'[q] = attempts[q]
          /\ attempts' \in [Attempt -> AttemptState]
      BY <3>1, StepOfAttempt
    <3> QED BY <3>1, <3>2, <2>1, <2>2, StepThatSpendsNothing DEF Spent
  <2> QED BY <2>3, <2>4
<1>7. ASSUME NEW r \in Attempt, Remember(r) PROVE AuthInv'
  <2>1. /\ attempts' \in [Attempt -> AttemptState]
        /\ attempts'[r].is = "remembered"
        /\ attempts'[r].challenge = attempts[r].challenge
        /\ \A q \in Attempt : q # r => attempts'[q] = attempts[q]
    BY <1>7, StepOfAttempt DEF Remember
  <2>2. attempts[r].is = "consumed" /\ UNCHANGED <<now, tokens, issues, rows, sessions>>
    BY <1>7 DEF Remember
  <2> QED BY <2>1, <2>2, StepThatSpendsNothing DEF Spent
<1>8. ASSUME NEW r \in Attempt, HandOut(r) PROVE AuthInv'
  <2> DEFINE s == [by |-> r, challenge |-> attempts[r].challenge,
                   address |-> attempts[r].address, at |-> now, exp |-> now + SessionTtl]
  <2>1. sessions' = sessions \cup {s} /\ UNCHANGED <<now, tokens, issues, rows>>
    BY <1>8 DEF HandOut
  <2>2. attempts[r].is = "remembered" /\ \A t \in sessions : t.by # r
    BY <1>8 DEF AuthInv, HandOut, SessionsAreSpent
  <2>3. /\ attempts'[r].is = "signed in" /\ attempts'[r].challenge = attempts[r].challenge
        /\ \A q \in Attempt : q # r => attempts'[q] = attempts[q]
        /\ attempts' \in [Attempt -> AttemptState]
    BY <1>8, StepOfAttempt DEF HandOut
  <2>4. SessionsAreSpent'
    <3>1. s.by = r /\ s.challenge = attempts[r].challenge
      OBVIOUS
    <3> HIDE DEF s
    <3>2. \A t \in sessions : t.by \in Attempt /\ attempts'[t.by] = attempts[t.by]
      BY <2>2, <2>3 DEF AuthInv, SessionsAreSpent
    <3>3. \A t \in sessions' : /\ t.by \in Attempt
                              /\ attempts'[t.by].is = "signed in"
                              /\ attempts'[t.by].challenge = t.challenge
      BY <3>1, <3>2, <2>1, <2>3 DEF AuthInv, SessionsAreSpent
    <3>4. \A t, u \in sessions' : t.by = u.by => t = u
      <4>1. \A t, u \in sessions : t.by = u.by => t = u
        BY DEF AuthInv, SessionsAreSpent
      <4> QED BY <4>1, <3>1, <2>1, <2>2
    <3> QED BY <3>3, <3>4 DEF SessionsAreSpent
  <2>5. \A q \in Attempt : attempts'[q].challenge = attempts[q].challenge
                           /\ (attempts'[q].is \in Spent <=> attempts[q].is \in Spent)
    BY <2>2, <2>3 DEF Spent
  <2>6. SpentStaysSpent' /\ SpentByOne'
    BY <2>1, <2>5 DEF AuthInv, SpentStaysSpent, SpentByOne
  <2>7. PresentedWasIssued'
    BY <2>1, <2>2, <2>3 DEF AuthInv, PresentedWasIssued
  <2> QED BY <2>1, <2>3, <2>4, <2>6, <2>7 DEF AuthInv
<1>9. ASSUME NEW r \in Attempt, Crash(r) PROVE AuthInv'
  <2>1. /\ attempts'[r].is = "lost"
        /\ \A q \in Attempt : q # r => attempts'[q] = attempts[q]
        /\ attempts' \in [Attempt -> AttemptState]
    BY <1>9, StepOfAttempt DEF Crash
  <2>2. attempts[r].is \in {"verified", "consuming", "consumed", "remembered"}
        /\ UNCHANGED <<now, tokens, issues, rows, sessions>>
    BY <1>9 DEF Crash
  <2> QED BY <2>1, <2>2, StepThatSpendsNothing DEF Spent
<1>10. ASSUME Tick PROVE AuthInv'
  <2>1. now' \in Nat /\ UNCHANGED <<tokens, issues, rows, attempts, sessions>>
    BY <1>10 DEF AuthInv, Tick
  <2> QED BY <2>1 DEF AuthInv, SpentStaysSpent, SpentByOne, SessionsAreSpent, PresentedWasIssued
<1>11. ASSUME UNCHANGED vars PROVE AuthInv'
  BY <1>11 DEF AuthInv, vars, SpentStaysSpent, SpentByOne, SessionsAreSpent, PresentedWasIssued
<1> QED BY <1>1, <1>2, <1>3, <1>4, <1>5, <1>6, <1>7, <1>8, <1>9, <1>10, <1>11 DEF Next

LEMMA AuthIsInvariant == Spec => []AuthInv
BY InitAuth, NextAuth, PTL DEF Spec

\* A signed challenge opens one session at most, however often it is presented.
THEOREM ChallengesAreOneShot == Spec => []OncePerChallenge
<1>1. AuthInv => OncePerChallenge
  <2> SUFFICES ASSUME AuthInv, NEW s \in sessions, NEW t \in sessions, s.challenge = t.challenge
               PROVE s = t
    BY DEF OncePerChallenge
  <2>1. /\ s.by \in Attempt /\ t.by \in Attempt
        /\ attempts[s.by].is \in Spent /\ attempts[t.by].is \in Spent
        /\ attempts[s.by].challenge = attempts[t.by].challenge
    BY DEF AuthInv, SessionsAreSpent, Spent
  <2>2. s.by = t.by
    BY <2>1 DEF AuthInv, SpentByOne
  <2> QED BY <2>2 DEF AuthInv, SessionsAreSpent
<1> QED BY <1>1, AuthIsInvariant, PTL

\* A statement that is executed late has read its time at most MaxDelay ago.
StampsAreRecent ==
  \A r \in Attempt : attempts[r].is = "consuming" =>
    attempts[r].stamp <= now /\ now <= attempts[r].stamp + MaxDelay

\* A row expires when its token does.
RowsTellTheirTokens ==
  \A c \in Challenge : rows[c] # None =>
    issues[c] = "issued" /\ rows[c].expiresAt = tokens[c].exp

LEMMA RecentAndTrue == Spec => [](AuthInv /\ StampsAreRecent /\ RowsTellTheirTokens)
<1>1. Init => StampsAreRecent /\ RowsTellTheirTokens
  BY DEF Init, StampsAreRecent, RowsTellTheirTokens, Fresh
<1>2. AuthInv /\ StampsAreRecent /\ RowsTellTheirTokens /\ [Next]_vars
        => (StampsAreRecent /\ RowsTellTheirTokens)'
  <2> SUFFICES ASSUME AuthInv, StampsAreRecent, RowsTellTheirTokens, [Next]_vars
               PROVE (StampsAreRecent /\ RowsTellTheirTokens)'
    OBVIOUS
  <2> USE NumberAssumption, NoneAssumption
  <2>1. StampsAreRecent'
    <3>1. CASE Tick
      <4>1. now' = now + 1 /\ attempts' = attempts /\ now \in Nat /\ MaxDelay \in Nat
            /\ \A r \in Attempt : attempts[r].is = "consuming" => now < attempts[r].stamp + MaxDelay
        BY <3>1 DEF AuthInv, Tick
      <4>2. \A r \in Attempt : attempts[r].stamp \in Nat
        BY DEF AuthInv, AttemptState
      <4> QED BY <4>1, <4>2 DEF StampsAreRecent
    <3>2. ASSUME NEW r \in Attempt, now' = now,
                 \A q \in Attempt : q # r => attempts'[q] = attempts[q],
                 attempts'[r].is = "consuming" => attempts'[r].stamp = now
          PROVE StampsAreRecent'
      <4>1. now \in Nat /\ MaxDelay \in Nat
        BY DEF AuthInv
      <4> SUFFICES ASSUME NEW q \in Attempt, attempts'[q].is = "consuming"
                   PROVE attempts'[q].stamp <= now /\ now <= attempts'[q].stamp + MaxDelay
        BY <3>2 DEF StampsAreRecent
      <4> QED BY <3>2, <4>1 DEF StampsAreRecent
    <3>3. ASSUME NEW r \in Attempt, NEW c \in Challenge, Verify(r, c) PROVE StampsAreRecent'
      <4>1. attempts'[r].is = "verified" /\ now' = now
            /\ \A q \in Attempt : q # r => attempts'[q] = attempts[q]
        BY <3>3 DEF AuthInv, Verify
      <4> QED BY <4>1, <3>2
    <3>4. ASSUME NEW r \in Attempt, ReadTime(r) PROVE StampsAreRecent'
      <4>1. attempts'[r] = [attempts[r] EXCEPT !.is = "consuming", !.stamp = now] /\ now' = now
            /\ \A q \in Attempt : q # r => attempts'[q] = attempts[q]
        BY <3>4 DEF AuthInv, ReadTime
      <4>2. attempts'[r].stamp = now
        BY <4>1 DEF AuthInv, AttemptState
      <4> QED BY <4>1, <4>2, <3>2
    <3>5. ASSUME NEW r \in Attempt, Consume(r) \/ Remember(r) \/ HandOut(r) \/ Crash(r)
          PROVE StampsAreRecent'
      <4>1. PICK to \in {"consumed", "refused", "remembered", "signed in", "lost"} :
              attempts' = [attempts EXCEPT ![r].is = to]
        BY <3>5 DEF Consume, Remember, HandOut, Crash
      <4>2. now' = now
        BY <3>5 DEF Consume, Remember, HandOut, Crash
      <4>3. attempts'[r].is = to /\ \A q \in Attempt : q # r => attempts'[q] = attempts[q]
        BY <4>1, StepOfAttempt
      <4> QED BY <4>2, <4>3, <3>2
    <3>6. CASE UNCHANGED <<now, attempts>>
      BY <3>6 DEF StampsAreRecent
    <3> QED BY <3>1, <3>3, <3>4, <3>5, <3>6 DEF Next, vars, IssueNonce, CleanUp, Store
  <2>2. RowsTellTheirTokens'
    <3>1. ASSUME NEW c \in Challenge, NEW a \in Address, IssueNonce(c, a)
          PROVE RowsTellTheirTokens'
      <4>1. tokens'[c] = [address |-> a, exp |-> now + NonceTtl] /\ rows' = rows
        BY <3>1 DEF IssueNonce, AuthInv
      <4>2. rows[c] = None
        BY <3>1 DEF AuthInv, IssueNonce, RowsTellTheirTokens
      <4> QED BY <4>1, <4>2, <3>1 DEF AuthInv, IssueNonce, RowsTellTheirTokens
    <3>2. ASSUME NEW c \in Challenge, CleanUp(c) PROVE RowsTellTheirTokens'
      BY <3>2 DEF AuthInv, CleanUp, RowsTellTheirTokens
    <3>3. ASSUME NEW c \in Challenge, Store(c) PROVE RowsTellTheirTokens'
      BY <3>3 DEF AuthInv, Store, RowsTellTheirTokens
    <3>4. ASSUME NEW r \in Attempt, Consume(r) PROVE RowsTellTheirTokens'
      BY <3>4 DEF AuthInv, Consume, RowsTellTheirTokens, Row, Consumable, PresentedWasIssued
    <3>5. CASE UNCHANGED <<rows, tokens, issues>>
      BY <3>5 DEF RowsTellTheirTokens
    <3> QED BY <3>1, <3>2, <3>3, <3>4, <3>5
            DEF Next, vars, Verify, ReadTime, Remember, HandOut, Crash, Tick
  <2> QED BY <2>1, <2>2
<1> QED BY <1>1, <1>2, AuthIsInvariant, PTL DEF Spec

\* An attempt that was checked in time spends its challenge in time as well, but
\* for the delay of one statement.
THEOREM ChallengesAreSpentInTime == Spec => SpentInTime
<1>1. AuthInv /\ StampsAreRecent /\ RowsTellTheirTokens /\ [Next]_vars =>
        [\A r \in Attempt : attempts[r].is = "consuming" /\ attempts'[r].is = "consumed"
           => now < tokens[attempts[r].challenge].exp + MaxDelay]_vars
  <2> SUFFICES ASSUME AuthInv, StampsAreRecent, RowsTellTheirTokens, Next,
                      NEW r \in Attempt, attempts[r].is = "consuming",
                      attempts'[r].is = "consumed"
               PROVE now < tokens[attempts[r].challenge].exp + MaxDelay
    OBVIOUS
  <2>1. Consume(r)
    <3>1. ASSUME NEW q \in Attempt, NEW to \in {"consuming", "consumed", "refused", "remembered",
                                             "signed in", "lost"},
                 attempts[q].is # "consuming" \/ to # "consumed",
                 \/ attempts' = [attempts EXCEPT ![q].is = to]
                 \/ attempts' = [attempts EXCEPT ![q].is = to, ![q].stamp = now]
          PROVE FALSE
      BY <3>1, StepOfAttempt
    <3>2. ASSUME NEW q \in Attempt, NEW c \in Challenge, Verify(q, c) PROVE FALSE
      BY <3>2 DEF AuthInv, Verify
    <3>3. ASSUME NEW q \in Attempt, ReadTime(q) PROVE FALSE
      BY <3>1, <3>3 DEF ReadTime
    <3>4. ASSUME NEW q \in Attempt, Remember(q) \/ HandOut(q) \/ Crash(q) PROVE FALSE
      BY <3>1, <3>4 DEF Remember, HandOut, Crash
    <3>5. ASSUME NEW q \in Attempt, q # r, Consume(q) PROVE FALSE
      <4>1. PICK to \in {"consumed", "refused"} : attempts' = [attempts EXCEPT ![q].is = to]
        BY <3>5 DEF Consume
      <4>2. attempts'[r] = attempts[r]
        BY <4>1, <3>5, StepOfAttempt
      <4> QED BY <4>2
    <3>6. attempts' # attempts
      OBVIOUS
    <3> QED BY <3>2, <3>3, <3>4, <3>5, <3>6 DEF Next, IssueNonce, CleanUp, Store, Tick
  <2>2. Consumable(rows[attempts[r].challenge], attempts[r])
    <3>1. CASE attempts' = [attempts EXCEPT ![r].is = "refused"]
      <4>1. attempts'[r].is = "refused"
        BY <3>1, StepOfAttempt
      <4> QED BY <4>1
    <3> QED BY <2>1, <3>1 DEF Consume
  <2>3. attempts[r].challenge \in Challenge /\ attempts[r].stamp \in Nat
    BY DEF AuthInv, PresentedWasIssued, AttemptState
  <2>4. rows[attempts[r].challenge] \in Row
    BY <2>2, <2>3 DEF AuthInv, Consumable
  <2> QED BY <2>2, <2>3, <2>4, NumberAssumption
          DEF Consumable, StampsAreRecent, RowsTellTheirTokens, AuthInv, Row
<1> QED BY <1>1, RecentAndTrue, PTL DEF Spec, SpentInTime
=============================================================================
