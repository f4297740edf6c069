---------------------------- MODULE LoginProofs ----------------------------
(***************************************************************************)
(* The PIN login implements the OAuth module, so the theorems of           *)
(* OAuthProofs hold of it; a locked session stays locked; and a session is *)
(* worth a bounded number of PINs, however many requests race for it.      *)
(***************************************************************************)
EXTENDS LoginProps, OAuthProofs, FiniteSetTheorems

\* Whatever a login does to the database is a step of OAuth.
LEMMA LoginStepIsOAuthStep ==
    ASSUME IInv, [LoginNext]_allVars
    PROVE  [Next]_vars
<1>1. loginStarted \subseteq Session
  BY DEF IInv, CoreInv, TypeOK
<1>2. CASE HandlerStep /\ UNCHANGED loginVars
  BY <1>2 DEF Next
<1>3. ASSUME NEW r \in Request, NEW s \in Session, BeginVerify(r, s)
      PROVE  Next
  BY <1>3 DEF BeginVerify, Next, LoginStep
<1>4. ASSUME NEW r \in Request, RequestStep(r)
      PROVE  [Next]_vars
  <2>1. CASE LockOut(r)
    <3>1. LoginLocksSession(request[r].session)
      BY <2>1 DEF LockOut
    <3>2. request[r].session \in Session
      BY <1>1, <3>1 DEF LoginLocksSession
    <3> QED  BY <3>1, <3>2 DEF Next, LoginStep
  <2>2. ASSUME NEW e \in JwtExpiry, VerifyAccepted(r, e)
        PROVE  Next
    <3>1. LoginStoresJwt(request[r].session, e)
      BY <2>2 DEF VerifyAccepted
    <3>2. request[r].session \in Session
      BY <1>1, <3>1 DEF LoginStoresJwt
    <3> QED  BY <3>1, <3>2 DEF Next, LoginStep
  <2>3. CASE CountAttempt(r) \/ CountFails(r) \/ VerifyRejected(r)
    BY <2>3 DEF CountAttempt, CountFails, VerifyRejected
  <2> QED  BY <1>4, <2>1, <2>2, <2>3 DEF RequestStep
<1>5. CASE ServerRestarts \/ \E s \in Session : ValkeyRestarts(s)
  BY <1>5 DEF ServerRestarts, ValkeyRestarts
<1>6. CASE UNCHANGED allVars
  BY <1>6 DEF allVars
<1> QED  BY <1>2, <1>3, <1>4, <1>5, <1>6 DEF LoginNext

\* The login implements OAuth: no interleaving of its awaits, no failure and
\* no restart changes the database in a way OAuth does not describe.
THEOREM LoginImplementsOAuth == LoginSpec => OAuthSpec /\ []IInv
<1>1. LoginInit => Init /\ IInv
  BY InitInv DEF LoginInit
<1>2. IInv /\ [LoginNext]_allVars => [Next]_vars /\ IInv'
  BY LoginStepIsOAuthStep, NextInv
<1> QED  BY <1>1, <1>2, PTL DEF LoginSpec, OAuthSpec, Spec

-----------------------------------------------------------------------------
\* A locked session was created by /oauth/authorize and is gone or used.
LockedAreSpent == \A s \in locked : s \in DOMAIN authorizedFor /\ Spent(s)

\* No step of OAuth makes a spent code redeemable again.
LEMMA SpentForGood ==
    ASSUME IInv, [Next]_vars, NEW s \in DOMAIN authorizedFor, Spent(s)
    PROVE  s \in DOMAIN authorizedFor' /\ Spent(s)'
<1>1. CASE UNCHANGED vars
  BY <1>1 DEF vars, tables, history, Spent
<1>2. CASE Next
  <2>1. SessionsOnlyAge
    BY <1>2, StepKinds DEF Quiet, Issuing, Issues
  <2> QED  BY <2>1 DEF SessionsOnlyAge, Spent
<1> QED  BY <1>1, <1>2

\* Only a code that is not spent is ever redeemed.
LEMMA RedeemedWereUnspent ==
    ASSUME [Next]_vars, NEW s \in Session, NEW a \in Token,
           <<s, a>> \in redeemed', <<s, a>> \notin redeemed
    PROVE  ~Spent(s)
<1>1. ASSUME NEW x \in Session, NEW c \in Client, NEW b \in Binding,
             NEW t \in Token, NEW r \in Token, ExchangeCode(x, c, b, t, r)
      PROVE  ~Spent(s)
  <2>1. /\ x \in DOMAIN sessions /\ ~sessions[x].used
        /\ redeemed' = redeemed \cup {<<x, t>>}
    BY <1>1 DEF ExchangeCode, CodeIsExchangeable, IssuePair
  <2> QED  BY <2>1 DEF Spent
<1>2. ASSUME NEW x \in Token, NEW c \in Client, NEW t \in Token, NEW r \in Token,
             RefreshRotates(x, c, t, r)
      PROVE  FALSE
  <2>1. redeemed' = redeemed \cup {<<x, t>>}
    BY <1>2 DEF RefreshRotates, IssuePair
  <2> QED  BY <2>1, GrantAssumption
<1>3. CASE \E x \in Session : LoginStep(x)
  BY <1>3 DEF LoginStep, LoginStarts, LoginStoresJwt, LoginLocksSession, history
<1>4. CASE \E x \in Session : CodeStep(x)
  <2>1. ASSUME NEW x \in Session, NEW c \in Client, NEW b \in Binding,
               Authorize(x, c, b) \/ ExchangeInterrupted(x, c, b)
        PROVE  redeemed' = redeemed
    BY <2>1 DEF Authorize, ExchangeInterrupted, history
  <2> QED  BY <1>1, <1>4, <2>1 DEF CodeStep
<1>5. CASE \E x \in Token : TokenStep(x)
  <2>1. ASSUME NEW x \in Token, NEW c \in Client,
               RefreshExpired(x, c) \/ RefreshJwtExpired(x, c) \/ RefreshInterrupted(x, c)
        PROVE  redeemed' = redeemed
    BY <2>1 DEF RefreshExpired, RefreshJwtExpired, RefreshInterrupted, history
  <2>2. ASSUME NEW x \in Token, NEW h \in Hint,
               RevokeAccess(x, h) \/ RevokeAccessInterrupted(x, h) \/ RevokeRefresh(x, h)
        PROVE  redeemed' = redeemed
    BY <2>2 DEF RevokeAccess, RevokeAccessInterrupted, RevokeRefresh, history
  <2> QED  BY <1>2, <1>5, <2>1, <2>2 DEF TokenStep
<1>6. CASE \/ \E c \in Client : Register(c)
           \/ Cleanup \/ Tick \/ UNCHANGED vars
  BY <1>6 DEF Register, Cleanup, Tick, vars, history
<1> QED  BY <1>3, <1>4, <1>5, <1>6 DEF Next, HandlerStep

\* A request that finds the attempts used up marks its session.
LEMMA LockedStaysSpent ==
    ASSUME IInv, LockedAreSpent, [LoginNext]_allVars
    PROVE  LockedAreSpent'
<1>1. ASSUME NEW s \in locked
      PROVE  s \in DOMAIN authorizedFor' /\ Spent(s)'
  BY LoginStepIsOAuthStep, SpentForGood DEF LockedAreSpent
<1>2. ASSUME NEW r \in Request, LockOut(r), NEW x, x = request[r].session
      PROVE  x \in DOMAIN authorizedFor' /\ Spent(x)'
  <2>1. /\ loginStarted \subseteq DOMAIN authorizedFor
        /\ \A s \in DOMAIN sessions : sessions[s] \in SessionRow
    BY DEF IInv, CoreInv, TypeOK
  <2>2. LoginLocksSession(x)
    BY <1>2 DEF LockOut
  <2> QED
    BY <2>1, <2>2 DEF LoginLocksSession, MarkUsed, history, SessionRow, Spent
<1>3. \/ locked' = locked
      \/ \E r \in Request : LockOut(r) /\ locked' = locked \cup {request[r].session}
  BY DEF LoginNext, loginVars, allVars, RequestStep, LockOut, CountAttempt, CountFails,
         VerifyRejected, VerifyAccepted, BeginVerify, ServerRestarts, ValkeyRestarts
<1>4. ASSUME NEW s \in locked'
      PROVE  s \in DOMAIN authorizedFor' /\ Spent(s)'
  BY <1>1, <1>2, <1>3
<1> QED  BY <1>4 DEF LockedAreSpent

\* A session that ran out of attempts never yields tokens, whatever PIN is
\* accepted late.
THEOREM LockLasts == LoginSpec => LockIsFinal
<1> DEFINE A == \A s \in locked, a \in Token :
                    <<s, a>> \in redeemed' => <<s, a>> \in redeemed
<1>1. LoginInit => LockedAreSpent
  BY DEF LoginInit, LockedAreSpent
<1>2. IInv /\ LockedAreSpent /\ [LoginNext]_allVars => LockedAreSpent' /\ A
  <2>1. ASSUME IInv, LockedAreSpent, [LoginNext]_allVars,
               NEW s \in locked, NEW a \in Token,
               <<s, a>> \in redeemed', <<s, a>> \notin redeemed
        PROVE  FALSE
    <3>1. s \in Session /\ Spent(s)
      BY <2>1 DEF LockedAreSpent, IInv, CoreInv, TypeOK
    <3>2. [Next]_vars
      BY <2>1, LoginStepIsOAuthStep
    <3> QED  BY <2>1, <3>1, <3>2, RedeemedWereUnspent
  <2> QED  BY <2>1, LockedStaysSpent
<1> QED  BY <1>1, <1>2, LoginImplementsOAuth, PTL DEF LoginSpec, LockIsFinal

-----------------------------------------------------------------------------
(* The bound on the PINs of a session.                                     *)

\* Budget(n) is what n counted attempts may have cost: one PIN per request
\* that the server has in progress, for each of them.
Budget(n) == n * Cardinality(Request)

Attempt  == [count: Nat, expires: Nat]
Progress == [phase: {"idle", "counting", "verifying"},
             session: Session \cup {NoSession}, seen: Nat]

LoginTypeOK ==
    /\ \A s \in DOMAIN pinAttempts : pinAttempts[s] \in Attempt
    /\ awaiting \in Seq(Request)
    /\ request \in [Request -> Progress]
    /\ tries \in [Session -> Nat]

\* The requests that wait for a GET are distinct and are counting.
WaitingOnce ==
    /\ \A i, j \in 1..Len(awaiting) : awaiting[i] = awaiting[j] => i = j
    /\ \A i \in 1..Len(awaiting) : request[awaiting[i]].phase = "counting"

\* A request in progress, or a PIN sent, belongs to a login that was started.
ForStartedLogins ==
    /\ \A r \in Request :
           request[r].phase # "idle" => request[r].session \in loginStarted
    /\ \A s \in Session : tries[s] > 0 => s \in loginStarted

\* The i-th request that waits will be preceded by i - 1 others, and counts
\* itself: by then the count that it writes pays for all of them.
SeenPaysFor ==
    \A i \in 1..Len(awaiting) :
        LET q == request[awaiting[i]]
        IN  tries[q.session] + i <= Budget(q.seen + 1)

\* The key of a session that was sent a PIN lasts as long as the session, and
\* its count pays for the PINs.
KeyPaysFor ==
    \A s \in DOMAIN sessions :
        /\ sessions[s].expires <= now + SessionTTL
        /\ tries[s] > 0 =>
               /\ s \in DOMAIN pinAttempts
               /\ sessions[s].expires <= pinAttempts[s].expires
               /\ tries[s] <= Budget(pinAttempts[s].count)

WithinAttempts == \A s \in Session : tries[s] <= Budget(MaxAttempts)

PinInv ==
    /\ LoginTypeOK
    /\ WaitingOnce
    /\ ForStartedLogins
    /\ SeenPaysFor
    /\ KeyPaysFor
    /\ WithinAttempts

\* A larger count pays for more, and zero pays for nothing.
LEMMA BudgetGrows ==
    /\ Cardinality(Request) \in Nat
    /\ Budget(0) = 0
    /\ \A n \in Nat :
           /\ Budget(n) \in Nat
           /\ Budget(n + 1) = Budget(n) + Cardinality(Request)
    /\ \A m, n \in Nat : m <= n => Budget(m) <= Budget(n)
<1>1. Cardinality(Request) \in Nat
  BY RequestAssumption, FS_CardinalityType
<1>2. \A c, n \in Nat :
          /\ n * c \in Nat
          /\ (n + 1) * c = n * c + c
          /\ 0 * c = 0
  OBVIOUS
<1>3. \A c, m, n \in Nat : m <= n => m * c <= n * c
  <2>1. ASSUME NEW c \in Nat, NEW m \in Nat, NEW n \in Nat, m <= n
        PROVE  m * c <= n * c
    <3>1. PICK d \in Nat : n = m + d
      <4>1. n - m \in Nat /\ n = m + (n - m)
        BY <2>1
      <4> QED  BY <4>1
    <3>2. n * c = m * c + d * c
      BY <3>1
    <3>3. m * c \in Nat /\ d * c \in Nat
      BY <1>2
    <3> QED  BY <3>2, <3>3
  <2> QED  BY <2>1
<1> QED  BY <1>1, <1>2, <1>3 DEF Budget

\* Distinct requests that wait leave room for one that does not.
LEMMA RoomToWait ==
    ASSUME LoginTypeOK, WaitingOnce, NEW r \in Request, request[r].phase = "idle"
    PROVE  Len(awaiting) + 1 <= Cardinality(Request)
<1> DEFINE n == Len(awaiting)
           f == [i \in 1..n+1 |-> IF i = n + 1 THEN r ELSE awaiting[i]]
<1>1. n \in Nat /\ \A i \in 1..n : awaiting[i] \in Request
  BY DEF LoginTypeOK
<1>2. f \in [1..n+1 -> Request]
  BY <1>1
<1>3. \A i \in 1..n : awaiting[i] # r
  BY DEF WaitingOnce
<1>4. \A i, j \in 1..n+1 : f[i] = f[j] => i = j
  BY <1>1, <1>3 DEF WaitingOnce
<1>5. f \in Injection(1..n+1, Request)
  BY <1>2, <1>4 DEF Injection, IsInjective
<1>6. Cardinality(1..n+1) <= Cardinality(Request)
  BY <1>5, RequestAssumption, FS_Injection
<1>7. Cardinality(1..n+1) = n + 1
  BY <1>1, FS_Interval
<1> QED  BY <1>6, <1>7

\* A session row keeps its expiry, and a new one is of a login not started.
RowsKeepTheirExpiry ==
    /\ now <= now'
    /\ loginStarted \subseteq loginStarted'
    /\ \A s \in DOMAIN sessions' :
           \/ /\ s \in DOMAIN sessions
              /\ sessions'[s].expires = sessions[s].expires
           \/ /\ s \notin loginStarted
              /\ sessions'[s].expires = now + SessionTTL

LEMMA RowsLast ==
    ASSUME IInv, [Next]_vars
    PROVE  RowsKeepTheirExpiry
<1>1. /\ now \in Nat
      /\ loginStarted \subseteq DOMAIN authorizedFor
      /\ \A s \in DOMAIN sessions : sessions[s] \in SessionRow
  BY TimeAssumption DEF IInv, CoreInv, TypeOK
<1>2. ASSUME now' = now, loginStarted' = loginStarted,
             SubTable(sessions', sessions)
      PROVE  RowsKeepTheirExpiry
  BY <1>1, <1>2 DEF RowsKeepTheirExpiry, SubTable
<1>3. SubTable(sessions, sessions)
  BY DEF SubTable
<1>4. ASSUME NEW s, MarkUsed(s), now' = now, loginStarted' = loginStarted
      PROVE  RowsKeepTheirExpiry
  BY <1>1, <1>4 DEF MarkUsed, RowsKeepTheirExpiry, SessionRow
<1>5. ASSUME NEW s \in Session, CodeStep(s)
      PROVE  RowsKeepTheirExpiry
  <2>1. ASSUME NEW c \in Client, NEW b \in Binding, Authorize(s, c, b)
        PROVE  RowsKeepTheirExpiry
    BY <1>1, <2>1 DEF Authorize, Insert, RowsKeepTheirExpiry
  <2>2. ASSUME NEW c \in Client, NEW b \in Binding, ExchangeInterrupted(s, c, b)
        PROVE  RowsKeepTheirExpiry
    BY <1>4, <2>2 DEF ExchangeInterrupted
  <2>3. ASSUME NEW c \in Client, NEW b \in Binding, NEW a \in Token, NEW r \in Token,
               ExchangeCode(s, c, b, a, r)
        PROVE  RowsKeepTheirExpiry
    BY <1>4, <2>3 DEF ExchangeCode
  <2> QED  BY <1>5, <2>1, <2>2, <2>3 DEF CodeStep
<1>6. ASSUME NEW t \in Token, TokenStep(t)
      PROVE  RowsKeepTheirExpiry
  <2>1. UNCHANGED <<sessions, loginStarted, now>>
    BY <1>6 DEF TokenStep, RefreshExpired, RefreshJwtExpired, RefreshInterrupted,
                RefreshRotates, RevokeAccess, RevokeAccessInterrupted, RevokeRefresh
  <2> QED  BY <1>2, <1>3, <2>1
<1>7. ASSUME NEW s \in Session, LoginStep(s)
      PROVE  RowsKeepTheirExpiry
  <2>1. CASE LoginStarts(s)
    BY <1>1, <2>1 DEF LoginStarts, tables, RowsKeepTheirExpiry
  <2>2. ASSUME NEW e \in JwtExpiry, LoginStoresJwt(s, e)
        PROVE  RowsKeepTheirExpiry
    BY <1>1, <2>2 DEF LoginStoresJwt, RowsKeepTheirExpiry, SessionRow
  <2>3. CASE LoginLocksSession(s)
    BY <1>4, <2>3 DEF LoginLocksSession
  <2> QED  BY <1>7, <2>1, <2>2, <2>3 DEF LoginStep
<1>8. CASE Cleanup
  <2>1. AfterCleanup.sessions = sessions
            \/ AfterCleanup.sessions = Delete(sessions, SqlExpired(sessions))
    BY DEF AfterCleanup
  <2>2. SubTable(sessions', sessions)
    BY <1>3, <1>8, <2>1, DeleteFacts DEF Cleanup
  <2> QED  BY <1>2, <1>8, <2>2 DEF Cleanup
<1>9. CASE Tick
  BY <1>1, <1>9 DEF Tick, tables, RowsKeepTheirExpiry
<1>10. CASE (\E c \in Client : Register(c)) \/ UNCHANGED vars
  BY <1>2, <1>3, <1>10 DEF Register, vars, tables
<1> QED  BY <1>5, <1>6, <1>7, <1>8, <1>9, <1>10 DEF Next, HandlerStep

-----------------------------------------------------------------------------
\* A session whose counter is as it was, or was deleted with its tries.
CounterKept(s) ==
    \/ /\ tries'[s] = tries[s]
       /\ s \in DOMAIN pinAttempts =>
              s \in DOMAIN pinAttempts' /\ pinAttempts'[s] = pinAttempts[s]
    \/ tries'[s] = 0

\* A step that counts nothing leaves the counters enough to pay.
LEMMA KeptCountersPay ==
    ASSUME IInv, IInv', PinInv, RowsKeepTheirExpiry,
           \A s \in Session : CounterKept(s)
    PROVE  KeyPaysFor'
<1> SUFFICES ASSUME NEW s \in DOMAIN sessions'
             PROVE  /\ sessions'[s].expires <= now' + SessionTTL
                    /\ tries'[s] > 0 =>
                           /\ s \in DOMAIN pinAttempts'
                           /\ sessions'[s].expires <= pinAttempts'[s].expires
                           /\ tries'[s] <= Budget(pinAttempts'[s].count)
  BY DEF KeyPaysFor, Budget
<1>1. /\ now \in Nat /\ now' \in Nat /\ SessionTTL \in Nat
      /\ s \in Session
      /\ sessions'[s].expires \in Nat
  BY TimeAssumption DEF IInv, CoreInv, TypeOK, SessionRow
<1>2. CASE s \in DOMAIN sessions /\ sessions'[s].expires = sessions[s].expires
  <2>1. sessions'[s].expires <= now' + SessionTTL
    BY <1>1, <1>2 DEF RowsKeepTheirExpiry, PinInv, KeyPaysFor
  <2>2. ASSUME tries'[s] > 0
        PROVE  tries'[s] = tries[s] /\ pinAttempts'[s] = pinAttempts[s]
                   /\ s \in DOMAIN pinAttempts'
    BY <1>1, <1>2, <2>2 DEF CounterKept, PinInv, KeyPaysFor
  <2> QED  BY <1>2, <2>1, <2>2 DEF PinInv, KeyPaysFor
<1>3. CASE s \notin loginStarted /\ sessions'[s].expires = now + SessionTTL
  <2>1. tries[s] = 0
    BY <1>1, <1>3 DEF PinInv, LoginTypeOK, ForStartedLogins
  <2>2. tries'[s] = 0
    BY <1>1, <2>1 DEF CounterKept
  <2>3. now <= now'
    BY DEF RowsKeepTheirExpiry
  <2>4. now + SessionTTL <= now' + SessionTTL
    <3>1. \A a, b, c \in Nat : a <= b => a + c <= b + c
      OBVIOUS
    <3> QED  BY <1>1, <2>3, <3>1
  <2> QED  BY <1>3, <2>2, <2>4
<1> QED  BY <1>2, <1>3 DEF RowsKeepTheirExpiry

LEMMA StartedAreSessions ==
    ASSUME IInv
    PROVE  loginStarted \subseteq Session
BY DEF IInv, CoreInv, TypeOK

\* A queue that loses its head keeps its other requests, one place earlier.
LEMMA TailOfWaiting ==
    ASSUME LoginTypeOK, awaiting # <<>>
    PROVE  /\ Tail(awaiting) \in Seq(Request)
           /\ Len(awaiting) \in Nat \ {0}
           /\ Head(awaiting) \in Request
           /\ Head(awaiting) = awaiting[1]
           /\ Len(Tail(awaiting)) = Len(awaiting) - 1
           /\ \A i \in 1..Len(Tail(awaiting)) :
                  /\ i + 1 \in 1..Len(awaiting)
                  /\ Tail(awaiting)[i] = awaiting[i + 1]
BY DEF LoginTypeOK

\* What the head leaves behind when r, no longer counting, has left it.
HeadLeft(r) ==
    /\ awaiting # <<>> /\ Head(awaiting) = r
    /\ awaiting' = Tail(awaiting)
    /\ request' \in [Request -> Progress]
    /\ \A q \in Request \ {r} : request'[q] = request[q]
    /\ tries' \in [Session -> Nat]
    /\ \A s \in Session : tries'[s] <= tries[s] + 1

\* Each of the others was to be preceded by r, whatever r cost.
LEMMA HeadLeaves ==
    ASSUME IInv, PinInv, NEW r \in Request, HeadLeft(r)
    PROVE  /\ awaiting' \in Seq(Request)
           /\ WaitingOnce'
           /\ SeenPaysFor'
<1>1. LoginTypeOK /\ WaitingOnce
  BY DEF PinInv
<1>2. /\ awaiting' \in Seq(Request)
      /\ Len(awaiting) \in Nat
      /\ r = awaiting[1]
      /\ Len(awaiting') = Len(awaiting) - 1
      /\ \A i \in 1..Len(awaiting') :
             /\ i + 1 \in 1..Len(awaiting)
             /\ awaiting'[i] = awaiting[i + 1]
  BY <1>1, TailOfWaiting DEF HeadLeft
<1>3. ASSUME NEW i \in 1..Len(awaiting')
      PROVE  /\ i \in Nat
             /\ awaiting'[i] = awaiting[i + 1]
             /\ awaiting'[i] \in Request \ {r}
             /\ request'[awaiting'[i]] = request[awaiting[i + 1]]
  <2>1. i \in Nat /\ i + 1 \in 1..Len(awaiting) /\ i + 1 # 1 /\ 1 \in 1..Len(awaiting)
    BY <1>2
  <2>2. awaiting[i + 1] \in Request
    BY <1>1, <2>1 DEF LoginTypeOK
  <2>3. awaiting[i + 1] # r
    BY <1>1, <1>2, <2>1 DEF WaitingOnce
  <2> QED  BY <1>2, <2>1, <2>2, <2>3 DEF HeadLeft
<1>4. WaitingOnce'
  <2>1. \A i, j \in 1..Len(awaiting') : awaiting'[i] = awaiting'[j] => i = j
    <3>1. ASSUME NEW i \in 1..Len(awaiting'), NEW j \in 1..Len(awaiting'),
                 awaiting'[i] = awaiting'[j]
          PROVE  i = j
      <4>1. i + 1 = j + 1
        BY <1>1, <1>2, <3>1 DEF WaitingOnce
      <4> QED  BY <4>1
    <3> QED  BY <3>1
  <2>2. \A i \in 1..Len(awaiting') : request'[awaiting'[i]].phase = "counting"
    BY <1>1, <1>2, <1>3 DEF WaitingOnce
  <2> QED  BY <2>1, <2>2 DEF WaitingOnce
<1>5. ASSUME NEW i \in 1..Len(awaiting'), NEW q, q = request'[awaiting'[i]]
      PROVE  tries'[q.session] + i <= Budget(q.seen + 1)
  <2>1. q = request[awaiting[i + 1]] /\ q \in Progress /\ q.phase = "counting"
    BY <1>1, <1>2, <1>3, <1>5 DEF LoginTypeOK, WaitingOnce
  <2>2. tries[q.session] + (i + 1) <= Budget(q.seen + 1)
    BY <1>2, <2>1 DEF PinInv, SeenPaysFor
  <2>3. q.session \in loginStarted
    BY <1>1, <1>3, <1>5, <2>1 DEF PinInv, ForStartedLogins, WaitingOnce
  <2>4. q.session \in Session /\ q.seen + 1 \in Nat
    BY <2>1, <2>3, StartedAreSessions DEF Progress
  <2>5. Budget(q.seen + 1) \in Nat
    BY <2>4, BudgetGrows
  <2>6. /\ tries[q.session] \in Nat /\ tries'[q.session] \in Nat
        /\ tries'[q.session] <= tries[q.session] + 1
    BY <1>1, <2>4 DEF HeadLeft, LoginTypeOK
  <2> QED  BY <1>3, <2>2, <2>5, <2>6
<1> QED  BY <1>2, <1>4, <1>5 DEF SeenPaysFor

\* The queue stays; a session was sent no PIN, or its tries were forgotten.
QueueKept ==
    /\ awaiting' = awaiting
    /\ request' \in [Request -> Progress]
    /\ \A i \in 1..Len(awaiting) : request'[awaiting[i]] = request[awaiting[i]]
    /\ tries' \in [Session -> Nat]
    /\ \A s \in Session : tries'[s] <= tries[s]

LEMMA QueueStays ==
    ASSUME IInv, PinInv, QueueKept
    PROVE  WaitingOnce' /\ SeenPaysFor'
<1>1. WaitingOnce'
  BY DEF PinInv, WaitingOnce, QueueKept
<1>2. ASSUME NEW i \in 1..Len(awaiting), NEW q, q = request[awaiting[i]]
      PROVE  tries'[q.session] + i <= Budget(q.seen + 1)
  <2>1. awaiting[i] \in Request /\ q \in Progress /\ q.phase = "counting" /\ i \in Nat
    BY <1>2 DEF PinInv, LoginTypeOK, WaitingOnce
  <2>2. q.session \in Session /\ q.seen + 1 \in Nat
    BY <1>2, <2>1, StartedAreSessions DEF PinInv, ForStartedLogins, Progress
  <2>3. tries[q.session] + i <= Budget(q.seen + 1) /\ Budget(q.seen + 1) \in Nat
    BY <1>2, <2>2, BudgetGrows DEF PinInv, SeenPaysFor
  <2>4. /\ tries[q.session] \in Nat /\ tries'[q.session] \in Nat
        /\ tries'[q.session] <= tries[q.session]
    BY <2>2 DEF PinInv, LoginTypeOK, QueueKept
  <2> QED  BY <2>1, <2>3, <2>4
<1> QED  BY <1>1, <1>2 DEF SeenPaysFor, QueueKept, Budget

\* The count that a request is about to write pays for all that was sent.
LEMMA CountPays ==
    ASSUME IInv, PinInv, NEW r \in Request, Answered(r), NEW q, q = request[r]
    PROVE  /\ q \in Progress /\ q.session \in Session
           /\ q.seen + 1 \in Nat
           /\ tries[q.session] \in Nat
           /\ Budget(q.seen + 1) \in Nat
           /\ tries[q.session] + 1 <= Budget(q.seen + 1)
<1>1. LoginTypeOK /\ WaitingOnce
  BY DEF PinInv
<1>2. Len(awaiting) \in Nat \ {0} /\ r = awaiting[1]
  BY <1>1, TailOfWaiting DEF Answered
<1>3. q \in Progress /\ q.phase = "counting"
  BY <1>1, <1>2 DEF LoginTypeOK, WaitingOnce
<1>4. q.session \in Session /\ q.seen + 1 \in Nat
  BY <1>3, StartedAreSessions DEF PinInv, ForStartedLogins, Progress
<1>5. tries[q.session] \in Nat /\ Budget(q.seen + 1) \in Nat
  BY <1>1, <1>4, BudgetGrows DEF LoginTypeOK
<1>6. 1 \in 1..Len(awaiting)
  BY <1>2
<1>7. tries[q.session] + 1 <= Budget(q.seen + 1)
  BY <1>2, <1>6 DEF PinInv, SeenPaysFor
<1> QED  BY <1>3, <1>4, <1>5, <1>7

\* A counter that the head writes pays for its PIN, and lives long enough.
LEMMA CountedPays ==
    ASSUME IInv, PinInv, NEW r \in Request, Answered(r),
           NEW s, s = request[r].session,
           pinAttempts' = CountedIn(s, request[r].seen),
           sessions' = sessions, now' = now,
           tries' \in [Session -> Nat], tries'[s] <= tries[s] + 1,
           \A x \in Session \ {s} : tries'[x] = tries[x]
    PROVE  /\ \A x \in DOMAIN pinAttempts' : pinAttempts'[x] \in Attempt
           /\ KeyPaysFor'
<1>1. /\ s \in Session /\ request[r].seen \in Nat
      /\ tries[s] \in Nat /\ Budget(request[r].seen + 1) \in Nat
      /\ tries[s] + 1 <= Budget(request[r].seen + 1)
  BY CountPays DEF Progress
<1>2. /\ now \in Nat /\ AttemptsTTL \in Nat /\ SessionTTL \in Nat
      /\ SessionTTL <= AttemptsTTL
      /\ DOMAIN sessions \subseteq Session
      /\ \A x \in DOMAIN sessions : sessions[x].expires \in Nat
  BY TimeAssumption, LoginAssumption, TTLAssumption
  DEF IInv, CoreInv, TypeOK, SessionRow
<1>3. /\ DOMAIN pinAttempts' = DOMAIN pinAttempts \cup {s}
      /\ pinAttempts'[s] = [count |-> request[r].seen + 1, expires |-> now + AttemptsTTL]
      /\ \A x \in DOMAIN pinAttempts \ {s} : pinAttempts'[x] = pinAttempts[x]
  BY DEF CountedIn, Insert
<1>4. \A x \in DOMAIN pinAttempts' : pinAttempts'[x] \in Attempt
  <2>1. pinAttempts'[s] \in Attempt
    BY <1>1, <1>2, <1>3 DEF Attempt
  <2> QED  BY <1>3, <2>1 DEF PinInv, LoginTypeOK
<1>5. ASSUME NEW x \in DOMAIN sessions
      PROVE  /\ sessions[x].expires <= now + SessionTTL
             /\ tries'[x] > 0 =>
                    /\ x \in DOMAIN pinAttempts'
                    /\ sessions[x].expires <= pinAttempts'[x].expires
                    /\ tries'[x] <= Budget(pinAttempts'[x].count)
  <2>1. sessions[x].expires <= now + SessionTTL
    BY DEF PinInv, KeyPaysFor
  <2>2. CASE x # s
    BY <1>2, <1>3, <2>1, <2>2 DEF PinInv, KeyPaysFor
  <2>3. CASE x = s
    <3>1. sessions[x].expires <= pinAttempts'[x].expires
      BY <1>2, <1>3, <2>1, <2>3
    <3>2. tries'[x] <= Budget(pinAttempts'[x].count)
      BY <1>1, <1>3, <2>3
    <3> QED  BY <1>3, <2>1, <2>3, <3>1, <3>2
  <2> QED  BY <2>2, <2>3
<1> QED  BY <1>4, <1>5 DEF KeyPaysFor, Budget

-----------------------------------------------------------------------------
\* The steps of a request, each of which keeps the bound.
LEMMA BeginKeepsPin ==
    ASSUME IInv, IInv', PinInv, [Next]_vars,
           NEW r \in Request, NEW s \in Session, BeginVerify(r, s)
    PROVE  PinInv'
<1> DEFINE n == Len(awaiting)
<1>1. /\ request[r].phase = "idle" /\ LoginStarts(s)
      /\ UNCHANGED <<pinAttempts, tries, locked>>
      /\ request' = [request EXCEPT ![r] =
             [phase |-> "counting", session |-> s, seen |-> Attempts(s)]]
      /\ awaiting' = Append(awaiting, r)
  BY DEF BeginVerify
<1>2. LoginTypeOK /\ WaitingOnce /\ RowsKeepTheirExpiry
  BY RowsLast DEF PinInv
<1>3. Attempts(s) \in Nat
  BY <1>2 DEF LoginTypeOK, Attempts, Attempt
<1>4. request' \in [Request -> Progress] /\ tries' \in [Session -> Nat]
  BY <1>1, <1>2, <1>3 DEF LoginTypeOK, Progress
<1>5. /\ n \in Nat /\ awaiting' \in Seq(Request) /\ Len(awaiting') = n + 1
      /\ awaiting'[n + 1] = r
      /\ \A i \in 1..n : awaiting'[i] = awaiting[i] /\ awaiting[i] \in Request
  BY <1>1, <1>2 DEF LoginTypeOK
<1>6. LoginTypeOK'
  BY <1>1, <1>2, <1>4, <1>5 DEF LoginTypeOK
<1>7. \A i \in 1..n : awaiting[i] # r /\ request'[awaiting[i]] = request[awaiting[i]]
  BY <1>1, <1>2, <1>5 DEF LoginTypeOK, WaitingOnce
<1>8. request'[r] = [phase |-> "counting", session |-> s, seen |-> Attempts(s)]
  BY <1>1, <1>2 DEF LoginTypeOK
<1>9. WaitingOnce'
  <2>1. \A i, j \in 1..n+1 : awaiting'[i] = awaiting'[j] => i = j
    BY <1>2, <1>5, <1>7 DEF WaitingOnce
  <2>2. \A i \in 1..n+1 : request'[awaiting'[i]].phase = "counting"
    BY <1>2, <1>5, <1>7, <1>8 DEF WaitingOnce
  <2> QED  BY <1>5, <2>1, <2>2 DEF WaitingOnce
<1>10. ForStartedLogins'
  BY <1>1, <1>2, <1>8 DEF PinInv, ForStartedLogins, LoginTypeOK, LoginStarts
<1>11. tries[s] <= Budget(Attempts(s))
  <2>1. /\ s \in DOMAIN sessions /\ ~(sessions[s].expires < now)
        /\ sessions[s].expires \in Nat /\ now \in Nat
    BY <1>1 DEF LoginStarts, Expired, IInv, CoreInv, TypeOK, SessionRow
  <2>2. tries[s] \in Nat
    BY <1>2 DEF LoginTypeOK
  <2>3. CASE tries[s] = 0
    BY <1>3, <2>3, BudgetGrows
  <2>4. CASE tries[s] > 0
    <3>1. /\ s \in DOMAIN pinAttempts
          /\ sessions[s].expires <= pinAttempts[s].expires
          /\ tries[s] <= Budget(pinAttempts[s].count)
      BY <2>1, <2>4 DEF PinInv, KeyPaysFor
    <3>2. pinAttempts[s].expires \in Nat
      BY <1>2, <3>1 DEF LoginTypeOK, Attempt
    <3>3. ~(pinAttempts[s].expires < now)
      BY <2>1, <3>1, <3>2
    <3> QED  BY <3>1, <3>3 DEF Attempts, Expired
  <2> QED  BY <2>2, <2>3, <2>4
<1>12. SeenPaysFor'
  <2>1. ASSUME NEW i \in 1..n
        PROVE  tries[request'[awaiting'[i]].session] + i
                   <= Budget(request'[awaiting'[i]].seen + 1)
    BY <1>5, <1>7 DEF PinInv, SeenPaysFor
  <2>2. tries[s] + (n + 1) <= Budget(Attempts(s) + 1)
    <3>1. n + 1 <= Cardinality(Request)
      BY <1>1, <1>2, RoomToWait
    <3>2. /\ Budget(Attempts(s) + 1) = Budget(Attempts(s)) + Cardinality(Request)
          /\ Budget(Attempts(s)) \in Nat /\ Cardinality(Request) \in Nat
      BY <1>3, BudgetGrows
    <3>3. tries[s] \in Nat
      BY <1>2 DEF LoginTypeOK
    <3> QED  BY <1>5, <1>11, <3>1, <3>2, <3>3
  <2>3. ASSUME NEW i \in 1..n+1
        PROVE  tries[request'[awaiting'[i]].session] + i
                   <= Budget(request'[awaiting'[i]].seen + 1)
    <3>1. i \in 1..n \/ i = n + 1
      BY <1>5
    <3> QED  BY <1>5, <1>8, <2>1, <2>2, <3>1
  <2> QED  BY <1>1, <1>5, <2>3 DEF SeenPaysFor, Budget
<1>13. KeyPaysFor'
  BY <1>1, <1>2, KeptCountersPay DEF CounterKept
<1>14. WithinAttempts'
  BY <1>1 DEF PinInv, WithinAttempts, Budget
<1> QED  BY <1>6, <1>9, <1>10, <1>12, <1>13, <1>14 DEF PinInv

LEMMA CountKeepsPin ==
    ASSUME IInv, PinInv, NEW r \in Request, CountAttempt(r)
    PROVE  PinInv'
<1> DEFINE s == request[r].session
<1> HIDE DEF s
<1>1. /\ Answered(r) /\ request[r].seen < MaxAttempts
      /\ pinAttempts' = CountedIn(s, request[r].seen)
      /\ awaiting' = Tail(awaiting)
      /\ request' = [request EXCEPT ![r].phase = "verifying"]
      /\ tries' = [tries EXCEPT ![s] = @ + 1]
      /\ UNCHANGED vars
  BY DEF CountAttempt, MayTry, s
<1>2. LoginTypeOK /\ WaitingOnce
  BY DEF PinInv
<1>3. /\ s \in Session /\ request[r] \in Progress
      /\ tries[s] \in Nat /\ Budget(request[r].seen + 1) \in Nat
      /\ tries[s] + 1 <= Budget(request[r].seen + 1)
  BY <1>1, CountPays DEF s
<1>4. /\ tries' \in [Session -> Nat] /\ tries'[s] = tries[s] + 1
      /\ \A x \in Session \ {s} : tries'[x] = tries[x]
  BY <1>1, <1>2, <1>3 DEF LoginTypeOK
<1>5. request' \in [Request -> Progress]
      /\ \A q \in Request \ {r} : request'[q] = request[q]
  BY <1>1, <1>2 DEF LoginTypeOK, Progress
<1>6. \A x \in Session : tries'[x] <= tries[x] + 1
  BY <1>2, <1>4 DEF LoginTypeOK
<1>7. HeadLeft(r)
  BY <1>1, <1>4, <1>5, <1>6 DEF HeadLeft, Answered
<1>8. awaiting' \in Seq(Request) /\ WaitingOnce' /\ SeenPaysFor'
  BY <1>7, HeadLeaves
<1>9. (\A x \in DOMAIN pinAttempts' : pinAttempts'[x] \in Attempt) /\ KeyPaysFor'
  BY <1>1, <1>3, <1>4, CountedPays DEF s, vars, tables
<1>10. LoginTypeOK'
  BY <1>4, <1>5, <1>8, <1>9 DEF LoginTypeOK
<1>11. s \in loginStarted
  <2>1. r = awaiting[1] /\ 1 \in 1..Len(awaiting)
    BY <1>1, <1>2, TailOfWaiting DEF Answered
  <2>2. request[r].phase = "counting"
    BY <1>2, <2>1 DEF WaitingOnce
  <2> QED  BY <2>2 DEF PinInv, ForStartedLogins, s
<1>12. ForStartedLogins'
  <2>1. request'[r].session = s
    BY <1>1, <1>2 DEF LoginTypeOK, s, Progress
  <2>2. \A q \in Request : request'[q].phase # "idle" => request'[q].session \in loginStarted
    BY <1>5, <1>11, <2>1 DEF PinInv, ForStartedLogins
  <2>3. \A x \in Session : tries'[x] > 0 => x \in loginStarted
    BY <1>4, <1>11 DEF PinInv, ForStartedLogins
  <2> QED  BY <1>1, <2>2, <2>3 DEF ForStartedLogins, vars
<1>13. WithinAttempts'
  <2>1. Budget(request[r].seen + 1) <= Budget(MaxAttempts) /\ Budget(MaxAttempts) \in Nat
    <3>1. /\ request[r].seen \in Nat /\ MaxAttempts \in Nat
          /\ request[r].seen + 1 \in Nat /\ request[r].seen + 1 <= MaxAttempts
      BY <1>1, <1>3, LoginAssumption DEF Progress
    <3> QED  BY <3>1, BudgetGrows
  <2>2. tries'[s] <= Budget(MaxAttempts)
    BY <1>3, <1>4, <2>1
  <2> QED  BY <1>4, <2>2 DEF PinInv, WithinAttempts, Budget
<1> QED  BY <1>8, <1>9, <1>10, <1>12, <1>13 DEF PinInv

\* A request that leaves stops belonging to a login.
LEMMA LeavesFacts ==
    ASSUME LoginTypeOK, ForStartedLogins, NEW r \in Request, Leaves(r),
           loginStarted \subseteq loginStarted'
    PROVE  /\ request' \in [Request -> Progress]
           /\ \A q \in Request \ {r} : request'[q] = request[q]
           /\ \A q \in Request :
                  request'[q].phase # "idle" => request'[q].session \in loginStarted'
BY DEF LoginTypeOK, ForStartedLogins, Leaves, Idle, Progress

\* A lock-out spends the session, not its counter.
LEMMA LockOutKeepsPin ==
    ASSUME IInv, IInv', PinInv, [Next]_vars, NEW r \in Request, LockOut(r)
    PROVE  PinInv'
<1>1. /\ Answered(r) /\ awaiting' = Tail(awaiting) /\ Leaves(r)
      /\ UNCHANGED <<pinAttempts, tries>>
  BY DEF LockOut
<1>2. LoginTypeOK /\ ForStartedLogins /\ RowsKeepTheirExpiry
  BY RowsLast DEF PinInv
<1>3. /\ request' \in [Request -> Progress]
      /\ \A q \in Request \ {r} : request'[q] = request[q]
      /\ \A q \in Request :
             request'[q].phase # "idle" => request'[q].session \in loginStarted'
  BY <1>1, <1>2, LeavesFacts DEF RowsKeepTheirExpiry
<1>4. HeadLeft(r)
  BY <1>1, <1>2, <1>3 DEF HeadLeft, Answered, LoginTypeOK
<1>5. awaiting' \in Seq(Request) /\ WaitingOnce' /\ SeenPaysFor'
  BY <1>4, HeadLeaves
<1>6. LoginTypeOK'
  BY <1>1, <1>2, <1>3, <1>5 DEF LoginTypeOK
<1>7. ForStartedLogins'
  BY <1>1, <1>2, <1>3 DEF ForStartedLogins, RowsKeepTheirExpiry
<1>8. KeyPaysFor'
  BY <1>1, <1>2, KeptCountersPay DEF CounterKept
<1>9. WithinAttempts'
  BY <1>1 DEF PinInv, WithinAttempts, Budget
<1> QED  BY <1>5, <1>6, <1>7, <1>8, <1>9 DEF PinInv

\* A count written for a request that failed pays for a PIN never sent.
LEMMA CountFailsKeepsPin ==
    ASSUME IInv, IInv', PinInv, [Next]_vars, NEW r \in Request, CountFails(r)
    PROVE  PinInv'
<1>1. /\ Answered(r) /\ awaiting' = Tail(awaiting) /\ Leaves(r)
      /\ UNCHANGED <<vars, tries>>
      /\ \/ UNCHANGED pinAttempts
         \/ pinAttempts' = CountedIn(request[r].session, request[r].seen)
  BY DEF CountFails
<1>2. LoginTypeOK /\ ForStartedLogins /\ RowsKeepTheirExpiry
  BY RowsLast DEF PinInv
<1>3. /\ request' \in [Request -> Progress]
      /\ \A q \in Request \ {r} : request'[q] = request[q]
      /\ \A q \in Request :
             request'[q].phase # "idle" => request'[q].session \in loginStarted'
  BY <1>1, <1>2, LeavesFacts DEF RowsKeepTheirExpiry
<1>4. /\ tries' \in [Session -> Nat]
      /\ \A s \in Session : tries'[s] <= tries[s] + 1
  BY <1>1, <1>2 DEF LoginTypeOK
<1>5. HeadLeft(r)
  BY <1>1, <1>3, <1>4 DEF HeadLeft, Answered
<1>6. awaiting' \in Seq(Request) /\ WaitingOnce' /\ SeenPaysFor'
  BY <1>5, HeadLeaves
<1>7. (\A s \in DOMAIN pinAttempts' : pinAttempts'[s] \in Attempt) /\ KeyPaysFor'
  <2>1. CASE UNCHANGED pinAttempts
    <3>1. KeyPaysFor'
      BY <1>1, <1>2, <2>1, KeptCountersPay DEF CounterKept
    <3> QED  BY <1>2, <2>1, <3>1 DEF LoginTypeOK
  <2>2. CASE pinAttempts' = CountedIn(request[r].session, request[r].seen)
    <3>1. request[r].session \in Session
      BY <1>1, CountPays
    <3>2. sessions' = sessions /\ now' = now
      BY <1>1 DEF vars, tables
    <3>3. tries'[request[r].session] <= tries[request[r].session] + 1
      BY <1>4, <3>1
    <3> QED  BY <1>1, <1>4, <2>2, <3>2, <3>3, CountedPays
  <2> QED  BY <1>1, <2>1, <2>2
<1>8. LoginTypeOK'
  BY <1>3, <1>4, <1>6, <1>7 DEF LoginTypeOK
<1>9. ForStartedLogins'
  BY <1>1, <1>2, <1>3 DEF ForStartedLogins, RowsKeepTheirExpiry
<1>10. WithinAttempts'
  BY <1>1 DEF PinInv, WithinAttempts, Budget
<1> QED  BY <1>6, <1>7, <1>8, <1>9, <1>10 DEF PinInv

\* Deleting a counter forgets its tries.
LEMMA DeletedCounter ==
    ASSUME LoginTypeOK, NEW s \in Session,
           pinAttempts' = Delete(pinAttempts, {s}),
           tries' = [tries EXCEPT ![s] = 0]
    PROVE  /\ \A x \in DOMAIN pinAttempts' : pinAttempts'[x] \in Attempt
           /\ tries' \in [Session -> Nat]
           /\ \A x \in Session : tries'[x] <= tries[x] /\ CounterKept(x)
<1>1. /\ DOMAIN pinAttempts' = DOMAIN pinAttempts \ {s}
      /\ \A x \in DOMAIN pinAttempts' : pinAttempts'[x] = pinAttempts[x]
  BY DEF Delete, Restrict
<1>2. /\ tries' \in [Session -> Nat]
      /\ \A x \in Session : tries'[x] = IF x = s THEN 0 ELSE tries[x]
  BY DEF LoginTypeOK
<1>3. \A x \in Session : tries'[x] <= tries[x]
  BY <1>2 DEF LoginTypeOK
<1>4. \A x \in Session : CounterKept(x)
  BY <1>1, <1>2 DEF CounterKept
<1> QED  BY <1>1, <1>2, <1>3, <1>4 DEF LoginTypeOK

\* Steps that add no PIN and leave the queue alone.
LEMMA QuietKeepsPin ==
    ASSUME IInv, IInv', PinInv, [Next]_vars, QueueKept,
           \A x \in DOMAIN pinAttempts' : pinAttempts'[x] \in Attempt,
           \A x \in Session : CounterKept(x),
           \A q \in Request :
               request'[q].phase # "idle" => request'[q].session \in loginStarted'
    PROVE  PinInv'
<1>1. RowsKeepTheirExpiry
  BY RowsLast
<1>2. LoginTypeOK'
  BY DEF PinInv, LoginTypeOK, QueueKept
<1>3. WaitingOnce' /\ SeenPaysFor'
  BY QueueStays
<1>4. KeyPaysFor'
  BY <1>1, KeptCountersPay
<1>5. \A s \in Session : tries[s] \in Nat /\ tries'[s] \in Nat /\ tries'[s] <= tries[s]
  BY DEF PinInv, LoginTypeOK, QueueKept
<1>6. ForStartedLogins'
  BY <1>1, <1>5 DEF PinInv, ForStartedLogins, RowsKeepTheirExpiry
<1>7. WithinAttempts'
  <2>1. Budget(MaxAttempts) \in Nat
    BY LoginAssumption, BudgetGrows
  <2> QED  BY <1>5, <2>1 DEF PinInv, WithinAttempts, Budget
<1> QED  BY <1>2, <1>3, <1>4, <1>6, <1>7 DEF PinInv

\* What the backend answers adds no PIN.
LEMMA VerifyKeepsPin ==
    ASSUME IInv, IInv', PinInv, [Next]_vars, NEW r \in Request,
           VerifyRejected(r) \/ \E e \in JwtExpiry : VerifyAccepted(r, e)
    PROVE  PinInv'
<1> DEFINE s == request[r].session
<1>1. LoginTypeOK /\ WaitingOnce /\ ForStartedLogins /\ RowsKeepTheirExpiry
  BY RowsLast DEF PinInv
<1>2. /\ request[r].phase = "verifying" /\ Leaves(r) /\ awaiting' = awaiting
      /\ \/ UNCHANGED <<pinAttempts, tries>>
         \/ /\ pinAttempts' = Delete(pinAttempts, {s})
            /\ tries' = [tries EXCEPT ![s] = 0]
  BY DEF VerifyRejected, VerifyAccepted
<1>3. s \in Session
  BY <1>1, <1>2, StartedAreSessions DEF ForStartedLogins
<1>4. /\ request' \in [Request -> Progress]
      /\ \A q \in Request \ {r} : request'[q] = request[q]
      /\ \A q \in Request :
             request'[q].phase # "idle" => request'[q].session \in loginStarted'
  BY <1>1, <1>2, LeavesFacts DEF RowsKeepTheirExpiry
<1>5. /\ \A x \in DOMAIN pinAttempts' : pinAttempts'[x] \in Attempt
      /\ tries' \in [Session -> Nat]
      /\ \A x \in Session : tries'[x] <= tries[x] /\ CounterKept(x)
  <2>1. CASE UNCHANGED <<pinAttempts, tries>>
    BY <1>1, <2>1 DEF LoginTypeOK, CounterKept
  <2>2. CASE /\ pinAttempts' = Delete(pinAttempts, {s})
             /\ tries' = [tries EXCEPT ![s] = 0]
    <3> HIDE DEF s
    <3> QED  BY <1>1, <1>3, <2>2, DeletedCounter
  <2> QED  BY <1>2, <2>1, <2>2
<1>6. \A i \in 1..Len(awaiting) : request'[awaiting[i]] = request[awaiting[i]]
  BY <1>1, <1>2, <1>4 DEF LoginTypeOK, WaitingOnce
<1>7. QueueKept
  BY <1>2, <1>4, <1>5, <1>6 DEF QueueKept
<1> QED  BY <1>4, <1>5, <1>7, QuietKeepsPin

\* A restart of either server forgets requests, or a counter and its tries.
LEMMA RestartsKeepPin ==
    ASSUME IInv, IInv', PinInv, [Next]_vars,
           ServerRestarts \/ \E s \in Session : ValkeyRestarts(s)
    PROVE  PinInv'
<1>1. LoginTypeOK /\ RowsKeepTheirExpiry
  BY RowsLast DEF PinInv
<1>2. CASE ServerRestarts
  <2>1. /\ awaiting' = <<>> /\ request' = [r \in Request |-> Idle]
        /\ UNCHANGED <<vars, pinAttempts, tries>>
    BY <1>2 DEF ServerRestarts
  <2>2. Idle \in Progress /\ Idle.phase = "idle"
    BY DEF Idle, Progress
  <2>3. awaiting' \in Seq(Request) /\ 1..Len(awaiting') = {}
    BY <2>1
  <2>4. LoginTypeOK'
    BY <1>1, <2>1, <2>2, <2>3 DEF LoginTypeOK
  <2>5. WaitingOnce' /\ SeenPaysFor'
    BY <2>3 DEF WaitingOnce, SeenPaysFor
  <2>6. ForStartedLogins'
    BY <2>1, <2>2 DEF PinInv, ForStartedLogins, vars
  <2>7. KeyPaysFor'
    BY <1>1, <2>1, KeptCountersPay DEF CounterKept
  <2>8. WithinAttempts'
    BY <2>1 DEF PinInv, WithinAttempts, Budget
  <2> QED  BY <2>4, <2>5, <2>6, <2>7, <2>8 DEF PinInv
<1>3. ASSUME NEW s \in Session, ValkeyRestarts(s)
      PROVE  PinInv'
  <2>1. /\ pinAttempts' = Delete(pinAttempts, {s})
        /\ tries' = [tries EXCEPT ![s] = 0]
        /\ UNCHANGED <<vars, awaiting, request>>
    BY <1>3 DEF ValkeyRestarts
  <2>2. /\ \A x \in DOMAIN pinAttempts' : pinAttempts'[x] \in Attempt
        /\ tries' \in [Session -> Nat]
        /\ \A x \in Session : tries'[x] <= tries[x] /\ CounterKept(x)
    BY <1>1, <2>1, DeletedCounter
  <2>3. QueueKept
    BY <1>1, <2>1, <2>2 DEF QueueKept, LoginTypeOK
  <2>4. \A q \in Request :
            request'[q].phase # "idle" => request'[q].session \in loginStarted'
    BY <2>1 DEF PinInv, ForStartedLogins, vars
  <2> QED  BY <2>2, <2>3, <2>4, QuietKeepsPin
<1> QED  BY <1>2, <1>3

LEMMA PinNext ==
    ASSUME IInv, PinInv, [LoginNext]_allVars
    PROVE  PinInv'
<1>1. [Next]_vars /\ IInv'
  BY LoginStepIsOAuthStep, NextInv
<1>2. ASSUME UNCHANGED loginVars
      PROVE  PinInv'
  <2>1. RowsKeepTheirExpiry
    BY <1>1, RowsLast
  <2>2. UNCHANGED <<pinAttempts, awaiting, request, tries>>
    BY <1>2 DEF loginVars
  <2>3. QueueKept
    BY <2>2 DEF PinInv, LoginTypeOK, QueueKept
  <2>4. \A q \in Request :
            request'[q].phase # "idle" => request'[q].session \in loginStarted'
    BY <2>1, <2>2 DEF PinInv, ForStartedLogins, RowsKeepTheirExpiry
  <2>5. /\ \A x \in DOMAIN pinAttempts' : pinAttempts'[x] \in Attempt
        /\ \A x \in Session : CounterKept(x)
    BY <2>2 DEF PinInv, LoginTypeOK, CounterKept
  <2> QED  BY <1>1, <2>3, <2>4, <2>5, QuietKeepsPin
<1>3. ASSUME NEW r \in Request, RequestStep(r)
      PROVE  PinInv'
  <2>1. CASE LockOut(r)
    BY <1>1, <2>1, LockOutKeepsPin
  <2>2. CASE CountAttempt(r)
    BY <2>2, CountKeepsPin
  <2>3. CASE CountFails(r)
    BY <1>1, <2>3, CountFailsKeepsPin
  <2>4. CASE VerifyRejected(r) \/ \E e \in JwtExpiry : VerifyAccepted(r, e)
    BY <1>1, <2>4, VerifyKeepsPin
  <2> QED  BY <1>3, <2>1, <2>2, <2>3, <2>4 DEF RequestStep
<1>4. ASSUME NEW r \in Request, NEW s \in Session, BeginVerify(r, s)
      PROVE  PinInv'
  BY <1>1, <1>4, BeginKeepsPin
<1>5. CASE ServerRestarts \/ \E s \in Session : ValkeyRestarts(s)
  BY <1>1, <1>5, RestartsKeepPin
<1>6. CASE (HandlerStep /\ UNCHANGED loginVars) \/ UNCHANGED allVars
  BY <1>2, <1>6 DEF allVars
<1> QED  BY <1>3, <1>4, <1>5, <1>6 DEF LoginNext

LEMMA PinInit == LoginInit => PinInv
<1> SUFFICES ASSUME LoginInit
             PROVE  PinInv
  OBVIOUS
<1>1. /\ awaiting = <<>> /\ pinAttempts = <<>> /\ sessions = <<>>
      /\ request = [r \in Request |-> Idle] /\ tries = [s \in Session |-> 0]
  BY DEF LoginInit, Init
<1>2. LoginTypeOK /\ WaitingOnce /\ SeenPaysFor
  BY <1>1 DEF LoginTypeOK, WaitingOnce, SeenPaysFor, Idle, Progress
<1>3. ForStartedLogins /\ KeyPaysFor
  BY <1>1 DEF ForStartedLogins, KeyPaysFor, Idle
<1>4. WithinAttempts
  <2>1. Budget(MaxAttempts) \in Nat
    BY LoginAssumption, BudgetGrows
  <2> QED  BY <1>1, <2>1 DEF WithinAttempts
<1> QED  BY <1>2, <1>3, <1>4 DEF PinInv

\* While a session can be used its key is there, so what is read pays.
LEMMA PinInvBounds == IInv /\ PinInv => TriesAreBounded
<1> SUFFICES ASSUME IInv, PinInv
             PROVE  TriesAreBounded
  OBVIOUS
<1>1. \A s \in Session : tries[s] <= MaxAttempts * Cardinality(Request)
  BY DEF PinInv, WithinAttempts, Budget
<1>2. ASSUME NEW s \in DOMAIN sessions, ~Expired(sessions[s].expires)
      PROVE  tries[s] <= Budget(Attempts(s))
  <2>1. /\ s \in Session /\ sessions[s].expires \in Nat /\ now \in Nat
        /\ ~(sessions[s].expires < now)
    BY <1>2 DEF Expired, IInv, CoreInv, TypeOK, SessionRow
  <2>2. tries[s] \in Nat
    BY <2>1 DEF PinInv, LoginTypeOK
  <2>3. Attempts(s) \in Nat
    BY DEF PinInv, LoginTypeOK, Attempts, Attempt
  <2>4. CASE tries[s] = 0
    BY <2>3, <2>4, BudgetGrows
  <2>5. CASE tries[s] > 0
    <3>1. /\ s \in DOMAIN pinAttempts
          /\ sessions[s].expires <= pinAttempts[s].expires
          /\ tries[s] <= Budget(pinAttempts[s].count)
      BY <2>5 DEF PinInv, KeyPaysFor
    <3>2. pinAttempts[s].expires \in Nat
      BY <3>1 DEF PinInv, LoginTypeOK, Attempt
    <3>3. ~(pinAttempts[s].expires < now)
      BY <2>1, <3>1, <3>2
    <3> QED  BY <3>1, <3>3 DEF Attempts, Expired
  <2> QED  BY <2>2, <2>4, <2>5
<1> QED  BY <1>1, <1>2 DEF TriesAreBounded, Budget

\* Whatever N requests interleave, fail, restart or outlive, a session is
\* worth N * MAX_PIN_ATTEMPTS PINs, and its counter pays for those sent.
THEOREM TriesStayBounded == LoginSpec => []TriesAreBounded
<1>1. LoginInit => PinInv
  BY PinInit
<1>2. IInv /\ PinInv /\ [LoginNext]_allVars => PinInv'
  BY PinNext
<1>3. IInv /\ PinInv => TriesAreBounded
  BY PinInvBounds
<1> QED  BY <1>1, <1>2, <1>3, LoginImplementsOAuth, PTL DEF LoginSpec
\* So what OAuth promises holds while logins race, fail and outlive restarts.
THEOREM LoginKeepsPromises ==
    LoginSpec => /\ [](GrantYieldsOnce /\ LivePairsAgree /\ RevokedFamilyStaysClosed)
                 /\ RejectionIsFinal /\ CleanupKeepsLiveGrants /\ FamilySpec
<1>1. LoginSpec => Spec
  BY LoginImplementsOAuth DEF OAuthSpec
<1> QED BY <1>1, SingleUse, LivePair, RevocationLasts, RefusalLasts, CleanupIsHarmless,
           ImplementsTokenFamily, PTL
=============================================================================
