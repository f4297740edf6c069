-------------------------- MODULE SseSessionProofs --------------------------
(***************************************************************************)
(* Proofs about the queries of a tool call, and about the SSE sessions     *)
(* that carry it: LokiClient bounds the wait for Loki and makes the call   *)
(* reflect its queries, in a session too; a call has a stream to answer    *)
(* on; and what the queries select is what list_builds shows.              *)
(***************************************************************************)
EXTENDS SseSessionProps, TLAPS

Waits == {"headers", "delay"}

\* Every query is at some point of its two attempts.
QueryType ==
    query \in [Query -> [phase : {"unsent", "headers", "delay", "body"} \cup Outcome,
                         attempt : 0..2, due : Nat]]

\* How long the attempt, or the pause, that a query is in may last.
Latest(q) ==
    CASE query[q].phase = "delay"                          -> RequestTimeout + RetryDelay
      [] query[q].phase = "headers" /\ query[q].attempt = 1 -> RequestTimeout
      [] OTHER                                              -> Longest

\* The clock starts with the queries and stops for their timers.
TimersAreDue ==
    /\ now \in Nat
    /\ Sent = {} => now = 0
    /\ \A q \in Query : query[q].phase \in Waits =>
           /\ now <= query[q].due /\ query[q].due <= Latest(q)
           /\ query[q].attempt \in (IF query[q].phase = "delay" THEN {1} ELSE {1, 2})

\* A query is unsent exactly while its record says so.
SentAreNumbered ==
    \A q \in Query : query[q] = Unsent <=> query[q].phase = "unsent"

LokiInv ==
    /\ QueryType /\ SentAreNumbered
    /\ TimersAreDue
    /\ tool \in {"pending"} \cup Outcome
    /\ CallReflectsQueries

\* Before anything is sent, all of this holds.
LEMMA LokiStarts == Init => LokiInv
<1> SUFFICES ASSUME Init PROVE LokiInv
  OBVIOUS
<1>1. \A q \in Query : query[q] = Unsent /\ query[q].phase = "unsent"
  BY DEF Init, Unsent
<1>2. Sent = {}
  BY <1>1 DEF Sent
<1>3. QueryType
  BY DEF Init, QueryType, Unsent
<1>4. SentAreNumbered /\ TimersAreDue
  BY <1>1, <1>2 DEF Init, SentAreNumbered, TimersAreDue, Waits
<1>5. CallReflectsQueries
  BY <1>1, <1>2 DEF Init, CallReflectsQueries, Outcome
<1> QED BY <1>3, <1>4, <1>5 DEF Init, LokiInv

\* Two fields of a query change.
LEMMA TwoFields ==
  ASSUME QueryType, NEW q \in Query, NEW p, NEW d
  PROVE  [query EXCEPT ![q].phase = p, ![q].due = d] =
         [query EXCEPT ![q] = [phase |-> p, attempt |-> query[q].attempt, due |-> d]]
<1> DEFINE old == query[q]
           half == [query EXCEPT ![q].phase = p]
<1>1. old = [phase |-> old.phase, attempt |-> old.attempt, due |-> old.due]
  BY DEF QueryType
<1>2. [old EXCEPT !.phase = p] = [phase |-> p, attempt |-> old.attempt, due |-> old.due]
  BY <1>1
<1>3. half[q] = [phase |-> p, attempt |-> old.attempt, due |-> old.due]
  BY <1>2 DEF QueryType
<1>4. [half[q] EXCEPT !.due = d] = [phase |-> p, attempt |-> old.attempt, due |-> d]
  BY <1>3
<1>5. [half EXCEPT ![q].due = d] =
      [half EXCEPT ![q] = [phase |-> p, attempt |-> old.attempt, due |-> d]]
  BY <1>4
<1>6. [half EXCEPT ![q] = [phase |-> p, attempt |-> old.attempt, due |-> d]] =
      [query EXCEPT ![q] = [phase |-> p, attempt |-> old.attempt, due |-> d]]
  BY DEF QueryType
<1> QED BY <1>5, <1>6

\* A query that ends takes the call with it, or leaves it to the others.
LEMMA SettlingReflects ==
  ASSUME LokiInv, NEW q \in Query, query[q].phase \in {"headers", "body"},
         NEW outcome \in Outcome, Settles(q, outcome), UNCHANGED now
  PROVE  LokiInv'
<1>1. query' = [query EXCEPT ![q] = [phase |-> outcome, attempt |-> query[q].attempt, due |-> 0]]
  BY TwoFields DEF Settles, LokiInv
<1>2. QueryType'
  BY <1>1 DEF LokiInv, QueryType
<1>3. SentAreNumbered' /\ Sent' = Sent /\ q \in Sent
  BY <1>1 DEF LokiInv, QueryType, SentAreNumbered, Sent, Unsent, Outcome
<1>4. TimersAreDue'
  BY <1>1, <1>3 DEF LokiInv, QueryType, TimersAreDue, Latest, Longest, Waits, Outcome
<1>5. tool' \in {"pending"} \cup Outcome
  BY DEF Settles, LokiInv, Outcome
<1>6. \A p \in Query : query'[p].phase = IF p = q THEN outcome ELSE query[p].phase
  BY <1>1 DEF LokiInv, QueryType
<1>7. tool # "result"
  BY <1>3 DEF LokiInv, CallReflectsQueries, Outcome
<1>8. CallReflectsQueries'
  <2>1. CASE tool # "pending"
    <3>1. PICK p \in Query : query[p].phase = tool
      BY <2>1 DEF LokiInv, CallReflectsQueries
    <3>2. tool' = tool /\ tool \notin {"result", "pending"} /\ p # q
      BY <2>1, <1>7, <3>1 DEF Settles, LokiInv, Outcome
    <3>3. query'[p].phase = tool' /\ p \in Sent
      BY <3>1, <3>2, <1>6 DEF LokiInv, SentAreNumbered, Sent, Outcome
    <3> QED BY <3>2, <3>3, <1>3 DEF CallReflectsQueries
  <2>2. CASE tool = "pending"
    BY <2>2, <1>3, <1>6 DEF Settles, LokiInv, CallReflectsQueries, Outcome, Sent
  <2> QED BY <2>1, <2>2
<1> QED BY <1>2, <1>3, <1>4, <1>5, <1>8 DEF LokiInv

\* What becomes of a query that does not end with the step leaves the call.
LEMMA WaitingReflects ==
  ASSUME LokiInv, NEW q \in Query, query[q].phase \in {"headers", "delay"},
         NEW r \in [phase : {"headers", "delay", "body"}, attempt : 1..2, due : Nat],
         query' = [query EXCEPT ![q] = r], UNCHANGED <<now, tool>>,
         r.phase = "headers" => r.attempt = 2 /\ now <= r.due /\ r.due <= Longest,
         r.phase = "delay" => r.attempt = 1 /\ now <= r.due /\ r.due <= RequestTimeout + RetryDelay
  PROVE  LokiInv'
<1>1. QueryType'
  BY DEF LokiInv, QueryType
<1>2. SentAreNumbered' /\ Sent' = Sent /\ q \in Sent
  BY DEF LokiInv, QueryType, SentAreNumbered, Sent, Unsent
<1>3. TimersAreDue'
  <2>1. now' \in Nat /\ (Sent' = {} => now' = 0)
    BY <1>2 DEF LokiInv, TimersAreDue
  <2>2. ASSUME NEW p \in Query, query'[p].phase \in Waits
        PROVE  /\ now' <= query'[p].due /\ query'[p].due <= Latest(p)'
               /\ query'[p].attempt \in (IF query'[p].phase = "delay" THEN {1} ELSE {1, 2})
    <3>1. CASE p = q
      BY <2>2, <3>1 DEF LokiInv, QueryType, Latest, Waits
    <3>2. CASE p # q
      BY <2>2, <3>2 DEF LokiInv, QueryType, TimersAreDue, Latest, Waits
    <3> QED BY <3>1, <3>2
  <2> QED BY <2>1, <2>2 DEF TimersAreDue
<1>4. \A p \in Query : query'[p].phase = IF p = q THEN r.phase ELSE query[p].phase
  BY DEF LokiInv, QueryType
<1>5. tool # "result"
  BY <1>2 DEF LokiInv, CallReflectsQueries, Outcome
<1>6. CallReflectsQueries'
  BY <1>2, <1>4, <1>5 DEF LokiInv, CallReflectsQueries, Outcome, Sent
<1> QED BY <1>1, <1>2, <1>3, <1>6 DEF LokiInv

\* An attempt that fails is the first, or the query fails with it.
LEMMA RejectedReflects ==
  ASSUME LokiInv, NEW q \in Query, query[q].phase = "headers", Rejected(q), UNCHANGED now
  PROVE  LokiInv'
<1>1. CASE MayRetry(q)
  <2> DEFINE r == [phase |-> "delay", attempt |-> 1, due |-> now + RetryDelay]
  <2>1. query' = [query EXCEPT ![q] = r] /\ UNCHANGED tool
    <3>1. QueryType /\ query[q].attempt = 1 /\ Delays(q)
      BY <1>1 DEF Rejected, MayRetry, LokiInv
    <3>2. [query EXCEPT ![q].phase = "delay", ![q].due = now + RetryDelay] =
          [query EXCEPT ![q] = [phase |-> "delay", attempt |-> query[q].attempt,
                                due |-> now + RetryDelay]]
      BY <3>1, TwoFields
    <3> QED BY <3>1, <3>2 DEF Delays
  <2>2. now <= RequestTimeout /\ now \in Nat
    BY <1>1, LokiAssumption DEF MayRetry, LokiInv, QueryType, TimersAreDue, Latest, Waits
  <2>3. /\ r \in [phase : {"headers", "delay", "body"}, attempt : 1..2, due : Nat]
        /\ r.phase = "delay" /\ r.attempt = 1
        /\ now <= r.due /\ r.due <= RequestTimeout + RetryDelay
    BY <2>2, LokiAssumption
  <2> HIDE DEF r
  <2> QED BY <2>1, <2>3, WaitingReflects
<1>2. CASE ~MayRetry(q)
  BY <1>2, SettlingReflects DEF Rejected, Outcome
<1> QED BY <1>1, <1>2

\* Each step of LokiClient keeps the invariant.
LEMMA LokiStepKeeps == LokiInv /\ [Next]_vars => LokiInv'
<1> SUFFICES ASSUME LokiInv, [Next]_vars PROVE LokiInv'
  OBVIOUS
<1>1. ASSUME NEW qs \in SUBSET Query, Sends(qs) PROVE LokiInv'
  <2>1. now = 0
    BY <1>1 DEF Sends, LokiInv, TimersAreDue
  <2>2. tool = "pending"
    BY <1>1 DEF Sends, LokiInv, CallReflectsQueries, SentAreNumbered, Sent, Outcome
  <2>3. /\ now' = 0 /\ tool' = "pending"
        /\ query' = [q \in Query |-> IF q \in qs
              THEN [phase |-> "headers", attempt |-> 1, due |-> RequestTimeout] ELSE Unsent]
    BY <1>1, <2>1, <2>2, LokiAssumption DEF Sends
  <2>4. QueryType' /\ SentAreNumbered'
    BY <2>3, LokiAssumption DEF QueryType, SentAreNumbered, Unsent
  <2>5. TimersAreDue'
    BY <2>3, LokiAssumption DEF TimersAreDue, Latest, Waits, Unsent
  <2>6. CallReflectsQueries'
    BY <2>3 DEF CallReflectsQueries, Outcome, Sent, Unsent
  <2> QED BY <2>3, <2>4, <2>5, <2>6 DEF LokiInv
<1>2. ASSUME Tick PROVE LokiInv'
  <2>1. Sent' = Sent /\ Sent # {} /\ now' = now + 1 /\ UNCHANGED <<query, tool>>
    BY <1>2 DEF Tick, Sent
  <2>2. \A q \in Query : Latest(q)' = Latest(q)
    BY <2>1 DEF Latest, Longest
  <2>3. TimersAreDue'
    BY <1>2, <2>1, <2>2 DEF LokiInv, QueryType, TimersAreDue, Tick, Waits
  <2> QED BY <2>1, <2>3 DEF LokiInv, QueryType, SentAreNumbered, CallReflectsQueries, Sent
<1>3. ASSUME NEW q \in Query, QueryStep(q) PROVE LokiInv'
  <2>1. CASE Headers(q)
    <3> DEFINE r == [phase |-> "body", attempt |-> query[q].attempt, due |-> 0]
    <3>1. query' = [query EXCEPT ![q] = r]
      BY <2>1, TwoFields DEF Headers, LokiInv
    <3>2. query[q].attempt \in 1..2
      BY <2>1 DEF Headers, LokiInv, TimersAreDue, Waits
    <3> QED BY <2>1, <3>1, <3>2, WaitingReflects DEF Headers
  <2>2. CASE BodyOfResult(q)
    BY <2>2, SettlingReflects DEF BodyOfResult, Outcome
  <2>3. CASE StatusIsError(q)
    BY <2>3, SettlingReflects DEF StatusIsError, Outcome
  <2>4. CASE ServerError(q)
    BY <2>4, RejectedReflects DEF ServerError, Rejected
  <2>5. CASE NetworkFails(q)
    BY <2>5, RejectedReflects DEF NetworkFails
  <2>6. CASE TimesOut(q)
    BY <2>6, RejectedReflects DEF TimesOut
  <2>7. CASE Retries(q)
    <3> DEFINE r == [phase |-> "headers", attempt |-> 2, due |-> now + RequestTimeout]
    <3>1. query[q].attempt = 1 /\ now <= RequestTimeout + RetryDelay /\ now \in Nat
      BY <2>7, LokiAssumption DEF Retries, LokiInv, QueryType, TimersAreDue, Latest, Waits
    <3>2. query' = [query EXCEPT ![q] = r]
      BY <2>7, <3>1 DEF Retries, LokiInv, QueryType
    <3>3. /\ r \in [phase : {"headers", "delay", "body"}, attempt : 1..2, due : Nat]
          /\ r.phase = "headers" /\ r.attempt = 2
          /\ now <= r.due /\ r.due <= Longest
      BY <3>1, LokiAssumption DEF Longest
    <3> HIDE DEF r
    <3> QED BY <2>7, <3>2, <3>3, WaitingReflects DEF Retries
  <2> QED BY <1>3, <2>1, <2>2, <2>3, <2>4, <2>5, <2>6, <2>7 DEF QueryStep
<1>4. CASE UNCHANGED vars
  BY <1>4 DEF vars, LokiInv, QueryType, SentAreNumbered, TimersAreDue, Latest,
      CallReflectsQueries, Sent
<1> QED BY <1>1, <1>2, <1>3, <1>4 DEF Next

\* The invariant holds in all of LokiClient.
THEOREM LokiInvariance == Spec => []LokiInv
  BY LokiStarts, LokiStepKeeps, PTL DEF Spec

\* No query waits for headers, or to be sent again, longer than two timeouts and
\* the pause between them.
THEOREM HeadersArrive == Spec => []HeadersInTime
<1>1. LokiInv => HeadersInTime
  BY LokiAssumption DEF LokiInv, QueryType, TimersAreDue, Latest, Longest, HeadersInTime, Waits
<1> QED BY <1>1, LokiInvariance, PTL

-----------------------------------------------------------------------------
\* Each step of a session sends queries, is a step of theirs, or leaves them
\* alone: whatever holds of LokiClient holds here.
LEMMA SessionsUseLoki == SseSpec => Spec
<1>1. SseInit => Init
  BY DEF SseInit
<1>2. [SseNext]_allVars => [Next]_vars
  <2> SUFFICES ASSUME [SseNext]_allVars PROVE [Next]_vars
    OBVIOUS
  <2>1. CASE Queries
    BY <2>1 DEF Queries, Next
  <2>2. CASE LokiStep(Tick) \/ \E q \in Query : LokiStep(QueryStep(q))
    BY <2>2 DEF LokiStep, Next
  <2>3. CASE \/ \E s \in Session : Connects(s) \/ Disconnects(s)
             \/ \E s \in Session, t \in Tool, i \in Input : Posts(s, t, i)
             \/ Cancels \/ Denies \/ Finishes \/ Sigterm \/ Exits
    BY <2>3 DEF Connects, Disconnects, Posts, Cancels, Denies, Finishes, Sigterm, Exits
  <2>4. CASE UNCHANGED allVars
    BY <2>4 DEF allVars, vars
  <2> QED BY <2>1, <2>2, <2>3, <2>4 DEF SseNext
<1> QED BY <1>1, <1>2, PTL DEF SseSpec, Spec

\* So a call over SSE reflects its queries, which wait for headers in time.
THEOREM SseCallsReflect == SseSpec => [](HeadersInTime /\ CallReflectsQueries)
<1>1. LokiInv => CallReflectsQueries
  BY DEF LokiInv
<1> QED BY <1>1, SessionsUseLoki, LokiInvariance, HeadersArrive, PTL

-----------------------------------------------------------------------------
Held == [phase : {"answered", "dropped", "refused", "queries"}, session : Session,
         aborted : BOOLEAN]

Accepting == [phase : {"scope"}, session : Session, tool : Tool, input : Input,
              aborted : BOOLEAN]

\* The map holds the open sessions, and a call belongs to one that was opened.
SessionInv ==
    /\ sse \in [Session -> {"none", "open", "closed"}]
    /\ call \in {NoCall} \cup Held \cup Accepting
    /\ call # NoCall => sse[call.session] # "none"
    /\ AnswersHaveAStream

\* A call that ends is answered, unless it was cancelled or its client has gone.
LEMMA AnsweringKeeps ==
  ASSUME SessionInv, call.phase \in {"scope", "queries"}, Answers, UNCHANGED <<sse, sseSessions>>
  PROVE  SessionInv'
<1>1. call # NoCall /\ call.session \in Session /\ call.aborted \in BOOLEAN
  BY DEF SessionInv, NoCall, Held, Accepting
<1>2. call'.session = call.session /\ call'.aborted = call.aborted /\ call' \in Held
  BY <1>1 DEF Answers, Over, Held
<1>3. call'.phase = "dropped" => call.aborted \/ sse[call.session] # "open"
  BY DEF Answers, Over
<1> QED BY <1>1, <1>2, <1>3 DEF SessionInv, AnswersHaveAStream

\* This holds of every state that an SSE session can reach.
THEOREM SessionInvariance == SseSpec => []SessionInv
<1>1. SseInit => SessionInv
  BY DEF SseInit, SessionInv, AnswersHaveAStream, NoCall
<1>2. SessionInv /\ [SseNext]_allVars => SessionInv'
  <2> SUFFICES ASSUME SessionInv, [SseNext]_allVars PROVE SessionInv'
    OBVIOUS
  <2>1. ASSUME NEW s \in Session, Connects(s) PROVE SessionInv'
    BY <2>1 DEF Connects, SessionInv, AnswersHaveAStream, Held, Accepting, NoCall
  <2>2. ASSUME NEW s \in Session, Disconnects(s) PROVE SessionInv'
    BY <2>2 DEF Disconnects, OnClose, SessionInv, AnswersHaveAStream, Held, Accepting, NoCall
  <2>3. ASSUME NEW s \in Session, NEW t \in Tool, NEW i \in Input, Posts(s, t, i) PROVE SessionInv'
    BY <2>3 DEF Posts, Over, SessionInv, AnswersHaveAStream, Held, Accepting, NoCall
  <2>4. CASE Cancels
    BY <2>4 DEF Cancels, Accepted, SessionInv, AnswersHaveAStream, Held, Accepting, NoCall
  <2>5. CASE Queries
    BY <2>5 DEF Queries, Over, SessionInv, AnswersHaveAStream, Held, Accepting, NoCall
  <2>6. CASE Denies
    BY <2>6, AnsweringKeeps DEF Denies
  <2>7. CASE Finishes
    BY <2>7, AnsweringKeeps DEF Finishes
  <2>8. CASE \/ LokiStep(Tick) \/ \E q \in Query : LokiStep(QueryStep(q))
             \/ Sigterm \/ Exits \/ UNCHANGED allVars
    <3>1. UNCHANGED <<sse, sseSessions, call>>
      BY <2>8 DEF LokiStep, Sigterm, Exits, allVars, sessionVars
    <3> QED BY <3>1 DEF SessionInv, AnswersHaveAStream
  <2> QED BY <2>1, <2>2, <2>3, <2>4, <2>5, <2>6, <2>7, <2>8 DEF SseNext
<1> QED BY <1>1, <1>2, PTL DEF SseSpec

\* A POST is accepted exactly while its session has an open response, and an
\* accepted call is only dropped for its client's sake.
THEOREM AnswersReachStreams == SseSpec => []AnswersHaveAStream
<1>1. SessionInv => AnswersHaveAStream
  BY DEF SessionInv
<1> QED BY <1>1, SessionInvariance, PTL
-----------------------------------------------------------------------------
(* The queries of the tools *)

\* What the label of a build is put together from.
Name(project, app, stage) == project \o app \o <<stage>>

LEMMA SameSequence ==
  ASSUME NEW S, NEW s \in Seq(S), NEW t \in Seq(S), Len(s) = Len(t),
         \A i \in 1..Len(s) : s[i] = t[i]
  PROVE  s = t
OBVIOUS

\* The words of the label, at their places in it, and what is read from it.
Spells(v, project, app, stage, n, m) ==
  /\ v \in Seq(Word) /\ n = Len(project) /\ n \in Nat /\ m = Len(app) /\ m \in Nat
  /\ Len(v) = n + m + 1
  /\ \A i \in 1..n : v[i] = project[i]
  /\ \A i \in 1..m : v[n + i] = app[i]
  /\ v[n + m + 1] = stage

ReadsAs(v, project, app, stage) ==
  /\ v \in Seq(Word) /\ app \in Seq(Word) /\ stage \in Word
  /\ Len(v) = Len(project) + Len(app) + 1
  /\ SubSeq(v, 1, Len(project)) = project
  /\ SubSeq(v, Len(project) + 1, Len(v) - 1) = app
  /\ Last(v) = stage

LEMMA OneWord ==
  ASSUME NEW a \in Seq(Word), Len(a) = 1
  PROVE  a[1] \in Word /\ a = <<a[1]>>
<1>1. a[1] \in Word /\ <<a[1]>> \in Seq(Word) /\ Len(<<a[1]>>) = 1
  OBVIOUS
<1>2. \A i \in 1..1 : a[i] = <<a[1]>>[i]
  OBVIOUS
<1> QED BY <1>1, <1>2, SameSequence

LEMMA NameWords ==
  ASSUME NEW project \in Seq(Word), NEW app \in Seq(Word), NEW stage \in Word
  PROVE  Spells(Name(project, app, stage), project, app, stage, Len(project), Len(app))
BY DEF Name, Spells

\* A part of a sequence.
LEMMA PartOf ==
  ASSUME NEW v \in Seq(Word), NEW n \in Nat, NEW m \in Nat, n + m <= Len(v)
  PROVE  /\ SubSeq(v, n + 1, n + m) \in Seq(Word)
         /\ Len(SubSeq(v, n + 1, n + m)) = m
         /\ \A i \in 1..m : SubSeq(v, n + 1, n + m)[i] = v[n + i]
<1>1. n + 1 \in Nat /\ n + m \in Nat /\ n + m - (n + 1) + 1 = m
  OBVIOUS
<1>2. SubSeq(v, n + 1, n + m) = [i \in 1..m |-> v[n + i]]
  <2>1. SubSeq(v, n + 1, n + m) = [i \in 1..(n + m - (n + 1) + 1) |-> v[i + (n + 1) - 1]]
    BY <1>1 DEF SubSeq
  <2>2. \A i \in 1..m : i + (n + 1) - 1 = n + i
    OBVIOUS
  <2> QED BY <1>1, <2>1, <2>2
<1>3. \A i \in 1..m : n + i \in 1..Len(v) /\ v[n + i] \in Word
  OBVIOUS
<1> DEFINE part == [i \in 1..m |-> v[n + i]]
<1>4. part \in Seq(Word) /\ Len(part) = m /\ \A i \in 1..m : part[i] = v[n + i]
  BY <1>3
<1> QED BY <1>2, <1>4

LEMMA NameParts ==
  ASSUME NEW project \in Seq(Word), NEW app \in Seq(Word), NEW stage \in Word,
         NEW v, v = Name(project, app, stage)
  PROVE  ReadsAs(v, project, app, stage)
<1>n. PICK n : n = Len(project)
  OBVIOUS
<1>m. PICK m : m = Len(app)
  OBVIOUS
<1>0. Spells(v, project, app, stage, n, m)
  BY <1>n, <1>m, NameWords, Zenon
<1>1. /\ v \in Seq(Word) /\ n \in Nat /\ m \in Nat /\ Len(v) = n + m + 1
      /\ \A i \in 1..n : v[i] = project[i]
      /\ \A i \in 1..m : v[n + i] = app[i]
      /\ v[n + m + 1] = stage
  BY <1>0, Zenon DEF Spells
<1>2. PICK first : first = SubSeq(v, 1, n)
  OBVIOUS
<1>3. PICK rest : rest = SubSeq(v, n + 1, n + m)
  OBVIOUS
<1>4. first \in Seq(Word) /\ Len(first) = n /\ \A i \in 1..n : first[i] = v[i]
  <2>1. n <= Len(v)
    BY <1>1
  <2> QED BY <1>1, <1>2, <2>1
<1>5. rest \in Seq(Word) /\ Len(rest) = m /\ \A i \in 1..m : rest[i] = v[n + i]
  <2>1. n + m <= Len(v)
    BY <1>1
  <2> QED BY <1>1, <1>3, <2>1, PartOf, Zenon
<1>6. first = project
  BY <1>1, <1>4, <1>n, SameSequence
<1>7. rest = app
  BY <1>1, <1>5, <1>m, SameSequence
<1>8. Len(v) - 1 = n + m
  BY <1>1
<1>9. Last(v) = stage
  BY <1>1 DEF Last
<1> QED BY <1>1, <1>2, <1>3, <1>6, <1>7, <1>8, <1>9, <1>n, <1>m, Zenon DEF ReadsAs

\* And a name is put together from what is read from it.
LEMMA NameOfParts ==
  ASSUME NEW v \in Seq(Word), NEW project \in Seq(Word), Len(v) > Len(project) + 1,
         SubSeq(v, 1, Len(project)) = project,
         NEW app, app = SubSeq(v, Len(project) + 1, Len(v) - 1)
  PROVE  /\ v = Name(project, app, Last(v))
         /\ Spells(v, project, app, Last(v), Len(project), Len(app))
         /\ app \in Seq(Word)
<1>n. PICK n : n = Len(project)
  OBVIOUS
<1>m. PICK m : m = Len(v) - n - 1
  OBVIOUS
<1>w. PICK whole : whole = Name(project, app, Last(v))
  OBVIOUS
<1>1. /\ n \in Nat /\ m \in Nat /\ Len(v) = n + m + 1 /\ Len(v) - 1 = n + m
      /\ v[n + m + 1] = Last(v) /\ Last(v) \in Word
  BY <1>n, <1>m DEF Last
<1>2. \A i \in 1..n : v[i] = project[i]
  <2>1. \A i \in 1..n : SubSeq(v, 1, n)[i] = v[i]
    BY <1>1
  <2> QED BY <2>1, <1>n
<1>3. app \in Seq(Word) /\ Len(app) = m /\ \A i \in 1..m : app[i] = v[n + i]
  <2>1. app = SubSeq(v, n + 1, n + m)
    BY <1>1, <1>n, Zenon
  <2>2. n + m <= Len(v)
    BY <1>1
  <2>3. PICK rest : rest = SubSeq(v, n + 1, n + m)
    OBVIOUS
  <2>4. rest \in Seq(Word) /\ Len(rest) = m /\ \A i \in 1..m : rest[i] = v[n + i]
    <3>1. n \in Nat /\ m \in Nat
      BY <1>1
    <3> QED BY <2>2, <2>3, <3>1, PartOf
  <2>5. app = rest
    BY <2>1, <2>3, Zenon
  <2> QED BY <2>4, <2>5, Zenon
<1>4. Spells(whole, project, app, Last(v), n, m)
  BY <1>1, <1>3, <1>n, <1>w, NameWords, Zenon
<1>5. /\ whole \in Seq(Word) /\ Len(whole) = n + m + 1
      /\ \A i \in 1..n : whole[i] = project[i]
      /\ \A i \in 1..m : whole[n + i] = app[i]
      /\ whole[n + m + 1] = Last(v)
  BY <1>4, Zenon DEF Spells
<1>6. ASSUME NEW i \in 1..Len(v) PROVE v[i] = whole[i]
  <2>1. CASE i <= n
    BY <1>1, <1>2, <1>5, <2>1
  <2>2. CASE i = n + m + 1
    BY <1>1, <1>5, <2>2
  <2>3. CASE n < i /\ i < n + m + 1
    <3>1. i - n \in 1..m /\ n + (i - n) = i
      BY <1>1, <2>3
    <3> QED BY <1>3, <1>5, <3>1
  <2> QED BY <1>1, <2>1, <2>2, <2>3
<1>7. v = whole
  BY <1>1, <1>5, <1>6, SameSequence
<1> QED BY <1>3, <1>4, <1>7, <1>n, <1>w, Zenon

\* The build that is read from one value of the label.
LEMMA BuildsOfOne ==
  ASSUME NEW v, NEW project
  PROVE  /\ \A b \in Builds(project, {v}) :
               /\ Len(v) > Len(project) + 1 /\ SubSeq(v, 1, Len(project)) = project
               /\ Last(v) \in Stage /\ b.stage = Last(v)
               /\ b.app = SubSeq(v, Len(project) + 1, Len(v) - 1)
         /\ Len(v) > Len(project) + 1 /\ SubSeq(v, 1, Len(project)) = project
            /\ Last(v) \in Stage =>
               [app |-> SubSeq(v, Len(project) + 1, Len(v) - 1), stage |-> Last(v)]
                   \in Builds(project, {v})
<1> DEFINE n == Len(project)
           Fits(x) == Len(x) > n + 1 /\ SubSeq(x, 1, n) = project /\ Last(x) \in Stage
           B(x) == [app |-> SubSeq(x, n + 1, Len(x) - 1), stage |-> Last(x)]
<1>1. Builds(project, {v}) = {B(x) : x \in {x \in {v} : Fits(x)}}
  BY Zenon DEF Builds
<1>2. B(v).stage = Last(v) /\ B(v).app = SubSeq(v, n + 1, Len(v) - 1)
  BY Zenon
<1> HIDE DEF B, Fits
<1>3. ASSUME NEW b \in Builds(project, {v}) PROVE Fits(v) /\ b = B(v)
  BY <1>1, <1>3, Zenon
<1>4. Fits(v) => B(v) \in Builds(project, {v})
  BY <1>1, Zenon
<1>5. \A b \in Builds(project, {v}) :
        /\ Fits(v) /\ b.stage = Last(v) /\ b.app = SubSeq(v, n + 1, Len(v) - 1)
  BY <1>2, <1>3, Zenon
<1> QED BY <1>4, <1>5, Zenon DEF B, Fits

\* What a selector allows.
AppsFor(app) == IF Given(app) THEN {app} ELSE {<<w>> : w \in Word \ {NoWord}}
StagesFor(stage) == IF stage = NoStage THEN Stage ELSE {stage}

\* No application of a selector is such a text, unless one was given.
LEMMA NoTexts ==
  ASSUME NEW app, app \notin Text, NEW a \in AppsFor(app)
  PROVE  a \notin Text
<1>1. CASE Given(app)
  BY <1>1 DEF AppsFor
<1>2. CASE ~Given(app)
  <2>1. PICK w \in Word : a = <<w>>
    BY <1>2 DEF AppsFor
  <2>2. a \in Seq(Word)
    BY <2>1
  <2> QED BY <2>2, LogQueriesAssumption
<1> QED BY <1>1, <1>2

LEMMA SelectorParts ==
  ASSUME NEW project, NEW app, app \notin Text, NEW stage, NEW v
  PROVE  Selects(Selector(project, app, stage), v)
           <=> \E a \in AppsFor(app), st \in StagesFor(stage) : v = Name(project, a, st)
<1>1. PICK s : s = Selector(project, app, stage)
  OBVIOUS
<1>2. s.project = project /\ s.apps = AppsFor(app) /\ s.stages = StagesFor(stage)
  BY <1>1 DEF Selector, AppsFor, StagesFor
<1>3. Selects(s, v) <=> \E a \in AppsFor(app), st \in StagesFor(stage) :
          IF a \in Text THEN TextSelects(s, v) ELSE v = Name(project, a, st)
  BY <1>2, Zenon DEF Selects, Name
<1>4. Selects(s, v)
        <=> \E a \in AppsFor(app), st \in StagesFor(stage) : v = Name(project, a, st)
  BY <1>3, NoTexts, Zenon
<1> QED BY <1>1, <1>4, Zenon

\* What a selector allows is a build, of the application and stage it is for.
LEMMA SelectedAreBuilds ==
  ASSUME NEW v, NEW project \in Seq(Word), NEW app \in Seq(Word), app \notin Text,
         NEW stage \in Stage \cup {NoStage}, Selects(Selector(project, app, stage), v)
  PROVE  /\ \E b \in Builds(project, {v}) :
               /\ Given(app) => b.app = app
               /\ stage \in {NoStage, b.stage}
         /\ CountedUnder(v) # NoStage
<1>1. PICK a \in AppsFor(app), st \in StagesFor(stage) : v = Name(project, a, st)
  <2>1. Selects(Selector(project, app, stage), v)
    OBVIOUS
  <2> QED BY <2>1, SelectorParts
<1>3. a \in Seq(Word) /\ Len(a) >= 1 /\ (Given(app) => a = app)
  <2>1. CASE Given(app)
    <3>1. a = app /\ app # <<>>
      BY <1>1, <2>1 DEF Given, AppsFor
    <3> QED BY <3>1
  <2>2. CASE ~Given(app)
    <3>1. PICK w \in Word : a = <<w>>
      BY <1>1, <2>2 DEF AppsFor
    <3> QED BY <2>2, <3>1
  <2> QED BY <2>1, <2>2
<1>4. st \in Stage /\ st \in Word /\ st # NoStage /\ stage \in {NoStage, st}
  BY <1>1, LogQueriesAssumption DEF StagesFor
<1>r. ReadsAs(v, project, a, st)
  BY <1>1, <1>3, <1>4, NameParts, Zenon
<1>5. /\ Len(v) = Len(project) + Len(a) + 1 /\ Last(v) = st
      /\ SubSeq(v, 1, Len(project)) = project
      /\ SubSeq(v, Len(project) + 1, Len(v) - 1) = a
  BY <1>r, Zenon DEF ReadsAs
<1>6. Len(v) > Len(project) + 1 /\ Len(v) > 1
  <2>1. PICK n, m, k : n = Len(project) /\ m = Len(a) /\ k = Len(v)
    OBVIOUS
  <2>2. n \in Nat /\ m \in Nat
    BY <1>3, <2>1
  <2>3. k = n + m + 1 /\ m >= 1
    BY <1>3, <1>5, <2>1, Zenon
  <2>4. k > n + 1 /\ k > 1
    BY <2>2, <2>3
  <2> QED BY <2>1, <2>4, Zenon
<1>7. [app |-> a, stage |-> st] \in Builds(project, {v})
  BY <1>4, <1>5, <1>6, BuildsOfOne, Zenon
<1>8. CountedUnder(v) # NoStage
  BY <1>4, <1>5, <1>6, Zenon DEF CountedUnder
<1>9. PICK b : b = [app |-> a, stage |-> st]
  OBVIOUS
<1>10. b.app = a /\ b.stage = st
  BY <1>9
<1> QED BY <1>3, <1>4, <1>7, <1>8, <1>9, <1>10, Zenon

\* And it allows every build that it is for, but for names of many words.
LEMMA BuildsAreSelected ==
  ASSUME NEW v \in Seq(Word), NEW project \in Seq(Word), NEW app \in Seq(Word),
         app \notin Text, NEW stage \in Stage \cup {NoStage}, NEW b \in Builds(project, {v}),
         Given(app) => b.app = app, stage \in {NoStage, b.stage},
         Given(app) \/ ~ManyWords(project, v)
  PROVE  Selects(Selector(project, app, stage), v)
<1>2. PICK a : a = SubSeq(v, Len(project) + 1, Len(v) - 1)
  OBVIOUS
<1>3. /\ Len(v) > Len(project) + 1 /\ SubSeq(v, 1, Len(project)) = project
      /\ Last(v) \in Stage /\ b.app = a /\ b.stage = Last(v)
  BY <1>2, BuildsOfOne, Zenon
<1>4. /\ v = Name(project, a, Last(v)) /\ a \in Seq(Word)
      /\ Spells(v, project, a, Last(v), Len(project), Len(a))
  BY <1>2, <1>3, NameOfParts, Zenon
<1>5. Last(v) \in StagesFor(stage)
  BY <1>3 DEF StagesFor
<1>6. a \in AppsFor(app)
  <2>1. CASE Given(app)
    BY <1>3, <2>1, Zenon DEF AppsFor
  <2>2. CASE ~Given(app)
    <3>0. PICK n, m, k : n = Len(project) /\ m = Len(a) /\ k = Len(v)
      OBVIOUS
    <3>1. ~(k > n + 2) /\ v[n + 1] # NoWord
      BY <2>2, <3>0, Zenon DEF ManyWords
    <3>2. n \in Nat /\ m \in Nat /\ k = n + m + 1 /\ \A i \in 1..m : v[n + i] = a[i]
      BY <1>4, <3>0, Zenon DEF Spells
    <3>3. k > n + 1
      BY <1>3, <3>0, Zenon
    <3>4. m = 1
      BY <3>1, <3>2, <3>3
    <3>5. v[n + 1] = a[1]
      BY <3>2, <3>4
    <3>6. a[1] \in Word /\ a = <<a[1]>>
      BY <1>4, <3>0, <3>4, OneWord, Zenon
    <3> QED BY <2>2, <3>1, <3>5, <3>6 DEF AppsFor
  <2> QED BY <2>1, <2>2
<1>7. PICK st : st = Last(v)
  OBVIOUS
<1>8. v = Name(project, a, st) /\ st \in StagesFor(stage)
  BY <1>4, <1>5, <1>7, Zenon
<1>9. \E x \in AppsFor(app), y \in StagesFor(stage) : v = Name(project, x, y)
  BY <1>6, <1>8
<1> QED BY <1>9, SelectorParts

\* The range of a query that counts is in its period.
LEMMA RangeFits ==
  ASSUME NEW period \in Nat, RangeInterval(period) > 1
  PROVE  RangeInterval(period) <= period
BY DEF RangeInterval

\* Each query of a call finds its builds.
LEMMA QueriesFind == SessionInv => QueryFindsItsBuilds
<1> SUFFICES ASSUME SessionInv, call.phase = "scope",
                    NEW q \in QueriesOf(call.tool, call.input)
             PROVE  /\ call.input.app \notin Text => \A v \in Value :
                         /\ Selects(q.selector, v) => Wanted(v) /\ CountedUnder(v) # NoStage
                         /\ Wanted(v) => \/ Selects(q.selector, v)
                                         \/ ~Given(call.input.app)
                                            /\ ManyWords(call.input.project, v)
                    /\ q.range > 1 => q.range <= Period(call.tool, call.input)
  BY DEF QueryFindsItsBuilds
<1> DEFINE project == call.input.project
           app == call.input.app
           stage == StageOf(call.tool, call.input)
           period == Period(call.tool, call.input)
<1>1. /\ project \in Seq(Word) /\ (app \in Text \/ app \in Seq(Word))
      /\ call.input.stage \in Stage \cup {NoStage} /\ call.input.since \in Nat \cup {NoSince}
  <2>1. call.input \in Input
    BY DEF SessionInv, NoCall, Held, Accepting
  <2> QED BY <2>1, InputAssumption
<1>2. stage \in Stage \cup {NoStage}
  BY <1>1 DEF StageOf, Stage
<1>3. period \in Nat
  BY <1>1 DEF Period
<1>4. /\ q.selector = Selector(project, app, stage)
      /\ q.range \in {RangeInterval(period), 0}
  BY DEF QueriesOf
<1>5. \A v \in Value : v \in Seq(Word)
  BY ValueAssumption
<1>6. \A v : Wanted(v) <=> \E b \in Builds(project, {v}) :
                 (Given(app) => b.app = app) /\ stage \in {NoStage, b.stage}
  BY DEF Wanted
<1> HIDE DEF project, app, stage, period
<1>7. ASSUME app \notin Text, NEW v \in Value, Selects(q.selector, v)
      PROVE  Wanted(v) /\ CountedUnder(v) # NoStage
  <2>1. app \in Seq(Word) /\ Selects(Selector(project, app, stage), v)
    BY <1>1, <1>4, <1>7
  <2>2. /\ \E b \in Builds(project, {v}) :
               (Given(app) => b.app = app) /\ stage \in {NoStage, b.stage}
        /\ CountedUnder(v) # NoStage
    BY <1>1, <1>2, <1>7, <2>1, SelectedAreBuilds
  <2> QED BY <1>6, <2>2
<1>8. ASSUME app \notin Text, NEW v \in Value, Wanted(v), Given(app) \/ ~ManyWords(project, v)
      PROVE  Selects(q.selector, v)
  <2>1. PICK b \in Builds(project, {v}) :
           (Given(app) => b.app = app) /\ stage \in {NoStage, b.stage}
    BY <1>6, <1>8
  <2> QED BY <1>1, <1>2, <1>4, <1>5, <1>8, <2>1, BuildsAreSelected
<1>9. ASSUME q.range > 1 PROVE q.range <= period
  BY <1>3, <1>4, <1>9, RangeFits
<1> QED BY <1>7, <1>8, <1>9 DEF project, app, period

\* For an application that is named, or none, a query selects the logs of the
\* builds that were asked for, and of no others; and every range fits its period.
THEOREM QueriesFindBuilds == SseSpec => []QueryFindsItsBuilds
BY QueriesFind, SessionInvariance, PTL
=============================================================================
