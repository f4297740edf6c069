------------------------ MODULE ClientFeaturesProofs ------------------------
(***************************************************************************)
(* Proofs about the requests of a Protocol, whose promises, timers and     *)
(* tables agree whatever a handler asks of the client, and about the       *)
(* conversation that they carry, which is sound.                           *)
(***************************************************************************)
EXTENDS ClientFeaturesProps, TLAPS

-----------------------------------------------------------------------------
(* Requests *)

Window == now..now + Timeout

\* How long progress may put off the timer of a request.
Extension(r) == IF r \notin Resets THEN 0 ELSE IF MaxTotal = 0 THEN MaxTime ELSE MaxTotal

\* What has not been sent has no timer.  A request that is pending is in the
\* tables and has one, which progress puts off only so far.  Nothing clears the
\* timer of one that was given up, so that it tells the peer.
Tracked(r) ==
    /\ promise[r] \in {"unsent", "refused"} => timer[r] = NoTimer /\ r \notin timeoutInfo
    /\ promise[r] = "pending" =>
          /\ connected
          /\ r \in responseHandlers /\ r \in timeoutInfo /\ r \notin aborted
          /\ timer[r] \in Window
          /\ timer[r] <= start[r] + Timeout + Extension(r)
    /\ promise[r] \in {"timed out", "aborted"} =>
          /\ r \notin timeoutInfo
          /\ connected => r \in told \/ timer[r] \in Window
    /\ r \in responseHandlers \/ r \in progressHandlers => promise[r] \in {"pending", "send error"}

RequestInv == TypeOK /\ \A r \in Request : Tracked(r)

\* Before anything is sent, all of this holds.
LEMMA RequestsStart == Init => RequestInv
<1> SUFFICES ASSUME Init PROVE RequestInv
  OBVIOUS
<1>1. NoTimer \in 0..NoTimer /\ 0 \in 0..MaxTime
  BY ProtocolAssumption DEF NoTimer
<1>2. TypeOK
  BY <1>1 DEF Init, TypeOK
<1> QED
  BY <1>2 DEF Init, RequestInv, Tracked

\* The parts of the type invariant that clocks have.
LEMMA ClockTypes ==
  ASSUME TypeOK, NEW r \in Request
  PROVE  now \in Nat /\ now + Timeout \in 0..NoTimer /\ NoTimer > now + Timeout
         /\ timer[r] \in Nat /\ start[r] \in Nat /\ Extension(r) \in Nat
         /\ {NoTimer, MaxTotal, MaxTime, Timeout} \subseteq Nat
BY ProtocolAssumption DEF TypeOK, NoTimer, Extension

\* A request is tracked as before if nothing about it changes.
LEMMA OthersTracked ==
  ASSUME NEW p \in Request, Tracked(p), UNCHANGED <<now, connected>>,
         promise'[p] = promise[p], timer'[p] = timer[p], start'[p] = start[p],
         p \in timeoutInfo' <=> p \in timeoutInfo,
         p \in responseHandlers' <=> p \in responseHandlers,
         p \in progressHandlers' => p \in progressHandlers,
         p \in aborted' <=> p \in aborted, p \in told => p \in told'
  PROVE  Tracked(p)'
BY DEF Tracked, Window, Extension

\* The promise of the request, if it is pending, is settled; no other changes.
Settled(r, outcome) ==
    /\ promise' \in [Request -> {"unsent", "refused", "pending"} \cup Outcome]
    /\ \A p \in Request : promise'[p] =
          IF p = r /\ promise[p] = "pending" THEN outcome ELSE promise[p]

LEMMA SettlesOne ==
  ASSUME TypeOK, NEW r \in Request, NEW outcome \in Outcome, Settles({r}, outcome)
  PROVE  Settled(r, outcome)
BY DEF TypeOK, Settles, Settled

\* Only the timer of the request is cleared.
Cleaned(r) ==
    /\ timeoutInfo' = timeoutInfo \ {r} /\ timeoutInfo' \subseteq Request
    /\ timer' \in [Request -> 0..NoTimer]
    /\ \A p \in Request : p # r => timer'[p] = timer[p]
    /\ timer'[r] = IF r \in timeoutInfo THEN NoTimer ELSE timer[r]

LEMMA CleanupTypes ==
  ASSUME TypeOK, NEW r \in Request, CleanupTimeout(r)
  PROVE  Cleaned(r)
BY ProtocolAssumption DEF TypeOK, CleanupTimeout, Cleaned, NoTimer

\* What happens to one request leaves the others alone, and itself tracked.
LEMMA RequestStepKeeps ==
  ASSUME RequestInv, NEW r \in Request, RequestStep(r)
  PROVE  RequestInv'
<1> USE ProtocolAssumption
<1>1. now \in Nat /\ now + Timeout \in 0..NoTimer /\ timer[r] \in Nat /\ start[r] \in Nat
      /\ Extension(r) \in Nat /\ NoTimer > now + Timeout
      /\ NoTimer \in Nat /\ MaxTotal \in Nat /\ MaxTime \in Nat /\ Timeout \in Nat
  BY ClockTypes DEF RequestInv
<1>2. Tracked(r) /\ TypeOK
  BY DEF RequestInv
<1>12. Extension(r)' = Extension(r)
  BY DEF Extension
<1>13. Outcome = {"answered", "send error", "timed out", "aborted", "closed"}
  BY DEF Outcome
<1>3. CASE Sends(r)
  <2>1. TypeOK'
    BY <1>3, <1>1, <1>2 DEF Sends, TypeOK, Tracked, Outcome
  <2>2. ASSUME NEW p \in Request, p # r PROVE Tracked(p)'
    BY <1>3, <2>2, OthersTracked DEF RequestInv, TypeOK, Sends
  <2>3. Tracked(r)'
    BY <1>3, <1>1, <1>2, <1>12 DEF Sends, TypeOK, Tracked, Window
  <2> QED BY <2>1, <2>2, <2>3 DEF RequestInv
<1>4. CASE SendRefused(r)
  <2>1. TypeOK'
    BY <1>4, <1>1, <1>2 DEF SendRefused, tables, history, TypeOK, Tracked, Outcome
  <2>2. ASSUME NEW p \in Request, p # r PROVE Tracked(p)'
    BY <1>4, <2>2, OthersTracked DEF RequestInv, TypeOK, SendRefused, tables, history
  <2>3. Tracked(r)'
    BY <1>4, <1>1, <1>2 DEF SendRefused, tables, history, TypeOK, Tracked, Window, Extension
  <2> QED BY <2>1, <2>2, <2>3 DEF RequestInv
<1>5. CASE Sent(r)
  <2>1. TypeOK'
    BY <1>5, <1>1, <1>2 DEF Sent, tables, history, TypeOK, Tracked, Outcome
  <2>2. ASSUME NEW p \in Request, p # r PROVE Tracked(p)'
    BY <1>5, <2>2, OthersTracked DEF RequestInv, TypeOK, Sent, tables, history
  <2>3. Tracked(r)'
    BY <1>5, <1>1, <1>2 DEF Sent, tables, history, TypeOK, Tracked, Window, Extension
  <2> QED BY <2>1, <2>2, <2>3 DEF RequestInv
<1>6. CASE SendFails(r)
  <2>1. Settled(r, "send error") /\ Cleaned(r)
    BY <1>6, <1>2, <1>13, SettlesOne, CleanupTypes DEF SendFails
  <2>2. TypeOK'
    BY <1>6, <1>1, <1>2, <1>13, <2>1
    DEF SendFails, history, TypeOK, Tracked, Settled, Cleaned
  <2>3. ASSUME NEW p \in Request, p # r PROVE Tracked(p)'
    BY <1>6, <1>2, <2>1, <2>3, OthersTracked
    DEF SendFails, history, RequestInv, TypeOK, Settled, Cleaned
  <2>4. Tracked(r)'
    BY <1>6, <1>1, <1>2, <1>12, <2>1
    DEF SendFails, history, TypeOK, Tracked, Window, Settled, Cleaned
  <2> QED BY <2>2, <2>3, <2>4 DEF RequestInv
<1>7. CASE Responds(r)
  <2>1. Settled(r, "answered") /\ Cleaned(r)
    BY <1>7, <1>2, <1>13, SettlesOne, CleanupTypes DEF Responds, Forget
  <2>2. TypeOK'
    BY <1>7, <1>1, <1>2, <1>13, <2>1
    DEF Responds, Forget, history, TypeOK, Tracked, Settled, Cleaned
  <2>3. ASSUME NEW p \in Request, p # r PROVE Tracked(p)'
    BY <1>7, <1>2, <2>1, <2>3, OthersTracked
    DEF Responds, Forget, history, RequestInv, TypeOK, Settled, Cleaned
  <2>4. Tracked(r)'
    BY <1>7, <1>1, <1>2, <1>12, <2>1
    DEF Responds, Forget, history, TypeOK, Tracked, Window, Settled, Cleaned
  <2> QED BY <2>2, <2>3, <2>4 DEF RequestInv
<1>8. CASE Progresses(r)
  <2>1. Exceeds(r) => Settled(r, "timed out")
    BY <1>8, <1>2, <1>13, SettlesOne DEF Progresses
  <2>2. TypeOK'
    BY <1>8, <1>1, <1>2, <1>13, <2>1
    DEF Progresses, history, GivesUp, TypeOK, Tracked, Settled
  <2>3. ASSUME NEW p \in Request, p # r PROVE Tracked(p)'
    BY <1>8, <1>2, <2>1, <2>3, OthersTracked
    DEF Progresses, history, GivesUp, RequestInv, TypeOK, Settled
  <2>4. CASE Exceeds(r)
    BY <1>8, <1>2, <1>12, <2>1, <2>2, <2>3, <2>4
    DEF Progresses, history, GivesUp, RequestInv, TypeOK, Tracked, Window, Settled
  <2>5. CASE ~Exceeds(r)
    <3>1. now <= start[r] + Extension(r)
      <4>1. now \in 0..MaxTime /\ r \in Resets
        BY <1>8, <1>2 DEF Progresses, TypeOK
      <4>2. MaxTotal > 0 => now - start[r] < MaxTotal
        BY <2>5, <1>1 DEF Exceeds
      <4> QED BY <4>1, <4>2, <1>1 DEF Extension
    <3>2. timer'[r] = now + Timeout /\ promise' = promise /\ timeoutInfo' = timeoutInfo
      BY <1>8, <1>2, <2>5 DEF Progresses, TypeOK
    <3>3. now + Timeout \in Window /\ now + Timeout <= start[r] + Timeout + Extension(r)
      BY <3>1, <1>1 DEF Window
    <3>4. Tracked(r)'
      BY <1>8, <1>2, <1>12, <2>5, <3>2, <3>3 DEF Progresses, history, Tracked, Window
    <3> QED BY <2>2, <2>3, <3>4 DEF RequestInv
  <2> QED BY <2>4, <2>5
<1>9. CASE TimerFires(r)
  <2>1. Settled(r, "timed out")
    BY <1>9, <1>2, <1>13, SettlesOne DEF TimerFires
  <2>2. TypeOK'
    <3>1. promise[r] \notin {"unsent", "refused"}
      <4>1. timer[r] # NoTimer
        <5>1. timer[r] = now
          BY <1>9 DEF TimerFires
        <5> QED BY <5>1, <1>1
      <4> QED BY <4>1, <1>2 DEF Tracked
    <3>2. told' \subseteq {p \in Request : promise'[p] \notin {"unsent", "refused"}}
      BY <1>9, <1>2, <1>13, <2>1, <3>1 DEF TimerFires, Tells, TypeOK, Settled
    <3>3. NoTimer \in 0..NoTimer
      BY <1>1
    <3> QED BY <1>9, <1>2, <2>1, <3>2, <3>3 DEF TimerFires, TypeOK, Settled
  <2>3. ASSUME NEW p \in Request, p # r PROVE Tracked(p)'
    BY <1>9, <1>2, <2>1, <2>3, OthersTracked
    DEF TimerFires, Tells, RequestInv, TypeOK, Settled
  <2>4. Tracked(r)'
    BY <1>9, <1>1, <1>2, <1>12, <2>1
    DEF TimerFires, Tells, TypeOK, Tracked, Window, Settled
  <2> QED BY <2>2, <2>3, <2>4 DEF RequestInv
<1>10. CASE Aborts(r) /\ Listens(r)
  <2>1. Settled(r, "aborted") /\ Cleaned(r)
    BY <1>10, <1>2, <1>13, SettlesOne, CleanupTypes DEF Aborts, Forget
  <2>2. TypeOK'
    <3>1. told' \subseteq {p \in Request : promise'[p] \notin {"unsent", "refused"}}
      BY <1>10, <1>2, <1>13, <2>1 DEF Aborts, Listens, Tells, TypeOK, Settled
    <3> QED BY <1>10, <1>2, <2>1, <3>1 DEF Aborts, Forget, TypeOK, Settled, Cleaned
  <2>3. ASSUME NEW p \in Request, p # r PROVE Tracked(p)'
    BY <1>10, <1>2, <2>1, <2>3, OthersTracked
    DEF Aborts, Forget, Tells, RequestInv, TypeOK, Settled, Cleaned
  <2>4. promise'[r] # "pending"
    BY <2>1, <1>13 DEF Settled
  <2>5. Tracked(r)'
    BY <1>10, <1>1, <1>2, <2>1, <2>4
    DEF Aborts, Forget, Tells, Listens, Tracked, Window, Settled, Cleaned
  <2> QED BY <2>2, <2>3, <2>5 DEF RequestInv
<1>11. CASE Aborts(r) /\ ~Listens(r)
  <2>1. TypeOK'
    BY <1>11, <1>2 DEF Aborts, tables, TypeOK
  <2>2. ASSUME NEW p \in Request, p # r PROVE Tracked(p)'
    BY <1>11, <1>2, <2>2, OthersTracked DEF Aborts, tables, RequestInv, TypeOK
  <2>3. Tracked(r)'
    BY <1>11, <1>2 DEF Aborts, Listens, tables, Tracked
  <2> QED BY <2>1, <2>2, <2>3 DEF RequestInv
<1> QED
  BY <1>3, <1>4, <1>5, <1>6, <1>7, <1>8, <1>9, <1>10, <1>11 DEF RequestStep, Elapses

\* The end of the connection, and time, leave all requests tracked.
LEMMA RequestsKept == RequestInv /\ [Next]_vars => RequestInv'
<1> SUFFICES ASSUME RequestInv, [Next]_vars PROVE RequestInv'
  OBVIOUS
<1>1. CASE Closes
  <2>1. TypeOK'
    BY <1>1 DEF Closes, Rejects, Settles, history, RequestInv, TypeOK, Outcome
  <2>2. ASSUME NEW r \in Request PROVE Tracked(r)'
    BY <1>1, <2>2 DEF Closes, Rejects, Settles, history, RequestInv, TypeOK, Tracked, Window
  <2> QED BY <2>1, <2>2 DEF RequestInv
<1>2. CASE Tick
  <2>1. TypeOK'
    BY <1>2, ProtocolAssumption DEF Tick, tables, history, RequestInv, TypeOK
  <2>2. ASSUME NEW r \in Request PROVE Tracked(r)'
    <3>1. timer[r] \in Window => timer[r] \in Window'
      BY <1>2, <2>2, ClockTypes, ProtocolAssumption DEF Tick, RequestInv, Window
    <3> QED BY <1>2, <2>2, <3>1 DEF Tick, tables, history, RequestInv, Tracked, Extension
  <2> QED BY <2>1, <2>2 DEF RequestInv
<1>3. CASE UNCHANGED vars
  BY <1>3 DEF vars, tables, history, RequestInv, TypeOK, Tracked, Window, Extension
<1> QED BY <1>1, <1>2, <1>3, RequestStepKeeps DEF Next

\* The invariant holds in all of ProtocolRequests.
THEOREM RequestInvariance == Spec => []RequestInv
BY RequestsStart, RequestsKept, PTL DEF Spec

\* Promises and tables agree, in both directions.
THEOREM TablesAgree == Spec => []TablesMatchPromises
<1>1. RequestInv => TablesMatchPromises
  BY DEF RequestInv, TypeOK, Tracked, TablesMatchPromises, PendingIsTracked, EndedIsForgotten,
         Window
<1> QED BY <1>1, RequestInvariance, PTL

\* No request waits longer than its timeout and what progress adds to it.
THEOREM WaitsEnd == Spec => []WaitsAreBounded
<1>1. RequestInv => WaitsAreBounded
  <2> SUFFICES ASSUME RequestInv, NEW r \in Request, promise[r] = "pending"
               PROVE  now <= start[r] + Timeout + Extension(r)
    BY DEF WaitsAreBounded, Extension
  <2>1. timer[r] \in Window /\ timer[r] <= start[r] + Timeout + Extension(r)
    BY DEF RequestInv, Tracked
  <2>2. now \in Nat /\ timer[r] \in Nat /\ start[r] \in Nat /\ Extension(r) \in Nat
    BY ClockTypes DEF RequestInv
  <2> HIDE DEF Extension
  <2> QED BY <2>1, <2>2, ProtocolAssumption DEF Window
<1> QED BY <1>1, RequestInvariance, PTL

\* The peer is told of what was given up, at the latest by the timer.
THEOREM PeerLearns == Spec => []PeerIsTold
<1>1. RequestInv => PeerIsTold
  BY DEF RequestInv, Tracked, PeerIsTold, Window
<1> QED BY <1>1, RequestInvariance, PTL

-----------------------------------------------------------------------------
(* The conversation *)

\* What a handler asks of the client are requests like any others: createMessage,
\* elicitInput and ping call request(), so that all of the above holds.
LEMMA FeaturesUseRequests == FeaturesSpec => Spec
<1>1. FeaturesInit => Init
  BY DEF FeaturesInit
<1>2. [FeaturesNext]_featureVars => [Next]_vars
  <2> SUFFICES ASSUME [FeaturesNext]_featureVars PROVE [Next]_vars
    OBVIOUS
  <2>1. CASE \E r \in Request : FeatureStep(r)
    <3> PICK r \in Request : FeatureStep(r)
      BY <2>1
    <3>1. RequestStep(r)
      BY DEF FeatureStep, Asks, Replies, Elicits, Submits, Pings, Pongs, Requests, RequestStep
    <3> QED BY <3>1 DEF Next
  <2> QED BY <2>1 DEF FeaturesNext, featureVars, Next
<1> QED BY <1>1, <1>2, PTL DEF FeaturesSpec, Spec

\* Whatever a handler asks for, tables match promises and waits are bounded.
COROLLARY FeaturesAreRequests ==
  FeaturesSpec => [](TablesMatchPromises /\ WaitsAreBounded /\ PeerIsTold)
BY FeaturesUseRequests, TablesAgree, WaitsEnd, PeerLearns, PTL

Awaits(r) == asked[r] \in Sampling /\ promise[r] = "pending"

\* The handler and the model take turns, and only the model calls tools.
TakeTurns ==
    /\ messages \in Seq(Message)
    /\ \A i \in DOMAIN messages : i % 2 = 1 => messages[i].uses = {}
    /\ \A r \in Request : Awaits(r) => Len(messages) % 2 = 1
    /\ \A r, p \in Request : Awaits(r) /\ Awaits(p) => r = p

\* What has been asked for was the client's to give.
Asked ==
    /\ asked \in [Request -> Sampling \cup Elicitation \cup {"nothing", "ping"}]
    /\ \A r \in Request : asked[r] = "message with tools" => "tools" \in clientCapabilities

Conversation == RequestInv /\ TakeTurns /\ Asked /\ ConversationIsSound

LEMMA ConversationStarts == FeaturesInit => Conversation
<1> SUFFICES ASSUME FeaturesInit PROVE Conversation
  OBVIOUS
<1>1. RequestInv
  BY RequestsStart DEF FeaturesInit
<1>2. messages = << >> /\ asked = [r \in Request |-> "nothing"]
  BY DEF FeaturesInit
<1>3. DOMAIN messages = {} /\ messages \in Seq(Message)
  BY <1>2
<1>4. TakeTurns
  BY <1>2, <1>3 DEF TakeTurns, Awaits, Sampling
<1>5. Asked
  BY <1>2 DEF Asked
<1>6. ConversationIsSound
  BY <1>3 DEF ConversationIsSound, CallsAreAnswered, CallsWereOffered
<1> QED BY <1>1, <1>4, <1>5, <1>6 DEF Conversation

\* A promise that was settled stays so, and only request() makes one pending.
LEMMA PromisesLast ==
  ASSUME TypeOK, NEW r \in Request, Responds(r) \/ Elapses(r) \/ Closes \/ Tick
  PROVE  \A p \in Request :
            /\ promise'[p] = "pending" => promise[p] = "pending"
            /\ promise[p] = "answered" => promise'[p] = "answered"
<1>1. CASE Responds(r)
  BY <1>1 DEF Responds, Settles, TypeOK
<1>2. CASE SendRefused(r) \/ Sent(r)
  BY <1>2 DEF SendRefused, Sent, TypeOK
<1>3. CASE SendFails(r) \/ Progresses(r) \/ TimerFires(r)
  BY <1>3 DEF SendFails, Progresses, TimerFires, Settles, TypeOK
<1>4. CASE Aborts(r)
  BY <1>4 DEF Aborts, Settles, TypeOK
<1>5. CASE Closes \/ Tick
  BY <1>5 DEF Closes, Tick, Settles, TypeOK
<1> QED BY <1>1, <1>2, <1>3, <1>4, <1>5 DEF Elapses

\* Nothing that leaves the conversation alone can disturb it.
LEMMA ConversationLasts ==
  ASSUME Conversation, RequestInv', UNCHANGED <<clientCapabilities, messages>>, Asked',
         \A p \in Request :
            /\ Awaits(p)' => Awaits(p)
            /\ promise[p] = "answered" => promise'[p] = "answered" /\ asked'[p] = asked[p]
  PROVE  Conversation'
<1>1. TakeTurns'
  BY DEF Conversation, TakeTurns
<1>2. CallsAreAnswered'
  BY DEF Conversation, ConversationIsSound, CallsAreAnswered
<1>3. CallsWereOffered'
  BY DEF Conversation, ConversationIsSound, CallsWereOffered
<1> QED BY <1>1, <1>2, <1>3 DEF Conversation, ConversationIsSound

\* A message more, and whose turn it is.
LEMMA OneMore ==
  ASSUME messages \in Seq(Message), NEW m \in Message
  PROVE  /\ Append(messages, m) \in Seq(Message)
         /\ Len(messages) \in Nat /\ DOMAIN messages = 1..Len(messages)
         /\ Len(Append(messages, m)) = Len(messages) + 1
         /\ DOMAIN Append(messages, m) = 1..Len(messages) + 1
         /\ \A i \in DOMAIN messages : Append(messages, m)[i] = messages[i]
         /\ Append(messages, m)[Len(messages) + 1] = m
         /\ (Len(messages) + 1) % 2 = 1 <=> Len(messages) % 2 # 1
OBVIOUS

\* The messages of the handler that were there before are answered as before.
LEMMA EarlierAnswered ==
  ASSUME CallsAreAnswered, NEW n \in Nat, DOMAIN messages = 1..n,
         \A j \in 1..n : messages'[j] = messages[j],
         NEW i \in 1..n + 1, i < n + 1, i % 2 = 1
  PROVE  /\ messages'[i].results = (IF i > 1 THEN messages'[i - 1].uses ELSE {})
         /\ messages'[i].results # {} => ~messages'[i].rest
<1>1. i \in 1..n /\ messages'[i] = messages[i]
  OBVIOUS
<1>2. i > 1 => i - 1 \in 1..n /\ messages'[i - 1] = messages[i - 1]
  OBVIOUS
<1>3. /\ messages[i].results = (IF i > 1 THEN messages[i - 1].uses ELSE {})
      /\ messages[i].results # {} => ~messages[i].rest
  BY <1>1 DEF CallsAreAnswered
<1> QED BY <1>1, <1>2, <1>3

\* What createMessage accepts goes on soundly.
LEMMA AskKeeps ==
  ASSUME Conversation, RequestInv', NEW r \in Request, NEW what \in Sampling, NEW ms \in Drafts,
         Asks(r, ms, what)
  PROVE  Conversation'
<1>1. Sends(r) /\ asked' = [asked EXCEPT ![r] = what] /\ UNCHANGED clientCapabilities
      /\ Accepts(ms) /\ messages' = ms
      /\ (what = "message with tools" => "tools" \in clientCapabilities)
  BY DEF Asks, Requests, AcceptsStream
<1>2. TakeTurns /\ Asked /\ CallsAreAnswered /\ CallsWereOffered /\ TypeOK
  BY DEF Conversation, ConversationIsSound, RequestInv
<1>3. Asked'
  BY <1>1, <1>2 DEF Asked
<1>4. \A p \in Request : Awaits(p)' => p = r
  BY <1>1, <1>2 DEF Asks, Idle, Awaits, Sends, TypeOK, Asked
<1>5. \A p \in Request : promise[p] = "answered" => promise'[p] = "answered" /\ asked'[p] = asked[p]
  BY <1>1, <1>2 DEF Sends, TypeOK, Asked
<1>6. CASE Len(messages) % 2 = 1
  <2>1. messages' = messages
    BY <1>1, <1>6 DEF Drafts
  <2>2. TakeTurns'
    BY <1>2, <1>4, <1>6, <2>1 DEF TakeTurns
  <2>3. CallsAreAnswered'
    BY <1>2, <2>1 DEF CallsAreAnswered
  <2>4. CallsWereOffered'
    BY <1>1, <1>2, <1>5, <2>1 DEF CallsWereOffered
  <2> QED BY <1>3, <2>2, <2>3, <2>4 DEF Conversation, ConversationIsSound
<1>7. CASE Len(messages) % 2 # 1
  <2>1. PICK m \in Said : ms = Append(messages, m)
    BY <1>7 DEF Drafts
  <2>2. m \in Message /\ m.uses = {}
    BY DEF Said, Message
  <2> DEFINE n == Len(messages)
  <2>3. /\ messages' \in Seq(Message) /\ Len(messages') = n + 1
        /\ n \in Nat /\ DOMAIN messages = 1..n /\ DOMAIN messages' = 1..n + 1
        /\ \A i \in 1..n : messages'[i] = messages[i]
        /\ messages'[n + 1] = m /\ (n + 1) % 2 = 1
    BY <1>1, <1>2, <1>7, <2>1, <2>2, OneMore DEF TakeTurns
  <2>4. /\ m.results # {} => ~m.rest
        /\ m.results = (IF n > 0 THEN messages[n].uses ELSE {})
    <3>1. n \in Nat /\ Len(ms) = n + 1 /\ ms[n + 1] = m
      BY <1>2, <2>1, <2>2, OneMore DEF TakeTurns
    <3>2. Last(ms) = m
      BY <3>1 DEF Last
    <3>3. n > 0 => ms[Len(ms) - 1] = messages[n] /\ Len(ms) > 1
      <4>1. n > 0 => n \in 1..n /\ Len(ms) - 1 = n /\ Len(ms) > 1
        <5> HIDE DEF n
        <5> QED BY <3>1
      <4>2. n > 0 => ms[n] = messages[n]
        BY <1>1, <2>3, <4>1
      <4> HIDE DEF n
      <4> QED BY <4>1, <4>2
    <3>4. ~(n > 0) => ~(Len(ms) > 1)
      BY <3>1
    <3> HIDE DEF n
    <3> QED BY <1>1, <3>2, <3>3, <3>4 DEF Accepts
  <2> HIDE DEF n
  <2>5. TakeTurns'
    BY <1>2, <1>4, <2>2, <2>3 DEF TakeTurns
  <2>6. CallsAreAnswered'
    <3> SUFFICES ASSUME NEW i \in 1..n + 1, i % 2 = 1
                 PROVE  /\ messages'[i].results = (IF i > 1 THEN messages'[i - 1].uses ELSE {})
                        /\ messages'[i].results # {} => ~messages'[i].rest
      BY <2>3 DEF CallsAreAnswered
    <3>1. CASE i < n + 1
      BY <1>2, <2>3, <3>1, EarlierAnswered
    <3>2. CASE i = n + 1
      <4>1. messages'[i] = m /\ (i > 1 <=> n > 0) /\ i - 1 = n
        BY <2>3, <3>2
      <4>2. n > 0 => messages'[n] = messages[n]
        BY <2>3
      <4> QED BY <2>4, <4>1, <4>2
    <3> QED BY <2>3, <3>1, <3>2
  <2>7. CallsWereOffered'
    <3> SUFFICES ASSUME NEW i \in 1..n + 1, messages'[i].uses # {}
                 PROVE  \E p \in Request :
                           /\ asked'[p] \in Sampling /\ promise'[p] = "answered"
                           /\ p \notin Streamed =>
                                 asked'[p] = "message with tools" /\ "tools" \in clientCapabilities'
      BY <2>3 DEF CallsWereOffered
    <3>1. i \in 1..n /\ messages[i].uses # {}
      BY <2>2, <2>3
    <3> QED BY <1>1, <1>2, <1>5, <2>3, <3>1 DEF CallsWereOffered
  <2> QED BY <1>3, <2>5, <2>6, <2>7 DEF Conversation, ConversationIsSound
<1> QED BY <1>6, <1>7

\* An answer of the model is only taken when it is the model's turn.
LEMMA ReplyKeeps ==
  ASSUME Conversation, RequestInv', NEW r \in Request, NEW reply \in Reply, Replies(r, reply)
  PROVE  Conversation'
<1>1. asked[r] \in Sampling /\ Responds(r) /\ UNCHANGED <<clientCapabilities, asked>>
  BY DEF Replies
<1>2. TakeTurns /\ Asked /\ CallsAreAnswered /\ CallsWereOffered /\ TypeOK
  BY DEF Conversation, ConversationIsSound, RequestInv
<1>3. Asked'
  BY <1>1, <1>2 DEF Asked
<1>4. \A p \in Request : /\ Awaits(p)' => Awaits(p) /\ p # r
                         /\ promise[p] = "answered" => promise'[p] = "answered"
  BY <1>1, <1>2 DEF Responds, Settles, Awaits, TypeOK
<1>5. CASE ~(promise[r] = "pending" /\ Understood(r, reply))
  <2>1. UNCHANGED messages
    BY <1>5 DEF Replies
  <2> QED BY <1>1, <1>3, <1>4, <2>1, ConversationLasts
<1>6. CASE promise[r] = "pending" /\ Understood(r, reply)
  <2>1. messages' = Append(messages, reply) /\ reply \in Message
    BY <1>6, ClientFeaturesAssumption DEF Replies
  <2>2. Awaits(r) /\ promise'[r] = "answered"
    BY <1>1, <1>2, <1>6 DEF Awaits, Responds, Settles, TypeOK
  <2> DEFINE n == Len(messages)
  <2>3. /\ messages' \in Seq(Message) /\ Len(messages') = n + 1
        /\ n \in Nat /\ DOMAIN messages = 1..n /\ DOMAIN messages' = 1..n + 1
        /\ \A i \in 1..n : messages'[i] = messages[i]
        /\ messages'[n + 1] = reply /\ n % 2 = 1 /\ ~((n + 1) % 2 = 1)
    BY <1>2, <2>1, <2>2, OneMore DEF TakeTurns
  <2> HIDE DEF n
  <2>5. \A p \in Request : ~Awaits(p)'
    BY <1>2, <1>4, <2>2 DEF TakeTurns
  <2>6. TakeTurns'
    BY <1>2, <2>3, <2>5 DEF TakeTurns
  <2>7. CallsAreAnswered'
    <3> SUFFICES ASSUME NEW i \in 1..n + 1, i % 2 = 1
                 PROVE  /\ messages'[i].results = (IF i > 1 THEN messages'[i - 1].uses ELSE {})
                        /\ messages'[i].results # {} => ~messages'[i].rest
      BY <2>3 DEF CallsAreAnswered
    <3>1. i < n + 1
      BY <2>3
    <3> QED BY <1>2, <2>3, <3>1, EarlierAnswered
  <2>8. CallsWereOffered'
    <3> SUFFICES ASSUME NEW i \in 1..n + 1, messages'[i].uses # {}
                 PROVE  \E p \in Request :
                           /\ asked'[p] \in Sampling /\ promise'[p] = "answered"
                           /\ p \notin Streamed =>
                                 asked'[p] = "message with tools" /\ "tools" \in clientCapabilities'
      BY <2>3 DEF CallsWereOffered
    <3>1. CASE i \in 1..n
      BY <1>1, <1>2, <1>4, <2>3, <3>1 DEF CallsWereOffered
    <3>2. CASE i = n + 1
      BY <1>1, <1>2, <1>6, <2>2, <2>3, <3>2 DEF Understood, Asked
    <3>3. i \in 1..n \/ i = n + 1
      BY <2>3
    <3> QED BY <3>1, <3>2, <3>3
  <2> QED BY <1>3, <2>6, <2>7, <2>8 DEF Conversation, ConversationIsSound
<1> QED BY <1>5, <1>6

LEMMA ConversationKept == Conversation /\ [FeaturesNext]_featureVars => Conversation'
<1> SUFFICES ASSUME Conversation, [FeaturesNext]_featureVars PROVE Conversation'
  OBVIOUS
<1>1. TypeOK /\ RequestInv /\ Asked
  BY DEF Conversation, RequestInv
<1>2. CASE \E r \in Request : FeatureStep(r)
  <2> PICK r \in Request : FeatureStep(r)
    BY <1>2
  <2>1. RequestInv'
    <3>1. RequestStep(r)
      BY DEF FeatureStep, Asks, Replies, Elicits, Submits, Pings, Pongs, Requests, RequestStep
    <3> QED BY <1>1, <3>1, RequestStepKeeps
  <2>2. CASE \E ms \in Drafts, what \in Sampling : Asks(r, ms, what)
    BY <2>1, <2>2, AskKeeps
  <2>3. CASE \E reply \in Reply : Replies(r, reply)
    BY <2>1, <2>3, ReplyKeeps
  <2>4. CASE (\E mode \in Elicitation : Elicits(r, mode)) \/ Pings(r)
    <3> PICK what \in Elicitation \cup {"ping"} :
               Sends(r) /\ asked' = [asked EXCEPT ![r] = what]
               /\ UNCHANGED <<clientCapabilities, messages>>
      BY <2>4 DEF Elicits, Pings, Requests
    <3>1. what \notin Sampling
      BY DEF Elicitation, Sampling
    <3>2. Asked'
      BY <1>1, <3>1 DEF Asked, Sampling
    <3>3. \A p \in Request :
             /\ Awaits(p)' => Awaits(p)
             /\ promise[p] = "answered" => promise'[p] = "answered" /\ asked'[p] = asked[p]
      BY <1>1, <3>1 DEF Sends, Awaits, TypeOK, Asked
    <3> QED BY <2>1, <3>2, <3>3, ConversationLasts
  <2>5. CASE \/ \E input \in Input : Submits(r, input)
             \/ Pongs(r)
             \/ Elapses(r) /\ UNCHANGED features
    <3>1. Responds(r) \/ Elapses(r)
      BY <2>5 DEF Submits, Pongs
    <3>2. UNCHANGED <<clientCapabilities, asked, messages>>
      BY <2>5 DEF Submits, Pongs, features
    <3> QED BY <1>1, <2>1, <3>1, <3>2, PromisesLast, ConversationLasts DEF Awaits, Asked
  <2> QED BY <2>2, <2>3, <2>4, <2>5 DEF FeatureStep
<1>3. CASE (Closes \/ Tick) /\ UNCHANGED features
  <2>1. RequestInv'
    BY <1>1, <1>3, RequestsKept DEF Next
  <2>2. \A p \in Request : /\ promise'[p] = "pending" => promise[p] = "pending"
                           /\ promise[p] = "answered" => promise'[p] = "answered"
    BY <1>1, <1>3 DEF Closes, Tick, Settles, TypeOK
  <2> QED BY <1>1, <1>3, <2>1, <2>2, ConversationLasts DEF Awaits, Asked, features
<1>4. CASE UNCHANGED featureVars
  <2>1. RequestInv'
    BY <1>1, <1>4, RequestsKept DEF featureVars
  <2> QED BY <1>1, <1>4, <2>1, ConversationLasts DEF Awaits, Asked, featureVars, features, vars
<1> QED BY <1>2, <1>3, <1>4 DEF FeaturesNext

\* However requests time out, are sent again, or are answered too late, each tool
\* call of the conversation is answered, and was offered.
THEOREM ConversationSound == FeaturesSpec => []ConversationIsSound
<1>1. FeaturesSpec => []Conversation
  BY ConversationStarts, ConversationKept, PTL DEF FeaturesSpec
<1>2. Conversation => ConversationIsSound
  BY DEF Conversation
<1> QED BY <1>1, <1>2, PTL
=============================================================================
