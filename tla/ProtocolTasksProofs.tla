------------------------- MODULE ProtocolTasksProofs -------------------------
(***************************************************************************)
(* Proofs about the life of a task: it has one outcome, which is kept for  *)
(* its ttl, and its requests can be settled, for any number of requests    *)
(* and clients, and any size of the queue.                                 *)
(***************************************************************************)
EXTENDS ProtocolTasksProps, TLAPS

States == {"unasked", "checked", "notifying", "refused", "overflow", "pending",
           "answered", "crossed", "task over", "timed out", "closed"}

-----------------------------------------------------------------------------
(* Types *)

\* The parts of the type invariant.
StoreTypes ==
    /\ status \in {NoStatus, "gone"} \cup Live \cup Terminal
    /\ {result, stored} \subseteq BOOLEAN
    /\ left \in 0..Ttl /\ age \in 0..Ttl
    /\ setting \in {NoStatus} \cup Live \cup Terminal
    /\ cancel \in {"idle", "checked", "updated", "done", "error"}

QueueTypes == queue \in Seq(Message) /\ Len(queue) <= MaxQueue

ProtocolTypes ==
    /\ connected \in BOOLEAN
    /\ resolvers \subseteq Side /\ handlers \subseteq Side /\ timers \subseteq Side
    /\ clearing \subseteq Side
    /\ asked \in [Side -> States]

CallTypes ==
    /\ serving \in [Call -> {"idle", "drain", "send", "check", "wait", "fetch"} \cup Ended]
    /\ held \in [Call -> {{}} \cup {{s} : s \in Side}]
    /\ \A c \in Call : held[c] # {} <=> serving[c] = "send"

ClientTypes ==
    /\ stream \in {"creating", "polling", "sleeping", "fetching"} \cup StreamEnded
    /\ delivered \subseteq Side /\ lost \subseteq Side /\ answered \subseteq Foreign

LEMMA TypeParts ==
  /\ TypeOK <=> StoreTypes /\ QueueTypes /\ ProtocolTypes /\ CallTypes /\ ClientTypes
  /\ TypeOK' <=> StoreTypes' /\ QueueTypes' /\ ProtocolTypes' /\ CallTypes' /\ ClientTypes'
BY DEF TypeOK, StoreTypes, QueueTypes, ProtocolTypes, CallTypes, ClientTypes, States

LEMMA EmptyQueue == <<>> \in Seq(Message) /\ Len(<<>>) <= MaxQueue
<1>1. <<>> \in Seq(Message) /\ Len(<<>>) = 0
  OBVIOUS
<1> QED BY <1>1, TasksAssumption

LEMMA TypesAtStart == Init => TypeOK
<1> SUFFICES ASSUME Init PROVE TypeOK
  OBVIOUS
<1>1. StoreTypes
  <2>1. 0 \in 0..Ttl
    BY TasksAssumption
  <2> QED BY <2>1 DEF Init, StoreTypes
<1>2. QueueTypes
  BY EmptyQueue DEF Init, QueueTypes
<1>3. ProtocolTypes
  BY DEF Init, ProtocolTypes, States
<1>4. CallTypes /\ ClientTypes
  BY DEF Init, CallTypes, ClientTypes
<1> QED BY <1>1, <1>2, <1>3, <1>4, TypeParts

LEMMA UpdateTypes ==
  ASSUME StoreTypes, NEW st \in Live \cup Terminal, Updates(st)
  PROVE  /\ status' \in {NoStatus, "gone"} \cup Live \cup Terminal
         /\ result' = result /\ left' \in 0..Ttl /\ age' \in 0..Ttl
BY TasksAssumption DEF StoreTypes, Updates, TimerAfter

LEMMA SettleTypes ==
  ASSUME ProtocolTypes, NEW ss \in SUBSET Side, NEW outcome \in States, Settles(ss, outcome)
  PROVE  asked' \in [Side -> States]
BY DEF ProtocolTypes, Settles

LEMMA StoreTypesKept == TypeOK /\ [Next]_vars => StoreTypes'
<1> SUFFICES ASSUME TypeOK, [Next]_vars PROVE StoreTypes'
  OBVIOUS
<1> USE TasksAssumption
<1>1. StoreTypes
  BY TypeParts
<1>2. CASE Creates
  BY <1>1, <1>2 DEF Creates, StoreTypes, tool, Live
<1>3. CASE Tick
  <2>1. status' \in {NoStatus, "gone"} \cup Live \cup Terminal /\ left' \in 0..Ttl
    BY <1>1, <1>3 DEF Tick, StoreTypes
  <2>2. age' \in 0..Ttl
    BY <1>1, <1>3 DEF Tick, StoreTypes
  <2> QED BY <1>1, <1>3, <2>1, <2>2 DEF Tick, StoreTypes, tool
<1>4. CASE ToolStep
  <2>1. CASE \E st \in {"completed", "failed"} : Stores(st)
    BY <1>1, <2>1 DEF Stores, StoreTypes, TimerAfter, Terminal
  <2>2. CASE \E st \in {"working", "failed"} : SetChecks(st)
    BY <1>1, <2>2 DEF SetChecks, StoreTypes, store, Live, Terminal
  <2>3. CASE SetStores
    BY <1>1, <2>3, UpdateTypes DEF SetStores, StoreTypes, store
  <2> QED BY <1>4, <2>1, <2>2, <2>3 DEF ToolStep
<1>5. CASE \E s \in Side : SideStep(s)
  <2> PICK s \in Side : SideStep(s)
    BY <1>5
  <2>1. CASE AskUpdates(s)
    <3>1. "input_required" \in Live \cup Terminal
      BY DEF Live
    <3> QED BY <1>1, <2>1, <3>1, UpdateTypes DEF AskUpdates, StoreTypes, store
  <2>2. CASE ~AskUpdates(s)
    BY <1>1, <2>2
    DEF SideStep, AskChecks, AskRefused, AskQueues, SideTimesOut, ClientAnswers, StoreTypes, store
  <2> QED BY <2>1, <2>2
<1>6. CASE CancelStep
  <2>1. CASE CancelUpdates
    <3>1. "cancelled" \in Live \cup Terminal
      BY DEF Terminal
    <3> QED BY <1>1, <2>1, <3>1, UpdateTypes DEF CancelUpdates, StoreTypes, store, tool
  <2>2. CASE CancelChecks \/ CancelClears
    BY <1>1, <2>2 DEF CancelChecks, CancelClears, StoreTypes, store, tool
  <2> QED BY <1>6, <2>1, <2>2 DEF CancelStep
<1>7. CASE \/ \E f \in Foreign : AnswersForeign(f)
           \/ \E c \in Call : CallStep(c)
           \/ ClearRejects \/ StreamStep \/ StreamGivesUp \/ Closes \/ UNCHANGED vars
  <2>1. UNCHANGED <<store, setting, stored, cancel>>
    BY <1>7
    DEF AnswersForeign, CallStep, Serves, Calls, Drains, Delivers, DeliveryFails, Drained, Checks,
        Waits, Fetches, ClearRejects, StreamStep, StreamCreated, StreamPolls, StreamWakes,
        StreamFetched, StreamClosed, StreamGivesUp, Closes, vars, tool
  <2> QED BY <1>1, <2>1 DEF StoreTypes, store
<1> QED BY <1>2, <1>3, <1>4, <1>5, <1>6, <1>7 DEF Next

LEMMA QueueTypesKept == TypeOK /\ [Next]_vars => QueueTypes'
<1> SUFFICES ASSUME TypeOK, [Next]_vars PROVE QueueTypes'
  OBVIOUS
<1> USE TasksAssumption
<1>1. QueueTypes
  BY TypeParts
<1>2. CASE queue' = queue \/ queue' = <<>>
  BY <1>1, <1>2, EmptyQueue DEF QueueTypes
<1>3. CASE \E m \in Message : Fits /\ queue' = Append(queue, m)
  BY <1>1, <1>3 DEF QueueTypes, Fits
<1>4. CASE queue # <<>> /\ queue' = Tail(queue)
  BY <1>1, <1>4 DEF QueueTypes
<1>5. CASE \E s \in Side : SideStep(s)
  <2> PICK s \in Side : SideStep(s)
    BY <1>5
  <2>1. [type |-> "request", id |-> s] \in Message
    BY DEF Message
  <2> QED
    BY <1>2, <1>3, <2>1
    DEF SideStep, AskChecks, AskUpdates, AskRefused, AskQueues, SideTimesOut, ClientAnswers
<1>6. CASE \E f \in Foreign : AnswersForeign(f)
  <2> PICK f \in Foreign : AnswersForeign(f)
    BY <1>6
  <2>1. [type |-> "response", id |-> f] \in Message
    BY DEF Message
  <2> QED BY <1>2, <1>3, <2>1 DEF AnswersForeign
<1>7. CASE \E c \in Call : CallStep(c)
  BY <1>2, <1>4, <1>7
  DEF CallStep, Serves, Calls, Drains, Delivers, DeliveryFails, Drained, Checks, Waits, Fetches,
      ClearTaskQueue
<1>8. CASE Creates \/ Tick \/ ToolStep \/ ClearRejects \/ CancelStep \/ StreamStep
           \/ StreamGivesUp \/ Closes \/ UNCHANGED vars
  BY <1>2, <1>8
  DEF Creates, Tick, ToolStep, Stores, SetChecks, SetStores, ClearRejects, CancelStep,
      CancelChecks, CancelUpdates, CancelClears, ClearTaskQueue, StreamStep, StreamCreated,
      StreamPolls, StreamWakes, StreamFetched, StreamClosed, StreamGivesUp, Closes, vars
<1> QED BY <1>5, <1>6, <1>7, <1>8 DEF Next

LEMMA ProtocolTypesKept == TypeOK /\ [Next]_vars => ProtocolTypes'
<1> SUFFICES ASSUME TypeOK, [Next]_vars PROVE ProtocolTypes'
  OBVIOUS
<1>1. ProtocolTypes /\ QueueTypes /\ CallTypes
  BY TypeParts
<1>2. CASE UNCHANGED <<protocol, clearing, asked>>
  BY <1>1, <1>2 DEF ProtocolTypes, protocol
<1>3. CASE \E s \in Side : SideStep(s)
  <2> PICK s \in Side : SideStep(s)
    BY <1>3
  <2>1. CASE AskChecks(s) \/ AskUpdates(s) \/ AskRefused(s)
    BY <1>1, <2>1 DEF AskChecks, AskUpdates, AskRefused, ProtocolTypes, protocol, States
  <2>2. CASE AskQueues(s)
    BY <1>1, <2>2 DEF AskQueues, ProtocolTypes, States
  <2>3. CASE SideTimesOut(s)
    <3>1. "timed out" \in States
      BY DEF States
    <3> QED BY <1>1, <2>3, <3>1, SettleTypes DEF SideTimesOut, ProtocolTypes
  <2>4. CASE ClientAnswers(s)
    <3>1. "answered" \in States
      BY DEF States
    <3> QED BY <1>1, <2>4, <3>1, SettleTypes DEF ClientAnswers, Resolves, ProtocolTypes
  <2> QED BY <2>1, <2>2, <2>3, <2>4 DEF SideStep
<1>4. CASE \E c \in Call : Drains(c)
  <2>1. "crossed" \in States
    BY DEF States
  <2> QED BY <1>1, <1>4, <2>1, SettleTypes DEF Drains, Resolves, ProtocolTypes
<1>5. CASE ClearTaskQueue /\ UNCHANGED <<protocol, asked>>
  <2>1. {m.id : m \in {queue[i] : i \in {j \in DOMAIN queue : queue[j].type = "request"}}}
           \subseteq Side
    <3>1. \A i \in DOMAIN queue : queue[i] \in Message
      BY <1>1 DEF QueueTypes
    <3>2. \A i \in DOMAIN queue : queue[i].id \in Side
      BY <3>1 DEF Message
    <3> QED BY <3>2
  <2> QED BY <1>1, <1>5, <2>1 DEF ClearTaskQueue, ProtocolTypes, protocol
<1>6. CASE ClearRejects
  <2>1. "task over" \in States
    BY DEF States
  <2> QED BY <1>1, <1>6, <2>1, SettleTypes DEF ClearRejects, Resolves, ProtocolTypes
<1>7. CASE Closes
  <2>1. "closed" \in States
    BY DEF States
  <2> QED BY <1>1, <1>7, <2>1, SettleTypes DEF Closes, ProtocolTypes
<1>8. CASE \E c \in Call : CallStep(c)
  BY <1>2, <1>4, <1>5, <1>8
  DEF CallStep, Serves, Calls, Delivers, DeliveryFails, Drained, Checks, Waits, Fetches, tool
<1>9. CASE Creates \/ Tick \/ ToolStep \/ (\E f \in Foreign : AnswersForeign(f)) \/ CancelStep
           \/ StreamStep \/ StreamGivesUp \/ UNCHANGED vars
  BY <1>2, <1>5, <1>9
  DEF Creates, Tick, ToolStep, Stores, SetChecks, SetStores, AnswersForeign, CancelStep,
      CancelChecks, CancelUpdates, CancelClears, StreamStep, StreamCreated, StreamPolls,
      StreamWakes, StreamFetched, StreamClosed, StreamGivesUp, vars, tool
<1> QED BY <1>3, <1>6, <1>7, <1>8, <1>9 DEF Next

LEMMA CallTypesKept == TypeOK /\ [Next]_vars => CallTypes' /\ ClientTypes'
<1> SUFFICES ASSUME TypeOK, [Next]_vars PROVE CallTypes' /\ ClientTypes'
  OBVIOUS
<1>1. CallTypes /\ ClientTypes /\ QueueTypes
  BY TypeParts
<1>2. CASE \E c \in Call : CallStep(c)
  <2> PICK c \in Call : CallStep(c)
    BY <1>2
  <2>1. CASE Drains(c)
    <3>1. queue # <<>> => Head(queue) \in Message
      BY <1>1 DEF QueueTypes
    <3>2. queue # <<>> => Head(queue).id \in Side
      BY <3>1 DEF Message
    <3> QED BY <1>1, <2>1, <3>2 DEF Drains, CallTypes, ClientTypes, client, history
  <2>2. CASE Delivers(c)
    <3>1. held[c] \subseteq Side
      BY <1>1 DEF CallTypes
    <3> QED BY <1>1, <2>2, <3>1 DEF Delivers, CallTypes, ClientTypes, history
  <2>3. CASE DeliveryFails(c)
    <3>1. held[c] \subseteq Side
      BY <1>1 DEF CallTypes
    <3> QED BY <1>1, <2>3, <3>1 DEF DeliveryFails, CallTypes, ClientTypes, client, Ended
  <2>4. CASE Calls(c) \/ Drained(c) \/ Checks(c) \/ Waits(c) \/ Fetches(c)
    <3>1. UNCHANGED <<held, client, history>>
      BY <2>4 DEF Calls, Drained, Checks, Waits, Fetches
    <3>2. \E st \in {"drain", "check", "wait", "fetch"} \cup Ended :
             serving[c] # "send" /\ serving' = [serving EXCEPT ![c] = st]
      BY <2>4 DEF Calls, Drained, Checks, Waits, Fetches, Ended
    <3>3. CallTypes'
      BY <1>1, <3>1, <3>2 DEF CallTypes, Ended
    <3> QED BY <1>1, <3>1, <3>3 DEF ClientTypes, client, history
  <2> QED BY <2>1, <2>2, <2>3, <2>4 DEF CallStep, Serves
<1>3. CASE UNCHANGED <<calls, client, history>>
  BY <1>1, <1>3 DEF CallTypes, ClientTypes, calls, client, history
<1>4. CASE \E s \in Side : SideStep(s)
  <2> PICK s \in Side : SideStep(s)
    BY <1>4
  <2>1. CASE ClientAnswers(s)
    BY <1>1, <2>1 DEF ClientAnswers, CallTypes, ClientTypes, calls, history
  <2> QED BY <1>3, <2>1 DEF SideStep, AskChecks, AskUpdates, AskRefused, AskQueues, SideTimesOut
<1>5. CASE \E f \in Foreign : AnswersForeign(f)
  BY <1>1, <1>5 DEF AnswersForeign, CallTypes, ClientTypes, calls, client
<1>6. CASE StreamStep \/ StreamGivesUp
  <2>1. UNCHANGED <<calls, delivered, history>>
    BY <1>6 DEF StreamStep, StreamCreated, StreamPolls, StreamWakes, StreamFetched, StreamClosed,
                StreamGivesUp
  <2>2. stream' \in {"creating", "polling", "sleeping", "fetching"} \cup StreamEnded
    BY <1>6 DEF StreamStep, StreamCreated, StreamPolls, StreamWakes, StreamFetched, StreamClosed,
                StreamGivesUp, After, StreamEnded, Ended
  <2> QED BY <1>1, <2>1, <2>2 DEF CallTypes, ClientTypes, calls, history
<1>7. CASE Creates \/ Tick \/ ToolStep \/ CancelStep \/ ClearRejects \/ Closes \/ UNCHANGED vars
  BY <1>3, <1>7
  DEF Creates, Tick, ToolStep, Stores, SetChecks, SetStores, CancelStep, CancelChecks,
      CancelUpdates, CancelClears, ClearRejects, Closes, vars
<1> QED BY <1>2, <1>4, <1>5, <1>6, <1>7 DEF Next

LEMMA TypesKept == TypeOK /\ [Next]_vars => TypeOK'
BY StoreTypesKept, QueueTypesKept, ProtocolTypesKept, CallTypesKept, TypeParts

-----------------------------------------------------------------------------
(* The outcome of the task *)

\* The tool's result and the client's cancel exclude each other, and the task is
\* deleted exactly when it has been over for its ttl.
Life ==
    /\ stored <=> result
    /\ result => status \in {"completed", "failed", "gone"}
    /\ cancel \in {"updated", "done"} => ~result /\ status \in {"cancelled", "gone"}
    /\ \A c \in Call : serving[c] = "result" => result
    /\ stream = "result" => result
    /\ status \in Live \cup {NoStatus} => age = 0
    /\ status \in Terminal => left > 0 /\ age + left = Ttl
    /\ status = "gone" =>
          left = 0 /\ (result \/ cancel \in {"updated", "done"} => age = Ttl)
    /\ status = NoStatus => left = 0

LEMMA LifeStarts == Init => Life
BY TasksAssumption DEF Init, Life, Live, Terminal, NoStatus

\* A change of a task that is not over.
LEMMA UpdatesLife ==
  ASSUME TypeOK, Life, status \in Live, NEW st \in Live \cup Terminal, Updates(st)
  PROVE  /\ ~result /\ cancel \notin {"updated", "done"}
         /\ result' = result /\ age' = 0 /\ status' = st
         /\ st \in Terminal => left' > 0 /\ age' + left' = Ttl
<1>1. ~result /\ cancel \notin {"updated", "done"} /\ age = 0
  BY DEF Life, Live
<1> QED BY <1>1, TasksAssumption DEF Updates, TimerAfter

LEMMA LifeKept == TypeOK /\ Life /\ [Next]_vars => Life'
<1> SUFFICES ASSUME TypeOK, Life, [Next]_vars PROVE Life'
  OBVIOUS
<1> USE TasksAssumption
<1>1. StoreTypes /\ CallTypes
  BY TypeParts
<1>2. CASE Creates
  BY <1>1, <1>2 DEF Creates, Life, Live, Terminal, NoStatus, tool, calls, client
<1>3. CASE Tick
  <2>1. UNCHANGED <<result, stored, cancel, serving, stream>>
        /\ left \in 1..Ttl /\ left' = left - 1
    BY <1>1, <1>3 DEF Tick, tool, calls, client, StoreTypes
  <2>2. CASE status \in Live
    BY <1>3, <2>1, <2>2 DEF Tick, Life, Live, Terminal, NoStatus
  <2>3. CASE status \in Terminal
    <3>1. age \in Nat /\ age + left = Ttl /\ age' = age + 1
      BY <1>1, <1>3, <2>1, <2>3 DEF Tick, Life, StoreTypes
    <3>2. age' + left' = Ttl /\ (left = 1 => left' = 0 /\ age' = Ttl)
          /\ (left # 1 => left' > 0)
      BY <2>1, <3>1
    <3> QED BY <1>3, <2>1, <2>3, <3>2 DEF Tick, Life, Live, Terminal, NoStatus
  <2>4. status \in Live \cup Terminal
    BY <1>1, <2>1 DEF Life, StoreTypes
  <2> QED BY <2>2, <2>3, <2>4
<1>4. CASE \E st \in {"completed", "failed"} : Stores(st)
  BY <1>1, <1>4 DEF Stores, Accepts, TimerAfter, Life, Live, Terminal, NoStatus, calls, client
<1>5. CASE (SetStores /\ Accepts) \/ \E s \in Side : AskUpdates(s) /\ Accepts
  <2>1. \E st \in {"working", "failed"} \cup Live \cup Terminal :
           Updates(st) /\ st \in Live \cup Terminal
    BY <1>1, <1>5 DEF SetStores, AskUpdates, StoreTypes, Live, Terminal
  <2> PICK st \in Live \cup Terminal : Updates(st)
    BY <2>1
  <2>2. UNCHANGED <<stored, cancel, serving, stream>> /\ status \in Live
    BY <1>5 DEF SetStores, AskUpdates, Accepts, calls, client
  <2>3. /\ ~result /\ cancel \notin {"updated", "done"}
        /\ result' = result /\ age' = 0 /\ status' = st
        /\ st \in Terminal => left' > 0 /\ age' + left' = Ttl
    BY <2>2, UpdatesLife
  <2> QED BY <2>2, <2>3 DEF Life, Live, Terminal, NoStatus
<1>6. CASE CancelUpdates /\ Accepts
  <2>1. "cancelled" \in Live \cup Terminal
    BY DEF Terminal
  <2>2. Updates("cancelled") /\ status \in Live /\ UNCHANGED <<stored, serving, stream>>
    BY <1>6 DEF CancelUpdates, Accepts, tool, calls, client
  <2>3. /\ ~result /\ result' = result /\ age' = 0 /\ status' = "cancelled"
        /\ left' > 0 /\ age' + left' = Ttl
    BY <2>1, <2>2, UpdatesLife DEF Terminal
  <2> QED BY <2>2, <2>3 DEF Life, Live, Terminal, NoStatus
<1>7. CASE CancelChecks \/ (CancelUpdates /\ ~Accepts) \/ CancelClears
  BY <1>7 DEF CancelChecks, CancelUpdates, CancelClears, store, tool, calls, client, Life
<1>8. CASE /\ UNCHANGED <<store, stored, cancel>>
           /\ \A c \in Call : serving'[c] = "result" => serving[c] = "result" \/ result
           /\ stream' = "result" => \/ stream = "result"
                                    \/ serving[own] = "result"
  BY <1>8 DEF Life, store
<1>9. CASE \E c \in Call : CallStep(c)
  <2> PICK c \in Call : CallStep(c)
    BY <1>9
  <2>1. UNCHANGED <<store, stored, cancel, stream>>
    BY DEF CallStep, Serves, Calls, Drains, Delivers, DeliveryFails, Drained, Checks, Waits,
           Fetches, tool, client
  <2>2. \/ serving' = serving
        \/ \E st \in {"drain", "send", "check", "wait", "fetch", "error", "result"} :
               serving' = [serving EXCEPT ![c] = st] /\ (st = "result" => result)
    BY DEF CallStep, Serves, Calls, Drains, Delivers, DeliveryFails, Drained, Checks, Waits,
           Fetches
  <2>3. \A d \in Call : serving'[d] = "result" => serving[d] = "result" \/ result
    BY <1>1, <2>2 DEF CallTypes
  <2> QED BY <1>8, <2>1, <2>3
<1>10. CASE StreamStep
  <2>1. UNCHANGED <<store, stored, cancel, serving>>
    BY <1>10 DEF StreamStep, StreamCreated, StreamPolls, StreamWakes, StreamFetched, StreamClosed,
                 tool, calls
  <2>2. stream' = "result" => stream = "result" \/ serving[own] = "result"
    BY <1>10 DEF StreamStep, StreamCreated, StreamPolls, StreamWakes, StreamFetched, StreamClosed,
                 After
  <2> QED BY <1>8, <2>1, <2>2
<1>11. CASE \/ (\E st \in {"working", "failed"} : SetChecks(st)) \/ (SetStores /\ ~Accepts)
            \/ (\E s \in Side : SideStep(s) /\ ~(AskUpdates(s) /\ Accepts))
            \/ (\E f \in Foreign : AnswersForeign(f))
            \/ ClearRejects \/ StreamGivesUp \/ Closes \/ UNCHANGED vars
  <2>1. UNCHANGED <<store, stored, cancel, serving>> /\ (stream' = "result" => stream = "result")
    BY <1>11
    DEF SetChecks, SetStores, SideStep, AskChecks, AskUpdates, AskRefused, AskQueues, SideTimesOut,
        ClientAnswers, AnswersForeign, ClearRejects, StreamGivesUp, Closes, vars, tool, calls,
        client
  <2> QED BY <1>8, <2>1
<1> QED
  BY <1>2, <1>3, <1>4, <1>5, <1>6, <1>7, <1>9, <1>10, <1>11 DEF Next, ToolStep, CancelStep, SideStep

-----------------------------------------------------------------------------
(* The requests of the task *)

Queued(s) == \E i \in DOMAIN queue : queue[i] = [type |-> "request", id |-> s]

\* Where the message of a request may be.
Somewhere(s) ==
    Queued(s) \/ (\E c \in Call : s \in held[c]) \/ s \in delivered \cup clearing \cup lost

Tables(s) == connected /\ s \in resolvers \cap handlers \cap timers

LEMMA ReachableParts ==
  /\ PendingIsReachable <=> \A s \in Side : asked[s] = "pending" => Tables(s) /\ Somewhere(s)
  /\ PendingIsReachable' <=>
        \A s \in Side : asked'[s] = "pending" => Tables(s)' /\ Somewhere(s)'
BY DEF PendingIsReachable, Tables, Somewhere, Queued

\* Nothing is lost from a queue that grows.
LEMMA QueueGrows ==
  ASSUME queue \in Seq(Message), NEW m \in Message, queue' = Append(queue, m)
  PROVE  /\ \A s \in Side : Queued(s) => Queued(s)'
         /\ \A s \in Side : m = [type |-> "request", id |-> s] => Queued(s)'
<1>1. /\ DOMAIN queue' = 1..Len(queue) + 1 /\ Len(queue) \in Nat
      /\ \A i \in DOMAIN queue : i \in DOMAIN queue' /\ queue'[i] = queue[i]
      /\ queue'[Len(queue) + 1] = m
  OBVIOUS
<1>2. Len(queue) + 1 \in DOMAIN queue'
  BY <1>1
<1> QED BY <1>1, <1>2 DEF Queued

\* What is in a queue is its head or in its tail.
LEMMA QueueShrinks ==
  ASSUME queue \in Seq(Message), queue # <<>>, queue' = Tail(queue)
  PROVE  \A s \in Side : Queued(s) => Queued(s)' \/ Head(queue) = [type |-> "request", id |-> s]
<1> SUFFICES ASSUME NEW s \in Side, Queued(s)
             PROVE  Queued(s)' \/ Head(queue) = [type |-> "request", id |-> s]
  OBVIOUS
<1>1. PICK i \in DOMAIN queue : queue[i] = [type |-> "request", id |-> s]
  BY DEF Queued
<1>2. CASE i = 1
  BY <1>1, <1>2
<1>3. CASE i # 1
  <2>1. i - 1 \in DOMAIN queue' /\ queue'[i - 1] = queue[i]
    BY <1>3
  <2> QED BY <1>1, <2>1 DEF Queued
<1> QED BY <1>2, <1>3

LEMMA QueueCleared ==
  ASSUME ClearTaskQueue
  PROVE  clearing \subseteq clearing' /\ \A s \in Side : Queued(s) => s \in clearing'
<1> SUFFICES ASSUME NEW s \in Side, NEW i \in DOMAIN queue,
                    queue[i] = [type |-> "request", id |-> s]
             PROVE  s \in clearing'
  BY DEF Queued, ClearTaskQueue
<1>1. queue[i].type = "request" /\ queue[i].id = s
  OBVIOUS
<1> QED BY <1>1 DEF ClearTaskQueue

\* A request that stays pending stays in its tables and somewhere.
LEMMA ReachableStays ==
  ASSUME PendingIsReachable,
         \A s \in Side : asked[s] = "pending" /\ asked'[s] = "pending" /\ Tables(s) => Tables(s)',
         \A s \in Side : asked[s] = "pending" /\ asked'[s] = "pending" /\ Somewhere(s) =>
                            Somewhere(s)',
         \A s \in Side : asked'[s] = "pending" => asked[s] = "pending"
  PROVE  PendingIsReachable'
BY ReachableParts

LEMMA SettlesPending ==
  ASSUME ProtocolTypes, NEW ss \in SUBSET Side, NEW outcome \in States \ {"pending"},
         Settles(ss, outcome)
  PROVE  \A s \in Side : asked'[s] = "pending" => asked[s] = "pending" /\ s \notin ss
BY DEF ProtocolTypes, Settles

LEMMA ReachableKept == TypeOK /\ PendingIsReachable /\ [Next]_vars => PendingIsReachable'
<1> SUFFICES ASSUME TypeOK, PendingIsReachable, [Next]_vars PROVE PendingIsReachable'
  OBVIOUS
<1> USE TasksAssumption
<1>1. ProtocolTypes /\ QueueTypes /\ CallTypes
  BY TypeParts
<1>2. CASE UNCHANGED <<queue, protocol, clearing, asked, held, delivered, lost>>
  BY <1>2 DEF PendingIsReachable, protocol
<1>3. CASE \E s \in Side : SideStep(s)
  <2> PICK s \in Side : SideStep(s)
    BY <1>3
  <2>1. CASE AskChecks(s) \/ AskUpdates(s) \/ AskRefused(s)
    <3>1. UNCHANGED <<queue, protocol, clearing, held, delivered, lost>>
      BY <2>1 DEF AskChecks, AskUpdates, AskRefused, calls, client, history
    <3>2. \A p \in Side : asked'[p] = "pending" => asked[p] = "pending"
      BY <1>1, <2>1 DEF AskChecks, AskUpdates, AskRefused, ProtocolTypes
    <3> QED BY <3>1, <3>2, ReachableStays DEF Tables, Somewhere, Queued, protocol
  <2>2. CASE AskQueues(s)
    <3>1. UNCHANGED <<connected, clearing, held, delivered, lost>> /\ connected
          /\ resolvers' = resolvers \cup {s} /\ handlers' = handlers \cup {s}
      BY <2>2 DEF AskQueues, calls, client, history
    <3>2. \A p \in Side : p # s => asked'[p] = asked[p]
      BY <1>1, <2>2 DEF AskQueues, ProtocolTypes
    <3>3. CASE Fits
      <4>1. [type |-> "request", id |-> s] \in Message
        BY DEF Message
      <4>2. queue' = Append(queue, [type |-> "request", id |-> s]) /\ timers' = timers \cup {s}
        BY <2>2, <3>3 DEF AskQueues
      <4>3. Queued(s)' /\ \A p \in Side : Queued(p) => Queued(p)'
        BY <1>1, <4>1, <4>2, QueueGrows DEF QueueTypes
      <4> QED BY <3>1, <3>2, <4>2, <4>3, ReachableParts DEF Tables, Somewhere
    <3>4. CASE ~Fits
      <4>1. asked'[s] # "pending" /\ UNCHANGED <<queue, timers>>
        BY <1>1, <2>2, <3>4 DEF AskQueues, ProtocolTypes
      <4> QED BY <3>1, <3>2, <4>1, ReachableParts DEF Tables, Somewhere, Queued
    <3> QED BY <3>3, <3>4
  <2>3. CASE SideTimesOut(s)
    <3>1. \A p \in Side : asked'[p] = "pending" => asked[p] = "pending" /\ p # s
      BY <1>1, <2>3, SettlesPending DEF SideTimesOut, States
    <3>2. /\ UNCHANGED <<queue, connected, resolvers, clearing, held, delivered, lost>>
          /\ timers' = timers \ {s} /\ handlers' = handlers \ {s}
      BY <2>3 DEF SideTimesOut, calls, client, history
    <3> QED BY <3>1, <3>2, ReachableStays DEF Tables, Somewhere, Queued
  <2>4. CASE ClientAnswers(s)
    <3>1. UNCHANGED <<queue, connected, clearing, held, lost>> /\ delivered' = delivered \ {s}
      BY <2>4 DEF ClientAnswers, calls, history
    <3>2. CASE s \in resolvers
      <4>1. resolvers' = resolvers \ {s} /\ UNCHANGED <<handlers, timers>>
            /\ Settles({s} \cap resolvers \cap handlers, "answered")
        BY <2>4, <3>2 DEF ClientAnswers, Resolves
      <4>2. \A p \in Side : asked'[p] = "pending" =>
               asked[p] = "pending" /\ p \notin {s} \cap resolvers \cap handlers
        BY <1>1, <4>1, SettlesPending DEF States
      <4>3. \A p \in Side : asked'[p] = "pending" => asked[p] = "pending" /\ p # s
        BY <4>2, ReachableParts DEF Tables
      <4> QED BY <3>1, <4>1, <4>3, ReachableStays DEF Tables, Somewhere, Queued
    <3>3. CASE s \notin resolvers
      <4>1. asked[s] # "pending"
        BY <3>3, ReachableParts DEF Tables
      <4>2. /\ UNCHANGED <<resolvers, asked>> /\ handlers' = handlers \ {s}
            /\ timers \ {s} \subseteq timers'
        BY <2>4, <3>3 DEF ClientAnswers
      <4> QED BY <3>1, <4>1, <4>2, ReachableStays DEF Tables, Somewhere, Queued
    <3> QED BY <3>2, <3>3
  <2> QED BY <2>1, <2>2, <2>3, <2>4 DEF SideStep
<1>4. CASE \E f \in Foreign : AnswersForeign(f)
  <2> PICK f \in Foreign : AnswersForeign(f)
    BY <1>4
  <2>1. UNCHANGED <<protocol, clearing, asked, held, delivered, lost>>
    BY DEF AnswersForeign, tool, calls, client
  <2>2. [type |-> "response", id |-> f] \in Message
    BY DEF Message
  <2>3. \A s \in Side : Queued(s) => Queued(s)'
    BY <1>1, <2>2, QueueGrows DEF AnswersForeign, QueueTypes, Queued
  <2> QED BY <2>1, <2>3, ReachableStays DEF Tables, Somewhere, protocol
<1>5. CASE ClearTaskQueue /\ UNCHANGED <<protocol, asked, held, delivered, lost>>
  BY <1>5, QueueCleared, ReachableStays DEF Tables, Somewhere, protocol
<1>6. CASE \E c \in Call : CallStep(c)
  <2> PICK c \in Call : CallStep(c)
    BY <1>6
  <2>1. CASE Drains(c)
    <3>1. queue # <<>> /\ queue' = Tail(queue)
          /\ UNCHANGED <<connected, handlers, timers, clearing, delivered, lost>>
      BY <2>1 DEF Drains, client, history
    <3>2. \A s \in Side : Queued(s) =>
             Queued(s)' \/ Head(queue) = [type |-> "request", id |-> s]
      BY <1>1, <3>1, QueueShrinks DEF QueueTypes
    <3>3. Head(queue) \in Message
      BY <1>1, <3>1 DEF QueueTypes
    <3>4. CASE Head(queue).type = "response"
      <4>1. Resolves({Head(queue).id}, "crossed") /\ UNCHANGED held
        BY <2>1, <3>4 DEF Drains
      <4>2. resolvers' = resolvers \ {Head(queue).id}
            /\ Settles({Head(queue).id} \cap resolvers \cap handlers, "crossed")
        BY <4>1 DEF Resolves
      <4>3. {Head(queue).id} \cap resolvers \cap handlers \in SUBSET Side
            /\ "crossed" \in States \ {"pending"}
        BY <3>3 DEF Message, States
      <4>4. \A s \in Side : asked'[s] = "pending" =>
               asked[s] = "pending" /\ s \notin {Head(queue).id} \cap resolvers \cap handlers
        BY <1>1, <4>2, <4>3, SettlesPending
      <4>5. \A s \in Side : asked'[s] = "pending" => asked[s] = "pending" /\ s # Head(queue).id
        BY <4>4, ReachableParts DEF Tables
      <4>6. \A s \in Side : Queued(s) => Queued(s)'
        BY <3>2, <3>4
      <4> QED BY <3>1, <4>1, <4>2, <4>5, <4>6, ReachableStays DEF Tables, Somewhere
    <3>5. CASE Head(queue).type # "response"
      <4>1. held[c] = {}
        BY <1>1, <2>1 DEF Drains, CallTypes
      <4>2. held' = [held EXCEPT ![c] = {Head(queue).id}] /\ UNCHANGED <<resolvers, asked>>
        BY <2>1, <3>5 DEF Drains
      <4>3. \A s \in Side : \A d \in Call : s \in held[d] => s \in held'[d]
        BY <1>1, <4>1, <4>2 DEF CallTypes
      <4>4. \A s \in Side : Head(queue) = [type |-> "request", id |-> s] => s \in held'[c]
        BY <1>1, <4>2 DEF CallTypes
      <4>5. \A s \in Side : Somewhere(s) => Somewhere(s)'
        BY <3>1, <3>2, <4>3, <4>4 DEF Somewhere
      <4> QED BY <3>1, <4>2, <4>5, ReachableStays DEF Tables
    <3> QED BY <3>4, <3>5
  <2>2. CASE Delivers(c)
    <3>1. /\ UNCHANGED <<queue, protocol, clearing, asked, lost>>
          /\ delivered' = IF connected THEN delivered \cup held[c] ELSE delivered
          /\ held' = [held EXCEPT ![c] = {}]
      BY <2>2 DEF Delivers, tool, history
    <3>2. \A s \in Side : connected => (Somewhere(s) => Somewhere(s)')
      BY <1>1, <3>1 DEF Somewhere, Queued, CallTypes
    <3>3. \A s \in Side : asked[s] = "pending" => connected
      BY ReachableParts DEF Tables
    <3> QED BY <3>1, <3>2, <3>3, ReachableStays DEF Tables, protocol
  <2>3. CASE DeliveryFails(c)
    <3>1. /\ UNCHANGED <<queue, protocol, clearing, asked, delivered>>
          /\ lost' = lost \cup held[c] /\ held' = [held EXCEPT ![c] = {}]
      BY <2>3 DEF DeliveryFails, tool, client
    <3>2. \A s \in Side : Somewhere(s) => Somewhere(s)'
      BY <1>1, <3>1 DEF Somewhere, Queued, CallTypes
    <3> QED BY <3>1, <3>2, ReachableStays DEF Tables, protocol
  <2>4. CASE Fetches(c)
    BY <1>2, <1>5, <2>4 DEF Fetches, tool, client, history
  <2>5. CASE Calls(c) \/ Drained(c) \/ Checks(c) \/ Waits(c)
    BY <1>2, <2>5 DEF Calls, Drained, Checks, Waits, tool, client, history
  <2> QED BY <2>1, <2>2, <2>3, <2>4, <2>5 DEF CallStep, Serves
<1>7. CASE ClearRejects
  <2>1. /\ UNCHANGED <<queue, connected, handlers, timers, held, delivered, lost>>
        /\ resolvers' = resolvers \ clearing
        /\ Settles(clearing \cap resolvers \cap handlers, "task over")
    BY <1>7 DEF ClearRejects, Resolves, calls, client, history
  <2>2. clearing \cap resolvers \cap handlers \in SUBSET Side
        /\ "task over" \in States \ {"pending"}
    BY <1>1 DEF ProtocolTypes, States
  <2>3. \A s \in Side : asked'[s] = "pending" =>
           asked[s] = "pending" /\ s \notin clearing \cap resolvers \cap handlers
    BY <1>1, <2>1, <2>2, SettlesPending
  <2>4. \A s \in Side : asked'[s] = "pending" => asked[s] = "pending" /\ s \notin clearing
    BY <2>3, ReachableParts DEF Tables
  <2> QED BY <2>1, <2>4, ReachableStays DEF Tables, Somewhere, Queued
<1>8. CASE Closes
  <2>1. handlers \in SUBSET Side /\ "closed" \in States \ {"pending"}
    BY <1>1 DEF ProtocolTypes, States
  <2>2. \A s \in Side : asked'[s] = "pending" => asked[s] = "pending" /\ s \notin handlers
    BY <1>1, <1>8, <2>1, SettlesPending DEF Closes
  <2>3. \A s \in Side : asked'[s] # "pending"
    BY <2>2, ReachableParts DEF Tables
  <2> QED BY <2>3, ReachableParts
<1>9. CASE Creates \/ Tick \/ ToolStep \/ CancelStep \/ StreamStep \/ StreamGivesUp
           \/ UNCHANGED vars
  BY <1>2, <1>5, <1>9
  DEF Creates, Tick, ToolStep, Stores, SetChecks, SetStores, CancelStep, CancelChecks,
      CancelUpdates, CancelClears, StreamStep, StreamCreated, StreamPolls, StreamWakes,
      StreamFetched, StreamClosed, StreamGivesUp, vars, tool, calls, client, history
<1> QED BY <1>3, <1>4, <1>6, <1>7, <1>8, <1>9 DEF Next

-----------------------------------------------------------------------------
\* All of it together is inductive.
TaskInv == TypeOK /\ Life /\ PendingIsReachable

\* It holds in every reachable state of a task.
THEOREM TaskInvariance == Spec => []TaskInv
<1>1. Init => PendingIsReachable
  BY DEF Init, PendingIsReachable
<1>2. Init => TaskInv
  BY <1>1, TypesAtStart, LifeStarts DEF TaskInv
<1>3. TaskInv /\ [Next]_vars => TaskInv'
  BY TypesKept, LifeKept, ReachableKept DEF TaskInv
<1> QED BY <1>2, <1>3, PTL DEF Spec

\* Values have their types, and a call holds only the request that it is sending.
THEOREM TaskTypes == Spec => []TypeOK
<1>1. TaskInv => TypeOK
  BY DEF TaskInv
<1> QED BY <1>1, TaskInvariance, PTL

\* Either the tool's result or the client's cancel is the outcome, never both.
THEOREM TaskHasOneOutcome == Spec => []OneOutcome
<1>1. TaskInv => OneOutcome
  BY DEF TaskInv, Life, OneOutcome
<1> QED BY <1>1, TaskInvariance, PTL

\* A task that is over is kept for its ttl.
THEOREM TaskIsKept == Spec => []KeptForTtl
<1>1. TaskInv => KeptForTtl
  BY DEF TaskInv, Life, KeptForTtl
<1> QED BY <1>1, TaskInvariance, PTL

\* Whatever happens to the task, its pending requests can still be settled.
THEOREM RequestsAreReachable == Spec => []PendingIsReachable
<1>1. TaskInv => PendingIsReachable
  BY DEF TaskInv
<1> QED BY <1>1, TaskInvariance, PTL
=============================================================================
