---------------------------- MODULE ProtocolTasks ----------------------------
(***************************************************************************)
(* The life of one task of an MCP server, from the tools/call that creates *)
(* it to the end of the stream that the client reads its outcome from:     *)
(* InMemoryTaskStore and InMemoryTaskMessageQueue                          *)
(* (experimental/tasks/stores/inMemory.ts), the handlers of tasks/get,     *)
(* tasks/result and tasks/cancel, the requests that the task makes of the  *)
(* client, and requestStream() (shared/protocol.ts).                       *)
(*                                                                         *)
(* The actors are the tool that works on the task, the handlers of the     *)
(* client's calls, and the client.  A step is what one of them does        *)
(* between two awaits.  Requests to the client are not sent: they are      *)
(* queued, and delivered on the answer of a tasks/result call.             *)
(***************************************************************************)
EXTENDS Naturals, Sequences

CONSTANTS
    Side,      \* the requests that the task makes, each at most once
    Foreign,   \* ids of client requests whose metadata name the task
    Call,      \* tasks/result calls
    own,       \* the one that the stream makes
    Ttl,       \* task.ttl, in ticks
    MaxQueue   \* options.maxTaskQueueSize

ASSUME TasksAssumption ==
    /\ Foreign \subseteq Side  \* both ends count their requests from 0
    /\ own \in Call
    /\ Ttl \in Nat \ {0}
    /\ MaxQueue \in Nat

VARIABLES
    \* InMemoryTaskStore
    status, result,
    left,        \* ticks until the cleanup timer fires
    \* InMemoryTaskMessageQueue
    queue,
    \* Protocol of the server
    connected,
    resolvers,   \* keys of _requestResolvers
    handlers,    \* keys of _responseHandlers
    timers,      \* keys of _timeoutInfo
    clearing,    \* requests taken from the queue to be rejected
    \* the tool
    asked,       \* how far mcpReq.send() is with a request, and its outcome
    setting,     \* status about to be stored
    stored,      \* storeTaskResult() was fulfilled
    \* handlers of the client's calls
    serving,     \* handleTaskResult
    held,        \* the request that a call is sending
    cancel,      \* the tasks/cancel call
    \* the client
    stream, delivered,
    \* History
    age, lost, answered

store    == <<status, result, left, age>>
protocol == <<connected, resolvers, handlers, timers>>
tool     == <<asked, setting, stored>>
calls    == <<serving, held>>
client   == <<stream, delivered>>
history  == <<lost, answered>>
vars == <<store, queue, protocol, clearing, tool, calls, cancel, client, history>>

Live     == {"working", "input_required"}
Terminal == {"completed", "failed", "cancelled"}
Ended    == {"result", "error"}
StreamEnded == Ended \cup {"aborted"}
NoStatus == "none"

Init ==
    /\ status = NoStatus /\ result = FALSE /\ left = 0 /\ age = 0
    /\ queue = <<>> /\ clearing = {}
    /\ connected = TRUE
    /\ resolvers = {} /\ handlers = {} /\ timers = {}
    /\ asked = [s \in Side |-> "unasked"]
    /\ setting = NoStatus /\ stored = FALSE
    /\ serving = [c \in Call |-> "idle"]
    /\ held = [c \in Call |-> {}]
    /\ cancel = "idle"
    /\ stream = "creating" /\ delivered = {}
    /\ lost = {} /\ answered = {}

-----------------------------------------------------------------------------
(* The store *)

\* createTask, in the handler of tools/call.
Creates ==
    /\ status = NoStatus
    /\ connected
    /\ status' = "working"
    /\ left' = Ttl
    /\ UNCHANGED <<result, age, queue, protocol, clearing, tool, calls, cancel, client, history>>

\* Fault: the store takes a change of a task that has ended.
Accepts_Any == status \in Live \cup Terminal

\* updateTaskStatus and storeTaskResult throw for a task that has ended.
Accepts == status \in Live

\* Fault: every change of status starts the timer anew.
TimerAfter_Any(st) == Ttl

\* Fault: the timer is left to run when the task ends.
TimerAfter_Never(st) == left

\* The cleanup timer starts anew when the task ends.
TimerAfter(st) == IF st \in Terminal THEN Ttl ELSE left

Updates(st) ==
    /\ status' = st
    /\ left' = TimerAfter(st)
    /\ UNCHANGED <<result, age>>

\* Time passes; a task whose time is over is deleted, its queue is not.
Tick ==
    /\ left > 0
    /\ left' = left - 1
    /\ status' = IF left = 1 THEN "gone" ELSE status
    /\ age' = IF status \in Terminal /\ age < Ttl THEN age + 1 ELSE age
    /\ UNCHANGED <<result, queue, protocol, clearing, tool, calls, cancel, client, history>>

-----------------------------------------------------------------------------
(* The queue *)

\* Fault: one message too many is taken.
Fits_OneMore == Len(queue) <= MaxQueue

\* enqueue() throws when the queue is full.
Fits == Len(queue) < MaxQueue

\* Fault: the queue is emptied and the requests in it are forgotten.
ClearTaskQueue_Silently == queue' = <<>> /\ UNCHANGED clearing

\* _clearTaskQueue, which no one awaits: dequeueAll() takes the messages at once.
ClearTaskQueue ==
    /\ queue' = <<>>
    /\ clearing' = clearing \cup
            {m.id : m \in {queue[i] : i \in {j \in DOMAIN queue : queue[j].type = "request"}}}

-----------------------------------------------------------------------------
(* The tool, through the RequestTaskStore and ctx.mcpReq.send() *)

\* requestTaskStore.storeTaskResult
Stores(st) ==
    /\ ~stored
    /\ Accepts
    /\ status' = st
    /\ result' = TRUE
    /\ left' = TimerAfter(st)
    /\ stored' = TRUE
    /\ UNCHANGED <<age, queue, protocol, clearing, asked, setting, calls, cancel, client, history>>

\* requestTaskStore.updateTaskStatus looks at the task before it asks the store.
SetChecks(st) ==
    /\ setting = NoStatus
    /\ status \in Live
    /\ setting' = st
    /\ UNCHANGED <<store, queue, protocol, clearing, asked, stored, calls, cancel, client, history>>

SetStores ==
    /\ setting # NoStatus
    /\ IF Accepts THEN Updates(setting) ELSE UNCHANGED store
    /\ setting' = NoStatus
    /\ UNCHANGED <<queue, protocol, clearing, asked, stored, calls, cancel, client, history>>

\* A request to the client first makes the task input_required ...
AskChecks(s) ==
    /\ asked[s] = "unasked"
    /\ status # NoStatus
    /\ asked' = [asked EXCEPT ![s] = IF status \in Live THEN "checked" ELSE "refused"]
    /\ UNCHANGED <<store, queue, protocol, clearing, setting, stored, calls, cancel, client,
                   history>>

AskUpdates(s) ==
    /\ asked[s] = "checked"
    /\ IF Accepts
       THEN Updates("input_required") /\ asked' = [asked EXCEPT ![s] = "notifying"]
       ELSE UNCHANGED store /\ asked' = [asked EXCEPT ![s] = "refused"]
    /\ UNCHANGED <<queue, protocol, clearing, setting, stored, calls, cancel, client, history>>

\* ... and tells the client, which fails without a connection ...
AskRefused(s) ==
    /\ asked[s] = "notifying"
    /\ asked' = [asked EXCEPT ![s] = "refused"]
    /\ UNCHANGED <<store, queue, protocol, clearing, setting, stored, calls, cancel, client,
                   history>>

\* ... and then queues the request, whatever has become of the task.
AskQueues(s) ==
    /\ asked[s] = "notifying"
    /\ connected
    /\ resolvers' = resolvers \cup {s}
    /\ handlers' = handlers \cup {s}
    /\ IF Fits
       THEN /\ queue' = Append(queue, [type |-> "request", id |-> s])
            /\ timers' = timers \cup {s}
            /\ asked' = [asked EXCEPT ![s] = "pending"]
       ELSE /\ asked' = [asked EXCEPT ![s] = "overflow"]
            /\ UNCHANGED <<queue, timers>>
    /\ UNCHANGED <<store, connected, clearing, setting, stored, calls, cancel, client, history>>

\* A promise is settled once; settling it again does nothing.
Settles(ss, outcome) ==
    asked' = [s \in Side |-> IF s \in ss /\ asked[s] = "pending" THEN outcome ELSE asked[s]]

\* A resolver finds the handler of its request, and leaves it in the table.
Resolves(ss, outcome) ==
    /\ resolvers' = resolvers \ ss
    /\ Settles(ss \cap resolvers \cap handlers, outcome)

\* The message of a request that has timed out stays in the queue; the timer
\* of one that was answered has not been cleared.
SideTimesOut(s) ==
    /\ s \in timers
    /\ timers' = timers \ {s}
    /\ handlers' = handlers \ {s}
    /\ Settles({s}, "timed out")
    /\ UNCHANGED <<store, queue, connected, resolvers, clearing, setting, stored, calls,
                   cancel, client, history>>

\* _onresponse
ClientAnswers(s) ==
    /\ connected
    /\ s \in delivered
    /\ delivered' = delivered \ {s}
    /\ IF s \in resolvers
       THEN Resolves({s}, "answered") /\ UNCHANGED <<handlers, timers>>
       ELSE /\ handlers' = handlers \ {s}
            /\ timers' = IF s \in handlers THEN timers \ {s} ELSE timers
            /\ UNCHANGED <<resolvers, asked>>
    /\ UNCHANGED <<store, queue, connected, clearing, setting, stored, calls, cancel,
                   stream, history>>

-----------------------------------------------------------------------------
(* The handlers of the client's calls *)

\* The response to a client request that names the task is queued like the
\* task's own requests.
AnswersForeign(f) ==
    /\ f \notin answered
    /\ connected
    /\ answered' = answered \cup {f}
    /\ queue' = IF Fits THEN Append(queue, [type |-> "response", id |-> f]) ELSE queue
    /\ UNCHANGED <<store, protocol, clearing, tool, calls, cancel, client, lost>>

\* handleTaskResult takes the messages one by one ...
Drains(c) ==
    /\ serving[c] = "drain"
    /\ queue # <<>>
    /\ queue' = Tail(queue)
    /\ LET m == Head(queue)
       IN  IF m.type = "response"
           THEN Resolves({m.id}, "crossed") /\ UNCHANGED <<serving, held>>
           ELSE /\ serving' = [serving EXCEPT ![c] = "send"]
                /\ held' = [held EXCEPT ![c] = {m.id}]
                /\ UNCHANGED <<resolvers, asked>>
    /\ UNCHANGED <<store, connected, handlers, timers, clearing, setting, stored, cancel,
                   client, history>>

\* ... sends each on the answer of the call, if there still is a transport ...
Delivers(c) ==
    /\ serving[c] = "send"
    /\ delivered' = IF connected THEN delivered \cup held[c] ELSE delivered
    /\ serving' = [serving EXCEPT ![c] = "drain"]
    /\ held' = [held EXCEPT ![c] = {}]
    /\ UNCHANGED <<store, queue, protocol, clearing, tool, cancel, stream, history>>

DeliveryFails(c) ==
    /\ serving[c] = "send"
    /\ lost' = lost \cup held[c]
    /\ serving' = [serving EXCEPT ![c] = "error"]
    /\ held' = [held EXCEPT ![c] = {}]
    /\ UNCHANGED <<store, queue, protocol, clearing, tool, cancel, client, answered>>

Drained(c) ==
    /\ serving[c] = "drain"
    /\ queue = <<>>
    /\ serving' = [serving EXCEPT ![c] = "check"]
    /\ UNCHANGED <<store, queue, protocol, clearing, tool, held, cancel, client, history>>

\* ... looks at the task when there is none left ...
Checks(c) ==
    /\ serving[c] = "check"
    /\ serving' = [serving EXCEPT ![c] =
            IF status = "gone" THEN "error" ELSE IF status \in Live THEN "wait" ELSE "fetch"]
    /\ UNCHANGED <<store, queue, protocol, clearing, tool, held, cancel, client, history>>

\* The abort signal of a call, after notifications/cancelled.
Aborted(c) == c = own /\ stream = "aborted"

\* ... waits for the poll interval and starts again, unless it was aborted ...
Waits(c) ==
    /\ serving[c] = "wait"
    /\ serving' = [serving EXCEPT ![c] = IF Aborted(c) THEN "error" ELSE "drain"]
    /\ UNCHANGED <<store, queue, protocol, clearing, tool, held, cancel, client, history>>

\* ... and returns the result of a task that has ended.
Fetches(c) ==
    /\ serving[c] = "fetch"
    /\ IF status # "gone" /\ result
       THEN serving' = [serving EXCEPT ![c] = "result"] /\ ClearTaskQueue
       ELSE serving' = [serving EXCEPT ![c] = "error"] /\ UNCHANGED <<queue, clearing>>
    /\ UNCHANGED <<store, protocol, tool, held, cancel, client, history>>

\* The requests that were in the queue are rejected a turn later.
ClearRejects ==
    /\ clearing # {}
    /\ clearing' = {}
    /\ Resolves(clearing, "task over")
    /\ UNCHANGED <<store, queue, connected, handlers, timers, setting, stored, calls,
                   cancel, client, history>>

\* The stream, or another client, asks for the result.
Calls(c) ==
    /\ serving[c] = "idle"
    /\ connected
    /\ IF c = own THEN stream = "fetching" ELSE status # NoStatus
    /\ serving' = [serving EXCEPT ![c] = "drain"]
    /\ UNCHANGED <<store, queue, protocol, clearing, tool, held, cancel, client, history>>

\* tasks/cancel: looks at the task, changes it, and empties its queue.
CancelChecks ==
    /\ cancel = "idle"
    /\ connected /\ status # NoStatus
    /\ cancel' = IF status \in Live THEN "checked" ELSE "error"
    /\ UNCHANGED <<store, queue, protocol, clearing, tool, calls, client, history>>

CancelUpdates ==
    /\ cancel = "checked"
    /\ IF Accepts
       THEN Updates("cancelled") /\ cancel' = "updated"
       ELSE UNCHANGED store /\ cancel' = "error"
    /\ UNCHANGED <<queue, protocol, clearing, tool, calls, client, history>>

CancelClears ==
    /\ cancel = "updated"
    /\ ClearTaskQueue
    /\ cancel' = IF status = "gone" THEN "error" ELSE "done"
    /\ UNCHANGED <<store, protocol, tool, calls, client, history>>

-----------------------------------------------------------------------------
(* The client: requestStream() *)

StreamCreated ==
    /\ stream = "creating"
    /\ connected /\ status # NoStatus
    /\ stream' = "polling"
    /\ UNCHANGED <<store, queue, protocol, clearing, tool, calls, cancel, delivered, history>>

\* What the stream does when it is told the status of its task.
After(st) ==
    CASE st \in {"completed", "input_required"} -> "fetching"
      [] st = "working" -> "sleeping"
      [] OTHER -> "error"

\* tasks/get
StreamPolls ==
    /\ stream = "polling"
    /\ connected
    /\ stream' = After(status)
    /\ UNCHANGED <<store, queue, protocol, clearing, tool, calls, cancel, delivered, history>>

\* After pollInterval, unless the caller's signal was aborted.
StreamWakes ==
    /\ stream = "sleeping"
    /\ stream' \in {"polling", "error"}
    /\ UNCHANGED <<store, queue, protocol, clearing, tool, calls, cancel, delivered, history>>

StreamFetched ==
    /\ stream = "fetching"
    /\ connected
    /\ serving[own] \in Ended
    /\ stream' = serving[own]
    /\ UNCHANGED <<store, queue, protocol, clearing, tool, calls, cancel, delivered, history>>

\* The request that the stream waits for fails with the connection ...
StreamClosed ==
    /\ stream \in {"creating", "polling", "fetching"}
    /\ ~connected
    /\ stream' = "error"
    /\ UNCHANGED <<store, queue, protocol, clearing, tool, calls, cancel, delivered, history>>

\* ... or is aborted, by its timeout or by the caller.
StreamGivesUp ==
    /\ stream \in {"creating", "polling", "fetching"}
    /\ stream' = "aborted"
    /\ UNCHANGED <<store, queue, protocol, clearing, tool, calls, cancel, delivered, history>>

\* _onclose: resolvers, timers and the queue are left alone.
Closes ==
    /\ connected
    /\ connected' = FALSE
    /\ handlers' = {}
    /\ Settles(handlers, "closed")
    /\ UNCHANGED <<store, queue, resolvers, timers, clearing, setting, stored, calls,
                   cancel, client, history>>

-----------------------------------------------------------------------------
ToolStep ==
    \/ \E st \in {"completed", "failed"} : Stores(st)
    \/ \E st \in {"working", "failed"} : SetChecks(st)
    \/ SetStores

SideStep(s) ==
    \/ AskChecks(s) \/ AskUpdates(s) \/ AskRefused(s) \/ AskQueues(s)
    \/ SideTimesOut(s) \/ ClientAnswers(s)

\* A call and what the server does for it.
Serves(c) ==
    \/ Calls(c) \/ Drains(c) \/ Delivers(c) \/ Drained(c) \/ Checks(c) \/ Waits(c) \/ Fetches(c)

CallStep(c) == Serves(c) \/ DeliveryFails(c)

CancelStep == CancelChecks \/ CancelUpdates \/ CancelClears

StreamStep ==
    StreamCreated \/ StreamPolls \/ StreamWakes \/ StreamFetched \/ StreamClosed

Next ==
    \/ Creates
    \/ Tick
    \/ ToolStep
    \/ \E s \in Side : SideStep(s)
    \/ \E f \in Foreign : AnswersForeign(f)
    \/ \E c \in Call : CallStep(c)
    \/ ClearRejects
    \/ CancelStep
    \/ StreamStep
    \/ StreamGivesUp
    \/ Closes

Spec == Init /\ [][Next]_vars

\* The event loop runs what is ready, timers fire, and tools/call is handled;
\* the tool, the answers of the client and its patience are not relied on.
Fairness ==
    /\ WF_vars(Creates)
    /\ WF_vars(Tick)
    /\ WF_vars(Serves(own))
    /\ WF_vars(StreamStep)

FairSpec == Spec /\ Fairness
=============================================================================
