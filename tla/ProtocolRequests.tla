-------------------------- MODULE ProtocolRequests --------------------------
(***************************************************************************)
(* The requests that one side of an MCP connection sends to the other, and *)
(* how each of their promises is settled: request(), its timeout, progress *)
(* and abort signal, and the end of the connection, in class Protocol      *)
(* (src/mcp/packages/core/src/shared/protocol.ts).                         *)
(*                                                                         *)
(* Every step is one turn of the event loop: send() of the transport is    *)
(* asynchronous and may fail after the peer has answered.  Timers fire     *)
(* exactly when they are due: the clock stops for them.  Messages that     *)
(* name no request in progress are reported and change nothing.            *)
(* A Protocol is connected once; requests that belong to a task are not    *)
(* modelled.                                                               *)
(***************************************************************************)
EXTENDS Naturals

CONSTANTS
    Request,   \* requests, each sent at most once
    Resets,    \* those with resetTimeoutOnProgress
    Signals,   \* those with an abort signal
    Timeout,   \* options.timeout
    MaxTotal,  \* options.maxTotalTimeout, 0 for none
    MaxTime    \* bound on the clock

ASSUME ProtocolAssumption ==
    /\ Resets \subseteq Request /\ Signals \subseteq Request
    /\ Timeout \in Nat \ {0}
    /\ {MaxTotal, MaxTime} \subseteq Nat

VARIABLES
    now,
    connected,         \* _transport is set
    responseHandlers,  \* keys of _responseHandlers
    progressHandlers,  \* keys of _progressHandlers
    timeoutInfo,       \* keys of _timeoutInfo
    timer,             \* when the timer of a request is due
    aborted,           \* requests whose options.signal was aborted
    promise,           \* what request() returned
    sending,           \* requests whose send() has not resolved
    \* History
    start,             \* startTime
    told               \* requests for which notifications/cancelled was sent

tables  == <<responseHandlers, progressHandlers, timeoutInfo, timer>>
history == <<start, told>>
vars == <<now, connected, tables, aborted, promise, sending, history>>

NoTimer == MaxTime + Timeout + 1

Init ==
    /\ now = 0
    /\ connected = TRUE
    /\ responseHandlers = {} /\ progressHandlers = {} /\ timeoutInfo = {}
    /\ timer = [r \in Request |-> NoTimer]
    /\ aborted = {}
    /\ promise = [r \in Request |-> "unsent"]
    /\ sending = {}
    /\ start = [r \in Request |-> 0]
    /\ told = {}

\* A promise is settled once; settling it again does nothing.
Settles(rs, outcome) ==
    promise' = [r \in Request |->
        IF r \in rs /\ promise[r] = "pending" THEN outcome ELSE promise[r]]

\* _cleanupTimeout: without its timeoutInfo, a timer runs on.
CleanupTimeout(r) ==
    /\ timeoutInfo' = timeoutInfo \ {r}
    /\ timer' = IF r \in timeoutInfo THEN [timer EXCEPT ![r] = NoTimer] ELSE timer

\* Fault: the table entries of a request that is answered or given up stay.
Forget_Nothing(r) ==
    /\ UNCHANGED <<responseHandlers, progressHandlers>>
    /\ CleanupTimeout(r)

Forget(r) ==
    /\ responseHandlers' = responseHandlers \ {r}
    /\ progressHandlers' = progressHandlers \ {r}
    /\ CleanupTimeout(r)

-----------------------------------------------------------------------------
\* request(); without a transport, or with an aborted signal, it only rejects.
Sends(r) ==
    /\ promise[r] = "unsent"
    /\ connected
    /\ r \notin aborted
    /\ promise' = [promise EXCEPT ![r] = "pending"]
    /\ responseHandlers' = responseHandlers \cup {r}
    /\ progressHandlers' = progressHandlers \cup {r}
    /\ timeoutInfo' = timeoutInfo \cup {r}
    /\ timer' = [timer EXCEPT ![r] = now + Timeout]
    /\ sending' = sending \cup {r}
    /\ start' = [start EXCEPT ![r] = now]
    /\ UNCHANGED <<now, connected, aborted, told>>

SendRefused(r) ==
    /\ promise[r] = "unsent"
    /\ ~connected \/ r \in aborted
    /\ promise' = [promise EXCEPT ![r] = "refused"]
    /\ UNCHANGED <<now, connected, tables, aborted, sending, history>>

Sent(r) ==
    /\ r \in sending
    /\ sending' = sending \ {r}
    /\ UNCHANGED <<now, connected, tables, aborted, promise, history>>

\* The handlers of a request that could not be sent stay in their tables.
SendFails(r) ==
    /\ r \in sending
    /\ sending' = sending \ {r}
    /\ CleanupTimeout(r)
    /\ Settles({r}, "send error")
    /\ UNCHANGED <<now, connected, responseHandlers, progressHandlers, aborted, history>>

\* _onresponse, for a request that still waits for its response.
Responds(r) ==
    /\ r \in responseHandlers
    /\ Forget(r)
    /\ Settles({r}, "answered")
    /\ UNCHANGED <<now, connected, aborted, sending, history>>

\* Fault: the maximum is never reached.
Exceeds_Never(r) == FALSE

\* A progress notification finds that the request has waited too long.
Exceeds(r) == MaxTotal > 0 /\ now - start[r] >= MaxTotal

\* Fault: the timer of a request that is given up is cleared too.
GivesUp_Quietly(r) == timer' = [timer EXCEPT ![r] = NoTimer]

\* The timer of a request that is given up runs on.
GivesUp(r) == UNCHANGED timer

\* _onprogress, for a request whose timeout progress resets.
Progresses(r) ==
    /\ r \in progressHandlers \cap responseHandlers \cap timeoutInfo \cap Resets
    /\ IF Exceeds(r)
       THEN /\ timeoutInfo' = timeoutInfo \ {r}
            /\ responseHandlers' = responseHandlers \ {r}
            /\ progressHandlers' = progressHandlers \ {r}
            /\ GivesUp(r)
            /\ Settles({r}, "timed out")
       ELSE /\ timer' = [timer EXCEPT ![r] = now + Timeout]
            /\ UNCHANGED <<timeoutInfo, responseHandlers, progressHandlers, promise>>
    /\ UNCHANGED <<now, connected, aborted, sending, history>>

\* send() of notifications/cancelled, if there is a transport.
Tells(r) == told' = IF connected THEN told \cup {r} ELSE told

TimerFires(r) ==
    /\ timer[r] = now
    /\ responseHandlers' = responseHandlers \ {r}
    /\ progressHandlers' = progressHandlers \ {r}
    /\ timeoutInfo' = timeoutInfo \ {r}
    /\ timer' = [timer EXCEPT ![r] = NoTimer]
    /\ Tells(r)
    /\ Settles({r}, "timed out")
    /\ UNCHANGED <<now, connected, aborted, sending, start>>

\* The abort signal has the listener of a request that was sent; it is never
\* removed.
Listens(r) == promise[r] \notin {"unsent", "refused"}

\* The caller aborts its signal; once the request was sent, its listener
\* cancels the request, whether or not it has ended.
Aborts(r) ==
    /\ r \in Signals \ aborted
    /\ aborted' = aborted \cup {r}
    /\ IF Listens(r)
       THEN Forget(r) /\ Tells(r) /\ Settles({r}, "aborted")
       ELSE UNCHANGED <<tables, promise, told>>
    /\ UNCHANGED <<now, connected, sending, start>>

\* The handlers that _onclose calls with "Connection closed".
Rejects == responseHandlers \ aborted

\* _onclose: timers, and what they know of the requests, are left alone.
Closes ==
    /\ connected
    /\ connected' = FALSE
    /\ responseHandlers' = {}
    /\ progressHandlers' = {}
    /\ Settles(Rejects, "closed")
    /\ UNCHANGED <<now, timeoutInfo, timer, aborted, sending, history>>

Tick ==
    /\ now < MaxTime
    /\ \A r \in Request : timer[r] # now
    /\ now' = now + 1
    /\ UNCHANGED <<connected, tables, aborted, promise, sending, history>>

\* What may become of a request, but for its answer.
Elapses(r) ==
    \/ SendRefused(r) \/ Sent(r) \/ SendFails(r)
    \/ Progresses(r) \/ TimerFires(r) \/ Aborts(r)

RequestStep(r) == Sends(r) \/ Responds(r) \/ Elapses(r)

Next ==
    \/ \E r \in Request : RequestStep(r)
    \/ Closes
    \/ Tick

Spec == Init /\ [][Next]_vars
=============================================================================
