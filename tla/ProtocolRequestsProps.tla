------------------------ MODULE ProtocolRequestsProps ------------------------
(***************************************************************************)
(* What request() promises its callers and the peer, stated over           *)
(* ProtocolRequests.                                                       *)
(***************************************************************************)
EXTENDS ProtocolRequests

Outcome == {"answered", "send error", "timed out", "aborted", "closed"}

\* Types; the peer is only ever told of requests that were sent to it.
TypeOK ==
    /\ now \in 0..MaxTime
    /\ connected \in BOOLEAN
    /\ responseHandlers \subseteq Request
    /\ progressHandlers \subseteq Request
    /\ timeoutInfo \subseteq Request
    /\ timer \in [Request -> 0..NoTimer]
    /\ aborted \subseteq Request
    /\ promise \in [Request -> {"unsent", "refused", "pending"} \cup Outcome]
    /\ sending \subseteq Request
    /\ start \in [Request -> 0..MaxTime]
    /\ told \subseteq {r \in Request : promise[r] \notin {"unsent", "refused"}}

\* Whatever failed before, a promise that is pending can still be settled: its
\* handler is in the table that _onresponse and _onclose look in, the signal
\* was not aborted, and its timer runs.
PendingIsTracked ==
    \A r \in Request : promise[r] = "pending" =>
        /\ connected
        /\ r \in responseHandlers \cap timeoutInfo
        /\ r \notin aborted
        /\ timer[r] \in now..now + Timeout

\* protocol.ts:661-677: progress puts off a timeout only until maxTotalTimeout
\* is reached, and the timer set just before runs its course, so that a
\* request is pending for less than both together.
WaitsAreBounded ==
    \A r \in Request : promise[r] = "pending" =>
        now <= start[r] + Timeout
            + (IF r \notin Resets THEN 0 ELSE IF MaxTotal = 0 THEN MaxTime ELSE MaxTotal)

\* protocol.ts:1250-1272: the peer is told of every request that was given up
\* on while connected, or is told when its timer, which no one cleared, fires.
PeerIsTold ==
    \A r \in Request :
        connected /\ promise[r] \in {"timed out", "aborted"}
            => r \in told \/ timer[r] \in now..now + Timeout

\* A request that has ended leaves nothing behind in the tables that the
\* messages of the peer are looked up in, unless it could not be sent.
EndedIsForgotten ==
    \A r \in responseHandlers \cup progressHandlers :
        promise[r] \in {"pending", "send error"}

\* protocol.ts:1250-1338: the tables and the promises agree, in both directions,
\* in whatever order answers, timeouts, aborts and failures come.
TablesMatchPromises == PendingIsTracked /\ EndedIsForgotten
=============================================================================
