----------------------------- MODULE SseSession -----------------------------
(***************************************************************************)
(* Sessions of the legacy SSE transport, a tool call on one of them, and   *)
(* the end of the process (src/mcp/src/mcp/server.ts, mcp/transport/sse.ts,*)
(* the tools, and index.ts).                                               *)
(*                                                                         *)
(* GET /sse opens a response that carries every message to the client; the *)
(* client's own come by POST /messages, are accepted at once, and answered *)
(* on that response when the tool is done: it resolves the user's scope,   *)
(* and then sends Loki the queries of LokiClient.                          *)
(***************************************************************************)
EXTENDS LokiClient, LogQueries, FiniteSets

CONSTANTS
    Session,   \* SSE sessions, one after the other or at once
    Input      \* inputs of the tool call; those that a tool has not are not given

\* A project is one of the user's, by the name that the backend gives it; an
\* application is any string.
ASSUME InputAssumption == \A i \in Input :
    /\ i.project \in Seq(Word)
    /\ i.app \in Text \/ i.app \in Seq(Word)
    /\ i.stage \in Stage \cup {NoStage}
    /\ i.since \in Nat \cup {NoSince}

VARIABLES
    sse,          \* the response of each session: "none", "open", "closed"
    sseSessions,  \* the map of mcp/server.ts
    call,         \* a tool call
    process       \* "running", "stopping" after SIGTERM, "exited"

sessionVars == <<sse, sseSessions, call, process>>
allVars == <<vars, sessionVars>>

NoCall == [phase |-> "none"]

\* A call whose input is not needed any more.
Over(session, phase, aborted) == [phase |-> phase, session |-> session, aborted |-> aborted]

\* The call is in the hands of the server.
Accepted == call.phase \in {"scope", "queries"}

SseInit ==
    /\ Init
    /\ sse = [s \in Session |-> "none"]
    /\ sseSessions = {}
    /\ call = NoCall
    /\ process = "running"

\* GET /sse: the session is in the map before the response is opened.
Connects(s) ==
    /\ process = "running"
    /\ sse[s] = "none"
    /\ sse' = [sse EXCEPT ![s] = "open"]
    /\ sseSessions' = sseSessions \cup {s}
    /\ UNCHANGED <<vars, call, process>>

\* Fault: the onclose that connect() installed is not replaced.
OnClose_OfProtocol(s) == UNCHANGED sseSessions

\* The transport's onclose.
OnClose(s) == sseSessions' = sseSessions \ {s}

\* The client's connection closes; nothing tells the Protocol, or the call.
Disconnects(s) ==
    /\ process # "exited"
    /\ sse[s] = "open"
    /\ sse' = [sse EXCEPT ![s] = "closed"]
    /\ OnClose(s)
    /\ UNCHANGED <<vars, call, process>>

\* POST /messages with a tools/call: 202, or 400 for a session that is not
\* in the map.
Posts(s, tool_, input) ==
    /\ process # "exited"
    /\ call = NoCall
    /\ sse[s] # "none"
    /\ call' = IF s \in sseSessions
               THEN [phase |-> "scope", session |-> s, tool |-> tool_, input |-> input,
                     aborted |-> FALSE]
               ELSE Over(s, "refused", FALSE)
    /\ UNCHANGED <<vars, sse, sseSessions, process>>

\* notifications/cancelled: the call goes on, its answer is not sent.
Cancels ==
    /\ process # "exited"
    /\ Accepted
    /\ call.session \in sseSessions
    /\ call' = [call EXCEPT !.aborted = TRUE]
    /\ UNCHANGED <<vars, sse, sseSessions, process>>

\* send() throws when the response is gone, and the answer with it.
Answers ==
    call' = Over(call.session,
                 IF ~call.aborted /\ sse[call.session] = "open" THEN "answered" ELSE "dropped",
                 call.aborted)

\* The user may read the project's logs, for a period that is not too long.
Queries ==
    /\ process # "exited"
    /\ call.phase = "scope"
    /\ ~TooLong(Period(call.tool, call.input))
    /\ \E qs \in SUBSET Query :
        /\ Cardinality(qs) = Cardinality(QueriesOf(call.tool, call.input))
        /\ Sends(qs)
    /\ call' = Over(call.session, "queries", call.aborted)
    /\ UNCHANGED <<sse, sseSessions, process>>

\* He may not, the period is too long, or the scope cannot be resolved.
Denies ==
    /\ process # "exited"
    /\ call.phase = "scope"
    /\ Answers
    /\ UNCHANGED <<vars, sse, sseSessions, process>>

Finishes ==
    /\ process # "exited"
    /\ call.phase = "queries"
    /\ tool # "pending"
    /\ Answers
    /\ UNCHANGED <<vars, sse, sseSessions, process>>

\* What Loki, the network and the timers do to the queries that were sent; one
\* may go on alone when the call is over.
LokiStep(step) ==
    /\ process # "exited"
    /\ step
    /\ UNCHANGED sessionVars

\* SIGTERM: nobody can connect any more.
Sigterm ==
    /\ process = "running"
    /\ process' = "stopping"
    /\ UNCHANGED <<vars, sse, sseSessions, call>>

\* redis.quit() settles, if it ever does; the database is closed and the process
\* ends.
Exits ==
    /\ process = "stopping"
    /\ process' = "exited"
    /\ UNCHANGED <<vars, sse, sseSessions, call>>

-----------------------------------------------------------------------------
SseNext ==
    \/ \E s \in Session : Connects(s) \/ Disconnects(s)
    \/ \E s \in Session, t \in Tool, i \in Input : Posts(s, t, i)
    \/ Cancels \/ Queries \/ Denies \/ Finishes
    \/ LokiStep(Tick) \/ \E q \in Query : LokiStep(QueryStep(q))
    \/ Sigterm \/ Exits

SseSpec == SseInit /\ [][SseNext]_allVars

\* Timers fire; Valkey and the backend answer a call, or fail it; Loki sends
\* the bodies of answers that it has begun.  It need not begin any.
SseFairness ==
    /\ WF_allVars(LokiStep(Tick))
    /\ \A q \in Query :
        /\ WF_allVars(LokiStep(TimesOut(q)))
        /\ WF_allVars(LokiStep(Retries(q)))
        /\ WF_allVars(LokiStep(BodyOfResult(q) \/ StatusIsError(q)))
    /\ WF_allVars(Queries \/ Denies)
    /\ WF_allVars(Finishes)

FairSseSpec == SseSpec /\ SseFairness
=============================================================================
