----------------------------- MODULE McpSession -----------------------------
(***************************************************************************)
(* The life of one Streamable HTTP session in the map `sessions` of        *)
(* src/mcp/src/mcp/server.ts, around its transport, StreamableHttp.        *)
(*                                                                         *)
(* A POST of initialize makes the transport.  The session enters the map   *)
(* when handleRequest has resolved, which is when the response has ended,  *)
(* in whichever way; until then, and once it has left the map, all other   *)
(* requests of the session are answered 400.  The transport itself lives   *)
(* until it is closed.  The age of a session is left out: it may be        *)
(* evicted whenever it is in the map.                                      *)
(***************************************************************************)
EXTENDS StreamableHttp

CONSTANT Initialize  \* the POST that carries the initialize request

ASSUME InitializeAssumption ==
    /\ Initialize \in Post
    /\ Cardinality(Batch[Initialize]) = 1

VARIABLE forgotten  \* whether the session was in the map and has left it

sessionVars == <<vars, forgotten>>

SessionInit == Init /\ forgotten = FALSE

\* The POST of initialize reached the transport.
Begun == Batch[Initialize] \cap (DOMAIN streamOf \cup sent) # {}

\* Fault: only a response that its client has read to the end counts.
ResponseEnded_Read ==
    \E i \in 1..Len(received[Initialize]) : received[Initialize][i] \in Batch[Initialize]

\* The response to it, a stream or a 400, has ended.
ResponseEnded ==
    \A c \in Conn : conn[c].kind = "post" /\ conn[c].open => conn[c].stream # Initialize

\* sessions.has
Registered == Begun /\ ResponseEnded /\ ~forgotten

-----------------------------------------------------------------------------
Initializes(c) ==
    /\ PostArrives(Initialize, c)
    /\ UNCHANGED forgotten

\* A POST, GET or resume with the id of a session in the map.
Forwards(c) ==
    /\ Registered
    /\ RequestArrives(c)
    /\ UNCHANGED forgotten

\* DELETE: the transport is closed and the session forgotten.
Deletes ==
    /\ Registered
    /\ Close
    /\ forgotten' = TRUE

\* DELETE with an MCP-Protocol-Version that the transport does not support:
\* it answers 400 and stays open, and the session is forgotten all the same.
DeleteRejected ==
    /\ Registered
    /\ forgotten' = TRUE
    /\ UNCHANGED vars

\* Every five minutes, the sessions that began half an hour ago are forgotten,
\* in use or not; their transports stay open.
Evicted ==
    /\ Registered
    /\ forgotten' = TRUE
    /\ UNCHANGED vars

SessionNext ==
    \/ \E c \in Conn : Initializes(c) \/ Forwards(c)
    \/ Deletes \/ DeleteRejected \/ Evicted
    \/ TransportStep /\ UNCHANGED forgotten

SessionSpec == SessionInit /\ [][SessionNext]_sessionVars

\* As Fairness of StreamableHttp, but a session that is not in the map cannot
\* be resumed.
FairSessionSpec ==
    /\ SessionSpec
    /\ WF_sessionVars(ValkeyReplies /\ UNCHANGED forgotten)
    /\ \A c \in Conn : WF_sessionVars(Cancel(c) /\ UNCHANGED forgotten)
    /\ \A s \in Stream :
           WF_sessionVars(\E c \in Conn :
               Registered /\ ResumeArrives(c, s) /\ UNCHANGED forgotten)
=============================================================================
