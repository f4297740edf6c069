---------------------------- MODULE MCMcpSession ----------------------------
(* Small instances of McpSession for TLC. *)
EXTENDS McpSessionProps, TLC

CONSTANTS init, call, r0, r1, n1, c1, c2, c3, get

\* The POST of initialize, and one of a tool call.
OneCall == [p \in Post |-> IF p = init THEN {r0} ELSE {r1}]

\* A notification of the session.
AboutSession == [n \in Note |-> get]
=============================================================================
