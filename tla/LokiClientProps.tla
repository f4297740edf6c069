-------------------------- MODULE LokiClientProps --------------------------
(***************************************************************************)
(* What the tools may expect of a query, stated over LokiClient.           *)
(***************************************************************************)
EXTENDS LokiClient

\* Two attempts that time out, and the pause between them.
Longest == 2 * RequestTimeout + RetryDelay

\* client.ts:40, the abort timer: whatever Loki does, no query waits for the
\* headers of an answer, or to be sent again, after this time.
HeadersInTime ==
    \A q \in Query : query[q].phase \in {"headers", "delay"} => now <= Longest

\* log-stats.ts:78, Promise.all: the call has a result exactly when all its
\* queries have, and an error as soon as one of them has, and that error.
CallReflectsQueries ==
    /\ tool = "result" <=> Sent # {} /\ \A q \in Sent : query[q].phase = "result"
    /\ tool = "pending" => \A q \in Query : query[q].phase \notin Outcome \ {"result"}
    /\ tool # "pending" => \E q \in Query : query[q].phase = tool
=============================================================================
