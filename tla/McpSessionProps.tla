--------------------------- MODULE McpSessionProps ---------------------------
(***************************************************************************)
(* What the session map promises the client, stated over McpSession.       *)
(***************************************************************************)
EXTENDS McpSession, StreamableHttpProps

\* server.ts:121-124, the session is registered after the await: a client that
\* has the result of its initialize is not answered 400 when it goes on, not
\* even when it got the result by resuming.
KnownIsRegistered ==
    Batch[Initialize] \subseteq Elements(received[Initialize])
        => Registered \/ forgotten

\* Every event that was stored for the client of a POST reaches it, also over a
\* response that is still open when its session is forgotten; it need not if
\* the client was cut off before its priming event, or its mapping leaked.
DeliveredUnlessForgotten ==
    \A p \in Post : \A e \in Event \ {Prime} :
        e \in Elements(store[p]) ~>
            \/ e \in Elements(received[p])
            \/ Stranded(p) \/ Leaked(p)
            \/ forgotten /\ ~Heard(p)
=============================================================================
