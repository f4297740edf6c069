------------------------ MODULE ClientFeaturesProps ------------------------
(***************************************************************************)
(* What handlers may rely on when they go on with what the client          *)
(* answered, stated over ClientFeatures.                                   *)
(***************************************************************************)
EXTENDS ClientFeatures, ProtocolRequestsProps

\* Each message of the handler, they are the odd ones, has the results of the
\* calls in the answer before it, and of no others; if it has any, nothing else is
\* in it.  Of results that the client puts in an answer of its own, which
\* types.ts:1876 admits and server.ts:549-553 lets pass, nothing is said.
CallsAreAnswered ==
    \A i \in DOMAIN messages : i % 2 = 1 =>
        /\ messages[i].results = (IF i > 1 THEN messages[i - 1].uses ELSE {})
        /\ messages[i].results # {} => ~messages[i].rest

\* The model only calls tools if some request offered them to a client that has
\* them, or was made with a generator.
CallsWereOffered ==
    \A i \in DOMAIN messages : messages[i].uses # {} =>
        \E r \in Request :
            /\ asked[r] \in Sampling /\ promise[r] = "answered"
            /\ r \notin Streamed =>
                  asked[r] = "message with tools" /\ "tools" \in clientCapabilities

\* server.ts:499-554: createMessage looks at no more than two messages, but a
\* conversation that grew through it is sound from its start, whichever
\* requests timed out, were sent again, or were answered too late.
ConversationIsSound == CallsAreAnswered /\ CallsWereOffered
=============================================================================
