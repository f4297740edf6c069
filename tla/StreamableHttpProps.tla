------------------------ MODULE StreamableHttpProps ------------------------
(***************************************************************************)
(* What the Streamable HTTP transport promises, stated over StreamableHttp.*)
(***************************************************************************)
EXTENDS StreamableHttp

Elements(s) == {s[i] : i \in 1..Len(s)}

\* The stream of a POST is a resumable stream: through broken connections,
\* replays that race with send(), closeSSEStream and rejected commands, its
\* client has read a prefix of what was stored, each event once and in order.
Resumable == INSTANCE ResumableStream WITH
    Stream <- Post, Event <- Event,
    log <- [p \in Post |-> store[p]],
    read <- [p \in Post |-> received[p]]

ResumableSpec == Resumable!Spec

\* streamableHttp.ts:804, the stream of a batch is not closed before all its
\* responses were sent: when send() has forgotten the requests of a POST,
\* each of their responses was stored for the client or is known to be lost.
EndedStreamsAreAnswered ==
    \A p \in Post :
        store[p] # <<>> /\ Batch[p] \cap (DOMAIN streamOf \cup running) = {}
            => Batch[p] \subseteq Elements(store[p]) \cup lost

\* streamableHttp.ts:497, the conflict check: a client that waits for events
\* on a response waits on the one send() writes to, so it is never left with
\* an open connection that nothing will ever arrive on.
ListenersAreMapped ==
    \A c \in Conn :
        Listening(c) /\ Returned(c) /\ ~closed => mapping[conn[c].stream] = c

\* s holds elements of t, each at most as often and in the same order.
InOrder(s, t) ==
    \E at \in [1..Len(s) -> 1..Len(t)] :
        /\ \A i \in 1..Len(s) : s[i] = t[at[i]]
        /\ \A i \in 1..Len(s) - 1 : at[i] < at[i + 1]

\* Whatever fails (a reply of Valkey that is lost, a client that abandons a
\* resume and starts another, a session-wide event stored during a replay),
\* a client gets no event twice, and none before one that was stored earlier.
DeliveredInOrder == \A s \in Stream : InOrder(received[s], store[s])

\* The response of the stream s is gone, and the mapping still names it.
Leaked(s) == mapping[s] # NoConn /\ ~conn[mapping[s]].open

Heard(s) == \E c \in Conn : Listening(c) /\ conn[c].stream = s

\* The client of s was cut off before it had any event, and so has no id to
\* resume from: the connection broke before the priming event got through.
Stranded(s) == received[s] = <<>> /\ ~Heard(s)

\* streamableHttp.ts:783, 971: every event that was stored for the client of a
\* POST reaches it, however often it is interrupted.  What prevents it is that
\* it is cut off before its priming event, a leaked mapping, or the end of the
\* session.
EventuallyDelivered ==
    \A p \in Post : \A e \in Event \ {Prime} :
        e \in Elements(store[p]) ~>
            e \in Elements(received[p]) \/ Stranded(p) \/ Leaked(p) \/ closed

\* streamableHttp.ts:110, "resumability will be enabled, allowing clients to
\* reconnect and resume messages": in an open session, a response sent while
\* its client is reconnecting is kept for it.
ResponsesSurviveReconnection ==
    [][~closed => (lost' \ lost) \cap Request = {}]_vars

=============================================================================
