--------------------------- MODULE StreamableHttp ---------------------------
(***************************************************************************)
(* One MCP session over Streamable HTTP: the transport of                  *)
(* mcp/packages/server/src/server/streamableHttp.ts, in the SSE mode the   *)
(* server uses, with the ValkeyEventStore of src/mcp/src/mcp/event-store.ts*)
(* and a client that resumes a broken stream with Last-Event-ID.           *)
(*                                                                         *)
(* Every await of the transport is a Valkey command.  All of them share    *)
(* one ioredis connection, so Valkey runs them in the order they were sent *)
(* and their replies resume the waiting calls in that same order: pending  *)
(* is that queue, and a command is taken to run when it is sent.           *)
(*                                                                         *)
(* An event stands for its message and its event id.  The 24 h expiry of   *)
(* events, and request ids that a client uses twice, are left out.         *)
(***************************************************************************)
EXTENDS Naturals, Sequences, FiniteSets

CONSTANTS
    Request,      \* JSON-RPC request ids
    Note,         \* notifications and server requests
    Post,         \* POSTs; each stands for its stream id too
    GetStream,    \* '_GET_stream', the id of the standalone stream
    Batch,        \* [Post -> requests it carries]
    About,        \* [Note -> the related request, or GetStream]
    Conn,         \* HTTP responses that carry a stream
    NoConn,       \* undefined in _streamMapping
    Prime,        \* the empty priming event
    Primed,       \* whether the client's protocol version has priming events
    ValkeyFails,  \* whether Valkey commands may be rejected
    RepliesLost,  \* whether a command that Valkey ran may be rejected too
    Patient,      \* whether a resume is neither given up nor broken unanswered
    MaxFaults     \* bound on broken connections and rejected commands

Stream == Post \cup {GetStream}
Event  == Request \cup Note \cup {Prime}

ASSUME BatchAssumption ==
    /\ Batch \in [Post -> SUBSET Request]
    /\ \A p, q \in Post : p # q => Batch[p] \cap Batch[q] = {}
    /\ \A p \in Post : Batch[p] # {}
ASSUME NoteAssumption == About \in [Note -> Request \cup {GetStream}]
ASSUME NamesAssumption ==
    /\ GetStream \notin Post \cup Request
    /\ Request \cap Note = {}
    /\ Prime \notin Request \cup Note
    /\ NoConn \notin Conn
    /\ {Primed, ValkeyFails, RepliesLost, Patient} \subseteq BOOLEAN
    /\ MaxFaults \in Nat

VARIABLES
    mapping,   \* _streamMapping: the response each stream writes to
    streamOf,  \* _requestToStreamMapping
    answers,   \* keys of _requestResponseMap
    running,   \* requests whose handler has not responded yet
    closed,    \* whether the session was deleted
    conn,      \* each HTTP response, both ends
    pending,   \* Valkey commands sent and not answered, oldest first
    store,     \* Valkey: the events of each stream
    received,  \* the events the client got from each stream
    faults,    \* connections broken and commands rejected so far
    sent,      \* history: messages given to send()
    lost       \* history: those among them that were never stored

transport == <<mapping, streamOf, answers, running, closed>>
history   == <<faults, sent, lost>>
vars      == <<transport, conn, pending, store, received, history>>

Unused == [kind |-> "unused", stream |-> GetStream, heard |-> FALSE, open |-> FALSE]

\* A response just begun: the client listens and the controller is open.
Opened(kind, s) == [kind |-> kind, stream |-> s, heard |-> TRUE, open |-> TRUE]

\* The client waits on c for events.
Listening(c) == conn[c].heard /\ conn[c].open

\* No trace of c is left, so that it can stand for another response.
Free(c) ==
    /\ conn[c] = Unused
    /\ \A s \in Stream : mapping[s] # c
    /\ \A i \in 1..Len(pending) : pending[i].conn # c

Init ==
    /\ mapping = [s \in Stream |-> NoConn]
    /\ streamOf = [r \in {} |-> GetStream]
    /\ answers = {} /\ running = {} /\ closed = FALSE
    /\ conn = [c \in Conn |-> Unused]
    /\ pending = <<>>
    /\ store = [s \in Stream |-> <<>>]
    /\ received = [s \in Stream |-> <<>>]
    /\ faults = 0 /\ sent = {} /\ lost = {}

\* Something fails that need not have failed.
Fails == faults < MaxFaults /\ faults' = faults + 1

-----------------------------------------------------------------------------
(* The queue of Valkey commands.                                           *)

Command(kind, c, s, e) == [kind |-> kind, conn |-> c, stream |-> s, event |-> e]

Sends(command) == pending' = Append(pending, command)

\* The oldest command is answered, and the call that waits for it goes on.
Answered(kind) == pending # <<>> /\ Head(pending).kind = kind

\* storeEvent: RPUSH to the list of its stream
Stores(s, e) == store' = [store EXCEPT ![s] = Append(@, e)]

\* writeSSEEvent: events enqueued on a closed controller, or sent to a client
\* that is gone, are dropped without a trace.
Written(c, s, events) ==
    IF Listening(c) THEN [received EXCEPT ![s] = @ \o events] ELSE received

-----------------------------------------------------------------------------
(* POST                                                                    *)

\* The stream and its requests are mapped; handlers start once the priming
\* event is stored, or at once for clients that do not know it.
PostArrives(p, c) ==
    /\ ~closed
    /\ Batch[p] \cap (DOMAIN streamOf \cup running \cup sent) = {}
    /\ store[p] = <<>> /\ mapping[p] = NoConn
    /\ Free(c)
    /\ mapping' = [mapping EXCEPT ![p] = c]
    /\ streamOf' = [r \in DOMAIN streamOf \cup Batch[p] |->
                       IF r \in Batch[p] THEN p ELSE streamOf[r]]
    /\ conn' = [conn EXCEPT ![c] = Opened("post", p)]
    /\ IF Primed
       THEN Stores(p, Prime) /\ Sends(Command("prime", c, p, Prime)) /\ UNCHANGED running
       ELSE running' = running \cup Batch[p] /\ UNCHANGED <<store, pending>>
    /\ UNCHANGED <<answers, closed, received, history>>

PrimeStored ==
    LET w == Head(pending)
    IN  /\ Answered("prime")
        /\ pending' = Tail(pending)
        /\ received' = Written(w.conn, w.stream, <<Prime>>)
        /\ running' = IF closed THEN running ELSE running \cup Batch[w.stream]
        /\ UNCHANGED <<mapping, streamOf, answers, closed, conn, store, history>>

\* 400 "Parse error": the handlers never start, the mappings stay.
PrimeRejected ==
    LET w == Head(pending)
    IN  /\ ValkeyFails /\ Fails
        /\ Answered("prime")
        /\ pending' = Tail(pending)
        /\ conn' = [conn EXCEPT ![w.conn].kind = "discarded", ![w.conn].heard = FALSE]
        /\ UNCHANGED <<transport, store, received, sent, lost>>

-----------------------------------------------------------------------------
(* send()                                                                  *)

\* A message without a related request is stored whether or not a GET is open.
SendStandalone(n) ==
    /\ About[n] = GetStream
    /\ ~closed
    /\ n \notin sent
    /\ sent' = sent \cup {n}
    /\ Stores(GetStream, n)
    /\ Sends(Command("standalone", NoConn, GetStream, n))
    /\ UNCHANGED <<transport, conn, received, faults, lost>>

StandaloneStored ==
    LET w == Head(pending)
        c == mapping[GetStream]
    IN  /\ Answered("standalone")
        /\ pending' = Tail(pending)
        /\ received' = IF c = NoConn THEN received
                       ELSE Written(c, GetStream, <<w.event>>)
        /\ UNCHANGED <<transport, conn, store, history>>

RequestOf(e) == IF e \in Request THEN e ELSE About[e]

\* The handler of a request sends a notification about it, or its response;
\* once the session is closed its notifications fail but its response does not.
Handles(r, e) ==
    /\ r \in running
    /\ e \in Event \ (sent \cup {Prime})
    /\ RequestOf(e) = r
    /\ closed => e = r
    /\ sent' = sent \cup {e}
    /\ running' = running \ {e}

\* While the stream has a response, the event is stored and then written to
\* that response, the one found before the await.
SendRelated(r, e) ==
    LET c == mapping[streamOf[r]]
    IN  /\ Handles(r, e)
        /\ r \in DOMAIN streamOf /\ c # NoConn
        /\ Stores(streamOf[r], e)
        /\ Sends(Command("related", c, streamOf[r], e))
        /\ UNCHANGED <<mapping, streamOf, answers, closed, conn, received, faults, lost>>

\* Otherwise nothing is stored or written; a response is only remembered, and
\* send() throws if it was the last one its stream waited for.
SendUnconnected(r, e) ==
    /\ Handles(r, e)
    /\ r \in DOMAIN streamOf /\ mapping[streamOf[r]] = NoConn
    /\ answers' = answers \cup ({e} \cap Request)
    /\ lost' = lost \cup {e}
    /\ UNCHANGED <<mapping, streamOf, closed, conn, pending, store, received, faults>>

\* storeEvent rejects before Valkey ran it: send() throws.
SendRejected(r, e) ==
    /\ ValkeyFails /\ Fails
    /\ Handles(r, e)
    /\ r \in DOMAIN streamOf /\ mapping[streamOf[r]] # NoConn
    /\ lost' = lost \cup {e}
    /\ UNCHANGED <<mapping, streamOf, answers, closed, conn, pending, store, received>>

\* A request cancelled by the client never gets a response.
HandlerAborted(r) ==
    /\ r \in running /\ ~closed
    /\ running' = running \ {r}
    /\ UNCHANGED <<mapping, streamOf, answers, closed, conn, pending, store, received,
                   history>>

\* Fault: the stream ends with the first response of its batch.
AllReady_Any(s, r) == TRUE

\* Every request of the stream s has its response, now that r has.
AllReady(s, r) ==
    \A q \in DOMAIN streamOf : streamOf[q] = s => q \in answers \cup {r}

\* Fault: the stream is unmapped and its controller stays open.
Cleanup_OnlyUnmaps(c, s) ==
    /\ mapping' = [mapping EXCEPT ![s] = NoConn]
    /\ UNCHANGED conn

\* cleanup() of a response found earlier: the stream is unmapped and the
\* controller closed, whichever response the stream has by now.
Cleanup(c, s) ==
    /\ mapping' = [mapping EXCEPT ![s] = NoConn]
    /\ conn' = [conn EXCEPT ![c] = Unused]

\* The requests of the stream s are forgotten with their responses, r last.
Forget(s, r) ==
    LET done == {q \in DOMAIN streamOf : streamOf[q] = s}
    IN  /\ answers' = (answers \cup {r}) \ done
        /\ streamOf' = [q \in DOMAIN streamOf \ done |-> streamOf[q]]

RelatedStored ==
    LET w == Head(pending)
    IN  /\ Answered("related")
        /\ pending' = Tail(pending)
        /\ received' = Written(w.conn, w.stream, <<w.event>>)
        /\ IF w.event \notin Request
           THEN UNCHANGED <<answers, streamOf, mapping, conn>>
           ELSE IF ~AllReady(w.stream, w.event)
           THEN /\ answers' = answers \cup {w.event}
                /\ UNCHANGED <<streamOf, mapping, conn>>
           ELSE Cleanup(w.conn, w.stream) /\ Forget(w.stream, w.event)
        /\ UNCHANGED <<running, closed, store, history>>

\* Valkey ran the command but the reply was lost: send() throws.
StoreReplyLost ==
    /\ RepliesLost /\ Fails
    /\ Answered("standalone") \/ Answered("related")
    /\ pending' = Tail(pending)
    /\ UNCHANGED <<transport, conn, store, received, sent, lost>>

-----------------------------------------------------------------------------
(* GET                                                                     *)

LastId(s) == received[s][Len(received[s])]

\* Without Last-Event-ID: the standalone stream, one response at a time.
GetArrives(c) ==
    /\ ~closed
    /\ received[GetStream] = <<>>
    /\ \A d \in Conn : Listening(d) => conn[d].stream # GetStream
    /\ mapping[GetStream] = NoConn
    /\ Free(c)
    /\ mapping' = [mapping EXCEPT ![GetStream] = c]
    /\ conn' = [conn EXCEPT ![c] = Opened("get", GetStream)]
    /\ UNCHANGED <<streamOf, answers, running, closed, pending, store, received, history>>

\* The client still expects events of s and has no response to read them from.
Interrupted(s) ==
    /\ received[s] # <<>>
    /\ \A c \in Conn : Listening(c) => conn[c].stream # s
    /\ \/ s = GetStream
       \/ s \in Post /\ \E r \in Batch[s] : \A i \in 1..Len(received[s]) : received[s][i] # r

\* With Last-Event-ID: the stream of that event is looked up.
ResumeArrives(c, s) ==
    /\ ~closed
    /\ Interrupted(s)
    /\ Free(c)
    /\ conn' = [conn EXCEPT ![c] = Opened("replay", s)]
    /\ Sends(Command("lookup", c, s, LastId(s)))
    /\ UNCHANGED <<transport, store, received, history>>

\* 409: the stream already has a response.
ResumeConflicts ==
    LET w == Head(pending)
    IN  /\ Answered("lookup")
        /\ mapping[w.stream] # NoConn
        /\ pending' = Tail(pending)
        /\ conn' = [conn EXCEPT ![w.conn] = Unused]
        /\ UNCHANGED <<transport, store, received, history>>

\* Fault: a stream that still has a response is replayed too.
ResumeAccepted_Unchecked ==
    /\ Answered("lookup")
    /\ pending' = Append(Tail(pending), [Head(pending) EXCEPT !.kind = "relookup"])
    /\ UNCHANGED <<transport, conn, store, received, history>>

\* No conflict: replayEventsAfter looks the stream up once more.
ResumeAccepted ==
    LET w == Head(pending)
    IN  /\ Answered("lookup")
        /\ mapping[w.stream] = NoConn
        /\ pending' = Append(Tail(pending), [w EXCEPT !.kind = "relookup"])
        /\ UNCHANGED <<transport, conn, store, received, history>>

\* Fault: the last event the client has is sent again.
After_Inclusive(e, s) ==
    LET at == CHOOSE i \in 1..Len(store[s]) : store[s][i] = e
    IN  SubSeq(store[s], at, Len(store[s]))

\* Fault: the first event the client misses is left out.
After_Skipping(e, s) ==
    LET at == CHOOSE i \in 1..Len(store[s]) : store[s][i] = e
    IN  SubSeq(store[s], at + 2, Len(store[s]))

\* The events stored after e.
After(e, s) ==
    LET at == CHOOSE i \in 1..Len(store[s]) : store[s][i] = e
    IN  SubSeq(store[s], at + 1, Len(store[s]))

\* LRANGE fixes which events are replayed.
ReplayLists ==
    LET w == Head(pending)
    IN  /\ Answered("relookup")
        /\ pending' = Append(Tail(pending),
               [kind |-> "list", conn |-> w.conn, stream |-> w.stream,
                event |-> w.event, replay |-> After(w.event, w.stream)])
        /\ UNCHANGED <<transport, conn, store, received, history>>

\* Their messages are fetched one by one; the last HGET stands for all.
ReplayFetches ==
    /\ Answered("list")
    /\ Head(pending).replay # <<>>
    /\ pending' = Append(Tail(pending), [Head(pending) EXCEPT !.kind = "fetch"])
    /\ UNCHANGED <<transport, conn, store, received, history>>

\* The events are written, and only now the stream gets its new response;
\* the client has all of them, or those before its connection broke.
ReplayFinishes ==
    LET w == Head(pending)
    IN  /\ Answered("fetch") \/ (Answered("list") /\ w.replay = <<>>)
        /\ pending' = Tail(pending)
        /\ mapping' = [mapping EXCEPT ![w.stream] = w.conn]
        /\ \/ /\ received' = Written(w.conn, w.stream, w.replay)
              /\ UNCHANGED <<conn, faults>>
           \/ /\ Fails /\ Listening(w.conn)
              /\ \E n \in 0..Len(w.replay) - 1 :
                     received' = Written(w.conn, w.stream, SubSeq(w.replay, 1, n))
              /\ conn' = [conn EXCEPT ![w.conn].heard = FALSE]
        /\ UNCHANGED <<streamOf, answers, running, closed, store, sent, lost>>

\* A Valkey command of a replay is rejected: 500
ReplayRejected ==
    /\ ValkeyFails /\ Fails
    /\ \E kind \in {"lookup", "relookup", "list", "fetch"} : Answered(kind)
    /\ pending' = Tail(pending)
    /\ conn' = [conn EXCEPT ![Head(pending).conn] = Unused]
    /\ UNCHANGED <<transport, store, received, sent, lost>>

-----------------------------------------------------------------------------
(* The end of responses and of the session.                                *)

\* Whether the response was handed to the HTTP server, which can cancel it.
Returned(c) == \A i \in 1..Len(pending) :
    pending[i].conn = c => pending[i].kind = "related"

\* c is the response to a resume that is not answered yet.
Resuming(c) == \E i \in 1..Len(pending) :
    pending[i].conn = c /\ pending[i].kind \notin {"prime", "related"}

\* The network breaks a connection, or its client gives it up, a POST also
\* before it has its priming event; the client knows first.
Drop(c) ==
    /\ Fails
    /\ Listening(c)
    /\ Patient => ~Resuming(c)
    /\ conn' = [conn EXCEPT ![c].heard = FALSE]
    /\ UNCHANGED <<transport, pending, store, received, sent, lost>>

\* Then the server does: cancel() unmaps the stream, but that of a replay
\* does nothing ("Cleanup will be handled by the mapping").
Cancel(c) ==
    /\ conn[c].open /\ ~conn[c].heard
    /\ conn[c].kind # "discarded"
    /\ Returned(c)
    /\ conn' = [conn EXCEPT ![c] = Unused]
    /\ mapping' = IF conn[c].kind = "replay" THEN mapping
                  ELSE [mapping EXCEPT ![conn[c].stream] = NoConn]
    /\ UNCHANGED <<streamOf, answers, running, closed, pending, store, received, history>>

\* closeSSEStream, closeStandaloneSSEStream: a handler makes its client poll.
CloseStream(s) ==
    /\ Primed
    /\ mapping[s] # NoConn
    /\ \E r \in running : s = GetStream \/ (r \in DOMAIN streamOf /\ streamOf[r] = s)
    /\ Cleanup(mapping[s], s)
    /\ UNCHANGED <<streamOf, answers, running, closed, pending, store, received, history>>

\* DELETE: close() ends every mapped response.  The handlers run on.
Close ==
    /\ ~closed
    /\ closed' = TRUE
    /\ mapping' = [s \in Stream |-> NoConn]
    /\ conn' = [c \in Conn |->
           IF \E s \in Stream : mapping[s] = c THEN Unused ELSE conn[c]]
    /\ answers' = {}
    /\ UNCHANGED <<streamOf, running, pending, store, received, history>>

-----------------------------------------------------------------------------
ValkeyReplies ==
    \/ PrimeStored \/ StandaloneStored \/ RelatedStored
    \/ ResumeConflicts \/ ResumeAccepted
    \/ ReplayLists \/ ReplayFetches \/ ReplayFinishes

ValkeyRejects == PrimeRejected \/ StoreReplyLost \/ ReplayRejected

HandlerSends(r) ==
    \E e \in Event : SendRelated(r, e) \/ SendUnconnected(r, e) \/ SendRejected(r, e)

\* The HTTP requests of the session, but for its DELETE.
RequestArrives(c) ==
    \/ \E p \in Post : PostArrives(p, c)
    \/ GetArrives(c)
    \/ \E s \in Stream : ResumeArrives(c, s)

\* What happens between requests.
TransportStep ==
    \/ \E c \in Conn : Drop(c) \/ Cancel(c)
    \/ \E n \in Note : SendStandalone(n)
    \/ \E r \in Request : HandlerSends(r) \/ HandlerAborted(r)
    \/ \E s \in Stream : CloseStream(s)
    \/ ValkeyReplies
    \/ ValkeyRejects

Next == Close \/ TransportStep \/ \E c \in Conn : RequestArrives(c)

Spec == Init /\ [][Next]_vars

\* Valkey answers, the HTTP server notices a broken connection, and a client
\* whose stream was interrupted tries again until it is resumed.
Fairness ==
    /\ WF_vars(ValkeyReplies)
    /\ \A c \in Conn : WF_vars(Cancel(c))
    /\ \A s \in Stream : WF_vars(\E c \in Conn : ResumeArrives(c, s))

FairSpec == Spec /\ Fairness
=============================================================================
