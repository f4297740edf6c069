-------------------------- MODULE McpSessionProofs --------------------------
(***************************************************************************)
(* Proofs about a Streamable HTTP session: the session map implements the  *)
(* transport, a POST's stream ends only when its batch is answered, a      *)
(* client that knows its session finds it in the map, a response that is   *)
(* open is written to, the stream of a POST is a resumable stream whose    *)
(* waiting client is served, and no client gets an event out of order or   *)
(* twice.                                                                  *)
(***************************************************************************)
EXTENDS McpSessionProps, TLAPS

-----------------------------------------------------------------------------
(* The map and the transport *)

\* Whatever the map does is a step of the transport, or leaves it alone.
LEMMA SessionStepIsTransportStep == [SessionNext]_sessionVars => [Next]_vars
<1>1. ASSUME NEW c \in Conn, Initializes(c) \/ Forwards(c) PROVE Next
  <2>1. Initializes(c) => RequestArrives(c)
    BY InitializeAssumption DEF Initializes, RequestArrives
  <2> QED BY <1>1, <2>1 DEF Forwards, Next
<1>2. Deletes => Next
  BY DEF Deletes, Next
<1>3. DeleteRejected \/ Evicted => UNCHANGED vars
  BY DEF DeleteRejected, Evicted
<1>4. TransportStep => Next
  BY DEF Next
<1> QED BY <1>1, <1>2, <1>3, <1>4 DEF SessionNext, sessionVars

\* A session is a transport with a map around it, so that what holds of
\* StreamableHttp holds of it.
LEMMA SessionsUseTransport == SessionSpec => Spec
<1>1. SessionInit => Init
  BY DEF SessionInit
<1> QED BY <1>1, SessionStepIsTransportStep, PTL DEF SessionSpec, Spec

-----------------------------------------------------------------------------
(* What sequences hold *)

LEMMA EmptyHoldsNone == ASSUME NEW S, NEW s \in Seq(S) PROVE s = <<>> <=> Elements(s) = {}
<1>1. ASSUME s # <<>> PROVE s[1] \in Elements(s)
  BY <1>1 DEF Elements
<1> QED BY <1>1 DEF Elements

LEMMA AppendHolds ==
  ASSUME NEW S, NEW s \in Seq(S), NEW e \in S
  PROVE  Append(s, e) \in Seq(S) /\ Elements(Append(s, e)) = Elements(s) \cup {e}
BY DEF Elements

LEMMA ConcatHolds ==
  ASSUME NEW S, NEW s \in Seq(S), NEW t \in Seq(S)
  PROVE  s \o t \in Seq(S) /\ Elements(s \o t) = Elements(s) \cup Elements(t)
<1>1. Len(s \o t) = Len(s) + Len(t) /\ s \o t \in Seq(S)
  OBVIOUS
<1>2. ASSUME NEW i \in 1..Len(s \o t) PROVE (s \o t)[i] \in Elements(s) \cup Elements(t)
  BY <1>1, <1>2 DEF Elements
<1>3. ASSUME NEW i \in 1..Len(s) PROVE s[i] \in Elements(s \o t)
  <2>1. i \in 1..Len(s \o t) /\ (s \o t)[i] = s[i]
    BY <1>1
  <2> QED BY <2>1 DEF Elements
<1>4. ASSUME NEW i \in 1..Len(t) PROVE t[i] \in Elements(s \o t)
  <2>1. Len(s) + i \in 1..Len(s \o t) /\ (s \o t)[Len(s) + i] = t[i]
    BY <1>1
  <2> QED BY <2>1 DEF Elements
<1> QED BY <1>1, <1>2, <1>3, <1>4 DEF Elements

LEMMA SubSeqHolds ==
  ASSUME NEW S, NEW s \in Seq(S), NEW m \in 1..Len(s) + 1, NEW n \in 0..Len(s)
  PROVE  SubSeq(s, m, n) \in Seq(S) /\ Elements(SubSeq(s, m, n)) \subseteq Elements(s)
BY DEF Elements

LEMMA HeadAndTailHold ==
  ASSUME NEW S, NEW s \in Seq(S), s # <<>>
  PROVE  /\ Head(s) \in Elements(s) /\ Head(s) \in S
         /\ Tail(s) \in Seq(S) /\ Elements(Tail(s)) \subseteq Elements(s)
BY DEF Elements

LEMMA ElementsTyped == ASSUME NEW S, NEW s \in Seq(S) PROVE Elements(s) \subseteq S
BY DEF Elements

-----------------------------------------------------------------------------
(* The invariant *)

Response ==
    [kind : {"unused", "post", "get", "replay", "discarded"}, stream : Stream,
     heard : BOOLEAN, open : BOOLEAN]

Single == {"prime", "standalone", "related", "lookup", "relookup"}
Replaying == {"lookup", "relookup", "list", "fetch"}

Waiting ==
    [kind : Single, conn : Conn \cup {NoConn}, stream : Stream, event : Event]
    \cup [kind : {"list", "fetch"}, conn : Conn \cup {NoConn}, stream : Stream,
          event : Event, replay : Seq(Event)]

TypeOK ==
    /\ mapping \in [Stream -> Conn \cup {NoConn}]
    /\ answers \subseteq Request /\ running \subseteq Request /\ closed \in BOOLEAN
    /\ conn \in [Conn -> Response]
    /\ pending \in Seq(Waiting)
    /\ store \in [Stream -> Seq(Event)] /\ received \in [Stream -> Seq(Event)]
    /\ faults \in Nat /\ sent \subseteq Event

\* What is known of a command that waits for Valkey.
Fits(w) ==
    /\ w.event \in Elements(store[w.stream])
    /\ w.kind # "standalone" => w.conn \in Conn
    /\ w.kind = "prime" => w.event = Prime
    /\ w.kind = "standalone" =>
          w.event \notin Request /\ w.stream = GetStream /\ w.conn = NoConn
    /\ w.kind \in {"prime", "related"} => w.stream \in Post
    /\ w.kind = "related" /\ w.event \in Request => w.event \in Batch[w.stream]
    /\ w.kind \in Replaying => Elements(received[w.stream]) # {}
    /\ w.kind \in {"list", "fetch"} => Elements(w.replay) \subseteq Elements(store[w.stream])

\* Only what was sent is stored, and only what is stored is received.
Kept ==
    /\ \A w \in Elements(pending) : Fits(w)
    /\ \A s \in Stream :
          /\ Elements(received[s]) \subseteq Elements(store[s])
          /\ Elements(store[s]) \subseteq sent \cup {Prime}
          /\ s = GetStream => Elements(store[s]) \cap Request = {}
    /\ \A p \in Post : Elements(store[p]) \cap Request \subseteq Batch[p]

\* A stream stands for its whole batch until that is forgotten; what is
\* answered was stored, or lost.
Batches ==
    /\ answers \subseteq sent
    /\ \A r \in DOMAIN streamOf : streamOf[r] \in Post /\ r \in Batch[streamOf[r]]
    /\ \A p \in Post :
          /\ Batch[p] \subseteq DOMAIN streamOf \/ Batch[p] \cap DOMAIN streamOf = {}
          /\ answers \cap Batch[p] \subseteq Elements(store[p]) \cup lost
          /\ Elements(store[p]) # {} =>
                \/ Batch[p] \subseteq DOMAIN streamOf
                \/ Batch[p] \subseteq Elements(store[p]) \cup lost

\* The response of a POST, or of a GET that resumes nothing.
First(c) == conn[c].open /\ conn[c].kind \in {"post", "get"}

\* While it is open its stream is mapped to it, so that whatever is sent goes
\* to it and no replay is under way.
FirstIsMapped ==
    \A c \in Conn :
        /\ conn[c].kind = "post" => conn[c].stream \in Post
        /\ conn[c].kind = "get" => conn[c].stream = GetStream
        /\ conn[c].open => conn[c].kind # "unused"
        /\ First(c) =>
              /\ mapping[conn[c].stream] = c
              /\ \A w \in Elements(pending) : w.stream = conn[c].stream =>
                    /\ w.kind = "related" => w.conn = c
                    /\ w.kind \notin {"relookup", "list", "fetch"}

\* The response of a POST ends when its client has all answers.
OpenAwaits ==
    \A c \in Conn : conn[c].open /\ conn[c].kind = "post" =>
        LET p == conn[c].stream
        IN  /\ Batch[p] \cap Elements(received[p]) \subseteq answers
            /\ ~(Batch[p] \subseteq answers)

StreamInv == TypeOK /\ Kept /\ Batches /\ FirstIsMapped /\ OpenAwaits

-----------------------------------------------------------------------------
LEMMA NoneOpen == Unused \in Response /\ ~Unused.open /\ Unused.kind = "unused"
BY DEF Unused, Response, Stream

LEMMA StreamStarts == Init => StreamInv
<1> SUFFICES ASSUME Init PROVE StreamInv
  OBVIOUS
<1>1. \A S : <<>> \in Seq(S) /\ Elements(<<>>) = {}
  BY DEF Elements
<1>2. TypeOK
  BY <1>1, NoneOpen DEF Init, TypeOK
<1>3. Kept /\ Batches
  BY <1>1 DEF Init, Kept, Batches, Stream
<1>4. FirstIsMapped /\ OpenAwaits
  BY NoneOpen DEF Init, FirstIsMapped, OpenAwaits, First
<1> QED BY <1>2, <1>3, <1>4 DEF StreamInv

-----------------------------------------------------------------------------
(* Commands and what they bring *)

\* What is written to a response adds to what its stream received.
LEMMA WritesAdd ==
  ASSUME received \in [Stream -> Seq(Event)], NEW c \in Conn, NEW s \in Stream,
         NEW events \in Seq(Event)
  PROVE  /\ Written(c, s, events) \in [Stream -> Seq(Event)]
         /\ \A t \in Stream \ {s} : Written(c, s, events)[t] = received[t]
         /\ Elements(received[s]) \subseteq Elements(Written(c, s, events)[s])
         /\ Elements(Written(c, s, events)[s]) \subseteq Elements(received[s]) \cup Elements(events)
<1>1. received[s] \o events \in Seq(Event)
      /\ Elements(received[s] \o events) = Elements(received[s]) \cup Elements(events)
  BY ConcatHolds
<1> QED BY <1>1 DEF Written

LEMMA StoresAdds ==
  ASSUME store \in [Stream -> Seq(Event)], NEW s \in Stream, NEW e \in Event, Stores(s, e)
  PROVE  /\ store' \in [Stream -> Seq(Event)]
         /\ \A t \in Stream \ {s} : store'[t] = store[t]
         /\ Elements(store'[s]) = Elements(store[s]) \cup {e}
<1>1. Append(store[s], e) \in Seq(Event)
      /\ Elements(Append(store[s], e)) = Elements(store[s]) \cup {e}
  BY AppendHolds
<1> QED BY <1>1 DEF Stores

\* The oldest command, and the others.
LEMMA OldestWaits ==
  ASSUME TypeOK, Kept, pending # <<>>
  PROVE  /\ Head(pending) \in Elements(pending) /\ Head(pending) \in Waiting
         /\ Fits(Head(pending)) /\ Head(pending).stream \in Stream
         /\ Head(pending).event \in Event /\ Head(pending).conn \in Conn \cup {NoConn}
         /\ Tail(pending) \in Seq(Waiting) /\ Elements(Tail(pending)) \subseteq Elements(pending)
<1>1. pending \in Seq(Waiting)
  BY DEF TypeOK
<1>2. /\ Head(pending) \in Elements(pending) /\ Head(pending) \in Waiting
      /\ Tail(pending) \in Seq(Waiting) /\ Elements(Tail(pending)) \subseteq Elements(pending)
  BY <1>1, HeadAndTailHold
<1>3. Fits(Head(pending))
  BY <1>2 DEF Kept
<1> QED BY <1>2, <1>3 DEF Waiting

\* A command is sent.
LEMMA SendsAdds ==
  ASSUME pending \in Seq(Waiting), NEW w \in Waiting, Sends(w)
  PROVE  pending' \in Seq(Waiting) /\ Elements(pending') = Elements(pending) \cup {w}
<1>1. Append(pending, w) \in Seq(Waiting)
      /\ Elements(Append(pending, w)) = Elements(pending) \cup {w}
  BY AppendHolds
<1> QED BY <1>1 DEF Sends

LEMMA CommandWaits ==
  ASSUME NEW kind \in Single, NEW c \in Conn \cup {NoConn}, NEW s \in Stream, NEW e \in Event
  PROVE  Command(kind, c, s, e) \in Waiting
BY DEF Command, Waiting

\* Those of a replay go back into the queue with what comes next.
LEMMA ReplayWaits ==
  ASSUME TypeOK, Kept, pending # <<>>, Head(pending).kind \in Replaying
  PROVE  /\ Head(pending).kind = "lookup" =>
               [Head(pending) EXCEPT !.kind = "relookup"] \in Waiting
         /\ Head(pending).kind = "relookup" =>
               \A events \in Seq(Event) :
                  [kind |-> "list", conn |-> Head(pending).conn, stream |-> Head(pending).stream,
                   event |-> Head(pending).event, replay |-> events] \in Waiting
         /\ Head(pending).kind = "list" =>
               [Head(pending) EXCEPT !.kind = "fetch"] \in Waiting
         /\ Head(pending).kind \in {"list", "fetch"} => Head(pending).replay \in Seq(Event)
BY OldestWaits DEF Waiting, Single, Replaying

\* The events after one that is stored are stored.
LEMMA AfterHolds ==
  ASSUME store \in [Stream -> Seq(Event)], NEW s \in Stream, NEW e \in Elements(store[s])
  PROVE  After(e, s) \in Seq(Event) /\ Elements(After(e, s)) \subseteq Elements(store[s])
<1> DEFINE at == CHOOSE i \in 1..Len(store[s]) : store[s][i] = e
<1>1. at \in 1..Len(store[s])
  BY DEF Elements
<1>2. /\ store[s] \in Seq(Event) /\ at + 1 \in 1..Len(store[s]) + 1
      /\ Len(store[s]) \in 0..Len(store[s])
  BY <1>1
<1>3. After(e, s) = SubSeq(store[s], at + 1, Len(store[s]))
  BY DEF After
<1> HIDE DEF at
<1> QED BY <1>2, <1>3, SubSeqHolds

LEMMA LastIdHolds ==
  ASSUME received \in [Stream -> Seq(Event)], NEW s \in Stream, received[s] # <<>>
  PROVE  LastId(s) \in Elements(received[s]) /\ LastId(s) \in Event
<1>1. received[s] \in Seq(Event) /\ Len(received[s]) \in 1..Len(received[s])
  OBVIOUS
<1> QED BY <1>1 DEF LastId, Elements

-----------------------------------------------------------------------------
LEMMA EventNames ==
  /\ Request \subseteq Event /\ Note \subseteq Event /\ Prime \in Event /\ Prime \notin Request
  /\ Request \cap Note = {} /\ Post \subseteq Stream /\ GetStream \in Stream
  /\ GetStream \notin Post /\ NoConn \notin Conn
  /\ \A p \in Post : Batch[p] \subseteq Request /\ Batch[p] # {}
  /\ \A p, q \in Post : p # q => Batch[p] \cap Batch[q] = {}
BY NamesAssumption, BatchAssumption DEF Event, Stream

LEMMA OpenedIsResponse ==
  ASSUME NEW s \in Stream, NEW kind \in {"post", "get", "replay"}
  PROVE  /\ Opened(kind, s) \in Response /\ Opened(kind, s).open
         /\ Opened(kind, s).kind = kind /\ Opened(kind, s).stream = s
BY DEF Opened, Response

\* The queue after the oldest command was answered.
LEMMA PopsType ==
  ASSUME TypeOK, Kept, pending # <<>>, pending' = Tail(pending)
  PROVE  pending' \in Seq(Waiting)
BY OldestWaits

LEMMA RequeueTypes ==
  ASSUME TypeOK, Kept, pending # <<>>, NEW w \in Waiting, pending' = Append(Tail(pending), w)
  PROVE  /\ pending' \in Seq(Waiting)
         /\ Elements(pending') \subseteq Elements(pending) \cup {w}
<1>1. Tail(pending) \in Seq(Waiting) /\ Elements(Tail(pending)) \subseteq Elements(pending)
  BY OldestWaits
<1> DEFINE rest == Tail(pending)
<1>2. rest \in Seq(Waiting)
  BY <1>1
<1> HIDE DEF rest
<1>3. Append(rest, w) \in Seq(Waiting) /\ Elements(Append(rest, w)) = Elements(rest) \cup {w}
  BY <1>2, AppendHolds
<1> QED BY <1>1, <1>3 DEF rest

\* Values have their types, after each kind of step.
LEMMA TypesKept ==
  ASSUME TypeOK, Kept, Batches, [Next]_vars
  PROVE  TypeOK'
<1> USE EventNames DEF TypeOK
<1>1. ASSUME NEW c \in Conn, NEW p \in Post, PostArrives(p, c) PROVE TypeOK'
  <2>1. store' \in [Stream -> Seq(Event)] /\ pending' \in Seq(Waiting)
    BY <1>1, StoresAdds, SendsAdds, CommandWaits DEF PostArrives, Single
  <2>2. conn' \in [Conn -> Response]
    BY <1>1, OpenedIsResponse DEF PostArrives
  <2>3. mapping' \in [Stream -> Conn \cup {NoConn}]
    BY <1>1 DEF PostArrives
  <2> QED BY <1>1, <2>1, <2>2, <2>3 DEF PostArrives, history
<1>2. ASSUME NEW c \in Conn, GetArrives(c) PROVE TypeOK'
  BY <1>2, OpenedIsResponse DEF GetArrives, history
<1>3. ASSUME NEW c \in Conn, NEW s \in Stream, ResumeArrives(c, s) PROVE TypeOK'
  <2>1. LastId(s) \in Event
    BY <1>3, LastIdHolds DEF ResumeArrives, Interrupted
  <2>2. pending' \in Seq(Waiting)
    BY <1>3, <2>1, SendsAdds, CommandWaits DEF ResumeArrives, Single
  <2> QED BY <1>3, <2>2, OpenedIsResponse DEF ResumeArrives, transport, history
<1>4. ASSUME NEW n \in Note, SendStandalone(n) PROVE TypeOK'
  <2>1. store' \in [Stream -> Seq(Event)] /\ pending' \in Seq(Waiting)
    BY <1>4, StoresAdds, SendsAdds, CommandWaits DEF SendStandalone, Single
  <2> QED BY <1>4, <2>1 DEF SendStandalone, transport
<1>5. ASSUME NEW r \in Request, HandlerSends(r) PROVE TypeOK'
  <2>1. PICK e \in Event : SendRelated(r, e) \/ SendUnconnected(r, e) \/ SendRejected(r, e)
    BY <1>5 DEF HandlerSends
  <2>2. CASE SendRelated(r, e)
    <3>1. streamOf[r] \in Stream /\ mapping[streamOf[r]] \in Conn
      BY <2>2 DEF SendRelated, Batches
    <3>2. store' \in [Stream -> Seq(Event)] /\ pending' \in Seq(Waiting)
      BY <2>2, <3>1, StoresAdds, SendsAdds, CommandWaits DEF SendRelated, Single
    <3> QED BY <2>2, <3>2 DEF SendRelated, Handles
  <2>3. CASE SendUnconnected(r, e)
    BY <2>3 DEF SendUnconnected, Handles
  <2>4. CASE SendRejected(r, e)
    BY <2>4 DEF SendRejected, Handles, Fails
  <2> QED BY <2>1, <2>2, <2>3, <2>4
<1>6. ASSUME NEW r \in Request, HandlerAborted(r) PROVE TypeOK'
  BY <1>6 DEF HandlerAborted, history
<1>7. ASSUME NEW c \in Conn, Drop(c) \/ Cancel(c) PROVE TypeOK'
  <2>1. [conn[c] EXCEPT !.heard = FALSE] \in Response /\ conn[c].stream \in Stream
    BY DEF Response
  <2>2. conn' \in [Conn -> Response]
    BY <1>7, <2>1, NoneOpen DEF Drop, Cancel
  <2>3. mapping' \in [Stream -> Conn \cup {NoConn}]
    BY <1>7, <2>1 DEF Drop, Cancel, transport
  <2> QED BY <1>7, <2>2, <2>3 DEF Drop, Cancel, transport, history, Fails
<1>8. ASSUME NEW s \in Stream, CloseStream(s) PROVE TypeOK'
  BY <1>8, NoneOpen DEF CloseStream, Cleanup, history
<1>9. CASE Close
  BY <1>9, NoneOpen DEF Close, history
<1>10. CASE PrimeStored
  <2>1. /\ pending' \in Seq(Waiting) /\ Head(pending).stream \in Post
        /\ Head(pending).conn \in Conn
    BY <1>10, OldestWaits DEF PrimeStored, Answered, Fits
  <2>2. <<Prime>> \in Seq(Event)
    OBVIOUS
  <2>3. received' \in [Stream -> Seq(Event)]
    BY <1>10, <2>1, <2>2, WritesAdd DEF PrimeStored
  <2> QED BY <1>10, <2>1, <2>3 DEF PrimeStored, history
<1>11. CASE PrimeRejected
  <2>1. pending' \in Seq(Waiting) /\ Head(pending).conn \in Conn
    BY <1>11, OldestWaits DEF PrimeRejected, Answered, Fits
  <2>2. \A c \in Conn : [[conn[c] EXCEPT !.kind = "discarded"] EXCEPT !.heard = FALSE] \in Response
    BY DEF Response
  <2>3. conn' \in [Conn -> Response]
    BY <1>11, <2>1, <2>2 DEF PrimeRejected
  <2> QED BY <1>11, <2>1, <2>3 DEF PrimeRejected, transport, Fails
<1>12. CASE StandaloneStored
  <2>1. pending' \in Seq(Waiting) /\ Head(pending).event \in Event
    BY <1>12, OldestWaits DEF StandaloneStored, Answered
  <2>2. <<Head(pending).event>> \in Seq(Event)
    BY <2>1
  <2>3. received' \in [Stream -> Seq(Event)]
    BY <1>12, <2>2, WritesAdd DEF StandaloneStored
  <2> QED BY <1>12, <2>1, <2>3 DEF StandaloneStored, transport, history
<1>13. CASE RelatedStored
  <2>1. /\ pending' \in Seq(Waiting) /\ Head(pending).event \in Event
        /\ Head(pending).conn \in Conn /\ Head(pending).stream \in Stream
    BY <1>13, OldestWaits DEF RelatedStored, Answered, Fits
  <2>2. <<Head(pending).event>> \in Seq(Event)
    BY <2>1
  <2>3. received' \in [Stream -> Seq(Event)]
    BY <1>13, <2>1, <2>2, WritesAdd DEF RelatedStored
  <2>4. /\ conn' \in [Conn -> Response]
        /\ mapping' \in [Stream -> Conn \cup {NoConn}]
    <3>1. CASE Cleanup(Head(pending).conn, Head(pending).stream)
      BY <2>1, <3>1, NoneOpen DEF Cleanup
    <3>2. CASE UNCHANGED <<mapping, conn>>
      BY <3>2
    <3> QED BY <1>13, <3>1, <3>2 DEF RelatedStored
  <2>5. answers' \subseteq Request
    BY <1>13 DEF RelatedStored, Forget
  <2> QED BY <1>13, <2>1, <2>3, <2>4, <2>5 DEF RelatedStored, history
<1>14. CASE StoreReplyLost
  BY <1>14, PopsType DEF StoreReplyLost, Answered, transport, Fails
<1>15. CASE ResumeConflicts \/ ReplayRejected
  <2>1. pending' \in Seq(Waiting)
    BY <1>15, PopsType DEF ResumeConflicts, ReplayRejected, Answered
  <2>2. conn' \in [Conn -> Response]
    BY <1>15, NoneOpen DEF ResumeConflicts, ReplayRejected
  <2> QED BY <1>15, <2>1, <2>2 DEF ResumeConflicts, ReplayRejected, transport, history, Fails
<1>16. CASE ResumeAccepted \/ ReplayFetches
  BY <1>16, ReplayWaits, RequeueTypes
  DEF ResumeAccepted, ReplayFetches, Answered, transport, history, Replaying
<1>17. CASE ReplayLists
  <2>1. After(Head(pending).event, Head(pending).stream) \in Seq(Event)
    BY <1>17, OldestWaits, AfterHolds DEF ReplayLists, Answered, Fits
  <2> QED BY <1>17, <2>1, ReplayWaits, RequeueTypes
          DEF ReplayLists, Answered, transport, history, Replaying
<1>18. CASE ReplayFinishes
  <2>1. /\ pending # <<>> /\ pending' \in Seq(Waiting) /\ Head(pending).stream \in Stream
        /\ Head(pending).conn \in Conn /\ Head(pending).replay \in Seq(Event)
    BY <1>18, OldestWaits, ReplayWaits DEF ReplayFinishes, Answered, Fits, Replaying
  <2>2. \A n \in 0..Len(Head(pending).replay) - 1 :
           SubSeq(Head(pending).replay, 1, n) \in Seq(Event)
    BY <2>1, SubSeqHolds
  <2>3. \A c \in Conn, s \in Stream, events \in Seq(Event) :
           Written(c, s, events) \in [Stream -> Seq(Event)]
    BY WritesAdd
  <2>4. received' \in [Stream -> Seq(Event)]
    <3>1. CASE received' = Written(Head(pending).conn, Head(pending).stream, Head(pending).replay)
      BY <2>1, <2>3, <3>1
    <3>2. ASSUME NEW n \in 0..Len(Head(pending).replay) - 1,
                 received' = Written(Head(pending).conn, Head(pending).stream,
                                     SubSeq(Head(pending).replay, 1, n))
          PROVE  received' \in [Stream -> Seq(Event)]
      BY <2>1, <2>2, <2>3, <3>2
    <3> QED BY <1>18, <3>1, <3>2 DEF ReplayFinishes
  <2>5. \A c \in Conn : [conn[c] EXCEPT !.heard = FALSE] \in Response
    BY DEF Response
  <2>6. conn' \in [Conn -> Response]
    BY <1>18, <2>1, <2>5 DEF ReplayFinishes
  <2>7. mapping' \in [Stream -> Conn \cup {NoConn}] /\ faults' \in Nat
    BY <1>18, <2>1 DEF ReplayFinishes, Fails
  <2> QED BY <1>18, <2>1, <2>4, <2>6, <2>7 DEF ReplayFinishes
<1>19. CASE UNCHANGED vars
  BY <1>19 DEF vars, transport, history
<1> QED BY <1>1, <1>2, <1>3, <1>4, <1>5, <1>6, <1>7, <1>8, <1>9, <1>10, <1>11, <1>12, <1>13,
           <1>14, <1>15, <1>16, <1>17, <1>18, <1>19
        DEF Next, TransportStep, RequestArrives, ValkeyReplies, ValkeyRejects

-----------------------------------------------------------------------------
LEMMA FitStays ==
  ASSUME TypeOK, NEW w \in Elements(pending), Fits(w),
         \A s \in Stream : /\ Elements(store[s]) \subseteq Elements(store'[s])
                           /\ Elements(received[s]) \subseteq Elements(received'[s])
  PROVE  Fits(w)'
<1>1. pending \in Seq(Waiting)
  BY DEF TypeOK
<1>2. w \in Waiting
  BY <1>1, ElementsTyped
<1>3. w.stream \in Stream
  BY <1>2 DEF Waiting
<1> QED BY <1>3 DEF Fits

\* An event is stored, for the response or the stream that it is sent to.
LEMMA StoringKeeps ==
  ASSUME TypeOK, Kept, NEW s \in Stream, NEW e \in Event, Stores(s, e),
         UNCHANGED received, sent \subseteq sent', e \in sent' \cup {Prime},
         e \in Request => s \in Post /\ e \in Batch[s],
         \A w \in Elements(pending') \ Elements(pending) :
            /\ w.event = e /\ w.stream = s
            /\ \/ /\ w.kind = "standalone" /\ e \notin Request /\ s = GetStream
                  /\ w.conn = NoConn
               \/ w.kind = "prime" /\ e = Prime /\ s \in Post /\ w.conn \in Conn
               \/ w.kind = "related" /\ s \in Post /\ w.conn \in Conn
  PROVE  Kept'
<1>1. /\ \A t \in Stream \ {s} : store'[t] = store[t]
      /\ Elements(store'[s]) = Elements(store[s]) \cup {e}
  BY StoresAdds DEF TypeOK
<1>2. \A t \in Stream : Elements(store[t]) \subseteq Elements(store'[t])
  BY <1>1
<1>3. ASSUME NEW w \in Elements(pending') PROVE Fits(w)'
  <2>1. CASE w \in Elements(pending)
    BY <1>2, <2>1, FitStays DEF Kept
  <2>2. CASE w \notin Elements(pending)
    BY <1>1, <2>2 DEF Fits, Replaying
  <2> QED BY <2>1, <2>2
<1>4. \A t \in Stream :
         /\ Elements(received'[t]) \subseteq Elements(store'[t])
         /\ Elements(store'[t]) \subseteq sent' \cup {Prime}
         /\ t = GetStream => Elements(store'[t]) \cap Request = {}
  BY <1>1, <1>2, EventNames DEF Kept
<1>5. \A p \in Post : Elements(store'[p]) \cap Request \subseteq Batch[p]
  BY <1>1, EventNames DEF Kept
<1> QED BY <1>3, <1>4, <1>5 DEF Kept

\* What is read was stored, and commands are answered or followed by others.
LEMMA ReadingKeeps ==
  ASSUME TypeOK, Kept, UNCHANGED store, sent \subseteq sent',
         \A s \in Stream : /\ Elements(received[s]) \subseteq Elements(received'[s])
                           /\ Elements(received'[s]) \subseteq Elements(store[s]),
         \A w \in Elements(pending') \ Elements(pending) : Fits(w)'
  PROVE  Kept'
<1>1. \A w \in Elements(pending') : Fits(w)'
  BY FitStays DEF Kept
<1> QED BY <1>1 DEF Kept

LEMMA PopsShrinks ==
  ASSUME TypeOK, Kept, pending # <<>>, pending' = Tail(pending)
  PROVE  Elements(pending') \subseteq Elements(pending)
BY OldestWaits

\* Something that was stored is written to a response.
LEMMA WrittenIsStored ==
  ASSUME TypeOK, Kept, NEW c \in Conn, NEW s \in Stream, NEW events \in Seq(Event),
         Elements(events) \subseteq Elements(store[s]), received' = Written(c, s, events)
  PROVE  \A t \in Stream : /\ Elements(received[t]) \subseteq Elements(received'[t])
                           /\ Elements(received'[t]) \subseteq Elements(store[t])
<1>1. /\ \A t \in Stream \ {s} : received'[t] = received[t]
      /\ Elements(received[s]) \subseteq Elements(received'[s])
      /\ Elements(received'[s]) \subseteq Elements(received[s]) \cup Elements(events)
  BY WritesAdd DEF TypeOK
<1> QED BY <1>1 DEF Kept

LEMMA OneEvent == ASSUME NEW e \in Event PROVE <<e>> \in Seq(Event) /\ Elements(<<e>>) = {e}
BY DEF Elements

\* What is stored was sent, and what is received was stored.
LEMMA KeptStays ==
  ASSUME TypeOK, Kept, Batches, [Next]_vars
  PROVE  Kept'
<1>1. ASSUME NEW c \in Conn, NEW p \in Post, PostArrives(p, c) PROVE Kept'
  <2>1. CASE Primed
    <3>1. /\ Stores(p, Prime) /\ Sends(Command("prime", c, p, Prime))
          /\ UNCHANGED <<received, sent>>
      BY <1>1, <2>1 DEF PostArrives, history
    <3>2. Command("prime", c, p, Prime) \in Waiting
      BY EventNames, CommandWaits DEF Single
    <3>3. Elements(pending') = Elements(pending) \cup {Command("prime", c, p, Prime)}
      BY <3>1, <3>2, SendsAdds DEF TypeOK
    <3> QED BY <3>1, <3>3, EventNames, StoringKeeps DEF Command
  <2>2. CASE ~Primed
    BY <1>1, <2>2, ReadingKeeps DEF PostArrives, history, Kept
  <2> QED BY <2>1, <2>2
<1>2. ASSUME NEW c \in Conn, NEW s \in Stream, ResumeArrives(c, s) PROVE Kept'
  <2>1. LastId(s) \in Elements(received[s]) /\ LastId(s) \in Event
    BY <1>2, LastIdHolds DEF ResumeArrives, Interrupted, TypeOK
  <2>2. Command("lookup", c, s, LastId(s)) \in Waiting
    BY <2>1, CommandWaits DEF Single
  <2>3. /\ Elements(pending') = Elements(pending) \cup {Command("lookup", c, s, LastId(s))}
        /\ UNCHANGED <<store, received, sent>>
    BY <1>2, <2>2, SendsAdds DEF ResumeArrives, TypeOK, history
  <2>4. ASSUME NEW w \in Elements(pending') \ Elements(pending) PROVE Fits(w)'
    <3>1. w = [kind |-> "lookup", conn |-> c, stream |-> s, event |-> LastId(s)]
      BY <2>3 DEF Command
    <3>2. w.event \in Elements(received[s]) /\ w.stream = s /\ w.conn = c /\ w.kind = "lookup"
      BY <2>1, <3>1
    <3>3. Elements(received[s]) \subseteq Elements(store[s])
      BY DEF Kept
    <3> QED BY <2>3, <3>2, <3>3 DEF Fits
  <2>5. \A t \in Stream : Elements(received[t]) \subseteq Elements(store[t])
    BY DEF Kept
  <2> QED BY <2>3, <2>4, <2>5, ReadingKeeps
<1>3. ASSUME NEW n \in Note, SendStandalone(n) PROVE Kept'
  <2>1. /\ Stores(GetStream, n) /\ Sends(Command("standalone", NoConn, GetStream, n))
        /\ UNCHANGED received /\ sent' = sent \cup {n}
    BY <1>3 DEF SendStandalone
  <2>2. Command("standalone", NoConn, GetStream, n) \in Waiting
    BY EventNames, CommandWaits DEF Single
  <2>3. Elements(pending') = Elements(pending) \cup {Command("standalone", NoConn, GetStream, n)}
    BY <2>1, <2>2, SendsAdds DEF TypeOK
  <2> QED BY <2>1, <2>3, EventNames, StoringKeeps DEF Command
<1>4. ASSUME NEW r \in Request, NEW e \in Event, SendRelated(r, e) PROVE Kept'
  <2>1. /\ streamOf[r] \in Post /\ r \in Batch[streamOf[r]]
        /\ mapping[streamOf[r]] \in Conn
    BY <1>4, EventNames DEF SendRelated, Batches, TypeOK
  <2>2. /\ Stores(streamOf[r], e)
        /\ Sends(Command("related", mapping[streamOf[r]], streamOf[r], e))
        /\ UNCHANGED received /\ sent' = sent \cup {e} /\ (e \in Request => e = r)
    BY <1>4 DEF SendRelated, Handles, RequestOf
  <2>3. Command("related", mapping[streamOf[r]], streamOf[r], e) \in Waiting
    BY <2>1, EventNames, CommandWaits DEF Single
  <2>4. Elements(pending') =
           Elements(pending) \cup {Command("related", mapping[streamOf[r]], streamOf[r], e)}
    BY <2>2, <2>3, SendsAdds DEF TypeOK
  <2> QED BY <2>1, <2>2, <2>4, EventNames, StoringKeeps DEF Command
<1>5. ASSUME UNCHANGED <<pending, store, received>>, sent \subseteq sent' PROVE Kept'
  BY <1>5, ReadingKeeps DEF Kept
<1>6. CASE PrimeStored
  <2>1. /\ Elements(pending') \subseteq Elements(pending) /\ UNCHANGED <<store, sent>>
        /\ Head(pending).conn \in Conn /\ Head(pending).stream \in Stream
        /\ Prime \in Elements(store[Head(pending).stream])
        /\ received' = Written(Head(pending).conn, Head(pending).stream, <<Prime>>)
    BY <1>6, OldestWaits, PopsShrinks DEF PrimeStored, Answered, Fits, history
  <2>2. <<Prime>> \in Seq(Event) /\ Elements(<<Prime>>) = {Prime}
    BY EventNames, OneEvent
  <2> QED BY <2>1, <2>2, WrittenIsStored, ReadingKeeps
<1>7. CASE PrimeRejected \/ StoreReplyLost \/ ResumeConflicts \/ ReplayRejected
  <2>1. Elements(pending') \subseteq Elements(pending) /\ UNCHANGED <<store, received, sent>>
    BY <1>7, PopsShrinks
    DEF PrimeRejected, StoreReplyLost, ResumeConflicts, ReplayRejected, Answered, history
  <2> QED BY <2>1, ReadingKeeps DEF Kept
<1>8. CASE StandaloneStored
  <2>1. /\ Elements(pending') \subseteq Elements(pending) /\ UNCHANGED <<store, sent>>
        /\ Head(pending).event \in Event
        /\ Head(pending).event \in Elements(store[GetStream])
    BY <1>8, OldestWaits, PopsShrinks DEF StandaloneStored, Answered, Fits, history
  <2>2. /\ <<Head(pending).event>> \in Seq(Event)
        /\ Elements(<<Head(pending).event>>) = {Head(pending).event}
    BY <2>1, OneEvent
  <2>3. CASE mapping[GetStream] = NoConn
    BY <1>8, <2>1, <2>3, ReadingKeeps DEF StandaloneStored, Kept
  <2>4. CASE mapping[GetStream] # NoConn
    <3>1. mapping[GetStream] \in Conn
      BY <2>4, EventNames DEF TypeOK
    <3>2. received' = Written(mapping[GetStream], GetStream, <<Head(pending).event>>)
      BY <1>8, <2>4 DEF StandaloneStored
    <3>3. PICK events \in Seq(Event) :
             /\ Elements(events) \subseteq Elements(store[GetStream])
             /\ received' = Written(mapping[GetStream], GetStream, events)
      BY <2>1, <2>2, <3>2
    <3>4. \A s \in Stream : /\ Elements(received[s]) \subseteq Elements(received'[s])
                            /\ Elements(received'[s]) \subseteq Elements(store[s])
      BY <3>1, <3>3, EventNames, WrittenIsStored
    <3> QED BY <2>1, <3>4, ReadingKeeps
  <2> QED BY <2>3, <2>4
<1>9. CASE RelatedStored
  <2>1. /\ Elements(pending') \subseteq Elements(pending) /\ UNCHANGED <<store, sent>>
        /\ Head(pending).event \in Event /\ Head(pending).conn \in Conn
        /\ Head(pending).stream \in Stream
        /\ Head(pending).event \in Elements(store[Head(pending).stream])
        /\ received' = Written(Head(pending).conn, Head(pending).stream, <<Head(pending).event>>)
    BY <1>9, OldestWaits, PopsShrinks DEF RelatedStored, Answered, Fits, history
  <2>2. /\ <<Head(pending).event>> \in Seq(Event)
        /\ Elements(<<Head(pending).event>>) = {Head(pending).event}
    BY <2>1, OneEvent
  <2> QED BY <2>1, <2>2, WrittenIsStored, ReadingKeeps
<1>10. CASE ResumeAccepted \/ ReplayFetches \/ ReplayLists
  <2>1. /\ pending # <<>> /\ UNCHANGED <<store, received, sent>>
        /\ Head(pending).kind \in Replaying /\ Fits(Head(pending))
        /\ Head(pending).stream \in Stream
    BY <1>10, OldestWaits
    DEF ResumeAccepted, ReplayFetches, ReplayLists, Answered, history, Replaying
  <2>2. ASSUME NEW w \in Elements(pending') \ Elements(pending) PROVE Fits(w)'
    <3>1. CASE ResumeAccepted
      <4>1. w = [Head(pending) EXCEPT !.kind = "relookup"]
        BY <3>1, <2>1, ReplayWaits, RequeueTypes DEF ResumeAccepted, Answered
      <4>2. w.event = Head(pending).event /\ w.stream = Head(pending).stream
            /\ w.conn = Head(pending).conn /\ w.kind = "relookup"
        BY <4>1, <2>1, <3>1, OldestWaits DEF Waiting, Single, ResumeAccepted, Answered
      <4> QED BY <2>1, <4>2 DEF Fits, Replaying
    <3>2. CASE ReplayFetches
      <4>1. w = [Head(pending) EXCEPT !.kind = "fetch"]
        BY <3>2, <2>1, ReplayWaits, RequeueTypes DEF ReplayFetches, Answered
      <4>2. w.event = Head(pending).event /\ w.stream = Head(pending).stream
            /\ w.conn = Head(pending).conn /\ w.kind = "fetch"
            /\ w.replay = Head(pending).replay /\ Head(pending).kind = "list"
        BY <4>1, <2>1, <3>2, OldestWaits DEF Waiting, Single, ReplayFetches, Answered
      <4> QED BY <2>1, <4>2 DEF Fits, Replaying
    <3>3. CASE ReplayLists
      <4>1. /\ After(Head(pending).event, Head(pending).stream) \in Seq(Event)
            /\ Elements(After(Head(pending).event, Head(pending).stream))
                  \subseteq Elements(store[Head(pending).stream])
        BY <2>1, AfterHolds DEF Fits, TypeOK
      <4>2. w = [kind |-> "list", conn |-> Head(pending).conn, stream |-> Head(pending).stream,
                 event |-> Head(pending).event,
                 replay |-> After(Head(pending).event, Head(pending).stream)]
        BY <3>3, <2>1, <4>1, ReplayWaits, RequeueTypes DEF ReplayLists, Answered
      <4>3. w.event = Head(pending).event /\ w.stream = Head(pending).stream
            /\ w.conn = Head(pending).conn /\ w.kind = "list"
            /\ Elements(w.replay) \subseteq Elements(store[w.stream])
            /\ Head(pending).kind = "relookup"
        BY <4>1, <4>2, <3>3 DEF ReplayLists, Answered
      <4> QED BY <2>1, <4>3 DEF Fits, Replaying
    <3> QED BY <1>10, <3>1, <3>2, <3>3
  <2>3. \A s \in Stream : Elements(received[s]) \subseteq Elements(store[s])
    BY DEF Kept
  <2> QED BY <2>1, <2>2, <2>3, ReadingKeeps
<1>11. CASE ReplayFinishes
  <2>1. /\ Elements(pending') \subseteq Elements(pending) /\ UNCHANGED <<store, sent>>
        /\ Head(pending).conn \in Conn /\ Head(pending).stream \in Stream
        /\ Head(pending).replay \in Seq(Event)
        /\ Elements(Head(pending).replay) \subseteq Elements(store[Head(pending).stream])
    BY <1>11, OldestWaits, ReplayWaits, PopsShrinks DEF ReplayFinishes, Answered, Fits, Replaying
  <2>2. \A n \in 0..Len(Head(pending).replay) - 1 :
           /\ SubSeq(Head(pending).replay, 1, n) \in Seq(Event)
           /\ Elements(SubSeq(Head(pending).replay, 1, n)) \subseteq Elements(Head(pending).replay)
    BY <2>1, SubSeqHolds
  <2>3. PICK events \in Seq(Event) :
           /\ Elements(events) \subseteq Elements(store[Head(pending).stream])
           /\ received' = Written(Head(pending).conn, Head(pending).stream, events)
    BY <1>11, <2>1, <2>2 DEF ReplayFinishes
  <2> QED BY <2>1, <2>3, WrittenIsStored, ReadingKeeps
<1>12. CASE ValkeyReplies \/ ValkeyRejects
  BY <1>6, <1>7, <1>8, <1>9, <1>10, <1>11, <1>12 DEF ValkeyReplies, ValkeyRejects
<1>13. ASSUME NEW r \in Request, HandlerSends(r) \/ HandlerAborted(r) PROVE Kept'
  BY <1>4, <1>5, <1>13
  DEF HandlerSends, HandlerAborted, SendUnconnected, SendRejected, Handles, history
<1>14. CASE \/ \E c \in Conn : Drop(c) \/ Cancel(c) \/ GetArrives(c)
            \/ \E s \in Stream : CloseStream(s)
            \/ Close \/ UNCHANGED vars
  BY <1>5, <1>14 DEF Drop, Cancel, GetArrives, CloseStream, Close, vars, history
<1> QED BY <1>1, <1>2, <1>3, <1>12, <1>13, <1>14 DEF Next, TransportStep, RequestArrives

-----------------------------------------------------------------------------
(* Batches *)

\* A request that is mapped is mapped to the POST of its batch.
LEMMA MappedToItsPost ==
  ASSUME Batches, NEW p \in Post, NEW r \in Batch[p], r \in DOMAIN streamOf
  PROVE  streamOf[r] = p /\ Batch[p] \subseteq DOMAIN streamOf
BY EventNames DEF Batches

\* Batches stay whole when only what is sent, stored or lost grows.
LEMMA BatchesGrow ==
  ASSUME Batches, UNCHANGED streamOf, sent \subseteq sent', lost \subseteq lost',
         answers' \subseteq answers \cup lost', answers' \subseteq sent',
         \A p \in Post : /\ Elements(store[p]) \subseteq Elements(store'[p])
                         /\ \/ store'[p] = store[p]
                            \/ Batch[p] \subseteq DOMAIN streamOf
  PROVE  Batches'
BY DEF Batches

LEMMA BatchesStay ==
  ASSUME TypeOK, Kept, Batches, [Next]_vars
  PROVE  Batches'
<1>1. ASSUME NEW c \in Conn, NEW p \in Post, PostArrives(p, c) PROVE Batches'
  <2>1. /\ DOMAIN streamOf' = DOMAIN streamOf \cup Batch[p]
        /\ \A r \in DOMAIN streamOf' :
              streamOf'[r] = IF r \in Batch[p] THEN p ELSE streamOf[r]
        /\ UNCHANGED <<answers, sent, lost>>
        /\ \A q \in Post \ {p} : store'[q] = store[q]
        /\ Elements(store[p]) \subseteq Elements(store'[p])
    <3>1. store'[p] = store[p] \/ Stores(p, Prime)
      BY <1>1 DEF PostArrives
    <3>2. Stores(p, Prime) => Elements(store'[p]) = Elements(store[p]) \cup {Prime}
      BY EventNames, StoresAdds DEF TypeOK
    <3>3. \A q \in Post \ {p} : store'[q] = store[q]
      BY <1>1, EventNames DEF PostArrives, Stores, TypeOK
    <3> QED BY <1>1, <3>1, <3>2, <3>3 DEF PostArrives, history
  <2>2. \A r \in DOMAIN streamOf' : streamOf'[r] \in Post /\ r \in Batch[streamOf'[r]]
    BY <2>1 DEF Batches
  <2>3. ASSUME NEW q \in Post
        PROVE  /\ Batch[q] \subseteq DOMAIN streamOf' \/ Batch[q] \cap DOMAIN streamOf' = {}
               /\ answers' \cap Batch[q] \subseteq Elements(store'[q]) \cup lost'
               /\ Elements(store'[q]) # {} =>
                     \/ Batch[q] \subseteq DOMAIN streamOf'
                     \/ Batch[q] \subseteq Elements(store'[q]) \cup lost'
    <3>1. CASE q = p
      BY <2>1, <3>1 DEF Batches
    <3>2. CASE q # p
      <4>1. Batch[q] \cap Batch[p] = {}
        BY <3>2, EventNames
      <4>2. store'[q] = store[q]
        BY <2>1, <3>2
      <4> QED BY <2>1, <4>1, <4>2 DEF Batches
    <3> QED BY <3>1, <3>2
  <2>4. answers' \subseteq sent'
    BY <2>1 DEF Batches
  <2> QED BY <2>2, <2>3, <2>4 DEF Batches
<1>2. ASSUME NEW n \in Note, SendStandalone(n) PROVE Batches'
  <2>1. \A p \in Post : store'[p] = store[p]
    BY <1>2, EventNames DEF SendStandalone, Stores, TypeOK
  <2> QED BY <1>2, <2>1, BatchesGrow DEF SendStandalone, transport, Batches
<1>3. ASSUME NEW r \in Request, NEW e \in Event, SendRelated(r, e) PROVE Batches'
  <2>1. /\ streamOf[r] \in Post /\ r \in Batch[streamOf[r]]
        /\ Stores(streamOf[r], e) /\ UNCHANGED <<answers, streamOf, lost>>
        /\ sent' = sent \cup {e} /\ Batch[streamOf[r]] \subseteq DOMAIN streamOf
    BY <1>3 DEF SendRelated, Handles, Batches
  <2>2. /\ \A p \in Post \ {streamOf[r]} : store'[p] = store[p]
        /\ Elements(store[streamOf[r]]) \subseteq Elements(store'[streamOf[r]])
    BY <2>1, EventNames, StoresAdds DEF TypeOK
  <2> QED BY <2>1, <2>2, BatchesGrow DEF Batches
<1>4. ASSUME NEW r \in Request, NEW e \in Event, SendUnconnected(r, e) PROVE Batches'
  BY <1>4, BatchesGrow DEF SendUnconnected, Handles, Batches
<1>5. ASSUME UNCHANGED <<streamOf, store>>, answers' \subseteq answers, sent \subseteq sent',
             lost \subseteq lost'
      PROVE  Batches'
  BY <1>5, BatchesGrow DEF Batches
<1>6. CASE RelatedStored
  <2> DEFINE p == Head(pending).stream
             r == Head(pending).event
  <2>1. UNCHANGED <<store, sent, lost>>
    BY <1>6 DEF RelatedStored, history
  <2>2. CASE UNCHANGED <<answers, streamOf>>
    BY <1>5, <2>1, <2>2
  <2>3. CASE r \in Request /\ ~UNCHANGED <<answers, streamOf>>
    <3>1. p \in Post /\ r \in Batch[p] /\ r \in Elements(store[p])
      BY <1>6, <2>3, OldestWaits DEF RelatedStored, Answered, Fits
    <3>2. r \in sent
      BY <2>3, <3>1, EventNames DEF Kept
    <3> HIDE DEF p, r
    <3>3. \A q \in Post \ {p} : r \notin Batch[q]
      BY <3>1, EventNames
    <3>4. CASE answers' = answers \cup {r} /\ UNCHANGED streamOf
      <4>1. \A q \in Post : answers' \cap Batch[q] \subseteq Elements(store[q]) \cup lost
        BY <3>1, <3>3, <3>4 DEF Batches
      <4> QED BY <2>1, <3>2, <3>4, <4>1 DEF Batches
    <3>5. CASE AllReady(p, r) /\ Forget(p, r)
      <4>1. /\ DOMAIN streamOf' = {q \in DOMAIN streamOf : streamOf[q] # p}
            /\ \A q \in DOMAIN streamOf' : streamOf'[q] = streamOf[q]
            /\ answers' \subseteq answers \cup {r}
        BY <3>5 DEF Forget
      <4>2. Batch[p] \cap DOMAIN streamOf' = {}
        BY <3>1, <4>1, MappedToItsPost
      <4>3. Batch[p] \subseteq Elements(store[p]) \cup lost
        <5>1. CASE Batch[p] \subseteq DOMAIN streamOf
          <6>1. Batch[p] \subseteq answers \cup {r}
            BY <3>1, <3>5, <5>1, MappedToItsPost DEF AllReady
          <6> QED BY <3>1, <6>1 DEF Batches
        <5>2. CASE ~(Batch[p] \subseteq DOMAIN streamOf)
          BY <3>1, <5>2 DEF Batches
        <5> QED BY <5>1, <5>2
      <4>4. \A q \in Post \ {p} : Batch[q] \cap DOMAIN streamOf' = Batch[q] \cap DOMAIN streamOf
        BY <4>1, MappedToItsPost
      <4>5. \A q \in Post : answers' \cap Batch[q] \subseteq Elements(store[q]) \cup lost
        BY <3>1, <3>3, <4>1 DEF Batches
      <4>6. \A q \in DOMAIN streamOf' : streamOf'[q] \in Post /\ q \in Batch[streamOf'[q]]
        BY <4>1 DEF Batches
      <4>7. ASSUME NEW q \in Post
            PROVE  /\ Batch[q] \subseteq DOMAIN streamOf' \/ Batch[q] \cap DOMAIN streamOf' = {}
                   /\ Elements(store[q]) # {} =>
                         \/ Batch[q] \subseteq DOMAIN streamOf'
                         \/ Batch[q] \subseteq Elements(store[q]) \cup lost
        BY <4>2, <4>3, <4>4 DEF Batches
      <4>8. answers' \subseteq sent
        BY <3>2, <4>1 DEF Batches
      <4> QED BY <2>1, <4>5, <4>6, <4>7, <4>8 DEF Batches
    <3> QED BY <1>6, <2>3, <3>4, <3>5 DEF RelatedStored, p, r
  <2> QED BY <1>6, <2>2, <2>3 DEF RelatedStored
<1>7. CASE ValkeyReplies \/ ValkeyRejects
  BY <1>5, <1>6, <1>7
  DEF ValkeyReplies, ValkeyRejects, PrimeStored, StandaloneStored, ResumeConflicts,
      ResumeAccepted, ReplayLists, ReplayFetches, ReplayFinishes, PrimeRejected, StoreReplyLost,
      ReplayRejected, transport, history
<1>8. ASSUME NEW r \in Request, HandlerSends(r) \/ HandlerAborted(r) PROVE Batches'
  BY <1>3, <1>4, <1>5, <1>8
  DEF HandlerSends, HandlerAborted, SendRejected, Handles, history
<1>9. CASE \/ \E c \in Conn : \/ Drop(c) \/ Cancel(c) \/ GetArrives(c)
                              \/ \E s \in Stream : ResumeArrives(c, s)
           \/ \E s \in Stream : CloseStream(s)
           \/ Close \/ UNCHANGED vars
  BY <1>5, <1>9
  DEF Drop, Cancel, GetArrives, ResumeArrives, CloseStream, Close, vars, transport, history
<1> QED BY <1>1, <1>2, <1>7, <1>8, <1>9 DEF Next, TransportStep, RequestArrives

-----------------------------------------------------------------------------
(* The first response of a stream *)

\* Responses are as before, or no longer the first of their stream.
Ages ==
    \A c \in Conn :
        /\ conn'[c].kind \in {"post", "get"} =>
              /\ conn'[c].kind = conn[c].kind /\ conn'[c].stream = conn[c].stream
              /\ conn'[c].open => conn[c].open
        /\ conn'[c].open => conn'[c].kind # "unused"

LEMMA AgingKeepsFirst ==
  ASSUME FirstIsMapped, Ages,
         \A c \in Conn : First(c) /\ First(c)' => mapping'[conn[c].stream] = c,
         \A w \in Elements(pending') \ Elements(pending), c \in Conn :
            First(c) /\ First(c)' /\ w.stream = conn[c].stream =>
                /\ w.kind = "related" => w.conn = c
                /\ w.kind \notin {"relookup", "list", "fetch"}
  PROVE  FirstIsMapped'
BY DEF FirstIsMapped, Ages, First

LEMMA SameResponses == FirstIsMapped /\ UNCHANGED conn => Ages
BY DEF Ages, FirstIsMapped

LEMMA EndedAges ==
  ASSUME TypeOK, FirstIsMapped, NEW c \in Conn, conn' = [conn EXCEPT ![c] = Unused]
  PROVE  Ages /\ ~First(c)'
BY NoneOpen DEF Ages, FirstIsMapped, TypeOK, First

LEMMA UnheardAges ==
  ASSUME TypeOK, FirstIsMapped, NEW c \in Conn, conn' = [conn EXCEPT ![c].heard = FALSE]
  PROVE  Ages
<1>1. conn[c] \in Response
  BY DEF TypeOK
<1>2. conn'[c].kind = conn[c].kind /\ conn'[c].stream = conn[c].stream
      /\ conn'[c].open = conn[c].open
  BY <1>1 DEF Response, TypeOK
<1>3. \A d \in Conn \ {c} : conn'[d] = conn[d]
  BY DEF TypeOK
<1> QED BY <1>2, <1>3 DEF Ages, FirstIsMapped

LEMMA FirstStays ==
  ASSUME TypeOK, Kept, Batches, FirstIsMapped, [Next]_vars
  PROVE  FirstIsMapped'
<1> USE EventNames
<1>1. ASSUME NEW c \in Conn, NEW p \in Post, PostArrives(p, c) PROVE FirstIsMapped'
  <2>1. /\ store[p] = <<>> /\ mapping[p] = NoConn /\ conn[c] = Unused
        /\ mapping' = [mapping EXCEPT ![p] = c]
        /\ conn' = [conn EXCEPT ![c] = Opened("post", p)]
    BY <1>1 DEF PostArrives, Free
  <2>2. \A w \in Elements(pending') \ Elements(pending) : w.kind = "prime"
    <3>1. CASE UNCHANGED pending
      BY <3>1
    <3>2. CASE Sends(Command("prime", c, p, Prime))
      <4>1. Command("prime", c, p, Prime) \in Waiting
        BY CommandWaits DEF Single
      <4> QED BY <3>2, <4>1, SendsAdds DEF TypeOK, Command
    <3> QED BY <1>1, <3>1, <3>2 DEF PostArrives
  <2>3. \A w \in Elements(pending) : w.stream # p
    <3>1. Elements(store[p]) = {}
      BY <2>1, EmptyHoldsNone DEF TypeOK
    <3> QED BY <3>1 DEF Kept, Fits
  <2>4. /\ conn'[c].kind = "post" /\ conn'[c].stream = p /\ conn'[c].open
        /\ \A d \in Conn \ {c} : conn'[d] = conn[d]
    BY <2>1, OpenedIsResponse DEF TypeOK
  <2>5. ASSUME NEW d \in Conn \ {c}, First(d)
        PROVE  conn[d].stream # p /\ mapping'[conn[d].stream] = d
    <3>1. conn[d].stream \in Stream
      BY DEF TypeOK, Response
    <3> QED BY <2>1, <2>5, <3>1 DEF FirstIsMapped, TypeOK
  <2>6. mapping'[p] = c
    BY <2>1 DEF TypeOK
  <2> QED BY <2>2, <2>3, <2>4, <2>5, <2>6 DEF FirstIsMapped, First
<1>2. ASSUME NEW c \in Conn, GetArrives(c) PROVE FirstIsMapped'
  <2>1. /\ received[GetStream] = <<>> /\ mapping[GetStream] = NoConn
        /\ mapping' = [mapping EXCEPT ![GetStream] = c]
        /\ conn' = [conn EXCEPT ![c] = Opened("get", GetStream)] /\ UNCHANGED pending
    BY <1>2 DEF GetArrives
  <2>2. \A w \in Elements(pending) : w.stream = GetStream =>
           w.kind \notin {"related", "relookup", "list", "fetch"}
    <3>1. Elements(received[GetStream]) = {}
      BY <2>1, EmptyHoldsNone DEF TypeOK
    <3> QED BY <3>1 DEF Kept, Fits, Replaying
  <2>3. /\ conn'[c].kind = "get" /\ conn'[c].stream = GetStream /\ conn'[c].open
        /\ \A d \in Conn \ {c} : conn'[d] = conn[d]
    BY <2>1, OpenedIsResponse DEF TypeOK
  <2>4. ASSUME NEW d \in Conn \ {c}, First(d)
        PROVE  conn[d].stream # GetStream /\ mapping'[conn[d].stream] = d
    <3>1. conn[d].stream \in Stream
      BY DEF TypeOK, Response
    <3> QED BY <2>1, <2>4, <3>1 DEF FirstIsMapped, TypeOK
  <2>5. mapping'[GetStream] = c
    BY <2>1 DEF TypeOK
  <2> QED BY <2>1, <2>2, <2>3, <2>4, <2>5 DEF FirstIsMapped, First
<1>3. ASSUME NEW c \in Conn, NEW s \in Stream, ResumeArrives(c, s) PROVE FirstIsMapped'
  <2>1. LastId(s) \in Event
    BY <1>3, LastIdHolds DEF ResumeArrives, Interrupted, TypeOK
  <2>2. Command("lookup", c, s, LastId(s)) \in Waiting
    BY <2>1, CommandWaits DEF Single
  <2>3. \A w \in Elements(pending') \ Elements(pending) : w.kind = "lookup"
    BY <1>3, <2>2, SendsAdds DEF ResumeArrives, TypeOK, Command
  <2>4. Opened("replay", s).kind = "replay"
    BY OpenedIsResponse
  <2>5. Ages /\ UNCHANGED mapping
    BY <1>3, <2>4 DEF ResumeArrives, Ages, FirstIsMapped, TypeOK, transport
  <2> QED BY <2>3, <2>5, AgingKeepsFirst DEF FirstIsMapped
<1>4. ASSUME NEW n \in Note, SendStandalone(n) PROVE FirstIsMapped'
  <2>1. Command("standalone", NoConn, GetStream, n) \in Waiting
    BY CommandWaits DEF Single
  <2>2. \A w \in Elements(pending') \ Elements(pending) : w.kind = "standalone"
    BY <1>4, <2>1, SendsAdds DEF SendStandalone, TypeOK, Command
  <2> QED BY <1>4, <2>2, SameResponses, AgingKeepsFirst
          DEF SendStandalone, transport, FirstIsMapped
<1>5. ASSUME NEW r \in Request, NEW e \in Event, SendRelated(r, e) PROVE FirstIsMapped'
  <2>1. streamOf[r] \in Stream /\ mapping[streamOf[r]] \in Conn
    BY <1>5 DEF SendRelated, Batches, TypeOK
  <2>2. Command("related", mapping[streamOf[r]], streamOf[r], e) \in Waiting
    BY <2>1, CommandWaits DEF Single
  <2>3. \A w \in Elements(pending') \ Elements(pending) :
           w.kind = "related" /\ w.stream = streamOf[r] /\ w.conn = mapping[streamOf[r]]
    BY <1>5, <2>2, SendsAdds DEF SendRelated, TypeOK, Command
  <2> QED BY <1>5, <2>3, SameResponses, AgingKeepsFirst DEF SendRelated, FirstIsMapped
<1>6. ASSUME UNCHANGED <<conn, mapping>>, Elements(pending') \subseteq Elements(pending)
      PROVE  FirstIsMapped'
  BY <1>6, SameResponses, AgingKeepsFirst DEF FirstIsMapped
<1>7. ASSUME NEW c \in Conn, Drop(c) PROVE FirstIsMapped'
  BY <1>7, UnheardAges, AgingKeepsFirst DEF Drop, transport, FirstIsMapped
<1>8. ASSUME NEW c \in Conn, Cancel(c) PROVE FirstIsMapped'
  <2>1. Ages /\ ~First(c)' /\ UNCHANGED pending
    BY <1>8, EndedAges DEF Cancel
  <2>2. ASSUME NEW d \in Conn, First(d), First(d)' PROVE mapping'[conn[d].stream] = d
    <3>1. d # c /\ mapping[conn[d].stream] = d
      BY <2>1, <2>2 DEF FirstIsMapped
    <3>2. CASE conn[c].kind = "replay"
      BY <1>8, <3>1, <3>2 DEF Cancel
    <3>3. CASE conn[c].kind # "replay"
      <4>1. conn[c].kind \in {"post", "get"} /\ conn[c].open
        BY <1>8, <3>3 DEF Cancel, FirstIsMapped, TypeOK, Response
      <4>2. mapping[conn[c].stream] = c
        BY <4>1 DEF FirstIsMapped, First
      <4>3. mapping' = [mapping EXCEPT ![conn[c].stream] = NoConn]
        BY <1>8, <3>3 DEF Cancel
      <4>4. conn[d].stream \in Stream
        BY DEF TypeOK, Response
      <4> QED BY <3>1, <4>2, <4>3, <4>4 DEF TypeOK
    <3> QED BY <3>2, <3>3
  <2> QED BY <2>1, <2>2, AgingKeepsFirst
<1>9. ASSUME NEW s \in Stream, NEW c \in Conn, Cleanup(c, s),
             Elements(pending') \subseteq Elements(pending),
             \A d \in Conn : First(d) /\ conn[d].stream = s => d = c
      PROVE  FirstIsMapped'
  <2>1. Ages /\ ~First(c)'
    BY <1>9, EndedAges DEF Cleanup
  <2>2. ASSUME NEW d \in Conn, First(d), First(d)' PROVE mapping'[conn[d].stream] = d
    <3>1. mapping[conn[d].stream] = d /\ conn[d].stream # s
      BY <1>9, <2>1, <2>2 DEF FirstIsMapped
    <3>2. conn[d].stream \in Stream
      BY DEF TypeOK, Response
    <3> QED BY <1>9, <3>1, <3>2 DEF Cleanup, TypeOK
  <2> QED BY <1>9, <2>1, <2>2, AgingKeepsFirst
<1>10. CASE Close
  <2>1. \A c \in Conn : ~First(c)'
    BY <1>10, NoneOpen DEF Close, First, FirstIsMapped, TypeOK, Response
  <2>2. Ages
    BY <1>10, <2>1, NoneOpen DEF Close, Ages, FirstIsMapped, First
  <2> QED BY <1>10, <2>1, <2>2, AgingKeepsFirst DEF Close
<1>11. ASSUME NEW s \in Stream, CloseStream(s) PROVE FirstIsMapped'
  <2>1. mapping[s] \in Conn /\ Cleanup(mapping[s], s) /\ UNCHANGED pending
    BY <1>11 DEF CloseStream, TypeOK
  <2>2. \A d \in Conn : First(d) /\ conn[d].stream = s => d = mapping[s]
    BY DEF FirstIsMapped
  <2> QED BY <1>9, <2>1, <2>2
<1>12. CASE PrimeStored \/ StandaloneStored \/ StoreReplyLost
  <2>1. Elements(pending') \subseteq Elements(pending) /\ UNCHANGED <<conn, mapping>>
    BY <1>12, PopsShrinks DEF PrimeStored, StandaloneStored, StoreReplyLost, Answered, transport
  <2> QED BY <1>6, <2>1
<1>13. CASE PrimeRejected
  <2>1. Elements(pending') \subseteq Elements(pending) /\ Head(pending).conn \in Conn
    BY <1>13, PopsShrinks, OldestWaits DEF PrimeRejected, Answered, Fits
  <2>2. \A c \in Conn : conn[c] \in Response
    BY DEF TypeOK
  <2>3. /\ conn'[Head(pending).conn].kind = "discarded"
        /\ \A c \in Conn \ {Head(pending).conn} : conn'[c] = conn[c]
    BY <1>13, <2>1, <2>2 DEF PrimeRejected, Response, TypeOK
  <2>4. Ages /\ UNCHANGED mapping
    BY <1>13, <2>3 DEF Ages, FirstIsMapped, PrimeRejected, transport
  <2> QED BY <2>1, <2>4, AgingKeepsFirst DEF FirstIsMapped
<1>14. CASE RelatedStored
  <2>1. /\ Elements(pending') \subseteq Elements(pending)
        /\ Head(pending) \in Elements(pending)
        /\ Head(pending).stream \in Stream /\ Head(pending).conn \in Conn
        /\ Head(pending).kind = "related"
    BY <1>14, PopsShrinks, OldestWaits DEF RelatedStored, Answered, Fits
  <2>2. \A d \in Conn : First(d) /\ conn[d].stream = Head(pending).stream => d = Head(pending).conn
    BY <2>1 DEF FirstIsMapped
  <2>3. CASE UNCHANGED <<conn, mapping>>
    BY <1>6, <2>1, <2>3
  <2>4. CASE Cleanup(Head(pending).conn, Head(pending).stream)
    BY <1>9, <2>1, <2>2, <2>4
  <2> QED BY <1>14, <2>3, <2>4 DEF RelatedStored
<1>15. CASE ResumeConflicts \/ ReplayRejected
  <2>1. /\ Elements(pending') \subseteq Elements(pending) /\ Head(pending).conn \in Conn
        /\ UNCHANGED mapping
    BY <1>15, PopsShrinks, OldestWaits
    DEF ResumeConflicts, ReplayRejected, Answered, Fits, transport
  <2>2. Ages
    BY <1>15, <2>1, EndedAges DEF ResumeConflicts, ReplayRejected
  <2> QED BY <2>1, <2>2, AgingKeepsFirst DEF FirstIsMapped
<1>16. CASE ResumeAccepted \/ ReplayFetches \/ ReplayLists
  <2>1. /\ UNCHANGED <<conn, mapping>> /\ pending # <<>>
        /\ Head(pending) \in Elements(pending) /\ Head(pending).kind \in Replaying
    BY <1>16, OldestWaits
    DEF ResumeAccepted, ReplayFetches, ReplayLists, Answered, transport, Replaying
  <2>2. \A w \in Elements(pending') \ Elements(pending) :
           w.stream = Head(pending).stream /\ w.kind # "related"
    <3>1. CASE ResumeAccepted
      <4>1. \A w \in Elements(pending') \ Elements(pending) :
               w = [Head(pending) EXCEPT !.kind = "relookup"]
        BY <3>1, <2>1, ReplayWaits, RequeueTypes DEF ResumeAccepted, Answered
      <4> QED BY <4>1, <2>1, <3>1, OldestWaits DEF Waiting, Single, ResumeAccepted, Answered
    <3>2. CASE ReplayFetches
      <4>1. \A w \in Elements(pending') \ Elements(pending) :
               w = [Head(pending) EXCEPT !.kind = "fetch"]
        BY <3>2, <2>1, ReplayWaits, RequeueTypes DEF ReplayFetches, Answered
      <4> QED BY <4>1, <2>1, <3>2, OldestWaits DEF Waiting, Single, ReplayFetches, Answered
    <3>3. CASE ReplayLists
      <4>1. After(Head(pending).event, Head(pending).stream) \in Seq(Event)
        BY <2>1, OldestWaits, AfterHolds DEF Fits, TypeOK
      <4>2. \A w \in Elements(pending') \ Elements(pending) :
               w = [kind |-> "list", conn |-> Head(pending).conn,
                    stream |-> Head(pending).stream, event |-> Head(pending).event,
                    replay |-> After(Head(pending).event, Head(pending).stream)]
        BY <3>3, <2>1, <4>1, ReplayWaits, RequeueTypes DEF ReplayLists, Answered
      <4> QED BY <4>2
    <3> QED BY <1>16, <3>1, <3>2, <3>3
  <2>3. \A c \in Conn : First(c) => conn[c].stream # Head(pending).stream
    BY <1>16, <2>1 DEF FirstIsMapped, ResumeAccepted, ReplayFetches, ReplayLists, Answered
  <2> QED BY <2>1, <2>2, <2>3, SameResponses, AgingKeepsFirst DEF FirstIsMapped
<1>17. CASE ReplayFinishes
  <2>1. /\ Elements(pending') \subseteq Elements(pending)
        /\ Head(pending) \in Elements(pending) /\ Head(pending).kind \in {"list", "fetch"}
        /\ Head(pending).conn \in Conn /\ Head(pending).stream \in Stream
        /\ mapping' = [mapping EXCEPT ![Head(pending).stream] = Head(pending).conn]
    BY <1>17, PopsShrinks, OldestWaits DEF ReplayFinishes, Answered, Fits
  <2>2. \A c \in Conn : First(c) => conn[c].stream # Head(pending).stream
    BY <2>1 DEF FirstIsMapped
  <2>3. Ages
    BY <1>17, <2>1, SameResponses, UnheardAges DEF ReplayFinishes
  <2>4. \A c \in Conn : conn[c].stream \in Stream
    BY DEF TypeOK, Response
  <2>5. \A c \in Conn : First(c) => mapping'[conn[c].stream] = c
    BY <2>1, <2>2, <2>4 DEF FirstIsMapped, TypeOK
  <2> QED BY <2>1, <2>3, <2>5, AgingKeepsFirst
<1>18. CASE ValkeyReplies \/ ValkeyRejects
  BY <1>12, <1>13, <1>14, <1>15, <1>16, <1>17, <1>18 DEF ValkeyReplies, ValkeyRejects
<1>19. ASSUME NEW r \in Request, HandlerSends(r) \/ HandlerAborted(r) PROVE FirstIsMapped'
  BY <1>5, <1>6, <1>19 DEF HandlerSends, HandlerAborted, SendUnconnected, SendRejected
<1>20. CASE UNCHANGED vars
  BY <1>6, <1>20 DEF vars, transport
<1> QED BY <1>1, <1>2, <1>3, <1>4, <1>7, <1>8, <1>10, <1>11, <1>18, <1>19, <1>20
        DEF Next, TransportStep, RequestArrives

-----------------------------------------------------------------------------
(* What an open response of a POST still waits for *)

LEMMA OpenAwaitsBy ==
  ASSUME OpenAwaits, FirstIsMapped,
         \A c \in Conn : conn'[c].open /\ conn'[c].kind = "post" =>
            /\ conn[c].open /\ conn[c].kind = "post" /\ conn'[c].stream = conn[c].stream
            /\ Batch[conn[c].stream] \cap Elements(received'[conn[c].stream])
                  \subseteq Batch[conn[c].stream] \cap Elements(received[conn[c].stream])
            /\ answers' \cap Batch[conn[c].stream] = answers \cap Batch[conn[c].stream]
  PROVE  OpenAwaits'
BY DEF OpenAwaits

\* What is written to a response is new to its stream only.
LEMMA WritesOnly ==
  ASSUME received \in [Stream -> Seq(Event)], NEW c \in Conn, NEW s \in Stream,
         NEW events \in Seq(Event), received' = Written(c, s, events)
  PROVE  /\ \A t \in Stream \ {s} : received'[t] = received[t]
         /\ Elements(received'[s]) \subseteq Elements(received[s]) \cup Elements(events)
<1>1. received[s] \o events \in Seq(Event)
      /\ Elements(received[s] \o events) = Elements(received[s]) \cup Elements(events)
  BY ConcatHolds
<1> QED BY <1>1 DEF Written

LEMMA OneWritten ==
  ASSUME received \in [Stream -> Seq(Event)], NEW c \in Conn, NEW s \in Stream,
         NEW e \in Event, received' = Written(c, s, <<e>>)
  PROVE  /\ \A t \in Stream \ {s} : received'[t] = received[t]
         /\ Elements(received'[s]) \subseteq Elements(received[s]) \cup {e}
<1> DEFINE events == <<e>>
<1>1. events \in Seq(Event) /\ Elements(events) = {e} /\ received' = Written(c, s, events)
  BY OneEvent
<1> HIDE DEF events
<1> QED BY <1>1, WritesOnly

LEMMA OpenAwaitsStays ==
  ASSUME StreamInv, [Next]_vars
  PROVE  OpenAwaits'
<1> USE EventNames
<1>0. /\ TypeOK /\ Kept /\ Batches /\ FirstIsMapped /\ OpenAwaits
      /\ received \in [Stream -> Seq(Event)]
      /\ \A c \in Conn : conn[c].stream \in Stream
  BY DEF StreamInv, TypeOK, Response
<1>1. ASSUME NEW c \in Conn, NEW p \in Post, PostArrives(p, c) PROVE OpenAwaits'
  <2>1. /\ store[p] = <<>> /\ conn' = [conn EXCEPT ![c] = Opened("post", p)]
        /\ Batch[p] \cap sent = {} /\ UNCHANGED <<answers, received>>
    BY <1>1 DEF PostArrives
  <2>2. Elements(received[p]) = {} /\ Batch[p] \cap answers = {}
    <3>1. Elements(store[p]) = {}
      BY <1>0, <2>1, EmptyHoldsNone DEF TypeOK
    <3> QED BY <1>0, <2>1, <3>1 DEF Kept, Batches
  <2>3. /\ conn'[c].stream = p
        /\ \A d \in Conn \ {c} : conn'[d] = conn[d]
    BY <1>0, <2>1, OpenedIsResponse DEF TypeOK
  <2>4. ASSUME NEW d \in Conn, conn'[d].open, conn'[d].kind = "post"
        PROVE  /\ Batch[conn'[d].stream] \cap Elements(received[conn'[d].stream]) \subseteq answers
               /\ ~(Batch[conn'[d].stream] \subseteq answers)
    <3>1. CASE d = c
      BY <2>2, <2>3, <3>1
    <3>2. CASE d # c
      BY <1>0, <2>3, <2>4, <3>2 DEF OpenAwaits
    <3> QED BY <3>1, <3>2
  <2> QED BY <2>1, <2>4 DEF OpenAwaits
<1>2. ASSUME UNCHANGED <<received, answers>>, Ages PROVE OpenAwaits'
  BY <1>0, <1>2, OpenAwaitsBy DEF Ages
<1>3. ASSUME NEW c \in Conn, GetArrives(c) \/ \E s \in Stream : ResumeArrives(c, s)
      PROVE  OpenAwaits'
  <2>1. conn'[c].kind # "post" /\ \A d \in Conn \ {c} : conn'[d] = conn[d]
    BY <1>0, <1>3, OpenedIsResponse DEF GetArrives, ResumeArrives, TypeOK
  <2> QED BY <1>0, <1>3, <2>1, OpenAwaitsBy DEF GetArrives, ResumeArrives, transport
<1>4. ASSUME NEW r \in Request, NEW e \in Event, SendUnconnected(r, e) PROVE OpenAwaits'
  <2>1. /\ streamOf[r] \in Post /\ r \in Batch[streamOf[r]] /\ mapping[streamOf[r]] = NoConn
        /\ answers' \subseteq answers \cup {r} /\ answers \subseteq answers'
        /\ UNCHANGED <<received, conn>>
    BY <1>0, <1>4 DEF SendUnconnected, Handles, RequestOf, Batches
  <2>2. ASSUME NEW c \in Conn, conn[c].open, conn[c].kind = "post"
        PROVE  r \notin Batch[conn[c].stream]
    <3>1. conn[c].stream \in Post /\ mapping[conn[c].stream] = c
      BY <1>0, <2>2 DEF FirstIsMapped, First
    <3>2. conn[c].stream # streamOf[r]
      BY <2>1, <3>1
    <3> QED BY <2>1, <3>1, <3>2
  <2> QED BY <1>0, <2>1, <2>2, OpenAwaitsBy
<1>5. CASE PrimeStored
  <2>1. /\ Head(pending).stream \in Stream /\ Head(pending).conn \in Conn
        /\ received' = Written(Head(pending).conn, Head(pending).stream, <<Prime>>)
        /\ UNCHANGED <<answers, conn>>
    BY <1>0, <1>5, OldestWaits DEF PrimeStored, Answered, Fits
  <2>3. /\ \A t \in Stream \ {Head(pending).stream} : received'[t] = received[t]
        /\ Elements(received'[Head(pending).stream])
              \subseteq Elements(received[Head(pending).stream]) \cup {Prime}
    BY <1>0, <2>1, OneWritten
  <2>4. ASSUME NEW c \in Conn, conn[c].kind = "post"
        PROVE  Batch[conn[c].stream] \cap Elements(received'[conn[c].stream])
                  \subseteq Batch[conn[c].stream] \cap Elements(received[conn[c].stream])
    <3>1. conn[c].stream \in Post /\ Prime \notin Batch[conn[c].stream]
      BY <1>0, <2>4 DEF FirstIsMapped
    <3>2. Elements(received'[conn[c].stream])
             \subseteq Elements(received[conn[c].stream]) \cup {Prime}
      BY <2>3, <3>1
    <3> QED BY <3>1, <3>2
  <2> QED BY <1>0, <2>1, <2>4, OpenAwaitsBy
<1>6. CASE StandaloneStored
  <2>1. Head(pending).event \in Event /\ UNCHANGED <<answers, conn>>
    BY <1>0, <1>6, OldestWaits DEF StandaloneStored, Answered, transport
  <2>2. \/ UNCHANGED received
        \/ /\ mapping[GetStream] \in Conn
           /\ received' = Written(mapping[GetStream], GetStream, <<Head(pending).event>>)
    BY <1>0, <1>6 DEF StandaloneStored, TypeOK
  <2>3. \A p \in Post : received'[p] = received[p]
    BY <1>0, <2>1, <2>2, OneWritten
  <2> QED BY <1>0, <2>1, <2>3, OpenAwaitsBy DEF FirstIsMapped
<1>7. CASE RelatedStored
  <2> DEFINE p == Head(pending).stream
             r == Head(pending).event
             d == Head(pending).conn
  <2>1. /\ p \in Post /\ d \in Conn /\ r \in Event /\ (r \in Request => r \in Batch[p])
        /\ Head(pending) \in Elements(pending) /\ Head(pending).kind = "related"
        /\ received' = Written(d, p, <<r>>)
    BY <1>0, <1>7, OldestWaits DEF RelatedStored, Answered, Fits
  <2>2. \A c \in Conn : First(c) /\ conn[c].stream = p => c = d
    BY <1>0, <2>1 DEF FirstIsMapped
  <2>3. \/ r \notin Request /\ UNCHANGED <<answers, conn>>
        \/ r \in Request /\ ~AllReady(p, r) /\ answers' = answers \cup {r} /\ UNCHANGED conn
        \/ conn' = [conn EXCEPT ![d] = Unused] /\ Forget(p, r) /\ r \in Request
    BY <1>7 DEF RelatedStored, Cleanup
  <2> HIDE DEF p, r, d
  <2>5. /\ \A t \in Stream \ {p} : received'[t] = received[t]
        /\ Elements(received'[p]) \subseteq Elements(received[p]) \cup {r}
    BY <1>0, <2>1, OneWritten
  <2>6. CASE r \notin Request /\ UNCHANGED <<answers, conn>>
    <3>1. ASSUME NEW c \in Conn, conn[c].kind = "post"
          PROVE  Batch[conn[c].stream] \cap Elements(received'[conn[c].stream])
                    \subseteq Batch[conn[c].stream] \cap Elements(received[conn[c].stream])
      <4>1. conn[c].stream \in Post /\ r \notin Batch[conn[c].stream]
        BY <1>0, <2>6, <3>1 DEF FirstIsMapped
      <4>2. Elements(received'[conn[c].stream])
               \subseteq Elements(received[conn[c].stream]) \cup {r}
        BY <2>5, <4>1
      <4> QED BY <4>1, <4>2
    <3> QED BY <1>0, <2>6, <3>1, OpenAwaitsBy
  <2>7. CASE r \in Request /\ ~AllReady(p, r) /\ answers' = answers \cup {r} /\ UNCHANGED conn
    <3>1. \E q \in Batch[p] : q \notin answers \cup {r}
      BY <1>0, <2>7 DEF AllReady, Batches
    <3>2. ASSUME NEW c \in Conn, conn[c].open, conn[c].kind = "post"
          PROVE  /\ Batch[conn[c].stream] \cap Elements(received'[conn[c].stream])
                       \subseteq answers'
                 /\ ~(Batch[conn[c].stream] \subseteq answers')
      <4>1. conn[c].stream \in Post
        BY <1>0, <3>2 DEF FirstIsMapped
      <4>2. CASE conn[c].stream = p
        BY <1>0, <2>5, <2>7, <3>1, <3>2, <4>2 DEF OpenAwaits
      <4>3. CASE conn[c].stream # p
        <5>1. r \notin Batch[conn[c].stream]
          BY <2>1, <2>7, <4>1, <4>3
        <5>2. received'[conn[c].stream] = received[conn[c].stream]
          BY <2>5, <4>1, <4>3
        <5> QED BY <1>0, <2>7, <3>2, <5>1, <5>2 DEF OpenAwaits
      <4> QED BY <4>2, <4>3
    <3> QED BY <2>7, <3>2 DEF OpenAwaits
  <2>8. CASE conn' = [conn EXCEPT ![d] = Unused] /\ Forget(p, r) /\ r \in Request
    <3>1. ASSUME NEW c \in Conn, conn'[c].open, conn'[c].kind = "post"
          PROVE  conn'[c] = conn[c] /\ conn[c].stream \in Post /\ conn[c].stream # p
      <4>1. c # d /\ conn'[c] = conn[c]
        BY <1>0, <2>1, <2>8, <3>1, NoneOpen DEF TypeOK
      <4> QED BY <1>0, <2>2, <3>1, <4>1 DEF First, FirstIsMapped
    <3>2. ASSUME NEW q \in Post, q # p
          PROVE  answers' \cap Batch[q] = answers \cap Batch[q] /\ received'[q] = received[q]
      <4>1. r \notin Batch[q] /\ \A x \in Batch[q] : x \in DOMAIN streamOf => streamOf[x] # p
        BY <1>0, <2>1, <2>8, <3>2, MappedToItsPost
      <4> QED BY <2>5, <2>8, <3>2, <4>1 DEF Forget
    <3> QED BY <1>0, <3>1, <3>2, OpenAwaitsBy
  <2> QED BY <2>3, <2>6, <2>7, <2>8
<1>8. CASE ReplayFinishes
  <2>1. /\ Head(pending) \in Elements(pending) /\ Head(pending).kind \in {"list", "fetch"}
        /\ Head(pending).conn \in Conn /\ Head(pending).stream \in Stream
        /\ Head(pending).replay \in Seq(Event)
    BY <1>0, <1>8, OldestWaits, ReplayWaits DEF ReplayFinishes, Answered, Fits, Replaying
  <2>2. \A n \in 0..Len(Head(pending).replay) - 1 :
           SubSeq(Head(pending).replay, 1, n) \in Seq(Event)
    BY <2>1, SubSeqHolds
  <2>3. PICK events \in Seq(Event) :
           received' = Written(Head(pending).conn, Head(pending).stream, events)
    BY <1>8, <2>1, <2>2 DEF ReplayFinishes
  <2>4. \A t \in Stream \ {Head(pending).stream} : received'[t] = received[t]
    BY <1>0, <2>1, <2>3, WritesOnly
  <2>5. \A c \in Conn : First(c) => conn[c].stream # Head(pending).stream
    BY <1>0, <2>1 DEF FirstIsMapped
  <2>6. Ages
    BY <1>0, <1>8, <2>1, SameResponses, UnheardAges DEF ReplayFinishes
  <2>7. UNCHANGED answers
    BY <1>8 DEF ReplayFinishes
  <2> QED BY <1>0, <2>4, <2>5, <2>6, <2>7, OpenAwaitsBy DEF Ages, First
<1>9. CASE Close
  <2>1. \A c \in Conn : ~First(c)'
    BY <1>0, <1>9, NoneOpen DEF Close, First, FirstIsMapped
  <2> QED BY <2>1 DEF OpenAwaits, First
<1>10. CASE PrimeRejected
  <2>1. Head(pending).conn \in Conn /\ UNCHANGED <<received, answers>>
    BY <1>0, <1>10, OldestWaits DEF PrimeRejected, Answered, Fits, transport
  <2>2. \A c \in Conn : conn[c] \in Response
    BY <1>0 DEF TypeOK
  <2>3. /\ conn'[Head(pending).conn].kind = "discarded"
        /\ \A c \in Conn \ {Head(pending).conn} : conn'[c] = conn[c]
    BY <1>0, <1>10, <2>1, <2>2 DEF PrimeRejected, Response, TypeOK
  <2> QED BY <1>0, <1>2, <2>1, <2>3 DEF Ages, FirstIsMapped
<1>11. CASE ResumeConflicts \/ ReplayRejected
  <2>1. Head(pending).conn \in Conn /\ UNCHANGED <<received, answers>>
    BY <1>0, <1>11, OldestWaits DEF ResumeConflicts, ReplayRejected, Answered, Fits, transport
  <2> QED BY <1>0, <1>2, <1>11, <2>1, EndedAges DEF ResumeConflicts, ReplayRejected
<1>12. CASE StoreReplyLost \/ ResumeAccepted \/ ReplayFetches \/ ReplayLists \/ UNCHANGED vars
  BY <1>0, <1>2, <1>12, SameResponses
  DEF StoreReplyLost, ResumeAccepted, ReplayFetches, ReplayLists, vars, transport
<1>13. ASSUME NEW r \in Request, HandlerSends(r) \/ HandlerAborted(r) PROVE OpenAwaits'
  BY <1>0, <1>2, <1>4, <1>13, SameResponses
  DEF HandlerSends, HandlerAborted, SendRelated, SendRejected
<1>14. ASSUME NEW c \in Conn, Drop(c) \/ Cancel(c) PROVE OpenAwaits'
  BY <1>0, <1>2, <1>14, UnheardAges, EndedAges DEF Drop, Cancel, transport
<1>15. ASSUME NEW s \in Stream, CloseStream(s) PROVE OpenAwaits'
  <2>1. mapping[s] \in Conn
    BY <1>0, <1>15 DEF CloseStream, TypeOK
  <2> QED BY <1>0, <1>2, <1>15, <2>1, EndedAges DEF CloseStream, Cleanup
<1>16. ASSUME NEW n \in Note, SendStandalone(n) PROVE OpenAwaits'
  BY <1>0, <1>2, <1>16, SameResponses DEF SendStandalone, transport
<1> QED BY <1>1, <1>3, <1>5, <1>6, <1>7, <1>8, <1>9, <1>10, <1>11, <1>12, <1>13, <1>14, <1>15,
           <1>16
        DEF Next, TransportStep, RequestArrives, ValkeyReplies, ValkeyRejects

-----------------------------------------------------------------------------
\* The invariant holds in every reachable state of a transport, with any posts,
\* batches and faults.
THEOREM StreamInvariance == Spec => []StreamInv
<1>1. StreamInv /\ [Next]_vars => StreamInv'
  BY TypesKept, KeptStays, BatchesStay, FirstStays, OpenAwaitsStays DEF StreamInv
<1> QED BY <1>1, StreamStarts, PTL DEF Spec

\* A stream whose requests are forgotten has all answers of its batch, but for
\* those that were lost.
THEOREM EndedIsAnswered == Spec => []EndedStreamsAreAnswered
<1>1. StreamInv => EndedStreamsAreAnswered
  <2> SUFFICES ASSUME StreamInv, NEW p \in Post, store[p] # <<>>,
                      Batch[p] \cap (DOMAIN streamOf \cup running) = {}
               PROVE  Batch[p] \subseteq Elements(store[p]) \cup lost
    BY DEF EndedStreamsAreAnswered
  <2>1. store[p] \in Seq(Event)
    BY EventNames DEF StreamInv, TypeOK
  <2>2. Elements(store[p]) # {}
    BY <2>1, EmptyHoldsNone
  <2> QED BY <2>2, EventNames DEF StreamInv, Batches
<1> QED BY <1>1, StreamInvariance, PTL

\* A client that has the result of its initialize finds its session in the map,
\* until the session is closed or evicted.
THEOREM KnownSessionsRegistered == SessionSpec => []KnownIsRegistered
<1>1. StreamInv => KnownIsRegistered
  <2> SUFFICES ASSUME StreamInv, Batch[Initialize] \subseteq Elements(received[Initialize])
               PROVE  Begun /\ ResponseEnded
    BY DEF KnownIsRegistered, Registered
  <2>1. /\ Batch[Initialize] \subseteq sent /\ Batch[Initialize] # {}
        /\ Initialize \in Post /\ Initialize \in Stream
    BY EventNames, InitializeAssumption DEF StreamInv, Kept
  <2>2. Begun
    BY <2>1 DEF Begun
  <2>3. ResponseEnded
    BY DEF ResponseEnded, StreamInv, OpenAwaits
  <2> QED BY <2>2, <2>3
<1> QED BY <1>1, StreamInvariance, SessionsUseTransport, PTL

-----------------------------------------------------------------------------
(* The order of commands *)

\* What holds of a command and one that was sent after it.
InTurn(v, w) ==
    /\ v.kind \in Replaying \/ w.kind \in Replaying => v.conn # w.conn
    /\ v.kind = "prime" /\ w.kind = "prime" => v.conn # w.conn
    /\ v.kind \in Replaying /\ w.kind \in Replaying => v.stream # w.stream
    /\ v.kind \in {"relookup", "list", "fetch"} /\ w.kind = "related" => v.stream # w.stream

Orderly == \A i, j \in 1..Len(pending) : i < j => InTurn(pending[i], pending[j])

\* Patient clients wait for a replay, whose stream has no response meanwhile.
AtWork(w) ==
    /\ w.kind \in Replaying =>
          /\ Listening(w.conn) /\ conn[w.conn].stream = w.stream
          /\ \A s \in Stream : mapping[s] # w.conn
    /\ w.kind \in {"relookup", "list", "fetch"} => mapping[w.stream] = NoConn
    /\ w.kind = "related" => mapping[w.stream] \in {w.conn, NoConn}
    /\ w.kind = "prime" => conn[w.conn].kind \in {"unused", "post"}

PatientInv == Orderly /\ (\A w \in Elements(pending) : AtWork(w)) /\ ListenersAreMapped

LEMMA PoppedInTurn ==
  ASSUME pending \in Seq(Waiting), pending # <<>>, Orderly, pending' = Tail(pending)
  PROVE  Orderly'
BY DEF Orderly

LEMMA FirstInTurn ==
  ASSUME pending \in Seq(Waiting), pending # <<>>, Orderly,
         NEW w \in Elements(Tail(pending))
  PROVE  InTurn(Head(pending), w)
<1>1. PICK i \in 1..Len(Tail(pending)) : w = Tail(pending)[i]
  BY DEF Elements
<1>2. /\ i + 1 \in 1..Len(pending) /\ w = pending[i + 1] /\ 1 \in 1..Len(pending)
      /\ Head(pending) = pending[1] /\ 1 < i + 1
  BY <1>1
<1> QED BY <1>2 DEF Orderly

LEMMA SentInTurn ==
  ASSUME pending \in Seq(Waiting), Orderly, NEW w \in Waiting, Sends(w),
         \A v \in Elements(pending) : InTurn(v, w)
  PROVE  Orderly'
<1>1. /\ Len(pending') = Len(pending) + 1 /\ pending'[Len(pending) + 1] = w
      /\ \A i \in 1..Len(pending) : pending'[i] = pending[i]
  BY DEF Sends
<1>2. \A i \in 1..Len(pending) : pending[i] \in Elements(pending)
  BY DEF Elements
<1> QED BY <1>1, <1>2 DEF Orderly

LEMMA RequeuedInTurn ==
  ASSUME pending \in Seq(Waiting), pending # <<>>, Orderly, NEW w \in Waiting,
         pending' = Append(Tail(pending), w),
         \A v \in Elements(Tail(pending)) : InTurn(v, w)
  PROVE  Orderly'
<1> DEFINE n == Len(pending)
<1>1. /\ n \in Nat \ {0} /\ Len(pending') = n /\ pending'[n] = w
      /\ \A i \in 1..n - 1 : pending'[i] = pending[i + 1]
  OBVIOUS
<1>2. \A i \in 1..n - 1 : pending[i + 1] \in Elements(Tail(pending))
  <2>1. \A i \in 1..n - 1 : i \in 1..Len(Tail(pending)) /\ Tail(pending)[i] = pending[i + 1]
    OBVIOUS
  <2> QED BY <2>1 DEF Elements
<1>3. \A i, j \in 1..n : i < j => InTurn(pending[i], pending[j])
  BY DEF Orderly
<1> HIDE DEF n
<1>4. ASSUME NEW i \in 1..n, NEW j \in 1..n, i < j
      PROVE  InTurn(pending'[i], pending'[j])
  <2>1. i \in 1..n - 1
    BY <1>1, <1>4
  <2>2. CASE j = n
    BY <1>1, <1>2, <2>1, <2>2
  <2>3. CASE j # n
    <3>1. j \in 1..n - 1 /\ i + 1 \in 1..n /\ j + 1 \in 1..n /\ i + 1 < j + 1
      BY <1>1, <1>4, <2>3
    <3> QED BY <1>1, <1>3, <2>1, <3>1
  <2> QED BY <2>2, <2>3
<1> QED BY <1>1, <1>4 DEF Orderly

LEMMA ElementsOfTail ==
  ASSUME NEW S, NEW s \in Seq(S), s # <<>>
  PROVE  Elements(s) \subseteq Elements(Tail(s)) \cup {Head(s)}
<1>1. ASSUME NEW i \in 1..Len(s), i # 1 PROVE s[i] \in Elements(Tail(s))
  <2>1. i - 1 \in 1..Len(Tail(s)) /\ Tail(s)[i - 1] = s[i]
    BY <1>1
  <2> QED BY <2>1 DEF Elements
<1>2. s[1] = Head(s)
  OBVIOUS
<1> QED BY <1>1, <1>2 DEF Elements

LEMMA ReturnedHolds ==
  ASSUME NEW c PROVE Returned(c) <=> \A w \in Elements(pending) : w.conn = c => w.kind = "related"
BY DEF Returned, Elements

LEMMA FreeHolds ==
  ASSUME NEW c, Free(c)
  PROVE  /\ conn[c] = Unused /\ \A s \in Stream : mapping[s] # c
         /\ \A w \in Elements(pending) : w.conn # c
BY DEF Free, Elements

-----------------------------------------------------------------------------
(* Patient clients *)

\* Nothing about a listener changes if no response begins, and if streams are
\* unmapped only from responses that end.
LEMMA ListenersStay ==
  ASSUME ListenersAreMapped, TypeOK,
         \A c \in Conn : Listening(c)' /\ Returned(c)' /\ ~closed' =>
            \/ mapping'[conn'[c].stream] = c
            \/ /\ Listening(c) /\ Returned(c) /\ ~closed
               /\ conn'[c].stream = conn[c].stream
               /\ mapping'[conn[c].stream] = mapping[conn[c].stream]
  PROVE  ListenersAreMapped'
BY DEF ListenersAreMapped

\* A response that ends was not waiting for a replay.
LEMMA EndsAtWork ==
  ASSUME StreamInv, NEW w \in Elements(pending), AtWork(w), w \in Waiting, Fits(w),
         \A c \in Conn : conn'[c] = conn[c] \/ conn'[c] = Unused,
         w.kind \in Replaying => conn'[w.conn] = conn[w.conn],
         \A s \in Stream : mapping'[s] \in {mapping[s], NoConn}
  PROVE  AtWork(w)'
<1>1. w.stream \in Stream /\ w.conn \in Conn \cup {NoConn}
  BY DEF Waiting
<1>2. w.kind \in {"relookup", "list", "fetch"} => w.kind \in Replaying
  BY DEF Replaying
<1>3. w.kind \in Replaying \cup {"prime"} => w.conn \in Conn
  BY DEF Fits, Replaying
<1> QED BY <1>1, <1>2, <1>3, EventNames, NoneOpen DEF AtWork, Listening

\* Where responses and their streams are the same, so is the work.
LEMMA SameAtWork ==
  ASSUME NEW w \in Elements(pending), AtWork(w), UNCHANGED <<conn, mapping>>
  PROVE  AtWork(w)'
BY DEF AtWork, Listening

LEMMA PatientStays ==
  ASSUME StreamInv, PatientInv, Patient, [Next]_vars
  PROVE  PatientInv'
<1> USE EventNames
<1>0. /\ TypeOK /\ Kept /\ Batches /\ FirstIsMapped /\ Orderly /\ ListenersAreMapped
      /\ pending \in Seq(Waiting) /\ mapping \in [Stream -> Conn \cup {NoConn}]
      /\ \A c \in Conn : conn[c].stream \in Stream
      /\ \A w \in Elements(pending) :
            /\ AtWork(w) /\ Fits(w) /\ w \in Waiting
            /\ w.stream \in Stream /\ w.conn \in Conn \cup {NoConn}
  <2>1. \A w \in Elements(pending) : w \in Waiting
    BY ElementsTyped DEF StreamInv, TypeOK
  <2>2. \A w \in Waiting : w.stream \in Stream /\ w.conn \in Conn \cup {NoConn}
    BY DEF Waiting
  <2> QED BY <2>1, <2>2 DEF StreamInv, PatientInv, TypeOK, Response, Kept
<1>1. ASSUME NEW c \in Conn, NEW s \in Stream, NEW kind \in {"post", "get"},
             mapping[s] = NoConn, Free(c),
             mapping' = [mapping EXCEPT ![s] = c], conn' = [conn EXCEPT ![c] = Opened(kind, s)],
             \A w \in Elements(pending) : w.stream = s => w.kind = "standalone",
             UNCHANGED closed,
             \/ UNCHANGED pending
             \/ kind = "post" /\ Sends(Command("prime", c, s, Prime))
      PROVE  PatientInv'
  <2>1. /\ conn[c] = Unused /\ \A t \in Stream : mapping[t] # c
        /\ \A w \in Elements(pending) : w.conn # c
    BY <1>1, FreeHolds
  <2>2. /\ Listening(c)' /\ conn'[c].stream = s /\ conn'[c].kind = kind /\ mapping'[s] = c
        /\ \A d \in Conn \ {c} : conn'[d] = conn[d]
        /\ \A t \in Stream \ {s} : mapping'[t] = mapping[t]
    BY <1>0, <1>1, OpenedIsResponse DEF TypeOK, Listening, Opened
  <2>3. ASSUME NEW w \in Elements(pending) PROVE AtWork(w)'
    <3>1. w.conn # c /\ w.stream \in Stream /\ AtWork(w) /\ Fits(w)
          /\ w.conn \in Conn \cup {NoConn}
      BY <1>0, <2>1
    <3>2. w.stream = s => w.kind = "standalone"
      BY <1>1
    <3>3. w.kind \in Replaying \cup {"prime"} => w.conn \in Conn
      BY <3>1 DEF Fits, Replaying
    <3> QED BY <2>2, <3>1, <3>2, <3>3 DEF AtWork, Listening, Replaying
  <2>4. CASE UNCHANGED pending
    <3>1. Orderly'
      BY <1>0, <2>4 DEF Orderly
    <3>2. ListenersAreMapped'
      <4>1. ASSUME NEW d \in Conn \ {c}, Listening(d)', Returned(d)', ~closed'
            PROVE  /\ Listening(d) /\ Returned(d) /\ ~closed
                   /\ conn'[d].stream = conn[d].stream
                   /\ mapping'[conn[d].stream] = mapping[conn[d].stream]
        <5>1. Listening(d) /\ Returned(d) /\ ~closed /\ conn'[d] = conn[d]
          BY <1>1, <2>2, <2>4, <4>1 DEF Listening, Returned
        <5>2. conn[d].stream # s
          BY <1>0, <1>1, <5>1 DEF ListenersAreMapped
        <5> QED BY <1>0, <2>2, <5>1, <5>2
      <4> QED BY <1>0, <2>2, <4>1, ListenersStay
    <3> QED BY <2>3, <2>4, <3>1, <3>2 DEF PatientInv
  <2>5. CASE kind = "post" /\ Sends(Command("prime", c, s, Prime))
    <3> DEFINE w == Command("prime", c, s, Prime)
    <3>1. /\ w \in Waiting /\ w.kind = "prime" /\ w.conn = c
      BY CommandWaits DEF Single, Command
    <3> HIDE DEF w
    <3>2. Elements(pending') = Elements(pending) \cup {w}
      BY <1>0, <2>5, <3>1, SendsAdds DEF w
    <3>3. Orderly'
      <4>1. \A v \in Elements(pending) : InTurn(v, w)
        BY <2>1, <3>1 DEF InTurn, Replaying
      <4> QED BY <1>0, <2>5, <3>1, <4>1, SentInTurn DEF w
    <3>4. \A v \in Elements(pending') : AtWork(v)'
      <4>1. ASSUME NEW v \in Elements(pending'), v = w PROVE AtWork(v)'
        BY <2>2, <2>5, <3>1, <4>1 DEF AtWork, Replaying
      <4> QED BY <2>3, <3>2, <4>1
    <3>5. ListenersAreMapped'
      <4>1. ASSUME NEW d \in Conn \ {c}, Listening(d)', Returned(d)', ~closed'
            PROVE  /\ Listening(d) /\ Returned(d) /\ ~closed
                   /\ conn'[d].stream = conn[d].stream
                   /\ mapping'[conn[d].stream] = mapping[conn[d].stream]
        <5>1. Listening(d) /\ Returned(d) /\ ~closed /\ conn'[d] = conn[d]
          <6>1. \A v \in Elements(pending') : v.conn = d => v.kind = "related"
            BY <4>1 DEF Returned, Elements
          <6> QED BY <1>1, <2>2, <3>2, <4>1, <6>1, ReturnedHolds DEF Listening
        <5>2. conn[d].stream # s
          BY <1>0, <1>1, <5>1 DEF ListenersAreMapped
        <5> QED BY <1>0, <2>2, <5>1, <5>2
      <4> QED BY <1>0, <2>2, <4>1, ListenersStay
    <3> QED BY <3>3, <3>4, <3>5 DEF PatientInv
  <2> QED BY <1>1, <2>4, <2>5
<1>2. ASSUME NEW c \in Conn, NEW p \in Post, PostArrives(p, c) PROVE PatientInv'
  <2>1. Elements(store[p]) = {}
    BY <1>0, <1>2, EmptyHoldsNone DEF PostArrives, TypeOK
  <2>2. \A w \in Elements(pending) : w.stream # p
    BY <1>0, <2>1 DEF Fits
  <2> QED BY <1>1, <1>2, <2>2 DEF PostArrives
<1>3. ASSUME NEW c \in Conn, GetArrives(c) PROVE PatientInv'
  <2>1. Elements(received[GetStream]) = {}
    BY <1>0, <1>3, EmptyHoldsNone DEF GetArrives, TypeOK
  <2>2. \A w \in Elements(pending) : w.stream = GetStream => w.kind = "standalone"
    <3>1. \A w \in Elements(pending) : w.kind \in Single \cup {"list", "fetch"}
      BY <1>0 DEF Waiting
    <3> QED BY <1>0, <2>1, <3>1 DEF Fits, Replaying, Single
  <2> QED BY <1>1, <1>3, <2>2 DEF GetArrives
<1>4. ASSUME NEW w \in Waiting, Sends(w), UNCHANGED <<mapping, closed>>,
             \A v \in Elements(pending) : InTurn(v, w),
             \A v \in Elements(pending) \cup {w} : AtWork(v)',
             \A c \in Conn : \/ conn'[c] = conn[c]
                             \/ c = w.conn /\ w.kind # "related"
      PROVE  PatientInv'
  <2>1. Elements(pending') = Elements(pending) \cup {w}
    BY <1>0, <1>4, SendsAdds
  <2>2. Orderly'
    BY <1>0, <1>4, SentInTurn
  <2>3. ASSUME NEW c \in Conn, Listening(c)', Returned(c)', ~closed'
        PROVE  /\ Listening(c) /\ Returned(c) /\ ~closed
               /\ conn'[c].stream = conn[c].stream
    <3>1. \A v \in Elements(pending') : v.conn = c => v.kind = "related"
      BY <2>3 DEF Returned, Elements
    <3> QED BY <1>4, <2>1, <2>3, <3>1, ReturnedHolds DEF Listening
  <2>4. ListenersAreMapped'
    BY <1>0, <1>4, <2>3, ListenersStay
  <2> QED BY <1>4, <2>1, <2>2, <2>4 DEF PatientInv
<1>5. ASSUME NEW c \in Conn, NEW s \in Stream, ResumeArrives(c, s) PROVE PatientInv'
  <2> DEFINE w == Command("lookup", c, s, LastId(s))
  <2>1. LastId(s) \in Event
    BY <1>0, <1>5, LastIdHolds DEF ResumeArrives, Interrupted, TypeOK
  <2>2. w \in Waiting /\ w.kind = "lookup" /\ w.conn = c /\ w.stream = s /\ Sends(w)
    BY <1>5, <2>1, CommandWaits DEF Single, Command, ResumeArrives
  <2> HIDE DEF w
  <2>3. /\ \A t \in Stream : mapping[t] # c
        /\ \A v \in Elements(pending) : v.conn # c
    BY <1>5, FreeHolds DEF ResumeArrives
  <2>4. /\ Listening(c)' /\ conn'[c].stream = s
        /\ \A d \in Conn \ {c} : conn'[d] = conn[d]
        /\ UNCHANGED <<mapping, closed>>
    BY <1>0, <1>5, OpenedIsResponse DEF ResumeArrives, TypeOK, Listening, Opened, transport
  <2>5. ASSUME NEW v \in Elements(pending) PROVE InTurn(v, w) /\ AtWork(v)'
    <3>1. v.kind \in Replaying => v.stream # s
      BY <1>0, <1>5 DEF ResumeArrives, Interrupted, AtWork, Fits, Replaying
    <3>2. v.conn # c /\ AtWork(v) /\ Fits(v)
      BY <1>0, <2>3
    <3>3. v.kind \in Replaying \cup {"prime"} => v.conn \in Conn
      BY <3>2 DEF Fits, Replaying
    <3>4. AtWork(v)'
      BY <2>4, <3>2, <3>3 DEF AtWork, Listening
    <3> QED BY <2>2, <3>1, <3>2, <3>4 DEF InTurn
  <2>6. ASSUME NEW v, v = w PROVE AtWork(v)'
    BY <2>2, <2>3, <2>4, <2>6 DEF AtWork
  <2> QED BY <1>4, <2>2, <2>4, <2>5, <2>6
<1>6. ASSUME NEW n \in Note, SendStandalone(n) PROVE PatientInv'
  <2> DEFINE w == Command("standalone", NoConn, GetStream, n)
  <2>1. w \in Waiting /\ w.kind = "standalone" /\ w.conn = NoConn /\ Sends(w)
    BY <1>6, CommandWaits DEF Single, Command, SendStandalone
  <2> HIDE DEF w
  <2>2. UNCHANGED <<mapping, conn, closed>>
    BY <1>6 DEF SendStandalone, transport
  <2>3. ASSUME NEW v \in Elements(pending) PROVE InTurn(v, w) /\ AtWork(v)'
    <3>1. v.kind \in Replaying => v.conn \in Conn
      BY <1>0 DEF Fits, Replaying
    <3> QED BY <1>0, <2>1, <2>2, <3>1, SameAtWork DEF InTurn, Replaying
  <2>4. ASSUME NEW v, v = w PROVE AtWork(v)'
    BY <2>1, <2>4 DEF AtWork, Replaying
  <2> QED BY <1>4, <2>1, <2>2, <2>3, <2>4
<1>7. ASSUME NEW r \in Request, NEW e \in Event, SendRelated(r, e) PROVE PatientInv'
  <2> DEFINE s == streamOf[r]
             w == Command("related", mapping[s], s, e)
  <2>1. s \in Stream /\ mapping[s] \in Conn
    BY <1>0, <1>7 DEF SendRelated, Batches
  <2>2. w \in Waiting /\ w.kind = "related" /\ w.conn = mapping[s] /\ w.stream = s /\ Sends(w)
    BY <1>7, <2>1, CommandWaits DEF Single, Command, SendRelated
  <2>3. UNCHANGED <<mapping, conn, closed>>
    BY <1>7 DEF SendRelated
  <2> HIDE DEF w, s
  <2>4. ASSUME NEW v \in Elements(pending) PROVE InTurn(v, w) /\ AtWork(v)'
    <3>1. AtWork(v)
      BY <1>0
    <3>2. InTurn(v, w)
      BY <2>1, <2>2, <3>1 DEF AtWork, InTurn, Replaying
    <3> QED BY <2>3, <3>1, <3>2, SameAtWork
  <2>5. ASSUME NEW v, v = w, NEW t, t = s PROVE AtWork(v)'
    BY <2>2, <2>3, <2>5 DEF AtWork, Replaying
  <2> QED BY <1>4, <2>2, <2>3, <2>4, <2>5
<1>8. ASSUME UNCHANGED pending \/ (pending # <<>> /\ pending' = Tail(pending))
      PROVE  Orderly' /\ Elements(pending') \subseteq Elements(pending)
  <2>1. CASE UNCHANGED pending
    BY <1>0, <2>1 DEF Orderly
  <2>2. CASE pending # <<>> /\ pending' = Tail(pending)
    BY <1>0, <2>2, PoppedInTurn, PopsShrinks
  <2> QED BY <1>8, <2>1, <2>2
\* A response ends, or its client does not listen any more.
<1>9. ASSUME NEW c \in Conn, \/ conn' = [conn EXCEPT ![c] = Unused]
                             \/ conn' = [conn EXCEPT ![c].heard = FALSE]
                             \/ conn' = [conn EXCEPT ![c].kind = "discarded", ![c].heard = FALSE]
      PROVE  /\ ~Listening(c)' /\ \A d \in Conn \ {c} : conn'[d] = conn[d]
             /\ conn' = [conn EXCEPT ![c] = Unused] => conn'[c] = Unused
             /\ conn' = [conn EXCEPT ![c].heard = FALSE] => conn'[c].kind = conn[c].kind
  <2>1. conn[c] \in Response /\ conn \in [Conn -> Response]
    BY <1>0 DEF TypeOK
  <2> QED BY <1>9, <2>1, NoneOpen DEF Listening, Response
<1>10. ASSUME NEW c \in Conn, ~Listening(c)', \A d \in Conn \ {c} : conn'[d] = conn[d],
              \A s \in Stream : mapping'[s] \in {mapping[s], NoConn},
              \/ UNCHANGED pending
              \/ /\ pending # <<>> /\ pending' = Tail(pending)
                 /\ Head(pending).conn \in {c, NoConn} \/ Head(pending).kind = "related",
              \A w \in Elements(pending') : w.kind \in Replaying => w.conn # c,
              \A w \in Elements(pending') : w.kind = "prime" /\ w.conn = c =>
                 conn'[c].kind \in {"unused", "post"},
              closed => closed',
              \A d \in Conn \ {c} : Listening(d) /\ Returned(d) /\ ~closed =>
                 mapping'[conn[d].stream] = mapping[conn[d].stream]
       PROVE  PatientInv'
  <2>1. Orderly' /\ Elements(pending') \subseteq Elements(pending)
    BY <1>8, <1>10
  <2>2. ASSUME NEW w \in Elements(pending') PROVE AtWork(w)'
    <3>1. /\ AtWork(w) /\ Fits(w) /\ w.stream \in Stream
          /\ w.conn \in Conn \cup {NoConn}
      BY <1>0, <2>1
    <3>2. w.kind \in Replaying \cup {"prime"} => w.conn \in Conn
      BY <3>1 DEF Fits, Replaying
    <3>3. w.kind \in Replaying => Listening(w.conn)' /\ conn'[w.conn] = conn[w.conn]
      BY <1>10, <3>1, <3>2 DEF AtWork, Listening
    <3>4. w.kind = "prime" => conn'[w.conn].kind \in {"unused", "post"}
      BY <1>10, <3>1, <3>2 DEF AtWork
    <3> QED BY <1>10, <3>1, <3>2, <3>3, <3>4 DEF AtWork, Replaying
  <2>3. ASSUME NEW d \in Conn, Listening(d)', Returned(d)', ~closed'
        PROVE  /\ Listening(d) /\ Returned(d) /\ ~closed
               /\ conn'[d].stream = conn[d].stream
               /\ mapping'[conn[d].stream] = mapping[conn[d].stream]
    <3>1. d # c /\ Listening(d) /\ ~closed /\ conn'[d] = conn[d]
      BY <1>10, <2>3 DEF Listening
    <3>2. Returned(d)
      <4>1. CASE UNCHANGED pending
        BY <2>3, <4>1 DEF Returned
      <4>2. CASE /\ pending # <<>> /\ pending' = Tail(pending)
                 /\ Head(pending).conn \in {c, NoConn} \/ Head(pending).kind = "related"
        <5>1. \A w \in Elements(Tail(pending)) : w.conn = d => w.kind = "related"
          BY <2>3, <4>2 DEF Returned, Elements
        <5>2. Head(pending).conn = d => Head(pending).kind = "related"
          BY <3>1, <4>2
        <5>3. Elements(pending) \subseteq Elements(Tail(pending)) \cup {Head(pending)}
          BY <1>0, <4>2, ElementsOfTail
        <5> QED BY <5>1, <5>2, <5>3, ReturnedHolds
      <4> QED BY <1>10, <4>1, <4>2
    <3> QED BY <1>10, <3>1, <3>2
  <2>4. ListenersAreMapped'
    BY <1>0, <2>3, ListenersStay
  <2> QED BY <2>1, <2>2, <2>4 DEF PatientInv
<1>11. ASSUME NEW c \in Conn, Drop(c) PROVE PatientInv'
  <2>1. ~Resuming(c) /\ UNCHANGED <<mapping, pending, closed>>
    BY <1>11 DEF Drop, transport
  <2>2. /\ ~Listening(c)' /\ \A d \in Conn \ {c} : conn'[d] = conn[d]
        /\ conn'[c].kind = conn[c].kind
    BY <1>9, <1>11 DEF Drop
  <2>3. \A w \in Elements(pending) : w.kind \in Replaying => w.conn # c
    BY <2>1 DEF Resuming, Elements, Replaying
  <2>4. \A w \in Elements(pending) : w.kind = "prime" /\ w.conn = c =>
           conn'[c].kind \in {"unused", "post"}
    BY <1>0, <2>2 DEF AtWork
  <2> QED BY <1>10, <2>1, <2>2, <2>3, <2>4
<1>12. ASSUME NEW c \in Conn, Cancel(c) PROVE PatientInv'
  <2>1. /\ ~Listening(c)' /\ \A d \in Conn \ {c} : conn'[d] = conn[d]
        /\ conn'[c].kind = "unused" /\ ~Listening(c) /\ UNCHANGED <<pending, closed>>
    BY <1>9, <1>12, NoneOpen DEF Cancel, Listening
  <2>2. \A s \in Stream : mapping'[s] \in {mapping[s], NoConn}
    BY <1>0, <1>12 DEF Cancel
  <2>3. ASSUME NEW d \in Conn \ {c}, Listening(d), Returned(d), ~closed
        PROVE  mapping'[conn[d].stream] = mapping[conn[d].stream]
    <3>1. CASE conn[c].kind = "replay"
      BY <1>12, <3>1 DEF Cancel
    <3>2. CASE conn[c].kind # "replay"
      <4>1. conn[c].kind \in {"post", "get"} /\ conn[c].open
        BY <1>0, <1>12, <3>2 DEF Cancel, FirstIsMapped, TypeOK, Response
      <4>2. mapping[conn[c].stream] = c /\ mapping[conn[d].stream] = d
        BY <1>0, <2>3, <4>1 DEF FirstIsMapped, First, ListenersAreMapped
      <4>3. mapping' = [mapping EXCEPT ![conn[c].stream] = NoConn]
        BY <1>12, <3>2 DEF Cancel
      <4> QED BY <1>0, <4>2, <4>3
    <3> QED BY <3>1, <3>2
  <2>4. \A w \in Elements(pending) : w.kind \in Replaying => w.conn # c
    BY <1>0, <2>1 DEF AtWork
  <2> QED BY <1>10, <2>1, <2>2, <2>3, <2>4
<1>13. ASSUME NEW s \in Stream, CloseStream(s) PROVE PatientInv'
  <2>1. PICK c \in Conn : c = mapping[s]
    BY <1>0, <1>13 DEF CloseStream
  <2>2. /\ mapping[s] = c /\ conn' = [conn EXCEPT ![c] = Unused]
        /\ mapping' = [mapping EXCEPT ![s] = NoConn] /\ UNCHANGED <<pending, closed>>
    BY <1>13, <2>1 DEF CloseStream, Cleanup
  <2>3. /\ ~Listening(c)' /\ \A d \in Conn \ {c} : conn'[d] = conn[d]
        /\ conn'[c].kind = "unused"
    BY <1>9, <2>2, NoneOpen
  <2>4. \A w \in Elements(pending) : w.kind \in Replaying => w.conn # c
    BY <1>0, <2>2 DEF AtWork
  <2>5. ASSUME NEW d \in Conn \ {c}, Listening(d), Returned(d), ~closed
        PROVE  mapping'[conn[d].stream] = mapping[conn[d].stream]
    BY <1>0, <2>2, <2>5 DEF ListenersAreMapped
  <2>6. \A t \in Stream : mapping'[t] \in {mapping[t], NoConn}
    BY <1>0, <2>2
  <2> QED BY <1>10, <2>2, <2>3, <2>4, <2>5, <2>6
<1>14. CASE Close
  <2>1. Orderly' /\ UNCHANGED pending /\ closed'
    BY <1>8, <1>14 DEF Close
  <2>2. /\ \A s \in Stream : mapping'[s] = NoConn
        /\ \A c \in Conn : conn'[c] = IF \E s \in Stream : mapping[s] = c THEN Unused ELSE conn[c]
    BY <1>14 DEF Close
  <2>3. ASSUME NEW w \in Elements(pending) PROVE AtWork(w)'
    <3>1. AtWork(w) /\ Fits(w) /\ w \in Waiting
      BY <1>0
    <3>2. w.kind \in Replaying => conn'[w.conn] = conn[w.conn]
      BY <2>2, <3>1 DEF AtWork, Fits, Replaying
    <3> QED BY <2>2, <3>1, <3>2, EndsAtWork
  <2>4. ListenersAreMapped'
    BY <2>1 DEF ListenersAreMapped
  <2> QED BY <2>1, <2>3, <2>4 DEF PatientInv
\* The oldest command was answered or rejected, with no effect on responses.
<1>15. CASE StandaloneStored \/ StoreReplyLost
  <2>1. /\ pending # <<>> /\ pending' = Tail(pending) /\ UNCHANGED <<mapping, conn, closed>>
        /\ Head(pending).conn = NoConn \/ Head(pending).kind = "related"
    BY <1>0, <1>15, OldestWaits DEF StandaloneStored, StoreReplyLost, Answered, Fits, transport
  <2>2. Orderly' /\ Elements(pending') \subseteq Elements(pending)
    BY <1>8, <2>1
  <2>3. \A w \in Elements(pending') : AtWork(w)'
    BY <1>0, <2>1, <2>2, SameAtWork
  <2>4. ASSUME NEW d \in Conn, Returned(d)' PROVE Returned(d)
    <3>1. \A w \in Elements(Tail(pending)) : w.conn = d => w.kind = "related"
      BY <2>1, <2>4 DEF Returned, Elements
    <3>2. Elements(pending) \subseteq Elements(Tail(pending)) \cup {Head(pending)}
      BY <1>0, <2>1, ElementsOfTail
    <3> QED BY <2>1, <3>1, <3>2, ReturnedHolds
  <2>5. ListenersAreMapped'
    BY <1>0, <2>1, <2>4, ListenersStay DEF Listening
  <2> QED BY <2>2, <2>3, <2>5 DEF PatientInv
<1>16. CASE PrimeStored
  <2>1. /\ pending # <<>> /\ pending' = Tail(pending) /\ UNCHANGED <<mapping, conn, closed>>
        /\ Head(pending) \in Elements(pending) /\ Head(pending).kind = "prime"
    BY <1>0, <1>16, OldestWaits DEF PrimeStored, Answered
  <2>2. Orderly' /\ Elements(pending') \subseteq Elements(pending)
    BY <1>8, <2>1
  <2>3. \A w \in Elements(pending') : AtWork(w)'
    BY <1>0, <2>1, <2>2, SameAtWork
  <2>4. ASSUME NEW d \in Conn, Listening(d), Returned(d)'
        PROVE  Returned(d) \/ mapping[conn[d].stream] = d
    <3>1. \A w \in Elements(Tail(pending)) : w.conn = d => w.kind = "related"
      BY <2>1, <2>4 DEF Returned, Elements
    <3>2. Elements(pending) \subseteq Elements(Tail(pending)) \cup {Head(pending)}
      BY <1>0, <2>1, ElementsOfTail
    <3>3. CASE Head(pending).conn # d
      BY <3>1, <3>2, <3>3, ReturnedHolds
    <3>4. CASE Head(pending).conn = d
      <4>1. conn[d].kind \in {"unused", "post"}
        BY <1>0, <2>1, <3>4 DEF AtWork
      <4>2. First(d)
        BY <1>0, <2>4, <4>1 DEF First, Listening, FirstIsMapped
      <4> QED BY <1>0, <4>2 DEF FirstIsMapped
    <3> QED BY <3>3, <3>4
  <2>5. ListenersAreMapped'
    BY <1>0, <2>1, <2>4, ListenersStay DEF Listening
  <2> QED BY <2>2, <2>3, <2>5 DEF PatientInv
<1>17. ASSUME pending # <<>>, pending' = Tail(pending)
       PROVE  /\ Head(pending) \in Elements(pending) /\ AtWork(Head(pending))
              /\ Elements(pending') \subseteq Elements(pending)
              /\ \A w \in Elements(pending') : InTurn(Head(pending), w)
  BY <1>0, <1>8, <1>17, HeadAndTailHold, FirstInTurn
<1>18. CASE PrimeRejected
  <2>1. PICK c \in Conn : c = Head(pending).conn
    BY <1>0, <1>18, OldestWaits DEF PrimeRejected, Answered, Fits
  <2>2. /\ pending # <<>> /\ pending' = Tail(pending) /\ UNCHANGED <<mapping, closed>>
        /\ Head(pending).kind = "prime"
    BY <1>18 DEF PrimeRejected, Answered, transport
  <2>3. /\ ~Listening(c)' /\ \A d \in Conn \ {c} : conn'[d] = conn[d]
    BY <1>9, <1>18, <2>1 DEF PrimeRejected
  <2>4. \A w \in Elements(pending') : w.kind \in Replaying \cup {"prime"} => w.conn # c
    BY <1>17, <2>1, <2>2 DEF InTurn
  <2> QED BY <1>10, <2>1, <2>2, <2>3, <2>4
<1>19. CASE ResumeConflicts \/ ReplayRejected
  <2>1. /\ pending # <<>> /\ pending' = Tail(pending) /\ UNCHANGED <<mapping, closed>>
        /\ Head(pending).kind \in Replaying
        /\ conn' = [conn EXCEPT ![Head(pending).conn] = Unused]
    BY <1>19 DEF ResumeConflicts, ReplayRejected, Answered, transport, Replaying
  <2>2. PICK c \in Conn : c = Head(pending).conn
    BY <1>0, <2>1, OldestWaits DEF Fits, Replaying
  <2>3. /\ ~Listening(c)' /\ \A d \in Conn \ {c} : conn'[d] = conn[d]
        /\ conn'[c].kind = "unused"
    BY <1>9, <2>1, <2>2, NoneOpen
  <2>4. \A w \in Elements(pending') : w.kind \in Replaying => w.conn # c
    BY <1>17, <2>1, <2>2 DEF InTurn
  <2> QED BY <1>10, <2>1, <2>2, <2>3, <2>4
<1>20. CASE RelatedStored
  <2>1. PICK c \in Conn : c = Head(pending).conn
    BY <1>0, <1>20, OldestWaits DEF RelatedStored, Answered, Fits
  <2>2. PICK s \in Stream : s = Head(pending).stream
    BY <1>0, <1>20, OldestWaits DEF RelatedStored, Answered
  <2>3. /\ pending # <<>> /\ pending' = Tail(pending) /\ UNCHANGED closed
        /\ Head(pending).kind = "related"
        /\ UNCHANGED <<mapping, conn>> \/ Cleanup(c, s)
    BY <1>20, <2>1, <2>2 DEF RelatedStored, Answered
  <2>4. CASE UNCHANGED <<mapping, conn>>
    <3>1. Orderly' /\ Elements(pending') \subseteq Elements(pending)
      BY <1>8, <2>3
    <3>2. \A w \in Elements(pending') : AtWork(w)'
      BY <1>0, <2>4, <3>1, SameAtWork
    <3>3. ASSUME NEW d \in Conn, Returned(d)' PROVE Returned(d)
      <4>1. \A w \in Elements(Tail(pending)) : w.conn = d => w.kind = "related"
        BY <2>3, <3>3 DEF Returned, Elements
      <4>2. Elements(pending) \subseteq Elements(Tail(pending)) \cup {Head(pending)}
        BY <1>0, <2>3, ElementsOfTail
      <4> QED BY <2>3, <4>1, <4>2, ReturnedHolds
    <3>4. ListenersAreMapped'
      BY <1>0, <2>3, <2>4, <3>3, ListenersStay DEF Listening
    <3> QED BY <3>1, <3>2, <3>4 DEF PatientInv
  <2>5. CASE Cleanup(c, s)
    <3>1. /\ ~Listening(c)' /\ \A d \in Conn \ {c} : conn'[d] = conn[d]
          /\ conn'[c].kind = "unused" /\ mapping' = [mapping EXCEPT ![s] = NoConn]
      BY <1>9, <2>5, NoneOpen DEF Cleanup
    <3>2. mapping[s] \in {c, NoConn}
      BY <1>17, <2>1, <2>2, <2>3 DEF AtWork
    <3>3. \A w \in Elements(pending') : w.kind \in Replaying => w.conn # c
      BY <1>17, <2>1, <2>3 DEF InTurn
    <3>4. ASSUME NEW d \in Conn \ {c}, Listening(d), Returned(d), ~closed
          PROVE  mapping'[conn[d].stream] = mapping[conn[d].stream]
      BY <1>0, <3>1, <3>2, <3>4 DEF ListenersAreMapped
    <3>5. \A t \in Stream : mapping'[t] \in {mapping[t], NoConn}
      BY <1>0, <3>1
    <3> QED BY <1>10, <2>3, <3>1, <3>3, <3>4, <3>5
  <2> QED BY <2>3, <2>4, <2>5
\* A replay goes on, with its command back in the queue.
<1>21. ASSUME NEW w \in Waiting, pending # <<>>, pending' = Append(Tail(pending), w),
              UNCHANGED <<mapping, conn, closed>>,
              Head(pending).kind \in Replaying, w.kind \in {"relookup", "list", "fetch"},
              w.conn = Head(pending).conn, w.stream = Head(pending).stream,
              mapping[w.stream] = NoConn
       PROVE  PatientInv'
  <2>1. /\ Head(pending) \in Elements(pending) /\ Tail(pending) \in Seq(Waiting)
        /\ Elements(Tail(pending)) \subseteq Elements(pending)
    BY <1>0, <1>21, HeadAndTailHold
  <2>2. Elements(pending') = Elements(Tail(pending)) \cup {w}
    <3> DEFINE rest == Tail(pending)
    <3>1. rest \in Seq(Waiting)
      BY <2>1
    <3>2. pending' = Append(rest, w)
      BY <1>21
    <3> HIDE DEF rest
    <3>3. Elements(pending') = Elements(rest) \cup {w}
      BY <3>1, <3>2, AppendHolds
    <3> QED BY <3>3 DEF rest
  <2>3. ASSUME NEW v \in Elements(Tail(pending)) PROVE InTurn(v, w)
    <3>1. InTurn(Head(pending), v)
      BY <1>0, <1>21, <2>3, FirstInTurn
    <3> QED BY <1>21, <3>1 DEF InTurn, Replaying
  <2>4. Orderly'
    BY <1>0, <1>21, <2>3, RequeuedInTurn
  <2>5. AtWork(Head(pending))
    BY <1>0, <2>1
  <2>6. ASSUME NEW v \in Elements(pending') PROVE AtWork(v)'
    <3>1. CASE v = w
      <4>1. /\ Listening(w.conn) /\ conn[w.conn].stream = w.stream
            /\ \A s \in Stream : mapping[s] # w.conn
        BY <1>21, <2>5 DEF AtWork
      <4>2. /\ Listening(v.conn) /\ conn[v.conn].stream = v.stream
            /\ \A s \in Stream : mapping[s] # v.conn
            /\ mapping[v.stream] = NoConn /\ v.kind \in {"relookup", "list", "fetch"}
        BY <1>21, <3>1, <4>1
      <4> QED BY <1>21, <4>2 DEF AtWork, Listening
    <3>2. CASE v # w
      BY <1>0, <1>21, <2>1, <2>2, <3>2, SameAtWork
    <3> QED BY <3>1, <3>2
  <2>7. ASSUME NEW d \in Conn, Returned(d)' PROVE Returned(d)
    <3>1. \A v \in Elements(pending') : v.conn = d => v.kind = "related"
      BY <2>7 DEF Returned, Elements
    <3>2. Head(pending).conn # d
      BY <1>21, <2>2, <3>1
    <3>3. Elements(pending) \subseteq Elements(Tail(pending)) \cup {Head(pending)}
      BY <1>0, <1>21, ElementsOfTail
    <3> QED BY <2>2, <3>1, <3>2, <3>3, ReturnedHolds
  <2>8. ListenersAreMapped'
    BY <1>0, <1>21, <2>7, ListenersStay DEF Listening
  <2> QED BY <2>4, <2>6, <2>8 DEF PatientInv
<1>22. CASE ResumeAccepted
  <2> DEFINE w == [Head(pending) EXCEPT !.kind = "relookup"]
  <2>1. /\ pending # <<>> /\ pending' = Append(Tail(pending), w) /\ Head(pending).kind = "lookup"
        /\ UNCHANGED <<mapping, conn, closed>> /\ mapping[Head(pending).stream] = NoConn
    BY <1>22 DEF ResumeAccepted, Answered, transport
  <2>2. Head(pending) \in Waiting /\ w \in Waiting
    BY <1>0, <2>1, OldestWaits, ReplayWaits DEF Replaying
  <2>3. /\ w.kind = "relookup" /\ w.conn = Head(pending).conn
        /\ w.stream = Head(pending).stream
    BY <2>1, <2>2 DEF Waiting
  <2> HIDE DEF w
  <2> QED BY <1>21, <2>1, <2>2, <2>3 DEF Replaying
<1>23. CASE ReplayLists
  <2> DEFINE w == [kind |-> "list", conn |-> Head(pending).conn,
                   stream |-> Head(pending).stream, event |-> Head(pending).event,
                   replay |-> After(Head(pending).event, Head(pending).stream)]
  <2>1. /\ pending # <<>> /\ pending' = Append(Tail(pending), w)
        /\ Head(pending).kind = "relookup" /\ UNCHANGED <<mapping, conn, closed>>
    BY <1>23 DEF ReplayLists, Answered, transport
  <2>2. After(Head(pending).event, Head(pending).stream) \in Seq(Event)
    BY <1>0, <2>1, OldestWaits, AfterHolds DEF Fits, TypeOK
  <2>3. w \in Waiting
    BY <1>0, <2>1, <2>2, ReplayWaits DEF Replaying
  <2>4. w.kind = "list" /\ w.conn = Head(pending).conn /\ w.stream = Head(pending).stream
    OBVIOUS
  <2>5. mapping[Head(pending).stream] = NoConn
    BY <1>0, <2>1, OldestWaits DEF AtWork
  <2> HIDE DEF w
  <2> QED BY <1>21, <2>1, <2>3, <2>4, <2>5 DEF Replaying
<1>24. CASE ReplayFetches
  <2> DEFINE w == [Head(pending) EXCEPT !.kind = "fetch"]
  <2>1. /\ pending # <<>> /\ pending' = Append(Tail(pending), w) /\ Head(pending).kind = "list"
        /\ UNCHANGED <<mapping, conn, closed>>
    BY <1>24 DEF ReplayFetches, Answered, transport
  <2>2. Head(pending) \in Waiting /\ w \in Waiting
    BY <1>0, <2>1, OldestWaits, ReplayWaits DEF Replaying
  <2>3. w.kind = "fetch" /\ w.conn = Head(pending).conn /\ w.stream = Head(pending).stream
    BY <2>1, <2>2 DEF Waiting
  <2>4. mapping[Head(pending).stream] = NoConn
    BY <1>0, <2>1, OldestWaits DEF AtWork
  <2> HIDE DEF w
  <2> QED BY <1>21, <2>1, <2>2, <2>3, <2>4 DEF Replaying
\* Its stream gets the new response.
<1>25. CASE ReplayFinishes
  <2>1. PICK c \in Conn : c = Head(pending).conn
    BY <1>0, <1>25, OldestWaits DEF ReplayFinishes, Answered, Fits, Replaying
  <2>2. PICK s \in Stream : s = Head(pending).stream
    BY <1>0, <1>25, OldestWaits DEF ReplayFinishes, Answered
  <2>3. /\ pending # <<>> /\ pending' = Tail(pending) /\ UNCHANGED closed
        /\ Head(pending).kind \in {"list", "fetch"} /\ mapping' = [mapping EXCEPT ![s] = c]
        /\ UNCHANGED conn \/ conn' = [conn EXCEPT ![c].heard = FALSE]
    BY <1>25, <2>1, <2>2 DEF ReplayFinishes, Answered
  <2>4. /\ mapping'[s] = c /\ \A t \in Stream \ {s} : mapping'[t] = mapping[t]
    BY <1>0, <2>3
  <2>5. /\ \A d \in Conn \ {c} : conn'[d] = conn[d]
        /\ conn'[c].kind = conn[c].kind
        /\ conn'[c] = conn[c] \/ ~Listening(c)'
    BY <1>9, <2>3
  <2>6. /\ Listening(c) /\ conn[c].stream = s /\ mapping[s] = NoConn
    BY <1>17, <2>1, <2>2, <2>3 DEF AtWork, Replaying
  <2>7. Orderly' /\ Elements(pending') \subseteq Elements(pending)
    BY <1>8, <2>3
  <2>8. ASSUME NEW w \in Elements(pending') PROVE AtWork(w)'
    <3>1. /\ AtWork(w) /\ Fits(w) /\ w.stream \in Stream /\ w.conn \in Conn \cup {NoConn}
      BY <1>0, <2>7
    <3>2. InTurn(Head(pending), w)
      BY <1>17, <2>3
    <3>3. /\ w.kind \in Replaying => w.conn # c /\ w.stream # s
          /\ w.kind = "related" => w.stream # s
      BY <2>1, <2>2, <2>3, <3>2 DEF InTurn, Replaying
    <3>4. w.kind \in Replaying \cup {"prime"} => w.conn \in Conn
      BY <3>1 DEF Fits, Replaying
    <3> QED BY <2>4, <2>5, <3>1, <3>3, <3>4 DEF AtWork, Listening, Replaying
  <2>9. ASSUME NEW d \in Conn, Listening(d)', Returned(d)', ~closed'
        PROVE  \/ mapping'[conn'[d].stream] = d
               \/ /\ Listening(d) /\ Returned(d) /\ ~closed
                  /\ conn'[d].stream = conn[d].stream
                  /\ mapping'[conn[d].stream] = mapping[conn[d].stream]
    <3>1. CASE d = c
      BY <2>4, <2>5, <2>6, <2>9, <3>1
    <3>2. CASE d # c
      <4>1. conn'[d] = conn[d] /\ Listening(d) /\ ~closed
        BY <2>3, <2>5, <2>9, <3>2 DEF Listening
      <4>2. Returned(d)
        <5>1. \A w \in Elements(Tail(pending)) : w.conn = d => w.kind = "related"
          BY <2>3, <2>9 DEF Returned, Elements
        <5>2. Elements(pending) \subseteq Elements(Tail(pending)) \cup {Head(pending)}
          BY <1>0, <2>3, ElementsOfTail
        <5> QED BY <2>1, <3>2, <5>1, <5>2, ReturnedHolds
      <4>3. conn[d].stream # s
        BY <1>0, <2>6, <4>1, <4>2 DEF ListenersAreMapped
      <4> QED BY <1>0, <2>4, <4>1, <4>2, <4>3
    <3> QED BY <3>1, <3>2
  <2>10. ListenersAreMapped'
    BY <1>0, <2>9, ListenersStay
  <2> QED BY <2>7, <2>8, <2>10 DEF PatientInv
\* No response and no command is touched.
<1>26. ASSUME UNCHANGED <<mapping, conn, pending, closed>> PROVE PatientInv'
  <2>1. Orderly' /\ Elements(pending') \subseteq Elements(pending)
    BY <1>8, <1>26
  <2>2. \A w \in Elements(pending') : AtWork(w)'
    BY <1>0, <1>26, <2>1, SameAtWork
  <2>3. ListenersAreMapped'
    BY <1>0, <1>26, ListenersStay DEF Listening, Returned
  <2> QED BY <2>1, <2>2, <2>3 DEF PatientInv
<1>27. ASSUME NEW r \in Request, HandlerSends(r) \/ HandlerAborted(r) PROVE PatientInv'
  <2>1. CASE HandlerAborted(r)
    BY <1>26, <2>1 DEF HandlerAborted
  <2>2. ASSUME NEW e \in Event, SendUnconnected(r, e) \/ SendRejected(r, e) PROVE PatientInv'
    BY <1>26, <2>2 DEF SendUnconnected, SendRejected
  <2> QED BY <1>7, <1>27, <2>1, <2>2 DEF HandlerSends
<1>28. CASE TransportStep
  BY <1>6, <1>11, <1>12, <1>13, <1>15, <1>16, <1>18, <1>19, <1>20, <1>22, <1>23, <1>24, <1>25,
     <1>27, <1>28 DEF TransportStep, ValkeyReplies, ValkeyRejects
<1>29. ASSUME NEW c \in Conn, RequestArrives(c) PROVE PatientInv'
  BY <1>2, <1>3, <1>5, <1>29 DEF RequestArrives
<1>30. CASE UNCHANGED vars
  BY <1>26, <1>30 DEF vars, transport
<1> QED BY <1>14, <1>28, <1>29, <1>30 DEF Next

LEMMA PatientStarts == Init => PatientInv
<1> SUFFICES ASSUME Init PROVE PatientInv
  OBVIOUS
<1>1. Elements(pending) = {} /\ Len(pending) = 0
  BY DEF Init, Elements
<1>2. Orderly
  BY <1>1 DEF Orderly
<1>3. ListenersAreMapped
  BY NoneOpen DEF Init, ListenersAreMapped, Listening
<1> QED BY <1>1, <1>2, <1>3 DEF PatientInv

\* With clients that wait for the answer to a resume, a response that is open
\* and heard, and that no command holds back, is the one its stream writes to.
THEOREM ListenersMapped == Patient /\ Spec => []ListenersAreMapped
<1> SUFFICES ASSUME Patient PROVE Spec => []ListenersAreMapped
  OBVIOUS
<1>1. StreamInv /\ PatientInv /\ [Next]_vars => PatientInv'
  BY PatientStays
<1>2. PatientInv => ListenersAreMapped
  BY DEF PatientInv
<1> QED BY <1>1, <1>2, PatientStarts, StreamInvariance, PTL DEF Spec

-----------------------------------------------------------------------------
(* Resumable streams *)

\* w brings an event of p to a response.
Carries(w, p) == w.kind \in {"prime", "related"} /\ w.stream = p

Reads(c, p) == Listening(c) /\ conn[c].stream = p

\* The response c will get events of a replay.
Expects(c) == \E w \in Elements(pending) : w.kind \in Replaying /\ w.conn = c

\* Responses are where commands and streams think they are.
Belongs ==
    /\ \A w \in Elements(pending) :
          w.conn \in Conn /\ Listening(w.conn) => conn[w.conn].stream = w.stream
    /\ \A s \in Stream :
          mapping[s] \in Conn /\ Listening(mapping[s]) => conn[mapping[s]].stream = s

Begins(s, log) == Len(s) <= Len(log) /\ \A i \in 1..Len(s) : s[i] = log[i]

\* log is s and then rest.
Completes(rest, s, log) ==
    Len(s) + Len(rest) = Len(log) /\ \A i \in 1..Len(rest) : rest[i] = log[Len(s) + i]

Distinct(log) == \A i, j \in 1..Len(log) : log[i] = log[j] => i = j

\* An event is stored once, and read from the first on.
Prefix(p) == Distinct(store[p]) /\ Begins(received[p], store[p])

\* The client of p reads one response, which is the one that is written to.
OneReader(p) ==
    /\ \A c, d \in Conn : Reads(c, p) /\ Reads(d, p) => c = d
    /\ \A c \in Conn : Reads(c, p) =>
          /\ conn[c].kind = "replay" => received[p] # <<>>
          /\ Expects(c) \/ mapping[p] \in {c, NoConn}

\* v brings an event of p that is in the log before that of w.
InLogOrder(v, w, p, log) ==
    Carries(v, p) /\ Carries(w, p) =>
        \A a, b \in 1..Len(log) : log[a] = v.event /\ log[b] = w.event => a < b

\* Commands bring events in the order they were stored.
LogOrder(p) ==
    \A i, j \in 1..Len(pending) : i < j => InLogOrder(pending[i], pending[j], p, store[p])

\* Those and only those are on their way to a response that it has not had yet.
Underway(p) ==
    \A c \in Conn : Reads(c, p) =>
        /\ \A w \in Elements(pending) :
              Carries(w, p) /\ w.conn = c => w.event \notin Elements(received[p])
        /\ Expects(c) \/ \A i \in Len(received[p]) + 1..Len(store[p]) :
              \E w \in Elements(pending) :
                  Carries(w, p) /\ w.conn = c /\ w.event = store[p][i]

\* A replay brings all that the client has not had yet.
Replays(w, p) ==
    w.stream = p =>
        /\ w.kind \in Replaying =>
              received[p] # <<>> /\ w.event = received[p][Len(received[p])]
        /\ w.kind \in {"list", "fetch"} => Completes(w.replay, received[p], store[p])

Readable(p) ==
    /\ Prefix(p) /\ OneReader(p) /\ LogOrder(p) /\ Underway(p)
    /\ \A w \in Elements(pending) : Replays(w, p)

ReadInv == Belongs /\ \A p \in Post : Readable(p)

LEMMA ReadsAtStart == Init => ReadInv
<1> SUFFICES ASSUME Init PROVE ReadInv
  OBVIOUS
<1>1. Elements(pending) = {} /\ Len(pending) = 0
  BY DEF Init, Elements
<1>2. \A c \in Conn : ~Listening(c)
  BY NoneOpen DEF Init, Listening
<1>3. \A s \in Stream : mapping[s] = NoConn /\ store[s] = <<>> /\ received[s] = <<>>
  BY DEF Init
<1>4. Belongs
  BY <1>1, <1>3, EventNames DEF Belongs
<1>5. ASSUME NEW p \in Post PROVE Readable(p)
  <2>1. store[p] = <<>> /\ received[p] = <<>>
    BY <1>3, EventNames
  <2>2. Prefix(p)
    BY <2>1 DEF Prefix, Begins, Distinct
  <2> QED BY <1>1, <1>2, <2>2 DEF Readable, OneReader, Reads, LogOrder, Underway
<1> QED BY <1>4, <1>5 DEF ReadInv

LEMMA ReadTypes ==
  ASSUME TypeOK, NEW p \in Post
  PROVE  /\ store[p] \in Seq(Event) /\ received[p] \in Seq(Event)
         /\ Len(store[p]) \in Nat /\ Len(received[p]) \in Nat
         /\ pending \in Seq(Waiting) /\ Len(pending) \in Nat
         /\ mapping \in [Stream -> Conn \cup {NoConn}] /\ p \in Stream
BY EventNames DEF TypeOK

\* The order of the commands left is the same, and new commands come last.
LEMMA LogOrderPops ==
  ASSUME TypeOK, NEW p \in Post, LogOrder(p), UNCHANGED store[p],
         UNCHANGED pending \/ (pending # <<>> /\ pending' = Tail(pending))
  PROVE  LogOrder(p)'
<1>1. CASE UNCHANGED pending
  BY <1>1 DEF LogOrder
<1>2. CASE pending # <<>> /\ pending' = Tail(pending)
  <2>1. ASSUME NEW i \in 1..Len(pending'), NEW j \in 1..Len(pending'), i < j
        PROVE  InLogOrder(pending'[i], pending'[j], p, store[p])
    <3>1. /\ i + 1 \in 1..Len(pending) /\ j + 1 \in 1..Len(pending) /\ i + 1 < j + 1
          /\ pending'[i] = pending[i + 1] /\ pending'[j] = pending[j + 1]
      BY <1>2, <2>1, ReadTypes
    <3>2. InLogOrder(pending[i + 1], pending[j + 1], p, store[p])
      BY <3>1 DEF LogOrder
    <3> QED BY <3>1, <3>2
  <2> QED BY <2>1 DEF LogOrder
<1> QED BY <1>1, <1>2

LEMMA LogOrderSends ==
  ASSUME TypeOK, NEW p \in Post, LogOrder(p), NEW w \in Waiting, Sends(w),
         \A v \in Elements(pending) : InLogOrder(v, w, p, store'[p]),
         \A v, u \in Elements(pending) :
            InLogOrder(v, u, p, store[p]) => InLogOrder(v, u, p, store'[p])
  PROVE  LogOrder(p)'
<1>1. /\ Len(pending') = Len(pending) + 1 /\ pending'[Len(pending) + 1] = w
      /\ \A i \in 1..Len(pending) : pending'[i] = pending[i]
  BY ReadTypes DEF Sends
<1>2. \A i \in 1..Len(pending) : pending[i] \in Elements(pending)
  BY DEF Elements
<1>3. ASSUME NEW i \in 1..Len(pending'), NEW j \in 1..Len(pending'), i < j
      PROVE  InLogOrder(pending'[i], pending'[j], p, store'[p])
  <2>1. i \in 1..Len(pending) /\ pending'[i] = pending[i]
    BY <1>1, <1>3, ReadTypes
  <2>2. CASE j = Len(pending) + 1
    BY <1>1, <1>2, <2>1, <2>2
  <2>3. CASE j # Len(pending) + 1
    <3>1. j \in 1..Len(pending) /\ pending'[j] = pending[j]
      BY <1>1, <2>3, ReadTypes
    <3>2. InLogOrder(pending[i], pending[j], p, store[p])
      BY <1>3, <2>1, <3>1 DEF LogOrder
    <3> QED BY <1>2, <2>1, <3>1, <3>2
  <2> QED BY <2>2, <2>3
<1> QED BY <1>3 DEF LogOrder

LEMMA LogOrderRequeues ==
  ASSUME TypeOK, NEW p \in Post, LogOrder(p), UNCHANGED store[p], pending # <<>>,
         NEW w \in Waiting, ~Carries(w, p), pending' = Append(Tail(pending), w)
  PROVE  LogOrder(p)'
<1> DEFINE n == Len(pending)
<1>1. /\ n \in Nat \ {0} /\ Len(pending') = n /\ pending'[n] = w
      /\ \A i \in 1..n - 1 : pending'[i] = pending[i + 1]
  BY ReadTypes
<1>2. \A i, j \in 1..n : i < j => InLogOrder(pending[i], pending[j], p, store[p])
  BY DEF LogOrder
<1> HIDE DEF n
<1>3. ASSUME NEW i \in 1..n, NEW j \in 1..n, i < j
      PROVE  InLogOrder(pending'[i], pending'[j], p, store[p])
  <2>1. CASE j = n
    BY <1>1, <2>1 DEF InLogOrder
  <2>2. CASE j # n
    <3>1. /\ i + 1 \in 1..n /\ j + 1 \in 1..n /\ i + 1 < j + 1
          /\ pending'[i] = pending[i + 1] /\ pending'[j] = pending[j + 1]
      BY <1>1, <1>3, <2>2
    <3>2. InLogOrder(pending[i + 1], pending[j + 1], p, store[p])
      BY <1>2, <3>1
    <3> QED BY <3>1, <3>2
  <2> QED BY <2>1, <2>2
<1> QED BY <1>1, <1>3 DEF LogOrder

\* Nothing of p is stored or read: responses end, or lose their clients, and the
\* oldest command was for such a response, or for one of another stream.
LEMMA CalmKeeps ==
  ASSUME TypeOK, Kept, NEW p \in Post, Readable(p), UNCHANGED <<store[p], received[p]>>,
         \A c \in Conn : Reads(c, p)' => conn'[c] = conn[c],
         mapping'[p] \in {mapping[p], NoConn}, NEW h,
         \/ UNCHANGED pending
         \/ /\ pending # <<>> /\ pending' = Tail(pending) /\ h = Head(pending)
            /\ h.kind # "standalone" => ~Reads(h.conn, p)'
  PROVE  Readable(p)'
<1>1. ASSUME NEW w \in Elements(pending), Reads(w.conn, p)', w.kind # "standalone"
      PROVE  w \in Elements(pending')
  <2>1. CASE UNCHANGED pending
    BY <1>1, <2>1
  <2>2. CASE /\ pending # <<>> /\ pending' = Tail(pending) /\ h = Head(pending)
             /\ h.kind # "standalone" => ~Reads(h.conn, p)'
    <3>1. Elements(pending) \subseteq Elements(Tail(pending)) \cup {h}
      BY <2>2, ReadTypes, ElementsOfTail
    <3>2. w # h
      BY <1>1, <2>2
    <3> QED BY <2>2, <3>1, <3>2
  <2> QED BY <2>1, <2>2
<1>2. Elements(pending') \subseteq Elements(pending)
  BY PopsShrinks
<1>3. ASSUME NEW c \in Conn, Reads(c, p)'
      PROVE  Reads(c, p) /\ conn'[c] = conn[c] /\ Listening(c)' /\ (Expects(c) => Expects(c)')
  <2>1. Listening(c)' /\ conn'[c] = conn[c]
    BY <1>3 DEF Reads
  <2>2. ASSUME NEW w \in Elements(pending), w.kind \in Replaying, w.conn = c
        PROVE  w \in Elements(pending')
    BY <1>1, <1>3, <2>2 DEF Replaying
  <2> QED BY <1>3, <2>1, <2>2 DEF Reads, Listening, Expects
<1>4. Prefix(p)'
  BY DEF Readable, Prefix
<1>5. OneReader(p)'
  <2>1. \A c, d \in Conn : Reads(c, p)' /\ Reads(d, p)' => c = d
    BY <1>3 DEF Readable, OneReader
  <2>2. ASSUME NEW c \in Conn, Reads(c, p)'
        PROVE  /\ conn'[c].kind = "replay" => received'[p] # <<>>
               /\ Expects(c)' \/ mapping'[p] \in {c, NoConn}
    BY <1>3, <2>2 DEF Readable, OneReader
  <2> QED BY <2>1, <2>2 DEF OneReader
<1>6. LogOrder(p)'
  BY LogOrderPops DEF Readable
<1>7. Underway(p)'
  <2>1. ASSUME NEW c \in Conn, Reads(c, p)',
               NEW w \in Elements(pending'), Carries(w, p), w.conn = c
        PROVE  w.event \notin Elements(received'[p])
    BY <1>2, <1>3, <2>1 DEF Readable, Underway
  <2>2. ASSUME NEW c \in Conn, Reads(c, p)', ~Expects(c)',
               NEW i \in Len(received[p]) + 1..Len(store[p])
        PROVE  \E w \in Elements(pending') :
                   Carries(w, p) /\ w.conn = c /\ w.event = store[p][i]
    <3>1. PICK w \in Elements(pending) : Carries(w, p) /\ w.conn = c /\ w.event = store[p][i]
      BY <1>3, <2>2 DEF Readable, Underway
    <3>2. Reads(w.conn, p)' /\ w.kind # "standalone"
      BY <2>2, <3>1 DEF Carries
    <3> QED BY <1>1, <3>1, <3>2
  <2>3. Len(received'[p]) = Len(received[p]) /\ Len(store'[p]) = Len(store[p])
    OBVIOUS
  <2> QED BY <2>1, <2>2, <2>3 DEF Underway, Carries
<1>8. \A w \in Elements(pending') : Replays(w, p)'
  BY <1>2 DEF Readable, Replays
<1> QED BY <1>4, <1>5, <1>6, <1>7, <1>8 DEF Readable

LEMMA FirstInLogOrder ==
  ASSUME TypeOK, NEW p \in Post, LogOrder(p), pending # <<>>, NEW w \in Elements(Tail(pending))
  PROVE  InLogOrder(Head(pending), w, p, store[p])
<1>1. PICK i \in 1..Len(Tail(pending)) : w = Tail(pending)[i]
  BY DEF Elements
<1>2. /\ i + 1 \in 1..Len(pending) /\ w = pending[i + 1] /\ 1 \in 1..Len(pending)
      /\ Head(pending) = pending[1] /\ 1 < i + 1
  BY <1>1, ReadTypes
<1> QED BY <1>2 DEF LogOrder

\* The oldest command that brings something to the client brings what is next.
LEMMA NextInLog ==
  ASSUME StreamInv, PatientInv, Belongs, NEW p \in Post, Readable(p),
         pending # <<>>, NEW h, h = Head(pending), Carries(h, p), h.conn \in Conn, Listening(h.conn)
  PROVE  /\ Reads(h.conn, p) /\ ~Expects(h.conn)
         /\ Len(received[p]) + 1 \in 1..Len(store[p])
         /\ store[p][Len(received[p]) + 1] = h.event
<1>1. /\ h \in Elements(pending) /\ h.event \in Elements(store[p])
      /\ TypeOK /\ Orderly /\ pending \in Seq(Waiting)
      /\ Elements(pending) \subseteq Elements(Tail(pending)) \cup {h}
  BY OldestWaits, ElementsOfTail, ReadTypes DEF StreamInv, PatientInv, Fits, Carries
<1>2. Reads(h.conn, p)
  BY <1>1 DEF Belongs, Reads, Carries
<1>3. ASSUME NEW w \in Elements(pending), w.kind \in Replaying, w.conn = h.conn PROVE FALSE
  <2>1. w \in Elements(Tail(pending))
    BY <1>1, <1>3 DEF Carries, Replaying
  <2>2. InTurn(h, w)
    BY <1>1, <2>1, FirstInTurn
  <2> QED BY <1>3, <2>2 DEF InTurn
<1>4. ~Expects(h.conn)
  BY <1>3 DEF Expects
<1>5. PICK a \in 1..Len(store[p]) : store[p][a] = h.event
  BY <1>1 DEF Elements
<1>6. a > Len(received[p])
  <2>1. h.event \notin Elements(received[p])
    BY <1>1, <1>2 DEF Readable, Underway
  <2> QED BY <1>1, <1>5, <2>1, ReadTypes DEF Elements, Readable, Prefix, Begins, Distinct
<1> DEFINE n == Len(received[p]) + 1
<1>7. n \in 1..Len(store[p]) /\ n \in Len(received[p]) + 1..Len(store[p]) /\ n <= a
  BY <1>1, <1>5, <1>6, ReadTypes
<1>8. PICK w \in Elements(pending) : Carries(w, p) /\ w.conn = h.conn /\ w.event = store[p][n]
  BY <1>2, <1>4, <1>7 DEF Readable, Underway
<1>9. w = h
  <2> SUFFICES ASSUME w # h PROVE FALSE
    OBVIOUS
  <2>1. InLogOrder(h, w, p, store[p])
    BY <1>1, FirstInLogOrder DEF Readable
  <2>2. a < n
    BY <1>5, <1>7, <1>8, <2>1 DEF InLogOrder
  <2> QED BY <1>5, <1>7, <2>2
<1> QED BY <1>2, <1>4, <1>7, <1>8, <1>9

\* It is answered, and written to its response.
LEMMA DeliversKeep ==
  ASSUME StreamInv, PatientInv, Belongs, NEW p \in Post, Readable(p),
         pending # <<>>, pending' = Tail(pending),
         NEW h, h = Head(pending), Carries(h, p), h.conn \in Conn,
         \A c \in Conn : Reads(c, p)' => conn'[c] = conn[c],
         mapping'[p] \in {mapping[p], NoConn}, UNCHANGED store[p],
         received'[p] = IF Listening(h.conn) THEN Append(received[p], h.event) ELSE received[p]
  PROVE  Readable(p)'
<1> DEFINE n == Len(received[p]) + 1
<1>1. /\ h \in Elements(pending) /\ h.event \in Event /\ TypeOK /\ Kept
      /\ Elements(pending) \subseteq Elements(Tail(pending)) \cup {h}
      /\ Elements(pending') \subseteq Elements(pending)
      /\ \A w \in Elements(pending) : AtWork(w)
  BY OldestWaits, ElementsOfTail, ReadTypes, PopsShrinks DEF StreamInv, PatientInv
<1>2. CASE ~Listening(h.conn)
  <2>1. ~Reads(h.conn, p)'
    BY <1>2 DEF Reads, Listening
  <2> QED BY <1>1, <1>2, <2>1, CalmKeeps
<1>3. CASE Listening(h.conn)
  <2>1. /\ Reads(h.conn, p) /\ ~Expects(h.conn)
        /\ n \in 1..Len(store[p]) /\ store[p][n] = h.event
    BY <1>3, NextInLog
  <2>2. /\ received'[p] \in Seq(Event) /\ Len(received'[p]) = n /\ received'[p][n] = h.event
        /\ \A i \in 1..n - 1 : received'[p][i] = received[p][i]
        /\ Elements(received'[p]) = Elements(received[p]) \cup {h.event}
    <3>1. received'[p] = Append(received[p], h.event)
      BY <1>3
    <3>2. Elements(Append(received[p], h.event)) = Elements(received[p]) \cup {h.event}
      BY <1>1, AppendHolds, ReadTypes
    <3> QED BY <1>1, <3>1, <3>2, ReadTypes
  <2>3. Prefix(p)'
    BY <1>1, <2>1, <2>2, ReadTypes DEF Readable, Prefix, Begins, Distinct
  <2>4. ASSUME NEW c \in Conn, Reads(c, p)' PROVE c = h.conn /\ conn'[c] = conn[c]
    <3>1. Reads(c, p) /\ conn'[c] = conn[c]
      BY <2>4 DEF Reads, Listening
    <3> QED BY <2>1, <3>1 DEF Readable, OneReader
  <2>5. OneReader(p)'
    <3>1. h.event \in Elements(received'[p])
      BY <2>2
    <3>2. received'[p] # <<>>
      BY <2>2, <3>1, EmptyHoldsNone
    <3>3. mapping[p] \in {h.conn, NoConn}
      BY <2>1 DEF Readable, OneReader
    <3> QED BY <2>4, <3>2, <3>3 DEF OneReader
  <2>6. LogOrder(p)'
    BY <1>1, LogOrderPops DEF Readable
  <2>7. ASSUME NEW w \in Elements(pending'), Carries(w, p), w.conn = h.conn
        PROVE  w.event \notin Elements(received'[p])
    <3>1. InLogOrder(h, w, p, store[p])
      BY <1>1, <2>7, FirstInLogOrder DEF Readable
    <3>2. w.event # h.event
      BY <1>1, <2>1, <2>7, <3>1, ReadTypes DEF InLogOrder
    <3>3. w.event \notin Elements(received[p])
      BY <1>1, <2>1, <2>7 DEF Readable, Underway
    <3> QED BY <2>2, <3>2, <3>3
  <2>8. ASSUME NEW i \in n + 1..Len(store[p])
        PROVE  \E w \in Elements(pending') :
                   Carries(w, p) /\ w.conn = h.conn /\ w.event = store[p][i]
    <3>1. i \in Len(received[p]) + 1..Len(store[p]) /\ i \in 1..Len(store[p]) /\ i # n
      BY <1>1, <2>1, <2>8, ReadTypes
    <3>2. PICK w \in Elements(pending) :
              Carries(w, p) /\ w.conn = h.conn /\ w.event = store[p][i]
      BY <2>1, <3>1 DEF Readable, Underway
    <3>3. w # h
      BY <2>1, <3>1, <3>2 DEF Readable, Prefix, Begins, Distinct
    <3> QED BY <1>1, <3>2, <3>3
  <2>9. Underway(p)'
    BY <2>2, <2>4, <2>7, <2>8 DEF Underway
  <2>10. ASSUME NEW w \in Elements(pending'), w.stream = p PROVE w.kind \notin Replaying
    <3> SUFFICES ASSUME w.kind \in Replaying PROVE FALSE
      OBVIOUS
    <3>1. Fits(w) /\ AtWork(w)
      BY <1>1 DEF Kept
    <3>2. w.conn \in Conn /\ Reads(w.conn, p)
      BY <2>10, <3>1 DEF Fits, AtWork, Reads, Replaying
    <3>3. w.conn = h.conn
      BY <2>1, <3>2 DEF Readable, OneReader
    <3> QED BY <1>1, <2>1, <3>3 DEF Expects
  <2>11. \A w \in Elements(pending') : Replays(w, p)'
    BY <2>10 DEF Replays, Replaying
  <2> QED BY <2>3, <2>5, <2>6, <2>9, <2>11 DEF Readable
<1> QED BY <1>2, <1>3

\* A command that brings nothing of p is sent; perhaps it begins a replay of p.
LEMMA AddsKeep ==
  ASSUME TypeOK, NEW p \in Post, Readable(p), UNCHANGED <<store[p], received[p]>>,
         mapping'[p] = mapping[p], NEW w \in Waiting, Sends(w), ~Carries(w, p), Replays(w, p),
         \/ \A c \in Conn : Reads(c, p)' => conn'[c] = conn[c]
         \/ /\ w.kind \in Replaying /\ received[p] # <<>>
            /\ \A c \in Conn : Reads(c, p)' => c = w.conn
            /\ \A v \in Elements(pending) : v.conn # w.conn
  PROVE  Readable(p)'
<1>1. Elements(pending') = Elements(pending) \cup {w}
  BY ReadTypes, SendsAdds
<1>2. Prefix(p)'
  BY DEF Readable, Prefix
<1>3. LogOrder(p)'
  <2>1. \A v \in Elements(pending) : InLogOrder(v, w, p, store'[p])
    BY DEF InLogOrder
  <2>2. store'[p] = store[p]
    OBVIOUS
  <2> QED BY <2>1, <2>2, LogOrderSends DEF Readable
<1>4. ASSUME NEW v \in Elements(pending') PROVE Replays(v, p)'
  <2>1. Replays(v, p)
    BY <1>1, <1>4 DEF Readable
  <2> QED BY <2>1 DEF Replays
<1>5. CASE \A c \in Conn : Reads(c, p)' => conn'[c] = conn[c]
  <2>1. ASSUME NEW c \in Conn, Reads(c, p)'
        PROVE  Reads(c, p) /\ conn'[c] = conn[c] /\ (Expects(c) => Expects(c)')
    BY <1>1, <1>5, <2>1 DEF Reads, Listening, Expects
  <2>2. OneReader(p)'
    BY <2>1 DEF Readable, OneReader
  <2>3. ASSUME NEW c \in Conn, Reads(c, p)',
               NEW v \in Elements(pending'), Carries(v, p), v.conn = c
        PROVE  v.event \notin Elements(received'[p])
    BY <1>1, <2>1, <2>3 DEF Readable, Underway
  <2>4. ASSUME NEW c \in Conn, Reads(c, p)', ~Expects(c)',
               NEW i \in Len(received[p]) + 1..Len(store[p])
        PROVE  \E v \in Elements(pending') :
                   Carries(v, p) /\ v.conn = c /\ v.event = store[p][i]
    BY <1>1, <2>1, <2>4 DEF Readable, Underway
  <2>5. Underway(p)'
    BY <2>3, <2>4 DEF Underway, Carries
  <2> QED BY <1>2, <1>3, <1>4, <2>2, <2>5 DEF Readable
<1>6. CASE /\ w.kind \in Replaying /\ received[p] # <<>>
           /\ \A c \in Conn : Reads(c, p)' => c = w.conn
           /\ \A v \in Elements(pending) : v.conn # w.conn
  <2>1. ASSUME NEW c \in Conn, Reads(c, p)' PROVE c = w.conn /\ Expects(c)'
    BY <1>1, <1>6, <2>1 DEF Expects
  <2>2. OneReader(p)'
    BY <1>6, <2>1 DEF OneReader
  <2>3. \A v \in Elements(pending') : Carries(v, p) => v.conn # w.conn
    BY <1>1, <1>6
  <2>4. Underway(p)'
    BY <2>1, <2>3 DEF Underway, Carries
  <2> QED BY <1>2, <1>3, <1>4, <2>2, <2>4 DEF Readable
<1> QED BY <1>5, <1>6

\* A command of a replay goes back into the queue with what comes next.
LEMMA RequeueKeeps ==
  ASSUME TypeOK, Kept, NEW p \in Post, Readable(p),
         UNCHANGED <<store[p], received[p], mapping[p], conn>>, pending # <<>>,
         NEW h, h = Head(pending), h.kind \in Replaying,
         NEW w \in Waiting, w.kind \in Replaying, w.conn = h.conn, Replays(w, p),
         pending' = Append(Tail(pending), w)
  PROVE  Readable(p)'
<1>1. /\ Elements(pending) \subseteq Elements(Tail(pending)) \cup {h}
      /\ Elements(Tail(pending)) \subseteq Elements(pending)
      /\ Elements(pending') = Elements(Tail(pending)) \cup {w}
  <2> DEFINE rest == Tail(pending)
  <2>1. rest \in Seq(Waiting)
    BY OldestWaits
  <2>2. pending' = Append(rest, w)
    OBVIOUS
  <2> HIDE DEF rest
  <2>3. Elements(Append(rest, w)) = Elements(rest) \cup {w}
    BY <2>1, AppendHolds
  <2> QED BY <2>2, <2>3, OldestWaits, ReadTypes, ElementsOfTail DEF rest
<1>2. ~Carries(h, p) /\ ~Carries(w, p)
  BY DEF Carries, Replaying
<1>3. \A v : Carries(v, p) => (v \in Elements(pending') <=> v \in Elements(pending))
  BY <1>1, <1>2
<1>4. ASSUME NEW c \in Conn PROVE (Reads(c, p)' <=> Reads(c, p)) /\ (Expects(c) => Expects(c)')
  BY <1>1 DEF Reads, Listening, Expects
<1>5. Prefix(p)'
  BY DEF Readable, Prefix
<1>6. OneReader(p)'
  BY <1>4 DEF Readable, OneReader
<1>7. LogOrder(p)'
  BY <1>2, LogOrderRequeues DEF Readable
<1>8. Underway(p)'
  <2>1. ASSUME NEW c \in Conn, Reads(c, p)',
               NEW v \in Elements(pending'), Carries(v, p), v.conn = c
        PROVE  v.event \notin Elements(received'[p])
    BY <1>3, <1>4, <2>1 DEF Readable, Underway
  <2>2. ASSUME NEW c \in Conn, Reads(c, p)', ~Expects(c)',
               NEW i \in Len(received[p]) + 1..Len(store[p])
        PROVE  \E v \in Elements(pending') :
                   Carries(v, p) /\ v.conn = c /\ v.event = store[p][i]
    BY <1>3, <1>4, <2>2 DEF Readable, Underway
  <2> QED BY <2>1, <2>2 DEF Underway, Carries
<1>9. ASSUME NEW v \in Elements(pending') PROVE Replays(v, p)'
  <2>1. Replays(v, p)
    BY <1>1, <1>9 DEF Readable
  <2> QED BY <2>1 DEF Replays
<1> QED BY <1>5, <1>6, <1>7, <1>8, <1>9 DEF Readable

\* An event of p is stored and sent to the response that p is mapped to.
LEMMA SentKeeps ==
  ASSUME StreamInv, PatientInv, Belongs, NEW p \in Post, Readable(p),
         UNCHANGED <<received[p], mapping[p], conn>>, mapping[p] # NoConn,
         NEW e \in Event \ (sent \cup {Prime}), Stores(p, e),
         Sends(Command("related", mapping[p], p, e))
  PROVE  Readable(p)'
<1> DEFINE w == Command("related", mapping[p], p, e)
           n == Len(store[p])
<1>1. /\ TypeOK /\ Kept /\ mapping[p] \in Conn
      /\ \A v \in Elements(pending) : Fits(v) /\ AtWork(v)
  BY ReadTypes DEF StreamInv, PatientInv, Kept
<1>2. /\ w \in Waiting /\ w.kind = "related" /\ w.conn = mapping[p] /\ w.stream = p
      /\ w.event = e /\ Sends(w)
  BY <1>1, CommandWaits, EventNames DEF Single, Command
<1> HIDE DEF w
<1>3. Elements(pending') = Elements(pending) \cup {w}
  BY <1>1, <1>2, ReadTypes, SendsAdds
<1>4. e \notin Elements(store[p]) /\ e \notin Elements(received[p])
  BY <1>1, ReadTypes DEF Kept
<1>5. /\ store'[p] \in Seq(Event) /\ n \in Nat /\ Len(store'[p]) = n + 1 /\ store'[p][n + 1] = e
      /\ \A i \in 1..n : store'[p][i] = store[p][i] /\ store[p][i] # e
  <2>1. store'[p] = Append(store[p], e)
    BY <1>1 DEF Stores, TypeOK, Stream
  <2>2. \A i \in 1..n : store[p][i] # e
    BY <1>4 DEF Elements
  <2> QED BY <1>1, <2>1, <2>2, ReadTypes
<1> HIDE DEF n
<1>6. Len(received[p]) <= n
  BY DEF Readable, Prefix, Begins, Distinct, n
<1>7. ASSUME NEW v \in Elements(pending), v.stream = p, NEW a \in 1..n + 1, store'[p][a] = v.event
      PROVE  a \in 1..n
  <2>1. v.event # e
    BY <1>1, <1>4, <1>7 DEF Fits
  <2> QED BY <1>5, <1>7, <2>1
<1>8. Prefix(p)'
  <2>1. ASSUME NEW i \in 1..n + 1, NEW j \in 1..n + 1, store'[p][i] = store'[p][j] PROVE i = j
    <3>1. i \in 1..n /\ j \in 1..n => store[p][i] = store[p][j]
      BY <1>5, <2>1
    <3>2. i \in 1..n /\ j \in 1..n => i = j
      BY <3>1 DEF Readable, Prefix, Distinct, n
    <3>3. i = n + 1 \/ i \in 1..n
      BY <1>5
    <3>4. j = n + 1 \/ j \in 1..n
      BY <1>5
    <3>5. CASE i = n + 1
      BY <1>5, <2>1, <3>4, <3>5
    <3>6. CASE i \in 1..n
      BY <1>5, <2>1, <3>2, <3>4, <3>6
    <3> QED BY <3>3, <3>5, <3>6
  <2>2. \A i \in 1..Len(received[p]) : received[p][i] = store'[p][i]
    BY <1>1, <1>5, <1>6, ReadTypes DEF Readable, Prefix, Begins, Distinct
  <2> QED BY <1>1, <1>5, <1>6, <2>1, <2>2, ReadTypes DEF Prefix, Begins, Distinct
<1>9. ASSUME NEW c \in Conn PROVE (Reads(c, p)' <=> Reads(c, p)) /\ (Expects(c) <=> Expects(c)')
  BY <1>2, <1>3 DEF Reads, Listening, Expects, Replaying
<1>10. OneReader(p)'
  BY <1>9 DEF Readable, OneReader
<1>11. LogOrder(p)'
  <2>1. \A v \in Elements(pending) : InLogOrder(v, w, p, store'[p])
    BY <1>2, <1>5, <1>7 DEF InLogOrder, Carries
  <2>2. ASSUME NEW v \in Elements(pending), NEW u \in Elements(pending),
               InLogOrder(v, u, p, store[p])
        PROVE  InLogOrder(v, u, p, store'[p])
    BY <1>5, <1>7, <2>2 DEF InLogOrder, Carries, n
  <2> QED BY <1>1, <1>2, <2>1, <2>2, LogOrderSends DEF Readable
<1>12. ASSUME NEW c \in Conn, Reads(c, p), NEW v \in Elements(pending'), Carries(v, p), v.conn = c
       PROVE  v.event \notin Elements(received[p])
  BY <1>2, <1>3, <1>4, <1>12 DEF Readable, Underway
<1>13. ASSUME NEW c \in Conn, Reads(c, p), ~Expects(c), NEW i \in Len(received[p]) + 1..n + 1
       PROVE  \E v \in Elements(pending') : Carries(v, p) /\ v.conn = c /\ v.event = store'[p][i]
  <2>1. CASE i = n + 1
    <3>1. c = mapping[p]
      BY <1>1, <1>13, EventNames DEF Readable, OneReader
    <3> QED BY <1>2, <1>3, <1>5, <2>1, <3>1 DEF Carries
  <2>2. CASE i # n + 1
    <3>1. i \in Len(received[p]) + 1..Len(store[p]) /\ i \in 1..n
      BY <1>1, <1>5, <1>13, <2>2, ReadTypes DEF n
    <3>2. PICK v \in Elements(pending) : Carries(v, p) /\ v.conn = c /\ v.event = store[p][i]
      BY <1>13, <3>1 DEF Readable, Underway
    <3>3. store'[p][i] = store[p][i]
      BY <1>5, <3>1
    <3> QED BY <1>3, <3>2, <3>3
  <2> QED BY <2>1, <2>2
<1>14. Underway(p)'
  BY <1>5, <1>9, <1>12, <1>13 DEF Underway, Carries
<1>15. ASSUME NEW v \in Elements(pending') PROVE Replays(v, p)'
  <2>1. v = w \/ v \in Elements(pending)
    BY <1>3, <1>15
  <2>2. v.stream = p => v.kind \notin {"relookup", "list", "fetch"}
    BY <1>1, <1>2, <2>1, EventNames DEF AtWork
  <2>3. v.stream = p /\ v.kind \in Replaying =>
           received[p] # <<>> /\ v.event = received[p][Len(received[p])]
    BY <1>2, <2>1 DEF Readable, Replays, Replaying
  <2> QED BY <2>2, <2>3 DEF Replays
<1> QED BY <1>8, <1>10, <1>11, <1>14, <1>15 DEF Readable

\* Nobody reads a stream that has nothing in it and no response.
LEMMA NoneReads ==
  ASSUME StreamInv, PatientInv, Belongs, NEW p \in Post, ~closed,
         store[p] = <<>>, mapping[p] = NoConn
  PROVE  /\ received[p] = <<>>
         /\ \A w \in Elements(pending) : w.stream # p
         /\ \A c \in Conn : ~Reads(c, p)
<1>1. TypeOK /\ Kept /\ ListenersAreMapped /\ Elements(store[p]) = {}
  BY DEF StreamInv, PatientInv, Elements
<1>2. received[p] = <<>>
  <2>1. Elements(received[p]) = {}
    BY <1>1, ReadTypes DEF Kept
  <2> QED BY <1>1, <2>1, ReadTypes, EmptyHoldsNone
<1>3. \A w \in Elements(pending) : w.stream # p
  BY <1>1 DEF Kept, Fits
<1>4. ASSUME NEW c \in Conn, Reads(c, p) PROVE FALSE
  <2>1. \A w \in Elements(pending) : w.conn # c
    BY <1>3, <1>4 DEF Belongs, Reads
  <2>2. Returned(c)
    BY <2>1, ReturnedHolds
  <2> QED BY <1>1, <1>4, <2>2, EventNames DEF Reads, ListenersAreMapped
<1> QED BY <1>2, <1>3, <1>4

\* A POST opens its stream.
LEMMA PostKeeps ==
  ASSUME StreamInv, PatientInv, Belongs, NEW p \in Post, NEW c \in Conn, PostArrives(p, c)
  PROVE  Readable(p)'
<1> DEFINE w == Command("prime", c, p, Prime)
<1>1. /\ TypeOK /\ received[p] = <<>> /\ received'[p] = <<>> /\ store[p] = <<>>
      /\ \A v \in Elements(pending) : v.stream # p
      /\ \A d \in Conn : ~Reads(d, p)
  BY NoneReads DEF PostArrives, StreamInv
<1>2. /\ mapping'[p] = c /\ conn'[c].kind = "post"
      /\ \A d \in Conn : Reads(d, p)' => d = c
  BY <1>1, ReadTypes, OpenedIsResponse DEF PostArrives, TypeOK, Reads, Listening
<1>3. OneReader(p)'
  BY <1>2 DEF OneReader
<1>4. CASE ~Primed
  <2>1. UNCHANGED <<store, pending>>
    BY <1>4 DEF PostArrives
  <2>2. Prefix(p)' /\ Underway(p)'
    BY <1>1, <2>1 DEF Prefix, Begins, Distinct, Underway, Carries
  <2>3. LogOrder(p)'
    BY <1>1, <2>1 DEF LogOrder, InLogOrder, Carries, Elements
  <2> QED BY <1>1, <1>3, <2>1, <2>2, <2>3 DEF Readable, Replays
<1>5. CASE Primed
  <2>1. /\ w \in Waiting /\ w.kind = "prime" /\ w.conn = c /\ w.stream = p /\ w.event = Prime
        /\ Sends(w) /\ store' = [store EXCEPT ![p] = Append(@, Prime)]
    BY <1>5, CommandWaits, EventNames DEF Single, Command, PostArrives, Stores
  <2> HIDE DEF w
  <2>2. Elements(pending') = Elements(pending) \cup {w}
    BY <1>1, <2>1, ReadTypes, SendsAdds
  <2>3. store'[p] = <<Prime>> /\ Len(store'[p]) = 1 /\ store'[p][1] = Prime
    BY <1>1, <2>1, ReadTypes DEF TypeOK
  <2>4. Prefix(p)'
    BY <1>1, <2>3 DEF Prefix, Begins, Distinct
  <2>5. LogOrder(p)'
    <3>1. \A v, u : v \in Elements(pending) => InLogOrder(v, u, p, store'[p])
      BY <1>1 DEF InLogOrder, Carries
    <3>2. LogOrder(p)
      BY <1>1 DEF LogOrder, InLogOrder, Carries, Elements
    <3> QED BY <1>1, <2>1, <3>1, <3>2, LogOrderSends
  <2>6. Underway(p)'
    <3>1. \A e : e \notin Elements(received'[p])
      BY <1>1 DEF Elements
    <3>2. \A i \in Len(received'[p]) + 1..Len(store'[p]) : store'[p][i] = Prime
      BY <1>1, <2>3
    <3>3. w \in Elements(pending') /\ Carries(w, p)
      BY <2>1, <2>2 DEF Carries
    <3> QED BY <1>2, <2>1, <3>1, <3>2, <3>3 DEF Underway, Carries
  <2>7. ASSUME NEW v \in Elements(pending') PROVE Replays(v, p)'
    BY <1>1, <2>1, <2>2, <2>7 DEF Replays, Replaying
  <2> QED BY <1>3, <2>4, <2>5, <2>6, <2>7 DEF Readable
<1> QED BY <1>4, <1>5

\* old, and the first m of those that follow.
Continued(old, rest, m) == old \o SubSeq(rest, 1, m)

LEMMA Concatenated ==
  ASSUME NEW s \in Seq(Event), NEW t \in Seq(Event)
  PROVE  /\ s \o t \in Seq(Event) /\ Len(s \o t) = Len(s) + Len(t)
         /\ \A i \in 1..Len(s) : (s \o t)[i] = s[i]
         /\ \A i \in 1..Len(t) : (s \o t)[Len(s) + i] = t[i]
OBVIOUS

LEMMA ContinuedHolds ==
  ASSUME NEW old \in Seq(Event), NEW rest \in Seq(Event), NEW m \in 0..Len(rest)
  PROVE  /\ Continued(old, rest, m) \in Seq(Event)
         /\ Len(Continued(old, rest, m)) = Len(old) + m
         /\ \A i \in 1..Len(old) : Continued(old, rest, m)[i] = old[i]
         /\ \A i \in 1..m : Continued(old, rest, m)[Len(old) + i] = rest[i]
<1> DEFINE more == SubSeq(rest, 1, m)
<1>1. more \in Seq(Event) /\ Len(more) = m /\ \A i \in 1..m : more[i] = rest[i]
  OBVIOUS
<1>2. Continued(old, rest, m) = old \o more
  BY DEF Continued
<1> HIDE DEF more
<1>3. /\ old \o more \in Seq(Event) /\ Len(old \o more) = Len(old) + m
      /\ \A i \in 1..Len(old) : (old \o more)[i] = old[i]
      /\ \A i \in 1..m : (old \o more)[Len(old) + i] = more[i]
  BY <1>1, Concatenated
<1> QED BY <1>1, <1>2, <1>3, Zenon

\* A prefix of a log and some of what follows it are a longer prefix.
LEMMA PrefixGrows ==
  ASSUME NEW old \in Seq(Event), NEW rest \in Seq(Event), NEW log \in Seq(Event),
         NEW m \in 0..Len(rest), Begins(old, log), Completes(rest, old, log)
  PROVE  Begins(Continued(old, rest, m), log)
<1> DEFINE new == Continued(old, rest, m)
<1>1. /\ new \in Seq(Event) /\ Len(new) = Len(old) + m
      /\ \A i \in 1..Len(old) : new[i] = old[i]
      /\ \A i \in 1..m : new[Len(old) + i] = rest[i]
  BY ContinuedHolds
<1> HIDE DEF new
<1>2. Len(new) <= Len(log)
  BY <1>1 DEF Completes
<1>3. ASSUME NEW i \in 1..Len(new) PROVE new[i] = log[i]
  <2>1. CASE i <= Len(old)
    BY <1>1, <2>1 DEF Begins
  <2>2. CASE ~(i <= Len(old))
    <3>1. PICK j \in 1..m : i = Len(old) + j
      <4>1. i - Len(old) \in 1..m /\ i = Len(old) + (i - Len(old))
        BY <1>1, <2>2
      <4> QED BY <4>1
    <3>2. j \in 1..Len(rest)
      OBVIOUS
    <3> QED BY <1>1, <3>1, <3>2 DEF Completes
  <2> QED BY <2>1, <2>2
<1> QED BY <1>2, <1>3 DEF Begins, new

\* The events of a replay are written, or the first m of them before the
\* connection of its client broke.
LEMMA FinishKeeps ==
  ASSUME StreamInv, PatientInv, NEW p \in Post, Readable(p), UNCHANGED store[p],
         pending # <<>>, pending' = Tail(pending), NEW h, h = Head(pending),
         h.kind \in {"list", "fetch"}, h.stream = p, mapping'[p] = h.conn,
         NEW m \in 0..Len(h.replay), received'[p] = Continued(received[p], h.replay, m),
         \/ m = Len(h.replay) /\ UNCHANGED conn
         \/ /\ ~Listening(h.conn)'
            /\ \A d \in Conn \ {h.conn} : conn'[d] = conn[d]
  PROVE  Readable(p)'
<1> DEFINE n == Len(received[p])
<1>1. /\ TypeOK /\ Kept /\ pending \in Seq(Waiting) /\ h \in Elements(pending) /\ h.conn \in Conn
      /\ h.replay \in Seq(Event) /\ AtWork(h) /\ Replays(h, p)
      /\ Elements(pending') \subseteq Elements(pending)
      /\ \A w \in Elements(pending') : InTurn(h, w)
  BY OldestWaits, ReplayWaits, ReadTypes, PopsShrinks, FirstInTurn
  DEF StreamInv, PatientInv, Fits, Replaying, Readable
<1>2. received[p] # <<>> /\ Completes(h.replay, received[p], store[p])
  BY <1>1 DEF Replays, Replaying
<1>3. /\ received[p] \in Seq(Event) /\ store[p] \in Seq(Event) /\ n \in Nat
      /\ Distinct(store[p]) /\ Begins(received[p], store[p])
  BY <1>1, ReadTypes DEF Readable, Prefix
<1>4. Begins(received'[p], store[p])
  BY <1>1, <1>2, <1>3, PrefixGrows
<1>5. /\ received'[p] \in Seq(Event) /\ Len(received'[p]) = n + m /\ received'[p] # <<>>
      /\ m = Len(h.replay) => Len(received'[p]) = Len(store[p])
  <2>1. received'[p] \in Seq(Event) /\ Len(received'[p]) = n + m
    <3> DEFINE old == received[p]
               rest == h.replay
    <3>1. old \in Seq(Event) /\ rest \in Seq(Event) /\ m \in 0..Len(rest)
      BY <1>1, <1>3
    <3>2. received'[p] = Continued(old, rest, m)
      OBVIOUS
    <3> HIDE DEF old, rest
    <3>3. Continued(old, rest, m) \in Seq(Event) /\ Len(Continued(old, rest, m)) = Len(old) + m
      BY <3>1, ContinuedHolds
    <3> QED BY <3>2, <3>3 DEF old
  <2>2. n # 0
    BY <1>2, <1>3
  <2>3. n + Len(h.replay) = Len(store[p])
    BY <1>2 DEF Completes
  <2>4. m \in Nat
    BY <1>1
  <2> HIDE DEF n
  <2>5. Len(received'[p]) # 0
    BY <1>3, <2>1, <2>2, <2>4
  <2> QED BY <2>1, <2>3, <2>5
<1>6. Prefix(p)'
  BY <1>3, <1>4 DEF Prefix
<1>7. ASSUME NEW c \in Conn, Reads(c, p)' PROVE c = h.conn /\ m = Len(h.replay)
  <2>1. Reads(h.conn, p)
    BY <1>1 DEF AtWork, Reads, Replaying
  <2>2. Reads(c, p)
    BY <1>7, <2>1 DEF Reads, Listening
  <2> QED BY <1>1, <1>7, <2>1, <2>2 DEF Readable, OneReader, Reads
<1>8. OneReader(p)'
  BY <1>5, <1>7 DEF OneReader
<1>9. LogOrder(p)'
  BY <1>1, LogOrderPops DEF Readable
<1>10. Underway(p)'
  <2>1. \A w \in Elements(pending') : w.conn # h.conn
    BY <1>1 DEF InTurn, Replaying
  <2>2. m = Len(h.replay) => Len(received'[p]) = Len(store'[p])
    BY <1>5
  <2>3. Len(store'[p]) \in Nat
    BY <1>1, ReadTypes
  <2> QED BY <1>7, <2>1, <2>2, <2>3 DEF Underway, Carries
<1>11. ASSUME NEW w \in Elements(pending') PROVE Replays(w, p)'
  <2>1. InTurn(h, w)
    BY <1>1, <1>11
  <2>2. w.kind \notin Replaying \/ w.stream # p
    BY <2>1 DEF InTurn, Replaying
  <2> QED BY <2>2 DEF Replays, Replaying
<1> QED BY <1>6, <1>8, <1>9, <1>10, <1>11 DEF Readable

\* What is listed after the last event that was read is all that was not.
LEMMA AfterCompletes ==
  ASSUME TypeOK, NEW p \in Post, Prefix(p), received[p] # <<>>,
         NEW e, e = received[p][Len(received[p])]
  PROVE  Completes(After(e, p), received[p], store[p])
<1> DEFINE n == Len(received[p])
           log == store[p]
           at == CHOOSE i \in 1..Len(log) : log[i] = e
<1>1. /\ log \in Seq(Event) /\ n \in 1..Len(log) /\ log[n] = e
      /\ \A i, j \in 1..Len(log) : log[i] = log[j] => i = j
  BY ReadTypes DEF Prefix, Begins, Distinct
<1>2. at \in 1..Len(log) /\ log[at] = e
  BY <1>1
<1>3. at = n
  BY <1>1, <1>2
<1>4. After(e, p) = SubSeq(log, at + 1, Len(log))
  BY DEF After
<1> HIDE DEF at, log, n
<1> DEFINE rest == SubSeq(log, n + 1, Len(log))
<1>5. Len(log) \in Nat /\ n \in Nat /\ Len(rest) = Len(log) - n
      /\ \A i \in 1..Len(rest) : rest[i] = log[n + i]
  BY <1>1
<1>6. After(e, p) = rest
  BY <1>3, <1>4
<1> HIDE DEF rest
<1>7. n + Len(rest) = Len(log)
  BY <1>1, <1>5
<1> QED BY <1>5, <1>6, <1>7 DEF Completes, log, n

\* Responses end or stay, and so do streams; no command is new.
LEMMA BelongsStays ==
  ASSUME TypeOK, Belongs, \A c \in Conn : Listening(c)' => conn'[c] = conn[c],
         \A s \in Stream : mapping'[s] \in {mapping[s], NoConn},
         Elements(pending') \subseteq Elements(pending)
  PROVE  Belongs'
<1>1. \A c \in Conn : Listening(c)' => Listening(c) /\ conn'[c] = conn[c]
  BY DEF Listening
<1> QED BY <1>1, EventNames DEF Belongs

\* A command is sent to a response of its stream.
LEMMA BelongsSends ==
  ASSUME TypeOK, Belongs, NEW w \in Waiting, Sends(w), UNCHANGED <<mapping, conn>>,
         w.conn \in Conn /\ Listening(w.conn) => conn[w.conn].stream = w.stream
  PROVE  Belongs'
<1>1. Elements(pending') = Elements(pending) \cup {w}
  BY ReadTypes, SendsAdds DEF TypeOK
<1>2. \A c \in Conn : (Listening(c)' <=> Listening(c)) /\ conn'[c] = conn[c]
  BY DEF Listening
<1> QED BY <1>1, <1>2 DEF Belongs

\* A response begins; its stream is mapped to it, or a command is sent to it.
LEMMA BelongsBegins ==
  ASSUME TypeOK, Belongs, NEW c \in Conn, NEW s \in Stream, Free(c),
         \A d \in Conn \ {c} : conn'[d] = conn[d], conn'[c].stream = s,
         \A t \in Stream : mapping'[t] = mapping[t] \/ (t = s /\ mapping'[t] = c),
         \/ UNCHANGED pending
         \/ \E w \in Waiting : Sends(w) /\ w.conn = c /\ w.stream = s
  PROVE  Belongs'
<1>1. ASSUME NEW w \in Elements(pending'), w.conn \in Conn, Listening(w.conn)'
      PROVE  conn'[w.conn].stream = w.stream
  <2>1. w \in Elements(pending) \/ (w.conn = c /\ w.stream = s)
    <3>1. CASE UNCHANGED pending
      BY <1>1, <3>1
    <3>2. CASE \E v \in Waiting : Sends(v) /\ v.conn = c /\ v.stream = s
      <4>1. PICK v \in Waiting : Sends(v) /\ v.conn = c /\ v.stream = s
        BY <3>2
      <4>2. Elements(pending') = Elements(pending) \cup {v}
        BY <4>1, SendsAdds DEF TypeOK
      <4> QED BY <1>1, <4>1, <4>2
    <3> QED BY <3>1, <3>2
  <2>2. CASE w \in Elements(pending)
    <3>1. w.conn # c
      BY <2>2, FreeHolds
    <3> QED BY <1>1, <2>2, <3>1 DEF Belongs, Listening
  <2> QED BY <2>1, <2>2
<1>2. ASSUME NEW t \in Stream, NEW d \in Conn, mapping'[t] = d, Listening(d)'
      PROVE  conn'[d].stream = t
  <2>1. CASE t = s /\ mapping'[t] = c
    BY <1>2, <2>1
  <2>2. CASE mapping'[t] = mapping[t]
    <3>1. mapping[t] # c
      BY FreeHolds
    <3> QED BY <1>2, <2>2, <3>1 DEF Belongs, Listening
  <2> QED BY <2>1, <2>2
<1> QED BY <1>1, <1>2 DEF Belongs, Listening

LEMMA ReadStays ==
  ASSUME StreamInv, PatientInv, ReadInv, ~RepliesLost, [Next]_vars
  PROVE  ReadInv'
<1> USE EventNames
<1>0. /\ TypeOK /\ Kept /\ Batches /\ Belongs /\ \A p \in Post : Readable(p)
      /\ pending \in Seq(Waiting) /\ mapping \in [Stream -> Conn \cup {NoConn}]
      /\ \A w \in Elements(pending) : AtWork(w) /\ Fits(w)
  BY DEF StreamInv, PatientInv, ReadInv, TypeOK, Kept
\* Responses end, or nothing happens to them.
<1>1. ASSUME \A c \in Conn : Listening(c)' => conn'[c] = conn[c],
             \A s \in Stream : mapping'[s] \in {mapping[s], NoConn}, UNCHANGED store,
             \A p \in Post : received'[p] = received[p],
             NEW h,
             \/ UNCHANGED pending
             \/ /\ pending # <<>> /\ pending' = Tail(pending) /\ h = Head(pending)
                /\ h.kind = "standalone" \/ ~Listening(h.conn)'
      PROVE  ReadInv'
  <2>1. Elements(pending') \subseteq Elements(pending)
    BY <1>0, <1>1, PopsShrinks
  <2>2. Belongs'
    BY <1>0, <1>1, <2>1, BelongsStays
  <2>3. ASSUME NEW p \in Post PROVE Readable(p)'
    <3>1. \A c \in Conn : Reads(c, p)' => conn'[c] = conn[c]
      BY <1>1 DEF Reads
    <3>2. \/ UNCHANGED pending
          \/ /\ pending # <<>> /\ pending' = Tail(pending) /\ h = Head(pending)
             /\ h.kind # "standalone" => ~Reads(h.conn, p)'
      BY <1>1 DEF Reads
    <3>3. UNCHANGED <<store[p], received[p]>> /\ mapping'[p] \in {mapping[p], NoConn}
      BY <1>1
    <3> QED BY <1>0, <3>1, <3>2, <3>3, CalmKeeps
  <2> QED BY <2>2, <2>3 DEF ReadInv
<1>2. ASSUME NEW c \in Conn, \/ conn' = [conn EXCEPT ![c] = Unused]
                             \/ conn' = [conn EXCEPT ![c].heard = FALSE]
                             \/ conn' = [conn EXCEPT ![c].kind = "discarded", ![c].heard = FALSE]
      PROVE  ~Listening(c)' /\ \A d \in Conn : Listening(d)' => conn'[d] = conn[d]
  <2>1. conn[c] \in Response /\ conn \in [Conn -> Response]
    BY <1>0 DEF TypeOK
  <2> QED BY <1>2, <2>1, NoneOpen DEF Listening, Response
\* The oldest command is answered and its event written to its response.
<1>3. ASSUME \A c \in Conn : Listening(c)' => conn'[c] = conn[c],
             \A s \in Stream : mapping'[s] \in {mapping[s], NoConn}, UNCHANGED store,
             pending # <<>>, pending' = Tail(pending), NEW h, h = Head(pending),
             h.kind \in {"prime", "related"}, received' = Written(h.conn, h.stream, <<h.event>>)
      PROVE  ReadInv'
  <2>1. Elements(pending') \subseteq Elements(pending)
    BY <1>0, <1>3, PopsShrinks
  <2>2. Belongs'
    BY <1>0, <1>3, <2>1, BelongsStays
  <2>3. /\ h \in Elements(pending) /\ h.conn \in Conn /\ h.event \in Event
        /\ received \in [Stream -> Seq(Event)] /\ h.stream \in Post
    BY <1>0, <1>3, OldestWaits DEF TypeOK, Fits
  <2>4. \A c \in Conn, s \in Stream : Reads(c, s)' => conn'[c] = conn[c] /\ Reads(c, s)
    BY <1>3 DEF Reads, Listening
  <2>5. ASSUME NEW p \in Post, h.stream = p PROVE Readable(p)'
    <3>1. received[p] \in Seq(Event) /\ received[p] \o <<h.event>> = Append(received[p], h.event)
      BY <2>3
    <3>2. received'[p] = IF Listening(h.conn) THEN Append(received[p], h.event) ELSE received[p]
      BY <1>3, <2>3, <2>5, <3>1 DEF Written
    <3>3. UNCHANGED store[p] /\ mapping'[p] \in {mapping[p], NoConn} /\ Carries(h, p)
      BY <1>3, <2>5 DEF Carries
    <3> QED BY <1>0, <1>3, <2>3, <2>4, <3>2, <3>3, DeliversKeep
  <2>6. ASSUME NEW p \in Post, h.stream # p PROVE Readable(p)'
    <3>1. received'[p] = received[p]
      BY <1>3, <2>3, <2>6 DEF Written
    <3>2. ~Reads(h.conn, p)
      BY <1>0, <2>3, <2>6 DEF Belongs, Reads
    <3>3. UNCHANGED <<store[p], received[p]>> /\ mapping'[p] \in {mapping[p], NoConn}
      BY <1>3, <3>1
    <3>4. h.kind # "standalone" => ~Reads(h.conn, p)'
      BY <2>3, <2>4, <3>2
    <3> QED BY <1>0, <1>3, <2>4, <3>3, <3>4, CalmKeeps
  <2> QED BY <2>2, <2>5, <2>6 DEF ReadInv
<1>4. CASE PrimeStored
  <2>1. PICK h : h = Head(pending)
    OBVIOUS
  <2>2. /\ pending # <<>> /\ pending' = Tail(pending) /\ h.kind = "prime" /\ h.event = Prime
        /\ received' = Written(h.conn, h.stream, <<h.event>>) /\ UNCHANGED <<store, mapping, conn>>
    BY <1>0, <1>4, <2>1, OldestWaits DEF PrimeStored, Answered, Fits
  <2> QED BY <1>3, <2>1, <2>2
<1>5. CASE RelatedStored
  <2>1. PICK h : h = Head(pending)
    OBVIOUS
  <2>2. /\ pending # <<>> /\ pending' = Tail(pending) /\ h.kind = "related" /\ h.conn \in Conn
        /\ h.stream \in Stream /\ UNCHANGED store
        /\ received' = Written(h.conn, h.stream, <<h.event>>)
        /\ UNCHANGED <<mapping, conn>> \/ Cleanup(h.conn, h.stream)
    BY <1>0, <1>5, <2>1, OldestWaits DEF RelatedStored, Answered, Fits
  <2>3. \A c \in Conn : Listening(c)' => conn'[c] = conn[c]
    BY <1>2, <2>2 DEF Cleanup
  <2>4. \A s \in Stream : mapping'[s] \in {mapping[s], NoConn}
    BY <1>0, <2>2 DEF Cleanup
  <2> QED BY <1>3, <2>1, <2>2, <2>3, <2>4
<1>6. CASE StandaloneStored
  <2>1. PICK h : h = Head(pending)
    OBVIOUS
  <2>2. /\ pending # <<>> /\ pending' = Tail(pending) /\ h.kind = "standalone"
        /\ UNCHANGED <<store, mapping, conn>>
        /\ \A p \in Post : received'[p] = received[p]
    BY <1>0, <1>6, <2>1 DEF StandaloneStored, Answered, transport, Written, TypeOK
  <2> QED BY <1>1, <2>1, <2>2
<1>7. CASE PrimeRejected \/ ResumeConflicts \/ ReplayRejected
  <2>1. PICK h : h = Head(pending)
    OBVIOUS
  <2>2. /\ pending # <<>> /\ pending' = Tail(pending) /\ h.kind \in Replaying \cup {"prime"}
        /\ UNCHANGED <<store, mapping, received>>
        /\ \/ conn' = [conn EXCEPT ![h.conn] = Unused]
           \/ conn' = [conn EXCEPT ![h.conn].kind = "discarded", ![h.conn].heard = FALSE]
    BY <1>7, <2>1
    DEF PrimeRejected, ResumeConflicts, ReplayRejected, Answered, transport, Replaying
  <2>3. h.conn \in Conn
    BY <1>0, <2>1, <2>2, OldestWaits DEF Fits, Replaying
  <2>4. ~Listening(h.conn)' /\ \A d \in Conn : Listening(d)' => conn'[d] = conn[d]
    BY <1>2, <2>2, <2>3
  <2> QED BY <1>1, <2>1, <2>2, <2>4
<1>8. ASSUME NEW c \in Conn, Drop(c) \/ Cancel(c) PROVE ReadInv'
  <2>1. /\ UNCHANGED <<pending, store, received>>
        /\ \/ conn' = [conn EXCEPT ![c] = Unused]
           \/ conn' = [conn EXCEPT ![c].heard = FALSE]
        /\ \A s \in Stream : mapping'[s] \in {mapping[s], NoConn}
    BY <1>0, <1>8 DEF Drop, Cancel, transport
  <2>2. \A d \in Conn : Listening(d)' => conn'[d] = conn[d]
    BY <1>2, <2>1
  <2> QED BY <1>1, <2>1, <2>2
<1>9. ASSUME NEW s \in Stream, CloseStream(s) PROVE ReadInv'
  <2>1. PICK c \in Conn : c = mapping[s]
    BY <1>0, <1>9 DEF CloseStream
  <2>2. /\ UNCHANGED <<pending, store, received>> /\ conn' = [conn EXCEPT ![c] = Unused]
        /\ \A t \in Stream : mapping'[t] \in {mapping[t], NoConn}
    BY <1>0, <1>9, <2>1 DEF CloseStream, Cleanup
  <2>3. \A d \in Conn : Listening(d)' => conn'[d] = conn[d]
    BY <1>2, <2>2
  <2> QED BY <1>1, <2>2, <2>3
<1>10. CASE Close
  <2>1. /\ UNCHANGED <<pending, store, received>> /\ \A s \in Stream : mapping'[s] = NoConn
        /\ \A c \in Conn : conn'[c] \in {Unused, conn[c]}
    BY <1>10 DEF Close
  <2>2. \A d \in Conn : Listening(d)' => conn'[d] = conn[d]
    BY <2>1, NoneOpen DEF Listening
  <2> QED BY <1>1, <2>1, <2>2
<1>11. ASSUME UNCHANGED <<mapping, conn, pending, store, received>> PROVE ReadInv'
  BY <1>1, <1>11
\* A response begins.
<1>12. ASSUME NEW c \in Conn, NEW q \in Post, PostArrives(q, c) PROVE ReadInv'
  <2> DEFINE w == Command("prime", c, q, Prime)
  <2>1. /\ w \in Waiting /\ w.kind = "prime" /\ w.conn = c /\ w.stream = q
        /\ UNCHANGED pending \/ Sends(w)
    BY <1>12, CommandWaits DEF PostArrives, Single, Command
  <2> HIDE DEF w
  <2>2. /\ Free(c) /\ conn'[c].stream = q /\ UNCHANGED received
        /\ \A d \in Conn \ {c} : conn'[d] = conn[d]
        /\ \A t \in Stream : mapping'[t] = mapping[t] \/ (t = q /\ mapping'[t] = c)
        /\ \A p \in Post \ {q} : store'[p] = store[p]
    BY <1>0, <1>12, OpenedIsResponse DEF PostArrives, TypeOK, Stores
  <2>3. Belongs'
    BY <1>0, <2>1, <2>2, BelongsBegins
  <2>4. ASSUME NEW p \in Post, p # q PROVE Readable(p)'
    <3>1. \A d \in Conn : Reads(d, p)' => conn'[d] = conn[d]
      BY <2>2, <2>4 DEF Reads
    <3>2. UNCHANGED <<store[p], received[p]>> /\ mapping'[p] = mapping[p]
      BY <2>2, <2>4
    <3>3. ~Carries(w, p) /\ Replays(w, p)
      BY <2>1, <2>4 DEF Carries, Replays
    <3>4. CASE UNCHANGED pending
      BY <1>0, <3>1, <3>2, <3>4, CalmKeeps
    <3>5. CASE Sends(w)
      BY <1>0, <2>1, <3>1, <3>2, <3>3, <3>5, AddsKeep
    <3> QED BY <2>1, <3>4, <3>5
  <2>5. Readable(q)'
    BY <1>0, <1>12, PostKeeps
  <2> QED BY <2>3, <2>4, <2>5 DEF ReadInv
<1>13. ASSUME NEW c \in Conn, GetArrives(c) PROVE ReadInv'
  <2>1. /\ Free(c) /\ conn'[c].stream = GetStream /\ UNCHANGED <<received, store, pending>>
        /\ \A d \in Conn \ {c} : conn'[d] = conn[d]
        /\ \A t \in Stream : mapping'[t] = mapping[t] \/ (t = GetStream /\ mapping'[t] = c)
    BY <1>0, <1>13, OpenedIsResponse DEF GetArrives, TypeOK
  <2>2. Belongs'
    BY <1>0, <2>1, BelongsBegins
  <2>3. ASSUME NEW p \in Post PROVE Readable(p)'
    <3>1. \A d \in Conn : Reads(d, p)' => conn'[d] = conn[d]
      BY <2>1 DEF Reads
    <3>2. UNCHANGED <<store[p], received[p]>> /\ mapping'[p] = mapping[p]
      BY <2>1
    <3> QED BY <1>0, <2>1, <3>1, <3>2, CalmKeeps
  <2> QED BY <2>2, <2>3 DEF ReadInv
<1>14. ASSUME NEW c \in Conn, NEW s \in Stream, ResumeArrives(c, s) PROVE ReadInv'
  <2> DEFINE w == Command("lookup", c, s, LastId(s))
  <2>1. LastId(s) \in Event
    BY <1>0, <1>14, LastIdHolds DEF ResumeArrives, Interrupted, TypeOK
  <2>2. /\ w \in Waiting /\ w.kind = "lookup" /\ w.conn = c /\ w.stream = s /\ Sends(w)
        /\ w.event = received[s][Len(received[s])]
    BY <1>14, <2>1, CommandWaits DEF Single, Command, ResumeArrives, LastId
  <2> HIDE DEF w
  <2>3. /\ Free(c) /\ conn'[c].stream = s /\ UNCHANGED <<received, store, mapping>>
        /\ \A d \in Conn \ {c} : conn'[d] = conn[d]
        /\ received[s] # <<>> /\ \A d \in Conn : ~Reads(d, s)
    BY <1>0, <1>14, OpenedIsResponse
    DEF ResumeArrives, TypeOK, Interrupted, Reads, transport
  <2>4. Belongs'
    BY <1>0, <2>2, <2>3, BelongsBegins
  <2>5. ASSUME NEW p \in Post PROVE Readable(p)'
    <3>1. UNCHANGED <<store[p], received[p]>> /\ mapping'[p] = mapping[p]
      BY <2>3
    <3>2. ~Carries(w, p) /\ Replays(w, p)
      BY <2>2, <2>3 DEF Carries, Replays
    <3>3. CASE p # s
      <4>1. \A d \in Conn : Reads(d, p)' => conn'[d] = conn[d]
        BY <2>3, <3>3 DEF Reads
      <4> QED BY <1>0, <2>2, <3>1, <3>2, <4>1, AddsKeep
    <3>4. CASE p = s
      <4>1. \A d \in Conn : Reads(d, p)' => d = w.conn
        BY <2>2, <2>3, <3>4 DEF Reads, Listening
      <4>2. /\ w.kind \in Replaying /\ received[p] # <<>>
            /\ \A v \in Elements(pending) : v.conn # w.conn
        BY <2>2, <2>3, <3>4, FreeHolds DEF Replaying
      <4> QED BY <1>0, <2>2, <3>1, <3>2, <4>1, <4>2, AddsKeep
    <3> QED BY <3>3, <3>4
  <2> QED BY <2>4, <2>5 DEF ReadInv
\* A message is stored and sent.
<1>15. ASSUME NEW n \in Note, SendStandalone(n) PROVE ReadInv'
  <2> DEFINE w == Command("standalone", NoConn, GetStream, n)
  <2>1. /\ w \in Waiting /\ w.kind = "standalone" /\ w.conn = NoConn /\ w.stream = GetStream
        /\ Sends(w)
    BY <1>15, CommandWaits DEF Single, Command, SendStandalone
  <2> HIDE DEF w
  <2>2. UNCHANGED <<mapping, conn, received>> /\ \A p \in Post : store'[p] = store[p]
    BY <1>0, <1>15 DEF SendStandalone, transport, Stores, TypeOK
  <2>3. Belongs'
    BY <1>0, <2>1, <2>2, BelongsSends
  <2>4. ASSUME NEW p \in Post PROVE Readable(p)'
    <3>1. UNCHANGED <<store[p], received[p]>> /\ mapping'[p] = mapping[p]
          /\ \A d \in Conn : Reads(d, p)' => conn'[d] = conn[d]
      BY <2>2
    <3>2. ~Carries(w, p) /\ Replays(w, p)
      BY <2>1 DEF Carries, Replays
    <3> QED BY <1>0, <2>1, <3>1, <3>2, AddsKeep
  <2> QED BY <2>3, <2>4 DEF ReadInv
<1>16. ASSUME NEW r \in Request, NEW e \in Event, SendRelated(r, e) PROVE ReadInv'
  <2>1. PICK s \in Post : s = streamOf[r] /\ mapping[s] \in Conn /\ mapping[s] # NoConn
    BY <1>0, <1>16 DEF SendRelated, Batches
  <2> DEFINE w == Command("related", mapping[s], s, e)
  <2>2. /\ w \in Waiting /\ w.kind = "related" /\ w.conn = mapping[s] /\ w.stream = s
        /\ Sends(w) /\ Sends(Command("related", mapping[s], s, e))
    BY <1>16, <2>1, CommandWaits DEF Single, Command, SendRelated
  <2>3. /\ UNCHANGED <<mapping, conn, received>> /\ Stores(s, e)
        /\ e \in Event \ (sent \cup {Prime})
    BY <1>16, <2>1 DEF SendRelated, Handles
  <2> HIDE DEF w
  <2>4. Belongs'
    <3>1. w.conn \in Conn /\ Listening(w.conn) => conn[w.conn].stream = w.stream
      BY <1>0, <2>2 DEF Belongs
    <3> QED BY <1>0, <2>2, <2>3, <3>1, BelongsSends
  <2>5. ASSUME NEW p \in Post, p # s PROVE Readable(p)'
    <3>1. UNCHANGED <<store[p], received[p]>> /\ mapping'[p] = mapping[p]
          /\ \A d \in Conn : Reads(d, p)' => conn'[d] = conn[d]
      BY <1>0, <2>1, <2>3, <2>5 DEF Stores, TypeOK
    <3>2. ~Carries(w, p) /\ Replays(w, p)
      BY <2>2, <2>5 DEF Carries, Replays
    <3> QED BY <1>0, <2>2, <3>1, <3>2, AddsKeep
  <2>6. Readable(s)'
    <3>1. UNCHANGED <<received[s], mapping[s], conn>>
      BY <2>3
    <3> QED BY <1>0, <2>1, <2>2, <2>3, <3>1, SentKeeps
  <2> QED BY <2>4, <2>5, <2>6 DEF ReadInv
\* A replay goes on, with its command back in the queue.
<1>17. ASSUME NEW h, h = Head(pending), pending # <<>>, h.kind \in Replaying,
              NEW w \in Waiting, w.kind \in {"relookup", "list", "fetch"},
              w.conn = h.conn, w.stream = h.stream, w.event = h.event,
              \A p \in Post : w.kind \in {"list", "fetch"} /\ w.stream = p =>
                 Completes(w.replay, received[p], store[p]),
              pending' = Append(Tail(pending), w),
              UNCHANGED <<mapping, conn, store, received>>
       PROVE  ReadInv'
  <2>1. h \in Elements(pending) /\ h.conn \in Conn
        /\ Elements(pending') \subseteq Elements(pending) \cup {w}
    BY <1>0, <1>17, OldestWaits, RequeueTypes DEF Fits, Replaying
  <2>2. conn[w.conn].stream = w.stream
    BY <1>0, <1>17, <2>1 DEF AtWork
  <2>3. Belongs'
    <3>1. ASSUME NEW v \in Elements(pending'), v.conn \in Conn, Listening(v.conn)'
          PROVE  conn'[v.conn].stream = v.stream
      BY <1>0, <1>17, <2>1, <2>2, <3>1 DEF Belongs, Listening
    <3>2. ASSUME NEW s \in Stream, mapping[s] \in Conn, Listening(mapping[s])
          PROVE  conn[mapping[s]].stream = s
      BY <1>0, <3>2 DEF Belongs
    <3> QED BY <1>17, <3>1, <3>2 DEF Belongs, Listening
  <2>4. ASSUME NEW p \in Post PROVE Readable(p)'
    <3>1. Replays(h, p)
      BY <1>0, <2>1 DEF Readable
    <3>2. Replays(w, p) /\ w.kind \in Replaying
      BY <1>17, <3>1 DEF Replays, Replaying
    <3>3. UNCHANGED <<store[p], received[p], mapping[p], conn>>
      BY <1>17
    <3> QED BY <1>0, <1>17, <3>2, <3>3, RequeueKeeps
  <2> QED BY <2>3, <2>4 DEF ReadInv
<1>18. ASSUME pending # <<>>, NEW h, h = Head(pending), NEW p \in Post, h.stream = p,
              h.kind \in Replaying
       PROVE  /\ received[p] # <<>> /\ h.event = received[p][Len(received[p])]
              /\ h.kind \in {"list", "fetch"} => Completes(h.replay, received[p], store[p])
  <2>1. Replays(h, p)
    BY <1>0, <1>18, OldestWaits DEF Readable
  <2> QED BY <1>18, <2>1 DEF Replays
<1>19. CASE ResumeAccepted
  <2>1. PICK h : h = Head(pending)
    OBVIOUS
  <2> DEFINE w == [h EXCEPT !.kind = "relookup"]
  <2>2. /\ pending # <<>> /\ pending' = Append(Tail(pending), w) /\ h.kind = "lookup"
        /\ UNCHANGED <<mapping, conn, store, received>>
    BY <1>19, <2>1 DEF ResumeAccepted, Answered, transport
  <2>3. h \in Waiting /\ w \in Waiting
    BY <1>0, <2>1, <2>2, OldestWaits, ReplayWaits DEF Replaying
  <2>4. /\ w.kind = "relookup" /\ w.conn = h.conn /\ w.stream = h.stream /\ w.event = h.event
    BY <2>2, <2>3 DEF Waiting
  <2> HIDE DEF w
  <2> QED BY <1>17, <2>1, <2>2, <2>3, <2>4 DEF Replaying
<1>20. CASE ReplayLists
  <2>1. PICK h : h = Head(pending)
    OBVIOUS
  <2> DEFINE w == [kind |-> "list", conn |-> h.conn, stream |-> h.stream, event |-> h.event,
                   replay |-> After(h.event, h.stream)]
  <2>2. /\ pending # <<>> /\ pending' = Append(Tail(pending), w) /\ h.kind = "relookup"
        /\ UNCHANGED <<mapping, conn, store, received>>
    BY <1>20, <2>1 DEF ReplayLists, Answered, transport
  <2>3. w \in Waiting
    <3>1. After(h.event, h.stream) \in Seq(Event)
      BY <1>0, <2>1, <2>2, OldestWaits, AfterHolds DEF Fits, TypeOK
    <3> QED BY <1>0, <2>1, <2>2, <3>1, ReplayWaits DEF Replaying
  <2>4. /\ w.kind = "list" /\ w.conn = h.conn /\ w.stream = h.stream /\ w.event = h.event
        /\ w.replay = After(h.event, h.stream)
    OBVIOUS
  <2> HIDE DEF w
  <2>5. ASSUME NEW p \in Post, w.stream = p PROVE Completes(w.replay, received[p], store[p])
    <3>1. received[p] # <<>> /\ h.event = received[p][Len(received[p])]
      BY <1>18, <2>1, <2>2, <2>4, <2>5 DEF Replaying
    <3>2. Prefix(p)
      BY <1>0 DEF Readable
    <3>3. Completes(After(h.event, p), received[p], store[p])
      BY <1>0, <3>1, <3>2, AfterCompletes
    <3> QED BY <2>4, <2>5, <3>3
  <2> QED BY <1>17, <2>1, <2>2, <2>3, <2>4, <2>5 DEF Replaying
<1>21. CASE ReplayFetches
  <2>1. PICK h : h = Head(pending)
    OBVIOUS
  <2> DEFINE w == [h EXCEPT !.kind = "fetch"]
  <2>2. /\ pending # <<>> /\ pending' = Append(Tail(pending), w) /\ h.kind = "list"
        /\ UNCHANGED <<mapping, conn, store, received>>
    BY <1>21, <2>1 DEF ReplayFetches, Answered, transport
  <2>3. h \in Waiting /\ w \in Waiting
    BY <1>0, <2>1, <2>2, OldestWaits, ReplayWaits DEF Replaying
  <2>4. /\ w.kind = "fetch" /\ w.conn = h.conn /\ w.stream = h.stream /\ w.event = h.event
        /\ w.replay = h.replay
    BY <2>2, <2>3 DEF Waiting
  <2> HIDE DEF w
  <2>5. ASSUME NEW p \in Post, w.stream = p PROVE Completes(w.replay, received[p], store[p])
    BY <1>18, <2>1, <2>2, <2>4, <2>5 DEF Replaying
  <2> QED BY <1>17, <2>1, <2>2, <2>3, <2>4, <2>5 DEF Replaying
\* Its stream gets the new response.
<1>22. CASE ReplayFinishes
  <2>1. PICK h : h = Head(pending)
    OBVIOUS
  <2>2. /\ pending # <<>> /\ pending' = Tail(pending) /\ UNCHANGED store
        /\ h.kind \in {"list", "fetch"} /\ mapping' = [mapping EXCEPT ![h.stream] = h.conn]
    BY <1>22, <2>1 DEF ReplayFinishes, Answered
  <2>3. /\ h \in Elements(pending) /\ h.conn \in Conn /\ h.stream \in Stream
        /\ h.replay \in Seq(Event) /\ Elements(pending') \subseteq Elements(pending)
        /\ Listening(h.conn) /\ conn[h.conn].stream = h.stream
        /\ received \in [Stream -> Seq(Event)]
    BY <1>0, <2>1, <2>2, OldestWaits, ReplayWaits, PopsShrinks
    DEF Fits, AtWork, Replaying, TypeOK
  <2>4. /\ mapping'[h.stream] = h.conn
        /\ \A s \in Stream \ {h.stream} : mapping'[s] = mapping[s]
    BY <1>0, <2>2, <2>3
  <2>5. PICK m \in 0..Len(h.replay) :
           /\ received' = [received EXCEPT ![h.stream] = Continued(@, h.replay, m)]
           /\ \/ m = Len(h.replay) /\ UNCHANGED conn
              \/ conn' = [conn EXCEPT ![h.conn].heard = FALSE]
    <3>1. CASE received' = Written(h.conn, h.stream, h.replay) /\ UNCHANGED conn
      <4>1. SubSeq(h.replay, 1, Len(h.replay)) = h.replay /\ Len(h.replay) \in 0..Len(h.replay)
        BY <2>3
      <4> QED BY <2>3, <3>1, <4>1 DEF Written, Continued
    <3>2. ASSUME NEW n \in 0..Len(h.replay) - 1,
                 received' = Written(h.conn, h.stream, SubSeq(h.replay, 1, n)),
                 conn' = [conn EXCEPT ![h.conn].heard = FALSE]
          PROVE  \E m \in 0..Len(h.replay) :
                    /\ received' = [received EXCEPT ![h.stream] = Continued(@, h.replay, m)]
                    /\ conn' = [conn EXCEPT ![h.conn].heard = FALSE]
      <4>1. n \in 0..Len(h.replay)
        BY <2>3
      <4> QED BY <2>3, <3>2, <4>1 DEF Written, Continued
    <3> QED BY <1>22, <2>1, <3>1, <3>2 DEF ReplayFinishes
  <2>6. /\ \A d \in Conn \ {h.conn} : conn'[d] = conn[d]
        /\ UNCHANGED conn \/ ~Listening(h.conn)'
        /\ \A d \in Conn : Listening(d)' => conn'[d] = conn[d] /\ Listening(d)
    BY <1>0, <1>2, <2>3, <2>5 DEF TypeOK, Listening
  <2>7. Belongs'
    <3>1. ASSUME NEW s \in Stream, NEW d \in Conn, mapping'[s] = d, Listening(d)'
          PROVE  conn'[d].stream = s
      <4>1. CASE s = h.stream
        BY <2>3, <2>4, <2>6, <3>1, <4>1
      <4>2. CASE s # h.stream
        BY <1>0, <2>4, <2>6, <3>1, <4>2 DEF Belongs
      <4> QED BY <4>1, <4>2
    <3>2. ASSUME NEW v \in Elements(pending'), v.conn \in Conn, Listening(v.conn)'
          PROVE  conn'[v.conn].stream = v.stream
      BY <1>0, <2>3, <2>6, <3>2 DEF Belongs
    <3> QED BY <3>1, <3>2 DEF Belongs
  <2>8. ASSUME NEW p \in Post, h.stream = p PROVE Readable(p)'
    <3>1. /\ received'[p] = Continued(received[p], h.replay, m) /\ UNCHANGED store[p]
          /\ mapping'[p] = h.conn
      BY <2>2, <2>3, <2>4, <2>5, <2>8
    <3>2. \/ m = Len(h.replay) /\ UNCHANGED conn
          \/ ~Listening(h.conn)' /\ \A d \in Conn \ {h.conn} : conn'[d] = conn[d]
      BY <1>2, <2>3, <2>5, <2>6
    <3> QED BY <1>0, <2>1, <2>2, <2>8, <3>1, <3>2, FinishKeeps
  <2>9. ASSUME NEW p \in Post, h.stream # p PROVE Readable(p)'
    <3>1. UNCHANGED <<store[p], received[p]>> /\ mapping'[p] \in {mapping[p], NoConn}
      BY <2>2, <2>3, <2>4, <2>5, <2>9
    <3>2. \A d \in Conn : Reads(d, p)' => conn'[d] = conn[d]
      BY <2>6 DEF Reads
    <3>3. h.kind # "standalone" => ~Reads(h.conn, p)'
      BY <2>3, <2>6, <2>9 DEF Reads
    <3> QED BY <1>0, <2>1, <2>2, <3>1, <3>2, <3>3, CalmKeeps
  <2> QED BY <2>7, <2>8, <2>9 DEF ReadInv
<1>23. ASSUME NEW r \in Request, HandlerSends(r) \/ HandlerAborted(r) PROVE ReadInv'
  <2>1. CASE HandlerAborted(r)
    BY <1>11, <2>1 DEF HandlerAborted
  <2>2. ASSUME NEW e \in Event, SendUnconnected(r, e) \/ SendRejected(r, e) PROVE ReadInv'
    BY <1>11, <2>2 DEF SendUnconnected, SendRejected
  <2> QED BY <1>16, <1>23, <2>1, <2>2 DEF HandlerSends
<1>24. CASE TransportStep
  <2>1. ~StoreReplyLost
    BY DEF StoreReplyLost
  <2> QED BY <1>4, <1>5, <1>6, <1>7, <1>8, <1>9, <1>15, <1>19, <1>20, <1>21, <1>22, <1>23, <1>24,
             <2>1 DEF TransportStep, ValkeyReplies, ValkeyRejects
<1>25. ASSUME NEW c \in Conn, RequestArrives(c) PROVE ReadInv'
  BY <1>12, <1>13, <1>14, <1>25 DEF RequestArrives
<1>26. CASE UNCHANGED vars
  BY <1>11, <1>26 DEF vars, transport
<1> QED BY <1>10, <1>24, <1>25, <1>26 DEF Next

LEMMA BeginningIsSubSeq ==
  ASSUME NEW s \in Seq(Event), NEW log \in Seq(Event), Begins(s, log)
  PROVE  s = SubSeq(log, 1, Len(s))
<1>1. Len(s) \in 0..Len(log) /\ \A i \in 1..Len(s) : s[i] = log[i]
  BY DEF Begins
<1> QED BY <1>1

\* A client that has got more of one stream has got the next events of its log.
LEMMA ReadsOn ==
  ASSUME TypeOK, TypeOK', ReadInv, ReadInv', NEW p \in Post,
         \A q \in Post : store'[q] = store[q],
         \A q \in Post \ {p} : received'[q] = received[q],
         Len(received[p]) <= Len(received'[p])
  PROVE  [Resumable!Next]_(Resumable!streamVars)
<1> DEFINE logs == [q \in Post |-> store[q]]
           reads == [q \in Post |-> received[q]]
           n == Len(received'[p])
<1>1. /\ received[p] \in Seq(Event) /\ received'[p] \in Seq(Event) /\ store[p] \in Seq(Event)
      /\ Begins(received[p], store[p]) /\ Begins(received'[p], store[p])
  <2>1. Prefix(p) /\ Prefix(p)' /\ store'[p] = store[p]
    BY DEF ReadInv, Readable
  <2> QED BY <2>1, EventNames DEF Prefix, TypeOK
<1>2. /\ received[p] = SubSeq(store[p], 1, Len(received[p]))
      /\ received'[p] = SubSeq(store[p], 1, n)
  BY <1>1, BeginningIsSubSeq
<1>3. logs' = logs
  OBVIOUS
<1>4. CASE n = Len(received[p])
  <2>1. received'[p] = received[p]
    BY <1>2, <1>4
  <2>2. reads' = reads
    BY <2>1
  <2> QED BY <1>3, <2>2 DEF Resumable!streamVars
<1>5. CASE n # Len(received[p])
  <2>1. PICK m \in 1..Len(store[p]) : m = n /\ Len(received[p]) < m
    BY <1>1, <1>5 DEF Begins
  <2>2. reads' = [reads EXCEPT ![p] = SubSeq(logs[p], 1, m)]
    BY <1>2, <2>1
  <2>3. Len(reads[p]) < m /\ m \in 1..Len(logs[p])
    BY <2>1
  <2>4. Resumable!Deliver(p, m)
    BY <1>3, <2>2, <2>3 DEF Resumable!Deliver
  <2> QED BY <2>3, <2>4 DEF Resumable!Next
<1> QED BY <1>4, <1>5

\* Each step of the transport records an event, delivers some, or does neither.
LEMMA StreamStepIsLogStep ==
  ASSUME StreamInv, StreamInv', ReadInv, ReadInv', ~RepliesLost, [Next]_vars
  PROVE  [Resumable!Next]_(Resumable!streamVars)
<1> USE EventNames
<1>0. TypeOK /\ TypeOK' /\ Kept /\ Batches
  BY DEF StreamInv
<1>1. ASSUME \A p \in Post : store'[p] = store[p] /\ received'[p] = received[p]
      PROVE  [Resumable!Next]_(Resumable!streamVars)
  BY <1>1 DEF Resumable!streamVars
<1>2. ASSUME NEW p \in Post, NEW e \in Event, e \notin Elements(store[p]), Stores(p, e),
             UNCHANGED received
      PROVE  [Resumable!Next]_(Resumable!streamVars)
  <2> DEFINE logs == [q \in Post |-> store[q]]
  <2>1. logs' = [logs EXCEPT ![p] = Append(@, e)]
    BY <1>0, <1>2 DEF Stores, TypeOK
  <2>2. \A i \in 1..Len(logs[p]) : logs[p][i] # e
    BY <1>2 DEF Elements
  <2>3. Resumable!Record(p, e)
    BY <1>2, <2>1, <2>2 DEF Resumable!Record
  <2> QED BY <2>3 DEF Resumable!Next
\* Events are written to a response.
<1>3. ASSUME NEW c, NEW s \in Stream, NEW events \in Seq(Event),
             received' = Written(c, s, events), UNCHANGED store
      PROVE  [Resumable!Next]_(Resumable!streamVars)
  <2>1. \A t \in Stream \ {s} : received'[t] = received[t]
    BY <1>0, <1>3 DEF Written, TypeOK
  <2>2. CASE s \notin Post
    BY <1>1, <1>3, <2>1, <2>2
  <2>3. CASE s \in Post
    <3>1. received'[s] = received[s] \/ received'[s] = received[s] \o events
      BY <1>0, <1>3 DEF Written, TypeOK
    <3>2. Len(received[s]) <= Len(received'[s])
      <4>1. /\ received[s] \in Seq(Event)
            /\ Len(received[s] \o events) = Len(received[s]) + Len(events)
        BY <1>0 DEF TypeOK
      <4> QED BY <3>1, <4>1
    <3> QED BY <1>0, <1>3, <2>1, <2>3, <3>2, ReadsOn
  <2> QED BY <2>2, <2>3
<1>4. ASSUME NEW c \in Conn, RequestArrives(c) PROVE [Resumable!Next]_(Resumable!streamVars)
  <2>1. CASE UNCHANGED <<store, received>>
    BY <1>1, <2>1
  <2>2. ASSUME NEW p \in Post, PostArrives(p, c), ~UNCHANGED store
        PROVE  [Resumable!Next]_(Resumable!streamVars)
    <3>1. Prime \notin Elements(store[p]) /\ Stores(p, Prime) /\ UNCHANGED received
      BY <2>2 DEF PostArrives, Elements
    <3> QED BY <1>2, <3>1
  <2> QED BY <1>4, <2>1, <2>2
          DEF RequestArrives, PostArrives, GetArrives, ResumeArrives
<1>5. ASSUME NEW n \in Note, SendStandalone(n) PROVE [Resumable!Next]_(Resumable!streamVars)
  BY <1>0, <1>1, <1>5 DEF SendStandalone, Stores, TypeOK
<1>6. ASSUME NEW r \in Request, HandlerSends(r) \/ HandlerAborted(r)
      PROVE  [Resumable!Next]_(Resumable!streamVars)
  <2>1. CASE UNCHANGED <<store, received>>
    BY <1>1, <2>1
  <2>2. ASSUME NEW e \in Event, SendRelated(r, e) PROVE [Resumable!Next]_(Resumable!streamVars)
    <3>1. /\ streamOf[r] \in Post /\ Stores(streamOf[r], e) /\ UNCHANGED received
          /\ e \notin sent \cup {Prime}
      BY <1>0, <2>2 DEF SendRelated, Handles, Batches
    <3>2. e \notin Elements(store[streamOf[r]])
      BY <1>0, <3>1 DEF Kept
    <3> QED BY <1>2, <3>1, <3>2
  <2> QED BY <1>6, <2>1, <2>2
          DEF HandlerSends, HandlerAborted, SendUnconnected, SendRejected
<1>7. CASE PrimeStored \/ RelatedStored \/ StandaloneStored
  <2>1. PICK h : h = Head(pending)
    OBVIOUS
  <2>2. /\ pending # <<>> /\ UNCHANGED store
        /\ \/ UNCHANGED received
           \/ received' = Written(h.conn, h.stream, <<Prime>>)
           \/ received' = Written(h.conn, h.stream, <<h.event>>)
           \/ received' = Written(mapping[GetStream], GetStream, <<h.event>>)
    BY <1>7, <2>1 DEF PrimeStored, RelatedStored, StandaloneStored, Answered
  <2>3. h.stream \in Stream /\ <<h.event>> \in Seq(Event) /\ <<Prime>> \in Seq(Event)
    BY <1>0, <2>1, <2>2, OldestWaits, OneEvent
  <2> QED BY <1>1, <1>3, <2>2, <2>3
<1>8. CASE ReplayFinishes
  <2>1. PICK h : h = Head(pending)
    OBVIOUS
  <2>2. /\ pending # <<>> /\ UNCHANGED store /\ h.kind \in {"list", "fetch"}
        /\ \/ received' = Written(h.conn, h.stream, h.replay)
           \/ \E n \in 0..Len(h.replay) - 1 :
                 received' = Written(h.conn, h.stream, SubSeq(h.replay, 1, n))
    BY <1>8, <2>1 DEF ReplayFinishes, Answered
  <2>3. h.stream \in Stream /\ h.replay \in Seq(Event)
    BY <1>0, <2>1, <2>2, OldestWaits, ReplayWaits DEF Replaying
  <2>4. \A n \in 0..Len(h.replay) - 1 : SubSeq(h.replay, 1, n) \in Seq(Event)
    BY <2>3
  <2> QED BY <1>3, <2>2, <2>3, <2>4
<1>9. CASE TransportStep
  <2>1. CASE UNCHANGED <<store, received>>
    BY <1>1, <2>1
  <2>2. \/ UNCHANGED <<store, received>> \/ ReplayFinishes
        \/ PrimeStored \/ RelatedStored \/ StandaloneStored
        \/ \E n \in Note : SendStandalone(n)
        \/ \E r \in Request : HandlerSends(r) \/ HandlerAborted(r)
    BY <1>9 DEF TransportStep, ValkeyReplies, ValkeyRejects, Drop, Cancel, CloseStream,
       PrimeRejected, StoreReplyLost, ReplayRejected, ResumeConflicts, ResumeAccepted,
       ReplayLists, ReplayFetches
  <2> QED BY <1>5, <1>6, <1>7, <1>8, <2>1, <2>2
<1>10. CASE Close \/ UNCHANGED vars
  BY <1>1, <1>10 DEF Close, vars
<1> QED BY <1>4, <1>9, <1>10 DEF Next

\* This holds in every reachable state, with patient clients and a Valkey that
\* loses no replies.
THEOREM ReadInvariance == Patient /\ ~RepliesLost /\ Spec => []ReadInv
<1> SUFFICES ASSUME Patient, ~RepliesLost PROVE Spec => []ReadInv
  OBVIOUS
<1>1. StreamInv /\ PatientInv /\ [Next]_vars => PatientInv'
  BY PatientStays
<1>2. StreamInv /\ PatientInv /\ ReadInv /\ [Next]_vars => ReadInv'
  BY ReadStays
<1> QED BY <1>1, <1>2, PatientStarts, ReadsAtStart, StreamInvariance, PTL DEF Spec

\* With patient clients, and a Valkey that loses no replies, the stream of a POST
\* is a resumable stream.
THEOREM StreamsAreResumable == Patient /\ ~RepliesLost /\ Spec => ResumableSpec
<1> SUFFICES ASSUME Patient, ~RepliesLost PROVE Spec => ResumableSpec
  OBVIOUS
<1>1. Init => Resumable!Init
  <2> SUFFICES ASSUME Init PROVE Resumable!Init
    OBVIOUS
  <2>1. \A p \in Post : store[p] = <<>> /\ received[p] = <<>>
    BY EventNames DEF Init
  <2> QED BY <2>1 DEF Resumable!Init
<1>2. StreamInv /\ StreamInv' /\ ReadInv /\ ReadInv' /\ [Next]_vars
         => [Resumable!Next]_(Resumable!streamVars)
  BY StreamStepIsLogStep
<1>3. Spec => []ReadInv
  BY ReadInvariance
<1> QED BY <1>1, <1>2, <1>3, StreamInvariance, PTL DEF Spec, ResumableSpec, Resumable!Spec

\* A client that waits, with no command for its response under way, has all that
\* was stored for it: what it waits for has not gone astray.
WaitersHaveAll ==
    \A p \in Post, c \in Conn :
        Reads(c, p) /\ (\A w \in Elements(pending) : w.conn # c) => received[p] = store[p]

\* What is stored for a POST whose client listens is on its way to it, unless a
\* reply of Valkey was lost (streamableHttp.ts:497-542, 964-980).
THEOREM WaitersAreServed == Patient /\ ~RepliesLost /\ Spec => []WaitersHaveAll
<1> SUFFICES ASSUME Patient, ~RepliesLost PROVE Spec => []WaitersHaveAll
  OBVIOUS
<1>1. StreamInv /\ ReadInv => WaitersHaveAll
  <2> SUFFICES ASSUME StreamInv, ReadInv, NEW p \in Post, NEW c \in Conn, Reads(c, p),
                      \A w \in Elements(pending) : w.conn # c
               PROVE  received[p] = store[p]
    BY DEF WaitersHaveAll
  <2>1. ~Expects(c)
    BY DEF Expects
  <2>2. \A i \in Len(received[p]) + 1..Len(store[p]) : FALSE
    BY <2>1 DEF ReadInv, Readable, Underway
  <2>3. Begins(received[p], store[p])
    BY DEF ReadInv, Readable, Prefix
  <2>4. /\ store[p] \in Seq(Event) /\ received[p] \in Seq(Event)
        /\ Len(store[p]) \in Nat /\ Len(received[p]) \in Nat
    BY ReadTypes DEF StreamInv
  <2>5. Len(received[p]) = Len(store[p])
    BY <2>2, <2>3, <2>4 DEF Begins
  <2> QED BY <2>3, <2>4, <2>5 DEF Begins
<1> QED BY <1>1, ReadInvariance, StreamInvariance, PTL

-----------------------------------------------------------------------------
(* Order without patience                                                  *)

\* Where both are in the log, a is before b.
Before(a, b, log) == \A i, j \in 1..Len(log) : log[i] = a /\ log[j] = b => i < j

AllBefore(events, e, log) == \A x \in Elements(events) : Before(x, e, log)

Ascending(events, log) ==
    \A i, j \in 1..Len(events) : i < j => Before(events[i], events[j], log)

\* A log keeps its order when it grows by an event that it has not.
LEMMA OrderGrows ==
  ASSUME NEW log \in Seq(Event), NEW e \in Event, e \notin Elements(log)
  PROVE  /\ Distinct(log) => Distinct(Append(log, e))
         /\ \A a, b \in Elements(log) : Before(a, b, log) => Before(a, b, Append(log, e))
         /\ \A a \in Elements(log) : Before(a, e, Append(log, e))
<1>1. /\ Len(log) \in Nat /\ Len(Append(log, e)) = Len(log) + 1
      /\ Append(log, e)[Len(log) + 1] = e
      /\ \A i \in 1..Len(log) : Append(log, e)[i] = log[i] /\ log[i] # e
  BY DEF Elements
<1>2. \A i \in 1..Len(log) + 1 : i \in 1..Len(log) \/ i = Len(log) + 1
  BY <1>1
<1> DEFINE longer == Append(log, e)
<1> HIDE DEF longer
<1>3. Distinct(log) => Distinct(longer)
  BY <1>1, <1>2 DEF Distinct, longer
<1>4. ASSUME NEW a \in Elements(log), NEW b \in Elements(log), Before(a, b, log)
      PROVE  Before(a, b, longer)
  <2>1. a # e /\ b # e
    OBVIOUS
  <2> QED BY <1>1, <1>2, <1>4, <2>1 DEF Before, longer
<1>5. ASSUME NEW a \in Elements(log) PROVE Before(a, e, longer)
  <2>1. \A i \in 1..Len(log) + 1 : longer[i] = a => i <= Len(log)
    BY <1>1, <1>2, a # e DEF longer
  <2>2. \A j \in 1..Len(log) + 1 : longer[j] = e => j = Len(log) + 1
    BY <1>1, <1>2 DEF longer
  <2> QED BY <1>1, <2>1, <2>2 DEF Before, longer
<1> QED BY <1>3, <1>4, <1>5 DEF longer

LEMMA BeforeChains ==
  ASSUME NEW log \in Seq(Event), NEW a, NEW b \in Elements(log), NEW c,
         Before(a, b, log), Before(b, c, log)
  PROVE  Before(a, c, log)
<1>1. PICK k \in 1..Len(log) : log[k] = b
  BY DEF Elements
<1>2. ASSUME NEW i \in 1..Len(log), NEW j \in 1..Len(log), log[i] = a, log[j] = c
      PROVE  i < j
  <2>1. i < k /\ k < j
    BY <1>1, <1>2 DEF Before
  <2> QED BY <1>1, <2>1
<1> QED BY <1>2 DEF Before

\* What is after the last of some events is after all of them.
LEMMA AfterTheLast ==
  ASSUME NEW log \in Seq(Event), NEW events \in Seq(Event), events # <<>>,
         Ascending(events, log), NEW last, last = events[Len(events)],
         last \in Elements(log), NEW e, Before(last, e, log)
  PROVE  AllBefore(events, e, log)
<1>1. ASSUME NEW i \in 1..Len(events) PROVE Before(events[i], e, log)
  <2>1. Len(events) \in 1..Len(events) /\ (i < Len(events) \/ i = Len(events))
    OBVIOUS
  <2>2. CASE i = Len(events)
    BY <2>2
  <2>3. CASE i < Len(events)
    <3>1. Before(events[i], last, log)
      BY <2>1, <2>3 DEF Ascending
    <3> QED BY <3>1, BeforeChains
  <2> QED BY <2>1, <2>2, <2>3
<1> QED BY <1>1 DEF AllBefore, Elements

\* Events that follow others, all of them later, continue their order.
LEMMA AscendingOn ==
  ASSUME NEW log, NEW old \in Seq(Event), NEW new \in Seq(Event),
         Ascending(old, log), Ascending(new, log),
         \A x \in Elements(new) : AllBefore(old, x, log)
  PROVE  Ascending(old \o new, log)
<1> DEFINE both == old \o new
<1>1. /\ Len(old) \in Nat /\ Len(new) \in Nat /\ Len(both) = Len(old) + Len(new)
      /\ \A i \in 1..Len(old) : both[i] = old[i]
      /\ \A i \in 1..Len(new) : both[Len(old) + i] = new[i]
  BY Concatenated
<1> HIDE DEF both
<1>2. ASSUME NEW i \in 1..Len(both)
      PROVE  \/ i \in 1..Len(old) /\ both[i] = old[i]
             \/ i - Len(old) \in 1..Len(new) /\ both[i] = new[i - Len(old)]
  <2>1. CASE i <= Len(old)
    BY <1>1, <2>1
  <2>2. CASE i > Len(old)
    <3>1. i - Len(old) \in 1..Len(new) /\ Len(old) + (i - Len(old)) = i
      BY <1>1, <2>2
    <3> QED BY <1>1, <3>1
  <2> QED BY <1>1, <2>1, <2>2
<1>3. ASSUME NEW i \in 1..Len(both), NEW j \in 1..Len(both), i < j
      PROVE  Before(both[i], both[j], log)
  <2>1. CASE i \in 1..Len(old) /\ j \in 1..Len(old)
    BY <1>1, <1>3, <2>1 DEF Ascending
  <2>2. CASE i \in 1..Len(old) /\ j - Len(old) \in 1..Len(new)
    <3>1. both[i] = old[i] /\ old[i] \in Elements(old)
      BY <1>1, <2>2 DEF Elements
    <3>2. both[j] \in Elements(new)
      <4>1. j \notin 1..Len(old)
        BY <1>1, <2>2
      <4> QED BY <1>2, <4>1 DEF Elements
    <3> QED BY <3>1, <3>2 DEF AllBefore
  <2>3. CASE i - Len(old) \in 1..Len(new) /\ j - Len(old) \in 1..Len(new)
    <3>1. i \notin 1..Len(old) /\ j \notin 1..Len(old) /\ i - Len(old) < j - Len(old)
      BY <1>1, <1>3, <2>3
    <3>2. both[i] = new[i - Len(old)] /\ both[j] = new[j - Len(old)]
      BY <1>2, <3>1
    <3> QED BY <2>3, <3>1, <3>2 DEF Ascending
  <2>4. CASE i - Len(old) \in 1..Len(new) /\ j \in 1..Len(old)
    BY <1>1, <1>3, <2>4
  <2> QED BY <1>2, <2>1, <2>2, <2>3, <2>4
<1> QED BY <1>3 DEF Ascending, both

LEMMA FewAscend ==
  /\ \A log : Ascending(<<>>, log)
  /\ \A log, e : Ascending(<<e>>, log)
  /\ \A log, e : AllBefore(<<>>, e, log)
BY DEF Ascending, AllBefore, Elements

\* The first few of ascending events.
LEMMA FirstAscend ==
  ASSUME NEW log, NEW events \in Seq(Event), Ascending(events, log),
         NEW n \in 0..Len(events)
  PROVE  Ascending(SubSeq(events, 1, n), log)
<1> DEFINE few == SubSeq(events, 1, n)
<1>1. Len(few) = n /\ \A i \in 1..n : few[i] = events[i] /\ i \in 1..Len(events)
  OBVIOUS
<1> HIDE DEF few
<1> QED BY <1>1 DEF Ascending, few

\* What is listed after an event is in the order of the log, after that event.
LEMMA AfterAscends ==
  ASSUME store \in [Stream -> Seq(Event)], NEW s \in Stream, Distinct(store[s]),
         NEW e \in Elements(store[s])
  PROVE  /\ Ascending(After(e, s), store[s])
         /\ \A x \in Elements(After(e, s)) : Before(e, x, store[s])
<1> DEFINE log == store[s]
           at == CHOOSE i \in 1..Len(log) : log[i] = e
<1>1. at \in 1..Len(log) /\ log[at] = e
  BY DEF Elements
<1>2. After(e, s) = SubSeq(log, at + 1, Len(log))
  BY DEF After
<1>3. log \in Seq(Event) /\ Distinct(log)
  OBVIOUS
<1> HIDE DEF at, log
<1> DEFINE rest == SubSeq(log, at + 1, Len(log))
<1>4. /\ Len(log) \in Nat /\ Len(rest) = Len(log) - at
      /\ \A i \in 1..Len(rest) : rest[i] = log[at + i] /\ at + i \in 1..Len(log)
  BY <1>1, <1>3
<1> HIDE DEF rest
<1>5. \A i, j \in 1..Len(log) : i < j => Before(log[i], log[j], log)
  BY <1>3 DEF Before, Distinct
<1>6. Ascending(rest, log)
  <2>1. ASSUME NEW i \in 1..Len(rest), NEW j \in 1..Len(rest), i < j
        PROVE  Before(rest[i], rest[j], log)
    <3>1. at + i < at + j /\ at + i \in 1..Len(log) /\ at + j \in 1..Len(log)
      BY <1>1, <1>4, <2>1
    <3> QED BY <1>4, <1>5, <3>1
  <2> QED BY <2>1 DEF Ascending
<1>7. ASSUME NEW i \in 1..Len(rest) PROVE Before(e, rest[i], log)
  <2>1. at < at + i /\ at + i \in 1..Len(log)
    BY <1>1, <1>4
  <2> QED BY <1>1, <1>4, <1>5, <2>1
<1> QED BY <1>2, <1>6, <1>7 DEF Elements, log, rest

\* Ascending events of a log are there in order.
LEMMA AscendingInOrder ==
  ASSUME NEW events \in Seq(Event), NEW log \in Seq(Event),
         Elements(events) \subseteq Elements(log), Ascending(events, log)
  PROVE  InOrder(events, log)
<1> DEFINE at == [i \in 1..Len(events) |-> CHOOSE k \in 1..Len(log) : log[k] = events[i]]
<1>1. \A i \in 1..Len(events) : \E k \in 1..Len(log) : log[k] = events[i]
  BY DEF Elements
<1>2. \A i \in 1..Len(events) : at[i] \in 1..Len(log) /\ log[at[i]] = events[i]
  BY <1>1
<1>3. at \in [1..Len(events) -> 1..Len(log)]
  BY <1>2
<1> HIDE DEF at
<1>4. ASSUME NEW i \in 1..Len(events) - 1 PROVE at[i] < at[i + 1]
  <2>1. i \in 1..Len(events) /\ i + 1 \in 1..Len(events) /\ i < i + 1
    OBVIOUS
  <2>2. Before(events[i], events[i + 1], log)
    BY <2>1 DEF Ascending
  <2> QED BY <1>2, <2>1, <2>2 DEF Before
<1> QED BY <1>2, <1>3, <1>4 DEF InOrder

-----------------------------------------------------------------------------
\* w brings one event, and to which response.
Brings(w) == w.kind \in {"prime", "standalone", "related"}
Target(w) == IF w.kind = "standalone" THEN mapping[GetStream] ELSE w.conn

Reached(c) == c \in Conn /\ Listening(c)

\* A client listens to one response of a stream, and resumes what it has begun
\* to read.
OneListener ==
    /\ \A c, d \in Conn :
          Listening(c) /\ Listening(d) /\ conn[c].stream = conn[d].stream => c = d
    /\ \A c \in Conn : Listening(c) /\ ~First(c) => received[conn[c].stream] # <<>>

\* What holds of a command and one that waits behind it: a replay has its
\* response for itself, and later commands bring later events.
Ahead(v, w) ==
    /\ v.kind \in Replaying \/ w.kind \in Replaying => v.conn # w.conn
    /\ Brings(w) /\ w.stream = v.stream =>
          /\ Brings(v) => Before(v.event, w.event, store[v.stream])
          /\ v.kind \in {"list", "fetch"} =>
                /\ AllBefore(v.replay, w.event, store[v.stream])
                /\ Listening(v.conn) =>
                      AllBefore(received[v.stream], w.event, store[v.stream])

\* Whatever a command may yet bring to a client, it is after all that the
\* client has of its stream.
Due(w) ==
    /\ w.kind \in Replaying => \A s \in Stream : mapping[s] # w.conn
    /\ Brings(w) /\ Reached(Target(w)) =>
          AllBefore(received[w.stream], w.event, store[w.stream])
    /\ w.kind \in {"lookup", "relookup"} /\ Listening(w.conn) =>
          received[w.stream] # <<>> /\ w.event = LastId(w.stream)
    /\ w.kind \in {"list", "fetch"} =>
          /\ Ascending(w.replay, store[w.stream])
          /\ Listening(w.conn) =>
                \A x \in Elements(w.replay) :
                    AllBefore(received[w.stream], x, store[w.stream])

InQueue == \A i, j \in 1..Len(pending) : i < j => Ahead(pending[i], pending[j])

AllDue == \A w \in Elements(pending) : Due(w)

InLogs == \A s \in Stream : Distinct(store[s]) /\ Ascending(received[s], store[s])

OrderInv == Belongs /\ OneListener /\ InQueue /\ AllDue /\ InLogs

\* Logs only grow, by events that they have not.
Grows ==
    \A s \in Stream :
        \/ store'[s] = store[s]
        \/ \E e \in Event \ Elements(store[s]) : store'[s] = Append(store[s], e)

\* The commands of rest still wait, perhaps with a new one behind them.
Moves(rest, w) ==
    /\ rest = pending \/ (pending # <<>> /\ rest = Tail(pending))
    /\ \/ pending' = rest
       \/ /\ w \in Waiting /\ pending' = Append(rest, w)
          /\ Due(w)' /\ \A v \in Elements(rest) : Ahead(v, w)'

\* A step means nothing to w: its response, if it is still read, has got
\* nothing, and no other response has come to be the target of w.
Calm(w) ==
    /\ w.kind # "standalone" /\ Listening(w.conn)' =>
          Listening(w.conn) /\ received'[w.stream] = received[w.stream]
    /\ w.kind = "standalone" =>
          \A c \in Conn : c = mapping'[GetStream] /\ Listening(c)' =>
             \/ received'[GetStream] = <<>>
             \/ /\ Reached(mapping[GetStream])
                /\ received'[GetStream] = received[GetStream]
    /\ w.kind \in Replaying => \A s \in Stream : mapping'[s] # w.conn

LEMMA LogsGrow ==
  ASSUME TypeOK, Grows, NEW s \in Stream
  PROVE  /\ Distinct(store[s]) => Distinct(store'[s])
         /\ Elements(store[s]) \subseteq Elements(store'[s])
         /\ \A a, b \in Elements(store[s]) :
               Before(a, b, store[s]) => Before(a, b, store'[s])
<1>1. CASE store'[s] = store[s]
  BY <1>1
<1>2. ASSUME NEW e \in Event \ Elements(store[s]), store'[s] = Append(store[s], e)
      PROVE  /\ Distinct(store[s]) => Distinct(store'[s])
             /\ Elements(store[s]) \subseteq Elements(store'[s])
             /\ \A a, b \in Elements(store[s]) :
                   Before(a, b, store[s]) => Before(a, b, store'[s])
  <2>1. store[s] \in Seq(Event)
    BY DEF TypeOK
  <2> QED BY <1>2, <2>1, OrderGrows, AppendHolds
<1> QED BY <1>1, <1>2 DEF Grows

LEMMA AllBeforeGrows ==
  ASSUME TypeOK, Grows, NEW s \in Stream, NEW events, NEW e \in Elements(store[s]),
         Elements(events) \subseteq Elements(store[s]), AllBefore(events, e, store[s])
  PROVE  AllBefore(events, e, store'[s])
BY LogsGrow DEF AllBefore

LEMMA AscendingGrows ==
  ASSUME TypeOK, Grows, NEW s \in Stream, NEW events,
         Elements(events) \subseteq Elements(store[s]), Ascending(events, store[s])
  PROVE  Ascending(events, store'[s])
<1>1. \A i \in 1..Len(events) : events[i] \in Elements(store[s])
  BY DEF Elements
<1> QED BY <1>1, LogsGrow DEF Ascending

\* What is known of a command in the queue.
LEMMA KnownOf ==
  ASSUME TypeOK, Kept, NEW w \in Elements(pending)
  PROVE  /\ w \in Waiting /\ Fits(w) /\ w.stream \in Stream
         /\ w.event \in Elements(store[w.stream])
         /\ w.kind # "standalone" => w.conn \in Conn
         /\ w.kind = "standalone" => w.stream = GetStream /\ w.conn = NoConn
         /\ w.kind \in {"list", "fetch"} =>
               w.replay \in Seq(Event) /\ Elements(w.replay) \subseteq Elements(store[w.stream])
         /\ received[w.stream] \in Seq(Event)
         /\ Elements(received[w.stream]) \subseteq Elements(store[w.stream])
<1>1. w \in Waiting /\ Fits(w)
  BY ElementsTyped DEF TypeOK, Kept
<1>2. w.stream \in Stream
  BY <1>1 DEF Waiting
<1>3. w.kind \in {"list", "fetch"} => w.replay \in Seq(Event)
  BY <1>1 DEF Waiting, Single
<1> QED BY <1>1, <1>2, <1>3 DEF Fits, TypeOK, Kept

LEMMA AheadStays ==
  ASSUME TypeOK, Kept, Grows, NEW v \in Elements(pending), NEW u \in Elements(pending),
         Ahead(v, u),
         v.kind \in {"list", "fetch"} /\ Listening(v.conn)' =>
            Listening(v.conn) /\ received'[v.stream] = received[v.stream]
  PROVE  Ahead(v, u)'
<1>1. /\ v.stream \in Stream /\ v.event \in Elements(store[v.stream])
      /\ v.kind \in {"list", "fetch"} => Elements(v.replay) \subseteq Elements(store[v.stream])
      /\ Elements(received[v.stream]) \subseteq Elements(store[v.stream])
      /\ u.event \in Elements(store[u.stream])
  BY KnownOf
<1>2. v.kind \in Replaying \/ u.kind \in Replaying => v.conn # u.conn
  BY DEF Ahead
<1>3. ASSUME Brings(u), u.stream = v.stream
      PROVE  /\ Brings(v) => Before(v.event, u.event, store'[v.stream])
             /\ v.kind \in {"list", "fetch"} =>
                   /\ AllBefore(v.replay, u.event, store'[v.stream])
                   /\ Listening(v.conn)' =>
                         AllBefore(received'[v.stream], u.event, store'[v.stream])
  <2>1. Brings(v) => Before(v.event, u.event, store'[v.stream])
    BY <1>1, <1>3, LogsGrow DEF Ahead
  <2>2. ASSUME v.kind \in {"list", "fetch"} PROVE AllBefore(v.replay, u.event, store'[v.stream])
    BY <1>1, <1>3, <2>2, AllBeforeGrows DEF Ahead
  <2>3. ASSUME v.kind \in {"list", "fetch"}, Listening(v.conn)'
        PROVE  AllBefore(received'[v.stream], u.event, store'[v.stream])
    <3>1. /\ AllBefore(received[v.stream], u.event, store[v.stream])
          /\ received'[v.stream] = received[v.stream]
      BY <1>3, <2>3 DEF Ahead
    <3>2. AllBefore(received[v.stream], u.event, store'[v.stream])
      BY <1>1, <1>3, <3>1, AllBeforeGrows
    <3> QED BY <3>1, <3>2
  <2> QED BY <2>1, <2>2, <2>3
<1> QED BY <1>2, <1>3 DEF Ahead, Brings

LEMMA DueStays ==
  ASSUME TypeOK, Kept, Grows, NEW w \in Elements(pending), Due(w), Calm(w)
  PROVE  Due(w)'
<1>1. /\ w.stream \in Stream /\ w.event \in Elements(store[w.stream])
      /\ w.kind # "standalone" => w.conn \in Conn
      /\ w.kind = "standalone" => w.stream = GetStream
      /\ w.kind \in {"list", "fetch"} => Elements(w.replay) \subseteq Elements(store[w.stream])
      /\ Elements(received[w.stream]) \subseteq Elements(store[w.stream])
  BY KnownOf
<1>2. w.kind \in Replaying => \A s \in Stream : mapping'[s] # w.conn
  BY DEF Calm
<1>3. ASSUME w.kind \in {"prime", "related"}, w.conn \in Conn, Listening(w.conn)'
      PROVE  AllBefore(received'[w.stream], w.event, store'[w.stream])
  <2>1. Listening(w.conn) /\ received'[w.stream] = received[w.stream]
    BY <1>3 DEF Calm
  <2>2. AllBefore(received[w.stream], w.event, store[w.stream])
    BY <1>3, <2>1 DEF Due, Brings, Reached, Target
  <2>3. AllBefore(received[w.stream], w.event, store'[w.stream])
    BY <1>1, <2>2, AllBeforeGrows
  <2> QED BY <2>1, <2>3
<1>4. ASSUME w.kind = "standalone", mapping'[GetStream] \in Conn,
             NEW c, c = mapping'[GetStream], Listening(c)'
      PROVE  AllBefore(received'[w.stream], w.event, store'[w.stream])
  <2>1. \/ received'[GetStream] = <<>>
        \/ Reached(mapping[GetStream]) /\ received'[GetStream] = received[GetStream]
    BY <1>4 DEF Calm
  <2>2. CASE received'[GetStream] = <<>>
    BY <1>1, <1>4, <2>2, FewAscend
  <2>3. CASE Reached(mapping[GetStream]) /\ received'[GetStream] = received[GetStream]
    <3>1. AllBefore(received[w.stream], w.event, store[w.stream])
      BY <1>4, <2>3 DEF Due, Brings, Reached, Target
    <3>2. AllBefore(received[w.stream], w.event, store'[w.stream])
      BY <1>1, <3>1, AllBeforeGrows
    <3> QED BY <1>1, <1>4, <2>3, <3>2
  <2> QED BY <2>1, <2>2, <2>3
<1>5. ASSUME w.kind \in {"lookup", "relookup"}, Listening(w.conn)'
      PROVE  received'[w.stream] # <<>> /\ w.event = LastId(w.stream)'
  <2>1. Listening(w.conn) /\ received'[w.stream] = received[w.stream]
    BY <1>5 DEF Calm
  <2> QED BY <1>5, <2>1 DEF Due, LastId
<1>6. ASSUME w.kind \in {"list", "fetch"}
      PROVE  /\ Ascending(w.replay, store'[w.stream])
             /\ Listening(w.conn)' =>
                   \A x \in Elements(w.replay) :
                       AllBefore(received'[w.stream], x, store'[w.stream])
  <2>1. Ascending(w.replay, store'[w.stream])
    BY <1>1, <1>6, AscendingGrows DEF Due
  <2>2. ASSUME Listening(w.conn)', NEW x \in Elements(w.replay)
        PROVE  AllBefore(received'[w.stream], x, store'[w.stream])
    <3>1. Listening(w.conn) /\ received'[w.stream] = received[w.stream]
      BY <1>6, <2>2 DEF Calm
    <3>2. AllBefore(received[w.stream], x, store[w.stream])
      BY <1>6, <2>2, <3>1 DEF Due
    <3>3. AllBefore(received[w.stream], x, store'[w.stream])
      BY <1>1, <1>6, <2>2, <3>2, AllBeforeGrows
    <3> QED BY <3>1, <3>3
  <2> QED BY <2>1, <2>2
<1>7. CASE w.kind = "standalone"
  BY <1>1, <1>4, <1>7 DEF Due, Brings, Reached, Target, Replaying
<1>8. CASE w.kind # "standalone"
  BY <1>1, <1>2, <1>3, <1>5, <1>6, <1>8 DEF Due, Brings, Reached, Target
<1> QED BY <1>7, <1>8

\* The queue keeps its order.
LEMMA QueueStays ==
  ASSUME TypeOK, Kept, InQueue, AllDue, Grows, NEW rest, NEW w, Moves(rest, w),
         \A u \in Elements(rest) : Calm(u) \/ (Brings(u) /\ Due(u)')
  PROVE  InQueue' /\ AllDue'
<1>1. /\ pending \in Seq(Waiting) /\ rest \in Seq(Waiting)
      /\ Elements(rest) \subseteq Elements(pending)
  BY HeadAndTailHold DEF TypeOK, Moves
<1>2. ASSUME NEW v \in Elements(rest), NEW u \in Elements(rest), Ahead(v, u)
      PROVE  Ahead(v, u)'
  <2>1. v.kind \in {"list", "fetch"} /\ Listening(v.conn)' =>
            Listening(v.conn) /\ received'[v.stream] = received[v.stream]
    BY DEF Calm, Brings
  <2> QED BY <1>1, <1>2, <2>1, AheadStays
<1>3. \A u \in Elements(rest) : Due(u)'
  BY <1>1, DueStays DEF AllDue
<1>4. \A i, j \in 1..Len(rest) : i < j => Ahead(rest[i], rest[j])
  <2>1. CASE rest = pending
    BY <2>1 DEF InQueue
  <2>2. CASE pending # <<>> /\ rest = Tail(pending)
    <3>1. ASSUME NEW i \in 1..Len(rest), NEW j \in 1..Len(rest), i < j
          PROVE  Ahead(rest[i], rest[j])
      <4>1. /\ i + 1 \in 1..Len(pending) /\ j + 1 \in 1..Len(pending) /\ i + 1 < j + 1
            /\ rest[i] = pending[i + 1] /\ rest[j] = pending[j + 1]
        BY <1>1, <2>2, <3>1
      <4>2. Ahead(pending[i + 1], pending[j + 1])
        BY <4>1 DEF InQueue
      <4> QED BY <4>1, <4>2
    <3> QED BY <3>1
  <2> QED BY <2>1, <2>2 DEF Moves
<1>5. \A i \in 1..Len(rest) : rest[i] \in Elements(rest)
  BY DEF Elements
<1>6. ASSUME NEW i \in 1..Len(rest), NEW j \in 1..Len(rest), i < j,
             NEW v, v = rest[i], NEW u, u = rest[j]
      PROVE  Ahead(v, u)'
  BY <1>2, <1>4, <1>5, <1>6
<1>7. CASE pending' = rest
  <2>1. ASSUME NEW i \in 1..Len(pending'), NEW j \in 1..Len(pending'), i < j,
               NEW v, v = pending'[i], NEW u, u = pending'[j]
        PROVE  Ahead(v, u)'
    BY <1>6, <1>7, <2>1
  <2> QED BY <1>3, <1>7, <2>1 DEF InQueue, AllDue
<1>8. CASE /\ w \in Waiting /\ pending' = Append(rest, w)
           /\ Due(w)' /\ \A v \in Elements(rest) : Ahead(v, w)'
  <2>1. /\ Len(rest) \in Nat /\ Len(pending') = Len(rest) + 1 /\ pending'[Len(rest) + 1] = w
        /\ \A i \in 1..Len(rest) : pending'[i] = rest[i]
    BY <1>1, <1>8
  <2>2. ASSUME NEW i \in 1..Len(pending'), NEW j \in 1..Len(pending'), i < j,
               NEW v, v = pending'[i], NEW u, u = pending'[j]
        PROVE  Ahead(v, u)'
    <3>1. i \in 1..Len(rest) /\ v = rest[i]
      BY <2>1, <2>2
    <3>2. CASE j = Len(rest) + 1
      BY <1>5, <1>8, <2>1, <2>2, <3>1, <3>2
    <3>3. CASE j # Len(rest) + 1
      <4>1. j \in 1..Len(rest) /\ u = rest[j]
        BY <2>1, <2>2, <3>3
      <4> QED BY <1>6, <2>2, <3>1, <4>1
    <3> QED BY <3>2, <3>3
  <2>3. Elements(pending') = Elements(rest) \cup {w}
    BY <1>1, <1>8, AppendHolds
  <2> QED BY <1>3, <1>8, <2>2, <2>3 DEF InQueue, AllDue
<1> QED BY <1>7, <1>8 DEF Moves

\* What is behind the oldest command.
LEMMA FirstAhead ==
  ASSUME TypeOK, InQueue, pending # <<>>, NEW u \in Elements(Tail(pending))
  PROVE  Ahead(Head(pending), u)
<1>1. PICK i \in 1..Len(Tail(pending)) : u = Tail(pending)[i]
  BY DEF Elements
<1>2. /\ i + 1 \in 1..Len(pending) /\ u = pending[i + 1] /\ 1 \in 1..Len(pending)
      /\ Head(pending) = pending[1] /\ 1 < i + 1
  BY <1>1 DEF TypeOK
<1> QED BY <1>2 DEF InQueue

\* Clients read on where their streams are, or they stop.
LEMMA ListenersEnd ==
  ASSUME TypeOK, OneListener, \A c \in Conn : Listening(c)' => conn'[c] = conn[c],
         \A s \in Stream : received[s] # <<>> => received'[s] # <<>>
  PROVE  OneListener'
<1>1. \A c \in Conn : Listening(c)' => Listening(c) /\ conn'[c] = conn[c]
  BY DEF Listening
<1>2. \A c \in Conn : conn[c].stream \in Stream
  BY DEF TypeOK, Response
<1> QED BY <1>1, <1>2 DEF OneListener, First

\* A new one is the only one of its stream.
LEMMA ListenerBegins ==
  ASSUME TypeOK, OneListener, NEW c \in Conn, NEW s \in Stream, UNCHANGED received,
         \A d \in Conn \ {c} : conn'[d] = conn[d], conn'[c].stream = s,
         \A d \in Conn : Listening(d) => conn[d].stream # s,
         conn'[c].kind \in {"post", "get"} \/ received[s] # <<>>
  PROVE  OneListener'
<1>1. \A d \in Conn \ {c} : Listening(d)' => Listening(d) /\ conn'[d] = conn[d]
  BY DEF Listening
<1>2. Listening(c)' => conn'[c].open
  BY DEF Listening
<1> QED BY <1>1, <1>2 DEF OneListener, First

\* What clients have stays in order while logs grow.
LEMMA LogsStay ==
  ASSUME TypeOK, Kept, InLogs, Grows, UNCHANGED received
  PROVE  InLogs'
BY LogsGrow, AscendingGrows DEF InLogs, Kept

\* A step in which no client gets anything; d may be a response that is gone.
LEMMA QuietKeepsOrder ==
  ASSUME TypeOK, Kept, OrderInv, Grows, UNCHANGED received,
         \A c \in Conn : Listening(c)' => conn'[c] = conn[c],
         NEW rest, NEW w, Moves(rest, w), NEW d, d \in Conn => ~Listening(d)',
         \A s \in Stream : mapping'[s] \in {mapping[s], NoConn, d},
         \A u \in Elements(rest) : u.kind \in Replaying => u.conn # d,
         Belongs'
  PROVE  OrderInv'
<1>1. \A c \in Conn : Listening(c)' => Listening(c)
  BY DEF Listening
<1>2. Elements(rest) \subseteq Elements(pending)
  BY HeadAndTailHold DEF TypeOK, Moves
<1>3. ASSUME NEW u \in Elements(rest) PROVE Calm(u)
  <2>1. u.kind # "standalone" => u.conn \in Conn
    BY <1>2, KnownOf
  <2>2. ASSUME u.kind # "standalone", Listening(u.conn)'
        PROVE  Listening(u.conn) /\ received'[u.stream] = received[u.stream]
    BY <1>1, <2>1, <2>2
  <2>3. ASSUME NEW c \in Conn, c = mapping'[GetStream], Listening(c)'
        PROVE  Reached(mapping[GetStream]) /\ received'[GetStream] = received[GetStream]
    BY <1>1, <2>3, EventNames DEF Reached
  <2>4. ASSUME u.kind \in Replaying, NEW s \in Stream PROVE mapping'[s] # u.conn
    <3>1. mapping[s] # u.conn /\ u.conn # NoConn /\ u.conn # d
      BY <1>2, <2>1, <2>4, EventNames DEF OrderInv, AllDue, Due, Replaying
    <3> QED BY <3>1
  <2> QED BY <2>2, <2>3, <2>4 DEF Calm
<1>4. InQueue' /\ AllDue'
  BY <1>3, QueueStays DEF OrderInv
<1>5. OneListener' /\ InLogs'
  BY ListenersEnd, LogsStay DEF OrderInv
<1> QED BY <1>4, <1>5 DEF OrderInv

\* The response c begins.
LEMMA BeginningKeepsOrder ==
  ASSUME TypeOK, Kept, OrderInv, Grows, UNCHANGED received,
         NEW c \in Conn, NEW s \in Stream, Free(c),
         \A d \in Conn \ {c} : conn'[d] = conn[d], conn'[c].stream = s,
         \A d \in Conn : Listening(d) => conn[d].stream # s,
         conn'[c].kind \in {"post", "get"} \/ received[s] # <<>>,
         \A t \in Stream : mapping'[t] = mapping[t] \/ (t = s /\ mapping'[t] = c),
         s = GetStream /\ mapping'[s] = c => received[s] = <<>>,
         NEW w, Moves(pending, w), Belongs'
  PROVE  OrderInv'
<1>1. \A d \in Conn \ {c} : Listening(d)' => Listening(d)
  BY DEF Listening
<1>2. ASSUME NEW u \in Elements(pending) PROVE Calm(u)
  <2>1. (u.kind # "standalone" => u.conn \in Conn) /\ u.conn # c
    BY KnownOf, FreeHolds
  <2>2. ASSUME u.kind # "standalone", Listening(u.conn)'
        PROVE  Listening(u.conn) /\ received'[u.stream] = received[u.stream]
    BY <1>1, <2>1, <2>2
  <2>3. ASSUME NEW d \in Conn, d = mapping'[GetStream], Listening(d)'
        PROVE  \/ received'[GetStream] = <<>>
               \/ Reached(mapping[GetStream]) /\ received'[GetStream] = received[GetStream]
    <3>1. CASE s = GetStream /\ mapping'[s] = c
      BY <3>1
    <3>2. CASE mapping'[GetStream] = mapping[GetStream]
      <4>1. d # c
        BY <2>3, <3>2, FreeHolds, EventNames
      <4> QED BY <1>1, <2>3, <3>2, <4>1 DEF Reached
    <3> QED BY <3>1, <3>2, EventNames
  <2>4. ASSUME u.kind \in Replaying, NEW t \in Stream PROVE mapping'[t] # u.conn
    BY <2>1, <2>4 DEF OrderInv, AllDue, Due
  <2> QED BY <2>2, <2>3, <2>4 DEF Calm
<1>3. InQueue' /\ AllDue'
  BY <1>2, QueueStays DEF OrderInv
<1>4. OneListener' /\ InLogs'
  BY ListenerBegins, LogsStay DEF OrderInv
<1> QED BY <1>3, <1>4 DEF OrderInv

\* The client that listens to c gets the next events of s; whatever is on its
\* way is later.
GetsNext(c, s, events) ==
    /\ Listening(c) /\ conn[c].stream = s
    /\ received' = [received EXCEPT ![s] = @ \o events]
    /\ Ascending(events, store[s])
    /\ \A x \in Elements(events) : AllBefore(received[s], x, store[s])
    /\ \A u \in Elements(Tail(pending)) :
          /\ u.kind \in Replaying => u.conn # c
          /\ Brings(u) /\ u.stream = s =>
                /\ AllBefore(received[s], u.event, store[s])
                /\ AllBefore(events, u.event, store[s])

LEMMA ReadingKeepsOrder ==
  ASSUME TypeOK, Kept, OrderInv, UNCHANGED store,
         \A d \in Conn : Listening(d)' => conn'[d] = conn[d],
         pending # <<>>, pending' = Tail(pending),
         NEW c \in Conn, NEW s \in Stream, NEW events \in Seq(Event), GetsNext(c, s, events),
         \A t \in Stream : \/ mapping'[t] \in {mapping[t], NoConn}
                           \/ t = s /\ mapping'[t] = c,
         Belongs'
  PROVE  OrderInv'
<1>1. /\ Listening(c) /\ conn[c].stream = s
      /\ received' = [received EXCEPT ![s] = @ \o events]
      /\ Ascending(events, store[s])
      /\ \A x \in Elements(events) : AllBefore(received[s], x, store[s])
  BY DEF GetsNext
<1>2. ASSUME NEW u \in Elements(Tail(pending))
       PROVE  /\ u.kind \in Replaying => u.conn # c
              /\ Brings(u) /\ u.stream = s =>
                    /\ AllBefore(received[s], u.event, store[s])
                    /\ AllBefore(events, u.event, store[s])
  BY DEF GetsNext
<1>3. \A d \in Conn : Listening(d)' => Listening(d)
  BY DEF Listening
<1>4. /\ Elements(Tail(pending)) \subseteq Elements(pending)
      /\ received[s] \in Seq(Event) /\ received[s] \o events \in Seq(Event)
      /\ Elements(received[s] \o events) = Elements(received[s]) \cup Elements(events)
      /\ received \in [Stream -> Seq(Event)]
  BY HeadAndTailHold, ConcatHolds DEF TypeOK
<1>5. /\ received'[s] = received[s] \o events
      /\ \A t \in Stream \ {s} : received'[t] = received[t]
  BY <1>1, <1>4
<1>6. ASSUME NEW u \in Elements(Tail(pending)) PROVE Calm(u) \/ (Brings(u) /\ Due(u)')
  <2>1. /\ u.kind # "standalone" => u.conn \in Conn
        /\ u.kind = "standalone" => u.stream = GetStream
        /\ u.stream \in Stream /\ u \in Elements(pending)
    BY <1>4, KnownOf
  <2>2. ASSUME u.kind \in Replaying, NEW t \in Stream PROVE mapping'[t] # u.conn
    <3>1. mapping[t] # u.conn /\ u.conn # c /\ u.conn # NoConn
      BY <1>2, <2>1, <2>2, EventNames DEF OrderInv, AllDue, Due, Replaying
    <3> QED BY <3>1
  <2>3. CASE Brings(u) /\ u.stream = s
    <3>1. AllBefore(received'[s], u.event, store[s])
      BY <1>4, <1>5, <1>2, <2>3 DEF AllBefore
    <3> QED BY <2>3, <3>1 DEF Due, Brings, Replaying
  <2>4. CASE u.stream # s
    <3>1. ASSUME u.kind # "standalone", Listening(u.conn)'
          PROVE  Listening(u.conn) /\ received'[u.stream] = received[u.stream]
      BY <1>3, <1>5, <2>1, <2>4, <3>1
    <3>2. ASSUME u.kind = "standalone", NEW d \in Conn, d = mapping'[GetStream], Listening(d)'
          PROVE  Reached(mapping[GetStream]) /\ received'[GetStream] = received[GetStream]
      BY <1>3, <1>5, <2>1, <2>4, <3>2, EventNames DEF Reached
    <3> QED BY <2>2, <3>1, <3>2 DEF Calm
  <2>5. CASE u.stream = s /\ ~Brings(u)
    <3>1. u.kind \in Replaying /\ u.conn \in Conn /\ u.conn # c /\ u.kind # "standalone"
      BY <1>4, <1>2, <2>1, <2>5, KnownOf DEF Brings, Waiting, Single, Replaying
    <3>2. ~Listening(u.conn)'
      <4> SUFFICES ASSUME Listening(u.conn)' PROVE FALSE
        OBVIOUS
      <4>1. Listening(u.conn) /\ conn[u.conn].stream = s
        BY <1>3, <2>1, <2>5, <3>1 DEF OrderInv, Belongs
      <4> QED BY <1>1, <3>1, <4>1 DEF OrderInv, OneListener
    <3> QED BY <2>2, <3>1, <3>2 DEF Calm
  <2> QED BY <2>3, <2>4, <2>5
<1>7. Grows /\ Moves(Tail(pending), c)
  BY DEF Grows, Moves
<1>8. InQueue' /\ AllDue'
  BY <1>6, <1>7, QueueStays DEF OrderInv
<1>9. OneListener'
  <2>1. received[s] # <<>> => received[s] \o events # <<>>
    BY <1>4, EmptyHoldsNone
  <2>2. \A t \in Stream : received[t] # <<>> => received'[t] # <<>>
    BY <1>5, <2>1
  <2> QED BY <2>2, ListenersEnd DEF OrderInv
<1>10. Ascending(received[s] \o events, store[s])
  BY <1>1, <1>4, AscendingOn DEF OrderInv, InLogs
<1>11. InLogs'
  BY <1>5, <1>10 DEF OrderInv, InLogs
<1> QED BY <1>8, <1>9, <1>11 DEF OrderInv

\* An event that is stored now is after all others.
LEMMA NewIsLast ==
  ASSUME TypeOK, Kept, UNCHANGED received, NEW s \in Stream, NEW e \in Event,
         e \notin Elements(store[s]), Stores(s, e),
         NEW w, Brings(w), w.stream = s, w.event = e,
         \A v \in Elements(pending) : v.kind \in Replaying => v.conn # w.conn
  PROVE  Grows /\ Due(w)' /\ \A v \in Elements(pending) : Ahead(v, w)'
<1>1. /\ store[s] \in Seq(Event) /\ store'[s] = Append(store[s], e)
      /\ \A t \in Stream \ {s} : store'[t] = store[t]
  BY DEF TypeOK, Stores
<1>2. \A events : Elements(events) \subseteq Elements(store[s]) => AllBefore(events, e, store'[s])
  BY <1>1, OrderGrows DEF AllBefore
<1>3. Grows
  BY <1>1 DEF Grows
<1>4. AllBefore(received'[s], e, store'[s])
  BY <1>2 DEF Kept
<1>5. Due(w)'
  BY <1>4 DEF Due, Brings, Replaying
<1>6. ASSUME NEW v \in Elements(pending) PROVE Ahead(v, w)'
  <2>1. v.kind \in Replaying \/ w.kind \in Replaying => v.conn # w.conn
    BY DEF Brings, Replaying
  <2>2. ASSUME v.stream = s, Brings(v) PROVE Before(v.event, e, store'[s])
    <3>1. v.event \in Elements(store[s])
      BY <2>2, KnownOf
    <3> QED BY <1>1, <3>1, OrderGrows
  <2>3. ASSUME v.stream = s, v.kind \in {"list", "fetch"}
        PROVE  AllBefore(v.replay, e, store'[s])
    <3>1. Elements(v.replay) \subseteq Elements(store[s])
      BY <2>3, KnownOf
    <3> QED BY <1>2, <3>1
  <2> QED BY <1>4, <2>1, <2>2, <2>3 DEF Ahead, Brings
<1> QED BY <1>3, <1>5, <1>6

LEMMA OrderStays ==
  ASSUME StreamInv, OrderInv, [Next]_vars
  PROVE  OrderInv'
<1> USE EventNames
<1>0. /\ TypeOK /\ Kept /\ Batches /\ FirstIsMapped
      /\ Belongs /\ OneListener /\ InQueue /\ AllDue /\ InLogs
      /\ pending \in Seq(Waiting) /\ mapping \in [Stream -> Conn \cup {NoConn}]
  BY DEF StreamInv, OrderInv, TypeOK
\* Responses end, or nothing happens to them; no client gets anything.
<1>1. ASSUME \A c \in Conn : Listening(c)' => conn'[c] = conn[c],
             \A s \in Stream : mapping'[s] \in {mapping[s], NoConn},
             UNCHANGED <<store, received>>,
             pending' = pending \/ (pending # <<>> /\ pending' = Tail(pending))
      PROVE  OrderInv'
  <2>1. Grows /\ Moves(pending', NoConn)
    BY <1>1 DEF Grows, Moves
  <2>2. Elements(pending') \subseteq Elements(pending)
    BY <1>0, <1>1, HeadAndTailHold
  <2>3. Belongs'
    BY <1>0, <1>1, <2>2, BelongsStays
  <2>4. ASSUME NEW u \in Elements(pending'), u.kind \in Replaying PROVE u.conn # NoConn
    BY <1>0, <2>2, <2>4, KnownOf DEF Replaying
  <2> QED BY <1>0, <1>1, <2>1, <2>3, <2>4, QuietKeepsOrder
<1>2. ASSUME NEW c \in Conn, \/ conn' = [conn EXCEPT ![c] = Unused]
                             \/ conn' = [conn EXCEPT ![c].heard = FALSE]
                             \/ conn' = [conn EXCEPT ![c].kind = "discarded", ![c].heard = FALSE]
      PROVE  ~Listening(c)' /\ \A d \in Conn : Listening(d)' => conn'[d] = conn[d]
  <2>1. conn[c] \in Response /\ conn \in [Conn -> Response]
    BY <1>0 DEF TypeOK
  <2> QED BY <1>2, <2>1, NoneOpen DEF Listening, Response
\* The oldest command is answered and its event goes to the response c.
<1>3. ASSUME \A d \in Conn : Listening(d)' => conn'[d] = conn[d],
             \A s \in Stream : mapping'[s] \in {mapping[s], NoConn}, UNCHANGED store,
             pending # <<>>, pending' = Tail(pending), NEW h, h = Head(pending), Brings(h),
             NEW c, c = Target(h),
             received' = IF c = NoConn THEN received ELSE Written(c, h.stream, <<h.event>>)
      PROVE  OrderInv'
  <2>1. /\ h \in Elements(pending) /\ h.event \in Event /\ h.stream \in Stream
        /\ h.event \in Elements(store[h.stream]) /\ c \in Conn \cup {NoConn}
        /\ h.kind # "standalone" => h.conn \in Conn
        /\ h.kind = "standalone" => h.stream = GetStream
        /\ store[h.stream] \in Seq(Event)
    BY <1>0, <1>3, OldestWaits, KnownOf DEF Target, TypeOK
  <2>2. PICK s \in Stream, events \in Seq(Event) :
           s = h.stream /\ events = <<h.event>> /\ Elements(events) = {h.event}
    BY <2>1, OneEvent
  <2>3. CASE ~Reached(c)
    <3>1. UNCHANGED received
      BY <1>3, <2>1, <2>3 DEF Written, Reached
    <3> QED BY <1>1, <1>3, <3>1
  <2>4. CASE Reached(c)
    <3>1. c \in Conn /\ Listening(c) /\ conn[c].stream = s
      BY <1>0, <1>3, <2>1, <2>4, <2>2 DEF Belongs, Target, Reached
    <3>2. AllBefore(received[s], h.event, store[s])
      BY <1>0, <1>3, <2>1, <2>4, <2>2 DEF AllDue, Due
    <3>3. received' = [received EXCEPT ![s] = @ \o events]
      BY <1>3, <2>2, <3>1 DEF Written
    <3>4. Elements(events) = {h.event} /\ Ascending(events, store[s])
      BY <2>2, FewAscend
    <3>5. ASSUME NEW u \in Elements(Tail(pending))
          PROVE  /\ u.kind \in Replaying => u.conn # c
                 /\ Brings(u) /\ u.stream = s =>
                       /\ AllBefore(received[s], u.event, store[s])
                       /\ AllBefore(events, u.event, store[s])
      <4>1. Ahead(h, u) /\ u \in Elements(pending)
        BY <1>0, <1>3, FirstAhead, HeadAndTailHold
      <4>2. ASSUME u.kind \in Replaying PROVE u.conn # c
        <5>1. u.conn # h.conn /\ u.conn # mapping[GetStream]
          BY <1>0, <4>1, <4>2 DEF Ahead, AllDue, Due
        <5> QED BY <1>3, <5>1 DEF Target
      <4>3. ASSUME Brings(u), u.stream = s
            PROVE  /\ AllBefore(received[s], u.event, store[s])
                   /\ AllBefore(events, u.event, store[s])
        <5>1. Before(h.event, u.event, store[s])
          BY <1>3, <2>2, <4>1, <4>3 DEF Ahead
        <5>2. AllBefore(events, u.event, store[s])
          BY <3>4, <5>1 DEF AllBefore
        <5>3. ASSUME NEW x \in Elements(received[s])
              PROVE  Before(x, u.event, store[s])
          <6>1. Before(x, h.event, store[s])
            BY <3>2 DEF AllBefore
          <6> QED BY <2>1, <2>2, <5>1, <6>1, BeforeChains
        <5> QED BY <5>2, <5>3 DEF AllBefore
      <4> QED BY <4>2, <4>3
    <3>6. Belongs'
      <4>1. Elements(pending') \subseteq Elements(pending)
        BY <1>0, <1>3, HeadAndTailHold
      <4> QED BY <1>0, <1>3, <4>1, BelongsStays
    <3>7. \A x \in Elements(events) : AllBefore(received[s], x, store[s])
      BY <3>2, <3>4
    <3>8. /\ \A t \in Stream : \/ mapping'[t] \in {mapping[t], NoConn}
                               \/ t = s /\ mapping'[t] = c
          /\ OrderInv
      BY <1>3
    <3>9. GetsNext(c, s, events)
      BY <3>1, <3>3, <3>4, <3>5, <3>7 DEF GetsNext
    <3> QED BY <1>0, <1>3, <2>2, <3>1, <3>6, <3>8, <3>9, ReadingKeepsOrder
  <2> QED BY <2>3, <2>4
<1>4. CASE PrimeStored
  <2>1. PICK h : h = Head(pending)
    OBVIOUS
  <2>2. /\ pending # <<>> /\ pending' = Tail(pending) /\ h.kind = "prime" /\ h.event = Prime
        /\ received' = Written(h.conn, h.stream, <<h.event>>) /\ UNCHANGED <<store, mapping, conn>>
        /\ h.conn \in Conn
    BY <1>0, <1>4, <2>1, OldestWaits DEF PrimeStored, Answered, Fits
  <2>3. Brings(h) /\ h.conn = Target(h) /\ h.conn # NoConn
    BY <2>2 DEF Brings, Target
  <2> QED BY <1>3, <2>1, <2>2, <2>3
<1>5. CASE RelatedStored
  <2>1. PICK h : h = Head(pending)
    OBVIOUS
  <2>2. /\ pending # <<>> /\ pending' = Tail(pending) /\ h.kind = "related" /\ h.conn \in Conn
        /\ h.stream \in Stream /\ UNCHANGED store
        /\ received' = Written(h.conn, h.stream, <<h.event>>)
        /\ UNCHANGED <<mapping, conn>> \/ Cleanup(h.conn, h.stream)
    BY <1>0, <1>5, <2>1, OldestWaits DEF RelatedStored, Answered, Fits
  <2>3. \A c \in Conn : Listening(c)' => conn'[c] = conn[c]
    BY <1>2, <2>2 DEF Cleanup
  <2>4. \A s \in Stream : mapping'[s] \in {mapping[s], NoConn}
    BY <1>0, <2>2 DEF Cleanup
  <2>5. Brings(h) /\ h.conn = Target(h) /\ h.conn # NoConn
    BY <2>2 DEF Brings, Target
  <2> QED BY <1>3, <2>1, <2>2, <2>3, <2>4, <2>5
<1>6. CASE StandaloneStored
  <2>1. PICK h : h = Head(pending)
    OBVIOUS
  <2>2. PICK c : c = mapping[GetStream]
    OBVIOUS
  <2>3. /\ pending # <<>> /\ pending' = Tail(pending) /\ h.kind = "standalone"
        /\ UNCHANGED <<store, mapping, conn>>
        /\ received' = IF c = NoConn THEN received ELSE Written(c, GetStream, <<h.event>>)
    BY <1>6, <2>1, <2>2 DEF StandaloneStored, Answered, transport
  <2>4. h.stream = GetStream
    BY <1>0, <2>1, <2>3, OldestWaits DEF Fits
  <2>5. Brings(h) /\ c = Target(h)
    BY <2>2, <2>3 DEF Brings, Target
  <2> QED BY <1>3, <2>1, <2>3, <2>4, <2>5
<1>7. CASE PrimeRejected \/ ResumeConflicts \/ ReplayRejected
  <2>1. PICK h : h = Head(pending)
    OBVIOUS
  <2>2. /\ pending # <<>> /\ pending' = Tail(pending) /\ h.kind \in Replaying \cup {"prime"}
        /\ UNCHANGED <<store, mapping, received>>
        /\ \/ conn' = [conn EXCEPT ![h.conn] = Unused]
           \/ conn' = [conn EXCEPT ![h.conn].kind = "discarded", ![h.conn].heard = FALSE]
    BY <1>7, <2>1
    DEF PrimeRejected, ResumeConflicts, ReplayRejected, Answered, transport, Replaying
  <2>3. h.conn \in Conn
    BY <1>0, <2>1, <2>2, OldestWaits DEF Fits, Replaying
  <2>4. \A d \in Conn : Listening(d)' => conn'[d] = conn[d]
    BY <1>2, <2>2, <2>3
  <2> QED BY <1>1, <2>2, <2>4
<1>8. CASE StoreReplyLost
  BY <1>1, <1>8 DEF StoreReplyLost, Answered, transport
<1>9. ASSUME NEW c \in Conn, Drop(c) \/ Cancel(c) PROVE OrderInv'
  <2>1. /\ UNCHANGED <<pending, store, received>>
        /\ \/ conn' = [conn EXCEPT ![c] = Unused]
           \/ conn' = [conn EXCEPT ![c].heard = FALSE]
        /\ \A s \in Stream : mapping'[s] \in {mapping[s], NoConn}
    BY <1>0, <1>9 DEF Drop, Cancel, transport
  <2>2. \A d \in Conn : Listening(d)' => conn'[d] = conn[d]
    BY <1>2, <2>1
  <2> QED BY <1>1, <2>1, <2>2
<1>10. ASSUME NEW s \in Stream, CloseStream(s) PROVE OrderInv'
  <2>1. PICK c \in Conn : c = mapping[s]
    BY <1>0, <1>10 DEF CloseStream
  <2>2. /\ UNCHANGED <<pending, store, received>> /\ conn' = [conn EXCEPT ![c] = Unused]
        /\ \A t \in Stream : mapping'[t] \in {mapping[t], NoConn}
    BY <1>0, <1>10, <2>1 DEF CloseStream, Cleanup
  <2>3. \A d \in Conn : Listening(d)' => conn'[d] = conn[d]
    BY <1>2, <2>2
  <2> QED BY <1>1, <2>2, <2>3
<1>11. CASE Close
  <2>1. /\ UNCHANGED <<pending, store, received>> /\ \A s \in Stream : mapping'[s] = NoConn
        /\ \A c \in Conn : conn'[c] \in {Unused, conn[c]}
    BY <1>11 DEF Close
  <2>2. \A d \in Conn : Listening(d)' => conn'[d] = conn[d]
    BY <2>1, NoneOpen DEF Listening
  <2> QED BY <1>1, <2>1, <2>2
<1>12. ASSUME UNCHANGED <<mapping, conn, pending, store, received>> PROVE OrderInv'
  BY <1>1, <1>12
\* A response begins.
<1>13. ASSUME NEW c \in Conn, NEW q \in Post, PostArrives(q, c) PROVE OrderInv'
  <2> DEFINE w == Command("prime", c, q, Prime)
  <2>1. /\ w \in Waiting /\ Brings(w) /\ w.conn = c /\ w.stream = q /\ w.event = Prime
        /\ \/ UNCHANGED <<store, pending>>
           \/ Stores(q, Prime) /\ Sends(w)
    BY <1>13, CommandWaits DEF Single, Command, PostArrives, Brings
  <2> HIDE DEF w
  <2>2. /\ Free(c) /\ conn'[c].stream = q /\ conn'[c].kind = "post" /\ UNCHANGED received
        /\ \A d \in Conn \ {c} : conn'[d] = conn[d]
        /\ \A t \in Stream : mapping'[t] = mapping[t] \/ (t = q /\ mapping'[t] = c)
        /\ store[q] = <<>> /\ mapping[q] = NoConn /\ q # GetStream
    BY <1>0, <1>13, OpenedIsResponse DEF PostArrives, TypeOK
  <2>3. Belongs'
    BY <1>0, <2>1, <2>2, BelongsBegins
  <2>4. ASSUME NEW d \in Conn, Listening(d) PROVE conn[d].stream # q
    <3>1. Elements(received[q]) = {} /\ received[q] \in Seq(Event)
      <4>1. Elements(received[q]) \subseteq Elements(store[q]) /\ received[q] \in Seq(Event)
        BY <1>0 DEF Kept, TypeOK
      <4>2. Elements(<<>>) = {}
        BY DEF Elements
      <4> QED BY <2>2, <4>1, <4>2
    <3>2. received[q] = <<>>
      BY <3>1, EmptyHoldsNone
    <3> QED BY <1>0, <2>2, <2>4, <3>2 DEF OneListener, FirstIsMapped
  <2>5. Grows /\ Moves(pending, w)
    <3>1. CASE UNCHANGED <<store, pending>>
      BY <3>1 DEF Grows, Moves
    <3>2. CASE Stores(q, Prime) /\ Sends(w)
      <4>1. Prime \notin Elements(store[q])
        BY <2>2 DEF Elements
      <4>2. \A v \in Elements(pending) : v.kind \in Replaying => v.conn # w.conn
        BY <2>1, <2>2, FreeHolds
      <4>3. Grows /\ Due(w)' /\ \A v \in Elements(pending) : Ahead(v, w)'
        BY <1>0, <2>1, <2>2, <3>2, <4>1, <4>2, NewIsLast
      <4> QED BY <2>1, <3>2, <4>3 DEF Moves, Sends
    <3> QED BY <2>1, <3>1, <3>2
  <2> QED BY <1>0, <2>2, <2>3, <2>4, <2>5, BeginningKeepsOrder DEF OrderInv
<1>14. ASSUME NEW c \in Conn, GetArrives(c) PROVE OrderInv'
  <2>1. /\ Free(c) /\ conn'[c].stream = GetStream /\ conn'[c].kind = "get"
        /\ UNCHANGED <<received, store, pending>> /\ received[GetStream] = <<>>
        /\ \A d \in Conn \ {c} : conn'[d] = conn[d]
        /\ \A d \in Conn : Listening(d) => conn[d].stream # GetStream
        /\ \A t \in Stream : mapping'[t] = mapping[t] \/ (t = GetStream /\ mapping'[t] = c)
    BY <1>0, <1>14, OpenedIsResponse DEF GetArrives, TypeOK
  <2>2. Belongs'
    BY <1>0, <2>1, BelongsBegins
  <2>3. Grows /\ Moves(pending, c)
    BY <2>1 DEF Grows, Moves
  <2> QED BY <1>0, <2>1, <2>2, <2>3, BeginningKeepsOrder DEF OrderInv
<1>15. ASSUME NEW c \in Conn, NEW s \in Stream, ResumeArrives(c, s) PROVE OrderInv'
  <2>0. PICK w : w = Command("lookup", c, s, LastId(s))
    OBVIOUS
  <2>1. LastId(s) \in Event
    BY <1>0, <1>15, LastIdHolds DEF ResumeArrives, Interrupted, TypeOK
  <2>2. /\ w \in Waiting /\ w.kind = "lookup" /\ w.conn = c /\ w.stream = s /\ Sends(w)
        /\ w.event = LastId(s)
    BY <1>15, <2>0, <2>1, CommandWaits DEF Single, Command, ResumeArrives
  <2>3. /\ Free(c) /\ conn'[c].stream = s /\ UNCHANGED <<received, store, mapping>>
        /\ \A d \in Conn \ {c} : conn'[d] = conn[d]
        /\ received[s] # <<>> /\ \A d \in Conn : Listening(d) => conn[d].stream # s
    BY <1>0, <1>15, OpenedIsResponse DEF ResumeArrives, TypeOK, Interrupted, transport
  <2>4. Belongs'
    BY <1>0, <2>2, <2>3, BelongsBegins
  <2>5. Due(w)'
    <3>1. LastId(s)' = LastId(s) /\ \A t \in Stream : mapping'[t] # c
      BY <2>3, FreeHolds DEF LastId
    <3> QED BY <2>2, <2>3, <3>1 DEF Due, Brings
  <2>6. \A v \in Elements(pending) : Ahead(v, w)'
    BY <2>2, <2>3, FreeHolds DEF Ahead, Brings
  <2>7. Grows /\ Moves(pending, w)
    BY <2>2, <2>3, <2>5, <2>6 DEF Grows, Moves, Sends
  <2>8. ~(s = GetStream /\ mapping'[s] = c)
    BY <2>3, FreeHolds
  <2>9. \A t \in Stream : mapping'[t] = mapping[t]
    BY <2>3
  <2> QED BY <1>0, <2>3, <2>4, <2>7, <2>8, <2>9, BeginningKeepsOrder DEF OrderInv
\* A message is stored and sent.
<1>16. ASSUME NEW s \in Stream, NEW e \in Event \ (sent \cup {Prime}), Stores(s, e),
              NEW w \in Waiting, Sends(w), Brings(w), w.stream = s, w.event = e,
              UNCHANGED <<mapping, conn, received>>,
              w.conn \in Conn /\ Listening(w.conn) => conn[w.conn].stream = s,
              \A v \in Elements(pending) : v.kind \in Replaying => v.conn # w.conn
       PROVE  OrderInv'
  <2>1. e \notin Elements(store[s])
    BY <1>0, <1>16 DEF Kept
  <2>2. Grows /\ Due(w)' /\ \A v \in Elements(pending) : Ahead(v, w)'
    BY <1>0, <1>16, <2>1, NewIsLast
  <2>3. Moves(pending, w)
    BY <1>16, <2>2 DEF Moves, Sends
  <2>4. Belongs'
    BY <1>0, <1>16, BelongsSends
  <2>5. ASSUME NEW u \in Elements(pending), u.kind \in Replaying PROVE u.conn # NoConn
    BY <1>0, <2>5, KnownOf DEF Replaying
  <2>6. /\ \A c \in Conn : Listening(c)' => conn'[c] = conn[c]
        /\ \A t \in Stream : mapping'[t] \in {mapping[t], NoConn}
    BY <1>16
  <2> QED BY <1>0, <1>16, <2>2, <2>3, <2>4, <2>5, <2>6, QuietKeepsOrder
<1>17. ASSUME NEW n \in Note, SendStandalone(n) PROVE OrderInv'
  <2> DEFINE w == Command("standalone", NoConn, GetStream, n)
  <2>1. /\ w \in Waiting /\ w.kind = "standalone" /\ w.conn = NoConn /\ w.stream = GetStream
        /\ w.event = n /\ Sends(w) /\ Stores(GetStream, n)
        /\ UNCHANGED <<mapping, conn, received>> /\ n \notin sent
    BY <1>17, CommandWaits DEF Single, Command, SendStandalone, transport
  <2> HIDE DEF w
  <2>2. n \in Event \ (sent \cup {Prime})
    BY <2>1, NamesAssumption DEF Event
  <2>3. ASSUME NEW v \in Elements(pending), v.kind \in Replaying PROVE v.conn # w.conn
    BY <1>0, <2>1, <2>3, KnownOf DEF Replaying
  <2> QED BY <1>16, <2>1, <2>2, <2>3 DEF Brings
<1>18. ASSUME NEW r \in Request, NEW e \in Event, SendRelated(r, e) PROVE OrderInv'
  <2>1. PICK s \in Post : s = streamOf[r] /\ mapping[s] \in Conn /\ mapping[s] # NoConn
    BY <1>0, <1>18 DEF SendRelated, Batches
  <2>0. PICK w : w = Command("related", mapping[s], s, e)
    OBVIOUS
  <2>2. /\ w \in Waiting /\ w.kind = "related" /\ w.conn = mapping[s] /\ w.stream = s
        /\ w.event = e /\ Sends(w)
    BY <1>18, <2>0, <2>1, CommandWaits DEF Single, Command, SendRelated
  <2>3. /\ UNCHANGED <<mapping, conn, received>> /\ Stores(s, e)
        /\ e \in Event \ (sent \cup {Prime})
    BY <1>18, <2>1 DEF SendRelated, Handles
  <2>4. w.conn \in Conn /\ Listening(w.conn) => conn[w.conn].stream = s
    BY <1>0, <2>1, <2>2 DEF Belongs
  <2>5. ASSUME NEW v \in Elements(pending), v.kind \in Replaying PROVE v.conn # w.conn
    BY <1>0, <2>1, <2>2, <2>5 DEF AllDue, Due
  <2> QED BY <1>16, <2>1, <2>2, <2>3, <2>4, <2>5 DEF Brings
\* A replay goes on, with its command back in the queue.
<1>19. ASSUME NEW h, h = Head(pending), pending # <<>>, h.kind \in Replaying,
              NEW w \in Waiting, w.kind \in {"relookup", "list", "fetch"},
              w.conn = h.conn, w.stream = h.stream, Due(w)',
              pending' = Append(Tail(pending), w),
              UNCHANGED <<mapping, conn, store, received>>
       PROVE  OrderInv'
  <2>1. /\ h \in Elements(pending) /\ h.conn \in Conn
        /\ Elements(pending') \subseteq Elements(pending) \cup {w}
        /\ Elements(Tail(pending)) \subseteq Elements(pending)
    BY <1>0, <1>19, OldestWaits, RequeueTypes DEF Fits, Replaying
  <2>2. ASSUME NEW v \in Elements(Tail(pending)) PROVE Ahead(v, w)'
    <3>1. Ahead(h, v)
      BY <1>0, <1>19, FirstAhead
    <3> QED BY <1>19, <3>1 DEF Ahead, Brings
  <2>3. Grows /\ Moves(Tail(pending), w)
    BY <1>19, <2>2 DEF Grows, Moves
  <2>4. Belongs'
    <3>1. ASSUME NEW v \in Elements(pending'), v.conn \in Conn, Listening(v.conn)'
          PROVE  conn'[v.conn].stream = v.stream
      <4>1. Listening(v.conn)
        BY <1>19, <3>1 DEF Listening
      <4> QED BY <1>0, <1>19, <2>1, <3>1, <4>1 DEF Belongs
    <3>2. ASSUME NEW s \in Stream, mapping[s] \in Conn, Listening(mapping[s])
          PROVE  conn[mapping[s]].stream = s
      BY <1>0, <3>2 DEF Belongs
    <3> QED BY <1>19, <3>1, <3>2 DEF Belongs, Listening
  <2>5. ASSUME NEW u \in Elements(Tail(pending)), u.kind \in Replaying PROVE u.conn # NoConn
    BY <1>0, <2>1, <2>5, KnownOf DEF Replaying
  <2>6. /\ \A c \in Conn : Listening(c)' => conn'[c] = conn[c]
        /\ \A t \in Stream : mapping'[t] \in {mapping[t], NoConn}
    BY <1>19
  <2> QED BY <1>0, <1>19, <2>3, <2>4, <2>5, <2>6, QuietKeepsOrder
<1>20. CASE ResumeAccepted
  <2>1. PICK h : h = Head(pending)
    OBVIOUS
  <2> DEFINE w == [h EXCEPT !.kind = "relookup"]
  <2>2. /\ pending # <<>> /\ pending' = Append(Tail(pending), w) /\ h.kind = "lookup"
        /\ UNCHANGED <<mapping, conn, store, received>>
    BY <1>20, <2>1 DEF ResumeAccepted, Answered, transport
  <2>3. h \in Waiting /\ w \in Waiting /\ Due(h)
    BY <1>0, <2>1, <2>2, OldestWaits, ReplayWaits DEF Replaying, AllDue
  <2>4. /\ w.kind = "relookup" /\ w.conn = h.conn /\ w.stream = h.stream /\ w.event = h.event
    BY <2>2, <2>3 DEF Waiting
  <2> HIDE DEF w
  <2>5. Due(w)'
    BY <2>2, <2>3, <2>4 DEF Due, Brings, Replaying, Listening, LastId
  <2> QED BY <1>19, <2>1, <2>2, <2>3, <2>4, <2>5 DEF Replaying
<1>21. CASE ReplayLists
  <2>1. PICK h : h = Head(pending)
    OBVIOUS
  <2>0. PICK w : w = [kind |-> "list", conn |-> h.conn, stream |-> h.stream,
                      event |-> h.event, replay |-> After(h.event, h.stream)]
    OBVIOUS
  <2>2. /\ pending # <<>> /\ pending' = Append(Tail(pending), w) /\ h.kind = "relookup"
        /\ UNCHANGED <<mapping, conn, store, received>>
    BY <1>21, <2>0, <2>1 DEF ReplayLists, Answered, transport
  <2>3. h \in Elements(pending) /\ h.stream \in Stream /\ h.event \in Elements(store[h.stream])
        /\ Due(h) /\ h.conn \in Conn
    BY <1>0, <2>1, <2>2, OldestWaits DEF Fits, AllDue
  <2>4. w \in Waiting
    <3>1. After(h.event, h.stream) \in Seq(Event)
      BY <1>0, <2>3, AfterHolds DEF TypeOK
    <3> QED BY <1>0, <2>0, <2>1, <2>2, <3>1, ReplayWaits DEF Replaying
  <2>5. /\ w.kind = "list" /\ w.conn = h.conn /\ w.stream = h.stream
        /\ w.replay = After(h.event, h.stream)
    BY <2>0
  <2>6. /\ Ascending(w.replay, store[h.stream])
        /\ \A x \in Elements(w.replay) : Before(h.event, x, store[h.stream])
    <3>1. Distinct(store[h.stream])
      BY <1>0, <2>3 DEF InLogs
    <3> QED BY <1>0, <2>3, <2>5, <3>1, AfterAscends DEF TypeOK
  <2>7. ASSUME Listening(h.conn), NEW x \in Elements(w.replay)
        PROVE  AllBefore(received[h.stream], x, store[h.stream])
    <3>1. /\ received[h.stream] # <<>> /\ h.event = LastId(h.stream)
          /\ store[h.stream] \in Seq(Event) /\ received[h.stream] \in Seq(Event)
          /\ Ascending(received[h.stream], store[h.stream])
      BY <1>0, <2>2, <2>3, <2>7 DEF Due, TypeOK, InLogs
    <3>2. Before(h.event, x, store[h.stream])
      BY <2>6
    <3> QED BY <2>3, <3>1, <3>2, AfterTheLast DEF LastId
  <2>8. Due(w)'
    <3>1. \A t \in Stream : mapping'[t] # w.conn
      BY <2>2, <2>3, <2>5 DEF Due, Replaying
    <3>2. Listening(w.conn)' => Listening(h.conn)
      BY <2>2, <2>5 DEF Listening
    <3> QED BY <2>2, <2>5, <2>6, <2>7, <3>1, <3>2 DEF Due, Brings
  <2> QED BY <1>19, <2>1, <2>2, <2>4, <2>5, <2>8 DEF Replaying
<1>22. CASE ReplayFetches
  <2>1. PICK h : h = Head(pending)
    OBVIOUS
  <2> DEFINE w == [h EXCEPT !.kind = "fetch"]
  <2>2. /\ pending # <<>> /\ pending' = Append(Tail(pending), w) /\ h.kind = "list"
        /\ UNCHANGED <<mapping, conn, store, received>>
    BY <1>22, <2>1 DEF ReplayFetches, Answered, transport
  <2>3. h \in Waiting /\ w \in Waiting /\ Due(h)
    BY <1>0, <2>1, <2>2, OldestWaits, ReplayWaits DEF Replaying, AllDue
  <2>4. /\ w.kind = "fetch" /\ w.conn = h.conn /\ w.stream = h.stream
        /\ w.replay = h.replay
    BY <2>2, <2>3 DEF Waiting
  <2> HIDE DEF w
  <2>5. Due(w)'
    BY <2>2, <2>3, <2>4 DEF Due, Brings, Replaying, Listening
  <2> QED BY <1>19, <2>1, <2>2, <2>3, <2>4, <2>5 DEF Replaying
\* Its stream gets the new response.
<1>23. CASE ReplayFinishes
  <2>1. PICK h : h = Head(pending)
    OBVIOUS
  <2>2. /\ pending # <<>> /\ pending' = Tail(pending) /\ UNCHANGED store
        /\ h.kind \in {"list", "fetch"} /\ mapping' = [mapping EXCEPT ![h.stream] = h.conn]
    BY <1>23, <2>1 DEF ReplayFinishes, Answered
  <2>3. /\ h \in Elements(pending) /\ h.conn \in Conn /\ h.stream \in Stream
        /\ h.replay \in Seq(Event) /\ Elements(pending') \subseteq Elements(pending)
        /\ Due(h) /\ received \in [Stream -> Seq(Event)]
    BY <1>0, <2>1, <2>2, OldestWaits, ReplayWaits, PopsShrinks
    DEF Fits, Replaying, TypeOK, AllDue
  <2>4. PICK c \in Conn, s \in Stream : c = h.conn /\ s = h.stream
    BY <2>3
  <2>5. mapping'[s] = c /\ \A t \in Stream \ {s} : mapping'[t] = mapping[t]
    BY <1>0, <2>2, <2>4
  <2>6. PICK events \in Seq(Event) :
           /\ received' = Written(c, s, events)
           /\ events = h.replay \/ \E n \in 0..Len(h.replay) : events = SubSeq(h.replay, 1, n)
           /\ UNCHANGED conn \/ conn' = [conn EXCEPT ![c].heard = FALSE]
    <3>1. CASE received' = Written(h.conn, h.stream, h.replay) /\ UNCHANGED conn
      BY <2>3, <2>4, <3>1
    <3>2. ASSUME NEW n \in 0..Len(h.replay) - 1,
                 received' = Written(h.conn, h.stream, SubSeq(h.replay, 1, n)),
                 conn' = [conn EXCEPT ![h.conn].heard = FALSE]
          PROVE  /\ SubSeq(h.replay, 1, n) \in Seq(Event) /\ n \in 0..Len(h.replay)
                 /\ received' = Written(c, s, SubSeq(h.replay, 1, n))
                 /\ conn' = [conn EXCEPT ![c].heard = FALSE]
      BY <2>3, <2>4, <3>2
    <3> QED BY <1>23, <2>1, <3>1, <3>2 DEF ReplayFinishes
  <2>7. \A d \in Conn : Listening(d)' => conn'[d] = conn[d] /\ Listening(d)
    BY <1>2, <2>6 DEF Listening
  <2>8. Elements(events) \subseteq Elements(h.replay) /\ Ascending(events, store[s])
    <3>1. Ascending(h.replay, store[s])
      BY <2>2, <2>3, <2>4 DEF Due
    <3>2. ASSUME NEW n \in 0..Len(h.replay), events = SubSeq(h.replay, 1, n)
          PROVE  Elements(events) \subseteq Elements(h.replay) /\ Ascending(events, store[s])
      <4>1. 1 \in 1..Len(h.replay) + 1
        BY <2>3
      <4> QED BY <2>3, <3>1, <3>2, <4>1, SubSeqHolds, FirstAscend
    <3> QED BY <2>6, <3>1, <3>2
  <2>9. ASSUME NEW u \in Elements(Tail(pending)) PROVE Ahead(h, u)
    BY <1>0, <2>1, <2>2, FirstAhead
  <2>10. ASSUME NEW u \in Elements(Tail(pending)), u.kind \in Replaying PROVE u.conn # c
    BY <2>4, <2>9, <2>10 DEF Ahead
  <2>11. Belongs'
    <3>1. ASSUME NEW v \in Elements(pending'), v.conn \in Conn, Listening(v.conn)'
          PROVE  conn'[v.conn].stream = v.stream
      BY <1>0, <2>3, <2>7, <3>1 DEF Belongs
    <3>2. ASSUME NEW t \in Stream, NEW d \in Conn, mapping'[t] = d, Listening(d)'
          PROVE  conn'[d].stream = t
      <4>1. CASE t = s
        <5>1. d = c /\ Listening(c) /\ conn'[d] = conn[c]
          BY <2>5, <2>7, <3>2, <4>1
        <5>2. conn[c].stream = s
          BY <1>0, <2>3, <2>4, <5>1 DEF Belongs
        <5> QED BY <4>1, <5>1, <5>2
      <4>2. CASE t # s
        BY <1>0, <2>5, <2>7, <3>2, <4>2 DEF Belongs
      <4> QED BY <4>1, <4>2
    <3> QED BY <3>1, <3>2 DEF Belongs
  <2>12. CASE ~Listening(c)
    <3>1. UNCHANGED received /\ ~Listening(c)'
      BY <2>6, <2>7, <2>12 DEF Written
    <3>2. Grows /\ Moves(Tail(pending), h)
      BY <2>2 DEF Grows, Moves
    <3>3. \A t \in Stream : mapping'[t] \in {mapping[t], NoConn, c}
      BY <2>5
    <3> QED BY <1>0, <2>7, <2>10, <2>11, <3>1, <3>2, <3>3, QuietKeepsOrder
  <2>13. CASE Listening(c)
    <3>1. conn[c].stream = s
      BY <1>0, <2>3, <2>4, <2>13 DEF Belongs
    <3>2. received' = [received EXCEPT ![s] = @ \o events]
      BY <2>6, <2>13 DEF Written
    <3>3. \A x \in Elements(events) : AllBefore(received[s], x, store[s])
      BY <2>2, <2>3, <2>4, <2>8, <2>13 DEF Due
    <3>4. ASSUME NEW u \in Elements(Tail(pending)), Brings(u), u.stream = s
          PROVE  /\ AllBefore(received[s], u.event, store[s])
                 /\ AllBefore(events, u.event, store[s])
      <4>1. /\ AllBefore(received[s], u.event, store[s])
            /\ AllBefore(h.replay, u.event, store[s])
        BY <2>2, <2>4, <2>9, <2>13, <3>4 DEF Ahead
      <4> QED BY <2>8, <4>1 DEF AllBefore
    <3>5. \A t \in Stream : mapping'[t] \in {mapping[t], NoConn} \/ (t = s /\ mapping'[t] = c)
      BY <2>5
    <3>6. \A u \in Elements(Tail(pending)) :
             /\ u.kind \in Replaying => u.conn # c
             /\ Brings(u) /\ u.stream = s =>
                   /\ AllBefore(received[s], u.event, store[s])
                   /\ AllBefore(events, u.event, store[s])
      BY <2>10, <3>4
    <3>7. GetsNext(c, s, events)
      BY <2>8, <2>13, <3>1, <3>2, <3>3, <3>6 DEF GetsNext
    <3>8. /\ TypeOK /\ Kept /\ OrderInv /\ UNCHANGED store
          /\ pending # <<>> /\ pending' = Tail(pending)
          /\ c \in Conn /\ s \in Stream /\ events \in Seq(Event)
      BY <1>0, <2>2, <2>4, <2>6
    <3> QED BY <2>7, <2>11, <3>5, <3>7, <3>8, ReadingKeepsOrder
  <2> QED BY <2>12, <2>13
<1>24. ASSUME NEW r \in Request, HandlerSends(r) \/ HandlerAborted(r) PROVE OrderInv'
  <2>1. CASE HandlerAborted(r)
    BY <1>12, <2>1 DEF HandlerAborted
  <2>2. ASSUME NEW e \in Event, SendUnconnected(r, e) \/ SendRejected(r, e) PROVE OrderInv'
    BY <1>12, <2>2 DEF SendUnconnected, SendRejected
  <2> QED BY <1>18, <1>24, <2>1, <2>2 DEF HandlerSends
<1>25. CASE TransportStep
  BY <1>4, <1>5, <1>6, <1>7, <1>8, <1>9, <1>10, <1>17, <1>20, <1>21, <1>22, <1>23, <1>24, <1>25
  DEF TransportStep, ValkeyReplies, ValkeyRejects
<1>26. ASSUME NEW c \in Conn, RequestArrives(c) PROVE OrderInv'
  BY <1>13, <1>14, <1>15, <1>26 DEF RequestArrives
<1>27. CASE UNCHANGED vars
  BY <1>12, <1>27 DEF vars, transport
<1> QED BY <1>11, <1>25, <1>26, <1>27 DEF Next

LEMMA OrderStarts == Init => OrderInv
<1> SUFFICES ASSUME Init PROVE OrderInv
  OBVIOUS
<1>1. Elements(pending) = {} /\ Len(pending) = 0
  BY DEF Init, Elements
<1>2. \A c \in Conn : ~Listening(c)
  BY NoneOpen DEF Init, Listening
<1>3. \A s \in Stream : mapping[s] = NoConn /\ store[s] = <<>> /\ received[s] = <<>>
  BY DEF Init
<1>4. Belongs
  BY <1>1, <1>3, EventNames DEF Belongs
<1>5. OneListener /\ InQueue /\ AllDue
  BY <1>1, <1>2 DEF OneListener, InQueue, AllDue
<1>6. InLogs
  BY <1>3, FewAscend DEF InLogs, Distinct
<1> QED BY <1>4, <1>5, <1>6 DEF OrderInv

\* A client gets no event of a stream twice, and none before one that was
\* stored earlier, whatever fails and whoever is impatient.
THEOREM ReadInOrder == Spec => []DeliveredInOrder
<1>1. OrderInv /\ StreamInv => DeliveredInOrder
  BY AscendingInOrder DEF OrderInv, InLogs, StreamInv, TypeOK, Kept, DeliveredInOrder
<1>2. StreamInv /\ OrderInv /\ [Next]_vars => OrderInv'
  BY OrderStays
<1> QED BY <1>1, <1>2, OrderStarts, StreamInvariance, PTL DEF Spec

\* All of this holds of a session whose map forwards requests, forgets it, closes
\* it, or finds it gone.
THEOREM SessionsDeliver ==
    /\ SessionSpec => [](EndedStreamsAreAnswered /\ DeliveredInOrder)
    /\ Patient /\ SessionSpec => []ListenersAreMapped
    /\ Patient /\ ~RepliesLost /\ SessionSpec => ResumableSpec /\ []WaitersHaveAll
<1>1. SessionSpec => Spec
  BY SessionsUseTransport
<1>2. SessionSpec => [](EndedStreamsAreAnswered /\ DeliveredInOrder)
  BY <1>1, EndedIsAnswered, ReadInOrder, PTL
<1>3. Patient /\ SessionSpec => []ListenersAreMapped
  BY <1>1, ListenersMapped
<1>4. Patient /\ ~RepliesLost /\ SessionSpec => ResumableSpec /\ []WaitersHaveAll
  BY <1>1, StreamsAreResumable, WaitersAreServed
<1> QED BY <1>2, <1>3, <1>4
=============================================================================
