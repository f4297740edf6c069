------------------------- MODULE ProtocolTasksProps -------------------------
(***************************************************************************)
(* What a task promises its tool and its client, stated over               *)
(* ProtocolTasks.                                                          *)
(***************************************************************************)
EXTENDS ProtocolTasks

Message == [type : {"request", "response"}, id : Side]

\* Types; a call holds the request that it is sending, and no other.
TypeOK ==
    /\ status \in {NoStatus, "gone"} \cup Live \cup Terminal
    /\ {result, stored, connected} \subseteq BOOLEAN
    /\ left \in 0..Ttl /\ age \in 0..Ttl
    /\ queue \in Seq(Message) /\ Len(queue) <= MaxQueue
    /\ resolvers \subseteq Side /\ handlers \subseteq Side /\ timers \subseteq Side
    /\ clearing \subseteq Side
    /\ asked \in [Side -> {"unasked", "checked", "notifying", "refused", "overflow", "pending",
                           "answered", "crossed", "task over", "timed out", "closed"}]
    /\ setting \in {NoStatus} \cup Live \cup Terminal
    /\ serving \in [Call -> {"idle", "drain", "send", "check", "wait", "fetch"} \cup Ended]
    /\ held \in [Call -> {{}} \cup {{s} : s \in Side}]
    /\ \A c \in Call : held[c] # {} <=> serving[c] = "send"
    /\ cancel \in {"idle", "checked", "updated", "done", "error"}
    /\ stream \in {"creating", "polling", "sleeping", "fetching"} \cup StreamEnded
    /\ delivered \subseteq Side /\ lost \subseteq Side /\ answered \subseteq Foreign

\* inMemory.ts:107-112,155-160: the tool and the client race to end the task,
\* and both look at it before an await, but one of them is refused: what was
\* acknowledged to the tool, or to the client that cancelled, stays the outcome
\* until the task expires.
OneOutcome ==
    /\ stored => result /\ status \in {"completed", "failed", "gone"}
    /\ cancel \in {"updated", "done"} => ~result /\ status \in {"cancelled", "gone"}
    /\ stream = "result" => stored

\* protocol.ts:1589-1608: a request of the task that has not been settled can
\* still be.  Its message is on its way to the client, or has reached it, or is
\* about to be rejected with the queue it was in; only a send that failed loses
\* one, which then has to wait for its timeout.
PendingIsReachable ==
    \A s \in Side : asked[s] = "pending" =>
        /\ connected
        /\ s \in resolvers \cap handlers \cap timers
        /\ \/ \E i \in DOMAIN queue : queue[i] = [type |-> "request", id |-> s]
           \/ \E c \in Call : s \in held[c]
           \/ s \in delivered \cup clearing \cup lost

\* inMemory.ts:118-131,169-182: a task is kept for its whole ttl after it has
\* ended, however late it ended.
KeptForTtl == status = "gone" /\ (result \/ cancel = "done") => age = Ttl

\* protocol.ts:1040: "The generator is guaranteed to end with either a result
\* or an error": because of the ttl, even when the tool never ends the task.
StreamEnds == <>(stream \in StreamEnded)
=============================================================================
