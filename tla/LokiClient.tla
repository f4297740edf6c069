----------------------------- MODULE LokiClient -----------------------------
(***************************************************************************)
(* The queries that one tool call sends to Loki, with their timeout and    *)
(* their one retry: fetchWithRetry and the methods of LokiClient           *)
(* (src/mcp/src/loki/client.ts), and the Promise.all of log_stats          *)
(* (src/mcp/src/mcp/tools/log-stats.ts), which sends two; others send one. *)
(*                                                                         *)
(* Timers fire exactly when they are due: the clock stops for them.  Loki  *)
(* and the network may answer at any time, or never.  Of an answer, only   *)
(* the class of its status matters.                                        *)
(***************************************************************************)
EXTENDS Naturals

CONSTANTS
    Query,           \* queries that a call may send
    RequestTimeout,  \* REQUEST_TIMEOUT_MS
    RetryDelay,      \* RETRY_DELAY_MS
    MaxTime          \* bound on the clock

ASSUME LokiAssumption ==
    /\ {RequestTimeout, RetryDelay} \subseteq Nat \ {0}
    /\ MaxTime \in Nat

VARIABLES
    now,    \* time since the call sent its queries
    query,  \* the queries
    tool    \* what the call answers: "pending", "result" or an error

vars == <<now, query, tool>>

\* "headers": fetch has not resolved; "delay": before the retry; "body": the
\* status is known and the body is being read; then an outcome.
Outcome == {"result", "LokiError", "fetch error", "body error"}

Unsent == [phase |-> "unsent", attempt |-> 0, due |-> 0]

Sent == {q \in Query : query[q] # Unsent}

Init ==
    /\ now = 0
    /\ query = [q \in Query |-> Unsent]
    /\ tool = "pending"

\* The call sends its queries together.
Sends(qs) ==
    /\ Sent = {}
    /\ query' = [q \in Query |-> IF q \in qs
           THEN [phase |-> "headers", attempt |-> 1, due |-> now + RequestTimeout]
           ELSE Unsent]
    /\ UNCHANGED <<now, tool>>

\* Fault: every attempt that fails is tried again.
MayRetry_Always(q) == TRUE

MayRetry(q) == query[q].attempt = 1

\* The query q waits RetryDelay before its second attempt.
Delays(q) ==
    /\ query' = [query EXCEPT ![q].phase = "delay", ![q].due = now + RetryDelay]
    /\ UNCHANGED tool

\* Fault: Promise.all waits for the other queries when one has failed.
Settles_Late(q, outcome) ==
    /\ query' = [query EXCEPT ![q].phase = outcome, ![q].due = 0]
    /\ tool' = IF tool = "pending" /\ \A p \in Sent : query'[p].phase \in Outcome
               THEN outcome
               ELSE tool

\* The query q ends; the first failure is the call's, or else the last result.
Settles(q, outcome) ==
    /\ query' = [query EXCEPT ![q].phase = outcome, ![q].due = 0]
    /\ tool' = IF tool # "pending" THEN tool
               ELSE IF outcome # "result" THEN outcome
               ELSE IF \A p \in Sent : query'[p].phase = "result" THEN "result"
               ELSE "pending"

\* Headers arrive and clear the timer, for the body too.
Headers(q) ==
    /\ query[q].phase = "headers"
    /\ query' = [query EXCEPT ![q].phase = "body", ![q].due = 0]
    /\ UNCHANGED <<now, tool>>

\* The body of a result is read, or breaks off, or is no JSON.
BodyOfResult(q) ==
    /\ query[q].phase = "body"
    /\ \E outcome \in {"result", "body error"} : Settles(q, outcome)
    /\ UNCHANGED now

\* A 4xx, or the 5xx of a second attempt; a body that breaks off reads as ''.
StatusIsError(q) ==
    /\ query[q].phase = "body"
    /\ Settles(q, "LokiError")
    /\ UNCHANGED now

\* A 5xx of the first attempt; its body is not read.
ServerError(q) ==
    /\ query[q].phase = "headers"
    /\ MayRetry(q)
    /\ Delays(q)
    /\ UNCHANGED now

\* fetch rejects with a TypeError, because Loki cannot be reached, or with an
\* AbortError, because it was aborted.  The second attempt is returned without
\* await, so that no catch sees its errors.
Rejected(q) == IF MayRetry(q) THEN Delays(q) ELSE Settles(q, "fetch error")

NetworkFails(q) ==
    /\ query[q].phase = "headers"
    /\ Rejected(q)
    /\ UNCHANGED now

\* Fault: a timeout does not end the attempt.
TimesOut_Ignored(q) ==
    /\ query[q].phase = "headers" /\ query[q].due = now
    /\ query' = [query EXCEPT ![q].due = now + RequestTimeout]
    /\ UNCHANGED <<now, tool>>

TimesOut(q) ==
    /\ query[q].phase = "headers" /\ query[q].due = now
    /\ Rejected(q)
    /\ UNCHANGED now

Retries(q) ==
    /\ query[q].phase = "delay" /\ query[q].due = now
    /\ query' = [query EXCEPT ![q] =
           [phase |-> "headers", attempt |-> @.attempt + 1, due |-> now + RequestTimeout]]
    /\ UNCHANGED <<now, tool>>

Tick ==
    /\ now < MaxTime
    /\ Sent # {}
    /\ \A q \in Query : query[q].due # now \/ query[q].phase \notin {"headers", "delay"}
    /\ now' = now + 1
    /\ UNCHANGED <<query, tool>>

QueryStep(q) ==
    \/ Headers(q) \/ BodyOfResult(q) \/ StatusIsError(q) \/ ServerError(q)
    \/ NetworkFails(q) \/ TimesOut(q) \/ Retries(q)

Next ==
    \/ \E qs \in SUBSET Query : Sends(qs)
    \/ Tick
    \/ \E q \in Query : QueryStep(q)

Spec == Init /\ [][Next]_vars
=============================================================================
