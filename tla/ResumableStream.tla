-------------------------- MODULE ResumableStream --------------------------
(***************************************************************************)
(* What resumability promises: each stream is a log of events, and its     *)
(* client reads the log from the start without gap, repetition or          *)
(* reordering, however often it reconnects.                                *)
(***************************************************************************)
EXTENDS Naturals, Sequences

CONSTANTS Stream, Event

VARIABLES
    log,  \* the events of each stream
    read  \* what its client has of it

streamVars == <<log, read>>

Init ==
    /\ log = [s \in Stream |-> <<>>]
    /\ read = [s \in Stream |-> <<>>]

\* An event is appended once.
Record(s, e) ==
    /\ \A i \in 1..Len(log[s]) : log[s][i] # e
    /\ log' = [log EXCEPT ![s] = Append(@, e)]
    /\ UNCHANGED read

\* The client gets the next events, one from a live response or several from
\* a replay.
Deliver(s, n) ==
    /\ Len(read[s]) < n
    /\ read' = [read EXCEPT ![s] = SubSeq(log[s], 1, n)]
    /\ UNCHANGED log

Next ==
    \E s \in Stream :
        \/ \E e \in Event : Record(s, e)
        \/ \E n \in 1..Len(log[s]) : Deliver(s, n)

Spec == Init /\ [][Next]_streamVars
=============================================================================
