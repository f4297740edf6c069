-------------------------- MODULE MCStreamableHttp --------------------------
(* Small instances of StreamableHttp for TLC. *)
EXTENDS StreamableHttpProps, TLC

CONSTANTS p1, p2, r1, r2, n1, n2, n3, n4, c1, c2, c3, get

\* One POST with two requests, and a notification about the first.
BatchOfTwo == [p \in Post |-> {r1, r2}]
AboutFirst == [n \in Note |-> r1]

\* A POST with one request.
Single == [p \in Post |-> {r1}]

\* Notifications of the session, and one of the request.
AboutSession == [n \in Note |-> GetStream]
AboutBoth == [n \in Note |-> IF n = n1 THEN r1 ELSE GetStream]

Symmetry == Permutations(Conn)
=============================================================================
