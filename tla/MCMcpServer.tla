----------------------------- MODULE MCMcpServer -----------------------------
(* Small instances of McpServer for TLC. *)
EXTENDS UriTemplateProps

CONSTANTS n1, n2, n3, export, report, logs

MCKindOf == (export :> "tool") @@ (report :> "tool") @@ (logs :> "template")

MCNamesOf ==
    ("tool" :> {n1, n2}) @@ ("template" :> {n3}) @@ ("resource" :> {}) @@ ("prompt" :> {})

MCTaskSupport ==
    (export :> "optional") @@ (report :> "forbidden") @@ (logs :> "forbidden")

MCEscape == [c \in Reserved |-> "%" \o c]
MCSample == {<<"a", "/">>, <<"&", ",", "?">>}

\* TLC evaluates the round trip of these texts; the theorem is for all.
ASSUME SamplesRoundTrip == RoundTrip

Symmetry == Permutations({n1, n2})
=============================================================================
