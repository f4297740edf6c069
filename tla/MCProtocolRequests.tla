------------------------- MODULE MCProtocolRequests -------------------------
(* Small instances of ClientFeatures for TLC. *)
EXTENDS ClientFeaturesProps, TLC

CONSTANTS first, second, u1, u2

MCClients == {{"sampling", "tools", "form"}, {"url"}}

\* Texts with any calls or none, and answers without text that have results too.
MCReply ==
    {m \in Message : m.rest /\ m.results = {}} \cup
    {m \in Message : ~m.rest /\ m.results = ToolUse /\ m.uses \in {{}, ToolUse}}

Symmetry == Permutations({u1, u2})
=============================================================================
