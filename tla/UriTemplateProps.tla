-------------------------- MODULE UriTemplateProps --------------------------
(***************************************************************************)
(* What expand() and match() of a URI template have to do with each other. *)
(* Which of the templates of an McpServer resources/read tries on a URI is *)
(* not part of it.                                                         *)
(***************************************************************************)
EXTENDS McpServerProps, UriTemplate

CONSTANT Sample   \* the texts that templates are tried with

ASSUME SampleAssumption == \A t \in Sample : t \in Seq(ToSet(t)) \ {<<>>}

\* uriTemplate.ts:172-289: match() finds in what expand() made of a template the
\* values that it was given, still escaped, and nothing else, for templates with
\* one name to an expression: after a literal, in two path segments, before a
\* query, or as a list.  It is about the two functions alone: resources/read
\* (mcp.ts:490-507) has new URL() normalise what it matches, and takes the first
\* template that does.
RoundTrip ==
    LET Encoded(t, operator) == EncodeValue(t, operator)
    IN  /\ \A t \in Sample, op \in {"", "+", ".", "/", "?", "&"} :
              LET template == <<Literal(<<"x", ":">>), Expression(op, <<"v">>, FALSE)>>
              IN  Match(template, Expand(template, [v |-> <<t>>])) = {[v |-> <<Encoded(t, op)>>]}
        /\ \A t, u \in Sample :
              LET segments == <<Expression("", <<"v">>, FALSE), Literal(<<"/">>),
                                Expression("", <<"w">>, FALSE)>>
                  query == <<Expression("/", <<"v">>, FALSE), Expression("?", <<"w">>, FALSE)>>
                  list == <<Literal(<<"x">>), Expression("", <<"v">>, TRUE)>>
                  both == {[v |-> <<Encoded(t, "")>>, w |-> <<Encoded(u, "")>>]}
              IN  /\ Match(segments, Expand(segments, [v |-> <<t>>, w |-> <<u>>])) = both
                  /\ Match(query, Expand(query, [v |-> <<t>>, w |-> <<u>>])) = both
                  /\ Match(list, Expand(list, [v |-> <<t, u>>]))
                        = {[v |-> <<Encoded(t, ""), Encoded(u, "")>>]}
=============================================================================
