----------------------------- MODULE UriTemplate -----------------------------
(***************************************************************************)
(* URI templates, by which an McpServer finds the resource template that   *)
(* serves a URI (src/mcp/packages/core/src/shared/uriTemplate.ts).         *)
(*                                                                         *)
(* A template is the sequence of parts that parse() yields: literal text   *)
(* and expressions.  A text is a sequence of characters, where an escaped  *)
(* character counts as one.  The limits on lengths are left out.           *)
(***************************************************************************)
EXTENDS Naturals, Sequences, SequencesExt

\* Characters that encodeURIComponent escapes and encodeURI does not.
Reserved == {"/", ",", "?", "&", "=", "#"}

CONSTANT Escape   \* [Reserved -> what encodeURIComponent makes of them]

ASSUME EscapeAssumption ==
    DOMAIN Escape = Reserved /\ \A c \in Reserved : Escape[c] \notin Reserved

Literal(text) == [operator |-> "literal", text |-> text]
Expression(operator, variableNames, exploded) ==
    [operator |-> operator, names |-> variableNames, exploded |-> exploded]

IsQuery(part) == part.operator \in {"?", "&"}

\* encodeURI or encodeURIComponent, of which only what is escaped matters.
EncodeValue(text, operator) ==
    IF operator \in {"+", "#"} THEN text
    ELSE [i \in DOMAIN text |-> IF text[i] \in Reserved THEN Escape[text[i]] ELSE text[i]]

\* strings.join(separator)
Join(texts, separator) ==
    FlattenSeq([i \in DOMAIN texts |->
        IF i = 1 THEN texts[i] ELSE <<separator>> \o texts[i]])

-----------------------------------------------------------------------------
\* Variables map names to lists of texts; a single text is a list of one.

EncodedList(part, variables, name) ==
    [i \in DOMAIN variables[name] |-> EncodeValue(variables[name][i], part.operator)]

Given(part, variables) ==
    FlattenSeq([i \in DOMAIN part.names |->
        IF part.names[i] \in DOMAIN variables THEN <<part.names[i]>> ELSE <<>>])

\* Several names without a query: only the first text of each, not escaped.
ExpandPart(part, variables) ==
    LET given == Given(part, variables)
        list  == EncodedList(part, variables, part.names[1])
    IN  IF given = <<>> THEN <<>>
        ELSE IF IsQuery(part)
        THEN <<part.operator>> \o Join([i \in DOMAIN given |->
                <<given[i], "=">> \o Join(EncodedList(part, variables, given[i]), ",")], "&")
        ELSE IF Len(part.names) > 1
        THEN Join([i \in DOMAIN given |-> variables[given[i]][1]], ",")
        ELSE IF part.operator \in {".", "/"}
        THEN <<part.operator>> \o Join(list, part.operator)
        ELSE (IF part.operator = "#" THEN <<"#">> ELSE <<>>) \o Join(list, ",")

Expanded(part, variables) ==
    IF part.operator = "literal" THEN part.text ELSE ExpandPart(part, variables)

\* A second query starts with & instead of ?.
Expand(template, variables) ==
    LET Query(k) == IsQuery(template[k]) /\ Expanded(template[k], variables) # <<>>
    IN  FlattenSeq([k \in DOMAIN template |->
            IF Query(k) /\ \E i \in 1..k - 1 : Query(i)
            THEN <<"&">> \o Tail(Expanded(template[k], variables))
            ELSE Expanded(template[k], variables)])

-----------------------------------------------------------------------------
\* A pattern is a sequence of texts and of groups, which capture variables.

Text(text) == [kind |-> "text", text |-> text]
Capture(name, class, exploded) ==
    [kind |-> "capture", name |-> name, class |-> class, exploded |-> exploded]

PartToRegExp(part) ==
    LET name == part.names[1]
        segment == Capture(name, IF part.exploded THEN "list" ELSE "segment", part.exploded)
    IN  CASE part.operator = "literal" -> <<Text(part.text)>>
          [] IsQuery(part) -> FlattenSeq([i \in DOMAIN part.names |->
                <<Text(<<IF i = 1 THEN part.operator ELSE "&", part.names[i], "=">>),
                  Capture(part.names[i], "query", part.exploded)>>])
          [] part.operator \in {"+", "#"} -> <<Capture(name, "any", part.exploded)>>
          [] part.operator = "." -> <<Text(<<".">>), Capture(name, "segment", part.exploded)>>
          [] part.operator = "/" -> <<Text(<<"/">>), segment>>
          [] OTHER -> <<segment>>

Pattern(template) ==
    FlattenSeq([i \in DOMAIN template |-> PartToRegExp(template[i])])

\* [^/,]+   [^/,]+(?:,[^/,]+)*   [^&]+   .+
Accepts(class, text) ==
    /\ text # <<>>
    /\ CASE class = "segment" -> ToSet(text) \cap {"/", ","} = {}
         [] class = "query" -> "&" \notin ToSet(text)
         [] class = "any" -> TRUE
         [] class = "list" ->
                /\ "/" \notin ToSet(text)
                /\ text[1] # "," /\ text[Len(text)] # ","
                /\ \A i \in 1..Len(text) - 1 : text[i] # "," \/ text[i + 1] # ","

\* Where the groups of a pattern are.
Groups(pattern) == {i \in DOMAIN pattern : pattern[i].kind = "capture"}

\* The pattern with what its groups capture.
Filled(pattern, found) ==
    FlattenSeq([i \in DOMAIN pattern |->
        IF i \in Groups(pattern) THEN found[i] ELSE pattern[i].text])

\* What the groups can capture, where the URI matches as a whole.
Captures(pattern, uri) ==
    {found \in [Groups(pattern) -> SubSeqs(uri)] :
        /\ \A i \in Groups(pattern) : Accepts(pattern[i].class, found[i])
        /\ Filled(pattern, found) = uri}

\* The first group where they differ captures more.
Greedier(found, other) ==
    \E i \in DOMAIN found :
        /\ Len(found[i]) > Len(other[i])
        /\ \A k \in DOMAIN found : k < i => found[k] = other[k]

\* value.split(','): n + 1 parts around n commas
Split(text) ==
    LET commas == {i \in DOMAIN text : text[i] = ","}
    IN  CHOOSE parts \in [1..Cardinality(commas) + 1 -> SubSeqs(text)] :
            /\ \A i \in DOMAIN parts : "," \notin ToSet(parts[i])
            /\ Join(parts, ",") = text

\* What the names of the groups stand for: of groups with one name the last counts.
Values(pattern, found) ==
    [name \in {pattern[i].name : i \in Groups(pattern)} |->
        LET i == CHOOSE j \in Groups(pattern) :
                    /\ pattern[j].name = name
                    /\ \A k \in Groups(pattern) : pattern[k].name = name => k <= j
        IN  IF pattern[i].exploded THEN Split(found[i]) ELSE <<found[i]>>]

\* match(): what the variables of the template stand for in the URI, still
\* escaped, or nothing.
Match(template, uri) ==
    LET all == Captures(Pattern(template), uri)
    IN  IF all = {} THEN {}
        ELSE {Values(Pattern(template),
                     CHOOSE found \in all : \A other \in all \ {found} : Greedier(found, other))}
=============================================================================
