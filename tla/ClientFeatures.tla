--------------------------- MODULE ClientFeatures ---------------------------
(***************************************************************************)
(* What a handler of the server asks of the client: a conversation with    *)
(* its model, grown message by message with createMessage, and input of    *)
(* its user with elicitInput (src/mcp/packages/server/src/server/          *)
(* server.ts), or with the generators of experimental/tasks/server.ts.     *)
(* They are requests of ProtocolRequests, and so is a ping.                *)
(*                                                                         *)
(* The handler adds one message at a time, and asks again with the same    *)
(* messages when a request comes to nothing.  Of a message matter the      *)
(* calls of tools in it, the results in it, and whether there is anything  *)
(* else.  A call that the server refuses throws and changes nothing.       *)
(***************************************************************************)
EXTENDS ProtocolRequests, Sequences

CONSTANTS
    Streamed,  \* requests made with createMessageStream or elicitInputStream
    ToolUse,   \* ids of calls that the model makes
    Clients,   \* the capabilities that clients declare
    Strict,    \* options.enforceStrictCapabilities
    Reply      \* answers that the client's model gives

\* The calls in a message, the results in it, and whether there is anything else.
Message == [uses : SUBSET ToolUse, results : SUBSET ToolUse, rest : BOOLEAN]

Capability == {"sampling", "tools", "form", "url"}

ASSUME ClientFeaturesAssumption ==
    /\ Streamed \subseteq Request
    /\ Clients \subseteq SUBSET Capability
    /\ Strict \in BOOLEAN
    /\ Reply \subseteq Message

VARIABLES
    clientCapabilities,  \* _clientCapabilities, once initialized
    asked,               \* what each request asks for
    messages,            \* the conversation, as the handler has it
    elicited             \* what elicitInput resolved to

features == <<clientCapabilities, asked, messages, elicited>>
featureVars == <<vars, features>>

Sampling == {"message", "message with tools"}
Elicitation == {"form", "url"}

Input == [action : {"accept", "decline"}, content : {"none", "fits", "unfit"}]
NoInput == [action |-> "none", content |-> "none"]

FeaturesInit ==
    /\ Init
    /\ clientCapabilities \in Clients
    /\ asked = [r \in Request |-> "nothing"]
    /\ messages = << >>
    /\ elicited = [r \in Request |-> NoInput]

\* assertCapabilityForMethod
Supports(what) ==
    /\ what \in Sampling => "sampling" \in clientCapabilities
    /\ what \in Elicitation => Elicitation \cap clientCapabilities # {}

\* request() looks at the capabilities only if it is told to be strict.
Requests(r, what) ==
    /\ Strict => Supports(what)
    /\ Sends(r)
    /\ asked' = [asked EXCEPT ![r] = what]
    /\ UNCHANGED clientCapabilities

Pings(r) == Requests(r, "ping") /\ UNCHANGED <<messages, elicited>>

-----------------------------------------------------------------------------
Last(s) == s[Len(s)]

\* Fault: results may be left out, and results that no one asked for added.
Accepts_AnyIds(ms) ==
    Last(ms).results # {} => ~Last(ms).rest /\ Len(ms) > 1 /\ ms[Len(ms) - 1].uses # {}

\* createMessage looks at the last message and the one before it.
Accepts(ms) ==
    LET uses == IF Len(ms) > 1 THEN ms[Len(ms) - 1].uses ELSE {}
    IN  /\ Last(ms).results # {} => ~Last(ms).rest /\ uses # {}
        /\ uses # {} => uses = Last(ms).results

\* createMessageStream makes the same checks.
AcceptsStream(ms) == Accepts(ms)

\* The handler waits for one answer of the model before it asks for the next.
Idle == \A r \in Request : asked[r] \in Sampling => promise[r] # "pending"

\* createMessage, with messages of which the last is the handler's.
Asks(r, ms, what) ==
    /\ Idle
    /\ what = "message with tools" => "tools" \in clientCapabilities
    /\ IF r \in Streamed THEN AcceptsStream(ms) ELSE Accepts(ms)
    /\ Requests(r, what)
    /\ messages' = ms
    /\ UNCHANGED elicited

\* An answer to createMessage without tools has one block, and no call or result
\* of a tool; with tools, or in a generator, it may have any blocks, or none.
Understood(r, reply) ==
    \/ asked[r] = "message with tools" \/ r \in Streamed
    \/ reply.uses = {} /\ reply.results = {} /\ reply.rest

\* The answer of the model joins the conversation unless its request had ended.
Replies(r, reply) ==
    /\ asked[r] \in Sampling
    /\ Responds(r)
    /\ messages' = IF promise[r] = "pending" /\ Understood(r, reply)
                   THEN Append(messages, reply) ELSE messages
    /\ UNCHANGED <<clientCapabilities, asked, elicited>>

-----------------------------------------------------------------------------
\* The modes that elicitInputStream lets through, and elicitInput too.
Modes == Elicitation \cap clientCapabilities

\* elicitInput
Elicits(r, mode) ==
    /\ mode \in Modes
    /\ Requests(r, mode)
    /\ UNCHANGED <<messages, elicited>>

\* elicitInput validates the content of a form that was accepted; the generator
\* does not.
Fits(r, input) ==
    asked[r] = "form" /\ r \notin Streamed /\ input.action = "accept" => input.content # "unfit"

Submits(r, input) ==
    /\ asked[r] \in Elicitation
    /\ Responds(r)
    /\ elicited' = IF promise[r] = "pending" /\ Fits(r, input)
                   THEN [elicited EXCEPT ![r] = input] ELSE elicited
    /\ UNCHANGED <<clientCapabilities, asked, messages>>

Pongs(r) == asked[r] = "ping" /\ Responds(r) /\ UNCHANGED features

-----------------------------------------------------------------------------
Said == {m \in Message : m.uses = {}}

\* A new message of the handler, or, if it got no answer, the same messages.
Drafts ==
    IF Len(messages) % 2 = 1 THEN {messages} ELSE {Append(messages, m) : m \in Said}

FeatureStep(r) ==
    \/ \E ms \in Drafts, what \in Sampling : Asks(r, ms, what)
    \/ \E reply \in Reply : Replies(r, reply)
    \/ \E mode \in Elicitation : Elicits(r, mode)
    \/ \E input \in Input : Submits(r, input)
    \/ Pings(r) \/ Pongs(r)
    \/ Elapses(r) /\ UNCHANGED features

FeaturesNext ==
    \/ \E r \in Request : FeatureStep(r)
    \/ (Closes \/ Tick) /\ UNCHANGED features

FeaturesSpec == FeaturesInit /\ [][FeaturesNext]_featureVars
=============================================================================
