\* Two requests, for a conversation, the user's input or a ping, one of them kept
\* alive by progress, until every timer has expired.
CONSTANTS
    first = first  second = second
    u1 = u1  u2 = u2
    Request = {first, second}
    Resets = {first}
    Signals = {first}
    Timeout = 1
    MaxTotal = 2
    MaxTime = 4
    Streamed = {second}
    ToolUse = {u1, u2}
    Clients <- MCClients
    Reply <- MCReply
    Strict = FALSE
SYMMETRY Symmetry
SPECIFICATION FeaturesSpec
INVARIANTS TablesMatchPromises WaitsAreBounded PeerIsTold ConversationIsSound
CHECK_DEADLOCK FALSE
