--------------------------- MODULE McpServerProps ---------------------------
(***************************************************************************)
(* What an McpServer promises the code that owns it and its client, stated *)
(* over McpServer.                                                         *)
(***************************************************************************)
EXTENDS McpServer

\* Types; a name is never in the table of its kind for two handles.
TypeOK ==
    /\ names \in [Handle -> SUBSET Name]
    /\ \A g, h \in Handle : KindOf[g] = KindOf[h] /\ g # h => names[g] \cap names[h] = {}
    /\ home \in [Handle -> Name \cup {NoName}]
    /\ owned \subseteq {h \in Handle : home[h] # NoName}
    /\ enabled \subseteq Handle /\ plain \subseteq owned
    /\ capabilities \subseteq Group \cup {"completions"}
    /\ {connected, initialized} \subseteq BOOLEAN
    /\ pending \subseteq Debounced /\ sent \subseteq Group
    /\ told \subseteq capabilities
    /\ stale \subseteq Group
    /\ known \in [Group -> SUBSET (Handle \X Name)]
    /\ call.phase \in {"none", "validating", "answered"}

\* mcp.ts:984-1006: a client whose list is out of date is going to ask for it, or
\* has been sent a notification; it otherwise only lacks entries of
\* registrations that threw after they had changed the table.
ClientCanCatchUp ==
    initialized => \A g \in told \cap Group :
        \/ g \in pending \cup sent \cup stale
        \/ \A e \in (known[g] \ Listing(g)) \cup (Listing(g) \ known[g]) : e[1] \notin owned

\* server.ts:191-200: whatever the owner holds a handle of, the client was told
\* by initialize that the server has it, in whatever order they came.
OwnedIsAdvertised ==
    initialized => \A h \in owned : Needs(h) \subseteq told

\* server.ts:205-252: a call that asked for a task is answered with one or
\* with an error, and no other call is, even if the executor of its tool was
\* replaced while its input was validated.
AnswerFits ==
    call.phase = "answered" =>
        IF call.task THEN call.answer \in {"task", "protocol error"} ELSE call.answer # "task"
=============================================================================
