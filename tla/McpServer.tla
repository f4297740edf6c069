------------------------------ MODULE McpServer ------------------------------
(***************************************************************************)
(* The registry of an McpServer and what its client knows of it: tools,    *)
(* prompts, resources and templates are registered, renamed, switched and  *)
(* removed while clients connect, list them and call tools                 *)
(* (src/mcp/packages/server/src/server/mcp.ts and server.ts).              *)
(*                                                                         *)
(* A registered thing is a handle, the object that the register call       *)
(* returns.  Its update() works with the name it was registered under,     *)
(* which a closure holds and no renaming changes.  Titles, schemas and     *)
(* callbacks are not told apart, but for a callback that takes the place   *)
(* of a task handler.  Of a list only the names and handles matter.        *)
(***************************************************************************)
EXTENDS Naturals

CONSTANTS
    Handle, Name, NoName,
    NamesOf,      \* the names, or URIs, that handles of a kind are given
    KindOf,       \* "tool", "prompt", "resource" or "template"
    TaskSupport,  \* execution.taskSupport of a tool
    Completes,    \* prompts and templates with a completer
    Debounced     \* options.debouncedNotificationMethods, as groups

Support == {"forbidden", "optional", "required"}
Kind    == {"tool", "prompt", "resource", "template"}
Group   == {"tools", "prompts", "resources"}

ASSUME McpServerAssumption ==
    /\ NoName \notin Name
    /\ NamesOf \in [Kind -> SUBSET Name]
    /\ KindOf \in [Handle -> Kind]
    /\ TaskSupport \in [Handle -> Support]
    /\ \A h \in Handle : TaskSupport[h] # "forbidden" => KindOf[h] = "tool"
    /\ Completes \subseteq {h \in Handle : KindOf[h] \in {"prompt", "template"}}
    /\ Debounced \subseteq Group

VARIABLES
    \* McpServer
    names,         \* the names under which the table of its kind has a handle
    home,          \* the name that update() deletes
    owned,         \* handles that were returned
    enabled,
    plain,         \* tools whose task handler was replaced by a callback
    \* Server and Protocol
    capabilities,  \* advertised, and the request handlers installed
    connected,
    pending,       \* _pendingDebouncedNotifications
    \* the transport and the client
    sent,          \* list_changed notifications on their way, lost ones too
    told,          \* what initialize told the client
    initialized,
    stale,         \* lists that a new client is about to ask for
    known,         \* the lists it has
    call           \* the last request for one of them

registry == <<names, home, owned, enabled, plain>>
server   == <<capabilities, connected, pending>>
client   == <<told, initialized, stale, known>>
vars == <<registry, server, sent, client, call>>

NoCall == [phase |-> "none"]

Init ==
    /\ names = [h \in Handle |-> {}]
    /\ home = [h \in Handle |-> NoName]
    /\ owned = {} /\ enabled = {} /\ plain = {}
    /\ capabilities = {} /\ connected = FALSE
    /\ pending = {} /\ sent = {} /\ stale = {}
    /\ told = {} /\ initialized = FALSE
    /\ known = [g \in Group |-> {}]
    /\ call = NoCall

GroupOf(h) ==
    CASE KindOf[h] = "tool" -> "tools"
      [] KindOf[h] = "prompt" -> "prompts"
      [] OTHER -> "resources"

\* A template that was disabled is listed and read as before.
Served(h) == h \in enabled \/ KindOf[h] = "template"

\* What the requests that list a group return.
Listing(g) ==
    {e \in Handle \X Name : GroupOf(e[1]) = g /\ e[2] \in names[e[1]] /\ Served(e[1])}

Found(k, n) == {h \in Handle : KindOf[h] = k /\ n \in names[h] /\ Served(h)}

Taken(k, n) == \E h \in Handle : KindOf[h] = k /\ n \in names[h]

\* delete table[n]
Without(k, n) ==
    [h \in Handle |-> IF KindOf[h] = k THEN names[h] \ {n} ELSE names[h]]

\* Fault: changes are not announced.
Announce_Never(g) == UNCHANGED <<pending, sent>>

\* sendToolListChanged and the like; simple notifications may be debounced.
Announce(g) ==
    IF ~connected THEN UNCHANGED <<pending, sent>>
    ELSE IF g \in Debounced THEN pending' = pending \cup {g} /\ UNCHANGED sent
    ELSE sent' = sent \cup {g} /\ UNCHANGED pending

-----------------------------------------------------------------------------
\* Fault: capabilities may be added at any time.
CanRegister_Always(needs) == TRUE

\* registerCapabilities throws when connected.
CanRegister(needs) == needs \subseteq capabilities \/ ~connected

\* The handlers that a registration installs, unless they are there.
Needs(h) == {GroupOf(h)} \cup (IF h \in Completes THEN {"completions"} ELSE {})

\* registerTool, registerPrompt and registerResource refuse a name that is
\* taken; registerToolTask puts its tool in the place of the one that has it.
MayTake(h, n) == TaskSupport[h] # "forbidden" \/ ~Taken(KindOf[h], n)

\* The table is changed before a missing capability makes the call throw.
Registers(h, n) ==
    /\ home[h] = NoName /\ n \in NamesOf[KindOf[h]]
    /\ MayTake(h, n)
    /\ names' = [Without(KindOf[h], n) EXCEPT ![h] = {n}]
    /\ home' = [home EXCEPT ![h] = n]
    /\ enabled' = enabled \cup {h}
    /\ IF CanRegister(Needs(h))
       THEN /\ capabilities' = capabilities \cup Needs(h)
            /\ owned' = owned \cup {h}
            /\ Announce(GroupOf(h))
       ELSE UNCHANGED <<capabilities, owned, pending, sent>>
    /\ UNCHANGED <<plain, connected, client, call>>

\* update({name}), or {uri} for a resource: the entry under the name of the
\* registration goes, whoever has it now, and one under the new name.
Renames(h, n) ==
    /\ h \in owned
    /\ n # home[h] /\ n \in NamesOf[KindOf[h]]
    /\ LET k == KindOf[h]
       IN  names' = [i \in Handle |->
                        IF i = h THEN (names[h] \ {home[h]}) \cup {n}
                        ELSE IF KindOf[i] = k THEN names[i] \ {home[h], n} ELSE names[i]]
    /\ Announce(GroupOf(h))
    /\ UNCHANGED <<home, owned, enabled, plain, capabilities, connected, client, call>>

Removes(h) ==
    /\ h \in owned
    /\ names' = Without(KindOf[h], home[h])
    /\ Announce(GroupOf(h))
    /\ UNCHANGED <<home, owned, enabled, plain, capabilities, connected, client, call>>

Switches(h) ==
    /\ h \in owned
    /\ enabled' = IF h \in enabled THEN enabled \ {h} ELSE enabled \cup {h}
    /\ Announce(GroupOf(h))
    /\ UNCHANGED <<names, home, owned, plain, capabilities, connected, client, call>>

\* update({callback}): the executor of a task tool becomes an ordinary one.
Replaces(h) ==
    /\ h \in owned
    /\ TaskSupport[h] # "forbidden"
    /\ plain' = plain \cup {h}
    /\ Announce(GroupOf(h))
    /\ UNCHANGED <<names, home, owned, enabled, capabilities, connected, client, call>>

-----------------------------------------------------------------------------
Connects ==
    /\ ~connected
    /\ connected' = TRUE
    /\ UNCHANGED <<registry, capabilities, pending, sent, client, call>>

\* initialize; the client will ask for the lists it was told of.
Initializes ==
    /\ connected /\ ~initialized
    /\ initialized' = TRUE
    /\ told' = capabilities
    /\ stale' = capabilities \cap Group
    /\ UNCHANGED <<registry, server, sent, known, call>>

Closes ==
    /\ connected
    /\ connected' = FALSE /\ initialized' = FALSE
    /\ pending' = {} /\ sent' = {} /\ told' = {} /\ stale' = {}
    /\ known' = [g \in Group |-> {}]
    /\ call' = NoCall
    /\ UNCHANGED <<registry, capabilities>>

\* The microtask of a debounced notification.
SendsDebounced(g) ==
    /\ g \in pending
    /\ pending' = pending \ {g}
    /\ sent' = sent \cup {g}
    /\ UNCHANGED <<registry, capabilities, connected, client, call>>

\* tools/list, prompts/list, resources/list with resources/templates/list, after
\* initialize or when a notification has arrived.
Lists(g) ==
    /\ initialized
    /\ g \in stale \cup sent
    /\ stale' = stale \ {g}
    /\ sent' = sent \ {g}
    /\ known' = [known EXCEPT ![g] = Listing(g)]
    /\ UNCHANGED <<registry, server, told, initialized, call>>

-----------------------------------------------------------------------------
\* 'createTask' in handler
IsTaskHandler(h) == TaskSupport[h] # "forbidden" /\ h \notin plain

\* Fault: what the tool returned is what the client gets.
Answer_Unchecked(task, outcome) == outcome

\* setRequestHandler wraps tools/call: only a created task answers a call that
\* asked for one, errors of the tool included.
Answer(task, outcome) ==
    IF task /\ outcome # "task" THEN "protocol error" ELSE outcome

Answered(task, outcome) ==
    [phase |-> "answered", task |-> task, answer |-> Answer(task, outcome)]

\* tools/call finds the tool and checks how it may be called ...
CallsTool(n, task) ==
    /\ initialized
    /\ call.phase \in {"none", "answered"}
    /\ IF Found("tool", n) = {}
       THEN call' = Answered(task, "protocol error")
       ELSE \E h \in Found("tool", n) :
                LET support == TaskSupport[h]
                    refused == /\ support # "forbidden"
                               /\ h \in plain \/ (support = "required" /\ ~task)
                IN  IF refused THEN call' = Answered(task, "tool error")
                    ELSE call' = [phase |-> "validating", tool |-> h, task |-> task,
                                  polls |-> support = "optional" /\ ~task]
    /\ UNCHANGED <<registry, server, sent, client>>

\* ... validates its input, which takes a while ...
RejectsInput ==
    /\ call.phase = "validating"
    /\ call' = Answered(call.task, "tool error")
    /\ UNCHANGED <<registry, server, sent, client>>

\* ... runs the executor that the tool has by then, and checks its output or
\* polls its task; a call that polls fails if it was not given a task.  Only
\* UrlElicitationRequired is thrown on to the client.
RunsTool ==
    /\ call.phase = "validating"
    /\ \E outcome \in {"tool error", "protocol error",
                       IF IsTaskHandler(call.tool) THEN "task" ELSE "content"} :
          call' = Answered(call.task,
                    IF ~call.polls THEN outcome
                    ELSE CASE outcome = "task" -> "content"
                           [] outcome = "content" -> "tool error"
                           [] OTHER -> outcome)
    /\ UNCHANGED <<registry, server, sent, client>>

\* What is found may still reject its arguments, or throw.
Outcomes(k, n) ==
    {"protocol error"} \cup (IF Found(k, n) = {} THEN {} ELSE {"content"})

\* prompts/get, resources/read and completion/complete run what they find.
Uses(k, n) ==
    /\ initialized
    /\ call.phase \in {"none", "answered"}
    /\ k # "tool"
    /\ \E outcome \in Outcomes(k, n) : call' = Answered(FALSE, outcome)
    /\ UNCHANGED <<registry, server, sent, client>>

-----------------------------------------------------------------------------
OwnerStep(h) ==
    \/ \E n \in Name : Registers(h, n) \/ Renames(h, n)
    \/ Removes(h) \/ Switches(h) \/ Replaces(h)

NoticeStep(g) == SendsDebounced(g) \/ Lists(g)

CallStep ==
    \/ \E n \in Name, task \in BOOLEAN : CallsTool(n, task)
    \/ RejectsInput \/ RunsTool
    \/ \E k \in Kind, n \in Name : Uses(k, n)

Next ==
    \/ \E h \in Handle : OwnerStep(h)
    \/ Connects \/ Initializes \/ Closes
    \/ \E g \in Group : NoticeStep(g)
    \/ CallStep

Spec == Init /\ [][Next]_vars
=============================================================================
