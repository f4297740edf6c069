--------------------------- MODULE ScopeResolver ---------------------------
(***************************************************************************)
(* The calls of one user's tools on one project, up to the moment they may *)
(* query its logs: src/mcp/src/scope/resolver.ts, as list_builds uses it   *)
(* (tools/list-builds.ts).                                                 *)
(*                                                                         *)
(* A call looks two things up, each through a cache in Valkey: whether the *)
(* project is in the user's scope (resolveProjects, asked of the backend), *)
(* and then whether it has builds (resolveLokiBuilds, asked of Loki).      *)
(* list_projects does so for every project in the scope at once, and the   *)
(* other tools stop after the first.  Of the lists that are looked up,     *)
(* only what concerns this project is kept: a BOOLEAN.                     *)
(*                                                                         *)
(* Time passes in ticks, Second of them per second: the resolver reads its *)
(* clock in whole seconds and Valkey does not.  A step of a call waits for *)
(* the network for at most MaxDelay ticks.  Cached text that is no JSON is *)
(* left out: only these two functions write the keys.                      *)
(***************************************************************************)
EXTENDS Naturals

CONSTANTS
    Call,       \* concurrent tool calls
    Jwt,        \* backend JWTs of the user, one per login
    Exp,        \* [Jwt -> the second of its exp claim]
    Second,     \* ticks in a second
    ScopeTTL,   \* the 300 s of resolveProjects
    BuildsTTL,  \* BUILDS_CACHE_TTL
    MaxDelay,   \* bound on a network delay, in ticks
    MaxTime     \* bound on the clock, in ticks

ASSUME ScopeAssumption ==
    /\ Exp \in [Jwt -> Nat]
    /\ {Second, ScopeTTL, BuildsTTL} \subseteq Nat \ {0}
    /\ {MaxDelay, MaxTime} \subseteq Nat

VARIABLES
    now,      \* ticks since the start
    source,   \* what the backend and Loki would answer
    changed,  \* history: when they last changed their answer
    cache,    \* Valkey
    call      \* the tool calls

vars == <<now, source, changed, cache, call>>

Key == {"scope", "builds"}

\* Phases in which a call waits for the network.
Waiting == {"reading", "fetching", "fetched", "storing"}

NoEntry == [value |-> FALSE, until |-> 0, exp |-> 0]

Idle == [phase |-> "idle", key |-> "scope", jwt |-> CHOOSE j \in Jwt : TRUE,
         value |-> FALSE, ttl |-> 0, since |-> 0]

Init ==
    /\ now = 0
    /\ source \in [Key -> BOOLEAN]
    /\ changed = [k \in Key |-> 0]
    /\ cache = [k \in Key |-> NoEntry]
    /\ call = [c \in Call |-> Idle]

\* Math.floor(Date.now() / 1000)
Clock == now \div Second

Lesser(m, n) == IF m < n THEN m ELSE n

\* The call c goes on to another phase, with a new value or time to live.
Goes(c, phase, value, ttl) ==
    call' = [call EXCEPT ![c].phase = phase, ![c].value = value, ![c].ttl = ttl,
                         ![c].since = IF phase = "got" THEN 0 ELSE now]

Ends(c) == call' = [call EXCEPT ![c] = Idle]

-----------------------------------------------------------------------------
\* A call begins; one whose JWT has expired is refused, which changes nothing
\* ("Sessão expirada. Faça login novamente.").
Begin(c, j) ==
    /\ call[c].phase = "idle"
    /\ Exp[j] >= Clock
    /\ call' = [call EXCEPT ![c] = [Idle EXCEPT !.phase = "reading", !.jwt = j, !.since = now]]
    /\ UNCHANGED <<now, source, changed, cache>>

CacheHit(c) ==
    LET k == call[c].key
    IN  /\ call[c].phase = "reading"
        /\ cache[k] # NoEntry
        /\ Goes(c, "got", cache[k].value, 0)
        /\ UNCHANGED <<now, source, changed, cache>>

CacheMiss(c) ==
    /\ call[c].phase = "reading"
    /\ cache[call[c].key] = NoEntry
    /\ Goes(c, "fetching", FALSE, 0)
    /\ UNCHANGED <<now, source, changed, cache>>

\* The backend lists the projects of a JWT that is valid, Loki the label
\* values; the answer is on its way.
SourceAnswers(c) ==
    /\ call[c].phase = "fetching"
    /\ call[c].key = "scope" => now < Second * Exp[call[c].jwt]
    /\ Goes(c, "fetched", source[call[c].key], 0)
    /\ UNCHANGED <<now, source, changed, cache>>

\* The backend rejects a JWT that has expired ("Falha ao resolver projetos").
BackendRejects(c) ==
    /\ call[c].phase = "fetching"
    /\ call[c].key = "scope" /\ now >= Second * Exp[call[c].jwt]
    /\ Ends(c)
    /\ UNCHANGED <<now, source, changed, cache>>

\* Fault: the expiry of the JWT does not limit the time to live.
Ttl_Constant(c) == IF call[c].key = "scope" THEN ScopeTTL ELSE BuildsTTL

\* Fault: that there are no builds is cached too.
Ttl_EmptyList(c) ==
    IF call[c].key = "scope"
    THEN IF Clock < Exp[call[c].jwt] THEN Lesser(ScopeTTL, Exp[call[c].jwt] - Clock) ELSE 0
    ELSE BuildsTTL

\* Seconds to cache the answer for, 0 for not at all.
Ttl(c) ==
    IF call[c].key = "scope"
    THEN IF Clock < Exp[call[c].jwt] THEN Lesser(ScopeTTL, Exp[call[c].jwt] - Clock) ELSE 0
    ELSE IF call[c].value THEN BuildsTTL ELSE 0

Cacheable(c) == Ttl(c) > 0

\* The answer arrives, and SET is sent if it is to be cached.
Fetched(c) ==
    /\ call[c].phase = "fetched"
    /\ IF Cacheable(c) THEN Goes(c, "storing", call[c].value, Ttl(c))
       ELSE Goes(c, "got", call[c].value, 0)
    /\ UNCHANGED <<now, source, changed, cache>>

Stored(c) ==
    /\ call[c].phase = "storing"
    /\ cache' = [cache EXCEPT ![call[c].key] =
           [value |-> call[c].value, until |-> now + Second * call[c].ttl,
            exp |-> IF call[c].key = "scope" THEN Exp[call[c].jwt] ELSE 0]]
    /\ Goes(c, "got", call[c].value, 0)
    /\ UNCHANGED <<now, source, changed>>

\* A rejected command of Valkey, or an error of the backend or of Loki, fails
\* the call, even one that has its answer and only cannot cache it.
LookupFails(c) ==
    /\ call[c].phase \in Waiting
    /\ Ends(c)
    /\ UNCHANGED <<now, source, changed, cache>>

\* assertProjectAccess, and then the builds of the project.
Decide(c) ==
    /\ call[c].phase = "got"
    /\ IF call[c].key = "scope" /\ call[c].value
       THEN call' = [call EXCEPT ![c] =
                [Idle EXCEPT !.phase = "reading", !.key = "builds", !.since = now]]
       ELSE Ends(c)
    /\ UNCHANGED <<now, source, changed, cache>>

-----------------------------------------------------------------------------
\* The user joins or leaves the project; its first build is deployed, or its
\* last logs expire in Loki.
SourceChanges(k) ==
    /\ source' = [source EXCEPT ![k] = ~@]
    /\ changed' = [changed EXCEPT ![k] = now]
    /\ UNCHANGED <<now, cache, call>>

\* Valkey drops the entries whose time has come.
Tick ==
    /\ now < MaxTime
    /\ \A c \in Call :
        /\ call[c].phase # "got"
        /\ call[c].phase \in Waiting => now < call[c].since + MaxDelay
    /\ now' = now + 1
    /\ cache' = [k \in Key |-> IF cache[k].until > now + 1 THEN cache[k] ELSE NoEntry]
    /\ UNCHANGED <<source, changed, call>>

LookupStep(c) ==
    \/ CacheHit(c) \/ CacheMiss(c)
    \/ SourceAnswers(c) \/ BackendRejects(c)
    \/ Fetched(c) \/ Stored(c) \/ LookupFails(c)
    \/ Decide(c)

Next ==
    \/ \E c \in Call, j \in Jwt : Begin(c, j)
    \/ \E c \in Call : LookupStep(c)
    \/ \E k \in Key : SourceChanges(k)
    \/ Tick

Spec == Init /\ [][Next]_vars
=============================================================================
