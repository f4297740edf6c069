# TLA+ models of the Loki MCP server

This directory holds TLA+ specifications of the MCP server in `src/mcp`: an
Express program that lets MCP clients read the logs of Embrapa I/O projects in
Grafana Loki. It has its own OAuth 2.1 server (users log in with a PIN sent by
e-mail), speaks MCP over Streamable HTTP through a vendored copy of the
TypeScript SDK (`src/mcp/packages`), keeps tokens in SQLite, and keeps counters,
caches and the events of MCP streams in Valkey.

TLC checks the modules on small instances; the TLA+ proof system (TLAPS)
checks the theorems for all values of the constants. `PROJECT.json` lists
components, runs, mutants, hazards, theorems and the source lines behind each
definition.

To check one run: `tlc -config OAuth_logins.cfg MCOAuth.tla`. To check the
proofs of a module: `tlapm OAuthProofs.tla`.

## 1. The system

### Components

Paths are below `src/mcp`.

| Component | Source | State | Operations | Module |
|---|---|---|---|---|
| OAuth server | `src/oauth/` | none of its own | register, authorize, token (two grants), revoke | `OAuth` |
| Token store | `src/db/` | tables `oauth_clients`, `oauth_sessions`, `access_tokens`, `refresh_tokens` | queries, hourly `cleanupExpired` | `OAuth` |
| PIN login | `src/oauth/login.ts` | Valkey `pin_attempts:*` | `request_pin`, `verify_pin` | `Login` |
| Bearer check | `src/mcp/auth.ts` | reads `access_tokens` | `createMcpAuthMiddleware` | `OAuth` (`Accepts`) |
| Streamable HTTP transport | `packages/server/src/server/streamableHttp.ts` | stream and request mappings, responses | POST, GET, resume, DELETE, `send`, `close` | `StreamableHttp` |
| Event store | `src/mcp/event-store.ts` | Valkey lists of events per stream | `storeEvent`, `replayEventsAfter` | `StreamableHttp` |
| Node adapter | `packages/middleware/node` | none | hands responses to the HTTP server | `StreamableHttp` (`Returned`, `Cancel`) |
| MCP sessions | `src/mcp/server.ts` | maps `sessions`, `sseSessions` | POST, GET, DELETE `/mcp`, SSE, eviction | `McpSession`, `SseSession` |
| Legacy SSE transport | `src/mcp/transport/sse.ts` | one response | `send`, `close` | `SseSession` |
| Entry point | `src/index.ts` | none | wiring, SIGTERM | `SseSession`; stops in `OAuth`, `Login` |
| Scope resolver | `src/scope/resolver.ts` | Valkey caches `scope:*`, `builds:*` | `resolveProjects`, `resolveLokiBuilds` | `ScopeResolver` |
| Query builder, tools | `src/loki/query-builder.ts`, `src/mcp/tools/` | none | LogQL, statistics, calls | `LogQueries`, `SseSession` |
| Loki client | `src/loki/client.ts` | timers of its requests | queries with one retry | `LokiClient` |
| Protocol | `packages/core/src/shared/protocol.ts` | tables of handlers and timers | requests, timeouts, aborts, close, task-related requests | `ProtocolRequests`, `ProtocolTasks` |
| Server | `packages/server/src/server/server.ts` | capabilities, client capabilities | initialize, `createMessage`, `elicitInput`, ping | `McpServer`, `ClientFeatures` |
| McpServer | `packages/server/src/server/mcp.ts` | registry of tools, prompts, resources | register, update, remove, list, call | `McpServer` |
| Tasks | `packages/*/src/experimental/tasks` | task store, message queue | create, get, result, cancel, expiry, polling | `ProtocolTasks` |
| URI templates | `packages/core/src/shared/uriTemplate.ts` | none | `expand`, `match` | `UriTemplate` |
| Types, validators, stdio, Express helpers, configuration, views, deployment | | none | | not modelled |

### How they interact

A client registers, opens `/oauth/authorize` (a row of `oauth_sessions`), the
user logs in (the backend's JWT is stored in that row), and the client
exchanges the code for an access and a refresh token. The access token passes
the bearer check of `/mcp`; the JWT behind it goes with each tool call to the
scope resolver, which asks the backend for the user's projects, and then the
tool queries Loki. Responses and notifications go back through `Protocol` to
the transport, which stores each event in Valkey before it writes it to the
SSE stream of the request, so that a client can resume with `Last-Event-ID`.

Node runs one callback at a time. OAuth handlers use a synchronous SQLite
driver and interleave with nothing, but they commit several times and the
process can stop between commits. Everything that touches Valkey, the backend
or Loki awaits, and other handlers run in the gaps. All Valkey commands share
one connection.

### What is hard here

- *Crash between commits*: code exchange, rotation and revocation are two or
  three commits each (`token.ts:141`, `token.ts:279`, `revoke.ts:47`).
- *State read before an await*: the login writes to a session that it
  validated three awaits ago (`login.ts:240`) and counts PINs with a read, an
  await and a write (`login.ts:182`); a resume checks for a conflict long before
  it maps the stream (`streamableHttp.ts:498`); two calls that miss the cache
  store their answers in any order (`resolver.ts:114`).
- *Broken connections*: they race with `send`, replays and the end of streams.
- *Several parties that may end the same thing*: the tool ends a task, the
  client cancels it and its time to live runs out, each after an await of its
  own (`inMemory.ts:149`); a request ends by its answer, timeout, abort, failed
  `send` or the end of the connection (`protocol.ts:1250`).
- *Legal calls in any order*: a registry that changes while clients connect and
  list it (`mcp.ts:984`); a conversation that is checked two messages at a time
  (`server.ts:499` of the SDK).
- *Time*: text comparison of instants (`queries.ts:254`), caches that must not
  outlive a JWT (`resolver.ts:109`), timers that race with late answers
  (`client.ts:40`, `protocol.ts:661`).

`PROJECT.json` has the whole list under `hazards`, with the property that
covers each, or why none does.

### What makes each component correct

- *OAuth*: a grant yields tokens once; a login has one live pair, of the
  client it was opened for; what was revoked or refused stays so; the cleanup
  takes exactly what has expired.
- *Login*: PINs are counted; a locked session yields nothing; a late write only
  does what a login may do.
- *Transport and event store*: the client of a stream reads a prefix of what
  was stored, in order, and in the end all of it; a response is not lost.
- *Sessions*: a client that has the result of its initialize is not refused, and
  what is written to a response arrives, whatever became of the session's entry.
- *SSE sessions and tool calls*: an accepted call is answered on an open
  response; every call ends.
- *Scope resolver*: no answer is older than its time to live, and a scope does
  not outlive its JWT.
- *Queries*: they select the builds that `list_builds` shows.
- *Loki client*: bounded waiting; an outcome that follows from its queries'.
- *Protocol*: each promise can be settled, waits are bounded, the peer is told
  of requests given up.
- *Server and McpServer*: what the client was told of the registry can be
  brought up to date; a call is answered in the way it asked for; conversations
  with the client's model stay sound.
- *Tasks*: one outcome, kept for the time to live; requests of a task are not
  forgotten; the client's stream ends.
- *URI templates*: what is expanded is matched again.

## 2. The modules

Each component `M` has its specification in `M.tla`, its properties in
`MProps.tla`, its constants for TLC in `MCM.tla` and its theorems, where there
are any, in `MProofs.tla`. Where one component is built on another, the upper
one extends the lower one, and their properties and proofs are checked together:

| Extends | | Run of | Proofs in |
|---|---|---|---|
| `Login` | `OAuth` | `MCLogin` (and `MCOAuth`) | `LoginProofs`, `OAuthProofs` |
| `McpSession` | `StreamableHttp` | `MCMcpSession` (and `MCStreamableHttp`) | `McpSessionProofs` |
| `SseSession` | `LokiClient`, `LogQueries` | `MCSseSession` | `SseSessionProofs` |
| `ClientFeatures` | `ProtocolRequests` | `MCProtocolRequests` | `ClientFeaturesProofs` |
| `UriTemplateProps` | `McpServer`, `UriTemplate` | `MCMcpServer` | `McpServerProofs` |
| `ProtocolTasks` | | `MCProtocolTasks` | `ProtocolTasksProofs` |
| `ScopeResolver` | | `MCScopeResolver` | `ScopeResolverProofs` |

Definitions whose comment starts with "Fault:" are not part of any
specification. Each is the form a definition would have if the code had some
plausible bug; put in its place, it must make TLC report a violation of the
property it is listed with under `mutants`.

### OAuth, OAuthProps, TokenFamily, OAuthProofs

A table is a function from primary key to row. Each handler is one action,
`Register`, `Authorize`, `ExchangeCode`, `RefreshRotates`, `RefreshExpired`,
`RefreshJwtExpired`, `RevokeAccess`, `RevokeRefresh`, `Cleanup`; its guard is
the conjunction of the handler's checks (a failed check writes nothing).
`ExchangeInterrupted`, `RefreshInterrupted` and `RevokeAccessInterrupted` are the
prefixes that a stop of the process leaves behind; better-sqlite3 transactions
are never cut. `DeleteAccess` carries the foreign key: the DELETE fails when a
refresh token still refers to the row. `ExpiredBySql` is what
`expires_at < datetime('now')` computes: SQLite compares `2025-01-01T10:00:00.000Z`
with `2025-01-01 11:00:00` as text, `T` sorts after the space, and so rows expire
by day. The login appears by its writes (`LoginStarts`, `LoginStoresJwt`,
`LoginLocksSession`); `Login` says when they happen.

A session id stands for its authorization code, which is unique like it; a
`Binding` stands for the redirect URI and the PKCE challenge that a code is
bound to, so that the verifier is right or wrong. The four history variables
record what was handed out and appear in no guard but freshness (UUIDs do not
repeat).

`TokenFamily` is the abstract specification: a login is open, then live with
exactly one grant that can renew it, each renewal replacing that grant by a new
one, then closed for ever. `FamilySpec` states that `OAuth` implements it, with
the stage and the current grant computed from the tables.

### Login, LoginProps, LoginProofs

`Login` extends `OAuth` and replaces the three abstract steps of a login by
the handler of `verify_pin`: `BeginVerify` (validation and `GET`), then, when
the reply is looked at, `LockOut`, `CountAttempt` or `CountFails`, and then
`VerifyRejected` or `VerifyAccepted`. One ioredis connection serves all requests,
so a command is taken to run when it is sent and replies come back in that
order (`awaiting`). `ServerRestarts` and `ValkeyRestarts` cut in anywhere; Valkey
is persisted every 60 s at best (`--save 60 1` in docker-compose.yml) and so
may forget counters. `OAuthSpec` states that this detailed login implements the
OAuth server with its abstract login.

### StreamableHttp, StreamableHttpProps, ResumableStream

One MCP session. `pending` is the queue of Valkey commands sent and not yet
answered: every await of the transport is one of them, and its reply is the
action that continues the handler (`PrimeStored`, `StandaloneStored`,
`RelatedStored`, `ResumeAccepted`, `ReplayLists`, `ReplayFetches`,
`ReplayFinishes`), with the values it read before the await. `conn` is each
HTTP response with both its ends: `open`, the server's controller, and
`heard`, whether the client still reads. A broken connection is two steps, since
the client knows first (`Drop`) and the server later (`Cancel`); in between the
server writes into nothing. The messages of a replay are fetched one by one;
the last fetch stands for all, and a client that breaks off may have any
prefix.

`ResumableStream` is the abstract specification, a log per stream and a reader
that advances along it; `ResumableSpec` states that the transport and the event
store implement it for the stream of a POST.

Assumptions: where `Patient` is `TRUE`, a client that resumes waits for the answer
before it tries again (`Resuming`). It may break off anything else at any time, a
POST before its priming event too: it has no event id then, and nothing to resume
with (`Stranded`). Without that (`Stream_session.cfg`) two replays of
one stream can overlap, and the second client may miss what is sent between
its LRANGE and its mapping, so `ResumableSpec` is not claimed there, only
order and single delivery. Replies that arrive in one TCP packet are handled
in separate turns.

### McpSession, McpSessionProps

One session in the map of `mcp/server.ts`, composed with its transport: the module
extends `StreamableHttp` and lets its HTTP requests through only while the
session is in the map. `sessions.set` comes after `await handleRequest`, which
resolves when the response to initialize has ended, so that being registered is
a function of that response (`Registered`) and of `forgotten`, which a DELETE, a
DELETE that the transport rejects, and the eviction set. The time between the
end of that response and `sessions.set` is a few microtasks of one turn, in which
no request can arrive. Eviction is possible whenever the session is in the
map: its age is left out. A session does nothing to its transport but what
`StreamableHttp` describes, so that all its safety properties hold of a session too.

### SseSession, LogQueries, LokiClient

`LokiClient` is the queries of one tool call. A query waits for headers (with a
timer), waits to try again, or reads its body (without a timer), and ends; the
tool call is the `Promise.all` over them. Timers fire when they are due, answers
come at any time, or never.

`LogQueries` has no state: it says what each of the four log tools asks Loki
for. A value of the label `compose_project` is the sequence of its words
(`<project>_<app>_<stage>`, where the name of the application may have several),
a selector is the set of word sequences that its regular expression matches, and
a query is a selector, a range and the kinds of its filters. `Selects` is
Loki's side, `Builds` is what `resolveLokiBuilds` makes of the labels. The tools
take any string for an application, and `buildSelector` inserts it as it is: `Text` is
those strings that are no names, and what a selector with one of them selects
(`TextSelects`) is left open.

`SseSession` composes them with the legacy transport: responses that open and
break (`Connects`, `Disconnects`), a POST of a tool call that is answered 202 at
once (`Posts`), the scope (`Queries`, `Denies`) and the answer (`Finishes`), which
is dropped when the client is gone or has cancelled; a query that is still out
when its call is over goes on alone. `Sigterm` and `Exits` are the shutdown of
`index.ts`, which quits Valkey, closes the database and exits, without
waiting for calls or responses. `Exits` has no fairness: nothing but Valkey's answer
to QUIT, or its failure, brings the end about, and no property says that it comes.

### ScopeResolver

Tool calls of one user about one project, each reading, fetching and storing
through two caches. Time is in half seconds, because the resolver's clock is
in whole seconds and Valkey's is not. `source` is what the backend and Loki
would answer; it changes at any time. A network step takes at most `MaxDelay`:
the code sets no limit to it, and the bounds of the properties are stated in
terms of it.

### ProtocolRequests, ClientFeatures

`ProtocolRequests` is the requests that one end of an MCP connection sends, over
the tables that `protocol.ts` keeps (`_responseHandlers`, `_progressHandlers`,
`_timeoutInfo`), its timers, and the promise each caller waits on. `send()` is
asynchronous and may fail after the answer arrived.

`ClientFeatures` is what handlers use them for: a conversation that grows by
`createMessage`, input of the user by `elicitInput`, `ping`, and the streams of
the experimental variants, under the capabilities that the client declared. A
handler adds messages and asks again when a request comes to nothing. Of a
message matter its tool uses, its tool results, and whether there is anything
else in it. An answer of the client may have any of these where the schemas let it
(`Understood`): with tools, and in the streams, also tool results. The six tools of this program send no requests to the client, so
that these are the SDK's own promises.

### ProtocolTasks

One task, from the `tools/call` that creates it to the end of the client's
stream. The actors are the tool, the handlers of `tasks/get`, `tasks/result` and
`tasks/cancel`, and the client; a step is what one of them does between two
awaits. `status`, `result` and `left` are the record of the store and its timer,
`queue` is the message queue, and `resolvers`, `handlers` and `timers` are the three
tables in which a request of the task waits for its answer. A request of the task is
queued and reaches the client on the answer of a `tasks/result` call
(`serving`, `held`); `stream` is the client's polling. `Foreign` are requests of the
client whose ids coincide with those of the task: both ends count from 0, and
the resolver table is looked up by id alone.

### McpServer, UriTemplate

`McpServer` is the registry. A registered tool, prompt, resource or template is a
handle; `names` is where its table has it, `home` is the name that the closure of
`update()` holds. Registration before a connection adds capabilities and request
handlers, afterwards it throws if its kind is new, after the table was changed.
Clients connect, are told the capabilities (`told`), list (`known`, `stale`)
and are sent `list_changed` notifications (`sent`), at once or debounced
(`pending`). A call of a tool looks at the table before and uses it after the
await of its validation.

`UriTemplate` is the pure part: templates as sequences of parts, `Expand` and
`Match` with the operators of RFC 6570 that the code handles. The regular
expression is a sequence of texts and of groups (`Pattern`); `Captures` is what its
groups can capture where the whole URI matches, and the greediest of these counts.
What `encodeURIComponent` makes of a reserved character is the constant `Escape`,
one character that is not reserved. `RoundTrip` is checked over sample texts that
hold every separator, and proved for any.

## 3. The runs

| Run | Instance | Question |
|---|---|---|
| `oauth_logins` | 2 clients, 2 logins, 4 tokens, 4 ticks, 2 ticks a day | all properties of `OAuth` |
| `login_pin` | 1 session, 2 requests, 2 attempts, 5 PINs, restarts | all properties of `Login` |
| `stream_batch` | a POST with 2 requests and 1 notification, 3 connections, 2 faults | implements `ResumableStream`, ends and resumes correctly, delivers |
| `stream_session` | 1 request, 1 related and 2 session-wide notifications, impatient client without priming events, 3 faults | order and single delivery |
| `session_life` | initialize and a tool call, 3 connections, 1 fault | registration, DELETE and eviction |
| `scope_calls` | 2 calls, 2 JWTs, time to live of 1 s and 2 s, 4 s in half seconds | staleness and expiry of the caches |
| `loki_two_queries` | 2 SSE sessions, 1 call of any of 4 tools with 48 inputs, 2 queries, timeout 3, pause 2 | bounded waiting, what is selected, the answer, the end of calls |
| `protocol_requests` | 2 requests, one with progress, timeout 1, maximum 2, 2 tool uses, 6 answers of the model, 2 kinds of client | promises, waits, what the peer is told, the conversation |
| `protocol_tasks` | 1 task with 1 request, 2 clients, a queue of 1, a ttl of 2 ticks, 1 colliding id | outcome, pending requests, ttl, the end of the stream |
| `server_registry` | 2 tools (one a task tool), 1 template with a completer, 3 names, debounced tools | what clients know, capabilities, answers |
| `oauth_cleanup_fk` | 1 login, access tokens that expire first | **violation**: the cleanup removes nothing |
| `stream_lost_response` | as `stream_batch`, Valkey never fails | **violation**: a response is lost |

### What the properties say

- `OAuth`: `TypeOK`, `GrantYieldsOnce`, `LivePairsAgree` (one live pair for a
  login, its halves agree and belong to the authorized client),
  `RevokedFamilyStaysClosed` (invariants), `RejectionIsFinal`,
  `CleanupKeepsLiveGrants` (action properties), `FamilySpec` (refinement).
- `Login`: `TriesAreBounded` (at most `MaxAttempts` PINs *per concurrent
  request*: the lost update is real, and this is its exact price; the counter
  outlives its session), `LockIsFinal`, `OAuthSpec` (refinement),
  `EveryLoginAnswered` (liveness).
- `StreamableHttp`: `ResumableSpec` (refinement), `EndedStreamsAreAnswered`,
  `ListenersAreMapped`, `DeliveredInOrder`, `EventuallyDelivered` (liveness).
- `McpSession`: `KnownIsRegistered`, `DeliveredUnlessForgotten` (liveness: what is
  stored for a POST reaches its client; about the GET of a forgotten session
  nothing is said).
- `ScopeResolver`: `CacheIsShortLived` (answers are recent, a cached scope dies
  with its JWT, all that is cached expires), `FirstBuildIsSeen`.
- `SseSession`: `HeadersInTime`, `CallReflectsQueries`, `AnswersHaveAStream`,
  `QueryFindsItsBuilds` (for an application that is named, or none), `CallEnds`
  (liveness).
- `ClientFeatures`: `TablesMatchPromises` (a pending promise can be settled, one
  that has ended is forgotten), `WaitsAreBounded`, `PeerIsTold`,
  `ConversationIsSound` (each message of the handler has the results of just the
  calls before it).
- `ProtocolTasks`: `TypeOK`, `OneOutcome`, `PendingIsReachable`, `KeptForTtl`,
  `StreamEnds` (liveness).
- `McpServer`: `ClientCanCatchUp`, `OwnedIsAdvertised`, `AnswerFits`.
- `UriTemplate`: no run has a property of it. `RoundTrip` is a formula about `Expand`
  and `Match` alone, a theorem (`RoundTripHolds`), which TLC also evaluates over the
  texts of `MCSample`, as an assumption of `MCMcpServer`. Which template `resources/read` takes is not part of it: it has
  `new URL()` normalise the URI and takes the first one that matches
  (`mcp.ts:490-507`).

### Bounds, and why they are enough

Every bound is a constant. `MaxTime` bounds the clocks: each is longer than the
longest chain of deadlines in its instance (a refresh token issued at the end
of a session's life, two timeouts and a pause, a maximum total time and the
timer after it), so that every expiry happens with time left after it. In
`oauth_logins`, four tokens are two pairs: two logins, or one login and its
rotation, which is where pairs and families interact. `MaxTries` bounds a
history variable of `Login`; five is one more than the bound that
`TriesAreBounded` states for its instance (2 requests, 2 attempts). `MaxFaults`
bounds broken connections and rejected commands together: two are needed to
break a resumed stream. Three connections are needed for a replay, the response
it succeeds and the one after. `loki_two_queries` has two sessions, so that
one can end while the call is on the other, projects of one and of two words,
inputs with and without application, with a name of one and of two words and a
text that is no name, and label values of up to four words, which is one more than a selector without
application matches. `protocol_tasks` has one
request and a queue of one, so that a response to a colliding id overflows the
queue; two clients, so that one of them can take what the other waits for.
`server_registry` has two tools that compete for two names, of which one may be
replaced by a plain callback. The conversations of `protocol_requests` grow to
four messages, two of the handler and two of the model, so that a check of two
messages at a time has a start that it does not look at; answers of the model
have text and any tool uses, or no text, all tool results, and all tool uses or
none (`MCReply`; the theorem has any). Symmetry
is used for interchangeable clients, sessions, tokens, connections, calls and
names, and not with liveness.

`CHECK_DEADLOCK FALSE` is set where an instance ends: the client has all its
events, every timer has expired, the process has exited, the task is gone.

### Fairness

- `FairLoginSpec`: a request in progress goes on. ioredis answers or rejects
  every command (`maxRetriesPerRequest: 3`, `index.ts:42`), and `fetch` ends.
- `FairSpec` of `StreamableHttp`: Valkey answers, the HTTP server notices a
  broken connection, and a client whose stream was interrupted resumes it; that
  of `McpSession` is the same, except that a session that is not in the map
  cannot be resumed. Handlers get no fairness: a tool may run for ever. Broken
  connections and rejections are finite in number there, without which no
  delivery can be promised.
- `FairSseSpec`: timers fire, Valkey and the backend answer or fail a call, and
  Loki sends the body of an answer that it has begun. It need not begin any: the
  timer sees to that. The assumption about bodies is needed, as `client.ts:51`
  clears the timer when the headers arrive.
- `FairSpec` of `ProtocolTasks`: what is ready runs, the timer of the ttl
  fires, and the client polls. The tool need not end, and the client need
  not answer: the ttl ends the stream.

### Where the code disagrees with its documentation

Each of these has a run that shows it:

- `cleanupExpired` rolls back as long as an expired access token has a refresh
  token that lives longer, which the defaults make the usual case
  (`queries.ts:257` against its own comment at `:248`); `oauth_cleanup_fk`.
- A response sent while its stream is disconnected is not stored
  (`streamableHttp.ts:970` against the comment at `:111`); `stream_lost_response`.

These were seen while modelling and have no run. OAuth, login and scope:

- Rows that expired earlier *today* are kept until the day ends (`queries.ts:254`).
- A cached scope can outlive its JWT by up to a second and the delay of the
  `SET` (`resolver.ts:109` against Task 16); `CacheIsShortLived` has the exact bound.
- In the last second of a JWT the backend rejects it first, with another error
  than AC 19 asks for (`resolver.ts:69`).

Transport and sessions:

- A resumed response that its client breaks off stays mapped, and every later
  resume of the stream is answered 409 (`streamableHttp.ts:521` against `:522`).
  `EventuallyDelivered` excepts these streams (`Leaked`).
- A client whose POST breaks before its priming event has arrived has no event id,
  and never gets what is stored for that POST (`streamableHttp.ts:783`);
  `EventuallyDelivered` excepts these too (`Stranded`).
- If the priming event of a POST is rejected, its requests are never handled,
  but their ids stay mapped (`streamableHttp.ts:783`).
- The eviction is meant for sessions that were "abandonadas (sem DELETE)"
  (`server.ts:39`) but goes by the time since initialize, and takes sessions in
  use; their POSTs are then answered 400, their GET goes on.
- A DELETE that the transport answers 400 (unsupported protocol version) removes
  the session from the map, which leaves its transport open (`server.ts:170`).
- A session whose initialize failed after it had its id is registered all the
  same (`server.ts:123`).
- When an SSE client disconnects, nothing aborts the handlers of its calls: the
  `onclose` that `connect()` installed is replaced (`server.ts:194`), and their
  queries go on.
- `process.exit` does not wait for calls in progress, and there is no forced
  exit after 10 s, which the tech spec asks for (`index.ts:94`): while Valkey does
  not answer QUIT, the process stays.

Tools and Loki:

- The second attempt of a query is returned without `await`, so that its errors
  reach the tool as they are (`client.ts:68` against AC 21); `fetch error` and
  `body error` of `LokiClient` are these.
- The 30 s of Task 15 cover the headers of each attempt, not the body, nor both
  attempts together (`client.ts:51`).
- `log_stats` sums results of type `matrix` while Loki answers instant queries
  with a `vector` (`log-stats.ts:84` against AC 14).
- `list_builds` lists applications with `_` in their name, whose logs a query
  without application does not select (`query-builder.ts:79`);
  `QueryFindsItsBuilds` excepts these.
- The tools accept any string for an application (`query-logs.ts:35`,
  `log-stats.ts:49`), and `buildSelector` puts it into the selector as it is
  (`query-builder.ts:80`, `:83`), against the comment of `sanitize.ts:4`. What the
  selector then selects is not known; `QueryFindsItsBuilds` is about names.

Protocol, tasks and McpServer:

- `maxTotalTimeout` is looked at only when progress arrives; after the last
  progress a full timeout still runs (`protocol.ts:661`). `WaitsAreBounded` has
  the exact bound.
- Aborting the signal of a request that was answered long ago still tells the
  peer that it is cancelled: the listener is never removed (`protocol.ts:1295`).
- A request whose `send()` fails leaves its handlers in the tables
  (`protocol.ts:1332`), and `_onclose` leaves timers running.
- `_oncancel` ignores request id 0 (`protocol.ts:636`), though ids start at 0
  (`:1213`).
- A message that is queued between the last look at the queue and the end of its
  task is rejected with the queue and not delivered, against the comments at
  `protocol.ts:1694` and `:1729`.
- A request that the resolver of its task answered keeps its handler and its
  timer, so that the peer is told of a cancellation later; a response to a
  client's request whose metadata name a task is queued, and settles a request
  of the server with the same id.
- Without a ttl, a tool that never ends keeps `requestStream` polling for
  ever, against the guarantee at `protocol.ts:1040`. `StreamEnds` has a ttl.
- `createMessageStream` accepts tool uses that were not offered, and
  `elicitInputStream` content that does not fit the schema, which
  `createMessage` and `elicitInput` refuse.
- The answer to `createMessage` with tools may have tool results in it
  (`types.ts:1876`), which nothing checks (`server.ts:549`); `ConversationIsSound`
  says nothing of these.
- `registerToolTask` replaces a tool of the same name without an error
  (`mcpServer.ts:127`); a registration that throws because a client is connected
  leaves its name taken; after a rename, `remove()` works on the old name.
- `enabled` of a resource template is never looked at.
- `match` never decodes what `expand` encoded; a fragment keeps its `#`, and
  expressions of several names are not escaped and never matched.

## 4. The proofs

For all sets and values of the constants:

| Module | Theorem | States |
|---|---|---|
| `OAuthProofs` | `TypeCorrect` | `Spec => []TypeOK` |
| | `SingleUse` | `Spec => []GrantYieldsOnce` |
| | `LivePair` | `Spec => []LivePairsAgree` |
| | `RevocationLasts` | `Spec => []RevokedFamilyStaysClosed` |
| | `RefusalLasts` | `Spec => RejectionIsFinal` |
| | `ImplementsTokenFamily` | `Spec => FamilySpec` |
| | `CleanupIsHarmless` | `Spec => CleanupKeepsLiveGrants` |
| `LoginProofs` | `LoginImplementsOAuth` | `LoginSpec => OAuthSpec /\ []IInv` |
| | `LockLasts` | `LoginSpec => LockIsFinal` |
| | `TriesStayBounded` | `LoginSpec => []TriesAreBounded` |
| | `LoginKeepsPromises` | `LoginSpec =>` the safety theorems of `OAuthProofs` |
| `McpSessionProofs` | `EndedIsAnswered` | `Spec => []EndedStreamsAreAnswered` |
| | `KnownSessionsRegistered` | `SessionSpec => []KnownIsRegistered` |
| | `ListenersMapped` | `Patient /\ Spec => []ListenersAreMapped` |
| | `StreamsAreResumable` | `Patient /\ ~RepliesLost /\ Spec => ResumableSpec` |
| | `WaitersAreServed` | `Patient /\ ~RepliesLost /\ Spec => []WaitersHaveAll` |
| | `ReadInOrder` | `Spec => []DeliveredInOrder` |
| | `SessionsDeliver` | the same of `SessionSpec` |
| `SseSessionProofs` | `HeadersArrive` | `Spec => []HeadersInTime` |
| | `SseCallsReflect` | `SseSpec => [](HeadersInTime /\ CallReflectsQueries)` |
| | `AnswersReachStreams` | `SseSpec => []AnswersHaveAStream` |
| | `QueriesFindBuilds` | `SseSpec => []QueryFindsItsBuilds` |
| `ScopeResolverProofs` | `CacheLivesShortly` | `Spec => []CacheIsShortLived` |
| | `FirstBuildSeen` | `Spec => []FirstBuildIsSeen` |
| `ClientFeaturesProofs` | `TablesAgree` | `Spec => []TablesMatchPromises` |
| | `WaitsEnd` | `Spec => []WaitsAreBounded` |
| | `PeerLearns` | `Spec => []PeerIsTold` |
| | `FeaturesAreRequests` | `FeaturesSpec =>` the three above |
| | `ConversationSound` | `FeaturesSpec => []ConversationIsSound` |
| `ProtocolTasksProofs` | `TaskTypes` | `Spec => []TypeOK` |
| | `TaskHasOneOutcome` | `Spec => []OneOutcome` |
| | `TaskIsKept` | `Spec => []KeptForTtl` |
| | `RequestsAreReachable` | `Spec => []PendingIsReachable` |
| `McpServerProofs` | `ClientsCatchUp` | `Spec => []ClientCanCatchUp` |
| | `OwnersAdvertise` | `Spec => []OwnedIsAdvertised` |
| | `AnswersFit` | `Spec => []AnswerFits` |
| | `RoundTripHolds` | `RoundTrip` |

They assume what the modules name with ASSUME: lifetimes and timeouts are
positive natural numbers, session ids, tokens and request ids are different,
batches of different POSTs do not overlap, NULL is no instant, the texts of `Sample`
are not empty, and no escaped character is a reserved one (`EscapeAssumption`: they
start with `%`). Three assumptions carry more. `RequestAssumption` of `Login`: finitely many requests are in progress
at a time. `TTLAssumption`: a session lives no longer than the TTL of its counter;
both are ten minutes (`authorize.ts:14`, `login.ts:25`), and with a shorter TTL the
counter would be forgotten while its session can still be used. `InputAssumption`
of `SseSession` and `ValueAssumption`: label values and the names of projects are made
of words, as the backend makes them; of an application only that it is such a name or
some text (`Text`).

But for `RoundTrip`, which is about data alone, no safety property is inductive. Each module proves that a stronger invariant is (`Invariance`,
`StreamInvariance`, `ReadInvariance`, `LokiInvariance`, `SessionInvariance`,
`ScopeInvariance`, `RequestInvariance`, `TaskInvariance`, `RegistryInvariance`), and
takes the theorems from it.

*OAuth.* That a code yields tokens once does not follow from its having done so
up to now: one needs that a grant in `redeemed` can no longer be presented,
because its session is marked used (or gone) or its refresh token is deleted, and
that this cannot be undone. `CoreInv` adds this (`RedeemedGrantsAreSpent`,
`IssuedLoginsAreSpent`), the client of each session (`SessionsKeepTheirClient`)
and the agreement of each pair. `RevokedInv` adds that a revoked family has
issued tokens, so that its session is spent, and that whoever revoked an access
token closed the refresh token too. `IInv` is their conjunction. All actions
fall into two kinds, and the proof follows them: *quiet* steps, which only add
open sessions, mark them or remove rows (`SessionsOnlyAge`, `TokensOnlyGo`), and
*issuing* steps, an exchange or a rotation, which put one new pair in the place
of an old one. `NoIssueKeepsCore` and `IssueKeepsCore` carry the invariant over
each kind, the lemmas `SessionActions`, `TokenDeletions`, `ExchangeIssues`,
`RotationIssues` and `RevocationCloses` put every action in its kind, and
`QuietStepCloses` and `IssuingStepHands` map them to steps of `TokenFamily`.
`CleanupIsHarmless` rests on `EarlierDayIsEarlier`: an instant of an earlier day
is an earlier instant, so that comparing by day removes too little and never
too much.

*Login.* `LoginImplementsOAuth` needs no invariant of the login's own: what a
request writes to the database late is written whatever the row has become, and
this is what `LoginStoresJwt` and `LoginLocksSession` of `OAuth` allow at any time
after the session was found valid once. `LockLasts` then follows from `IInv`: a
locked session is spent, and what is spent stays spent. `TriesStayBounded` counts
the requests that have read a stale value of the counter. With N requests, the
n-th PIN may be sent by a request that read `seen` when the others had not written
yet; `PinInv` says by how much: the PINs sent for a session, and the requests that
wait in the queue before and with a given one, are together at most
`(seen + 1) * N`. It holds because replies come back in the order of the queue, and
because a session that is still open keeps its counter (`TTLAssumption`). When a
counter is written, or forgotten with its PINs, the same count goes on from there.
`LoginKeepsPromises` lists what follows from `LoginImplementsOAuth`.

*Streams and sessions.* `StreamInv` says of each waiting command what was true
when it was sent and still is (`Fits`: its event is stored, its replay is part of
the store), that only what was sent is stored and only that is received
(`Kept`), that a stream stands for its whole batch until it is forgotten, and what
is answered was stored or lost (`Batches`), that the first response of a stream
is mapped while it is open (`FirstIsMapped`), and that an open response to a POST
has not given all answers of its batch (`OpenAwaits`). The last two hold a session
back from the map, and let it in, which gives `KnownSessionsRegistered`.
`ListenersMapped` needs more, and that clients are patient. `Orderly` relates
any two waiting commands: no two replays of one stream, and no message behind a
replay of its stream; `AtWork` says that a replay's stream has no response until
it finishes, and that a message waits only for the response that its stream has
or has lost. Only then does a response that is written late (`RelatedStored`) or
closed late (`Cleanup`) not take the stream from a newer one.
`StreamsAreResumable`, the refinement of `ResumableStream`, rests on `ReadInv`.
`Prefix` is what it is about: stored events are distinct and what was read is a
prefix of them. That the next event written is the one after this prefix needs
three more facts: a stream has one reader, which is the response send() writes to
(`OneReader`); every stored event that the reader lacks, and none that it has, is on
its way to it in a command (`Underway`), in the order of the log (`LogOrder`); or
the reader waits for a replay, which holds exactly the rest of the log
(`Replays`). Both assumptions are needed. An impatient client can have two replays
of one stream under way, and a reply that is lost takes its event from the
commands while the stream goes on: the client then reads a log with a gap.
`WaitersAreServed` is what `ReadInv` says of a client that waits: when nothing is
under way to its response, it has all that was stored. This is the safe half of
`EventuallyDelivered`, and it needs the same assumptions (TLC finds it violated
without either).

`ReadInOrder` needs neither. `OrderInv` says of a stream, the standalone one too:
one response at a time is listened to (`OneListener`), commands for it that are
ahead in the queue bring earlier events (`Ahead`), and whatever a command may yet
bring, a replay included, is after all that the client has (`Due`, `AllDue`). The
last is what an impatient client or a lost reply cannot disturb: both take events
away, and neither puts one back. Since a response that replays is written to by
nothing else until its replay has finished, a replay cannot bring what a message
has brought already.

`SessionsDeliver` takes all of this over to sessions behind the map; that a session
only takes steps of its transport (`SessionsUseTransport`) holds by construction.

*Calls over SSE.* `LokiInv` adds to `CallReflectsQueries` that each query that
waits has a timer, due within what its attempt leaves of the bound, and that
attempts are numbered. `SessionInv` adds that a call belongs to a session that was
opened, and has an input of the tool it calls. `QueriesFindBuilds` is about words:
`NameWords` and `NameOfParts` show that a label that is put together from project,
application and stage is read back into them, and that one which is read was put
together so, for names of any length; `SelectedAreBuilds` and `BuildsAreSelected`
are the two inclusions between what a selector allows and what `list_builds` shows.
The second fails, as the property says, for applications of several words when none
was given. Neither is claimed for an application that is no name.

*Scope.* `ScopeInv` follows an answer along its way: since when a call has been
waiting, how old the answer is when it is fetched, with which time to live it is
stored, and until when the cache keeps it. Each of these ages is bounded by the one
before and one delay, whichever order overlapping calls come in.

*Requests.* `Tracked` says for each state of a promise which tables hold the
request and when its timer is due, at the latest; it is the case analysis
that `protocol.ts` leaves implicit. The conversation needs, besides itself, that the
handler and the model take turns (`TakeTurns`) and what each request was allowed to
ask; that what a handler asks for are requests (`FeaturesUseRequests`) holds by
construction, and carries the properties of requests over.

*Tasks.* `Life` ties the record's status to the acknowledgements given for it
and its age to the timer of the ttl. `PendingIsReachable` is inductive together with
it and with the types, which say that a call holds only what it is about to send.

*Registry.* `RegistryInv` adds that a name has one handle in each table, that
capabilities do not change while connected (`Advertised`), what was checked about
a call that waits (`CallIsChecked`), and that lists are of one kind.

*URI templates.* `RoundTripHolds` needs no invariant: it is about `Expand` and
`Match`, for texts of any length over any characters. `EncodedIsPlain` says that
escaping leaves nothing reserved in a text. By `SplitOnce`, a text with one
separator in it comes apart in one way only, so that each group of a pattern can
capture nothing but what was expanded there (`CapturesOne`, `CapturesTwo`) and a list
is split where it was joined (`SplitListed`). A regular expression has then no
choice, greedy or not (`MatchFinds`), and what is left is one case for each kind of
expression. The templates are those of `RoundTrip`, so that what is flattened has at
most four elements and no induction is needed; the texts are not bounded.

*What is only model-checked.* Liveness (`EveryLoginAnswered`,
`EventuallyDelivered`, `DeliveredUnlessForgotten`, `CallEnds`, `StreamEnds`), which rests on ENABLED and is beyond the provers. Every safety
property of the runs that pass is a theorem.

## 5. What is not modelled, and what is left

Left out for good: data formats (types, schemas, JSON, HTML), configuration
and deployment files, packages of the SDK that this program does not use
(stdio, the Express helper), and rate limiting, which is a library's. These have
no state, or none of this program.

Left out of modules that model their component in part:

- `StreamableHttp`: the JSON response mode, which server.ts does not enable,
  header validation, the expiry of events after 24 h, and that all sessions
  share the key of the standalone stream in Valkey.
- `McpSession`: the ages that choose whom to evict.
- `ScopeResolver`: cached text that is no JSON array, and a JWT without `exp`; a hit
  in the cache takes one instant, command and reply. The parsing of labels is in
  `LogQueries`.
- `LogQueries`: the escaping of values and the text of the answers; what a selector
  means that has any other text than a name in it.
- `ProtocolRequests` and `ProtocolTasks`: option merging for handlers,
  notifications in the queue of a task, `tasks/list`.
- `McpServer` and `ClientFeatures`: levels of logging, subscriptions,
  `listRoots`, and completion beyond its capability; a listing takes one instant,
  although `resources/list` awaits the list callbacks of templates after it has
  looked at the registry (`mcp.ts:466`); which template `resources/read` takes.

What could be added next: two sessions that share the standalone stream's
events in Valkey; `RoundTrip` for templates of any number of parts; `tasks/list`
with its cursor.
