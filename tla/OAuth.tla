------------------------------- MODULE OAuth -------------------------------
(***************************************************************************)
(* The OAuth 2.1 server of the Loki MCP server: dynamic registration,      *)
(* authorization, code exchange, refresh rotation, revocation, the bearer  *)
(* check of /mcp and the hourly cleanup, over the four SQLite tables they  *)
(* share (src/mcp/src/oauth, src/mcp/src/db, src/mcp/src/mcp/auth.ts).     *)
(*                                                                         *)
(* Express runs each of these handlers synchronously, so a handler is one  *)
(* action; but a handler makes several commits, and the process can stop   *)
(* between two of them.  The ...Interrupted actions are those prefixes.    *)
(* The asynchronous PIN login is the module Login; here it appears by its  *)
(* writes to oauth_sessions.                                               *)
(***************************************************************************)
EXTENDS Integers, Functions

CONSTANTS
    Client,        \* client_id values
    Binding,       \* (redirect_uri, code_challenge) pairs a code is bound to
    Session,       \* session ids; each stands for its authorization code too
    Token,         \* UUIDs drawn for access and refresh tokens
    JwtExpiry,     \* instants at which a backend JWT may expire
    NoJwt,         \* SQL NULL in oauth_sessions.user_jwt and jwt_expires_at
    SessionTTL, AccessTTL, RefreshTTL,
    DayLength,     \* clock ticks in one UTC day
    MaxTime        \* bound on the clock

ASSUME TimeAssumption ==
    /\ {SessionTTL, AccessTTL, RefreshTTL, DayLength} \subseteq Nat \ {0}
    /\ JwtExpiry \subseteq Nat
    /\ MaxTime \in Nat
ASSUME NoJwtAssumption == NoJwt \notin Nat
ASSUME GrantAssumption == Session \cap Token = {}

VARIABLES
    clients,       \* oauth_clients: the registered client_id values
    sessions,      \* oauth_sessions: rows by id
    accessTokens,  \* access_tokens: rows by token
    refreshTokens, \* refresh_tokens: rows by token
    loginStarted,  \* sessions a POST /oauth/login found valid when it began
    now,           \* the wall clock
    \* History: what was handed out, for stating properties only.
    authorizedFor, \* session ever created -> the client it was created for
    family,        \* token ever issued -> the session its chain began with
    redeemed,      \* <<grant, access token issued on presenting it>>
    revoked        \* <<kind, session>>: family closed by /oauth/revoke

tables  == <<clients, sessions, accessTokens, refreshTokens>>
history == <<authorizedFor, family, redeemed, revoked>>
vars    == <<tables, loginStarted, now, history>>

SessionRow == [client: Client, binding: Binding, jwt: JwtExpiry \cup {NoJwt},
               used: BOOLEAN, expires: Nat]
AccessRow  == [client: Client, jwt: JwtExpiry, expires: Nat]
RefreshRow == [client: Client, access: Token, jwt: JwtExpiry, expires: Nat]

\* A table is a function from its primary key to its rows.
Insert(table, key, row) ==
    [k \in DOMAIN table \cup {key} |-> IF k = key THEN row ELSE table[k]]
Delete(table, keys) == Restrict(table, DOMAIN table \ keys)

Expired(instant) == instant < now

\* Fault: rows go on the day they expire, expired or not.
ExpiredBySql_Inclusive(instant) == instant \div DayLength <= now \div DayLength

\* `expires_at < datetime('now')` compares an ISO instant ("...T...Z") with
\* SQLite's "... ..." as text: 'T' sorts after ' ', so the order is by day.
ExpiredBySql(instant) == instant \div DayLength < now \div DayLength

ReferencesTo(refreshes, tokens) ==
    {r \in DOMAIN refreshes : refreshes[r].access \in tokens}

\* Fault: a rotation that forgets the old access token.
DeleteAccess_Forgotten(tokens, refreshes) == accessTokens

\* Fault: a rotation renews the old access token instead of replacing it.
DeleteAccess_Renews(tokens, refreshes) ==
    [t \in DOMAIN accessTokens |->
        IF t \in tokens THEN [accessTokens[t] EXCEPT !.expires = now + AccessTTL]
        ELSE accessTokens[t]]

\* The foreign key refresh_tokens.access_token makes the DELETE fail while a
\* row of refreshes still refers to one of the tokens.
DeleteAccess(tokens, refreshes) ==
    IF ReferencesTo(refreshes, tokens) = {}
    THEN Delete(accessTokens, tokens)
    ELSE accessTokens

-----------------------------------------------------------------------------
Init ==
    /\ clients = {}
    /\ sessions = <<>> /\ accessTokens = <<>> /\ refreshTokens = <<>>
    /\ loginStarted = {}
    /\ now = 0
    /\ authorizedFor = <<>> /\ family = <<>> /\ redeemed = {} /\ revoked = {}

\* POST /oauth/register
Register(c) ==
    /\ c \notin clients
    /\ clients' = clients \cup {c}
    /\ UNCHANGED <<sessions, accessTokens, refreshTokens, loginStarted, now,
                   history>>

\* GET /oauth/authorize
Authorize(s, c, b) ==
    /\ c \in clients
    /\ s \notin DOMAIN authorizedFor
    /\ sessions' = Insert(sessions, s,
           [client |-> c, binding |-> b, jwt |-> NoJwt, used |-> FALSE,
            expires |-> now + SessionTTL])
    /\ authorizedFor' = Insert(authorizedFor, s, c)
    /\ UNCHANGED <<clients, accessTokens, refreshTokens, loginStarted, now,
                   family, redeemed, revoked>>

\* POST /oauth/login reads the session and validates it, then awaits.
LoginStarts(s) ==
    /\ s \in DOMAIN sessions
    /\ ~Expired(sessions[s].expires)
    /\ ~sessions[s].used
    /\ loginStarted' = loginStarted \cup {s}
    /\ UNCHANGED <<tables, now, history>>

\* Fault: storing the JWT makes the code redeemable again.
LoginStoresJwt_Reopens(s, e) ==
    /\ s \in loginStarted
    /\ sessions' = [t \in DOMAIN sessions |->
           IF t = s THEN [sessions[t] EXCEPT !.jwt = e, !.used = FALSE]
           ELSE sessions[t]]
    /\ UNCHANGED <<clients, accessTokens, refreshTokens, loginStarted, now,
                   history>>

\* A started login writes when its awaits end, however late that is: the row
\* may have been used, have expired or be gone (the UPDATE is then empty).
LoginStoresJwt(s, e) ==
    /\ s \in loginStarted
    /\ sessions' = [t \in DOMAIN sessions |->
           IF t = s THEN [sessions[t] EXCEPT !.jwt = e] ELSE sessions[t]]
    /\ UNCHANGED <<clients, accessTokens, refreshTokens, loginStarted, now,
                   history>>

\* Fault: the code is never marked.
MarkUsed_Forgotten(s) == UNCHANGED sessions

MarkUsed(s) ==
    sessions' = [t \in DOMAIN sessions |->
        IF t = s THEN [sessions[t] EXCEPT !.used = TRUE] ELSE sessions[t]]

\* Too many PIN attempts.
LoginLocksSession(s) ==
    /\ s \in loginStarted
    /\ MarkUsed(s)
    /\ UNCHANGED <<clients, accessTokens, refreshTokens, loginStarted, now,
                   history>>

-----------------------------------------------------------------------------
\* Faults: the used check, or the check that the login ended, is dropped.
CodeIsExchangeable_UsedTwice(s, c, b) ==
    /\ c \in clients
    /\ s \in DOMAIN sessions
    /\ ~Expired(sessions[s].expires)
    /\ sessions[s].client = c /\ sessions[s].binding = b
    /\ sessions[s].jwt # NoJwt

CodeIsExchangeable_NoLogin(s, c, b) ==
    /\ c \in clients
    /\ s \in DOMAIN sessions
    /\ ~sessions[s].used /\ ~Expired(sessions[s].expires)
    /\ sessions[s].client = c /\ sessions[s].binding = b

\* Every check of handleAuthorizationCodeGrant; a failed one changes nothing.
CodeIsExchangeable(s, c, b) ==
    /\ c \in clients
    /\ s \in DOMAIN sessions
    /\ ~sessions[s].used
    /\ ~Expired(sessions[s].expires)
    /\ sessions[s].client = c
    /\ sessions[s].binding = b
    /\ sessions[s].jwt # NoJwt

Fresh(t) == t \notin DOMAIN family

\* The issueTokens / rotateTokens transaction: both rows or neither.
IssuePair(grant, s, c, jwt, a, r, accesses, refreshes) ==
    /\ Fresh(a) /\ Fresh(r) /\ a # r
    /\ accessTokens' = Insert(accesses, a,
           [client |-> c, jwt |-> jwt, expires |-> now + AccessTTL])
    /\ refreshTokens' = Insert(refreshes, r,
           [client |-> c, access |-> a, jwt |-> jwt,
            expires |-> now + RefreshTTL])
    /\ family' = Insert(Insert(family, a, s), r, s)
    /\ redeemed' = redeemed \cup {<<grant, a>>}

\* POST /oauth/token, grant_type=authorization_code
ExchangeCode(s, c, b, a, r) ==
    /\ CodeIsExchangeable(s, c, b)
    /\ MarkUsed(s)
    /\ IssuePair(s, s, c, sessions[s].jwt, a, r, accessTokens, refreshTokens)
    /\ UNCHANGED <<clients, loginStarted, now, authorizedFor, revoked>>

\* The process stops after the UPDATE of used: the code is spent for nothing.
ExchangeInterrupted(s, c, b) ==
    /\ CodeIsExchangeable(s, c, b)
    /\ MarkUsed(s)
    /\ UNCHANGED <<clients, accessTokens, refreshTokens, loginStarted, now,
                   history>>

RefreshIsKnown(r, c) ==
    /\ c \in clients
    /\ r \in DOMAIN refreshTokens
    /\ refreshTokens[r].client = c

\* POST /oauth/token, grant_type=refresh_token, of an expired refresh token
RefreshExpired(r, c) ==
    /\ RefreshIsKnown(r, c)
    /\ Expired(refreshTokens[r].expires)
    /\ refreshTokens' = Delete(refreshTokens, {r})
    /\ UNCHANGED <<clients, sessions, accessTokens, loginStarted, now, history>>

RefreshIsCurrent(r, c) ==
    /\ RefreshIsKnown(r, c)
    /\ ~Expired(refreshTokens[r].expires)

\* The backend JWT has expired: the pair goes and a new login is needed.
RefreshJwtExpired(r, c) ==
    /\ RefreshIsCurrent(r, c)
    /\ Expired(refreshTokens[r].jwt)
    /\ refreshTokens' = Delete(refreshTokens, {r})
    /\ accessTokens' = DeleteAccess({refreshTokens[r].access}, refreshTokens')
    /\ UNCHANGED <<clients, sessions, loginStarted, now, history>>

RefreshIsExchangeable(r, c) ==
    /\ RefreshIsCurrent(r, c)
    /\ ~Expired(refreshTokens[r].jwt)

\* Rotation: the old pair is deleted and a new one inserted.
RefreshRotates(r, c, a2, r2) ==
    /\ RefreshIsExchangeable(r, c)
    /\ LET refreshes == Delete(refreshTokens, {r})
       IN  IssuePair(r, family[r], c, refreshTokens[r].jwt, a2, r2,
                     DeleteAccess({refreshTokens[r].access}, refreshes),
                     refreshes)
    /\ UNCHANGED <<clients, sessions, loginStarted, now, authorizedFor, revoked>>

\* The process stops after the first or the second DELETE of either branch.
RefreshInterrupted(r, c) ==
    /\ RefreshIsCurrent(r, c)
    /\ refreshTokens' = Delete(refreshTokens, {r})
    /\ \/ UNCHANGED accessTokens
       \/ accessTokens' = DeleteAccess({refreshTokens[r].access}, refreshTokens')
    /\ UNCHANGED <<clients, sessions, loginStarted, now, history>>

-----------------------------------------------------------------------------
Hint == {"absent", "access_token", "refresh_token", "other"}

\* Fault: the access token is deleted before the row that refers to it.
RevokeAccess_AccessFirst(t, hint) ==
    /\ hint \in {"absent", "access_token"}
    /\ t \in DOMAIN accessTokens
    /\ accessTokens' = DeleteAccess({t}, refreshTokens)
    /\ refreshTokens' = Delete(refreshTokens, ReferencesTo(refreshTokens, {t}))
    /\ revoked' = revoked \cup {<<"access", family[t]>>, <<"refresh", family[t]>>}
    /\ UNCHANGED <<clients, sessions, loginStarted, now, authorizedFor, family,
                   redeemed>>

\* POST /oauth/revoke of a token that is a row of access_tokens
RevokeAccess(t, hint) ==
    /\ hint \in {"absent", "access_token"}
    /\ t \in DOMAIN accessTokens
    /\ refreshTokens' = Delete(refreshTokens, ReferencesTo(refreshTokens, {t}))
    /\ accessTokens' = DeleteAccess({t}, refreshTokens')
    /\ revoked' = revoked \cup {<<"access", family[t]>>, <<"refresh", family[t]>>}
    /\ UNCHANGED <<clients, sessions, loginStarted, now, authorizedFor, family,
                   redeemed>>

\* The process stops between its two DELETEs; the client got no answer.
RevokeAccessInterrupted(t, hint) ==
    /\ hint \in {"absent", "access_token"}
    /\ t \in DOMAIN accessTokens
    /\ refreshTokens' = Delete(refreshTokens, ReferencesTo(refreshTokens, {t}))
    /\ UNCHANGED <<clients, sessions, accessTokens, loginStarted, now, history>>

\* ... of a refresh token: its access token stays valid until it expires.
RevokeRefresh(t, hint) ==
    /\ hint \in {"absent", "refresh_token"}
    /\ hint = "absent" => t \notin DOMAIN accessTokens
    /\ t \in DOMAIN refreshTokens
    /\ refreshTokens' = Delete(refreshTokens, {t})
    /\ revoked' = revoked \cup {<<"refresh", family[t]>>}
    /\ UNCHANGED <<clients, sessions, accessTokens, loginStarted, now,
                   authorizedFor, family, redeemed>>

\* The bearer check of /mcp: the requests this state lets through.
Accepts(t) ==
    /\ t \in DOMAIN accessTokens
    /\ ~Expired(accessTokens[t].expires)
    /\ ~Expired(accessTokens[t].jwt)

\* cleanupExpired, run at start-up and then hourly.  One transaction: when
\* the DELETE of access tokens breaks the foreign key all of it rolls back.
SqlExpired(table) == {k \in DOMAIN table : ExpiredBySql(table[k].expires)}

CleanupAborts ==
    ReferencesTo(Delete(refreshTokens, SqlExpired(refreshTokens)),
                 SqlExpired(accessTokens)) # {}

\* The three tables as a cleanup that runs now leaves them.
AfterCleanup ==
    IF CleanupAborts
    THEN [sessions |-> sessions, access |-> accessTokens, refresh |-> refreshTokens]
    ELSE [sessions |-> Delete(sessions, SqlExpired(sessions)),
          access   |-> Delete(accessTokens, SqlExpired(accessTokens)),
          refresh  |-> Delete(refreshTokens, SqlExpired(refreshTokens))]

Cleanup ==
    /\ sessions' = AfterCleanup.sessions
    /\ accessTokens' = AfterCleanup.access
    /\ refreshTokens' = AfterCleanup.refresh
    /\ UNCHANGED <<clients, loginStarted, now, history>>

Tick ==
    /\ now < MaxTime
    /\ now' = now + 1
    /\ UNCHANGED <<tables, loginStarted, history>>

LoginStep(s) ==
    \/ LoginStarts(s)
    \/ \E e \in JwtExpiry : LoginStoresJwt(s, e)
    \/ LoginLocksSession(s)

CodeStep(s) ==
    \E c \in Client, b \in Binding :
        \/ Authorize(s, c, b)
        \/ ExchangeInterrupted(s, c, b)
        \/ \E a, r \in Token : ExchangeCode(s, c, b, a, r)

TokenStep(t) ==
    \/ \E c \in Client :
          \/ RefreshExpired(t, c)
          \/ RefreshJwtExpired(t, c)
          \/ RefreshInterrupted(t, c)
          \/ \E a, r \in Token : RefreshRotates(t, c, a, r)
    \/ \E hint \in Hint :
          \/ RevokeAccess(t, hint)
          \/ RevokeAccessInterrupted(t, hint)
          \/ RevokeRefresh(t, hint)

\* Every step but those of a login.
HandlerStep ==
    \/ \E c \in Client : Register(c)
    \/ \E s \in Session : CodeStep(s)
    \/ \E t \in Token : TokenStep(t)
    \/ Cleanup
    \/ Tick

Next == HandlerStep \/ \E s \in Session : LoginStep(s)

Spec == Init /\ [][Next]_vars
=============================================================================
