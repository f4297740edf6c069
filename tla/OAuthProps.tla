----------------------------- MODULE OAuthProps -----------------------------
(***************************************************************************)
(* What the OAuth server promises its clients, stated over OAuth.          *)
(***************************************************************************)
EXTENDS OAuth

TypeOK ==
    /\ clients \subseteq Client
    /\ DOMAIN sessions \subseteq DOMAIN authorizedFor
    /\ \A s \in DOMAIN sessions : sessions[s] \in SessionRow
    /\ DOMAIN accessTokens \subseteq DOMAIN family
    /\ \A t \in DOMAIN accessTokens : accessTokens[t] \in AccessRow
    /\ DOMAIN refreshTokens \subseteq DOMAIN family
    /\ \A t \in DOMAIN refreshTokens : refreshTokens[t] \in RefreshRow
    /\ loginStarted \subseteq DOMAIN authorizedFor
    /\ now \in 0..MaxTime
    /\ DOMAIN authorizedFor \subseteq Session
    /\ \A s \in DOMAIN authorizedFor : authorizedFor[s] \in Client
    /\ DOMAIN family \subseteq Token
    /\ \A t \in DOMAIN family : family[t] \in DOMAIN authorizedFor
    /\ redeemed \subseteq (DOMAIN authorizedFor \cup DOMAIN family) \X DOMAIN family
    /\ revoked \subseteq {"access", "refresh"} \X DOMAIN authorizedFor

AccessOf(s)  == {t \in DOMAIN accessTokens : family[t] = s}
RefreshOf(s) == {t \in DOMAIN refreshTokens : family[t] = s}

\* A grant (authorization code or refresh token) yields tokens at most once,
\* across concurrent requests, process stops, rotations and cleanups.
GrantYieldsOnce ==
    \A x, y \in redeemed : x[1] = y[1] => x[2] = y[2]

\* The chain that one login began holds at most one row of each table, so a
\* rotation never leaves an older pair alive beside the new one.
OneLivePairPerFamily ==
    /\ \A t, u \in DOMAIN accessTokens : family[t] = family[u] => t = u
    /\ \A t, u \in DOMAIN refreshTokens : family[t] = family[u] => t = u

\* A refresh token's access token exists and belongs to the same login, the
\* same client and the same JWT; the foreign key alone gives the existence.
PairAgrees ==
    \A r \in DOMAIN refreshTokens :
        LET a == refreshTokens[r].access
        IN  /\ a \in DOMAIN accessTokens
            /\ family[a] = family[r]
            /\ accessTokens[a].client = refreshTokens[r].client
            /\ accessTokens[a].jwt = refreshTokens[r].jwt

\* Through any number of rotations, tokens stay with the client that the
\* user was authorizing (the client_id comparisons of both grants).
TokensKeepTheirClient ==
    /\ \A t \in DOMAIN accessTokens :
           accessTokens[t].client = authorizedFor[family[t]]
    /\ \A t \in DOMAIN refreshTokens :
           refreshTokens[t].client = authorizedFor[family[t]]

\* token.ts:279-304: whatever stops, repeats or expires, the tokens that a login
\* holds are one pair whose rows agree, of the client that it authorized.
LivePairsAgree == OneLivePairPerFamily /\ PairAgrees /\ TokensKeepTheirClient

\* After revoking an access token its login has no token at all, and after
\* revoking a refresh token its login can never be renewed: no request that
\* was prepared earlier brings a row of that family back.
RevokedFamilyStaysClosed ==
    \A s \in DOMAIN authorizedFor :
        /\ <<"access", s>> \in revoked => AccessOf(s) = {}
        /\ <<"refresh", s>> \in revoked => RefreshOf(s) = {}

\* A bearer token that /mcp has once refused is refused for ever: no grant,
\* login or cleanup makes an issued token valid again.
RejectionIsFinal ==
    [][\A t \in DOMAIN family : ~Accepts(t) => ~Accepts(t)']_vars

\* The cleanup takes nothing a client could still use: the same bearer tokens
\* are accepted and the same codes and refresh tokens can be exchanged.
CanStillExchange ==
    {x \in Session \X Client \X Binding : CodeIsExchangeable(x[1], x[2], x[3])}
CanStillRefresh ==
    {x \in Token \X Client : RefreshIsExchangeable(x[1], x[2])}

CleanupKeepsLiveGrants ==
    [][Cleanup => /\ \A t \in Token : Accepts(t) => Accepts(t)'
                  /\ CanStillExchange = CanStillExchange'
                  /\ CanStillRefresh = CanStillRefresh']_vars

\* OAuth implements TokenFamily: a login is live while one of its refresh
\* tokens is stored, and closed when it is not and its code cannot be redeemed.
Stage(s) ==
    IF RefreshOf(s) # {} THEN "live"
    ELSE IF \/ s \notin DOMAIN authorizedFor
            \/ s \in DOMAIN sessions /\ ~sessions[s].used
         THEN "open"
         ELSE "closed"

CurrentGrant(s) ==
    IF RefreshOf(s) = {} THEN NoJwt ELSE CHOOSE r \in RefreshOf(s) : TRUE

Family == INSTANCE TokenFamily WITH
    Login <- Session, Grant <- Token, NoGrant <- NoJwt,
    stage <- [s \in Session |-> Stage(s)],
    current <- [s \in Session |-> CurrentGrant(s)],
    seen <- DOMAIN family

\* The code, its rotations, revocations, cleanups and process stops together
\* follow the life of a login that TokenFamily describes.
FamilySpec == Family!Spec

\* queries.ts:248, "Remove registros expirados de todas as tabelas OAuth"
\* (removes expired records from every OAuth table): whenever a cleanup runs,
\* it leaves no row that expired on an earlier day.
CleanupRemovesPastDays ==
    /\ SqlExpired(AfterCleanup.sessions) = {}
    /\ SqlExpired(AfterCleanup.access) = {}
    /\ SqlExpired(AfterCleanup.refresh) = {}
=============================================================================
