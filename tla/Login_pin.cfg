\* Two requests race for the counter of one session, through restarts, its
\* expiry and the code exchange.
CONSTANTS
    c1 = c1  s1 = s1  s2 = s2  b1 = b1  t1 = t1  t2 = t2  r1 = r1  r2 = r2
    Client = {c1}
    Binding = {b1}
    Session = {s1}
    Token = {t1, t2}
    JwtExpiry = {2}
    NoJwt = NoJwt
    SessionTTL = 1
    AccessTTL = 1
    RefreshTTL = 2
    DayLength = 2
    MaxTime = 2
    Request = {r1, r2}
    NoSession = NoSession
    MaxAttempts = 2
    AttemptsTTL = 1
    ValkeyMayStop = TRUE
    MaxTries = 5
SPECIFICATION FairLoginSpec
INVARIANTS TriesAreBounded
PROPERTIES OAuthSpec LockIsFinal EveryLoginAnswered
