\* Access tokens expire before their refresh tokens, as with the defaults of
\* ACCESS_TOKEN_TTL (7 days) and REFRESH_TOKEN_TTL (30 days).
CONSTANTS
    c1 = c1  c2 = c2  s1 = s1  s2 = s2  b1 = b1
    t1 = t1  t2 = t2  t3 = t3  t4 = t4
    Client = {c1}
    Binding = {b1}
    Session = {s1}
    Token = {t1, t2}
    JwtExpiry = {4}
    NoJwt = NoJwt
    SessionTTL = 1
    AccessTTL = 1
    RefreshTTL = 4
    DayLength = 2
    MaxTime = 5
SPECIFICATION Spec
INVARIANT CleanupRemovesPastDays
