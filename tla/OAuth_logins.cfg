\* Two logins of two possible clients; tokens for both to be exchanged, or for
\* one of them to be refreshed as well; JWTs that expire before and after.
CONSTANTS
    c1 = c1  c2 = c2  s1 = s1  s2 = s2  b1 = b1
    t1 = t1  t2 = t2  t3 = t3  t4 = t4
    Client = {c1, c2}
    Binding = {b1}
    Session = {s1, s2}
    Token = {t1, t2, t3, t4}
    JwtExpiry = {2}
    NoJwt = NoJwt
    SessionTTL = 1
    AccessTTL = 1
    RefreshTTL = 2
    DayLength = 2
    MaxTime = 4
SYMMETRY Symmetry
SPECIFICATION Spec
INVARIANTS TypeOK GrantYieldsOnce LivePairsAgree RevokedFamilyStaysClosed
PROPERTIES FamilySpec RejectionIsFinal CleanupKeepsLiveGrants
