\* Two concurrent calls with JWTs of two logins; half seconds; the scope is
\* cached for one second and builds for two.
CONSTANTS
    j1 = j1  j2 = j2
    a = a  b = b
    Call = {a, b}
    Jwt = {j1, j2}
    Exp <- TwoLogins
    Second = 2
    ScopeTTL = 1
    BuildsTTL = 2
    MaxDelay = 1
    MaxTime = 8
SYMMETRY Symmetry
SPECIFICATION Spec
INVARIANTS CacheIsShortLived FirstBuildIsSeen
