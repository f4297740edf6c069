\* A response sent while its client reconnects; Valkey never fails.
CONSTANTS
    p1 = p1  p2 = p2  r1 = r1  r2 = r2  n1 = n1  n2 = n2  n3 = n3  n4 = n4
    c1 = c1  c2 = c2  c3 = c3  get = get
    Request = {r1, r2}
    Note = {n1}
    Post = {p1}
    GetStream = get
    Batch <- BatchOfTwo
    About <- AboutFirst
    Conn = {c1, c2, c3}
    NoConn = NoConn
    Prime = Prime
    Primed = TRUE
    ValkeyFails = FALSE
    RepliesLost = FALSE
    Patient = TRUE
    MaxFaults = 1
SYMMETRY Symmetry
SPECIFICATION Spec
PROPERTY ResponsesSurviveReconnection
CHECK_DEADLOCK FALSE
