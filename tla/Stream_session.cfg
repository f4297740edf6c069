\* A request with a notification, and a session-wide notification: Valkey
\* replies that are lost, and a client without priming events that abandons its
\* resumes.
CONSTANTS
    p1 = p1  p2 = p2  r1 = r1  r2 = r2  n1 = n1  n2 = n2  n3 = n3  n4 = n4
    c1 = c1  c2 = c2  c3 = c3  get = get
    Request = {r1}
    Note = {n1, n2, n3}
    Post = {p1}
    GetStream = get
    Batch <- Single
    About <- AboutBoth
    Conn = {c1, c2, c3}
    NoConn = NoConn
    Prime = Prime
    Primed = FALSE
    ValkeyFails = TRUE
    RepliesLost = TRUE
    Patient = FALSE
    MaxFaults = 3
SYMMETRY Symmetry
SPECIFICATION Spec
INVARIANT DeliveredInOrder
CHECK_DEADLOCK FALSE
