\* A batch of two requests and a notification, with closeSSEStream and DELETE,
\* and two broken connections or rejected Valkey commands.
CONSTANTS
    p1 = p1  p2 = p2  r1 = r1  r2 = r2  n1 = n1  n2 = n2  n3 = n3  n4 = n4
    c1 = c1  c2 = c2  c3 = c3  get = get
    Request = {r1, r2}
    Note = {n1}
    Post = {p1}
    GetStream = get
    Batch <- BatchOfTwo
    About <- AboutFirst
    Conn = {c1, c2, c3}
    NoConn = NoConn
    Prime = Prime
    Primed = TRUE
    ValkeyFails = TRUE
    RepliesLost = FALSE
    Patient = TRUE
    MaxFaults = 2
SPECIFICATION FairSpec
INVARIANTS EndedStreamsAreAnswered ListenersAreMapped
PROPERTIES ResumableSpec EventuallyDelivered
CHECK_DEADLOCK FALSE
