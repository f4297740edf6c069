\* A session from its initialize through one tool call, with one broken connection
\* or rejected command.
CONSTANTS
    init = init  call = call  r0 = r0  r1 = r1  n1 = n1  get = get
    c1 = c1  c2 = c2  c3 = c3
    Request = {r0, r1}
    Note = {}
    Post = {init, call}
    Initialize = init
    GetStream = get
    Batch <- OneCall
    About <- AboutSession
    Conn = {c1, c2, c3}
    NoConn = NoConn
    Prime = Prime
    Primed = TRUE
    ValkeyFails = TRUE
    RepliesLost = FALSE
    Patient = TRUE
    MaxFaults = 1
SPECIFICATION FairSessionSpec
INVARIANT KnownIsRegistered
PROPERTY DeliveredUnlessForgotten
CHECK_DEADLOCK FALSE
