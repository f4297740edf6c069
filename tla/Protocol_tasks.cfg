\* A task that asks the client once, a queue that overflows, a second client,
\* and a response that carries the number of the task's request.
CONSTANTS
    elicit = elicit
    own = own  other = other
    Side = {elicit}
    Foreign = {elicit}
    Call = {own, other}
    Ttl = 2
    MaxQueue = 1
SPECIFICATION FairSpec
INVARIANTS TypeOK OneOutcome PendingIsReachable KeptForTtl
PROPERTY StreamEnds
CHECK_DEADLOCK FALSE
