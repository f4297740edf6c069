------------------------------- MODULE Login --------------------------------
(***************************************************************************)
(* The PIN login, POST /oauth/login with step=verify_pin, composed with    *)
(* the rest of the OAuth server.  The handler awaits Valkey three times    *)
(* and the backend once, so requests interleave between its steps, and the *)
(* session it validated first may be used, locked or gone when it writes.  *)
(*                                                                         *)
(* All requests share one ioredis connection: Valkey runs their commands   *)
(* in the order they were sent and the replies come back in that order.  A *)
(* command is therefore taken to run when it is sent.  step=request_pin    *)
(* writes nothing and is not an action.                                    *)
(***************************************************************************)
EXTENDS OAuth, Sequences, FiniteSets

CONSTANTS
    Request,        \* POST /oauth/login requests that may be in progress
    NoSession,      \* session of a request that is not in progress
    MaxAttempts,    \* MAX_PIN_ATTEMPTS
    AttemptsTTL,    \* PIN_ATTEMPTS_TTL, in clock ticks
    ValkeyMayStop,  \* whether Valkey may restart and forget the counters
    MaxTries        \* bound on the history variable tries

ASSUME LoginAssumption ==
    /\ NoSession \notin Session
    /\ {MaxAttempts, AttemptsTTL} \subseteq Nat \ {0}
    /\ ValkeyMayStop \in BOOLEAN

\* The server has finitely many requests in progress.
ASSUME RequestAssumption == IsFiniteSet(Request)

\* PIN_ATTEMPTS_TTL is 600 s and SESSION_TTL_MS (authorize.ts:14) ten minutes.
ASSUME TTLAssumption == SessionTTL <= AttemptsTTL

VARIABLES
    pinAttempts,  \* Valkey's pin_attempts:* keys, [count, expires] by session
    awaiting,     \* requests whose GET was answered but not yet looked at
    request,      \* progress of each request
    \* History
    tries,        \* PINs sent to the backend since the counter was last deleted
    locked        \* sessions that ran out of attempts

loginVars == <<pinAttempts, awaiting, request, tries, locked>>
allVars   == <<vars, loginVars>>

Idle == [phase |-> "idle", session |-> NoSession, seen |-> 0]

\* The key of a session while it has not expired; no key counts as zero.
Attempts(s) ==
    IF s \in DOMAIN pinAttempts /\ ~Expired(pinAttempts[s].expires)
    THEN pinAttempts[s].count
    ELSE 0

LoginInit ==
    /\ Init
    /\ pinAttempts = <<>>
    /\ awaiting = <<>>
    /\ request = [r \in Request |-> Idle]
    /\ tries = [s \in Session |-> 0]
    /\ locked = {}

-----------------------------------------------------------------------------
\* Fault: the session row is not looked at again on a POST.
BeginVerify_Unchecked(r, s) ==
    /\ request[r].phase = "idle"
    /\ loginStarted' = loginStarted \cup {s}
    /\ request' = [request EXCEPT ![r] =
           [phase |-> "counting", session |-> s, seen |-> Attempts(s)]]
    /\ awaiting' = Append(awaiting, r)
    /\ UNCHANGED <<tables, now, history, pinAttempts, tries, locked>>

\* A POST arrives, its session is found valid and GET pin_attempts is sent.
BeginVerify(r, s) ==
    /\ request[r].phase = "idle"
    /\ LoginStarts(s)
    /\ request' = [request EXCEPT ![r] =
           [phase |-> "counting", session |-> s, seen |-> Attempts(s)]]
    /\ awaiting' = Append(awaiting, r)
    /\ UNCHANGED <<pinAttempts, tries, locked>>

\* r's GET is the next to be answered.
Answered(r) == awaiting # <<>> /\ Head(awaiting) = r

Leaves(r) == request' = [request EXCEPT ![r] = Idle]

\* Fault: the request that runs out of attempts is never answered.
LockOut_Unanswered(r) ==
    /\ Answered(r)
    /\ request[r].seen >= MaxAttempts
    /\ LoginLocksSession(request[r].session)
    /\ awaiting' = Tail(awaiting)
    /\ request' = [request EXCEPT ![r].phase = "hanging"]
    /\ locked' = locked \cup {request[r].session}
    /\ UNCHANGED <<pinAttempts, tries>>

LockOut(r) ==
    /\ Answered(r)
    /\ request[r].seen >= MaxAttempts
    /\ LoginLocksSession(request[r].session)
    /\ awaiting' = Tail(awaiting)
    /\ Leaves(r)
    /\ locked' = locked \cup {request[r].session}
    /\ UNCHANGED <<pinAttempts, tries>>

\* Fault: one attempt too many (> for >= in the comparison).
MayTry_OneMore(r) == Answered(r) /\ request[r].seen <= MaxAttempts

MayTry(r) == Answered(r) /\ request[r].seen < MaxAttempts

\* SET pin_attempts:s n+1 EX 600, which also starts the key's TTL again
CountedIn(s, n) ==
    Insert(pinAttempts, s, [count |-> n + 1, expires |-> now + AttemptsTTL])

\* The attempt is counted, then the PIN goes to the backend.
CountAttempt(r) ==
    LET s == request[r].session
    IN  /\ MayTry(r)
        /\ tries[s] < MaxTries
        /\ pinAttempts' = CountedIn(s, request[r].seen)
        /\ awaiting' = Tail(awaiting)
        /\ request' = [request EXCEPT ![r].phase = "verifying"]
        /\ tries' = [tries EXCEPT ![s] = @ + 1]
        /\ UNCHANGED <<vars, locked>>

\* The GET or the SET is rejected, the SET executed or not: 500, no PIN sent.
CountFails(r) ==
    /\ Answered(r)
    /\ \/ UNCHANGED pinAttempts
       \/ MayTry(r) /\ pinAttempts' = CountedIn(request[r].session, request[r].seen)
    /\ awaiting' = Tail(awaiting)
    /\ Leaves(r)
    /\ UNCHANGED <<vars, tries, locked>>

\* The backend refuses the PIN, cannot be reached or answers garbage.
VerifyRejected(r) ==
    /\ request[r].phase = "verifying"
    /\ Leaves(r)
    /\ UNCHANGED <<vars, pinAttempts, awaiting, tries, locked>>

\* The backend accepts: the JWT is stored, the counter deleted and the page
\* with the code shown, or, when the DEL fails, an error page instead.
VerifyAccepted(r, e) ==
    LET s == request[r].session
    IN  /\ request[r].phase = "verifying"
        /\ LoginStoresJwt(s, e)
        /\ Leaves(r)
        /\ \/ /\ pinAttempts' = Delete(pinAttempts, {s})
              /\ tries' = [tries EXCEPT ![s] = 0]
           \/ UNCHANGED <<pinAttempts, tries>>
        /\ UNCHANGED <<awaiting, locked>>

\* The MCP server stops and starts: its requests are gone, Valkey is not.
ServerRestarts ==
    /\ \E r \in Request : request[r] # Idle
    /\ awaiting' = <<>>
    /\ request' = [r \in Request |-> Idle]
    /\ UNCHANGED <<vars, pinAttempts, tries, locked>>

\* Valkey stops before its next snapshot (--save 60 1) and forgets a counter.
ValkeyRestarts(s) ==
    /\ ValkeyMayStop
    /\ s \in DOMAIN pinAttempts
    /\ pinAttempts' = Delete(pinAttempts, {s})
    /\ tries' = [tries EXCEPT ![s] = 0]
    /\ UNCHANGED <<vars, awaiting, request, locked>>

\* What ends the progress of r.
RequestStep(r) ==
    \/ LockOut(r)
    \/ CountAttempt(r)
    \/ CountFails(r)
    \/ VerifyRejected(r)
    \/ \E e \in JwtExpiry : VerifyAccepted(r, e)

LoginNext ==
    \/ HandlerStep /\ UNCHANGED loginVars
    \/ \E r \in Request : RequestStep(r) \/ \E s \in Session : BeginVerify(r, s)
    \/ ServerRestarts
    \/ \E s \in Session : ValkeyRestarts(s)

LoginSpec == LoginInit /\ [][LoginNext]_allVars

\* Every Valkey command is answered or rejected (maxRetriesPerRequest: 3) and
\* the backend's fetch ends (undici's default timeouts), so a request goes on.
FairLoginSpec == LoginSpec /\ \A r \in Request : WF_allVars(RequestStep(r))
=============================================================================
