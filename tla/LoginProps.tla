----------------------------- MODULE LoginProps -----------------------------
(***************************************************************************)
(* What the PIN login promises, stated over Login.                         *)
(***************************************************************************)
EXTENDS Login

\* The login, with its awaits, failures and restarts, only ever does to the
\* database what OAuth lets a login do, so all that holds of OAuth holds here.
OAuthSpec == Spec

\* The counter is read, awaited and then written: N requests at once can read
\* the same count, so a session is worth N * MAX_PIN_ATTEMPTS PINs, no more.
\* With one request at a time (N = 1) that is MAX_PIN_ATTEMPTS.  login.ts:25,
\* "alinhado com TTL da sessão OAuth" (aligned with the TTL of the OAuth
\* session): the key never expires, or loses more than concurrent requests
\* make it lose, while its session can still be used to log in.
TriesAreBounded ==
    /\ \A s \in Session : tries[s] <= MaxAttempts * Cardinality(Request)
    /\ \A s \in DOMAIN sessions :
           ~Expired(sessions[s].expires)
               => tries[s] <= Attempts(s) * Cardinality(Request)

\* A session that ran out of attempts yields no token afterwards, not even
\* when a PIN already on its way to the backend is accepted after the lock.
LockIsFinal ==
    [][\A s \in locked, a \in Token : <<s, a>> \in redeemed' => <<s, a>> \in redeemed]_allVars

\* Every POST is answered, or cut off by a restart, whatever fails.
EveryLoginAnswered ==
    \A r \in Request : request[r].phase # "idle" ~> request[r].phase = "idle"
=============================================================================
