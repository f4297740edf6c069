---------------------------- MODULE TokenFamily ----------------------------
(***************************************************************************)
(* What the OAuth server promises about one login: it is opened once, from *)
(* then on exactly one grant can renew it, each renewal replaces that      *)
(* grant by one never seen before, and once closed it stays closed.        *)
(* No database, clock, client or crash appears here; OAuth implements it.  *)
(***************************************************************************)
CONSTANTS Login, Grant, NoGrant

VARIABLES
    stage,    \* "open", "live" or "closed"
    current,  \* the one grant that can renew a live login
    seen      \* grants that were ever handed out

familyVars == <<stage, current, seen>>

TypeOK ==
    /\ stage \in [Login -> {"open", "live", "closed"}]
    /\ current \in [Login -> Grant \cup {NoGrant}]
    /\ seen \subseteq Grant

Init ==
    /\ stage = [l \in Login |-> "open"]
    /\ current = [l \in Login |-> NoGrant]
    /\ seen = {}

Hand(l, g, alongside) ==
    /\ g \in Grant \ seen
    /\ stage' = [stage EXCEPT ![l] = "live"]
    /\ current' = [current EXCEPT ![l] = g]
    /\ seen' = seen \cup {g, alongside}

Open(l, g, alongside) ==
    /\ stage[l] = "open"
    /\ Hand(l, g, alongside)

Renew(l, g, alongside) ==
    /\ stage[l] = "live"
    /\ Hand(l, g, alongside)

\* Expiry, revocation, a lost answer or a cleanup, of several logins at once.
Close(ls) ==
    /\ stage' = [l \in Login |-> IF l \in ls THEN "closed" ELSE stage[l]]
    /\ current' = [l \in Login |-> IF l \in ls THEN NoGrant ELSE current[l]]
    /\ UNCHANGED seen

Next ==
    \/ \E l \in Login, g, h \in Grant : Open(l, g, h) \/ Renew(l, g, h)
    \/ \E ls \in SUBSET Login : Close(ls)

Spec == Init /\ [][Next]_familyVars
=============================================================================
