------------------------- MODULE ScopeResolverProofs -------------------------
(***************************************************************************)
(* Proofs about the scope resolver: nothing that its cache gives outlives  *)
(* its time, for any number of calls and logins, any clock resolution and  *)
(* any network delay.                                                      *)
(***************************************************************************)
EXTENDS ScopeResolverProps, TLAPS

-----------------------------------------------------------------------------
(* Arithmetic *)

\* What the clock of the resolver lags behind.
LEMMA ClockLags ==
  ASSUME NEW t \in Nat
  PROVE  t \div Second \in Nat /\ t < Second * (t \div Second) + Second
BY ScopeAssumption

LEMMA Monotone ==
  ASSUME NEW m \in Nat, NEW n \in Nat, m <= n
  PROVE  Second * m \in Nat /\ Second * n \in Nat /\ Second * m <= Second * n
BY ScopeAssumption

\* A time to live that ends by e, counted from a clock that was read at t.
LEMMA EndsInTime ==
  ASSUME NEW t \in Nat, NEW e \in Nat, NEW ttl \in Nat, t \div Second + ttl <= e
  PROVE  t + Second * ttl < Second * e + Second
<1> DEFINE c == t \div Second
<1>1. c \in Nat /\ t < Second * c + Second
  BY ClockLags
<1>2. Second * (c + ttl) <= Second * e /\ Second * e \in Nat
  <2>1. c + ttl \in Nat /\ c + ttl <= e
    BY <1>1
  <2> QED BY <2>1, Monotone
<1>3. Second * (c + ttl) = Second * c + Second * ttl
  BY <1>1, ScopeAssumption
<1>4. Second * c \in Nat /\ Second * ttl \in Nat /\ Second \in Nat
  BY <1>1, ScopeAssumption
<1> HIDE DEF c
<1> QED BY <1>1, <1>2, <1>3, <1>4

-----------------------------------------------------------------------------
(* The invariant *)

TTL(k) == IF k = "scope" THEN ScopeTTL ELSE BuildsTTL

Phase == {"idle", "got"} \cup Waiting

CallType ==
    [phase : Phase, key : Key, jwt : Jwt \cup {Idle.jwt}, value : BOOLEAN, ttl : Nat, since : Nat]

TypeOK ==
    /\ now \in Nat
    /\ source \in [Key -> BOOLEAN]
    /\ changed \in [Key -> Nat]
    /\ cache \in [Key -> [value : BOOLEAN, until : Nat, exp : Nat]]
    /\ call \in [Call -> CallType]

\* A value that differs from its source was the right one until the source changed
\* for the last time: the farther it got, the longer that may be ago.
Recent(c) ==
    LET k == call[c].key
        wrong == call[c].value # source[k]
    IN  /\ call[c].phase \in Waiting => call[c].since <= now /\ now <= call[c].since + MaxDelay
        /\ call[c].phase = "fetched" /\ wrong => call[c].since <= changed[k]
        /\ call[c].phase = "storing" =>
              /\ call[c].ttl > 0 /\ call[c].ttl <= TTL(k)
              /\ wrong => call[c].since <= changed[k] + MaxDelay
        /\ call[c].phase = "got" /\ wrong => now <= changed[k] + MaxAge(k)

CachedRecent(k) ==
    cache[k] # NoEntry =>
        /\ now < cache[k].until /\ cache[k].until <= now + MaxAge(k)
        /\ cache[k].value # source[k] => cache[k].until <= changed[k] + MaxAge(k)

\* A scope that is being cached will be gone soon after its JWT.
InJwt(c) ==
    /\ call[c].phase # "idle" /\ call[c].key = "scope" => call[c].jwt \in Jwt
    /\ call[c].phase = "storing" /\ call[c].key = "scope" =>
          call[c].since + Second * call[c].ttl < Second * Exp[call[c].jwt] + Second

\* That there are builds is the only news that is cached.
BuildsFound(c) ==
    call[c].key = "builds" =>
        /\ call[c].phase = "storing" => call[c].value
        /\ call[c].phase = "got" /\ source["builds"] /\ ~call[c].value =>
              now <= changed["builds"] + MaxDelay

ScopeInv ==
    /\ TypeOK
    /\ \A c \in Call : Recent(c) /\ InJwt(c) /\ BuildsFound(c)
    /\ \A k \in Key : changed[k] <= now /\ CachedRecent(k)
    /\ CacheDiesWithJwt
    /\ cache["builds"] # NoEntry => cache["builds"].value

LEMMA Sizes ==
  /\ Second \in Nat /\ Second > 0 /\ MaxDelay \in Nat
  /\ \A k \in Key : TTL(k) \in Nat /\ Second * TTL(k) \in Nat
                    /\ MaxAge(k) = 2 * MaxDelay + Second * TTL(k) /\ MaxAge(k) \in Nat
<1>1. Second \in Nat /\ Second > 0 /\ MaxDelay \in Nat /\ ScopeTTL \in Nat /\ BuildsTTL \in Nat
  BY ScopeAssumption
<1>2. \A k \in Key : TTL(k) \in Nat /\ MaxAge(k) = 2 * MaxDelay + Second * TTL(k)
  BY <1>1 DEF TTL, MaxAge
<1>3. \A k \in Key : Second * TTL(k) \in Nat
  BY <1>1, <1>2
<1> QED BY <1>1, <1>2, <1>3

LEMMA ScopeStarts == Init => ScopeInv
<1> SUFFICES ASSUME Init PROVE ScopeInv
  OBVIOUS
<1>1. Idle \in CallType
  BY DEF Idle, CallType, Phase, Key
<1>2. TypeOK
  BY <1>1 DEF Init, TypeOK, NoEntry
<1>3. \A c \in Call : call[c].phase = "idle"
  BY DEF Init, Idle
<1>4. \A k \in Key : cache[k] = NoEntry /\ cache[k].until = 0 /\ changed[k] = 0 /\ now = 0
  BY DEF Init, NoEntry
<1>5. \A c \in Call : Recent(c) /\ InJwt(c) /\ BuildsFound(c)
  BY <1>3 DEF Recent, InJwt, BuildsFound, Waiting
<1>6. CacheDiesWithJwt /\ (cache["builds"] # NoEntry => cache["builds"].value)
  BY <1>4 DEF CacheDiesWithJwt, Key
<1> QED BY <1>2, <1>4, <1>5, <1>6 DEF ScopeInv, CachedRecent

-----------------------------------------------------------------------------
(* Steps *)

\* A step of one call, which leaves the cache and the other calls alone.
LEMMA CallAlone ==
  ASSUME ScopeInv, NEW c \in Call, UNCHANGED <<now, source, changed, cache>>,
         NEW new \in CallType, call' = [call EXCEPT ![c] = new],
         Recent(c)', InJwt(c)', BuildsFound(c)'
  PROVE  ScopeInv'
<1>1. TypeOK'
  BY DEF ScopeInv, TypeOK
<1>2. \A d \in Call : d # c => call'[d] = call[d]
  BY DEF ScopeInv, TypeOK
<1>3. \A d \in Call : Recent(d)' /\ InJwt(d)' /\ BuildsFound(d)'
  BY <1>2 DEF ScopeInv, Recent, InJwt, BuildsFound
<1> QED BY <1>1, <1>3 DEF ScopeInv, CachedRecent, CacheDiesWithJwt

\* The record of a call that goes on.
LEMMA GoesTo ==
  ASSUME TypeOK, NEW c \in Call, NEW phase \in Phase, NEW value \in BOOLEAN, NEW ttl \in Nat,
         Goes(c, phase, value, ttl)
  PROVE  \E new \in CallType :
            /\ call' = [call EXCEPT ![c] = new] /\ call'[c] = new
            /\ new.phase = phase /\ new.key = call[c].key /\ new.jwt = call[c].jwt
            /\ new.value = value /\ new.ttl = ttl
            /\ new.since = IF phase = "got" THEN 0 ELSE now
<1> DEFINE new == [call[c] EXCEPT !.phase = phase, !.value = value, !.ttl = ttl,
                                  !.since = IF phase = "got" THEN 0 ELSE now]
<1>1. call[c] \in CallType
  BY DEF TypeOK
<1>2. new \in CallType
  BY <1>1 DEF TypeOK, CallType
<1>3. call' = [call EXCEPT ![c] = new]
  BY <1>1 DEF Goes, TypeOK, CallType
<1>4. call'[c] = new
  BY <1>3 DEF TypeOK
<1>5. /\ new.phase = phase /\ new.key = call[c].key /\ new.jwt = call[c].jwt
      /\ new.value = value /\ new.ttl = ttl /\ new.since = IF phase = "got" THEN 0 ELSE now
  BY <1>1 DEF CallType
<1> QED BY <1>2, <1>3, <1>4, <1>5

\* What is known of a call.
LEMMA OfCall ==
  ASSUME ScopeInv, NEW c \in Call
  PROVE  /\ call[c] \in CallType /\ call[c].key \in Key /\ call[c].value \in BOOLEAN
         /\ call[c].ttl \in Nat /\ call[c].since \in Nat /\ call[c].phase \in Phase
         /\ now \in Nat /\ changed[call[c].key] \in Nat /\ changed[call[c].key] <= now
         /\ source[call[c].key] \in BOOLEAN
         /\ Recent(c) /\ InJwt(c) /\ BuildsFound(c)
BY DEF ScopeInv, TypeOK, CallType

LEMMA CallsKeep ==
  ASSUME ScopeInv, NEW c \in Call,
         \/ \E j \in Jwt : Begin(c, j)
         \/ CacheHit(c) \/ CacheMiss(c) \/ SourceAnswers(c) \/ BackendRejects(c)
         \/ Fetched(c) \/ LookupFails(c) \/ Decide(c)
  PROVE  ScopeInv'
<1> USE DEF Waiting
<1> PICK k \in Key : k = call[c].key
  BY OfCall
<1>1. /\ call[c] \in CallType /\ k \in Key /\ call[c].value \in BOOLEAN
      /\ call[c].ttl \in Nat /\ call[c].since \in Nat /\ TypeOK
      /\ now \in Nat /\ changed[k] \in Nat /\ changed[k] <= now
      /\ source[k] \in BOOLEAN
      /\ Recent(c) /\ InJwt(c) /\ BuildsFound(c)
  BY OfCall DEF ScopeInv
<1>2. /\ Second \in Nat /\ Second > 0 /\ MaxDelay \in Nat
      /\ TTL(k) \in Nat /\ Second * TTL(k) \in Nat
      /\ MaxAge(k) = 2 * MaxDelay + Second * TTL(k) /\ MaxAge(k) \in Nat
  BY <1>1, Sizes
<1>3. Idle \in CallType /\ Idle.phase = "idle"
  BY DEF Idle, CallType, Phase, Key
<1>4. {"got", "fetching", "fetched", "storing", "reading", "idle"} \subseteq Phase
  BY DEF Phase
<1>5. CASE \E j \in Jwt : Begin(c, j)
  <2> PICK j \in Jwt : Begin(c, j)
    BY <1>5
  <2> DEFINE new == [Idle EXCEPT !.phase = "reading", !.jwt = j, !.since = now]
  <2>1. /\ new \in CallType /\ call' = [call EXCEPT ![c] = new]
        /\ UNCHANGED <<now, source, changed, cache>>
    BY <1>1, <1>3, <1>4 DEF Begin, CallType
  <2>2. call'[c] = new /\ new.phase = "reading" /\ new.jwt = j /\ new.since = now
    BY <1>3, <2>1 DEF ScopeInv, TypeOK, CallType
  <2> HIDE DEF new
  <2>3. Recent(c)' /\ InJwt(c)' /\ BuildsFound(c)'
    BY <1>1, <1>2, <2>1, <2>2 DEF Recent, InJwt, BuildsFound
  <2> QED BY <2>1, <2>3, CallAlone
<1>6. CASE BackendRejects(c) \/ LookupFails(c) \/ (Decide(c) /\ ~(k = "scope" /\ call[c].value))
  <2>1. call' = [call EXCEPT ![c] = Idle] /\ UNCHANGED <<now, source, changed, cache>>
    BY <1>6 DEF BackendRejects, LookupFails, Decide, Ends
  <2>2. call'[c] = Idle
    BY <1>1, <2>1 DEF TypeOK
  <2>3. Recent(c)' /\ InJwt(c)' /\ BuildsFound(c)'
    BY <1>3, <2>2 DEF Recent, InJwt, BuildsFound
  <2> QED BY <1>3, <2>1, <2>3, CallAlone
<1>7. CASE Decide(c) /\ k = "scope" /\ call[c].value
  <2> DEFINE new == [Idle EXCEPT !.phase = "reading", !.key = "builds", !.since = now]
  <2>1. call' = [call EXCEPT ![c] = new] /\ UNCHANGED <<now, source, changed, cache>>
    BY <1>7 DEF Decide
  <2>2. new \in CallType /\ new.phase = "reading" /\ new.key = "builds" /\ new.since = now
    BY <1>1, <1>3, <1>4 DEF CallType, Key
  <2>3. call'[c] = new
    BY <1>1, <2>1 DEF TypeOK
  <2> HIDE DEF new
  <2>4. Recent(c)' /\ InJwt(c)' /\ BuildsFound(c)'
    BY <1>1, <1>2, <2>1, <2>2, <2>3 DEF Recent, InJwt, BuildsFound
  <2> QED BY <2>1, <2>2, <2>4, CallAlone
<1>8. CASE CacheHit(c)
  <2>1. /\ call[c].phase = "reading" /\ cache[k] # NoEntry /\ Goes(c, "got", cache[k].value, 0)
        /\ UNCHANGED <<now, source, changed, cache>>
    BY <1>8 DEF CacheHit
  <2>2. cache[k].value \in BOOLEAN /\ cache[k].until \in Nat
    BY <1>1 DEF TypeOK
  <2>3. PICK new \in CallType :
            /\ call' = [call EXCEPT ![c] = new] /\ call'[c] = new
            /\ new.phase = "got" /\ new.key = k /\ new.jwt = call[c].jwt
            /\ new.value = cache[k].value
    BY <1>1, <1>4, <2>1, <2>2, GoesTo
  <2>4. now < cache[k].until
        /\ (cache[k].value # source[k] => cache[k].until <= changed[k] + MaxAge(k))
    BY <1>1, <2>1 DEF ScopeInv, CachedRecent
  <2>5. cache[k].value # source[k] => now <= changed[k] + MaxAge(k)
    BY <1>1, <1>2, <2>2, <2>4
  <2>6. MaxAge(k)' = MaxAge(k)
    BY DEF MaxAge
  <2>7. Recent(c)'
    BY <2>1, <2>3, <2>5 DEF Recent, MaxAge
  <2>8. InJwt(c)'
    BY <1>1, <2>1, <2>3 DEF InJwt
  <2>9. BuildsFound(c)'
    BY <2>1, <2>3 DEF BuildsFound, ScopeInv
  <2> QED BY <2>1, <2>3, <2>7, <2>8, <2>9, CallAlone
<1>9. CASE CacheMiss(c)
  <2>1. call[c].phase = "reading" /\ Goes(c, "fetching", FALSE, 0)
        /\ UNCHANGED <<now, source, changed, cache>>
    BY <1>9 DEF CacheMiss
  <2>2. PICK new \in CallType :
            /\ call' = [call EXCEPT ![c] = new] /\ call'[c] = new
            /\ new.phase = "fetching" /\ new.key = k /\ new.jwt = call[c].jwt
            /\ new.since = now
    <3>1. PICK value \in BOOLEAN : value = FALSE
      OBVIOUS
    <3>2. Goes(c, "fetching", value, 0)
      BY <2>1, <3>1 DEF Goes
    <3> QED BY <1>1, <1>4, <3>2, GoesTo
  <2>3. Recent(c)' /\ InJwt(c)' /\ BuildsFound(c)'
    BY <1>1, <1>2, <2>1, <2>2 DEF Recent, InJwt, BuildsFound
  <2> QED BY <2>1, <2>2, <2>3, CallAlone
<1>10. CASE SourceAnswers(c)
  <2>1. call[c].phase = "fetching" /\ Goes(c, "fetched", source[k], 0)
        /\ UNCHANGED <<now, source, changed, cache>>
    BY <1>10 DEF SourceAnswers
  <2>2. PICK new \in CallType :
            /\ call' = [call EXCEPT ![c] = new] /\ call'[c] = new
            /\ new.phase = "fetched" /\ new.key = k /\ new.jwt = call[c].jwt
            /\ new.value = source[k] /\ new.since = now
    BY <1>1, <1>4, <2>1, GoesTo
  <2>3. Recent(c)' /\ InJwt(c)' /\ BuildsFound(c)'
    BY <1>1, <1>2, <2>1, <2>2 DEF Recent, InJwt, BuildsFound
  <2> QED BY <2>1, <2>2, <2>3, CallAlone
<1>11. CASE Fetched(c) /\ Cacheable(c)
  <2>1. call[c].phase = "fetched" /\ Goes(c, "storing", call[c].value, Ttl(c))
        /\ UNCHANGED <<now, source, changed, cache>>
    BY <1>11 DEF Fetched
  <2>2. CASE k = "scope"
    <3> DEFINE e == Exp[call[c].jwt]
    <3>1. call[c].jwt \in Jwt /\ e \in Nat
      BY <1>1, <2>1, <2>2, ScopeAssumption DEF InJwt
    <3>2. Clock \in Nat
      BY <1>1, ClockLags DEF Clock
    <3>3. /\ Ttl(c) \in Nat /\ Ttl(c) > 0 /\ Ttl(c) <= TTL(k)
          /\ Clock + Ttl(c) <= e
      <4>1. Ttl(c) = IF Clock < e THEN Lesser(ScopeTTL, e - Clock) ELSE 0
        BY <2>2 DEF Ttl
      <4>2. Clock < e /\ Ttl(c) > 0
        BY <1>11, <4>1 DEF Cacheable
      <4>3. Ttl(c) = Lesser(ScopeTTL, e - Clock) /\ TTL(k) = ScopeTTL /\ ScopeTTL \in Nat
        BY <2>2, <4>1, <4>2, ScopeAssumption DEF TTL
      <4> HIDE DEF e
      <4> QED BY <3>1, <3>2, <4>2, <4>3 DEF Lesser
    <3>4. now + Second * Ttl(c) < Second * e + Second
      BY <1>1, <3>1, <3>3, EndsInTime DEF Clock
    <3>5. PICK new \in CallType :
              /\ call' = [call EXCEPT ![c] = new] /\ call'[c] = new
              /\ new.phase = "storing" /\ new.key = k /\ new.jwt = call[c].jwt
              /\ new.value = call[c].value /\ new.ttl = Ttl(c) /\ new.since = now
      BY <1>1, <1>4, <2>1, <3>3, GoesTo
    <3>6. call[c].value # source[k] => now <= changed[k] + MaxDelay
      BY <1>1, <1>2, <2>1 DEF Recent
    <3>7. Recent(c)'
      BY <1>1, <1>2, <2>1, <3>3, <3>5, <3>6 DEF Recent, TTL
    <3>8. InJwt(c)'
      BY <2>1, <3>1, <3>4, <3>5 DEF InJwt
    <3>9. BuildsFound(c)'
      BY <2>2, <3>5 DEF BuildsFound
    <3> QED BY <2>1, <3>5, <3>7, <3>8, <3>9, CallAlone
  <2>3. CASE k # "scope"
    <3>1. /\ call[c].value = TRUE /\ TTL(k) = BuildsTTL
          /\ Ttl(c) = BuildsTTL /\ Ttl(c) \in Nat /\ Ttl(c) > 0
      BY <1>11, <2>3, ScopeAssumption DEF Ttl, Cacheable, TTL
    <3>2. PICK new \in CallType :
              /\ call' = [call EXCEPT ![c] = new] /\ call'[c] = new
              /\ new.phase = "storing" /\ new.key = k /\ new.jwt = call[c].jwt
              /\ new.value = call[c].value /\ new.ttl = Ttl(c) /\ new.since = now
      BY <1>1, <1>4, <2>1, <3>1, GoesTo
    <3>3. call[c].value # source[k] => now <= changed[k] + MaxDelay
      BY <1>1, <1>2, <2>1 DEF Recent
    <3>4. Recent(c)'
      BY <1>1, <1>2, <2>1, <3>1, <3>2, <3>3 DEF Recent, TTL
    <3>5. InJwt(c)' /\ BuildsFound(c)'
      BY <2>3, <3>1, <3>2 DEF InJwt, BuildsFound
    <3> QED BY <2>1, <3>2, <3>4, <3>5, CallAlone
  <2> QED BY <2>2, <2>3
<1>12. CASE Fetched(c) /\ ~Cacheable(c)
  <2>1. call[c].phase = "fetched" /\ Goes(c, "got", call[c].value, 0)
        /\ UNCHANGED <<now, source, changed, cache>>
    BY <1>12 DEF Fetched
  <2>2. PICK new \in CallType :
            /\ call' = [call EXCEPT ![c] = new] /\ call'[c] = new
            /\ new.phase = "got" /\ new.key = k /\ new.jwt = call[c].jwt
            /\ new.value = call[c].value
    BY <1>1, <1>4, <2>1, GoesTo
  <2>3. call[c].value # source[k] => now <= changed[k] + MaxDelay /\ now <= changed[k] + MaxAge(k)
    BY <1>1, <1>2, <2>1 DEF Recent
  <2>4. Recent(c)'
    BY <2>1, <2>2, <2>3 DEF Recent, MaxAge
  <2>5. InJwt(c)' /\ BuildsFound(c)'
    BY <1>1, <2>1, <2>2, <2>3 DEF InJwt, BuildsFound
  <2> QED BY <2>1, <2>2, <2>4, <2>5, CallAlone
<1> QED BY <1>5, <1>6, <1>7, <1>8, <1>9, <1>10, <1>11, <1>12

\* What is stored ages from the moment it was on its way.
LEMMA StoredKeeps ==
  ASSUME ScopeInv, NEW c \in Call, Stored(c)
  PROVE  ScopeInv'
<1> USE DEF Waiting
<1> PICK k \in Key : k = call[c].key
  BY OfCall
<1> DEFINE entry == [value |-> call[c].value, until |-> now + Second * call[c].ttl,
                    exp |-> IF k = "scope" THEN Exp[call[c].jwt] ELSE 0]
<1>1. /\ call[c] \in CallType /\ k \in Key /\ call[c].value \in BOOLEAN
      /\ call[c].ttl \in Nat /\ call[c].since \in Nat /\ TypeOK
      /\ now \in Nat /\ changed[k] \in Nat /\ changed[k] <= now
      /\ source[k] \in BOOLEAN
      /\ Recent(c) /\ InJwt(c) /\ BuildsFound(c)
  BY OfCall DEF ScopeInv
<1>2. /\ Second \in Nat /\ Second > 0 /\ MaxDelay \in Nat
      /\ TTL(k) \in Nat /\ Second * TTL(k) \in Nat
      /\ MaxAge(k) = 2 * MaxDelay + Second * TTL(k) /\ MaxAge(k) \in Nat
  BY <1>1, Sizes
<1>3. /\ call[c].phase = "storing" /\ cache' = [cache EXCEPT ![k] = entry]
      /\ Goes(c, "got", call[c].value, 0) /\ UNCHANGED <<now, source, changed>>
  BY DEF Stored
<1>4. PICK new \in CallType :
          /\ call' = [call EXCEPT ![c] = new] /\ call'[c] = new
          /\ new.phase = "got" /\ new.key = k /\ new.jwt = call[c].jwt
          /\ new.value = call[c].value
  <2>1. "got" \in Phase
    BY DEF Phase
  <2> QED BY <1>1, <1>3, <2>1, GoesTo
<1>5. /\ call[c].ttl > 0 /\ Second * call[c].ttl \in Nat /\ Second * call[c].ttl > 0
      /\ Second * call[c].ttl <= Second * TTL(k)
  <2>1. call[c].ttl > 0 /\ call[c].ttl <= TTL(k)
    BY <1>1, <1>3 DEF Recent
  <2>2. Second * 1 <= Second * call[c].ttl /\ Second * call[c].ttl \in Nat
    BY <1>1, <2>1, Monotone
  <2>3. Second * call[c].ttl <= Second * TTL(k)
    BY <1>1, <1>2, <2>1, Monotone
  <2> QED BY <1>2, <2>1, <2>2, <2>3
<1>6. call[c].since <= now /\ now <= call[c].since + MaxDelay
      /\ (call[c].value # source[k] => call[c].since <= changed[k] + MaxDelay)
  BY <1>1, <1>3 DEF Recent
<1>7. /\ now + Second * call[c].ttl <= now + MaxAge(k)
      /\ call[c].value # source[k] => /\ now + Second * call[c].ttl <= changed[k] + MaxAge(k)
                                      /\ now <= changed[k] + MaxAge(k)
  BY <1>1, <1>2, <1>5, <1>6
<1>8. k = "scope" => /\ call[c].jwt \in Jwt /\ Exp[call[c].jwt] \in Nat
                     /\ now + Second * call[c].ttl
                           < Second * Exp[call[c].jwt] + Second + MaxDelay
  <2> SUFFICES ASSUME k = "scope"
               PROVE  /\ call[c].jwt \in Jwt /\ Exp[call[c].jwt] \in Nat
                      /\ now + Second * call[c].ttl
                            < Second * Exp[call[c].jwt] + Second + MaxDelay
    OBVIOUS
  <2>1. call[c].jwt \in Jwt
        /\ call[c].since + Second * call[c].ttl < Second * Exp[call[c].jwt] + Second
    BY <1>1, <1>3 DEF InJwt
  <2>2. Exp[call[c].jwt] \in Nat /\ Second * Exp[call[c].jwt] \in Nat
    <3>1. Exp[call[c].jwt] \in Nat
      BY <2>1, ScopeAssumption
    <3> QED BY <1>2, <3>1
  <2> QED BY <1>1, <1>2, <1>5, <1>6, <2>1, <2>2
<1>9. /\ entry \in [value : BOOLEAN, until : Nat, exp : Nat]
      /\ entry.value = call[c].value /\ entry.until = now + Second * call[c].ttl
      /\ entry.until > now /\ (k = "scope" => entry.exp = Exp[call[c].jwt])
  BY <1>1, <1>5, <1>8
<1> HIDE DEF entry
<1>10. cache'[k] = entry /\ \A j \in Key : j # k => cache'[j] = cache[j]
  BY <1>1, <1>3 DEF TypeOK
<1>11. TypeOK'
  BY <1>1, <1>3, <1>4, <1>9 DEF TypeOK
<1>12. \A d \in Call : Recent(d)' /\ InJwt(d)' /\ BuildsFound(d)'
  <2>1. \A d \in Call : d # c => call'[d] = call[d]
    BY <1>1, <1>4 DEF TypeOK
  <2>2. \A d \in Call : d # c => Recent(d)' /\ InJwt(d)' /\ BuildsFound(d)'
    BY <1>3, <2>1 DEF ScopeInv, Recent, InJwt, BuildsFound
  <2>3. Recent(c)'
    BY <1>3, <1>4, <1>7 DEF Recent, MaxAge
  <2>4. InJwt(c)' /\ BuildsFound(c)'
    BY <1>1, <1>3, <1>4 DEF InJwt, BuildsFound
  <2> QED BY <2>2, <2>3, <2>4
<1>13. \A j \in Key : (changed[j] <= now)' /\ CachedRecent(j)'
  <2>1. \A j \in Key : j # k => CachedRecent(j)'
    BY <1>3, <1>10 DEF ScopeInv, CachedRecent, NoEntry
  <2>2. CachedRecent(k)'
    BY <1>3, <1>7, <1>9, <1>10 DEF CachedRecent, NoEntry, MaxAge
  <2> QED BY <1>3, <2>1, <2>2 DEF ScopeInv
<1>14. CacheDiesWithJwt'
  <2>1. CASE k = "scope"
    BY <1>8, <1>9, <1>10, <2>1 DEF CacheDiesWithJwt
  <2>2. CASE k # "scope"
    BY <1>10, <2>2 DEF ScopeInv, CacheDiesWithJwt, Key
  <2> QED BY <2>1, <2>2
<1>15. (cache["builds"] # NoEntry => cache["builds"].value)'
  <2>1. CASE k = "builds"
    BY <1>1, <1>3, <1>9, <1>10, <2>1 DEF BuildsFound
  <2>2. CASE k # "builds"
    BY <1>10, <2>2 DEF ScopeInv, Key, NoEntry
  <2> QED BY <2>1, <2>2
<1> QED BY <1>11, <1>12, <1>13, <1>14, <1>15 DEF ScopeInv

\* Right or wrong, a value is news when its source changes.
LEMMA ChangesKeep ==
  ASSUME ScopeInv, NEW k \in Key, SourceChanges(k)
  PROVE  ScopeInv'
<1> USE DEF Waiting
<1>1. /\ TypeOK /\ now \in Nat /\ UNCHANGED <<now, cache, call>>
      /\ source' = [source EXCEPT ![k] = ~@] /\ changed' = [changed EXCEPT ![k] = now]
  BY DEF ScopeInv, TypeOK, SourceChanges
<1>2. TypeOK'
  BY <1>1 DEF TypeOK
<1>3. /\ source'[k] = ~source[k] /\ changed'[k] = now /\ source[k] \in BOOLEAN
      /\ \A j \in Key : j # k => source'[j] = source[j] /\ changed'[j] = changed[j]
  BY <1>1 DEF TypeOK
<1>4. \A j \in Key : (changed[j] <= now)'
  BY <1>1, <1>3 DEF ScopeInv
<1>5. ASSUME NEW c \in Call PROVE Recent(c)' /\ InJwt(c)' /\ BuildsFound(c)'
  <2>1. /\ call[c].key \in Key /\ call[c].value \in BOOLEAN /\ call[c].since \in Nat
        /\ Recent(c) /\ InJwt(c) /\ BuildsFound(c)
    BY OfCall
  <2>2. InJwt(c)'
    BY <1>1, <2>1 DEF InJwt
  <2>3. CASE call[c].key # k
    BY <1>1, <1>3, <2>1, <2>2, <2>3 DEF Recent, BuildsFound, MaxAge, TTL
  <2>4. CASE call[c].key = k
    <3>1. MaxDelay \in Nat /\ MaxAge(k) \in Nat
      BY Sizes
    <3>2. Recent(c)'
      <4>1. /\ call'[c] = call[c] /\ changed'[call[c].key] = now /\ now' = now
            /\ MaxAge(call[c].key) = MaxAge(k)
        BY <1>1, <1>3, <2>4
      <4>2. now <= now + MaxDelay /\ now <= now + MaxAge(k)
        BY <1>1, <3>1
      <4>3. call[c].phase = "storing" => call[c].since <= now + MaxDelay
        BY <1>1, <2>1, <3>1 DEF Recent
      <4> QED BY <2>1, <4>1, <4>2, <4>3 DEF Recent, MaxAge, TTL
    <3>3. BuildsFound(c)'
      BY <1>1, <1>3, <2>1, <2>4, <3>1 DEF BuildsFound
    <3> QED BY <2>2, <3>2, <3>3
  <2> QED BY <2>3, <2>4
<1>6. \A j \in Key : CachedRecent(j)'
  <2> SUFFICES ASSUME NEW j \in Key PROVE CachedRecent(j)'
    OBVIOUS
  <2>1. CASE j # k
    BY <1>1, <1>3, <2>1 DEF ScopeInv, CachedRecent, NoEntry, MaxAge
  <2>2. CASE j = k
    <3>1. cache[k] # NoEntry => now < cache[k].until /\ cache[k].until <= now + MaxAge(k)
      BY DEF ScopeInv, CachedRecent
    <3> QED BY <1>1, <1>3, <2>2, <3>1 DEF CachedRecent, NoEntry, MaxAge
  <2> QED BY <2>1, <2>2
<1> QED BY <1>1, <1>2, <1>4, <1>5, <1>6 DEF ScopeInv, CacheDiesWithJwt, NoEntry

\* Time only passes while no call has its answer in hand, and no longer than a
\* call may wait.
LEMMA TickKeeps == ScopeInv /\ Tick => ScopeInv'
<1> SUFFICES ASSUME ScopeInv, Tick PROVE ScopeInv'
  OBVIOUS
<1> USE DEF Waiting
<1>1. /\ TypeOK /\ now \in Nat /\ now' = now + 1 /\ UNCHANGED <<source, changed, call>>
      /\ cache' = [k \in Key |-> IF cache[k].until > now + 1 THEN cache[k] ELSE NoEntry]
      /\ \A c \in Call : /\ call[c].phase # "got"
                         /\ call[c].phase \in Waiting => now < call[c].since + MaxDelay
  BY DEF ScopeInv, TypeOK, Tick
<1>2. \A k \in Key : cache'[k] = IF cache[k].until > now + 1 THEN cache[k] ELSE NoEntry
  BY <1>1
<1>3. TypeOK'
  BY <1>1 DEF TypeOK, NoEntry
<1>4. ASSUME NEW c \in Call PROVE Recent(c)' /\ InJwt(c)' /\ BuildsFound(c)'
  <2>1. Recent(c) /\ InJwt(c) /\ BuildsFound(c) /\ call[c].since \in Nat
    BY OfCall
  <2>2. MaxDelay \in Nat
    BY Sizes
  <2>3. call[c].phase \in Waiting => call[c].since <= now' /\ now' <= call[c].since + MaxDelay
    BY <1>1, <2>1, <2>2 DEF Recent
  <2> QED BY <1>1, <2>1, <2>3 DEF Recent, InJwt, BuildsFound, TTL
<1>5. ASSUME NEW k \in Key PROVE (changed[k] <= now)' /\ CachedRecent(k)'
  <2>1. changed[k] <= now /\ CachedRecent(k) /\ changed[k] \in Nat /\ cache[k].until \in Nat
    BY <1>1 DEF ScopeInv, TypeOK
  <2>2. MaxAge(k) \in Nat
    BY Sizes
  <2> QED BY <1>1, <1>2, <2>1, <2>2 DEF CachedRecent, NoEntry, MaxAge
<1>6. CacheDiesWithJwt' /\ (cache["builds"] # NoEntry => cache["builds"].value)'
  <2>1. "scope" \in Key /\ "builds" \in Key
    BY DEF Key
  <2> QED BY <1>2, <2>1 DEF ScopeInv, CacheDiesWithJwt, NoEntry
<1> QED BY <1>3, <1>4, <1>5, <1>6 DEF ScopeInv

LEMMA ScopeKept == ScopeInv /\ [Next]_vars => ScopeInv'
<1> SUFFICES ASSUME ScopeInv, [Next]_vars PROVE ScopeInv'
  OBVIOUS
<1>1. CASE UNCHANGED vars
  BY <1>1 DEF vars, ScopeInv, TypeOK, Recent, InJwt, BuildsFound, CachedRecent, CacheDiesWithJwt,
              MaxAge, TTL
<1> QED BY <1>1, CallsKeep, StoredKeeps, ChangesKeep, TickKeeps DEF Next, LookupStep

\* The invariant holds in every reachable state of the scope resolver.
THEOREM ScopeInvariance == Spec => []ScopeInv
BY ScopeStarts, ScopeKept, PTL DEF Spec

\* An answer is old news for no longer than its time to live and its delays, a
\* scope is not cached longer than its JWT lives, and all that is cached expires.
THEOREM CacheLivesShortly == Spec => []CacheIsShortLived
<1>1. ScopeInv => AnswersAreRecent /\ CacheDiesWithJwt /\ StoredWithTime
  BY DEF ScopeInv, Recent, AnswersAreRecent, StoredWithTime
<1> QED BY <1>1, ScopeInvariance, PTL DEF CacheIsShortLived

\* A project without builds is asked about again every time.
THEOREM FirstBuildSeen == Spec => []FirstBuildIsSeen
<1>1. ScopeInv => FirstBuildIsSeen
  BY DEF ScopeInv, BuildsFound, FirstBuildIsSeen
<1> QED BY <1>1, ScopeInvariance, PTL
=============================================================================
