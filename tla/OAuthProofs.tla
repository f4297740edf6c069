---------------------------- MODULE OAuthProofs ----------------------------
(***************************************************************************)
(* Proofs, for every set of clients, sessions and tokens and every         *)
(* lifetime, of the safety properties of OAuthProps.                       *)
(***************************************************************************)
EXTENDS OAuthProps, TLAPS

-----------------------------------------------------------------------------
(* The tables as functions.                                                *)

\* A table that lost rows and changed none.
SubTable(new, old) ==
    /\ DOMAIN new \subseteq DOMAIN old
    /\ \A k \in DOMAIN new : new[k] = old[k]

\* Insert adds exactly one row, at its key.
LEMMA InsertFacts ==
    ASSUME NEW table, NEW key, NEW row
    PROVE  /\ DOMAIN Insert(table, key, row) = DOMAIN table \cup {key}
           /\ Insert(table, key, row)[key] = row
           /\ \A k \in DOMAIN table \ {key} : Insert(table, key, row)[k] = table[k]
BY DEF Insert

\* Delete removes exactly the named rows.
LEMMA DeleteFacts ==
    ASSUME NEW table, NEW keys
    PROVE  /\ DOMAIN Delete(table, keys) = DOMAIN table \ keys
           /\ SubTable(Delete(table, keys), table)
BY DEF Delete, Restrict, SubTable

\* Whether or not the foreign key lets it delete, DeleteAccess only deletes.
LEMMA DeleteAccessFacts ==
    ASSUME NEW tokens, NEW refreshes
    PROVE  /\ SubTable(DeleteAccess(tokens, refreshes), accessTokens)
           /\ DOMAIN accessTokens \ tokens
                  \subseteq DOMAIN DeleteAccess(tokens, refreshes)
           /\ ReferencesTo(refreshes, tokens) = {}
                  => DOMAIN DeleteAccess(tokens, refreshes)
                         = DOMAIN accessTokens \ tokens
           /\ ReferencesTo(refreshes, tokens) # {}
                  => DeleteAccess(tokens, refreshes) = accessTokens
<1>1. /\ DOMAIN Delete(accessTokens, tokens) = DOMAIN accessTokens \ tokens
      /\ SubTable(Delete(accessTokens, tokens), accessTokens)
  BY DeleteFacts
<1>2. SubTable(accessTokens, accessTokens)
  BY DEF SubTable
<1> QED  BY <1>1, <1>2 DEF DeleteAccess

-----------------------------------------------------------------------------
(* The inductive invariant.                                                *)

Spent(s) == s \in DOMAIN sessions => sessions[s].used

SessionsKeepTheirClient ==
    \A s \in DOMAIN sessions : sessions[s].client = authorizedFor[s]

\* A login that has issued tokens cannot be exchanged again.
IssuedLoginsAreSpent == \A t \in DOMAIN family : Spent(family[t])

RedeemedGrantsAreSpent ==
    \A x \in redeemed :
        /\ x[1] \in Session => Spent(x[1])
        /\ x[1] \in Token => x[1] \notin DOMAIN refreshTokens

CoreInv ==
    /\ TypeOK
    /\ PairAgrees
    /\ OneLivePairPerFamily
    /\ TokensKeepTheirClient
    /\ GrantYieldsOnce
    /\ SessionsKeepTheirClient
    /\ IssuedLoginsAreSpent
    /\ RedeemedGrantsAreSpent

RevokedInv ==
    /\ RevokedFamilyStaysClosed
    /\ \A x \in revoked : \E t \in DOMAIN family : family[t] = x[2]
    /\ \A s \in DOMAIN authorizedFor :
           <<"access", s>> \in revoked => <<"refresh", s>> \in revoked

IInv == CoreInv /\ RevokedInv

-----------------------------------------------------------------------------
(* Steps that issue nothing: the token tables only lose rows, and sessions *)
(* are created, marked used or deleted but never made usable again.        *)

SessionsOnlyAge ==
    /\ DOMAIN authorizedFor \subseteq DOMAIN authorizedFor'
    /\ DOMAIN authorizedFor' \subseteq Session
    /\ \A s \in DOMAIN authorizedFor' : authorizedFor'[s] \in Client
    /\ \A s \in DOMAIN authorizedFor : authorizedFor'[s] = authorizedFor[s]
    /\ DOMAIN sessions' \subseteq DOMAIN authorizedFor'
    /\ \A s \in DOMAIN sessions' :
           /\ sessions'[s] \in SessionRow
           /\ sessions'[s].client = authorizedFor'[s]
           /\ s \in DOMAIN authorizedFor =>
                  /\ s \in DOMAIN sessions
                  /\ sessions[s].used => sessions'[s].used

OthersTyped ==
    /\ clients' \subseteq Client
    /\ loginStarted' \subseteq DOMAIN authorizedFor'
    /\ now' \in 0..MaxTime
    /\ revoked' \subseteq {"access", "refresh"} \X DOMAIN authorizedFor'

TokensOnlyGo ==
    /\ UNCHANGED <<family, redeemed>>
    /\ SubTable(accessTokens', accessTokens)
    /\ SubTable(refreshTokens', refreshTokens)
    /\ \A r \in DOMAIN refreshTokens' :
           refreshTokens'[r].access \in DOMAIN accessTokens'

\* A step that issues nothing keeps the core invariant.
LEMMA NoIssueKeepsCore ==
    ASSUME CoreInv, SessionsOnlyAge, OthersTyped, TokensOnlyGo
    PROVE  CoreInv'
<1> USE DEF SubTable
<1>1. TypeOK'
  BY DEF CoreInv, TypeOK, SessionsOnlyAge, OthersTyped, TokensOnlyGo
<1>2. PairAgrees'
  BY DEF CoreInv, PairAgrees, TokensOnlyGo
<1>3. OneLivePairPerFamily'
  BY DEF CoreInv, OneLivePairPerFamily, TokensOnlyGo
<1>4. TokensKeepTheirClient'
  BY DEF CoreInv, TypeOK, TokensKeepTheirClient, TokensOnlyGo, SessionsOnlyAge
<1>5. GrantYieldsOnce'
  BY DEF CoreInv, GrantYieldsOnce, TokensOnlyGo
<1>6. SessionsKeepTheirClient'
  BY DEF SessionsKeepTheirClient, SessionsOnlyAge
<1>7. \A s \in DOMAIN authorizedFor : Spent(s) => Spent(s)'
  BY DEF Spent, SessionsOnlyAge
<1>8. IssuedLoginsAreSpent'
  BY <1>7 DEF CoreInv, TypeOK, IssuedLoginsAreSpent, TokensOnlyGo
<1>9. RedeemedGrantsAreSpent'
  <2> SUFFICES ASSUME NEW x \in redeemed
               PROVE  /\ x[1] \in Session => Spent(x[1])'
                      /\ x[1] \in Token => x[1] \notin DOMAIN refreshTokens'
    BY DEF RedeemedGrantsAreSpent, TokensOnlyGo
  <2>1. x[1] \in DOMAIN authorizedFor \/ x[1] \in DOMAIN family
    BY DEF CoreInv, TypeOK
  <2>2. x[1] \in Session => x[1] \in DOMAIN authorizedFor
    BY <2>1, GrantAssumption DEF CoreInv, TypeOK
  <2> QED
    BY <1>7, <2>2 DEF CoreInv, RedeemedGrantsAreSpent, TokensOnlyGo
<1> QED
  BY <1>1, <1>2, <1>3, <1>4, <1>5, <1>6, <1>8, <1>9 DEF CoreInv

\* ... and, when it revokes nothing, the revoked families stay closed.
LEMMA NoIssueKeepsRevoked ==
    ASSUME IInv, SessionsOnlyAge, TokensOnlyGo, UNCHANGED revoked
    PROVE  RevokedInv'
<1>1. \A x \in revoked : x[2] \in DOMAIN authorizedFor
  BY DEF IInv, CoreInv, TypeOK
<1>2. RevokedFamilyStaysClosed'
  <2> SUFFICES ASSUME NEW s \in DOMAIN authorizedFor'
               PROVE  /\ <<"access", s>> \in revoked => AccessOf(s)' = {}
                      /\ <<"refresh", s>> \in revoked => RefreshOf(s)' = {}
    BY DEF RevokedFamilyStaysClosed
  <2>1. AccessOf(s)' \subseteq AccessOf(s) /\ RefreshOf(s)' \subseteq RefreshOf(s)
    BY DEF AccessOf, RefreshOf, TokensOnlyGo, SubTable
  <2>2. \A k \in {"access", "refresh"} :
            <<k, s>> \in revoked => s \in DOMAIN authorizedFor
    BY <1>1
  <2> QED
    BY <2>1, <2>2 DEF IInv, RevokedInv, RevokedFamilyStaysClosed
<1>3. (\A x \in revoked : \E t \in DOMAIN family : family[t] = x[2])'
  BY DEF IInv, RevokedInv, TokensOnlyGo
<1>4. \A s : <<"access", s>> \in revoked => <<"refresh", s>> \in revoked
  BY <1>1 DEF IInv, RevokedInv
<1> QED  BY <1>2, <1>3, <1>4 DEF RevokedInv

-----------------------------------------------------------------------------
(* Steps that issue a pair, on a login of which no row is kept.            *)

\* What ExchangeCode and RefreshRotates guarantee besides IssuePair.
MayIssue(grant, s, c, jwt, accesses, refreshes) ==
    /\ SubTable(accesses, accessTokens)
    /\ SubTable(refreshes, refreshTokens)
    /\ \A q \in DOMAIN refreshes : refreshes[q].access \in DOMAIN accesses
    /\ \A t \in DOMAIN accesses : family[t] # s
    /\ \A q \in DOMAIN refreshes : family[q] # s
    /\ s \in DOMAIN authorizedFor
    /\ c = authorizedFor[s]
    /\ jwt \in JwtExpiry
    /\ \A x \in redeemed : x[1] # grant
    /\ Spent(s)'
    /\ \/ grant = s
       \/ grant \in DOMAIN family \ DOMAIN refreshes

\* Issuing a pair under those conditions keeps the core invariant.
LEMMA IssueKeepsCore ==
    ASSUME CoreInv, SessionsOnlyAge, OthersTyped, UNCHANGED authorizedFor,
           NEW grant, NEW s, NEW c, NEW jwt, NEW accesses, NEW refreshes,
           NEW a \in Token, NEW r \in Token,
           IssuePair(grant, s, c, jwt, a, r, accesses, refreshes),
           MayIssue(grant, s, c, jwt, accesses, refreshes)
    PROVE  CoreInv'
<1> DEFINE arow == [client |-> c, jwt |-> jwt, expires |-> now + AccessTTL]
           rrow == [client |-> c, access |-> a, jwt |-> jwt,
                    expires |-> now + RefreshTTL]
<1>1. /\ a \notin DOMAIN family /\ r \notin DOMAIN family /\ a # r
      /\ accessTokens' = Insert(accesses, a, arow)
      /\ refreshTokens' = Insert(refreshes, r, rrow)
      /\ family' = Insert(Insert(family, a, s), r, s)
      /\ redeemed' = redeemed \cup {<<grant, a>>}
  BY DEF IssuePair, Fresh
<1>2. /\ DOMAIN accessTokens' = DOMAIN accesses \cup {a}
      /\ accessTokens'[a] = arow
      /\ \A k \in DOMAIN accesses \ {a} : accessTokens'[k] = accesses[k]
  BY <1>1 DEF Insert
<1>3. /\ DOMAIN refreshTokens' = DOMAIN refreshes \cup {r}
      /\ refreshTokens'[r] = rrow
      /\ \A k \in DOMAIN refreshes \ {r} : refreshTokens'[k] = refreshes[k]
  BY <1>1 DEF Insert
<1>4. /\ DOMAIN family' = DOMAIN family \cup {a, r}
      /\ family'[a] = s /\ family'[r] = s
      /\ \A k \in DOMAIN family : family'[k] = family[k]
  BY <1>1 DEF Insert
<1>5. /\ DOMAIN accesses \subseteq DOMAIN accessTokens
      /\ \A k \in DOMAIN accesses : accesses[k] = accessTokens[k]
      /\ DOMAIN refreshes \subseteq DOMAIN refreshTokens
      /\ \A k \in DOMAIN refreshes : refreshes[k] = refreshTokens[k]
      /\ DOMAIN accessTokens \subseteq DOMAIN family
      /\ DOMAIN refreshTokens \subseteq DOMAIN family
      /\ DOMAIN family \subseteq Token
      /\ \A k \in DOMAIN family : family[k] \in DOMAIN authorizedFor
      /\ DOMAIN authorizedFor \subseteq Session
  BY DEF MayIssue, SubTable, CoreInv, TypeOK
<1>6. arow \in AccessRow /\ rrow \in RefreshRow
  <2>1. now + AccessTTL \in Nat /\ now + RefreshTTL \in Nat
    BY TimeAssumption DEF CoreInv, TypeOK
  <2>2. c \in Client /\ jwt \in JwtExpiry
    BY DEF MayIssue, CoreInv, TypeOK
  <2> QED  BY <2>1, <2>2 DEF AccessRow, RefreshRow
<1> HIDE DEF arow, rrow
<1>7. TypeOK'
  <2>1. /\ DOMAIN accessTokens' \subseteq DOMAIN family'
        /\ \A t \in DOMAIN accessTokens' : accessTokens'[t] \in AccessRow
    BY <1>2, <1>4, <1>5, <1>6 DEF CoreInv, TypeOK
  <2>2. /\ DOMAIN refreshTokens' \subseteq DOMAIN family'
        /\ \A t \in DOMAIN refreshTokens' : refreshTokens'[t] \in RefreshRow
    BY <1>3, <1>4, <1>5, <1>6 DEF CoreInv, TypeOK
  <2>3. /\ DOMAIN family' \subseteq Token
        /\ \A t \in DOMAIN family' : family'[t] \in DOMAIN authorizedFor'
    BY <1>4, <1>5 DEF MayIssue
  <2>4. redeemed' \subseteq (DOMAIN authorizedFor' \cup DOMAIN family') \X DOMAIN family'
    BY <1>1, <1>4 DEF MayIssue, CoreInv, TypeOK
  <2> QED
    BY <2>1, <2>2, <2>3, <2>4 DEF TypeOK, SessionsOnlyAge, OthersTyped
<1>8. PairAgrees'
  <2> SUFFICES ASSUME NEW q \in DOMAIN refreshTokens'
               PROVE  LET b == refreshTokens'[q].access
                      IN  /\ b \in DOMAIN accessTokens'
                          /\ family'[b] = family'[q]
                          /\ accessTokens'[b].client = refreshTokens'[q].client
                          /\ accessTokens'[b].jwt = refreshTokens'[q].jwt
    BY DEF PairAgrees
  <2>1. CASE q = r
    BY <2>1, <1>2, <1>3, <1>4 DEF arow, rrow
  <2>2. CASE q # r
    <3> DEFINE b == refreshes[q].access
    <3>1. q \in DOMAIN refreshes /\ refreshTokens'[q] = refreshes[q]
      BY <2>2, <1>3
    <3>2. b \in DOMAIN accesses /\ b # a
      BY <3>1, <1>1, <1>5 DEF MayIssue
    <3>3. /\ family[b] = family[q]
          /\ accessTokens[b].client = refreshTokens[q].client
          /\ accessTokens[b].jwt = refreshTokens[q].jwt
      BY <3>1, <1>5 DEF CoreInv, PairAgrees
    <3> QED
      BY <3>1, <3>2, <3>3, <1>2, <1>4, <1>5
  <2> QED  BY <2>1, <2>2
<1>9. OneLivePairPerFamily'
  <2>1. \A t, u \in DOMAIN accesses : family[t] = family[u] => t = u
    BY <1>5 DEF CoreInv, OneLivePairPerFamily
  <2>2. \A t, u \in DOMAIN refreshes : family[t] = family[u] => t = u
    BY <1>5 DEF CoreInv, OneLivePairPerFamily
  <2>3. \A t, u \in DOMAIN accessTokens' : family'[t] = family'[u] => t = u
    BY <2>1, <1>2, <1>4, <1>5 DEF MayIssue
  <2>4. \A t, u \in DOMAIN refreshTokens' : family'[t] = family'[u] => t = u
    BY <2>2, <1>3, <1>4, <1>5 DEF MayIssue
  <2> QED  BY <2>3, <2>4 DEF OneLivePairPerFamily
<1>10. TokensKeepTheirClient'
  <2>1. \A t \in DOMAIN accessTokens' :
            accessTokens'[t].client = authorizedFor'[family'[t]]
    BY <1>2, <1>4, <1>5, <1>1
       DEF MayIssue, CoreInv, TokensKeepTheirClient, arow
  <2>2. \A t \in DOMAIN refreshTokens' :
            refreshTokens'[t].client = authorizedFor'[family'[t]]
    BY <1>3, <1>4, <1>5, <1>1
       DEF MayIssue, CoreInv, TokensKeepTheirClient, rrow
  <2> QED  BY <2>1, <2>2 DEF TokensKeepTheirClient
<1>11. GrantYieldsOnce'
  BY <1>1 DEF CoreInv, GrantYieldsOnce, MayIssue
<1>12. SessionsKeepTheirClient'
  BY DEF SessionsKeepTheirClient, SessionsOnlyAge
<1>13. \A l \in DOMAIN authorizedFor : Spent(l) => Spent(l)'
  BY DEF Spent, SessionsOnlyAge
<1>14. IssuedLoginsAreSpent'
  <2> SUFFICES ASSUME NEW t \in DOMAIN family', NEW l, l = family'[t]
               PROVE  Spent(l)'
    BY DEF IssuedLoginsAreSpent, Spent
  <2>1. CASE t \in {a, r}
    BY <2>1, <1>4 DEF MayIssue
  <2>2. CASE t \in DOMAIN family
    <3>1. l = family[t] /\ l \in DOMAIN authorizedFor
      BY <2>2, <1>4, <1>5
    <3>2. Spent(l)
      BY <2>2, <3>1 DEF CoreInv, IssuedLoginsAreSpent
    <3> QED  BY <3>1, <3>2, <1>13
  <2> QED  BY <2>1, <2>2, <1>4
<1>15. RedeemedGrantsAreSpent'
  <2> SUFFICES ASSUME NEW x \in redeemed'
               PROVE  /\ x[1] \in Session => Spent(x[1])'
                      /\ x[1] \in Token => x[1] \notin DOMAIN refreshTokens'
    BY DEF RedeemedGrantsAreSpent
  <2>1. CASE x = <<grant, a>>
    <3>1. CASE grant = s
      BY <2>1, <3>1, <1>5, GrantAssumption DEF MayIssue
    <3>2. CASE grant \in DOMAIN family \ DOMAIN refreshes
      BY <2>1, <3>2, <1>1, <1>3, <1>5, GrantAssumption
    <3> QED  BY <3>1, <3>2 DEF MayIssue
  <2>2. CASE x \in redeemed
    <3>1. x[1] \in DOMAIN authorizedFor \/ x[1] \in DOMAIN family
      BY <2>2 DEF CoreInv, TypeOK
    <3>2. /\ x[1] \in Session => Spent(x[1])
          /\ x[1] \in Token => x[1] \notin DOMAIN refreshTokens
      BY <2>2 DEF CoreInv, RedeemedGrantsAreSpent
    <3>3. x[1] \in Session => Spent(x[1])'
      BY <3>1, <3>2, <1>5, <1>13, GrantAssumption
    <3>4. x[1] \in Token => x[1] \notin DOMAIN refreshTokens'
      BY <3>1, <3>2, <1>1, <1>3, <1>5, GrantAssumption
    <3> QED  BY <3>3, <3>4
  <2> QED  BY <2>1, <2>2, <1>1
<1> QED
  BY <1>7, <1>8, <1>9, <1>10, <1>11, <1>12, <1>14, <1>15 DEF CoreInv

\* ... and, when the login was not revoked, the revoked ones stay closed.
LEMMA IssueKeepsRevoked ==
    ASSUME IInv, UNCHANGED <<authorizedFor, revoked>>,
           NEW grant, NEW s, NEW c, NEW jwt, NEW accesses, NEW refreshes,
           NEW a \in Token, NEW r \in Token,
           IssuePair(grant, s, c, jwt, a, r, accesses, refreshes),
           MayIssue(grant, s, c, jwt, accesses, refreshes),
           <<"refresh", s>> \notin revoked
    PROVE  RevokedInv'
<1>1. /\ DOMAIN accessTokens' = DOMAIN accesses \cup {a}
      /\ DOMAIN refreshTokens' = DOMAIN refreshes \cup {r}
      /\ DOMAIN family' = DOMAIN family \cup {a, r}
      /\ family'[a] = s /\ family'[r] = s
      /\ \A k \in DOMAIN family : family'[k] = family[k]
  BY DEF IssuePair, Insert, Fresh
<1>2. /\ DOMAIN accesses \subseteq DOMAIN accessTokens
      /\ DOMAIN refreshes \subseteq DOMAIN refreshTokens
      /\ DOMAIN accessTokens \subseteq DOMAIN family
      /\ DOMAIN refreshTokens \subseteq DOMAIN family
  BY DEF MayIssue, SubTable, IInv, CoreInv, TypeOK
<1>3. <<"access", s>> \notin revoked
  BY DEF MayIssue, IInv, RevokedInv
<1>4. \A l : l # s => /\ AccessOf(l)' \subseteq AccessOf(l)
                     /\ RefreshOf(l)' \subseteq RefreshOf(l)
  BY <1>1, <1>2 DEF AccessOf, RefreshOf
<1>5. RevokedFamilyStaysClosed'
  BY <1>3, <1>4 DEF IInv, RevokedInv, RevokedFamilyStaysClosed
<1>6. (\A x \in revoked : \E t \in DOMAIN family : family[t] = x[2])'
  BY <1>1 DEF IInv, RevokedInv
<1>7. \A l \in DOMAIN authorizedFor' :
          <<"access", l>> \in revoked' => <<"refresh", l>> \in revoked'
  BY DEF IInv, RevokedInv
<1> QED  BY <1>5, <1>6, <1>7 DEF RevokedInv

-----------------------------------------------------------------------------
(* Each action is a step of one of the two kinds.                          *)

\* Deleting access tokens as the foreign key allows leaves no dangling
\* reference in the refresh tokens that remain.
LEMMA DeleteAccessKeepsForeignKey ==
    ASSUME PairAgrees, NEW tokens, NEW refreshes,
           SubTable(refreshes, refreshTokens)
    PROVE  \A q \in DOMAIN refreshes :
               refreshes[q].access \in DOMAIN DeleteAccess(tokens, refreshes)
<1>1. \A q \in DOMAIN refreshes : refreshes[q].access \in DOMAIN accessTokens
  BY DEF PairAgrees, SubTable
<1>2. CASE ReferencesTo(refreshes, tokens) = {}
  <2>1. \A q \in DOMAIN refreshes : refreshes[q].access \notin tokens
    BY <1>2 DEF ReferencesTo
  <2> QED  BY <1>1, <1>2, <2>1, DeleteAccessFacts
<1>3. CASE ReferencesTo(refreshes, tokens) # {}
  BY <1>1, <1>3, DeleteAccessFacts
<1> QED  BY <1>2, <1>3

\* Leaving sessions, and everything about them, alone.
LEMMA SessionsUnchanged ==
    ASSUME CoreInv, UNCHANGED <<sessions, authorizedFor>>
    PROVE  SessionsOnlyAge
BY DEF CoreInv, TypeOK, SessionsKeepTheirClient, SessionsOnlyAge

\* Leaving both token tables and the families alone.
LEMMA TokensUnchanged ==
    ASSUME CoreInv, UNCHANGED <<accessTokens, refreshTokens, family, redeemed>>
    PROVE  TokensOnlyGo
BY DEF CoreInv, PairAgrees, TokensOnlyGo, SubTable

\* Leaving everything but sessions and tokens alone.
LEMMA OthersUnchanged ==
    ASSUME CoreInv, SessionsOnlyAge, UNCHANGED <<clients, loginStarted, now, revoked>>
    PROVE  OthersTyped
BY DEF CoreInv, TypeOK, OthersTyped, SessionsOnlyAge

\* Registration, authorization, the login's writes and the clock.
LEMMA SessionActions ==
    ASSUME CoreInv,
           \/ \E c \in Client : Register(c)
           \/ \E s \in Session :
                 \/ LoginStarts(s)
                 \/ LoginLocksSession(s)
                 \/ \E e \in JwtExpiry : LoginStoresJwt(s, e)
                 \/ \E c \in Client, b \in Binding :
                       Authorize(s, c, b) \/ ExchangeInterrupted(s, c, b)
           \/ Tick
    PROVE  /\ SessionsOnlyAge /\ OthersTyped /\ TokensOnlyGo
           /\ UNCHANGED revoked
<1> USE DEF history
<1>1. ASSUME NEW c \in Client, Register(c)
      PROVE  /\ SessionsOnlyAge /\ OthersTyped /\ TokensOnlyGo /\ UNCHANGED revoked
  <2>1. SessionsOnlyAge /\ TokensOnlyGo
    BY <1>1, SessionsUnchanged, TokensUnchanged DEF Register
  <2> QED  BY <1>1, <2>1 DEF Register, OthersTyped, CoreInv, TypeOK
<1>2. ASSUME NEW s \in Session, LoginStarts(s)
      PROVE  /\ SessionsOnlyAge /\ OthersTyped /\ TokensOnlyGo /\ UNCHANGED revoked
  <2>1. SessionsOnlyAge /\ TokensOnlyGo
    BY <1>2, SessionsUnchanged, TokensUnchanged DEF LoginStarts, tables
  <2> QED
    BY <1>2, <2>1 DEF LoginStarts, tables, OthersTyped, CoreInv, TypeOK
<1>3. ASSUME NEW s, MarkUsed(s), UNCHANGED authorizedFor
      PROVE  SessionsOnlyAge
  BY <1>3 DEF MarkUsed, SessionsOnlyAge, CoreInv, TypeOK, SessionRow,
              SessionsKeepTheirClient
<1>4. ASSUME NEW s \in Session, LoginLocksSession(s)
      PROVE  /\ SessionsOnlyAge /\ OthersTyped /\ TokensOnlyGo /\ UNCHANGED revoked
  <2>1. SessionsOnlyAge /\ TokensOnlyGo
    BY <1>3, <1>4, TokensUnchanged DEF LoginLocksSession
  <2> QED  BY <1>4, <2>1, OthersUnchanged DEF LoginLocksSession
<1>5. ASSUME NEW s \in Session, NEW e \in JwtExpiry, LoginStoresJwt(s, e)
      PROVE  /\ SessionsOnlyAge /\ OthersTyped /\ TokensOnlyGo /\ UNCHANGED revoked
  <2>1. SessionsOnlyAge
    BY <1>5 DEF LoginStoresJwt, SessionsOnlyAge, CoreInv, TypeOK, SessionRow,
                SessionsKeepTheirClient
  <2>2. TokensOnlyGo
    BY <1>5, TokensUnchanged DEF LoginStoresJwt
  <2> QED  BY <1>5, <2>1, <2>2, OthersUnchanged DEF LoginStoresJwt
<1>6. ASSUME NEW s \in Session, NEW c \in Client, NEW b \in Binding,
             ExchangeInterrupted(s, c, b)
      PROVE  /\ SessionsOnlyAge /\ OthersTyped /\ TokensOnlyGo /\ UNCHANGED revoked
  <2>1. SessionsOnlyAge /\ TokensOnlyGo
    BY <1>3, <1>6, TokensUnchanged DEF ExchangeInterrupted
  <2> QED  BY <1>6, <2>1, OthersUnchanged DEF ExchangeInterrupted
<1>7. ASSUME NEW s \in Session, NEW c \in Client, NEW b \in Binding,
             Authorize(s, c, b)
      PROVE  /\ SessionsOnlyAge /\ OthersTyped /\ TokensOnlyGo /\ UNCHANGED revoked
  <2> DEFINE row == [client |-> c, binding |-> b, jwt |-> NoJwt,
                     used |-> FALSE, expires |-> now + SessionTTL]
  <2>1. row \in SessionRow
    <3>1. now + SessionTTL \in Nat
      BY TimeAssumption DEF CoreInv, TypeOK
    <3> QED  BY <3>1 DEF SessionRow
  <2>2. /\ s \notin DOMAIN authorizedFor
        /\ sessions' = Insert(sessions, s, row)
        /\ authorizedFor' = Insert(authorizedFor, s, c)
        /\ row.client = c
    BY <1>7 DEF Authorize
  <2> HIDE DEF row
  <2>3. SessionsOnlyAge
    BY <2>1, <2>2 DEF Insert, SessionsOnlyAge, CoreInv, TypeOK,
                      SessionsKeepTheirClient
  <2>4. TokensOnlyGo
    BY <1>7, TokensUnchanged DEF Authorize
  <2> QED  BY <1>7, <2>3, <2>4, OthersUnchanged DEF Authorize
<1>8. ASSUME Tick
      PROVE  /\ SessionsOnlyAge /\ OthersTyped /\ TokensOnlyGo /\ UNCHANGED revoked
  <2>1. SessionsOnlyAge /\ TokensOnlyGo
    BY <1>8, SessionsUnchanged, TokensUnchanged DEF Tick, tables
  <2>2. now' \in 0..MaxTime
    BY <1>8, TimeAssumption DEF Tick, CoreInv, TypeOK
  <2> QED  BY <1>8, <2>1, <2>2 DEF Tick, tables, OthersTyped, CoreInv, TypeOK
<1> QED  BY <1>1, <1>2, <1>4, <1>5, <1>6, <1>7, <1>8

\* The refresh handler's branches that issue nothing, and the cleanup.
LEMMA TokenDeletions ==
    ASSUME CoreInv,
           \/ \E t \in Token, c \in Client :
                 \/ RefreshExpired(t, c)
                 \/ RefreshJwtExpired(t, c)
                 \/ RefreshInterrupted(t, c)
           \/ \E t \in Token, hint \in Hint : RevokeAccessInterrupted(t, hint)
           \/ Cleanup
    PROVE  /\ SessionsOnlyAge /\ OthersTyped /\ TokensOnlyGo
           /\ UNCHANGED revoked
<1> USE DEF history
<1>1. PairAgrees
  BY DEF CoreInv
<1>2. ASSUME NEW keys, refreshTokens' = Delete(refreshTokens, keys)
      PROVE  SubTable(refreshTokens', refreshTokens)
  BY <1>2, DeleteFacts
<1>3. ASSUME NEW keys, refreshTokens' = Delete(refreshTokens, keys),
             UNCHANGED <<accessTokens, family, redeemed>>
      PROVE  TokensOnlyGo
  BY <1>1, <1>2, <1>3 DEF TokensOnlyGo, SubTable, PairAgrees
<1>4. ASSUME NEW keys, NEW tokens, refreshTokens' = Delete(refreshTokens, keys),
             accessTokens' = DeleteAccess(tokens, refreshTokens'),
             UNCHANGED <<family, redeemed>>
      PROVE  TokensOnlyGo
  <2>1. SubTable(refreshTokens', refreshTokens)
    BY <1>2, <1>4
  <2>2. SubTable(accessTokens', accessTokens)
    BY <1>4, DeleteAccessFacts
  <2>3. \A q \in DOMAIN refreshTokens' :
            refreshTokens'[q].access \in DOMAIN accessTokens'
    BY <1>1, <1>4, <2>1, DeleteAccessKeepsForeignKey
  <2> QED  BY <1>4, <2>1, <2>2, <2>3 DEF TokensOnlyGo
<1>5. ASSUME NEW t \in Token, NEW c \in Client, RefreshExpired(t, c)
      PROVE  /\ SessionsOnlyAge /\ OthersTyped /\ TokensOnlyGo /\ UNCHANGED revoked
  BY <1>3, <1>5, SessionsUnchanged, OthersUnchanged DEF RefreshExpired
<1>6. ASSUME NEW t \in Token, NEW c \in Client, RefreshJwtExpired(t, c)
      PROVE  /\ SessionsOnlyAge /\ OthersTyped /\ TokensOnlyGo /\ UNCHANGED revoked
  BY <1>4, <1>6, SessionsUnchanged, OthersUnchanged DEF RefreshJwtExpired
<1>7. ASSUME NEW t \in Token, NEW c \in Client, RefreshInterrupted(t, c)
      PROVE  /\ SessionsOnlyAge /\ OthersTyped /\ TokensOnlyGo /\ UNCHANGED revoked
  BY <1>3, <1>4, <1>7, SessionsUnchanged, OthersUnchanged DEF RefreshInterrupted
<1>8. ASSUME NEW t \in Token, NEW hint \in Hint, RevokeAccessInterrupted(t, hint)
      PROVE  /\ SessionsOnlyAge /\ OthersTyped /\ TokensOnlyGo /\ UNCHANGED revoked
  BY <1>3, <1>8, SessionsUnchanged, OthersUnchanged DEF RevokeAccessInterrupted
<1>9. ASSUME Cleanup
      PROVE  /\ SessionsOnlyAge /\ OthersTyped /\ TokensOnlyGo /\ UNCHANGED revoked
  <2>1. CASE CleanupAborts
    BY <1>9, <2>1, SessionsUnchanged, TokensUnchanged, OthersUnchanged
       DEF Cleanup, AfterCleanup
  <2>2. CASE ~CleanupAborts
    <3> DEFINE refreshes == Delete(refreshTokens, SqlExpired(refreshTokens))
    <3>1. /\ sessions' = Delete(sessions, SqlExpired(sessions))
          /\ accessTokens' = Delete(accessTokens, SqlExpired(accessTokens))
          /\ refreshTokens' = refreshes
          /\ UNCHANGED <<clients, loginStarted, now, authorizedFor, family,
                         redeemed, revoked>>
      BY <1>9, <2>2 DEF Cleanup, AfterCleanup
    <3>2. ReferencesTo(refreshes, SqlExpired(accessTokens)) = {}
      BY <2>2 DEF CleanupAborts
    <3>3. accessTokens' = DeleteAccess(SqlExpired(accessTokens), refreshTokens')
      BY <3>1, <3>2 DEF DeleteAccess
    <3>4. TokensOnlyGo
      BY <1>4, <3>1, <3>3
    <3>5. /\ DOMAIN sessions' \subseteq DOMAIN sessions
          /\ \A s \in DOMAIN sessions' : sessions'[s] = sessions[s]
      BY <3>1 DEF Delete, Restrict
    <3>6. SessionsOnlyAge
      BY <3>1, <3>5 DEF SessionsOnlyAge, CoreInv, TypeOK, SessionsKeepTheirClient
    <3> QED  BY <3>1, <3>4, <3>6, OthersUnchanged
  <2> QED  BY <2>1, <2>2
<1> QED  BY <1>5, <1>6, <1>7, <1>8, <1>9

\* The code exchange issues on a login that never issued and was not revoked.
LEMMA ExchangeIssues ==
    ASSUME IInv, NEW s \in Session, NEW c \in Client, NEW b \in Binding,
           NEW a \in Token, NEW r \in Token, ExchangeCode(s, c, b, a, r)
    PROVE  /\ SessionsOnlyAge /\ OthersTyped
           /\ MayIssue(s, s, c, sessions[s].jwt, accessTokens, refreshTokens)
           /\ <<"refresh", s>> \notin revoked
<1>1. /\ s \in DOMAIN sessions /\ ~sessions[s].used
      /\ sessions[s].client = c /\ sessions[s].jwt # NoJwt
      /\ MarkUsed(s)
      /\ UNCHANGED <<clients, loginStarted, now, authorizedFor, revoked>>
  BY DEF ExchangeCode, CodeIsExchangeable
<1>2. ~Spent(s)
  BY <1>1 DEF Spent
<1>3. \A t \in DOMAIN family : family[t] # s
  BY <1>2 DEF IInv, CoreInv, IssuedLoginsAreSpent
<1>4. \A x \in redeemed : x[1] # s
  BY <1>2 DEF IInv, CoreInv, RedeemedGrantsAreSpent
<1>5. <<"refresh", s>> \notin revoked
  BY <1>3 DEF IInv, RevokedInv
<1>6. SessionsOnlyAge
  BY <1>1 DEF IInv, MarkUsed, SessionsOnlyAge, CoreInv, TypeOK, SessionRow,
              SessionsKeepTheirClient
<1>7. OthersTyped
  BY <1>1, <1>6, OthersUnchanged DEF IInv
<1>8. Spent(s)'
  BY <1>1 DEF MarkUsed, Spent, IInv, CoreInv, TypeOK, SessionRow
<1>9. /\ s \in DOMAIN authorizedFor /\ c = authorizedFor[s]
      /\ sessions[s].jwt \in JwtExpiry
  BY <1>1 DEF IInv, CoreInv, TypeOK, SessionRow, SessionsKeepTheirClient
<1>10. \A q \in DOMAIN refreshTokens :
           refreshTokens[q].access \in DOMAIN accessTokens
  BY DEF IInv, CoreInv, PairAgrees
<1>11. /\ \A t \in DOMAIN accessTokens : family[t] # s
       /\ \A q \in DOMAIN refreshTokens : family[q] # s
  BY <1>3 DEF IInv, CoreInv, TypeOK
<1> QED
  BY <1>4, <1>5, <1>6, <1>7, <1>8, <1>9, <1>10, <1>11 DEF MayIssue, SubTable

\* The rotation issues on a login of which both old rows are gone: the foreign
\* key cannot hold the old access token back, no other row refers to it.
LEMMA RotationIssues ==
    ASSUME IInv, NEW q \in Token, NEW c \in Client,
           NEW a \in Token, NEW r \in Token, RefreshRotates(q, c, a, r),
           NEW s, s = family[q],
           NEW refreshes, refreshes = Delete(refreshTokens, {q}),
           NEW accesses,
           accesses = DeleteAccess({refreshTokens[q].access}, refreshes)
    PROVE  /\ SessionsOnlyAge /\ OthersTyped
           /\ MayIssue(q, s, c, refreshTokens[q].jwt, accesses, refreshes)
           /\ <<"refresh", s>> \notin revoked
<1> DEFINE old == refreshTokens[q].access
<1>1. /\ q \in DOMAIN refreshTokens /\ refreshTokens[q].client = c
      /\ UNCHANGED <<clients, sessions, loginStarted, now, authorizedFor, revoked>>
  BY DEF RefreshRotates, RefreshIsExchangeable, RefreshIsCurrent, RefreshIsKnown
<1>2. /\ q \in DOMAIN family /\ s \in DOMAIN authorizedFor
      /\ DOMAIN accessTokens \subseteq DOMAIN family
      /\ DOMAIN refreshTokens \subseteq DOMAIN family
      /\ refreshTokens[q].jwt \in JwtExpiry
      /\ old \in DOMAIN accessTokens /\ family[old] = s
      /\ c = authorizedFor[s]
  BY <1>1 DEF IInv, CoreInv, TypeOK, RefreshRow, PairAgrees, TokensKeepTheirClient
<1>3. /\ DOMAIN refreshes = DOMAIN refreshTokens \ {q}
      /\ SubTable(refreshes, refreshTokens)
  BY DeleteFacts
<1>4. \A p \in DOMAIN refreshes : family[p] # s
  BY <1>1, <1>3 DEF IInv, CoreInv, OneLivePairPerFamily
<1>5. ReferencesTo(refreshes, {old}) = {}
  <2> SUFFICES ASSUME NEW p \in DOMAIN refreshes, refreshes[p].access = old
               PROVE  FALSE
    BY DEF ReferencesTo
  <2>1. p \in DOMAIN refreshTokens /\ refreshTokens[p].access = old
    BY <1>3 DEF SubTable
  <2>2. family[old] = family[p]
    BY <2>1 DEF IInv, CoreInv, PairAgrees
  <2> QED  BY <2>2, <1>2, <1>4
<1>6. /\ DOMAIN accesses = DOMAIN accessTokens \ {old}
      /\ SubTable(accesses, accessTokens)
  BY <1>5, DeleteAccessFacts
<1>7. \A t \in DOMAIN accesses : family[t] # s
  BY <1>2, <1>6 DEF IInv, CoreInv, OneLivePairPerFamily
<1>8. \A p \in DOMAIN refreshes : refreshes[p].access \in DOMAIN accesses
  BY <1>3, DeleteAccessKeepsForeignKey DEF IInv, CoreInv
<1>9. \A x \in redeemed : x[1] # q
  BY <1>1 DEF IInv, CoreInv, RedeemedGrantsAreSpent
<1>10. Spent(s)'
  <2>1. Spent(s)
    BY <1>2 DEF IInv, CoreInv, IssuedLoginsAreSpent
  <2> QED  BY <1>1, <2>1 DEF Spent
<1>11. SessionsOnlyAge /\ OthersTyped
  BY <1>1, SessionsUnchanged, OthersUnchanged DEF IInv
<1>12. <<"refresh", s>> \notin revoked
  <2>1. q \in RefreshOf(s)
    BY <1>1 DEF RefreshOf
  <2> QED  BY <1>2, <2>1 DEF IInv, RevokedInv, RevokedFamilyStaysClosed
<1>13. q \in DOMAIN family \ DOMAIN refreshes
  BY <1>2, <1>3
<1> QED
  BY <1>2, <1>3, <1>4, <1>6, <1>7, <1>8, <1>9, <1>10, <1>11, <1>12, <1>13
     DEF MayIssue

\* Revocation deletes as the other steps do, and closes the login it names.
LEMMA RevocationCloses ==
    ASSUME IInv, NEW t \in Token, NEW hint \in Hint,
           RevokeAccess(t, hint) \/ RevokeRefresh(t, hint)
    PROVE  SessionsOnlyAge /\ OthersTyped /\ TokensOnlyGo /\ RevokedInv'
<1> DEFINE s == family[t]
<1>1. CoreInv /\ PairAgrees /\ RevokedInv /\ OneLivePairPerFamily
  BY DEF IInv, CoreInv
<1>2. t \in DOMAIN family /\ s \in DOMAIN authorizedFor
  BY <1>1 DEF RevokeAccess, RevokeRefresh, CoreInv, TypeOK
<1>3. /\ DOMAIN accessTokens \subseteq DOMAIN family
      /\ DOMAIN refreshTokens \subseteq DOMAIN family
      /\ revoked \subseteq {"access", "refresh"} \X DOMAIN authorizedFor
  BY <1>1 DEF CoreInv, TypeOK
<1>4. SessionsOnlyAge
  BY <1>1, SessionsUnchanged DEF RevokeAccess, RevokeRefresh
<1>5. OthersTyped
  BY <1>1, <1>2, <1>3
     DEF RevokeAccess, RevokeRefresh, CoreInv, TypeOK, OthersTyped
<1>7. CASE RevokeAccess(t, hint)
  <2>1. /\ t \in DOMAIN accessTokens
        /\ refreshTokens' = Delete(refreshTokens, ReferencesTo(refreshTokens, {t}))
        /\ accessTokens' = DeleteAccess({t}, refreshTokens')
        /\ revoked' = revoked \cup {<<"access", s>>, <<"refresh", s>>}
        /\ UNCHANGED <<family, authorizedFor, redeemed>>
    BY <1>7 DEF RevokeAccess
  <2>2. /\ DOMAIN refreshTokens'
                = DOMAIN refreshTokens \ ReferencesTo(refreshTokens, {t})
        /\ SubTable(refreshTokens', refreshTokens)
    BY <2>1, DeleteFacts
  <2>3. ReferencesTo(refreshTokens', {t}) = {}
    BY <2>2 DEF ReferencesTo, SubTable
  <2>4. /\ DOMAIN accessTokens' = DOMAIN accessTokens \ {t}
        /\ SubTable(accessTokens', accessTokens)
    BY <2>1, <2>3, DeleteAccessFacts
  <2>5. TokensOnlyGo
    BY <1>1, <2>1, <2>2, <2>4, DeleteAccessKeepsForeignKey DEF TokensOnlyGo
  <2>6. \A u \in DOMAIN accessTokens' : family[u] # s
    BY <1>1, <2>1, <2>4 DEF OneLivePairPerFamily
  <2>7. \A q \in DOMAIN refreshTokens' : family[q] # s
    <3> SUFFICES ASSUME NEW q \in DOMAIN refreshTokens', family[q] = s
                 PROVE  FALSE
      OBVIOUS
    <3>1. q \in DOMAIN refreshTokens /\ q \notin ReferencesTo(refreshTokens, {t})
      BY <2>2
    <3>2. /\ refreshTokens[q].access \in DOMAIN accessTokens
          /\ family[refreshTokens[q].access] = s
      BY <1>1, <3>1 DEF PairAgrees
    <3>3. refreshTokens[q].access = t
      BY <1>1, <2>1, <3>2 DEF OneLivePairPerFamily
    <3> QED  BY <3>1, <3>3 DEF ReferencesTo
  <2>8. RevokedFamilyStaysClosed'
    BY <1>1, <2>1, <2>2, <2>4, <2>6, <2>7
       DEF RevokedInv, RevokedFamilyStaysClosed, AccessOf, RefreshOf
  <2> QED
    BY <1>1, <1>2, <1>4, <1>5, <2>1, <2>5, <2>8 DEF RevokedInv
<1>8. CASE RevokeRefresh(t, hint)
  <2>1. /\ t \in DOMAIN refreshTokens
        /\ refreshTokens' = Delete(refreshTokens, {t})
        /\ revoked' = revoked \cup {<<"refresh", s>>}
        /\ UNCHANGED <<accessTokens, family, authorizedFor, redeemed>>
    BY <1>8 DEF RevokeRefresh
  <2>2. /\ DOMAIN refreshTokens' = DOMAIN refreshTokens \ {t}
        /\ SubTable(refreshTokens', refreshTokens)
    BY <2>1, DeleteFacts
  <2>3. TokensOnlyGo
    BY <1>1, <2>1, <2>2 DEF TokensOnlyGo, SubTable, PairAgrees
  <2>4. \A q \in DOMAIN refreshTokens' : family[q] # s
    BY <1>1, <2>1, <2>2 DEF OneLivePairPerFamily
  <2>5. RevokedFamilyStaysClosed'
    BY <1>1, <2>1, <2>2, <2>4
       DEF RevokedInv, RevokedFamilyStaysClosed, AccessOf, RefreshOf
  <2> QED
    BY <1>1, <1>2, <1>4, <1>5, <2>1, <2>3, <2>5 DEF RevokedInv
<1> QED  BY <1>7, <1>8

-----------------------------------------------------------------------------
(* The steps of OAuth, sorted.                                             *)

Quiet == SessionsOnlyAge /\ OthersTyped /\ TokensOnlyGo /\ RevokedInv'

Stages(s) == Stage(s) \in {"open", "live"}

\* An issuing step touches no other login.
OthersKept(s, refreshes) ==
    /\ \A q \in DOMAIN refreshTokens \ DOMAIN refreshes : family[q] = s
    /\ \A l \in Session \ {s} :
           /\ l \in DOMAIN sessions' <=> l \in DOMAIN sessions
           /\ l \in DOMAIN sessions => sessions'[l] = sessions[l]

Issues(grant, s, c, jwt, a, r, accesses, refreshes) ==
    /\ SessionsOnlyAge /\ OthersTyped /\ UNCHANGED <<authorizedFor, revoked, now>>
    /\ IssuePair(grant, s, c, jwt, a, r, accesses, refreshes)
    /\ MayIssue(grant, s, c, jwt, accesses, refreshes)
    /\ <<"refresh", s>> \notin revoked
    /\ Stages(s)
    /\ OthersKept(s, refreshes)

Issuing ==
    \E s \in Session, a, r \in Token, grant \in Session \cup Token, c \in Client,
       jwt \in JwtExpiry : \E accesses, refreshes :
           Issues(grant, s, c, jwt, a, r, accesses, refreshes)

\* Every step is of one of the two kinds, and the clock never goes back.
LEMMA StepKinds ==
    ASSUME IInv, Next
    PROVE  (Quiet \/ Issuing) /\ now <= now'
<1>1. now \in Nat
  BY DEF IInv, CoreInv, TypeOK
<1>2. ASSUME SessionsOnlyAge, OthersTyped, TokensOnlyGo, UNCHANGED revoked
      PROVE  Quiet
  BY <1>2, NoIssueKeepsRevoked DEF Quiet
<1>3. CASE Tick \/ \E c \in Client : Register(c)
  <2>1. Quiet
    BY <1>2, <1>3, SessionActions DEF IInv
  <2> QED  BY <1>1, <1>3, <2>1 DEF Tick, Register
<1>4. CASE Cleanup
  <2>1. Quiet
    BY <1>2, <1>4, TokenDeletions DEF IInv
  <2> QED  BY <1>1, <1>4, <2>1 DEF Cleanup
<1>5. ASSUME NEW s \in Session, CodeStep(s) \/ LoginStep(s)
      PROVE  (Quiet \/ Issuing) /\ now <= now'
  <2>1. CASE \/ LoginStarts(s)
             \/ LoginLocksSession(s)
             \/ \E e \in JwtExpiry : LoginStoresJwt(s, e)
             \/ \E c \in Client, b \in Binding :
                   Authorize(s, c, b) \/ ExchangeInterrupted(s, c, b)
    <3>1. Quiet
      BY <1>2, <2>1, SessionActions DEF IInv
    <3>2. now' = now
      BY <2>1 DEF LoginStarts, LoginLocksSession, LoginStoresJwt, Authorize,
                  ExchangeInterrupted
    <3> QED  BY <1>1, <3>1, <3>2
  <2>2. ASSUME NEW c \in Client, NEW b \in Binding, NEW a \in Token, NEW r \in Token,
               ExchangeCode(s, c, b, a, r)
        PROVE  (Quiet \/ Issuing) /\ now <= now'
    <3> DEFINE jwt == sessions[s].jwt
    <3>1. /\ SessionsOnlyAge /\ OthersTyped
          /\ MayIssue(s, s, c, jwt, accessTokens, refreshTokens)
          /\ <<"refresh", s>> \notin revoked
      BY <2>2, ExchangeIssues
    <3>2. /\ IssuePair(s, s, c, jwt, a, r, accessTokens, refreshTokens)
          /\ UNCHANGED <<authorizedFor, revoked, now>>
      BY <2>2 DEF ExchangeCode
    <3>3. Stages(s)
      BY <2>2 DEF ExchangeCode, CodeIsExchangeable, Stages, Stage
    <3>4. OthersKept(s, refreshTokens)
      BY <2>2 DEF ExchangeCode, MarkUsed, OthersKept
    <3>5. jwt \in JwtExpiry
      BY <3>1 DEF MayIssue
    <3>6. Issues(s, s, c, jwt, a, r, accessTokens, refreshTokens)
      BY <3>1, <3>2, <3>3, <3>4 DEF Issues
    <3> QED  BY <1>1, <3>2, <3>5, <3>6 DEF Issuing
  <2> QED  BY <1>5, <2>1, <2>2 DEF CodeStep, LoginStep
<1>6. ASSUME NEW t \in Token, TokenStep(t)
      PROVE  (Quiet \/ Issuing) /\ now <= now'
  <2>1. CASE \/ \E c \in Client : \/ RefreshExpired(t, c)
                                 \/ RefreshJwtExpired(t, c)
                                 \/ RefreshInterrupted(t, c)
             \/ \E hint \in Hint : RevokeAccessInterrupted(t, hint)
    <3>1. Quiet
      BY <1>2, <2>1, TokenDeletions DEF IInv
    <3>2. now' = now
      BY <2>1 DEF RefreshExpired, RefreshJwtExpired, RefreshInterrupted,
                  RevokeAccessInterrupted
    <3> QED  BY <1>1, <3>1, <3>2
  <2>2. CASE \E hint \in Hint : RevokeAccess(t, hint) \/ RevokeRefresh(t, hint)
    <3>1. Quiet
      BY <2>2, RevocationCloses DEF Quiet
    <3>2. now' = now
      BY <2>2 DEF RevokeAccess, RevokeRefresh
    <3> QED  BY <1>1, <3>1, <3>2
  <2>3. ASSUME NEW c \in Client, NEW a \in Token, NEW r \in Token,
               RefreshRotates(t, c, a, r)
        PROVE  (Quiet \/ Issuing) /\ now <= now'
    <3> DEFINE jwt == refreshTokens[t].jwt
               refreshes == Delete(refreshTokens, {t})
               accesses == DeleteAccess({refreshTokens[t].access}, refreshes)
    <3>1. PICK s : s = family[t]
      OBVIOUS
    <3>2. /\ SessionsOnlyAge /\ OthersTyped
          /\ MayIssue(t, s, c, jwt, accesses, refreshes)
          /\ <<"refresh", s>> \notin revoked
      BY <2>3, <3>1, RotationIssues
    <3>3. /\ IssuePair(t, s, c, jwt, a, r, accesses, refreshes)
          /\ t \in DOMAIN refreshTokens
          /\ UNCHANGED <<sessions, authorizedFor, revoked, now>>
      BY <2>3, <3>1 DEF RefreshRotates, RefreshIsExchangeable, RefreshIsCurrent,
                        RefreshIsKnown
    <3>4. Stages(s)
      BY <3>1, <3>3 DEF Stages, Stage, RefreshOf
    <3>5. OthersKept(s, refreshes)
      BY <3>1, <3>3, DeleteFacts DEF OthersKept
    <3>6. jwt \in JwtExpiry /\ s \in Session
      BY <3>2 DEF MayIssue, IInv, CoreInv, TypeOK
    <3>7. Issues(t, s, c, jwt, a, r, accesses, refreshes)
      BY <3>2, <3>3, <3>4, <3>5 DEF Issues
    <3> HIDE DEF jwt, refreshes, accesses
    <3> QED  BY <1>1, <3>3, <3>6, <3>7 DEF Issuing
  <2> QED  BY <1>6, <2>1, <2>2, <2>3 DEF TokenStep
<1> QED  BY <1>3, <1>4, <1>5, <1>6 DEF Next, HandlerStep

-----------------------------------------------------------------------------
(* The invariant, and the safety properties it implies.                    *)

\* The empty database satisfies the invariant.
LEMMA InitInv == Init => IInv
BY TimeAssumption
   DEF Init, IInv, CoreInv, RevokedInv, TypeOK, PairAgrees, OneLivePairPerFamily,
       TokensKeepTheirClient, GrantYieldsOnce, SessionsKeepTheirClient,
       IssuedLoginsAreSpent, RedeemedGrantsAreSpent, RevokedFamilyStaysClosed


\* Every handler, cleanup and process stop keeps the invariant.
LEMMA NextInv == IInv /\ [Next]_vars => IInv'
<1> SUFFICES ASSUME IInv, [Next]_vars PROVE IInv'
  OBVIOUS
<1>1. CASE Quiet
  BY <1>1, NoIssueKeepsCore DEF Quiet, IInv
<1>2. CASE Issuing
  <2>1. PICK s \in Session, a \in Token, r \in Token,
             grant \in Session \cup Token, c \in Client, jwt \in JwtExpiry :
             \E accesses, refreshes :
                 Issues(grant, s, c, jwt, a, r, accesses, refreshes)
    BY <1>2 DEF Issuing
  <2>2. PICK accesses, refreshes :
             Issues(grant, s, c, jwt, a, r, accesses, refreshes)
    BY <2>1
  <2>3. CoreInv'
    BY <2>2, IssueKeepsCore DEF Issues, IInv
  <2>4. RevokedInv'
    BY <2>2, IssueKeepsRevoked DEF Issues
  <2> QED  BY <2>3, <2>4 DEF IInv
<1>3. CASE UNCHANGED vars
  BY <1>3
     DEF vars, tables, history, IInv, CoreInv, RevokedInv, TypeOK, PairAgrees,
         OneLivePairPerFamily, TokensKeepTheirClient, GrantYieldsOnce,
         SessionsKeepTheirClient, IssuedLoginsAreSpent, RedeemedGrantsAreSpent,
         RevokedFamilyStaysClosed, Spent, AccessOf, RefreshOf
<1> QED  BY <1>1, <1>2, <1>3, StepKinds

\* The inductive invariant holds for every instance of the constants.
THEOREM Invariance == Spec => []IInv
BY InitInv, NextInv, PTL DEF Spec

\* The tables and the history always have their types.
THEOREM TypeCorrect == Spec => []TypeOK
<1>1. IInv => TypeOK
  BY DEF IInv, CoreInv
<1> QED  BY <1>1, Invariance, PTL

\* Codes and refresh tokens yield tokens at most once: the atomic UPDATE and
\* DELETE of token.ts suffice, with any process stops.
THEOREM SingleUse == Spec => []GrantYieldsOnce
<1>1. IInv => GrantYieldsOnce
  BY DEF IInv, CoreInv
<1> QED  BY <1>1, Invariance, PTL

\* One login has at most one live access and one live refresh token, which
\* agree, and which stay with the client that was authorized.
THEOREM LivePair ==
    Spec => []LivePairsAgree
<1>1. IInv => LivePairsAgree
  BY DEF IInv, CoreInv, LivePairsAgree
<1> QED  BY <1>1, Invariance, PTL

\* What /oauth/revoke closed stays closed.
THEOREM RevocationLasts == Spec => []RevokedFamilyStaysClosed
<1>1. IInv => RevokedFamilyStaysClosed
  BY DEF IInv, RevokedInv
<1> QED  BY <1>1, Invariance, PTL

\* A bearer token refused once is refused for ever.
THEOREM RefusalLasts == Spec => RejectionIsFinal
<1> DEFINE A == \A t \in DOMAIN family : ~Accepts(t) => ~Accepts(t)'
<1>1. ASSUME IInv, Next, NEW t \in DOMAIN family, ~Accepts(t)
      PROVE  ~Accepts(t)'
  <2>1. (Quiet \/ Issuing) /\ now <= now'
    BY <1>1, StepKinds
  <2>2. t \in DOMAIN accessTokens' =>
            /\ t \in DOMAIN accessTokens
            /\ accessTokens'[t] = accessTokens[t]
    <3>1. CASE Quiet
      BY <3>1 DEF Quiet, TokensOnlyGo, SubTable
    <3>2. CASE Issuing
      <4>1. PICK s \in Session, a \in Token, r \in Token,
                 grant \in Session \cup Token, c \in Client, jwt \in JwtExpiry :
                 \E accesses, refreshes :
                     Issues(grant, s, c, jwt, a, r, accesses, refreshes)
        BY <3>2 DEF Issuing
      <4>2. PICK accesses, refreshes :
                 Issues(grant, s, c, jwt, a, r, accesses, refreshes)
        BY <4>1
      <4> QED
        BY <1>1, <4>2 DEF Issues, IssuePair, MayIssue, Fresh, Insert, SubTable
    <3> QED  BY <2>1, <3>1, <3>2
  <2>3. now \in Nat /\ now' \in Nat
    <3>1. IInv'
      BY <1>1, NextInv
    <3> QED  BY <1>1, <3>1 DEF IInv, CoreInv, TypeOK
  <2>4. t \in DOMAIN accessTokens =>
            accessTokens[t].expires \in Nat /\ accessTokens[t].jwt \in Nat
    BY <1>1, TimeAssumption DEF IInv, CoreInv, TypeOK, AccessRow
  <2> QED
    BY <1>1, <2>1, <2>2, <2>3, <2>4 DEF Accepts, Expired
<1>2. IInv /\ [Next]_vars => [A]_vars
  <2>1. ASSUME IInv, Next PROVE A
    BY <1>1, <2>1
  <2> QED  BY <2>1
<1>3. Spec => [][A]_vars
  BY <1>2, Invariance, PTL DEF Spec
<1> QED  BY <1>3 DEF RejectionIsFinal

-----------------------------------------------------------------------------
(* OAuth implements TokenFamily.                                           *)

\* A step that issues nothing closes some logins and leaves the others alone.
LEMMA QuietStepCloses ==
    ASSUME IInv, Quiet
    PROVE  \E ls \in SUBSET Session : Family!Close(ls)
<1> DEFINE closed == {l \in Session : Stage(l)' = "closed"}
<1>1. \A l : RefreshOf(l)' \subseteq RefreshOf(l)
  BY DEF Quiet, TokensOnlyGo, SubTable, RefreshOf
<1>2. DOMAIN family' = DOMAIN family
  BY DEF Quiet, TokensOnlyGo
<1>3. \A l : Spent(l) \/ (RefreshOf(l) = {} /\ l \in DOMAIN sessions)
  <2>1. \A t \in DOMAIN refreshTokens : Spent(family[t])
    BY DEF IInv, CoreInv, TypeOK, IssuedLoginsAreSpent
  <2> QED  BY <2>1 DEF RefreshOf, Spent
<1>4. ASSUME NEW l \in Session, Stage(l)' # "closed"
      PROVE  Stage(l)' = Stage(l) /\ CurrentGrant(l)' = CurrentGrant(l)
  <2>1. CASE RefreshOf(l)' # {}
    <3>1. RefreshOf(l)' = RefreshOf(l)
      BY <1>1, <2>1 DEF IInv, CoreInv, OneLivePairPerFamily, RefreshOf
    <3> QED  BY <2>1, <3>1 DEF Stage, CurrentGrant
  <2>2. CASE RefreshOf(l)' = {}
    <3>1. \/ l \notin DOMAIN authorizedFor'
          \/ l \in DOMAIN sessions' /\ ~sessions'[l].used
      BY <1>4, <2>2 DEF Stage
    <3>2. \/ l \notin DOMAIN authorizedFor
          \/ l \in DOMAIN sessions /\ ~sessions[l].used
      BY <3>1 DEF Quiet, SessionsOnlyAge
    <3>3. RefreshOf(l) = {}
      BY <1>3, <3>2 DEF Spent, IInv, CoreInv, TypeOK, RefreshOf
    <3> QED  BY <2>2, <3>1, <3>2, <3>3 DEF Stage, CurrentGrant
  <2> QED  BY <2>1, <2>2
<1>5. ASSUME NEW l \in Session, Stage(l)' = "closed"
      PROVE  CurrentGrant(l)' = NoJwt
  BY <1>5 DEF Stage, CurrentGrant
<1>6. Family!Close(closed)
  BY <1>2, <1>4, <1>5 DEF Family!Close
<1> QED  BY <1>6

\* An issuing step opens or renews its login.
LEMMA IssuingStepHands ==
    ASSUME IInv, NEW s \in Session, NEW a \in Token, NEW r \in Token,
           NEW grant, NEW c, NEW jwt, NEW accesses, NEW refreshes,
           Issues(grant, s, c, jwt, a, r, accesses, refreshes)
    PROVE  Family!Open(s, r, a) \/ Family!Renew(s, r, a)
<1>1. /\ r \notin DOMAIN family /\ a # r
      /\ DOMAIN family' = DOMAIN family \cup {a, r}
      /\ family'[r] = s
      /\ \A k \in DOMAIN family : family'[k] = family[k]
      /\ DOMAIN refreshTokens' = DOMAIN refreshes \cup {r}
      /\ DOMAIN refreshTokens \subseteq DOMAIN family
      /\ DOMAIN refreshes \subseteq DOMAIN refreshTokens
      /\ \A q \in DOMAIN refreshes : family[q] # s
  BY DEF Issues, IssuePair, MayIssue, Insert, Fresh, SubTable, IInv, CoreInv, TypeOK
<1>2. RefreshOf(s)' = {r}
  BY <1>1 DEF RefreshOf
<1>3. Stage(s)' = "live" /\ CurrentGrant(s)' = r
  BY <1>2 DEF Stage, CurrentGrant, RefreshOf
<1>4. ASSUME NEW l \in Session \ {s}
      PROVE  Stage(l)' = Stage(l) /\ CurrentGrant(l)' = CurrentGrant(l)
  <2>1. \A q \in DOMAIN refreshTokens \ DOMAIN refreshes : family[q] = s
    BY DEF Issues, OthersKept
  <2>2. {t \in DOMAIN refreshTokens' : family'[t] = l}
            = {t \in DOMAIN refreshTokens : family[t] = l}
    BY <1>1, <2>1
  <2>3. /\ l \in DOMAIN sessions' <=> l \in DOMAIN sessions
        /\ l \in DOMAIN sessions => sessions'[l] = sessions[l]
        /\ authorizedFor' = authorizedFor
    BY DEF Issues, OthersKept
  <2>4. CurrentGrant(l)' = CurrentGrant(l)
    <3>1. CASE {t \in DOMAIN refreshTokens : family[t] = l} = {}
      BY <2>2, <3>1 DEF CurrentGrant, RefreshOf
    <3>2. CASE \E x : {t \in DOMAIN refreshTokens : family[t] = l} = {x}
      BY <2>2, <3>2 DEF CurrentGrant, RefreshOf
    <3>3. \A t, u \in DOMAIN refreshTokens : family[t] = family[u] => t = u
      BY DEF IInv, CoreInv, OneLivePairPerFamily
    <3> QED  BY <3>1, <3>2, <3>3
  <2>5. Stage(l)' = Stage(l)
    BY <2>2, <2>3 DEF Stage, RefreshOf
  <2> QED  BY <2>4, <2>5
<1>5. Family!Hand(s, r, a)
  BY <1>1, <1>3, <1>4 DEF Family!Hand
<1>6. Stage(s) \in {"open", "live"}
  BY DEF Issues, Stages
<1> QED
  BY <1>5, <1>6 DEF Family!Open, Family!Renew

\* The OAuth server keeps the promise of TokenFamily about every login.
THEOREM ImplementsTokenFamily == Spec => FamilySpec
<1>1. Init => Family!Init
  BY DEF Init, Family!Init, Stage, CurrentGrant, RefreshOf
<1>2. IInv /\ [Next]_vars => [Family!Next]_Family!familyVars
  <2> SUFFICES ASSUME IInv, [Next]_vars
               PROVE  [Family!Next]_Family!familyVars
    OBVIOUS
  <2>1. CASE Quiet
    BY <2>1, QuietStepCloses DEF Family!Next
  <2>2. CASE Issuing
    <3>1. PICK s \in Session, a \in Token, r \in Token,
               grant \in Session \cup Token, c \in Client, jwt \in JwtExpiry :
               \E accesses, refreshes :
                   Issues(grant, s, c, jwt, a, r, accesses, refreshes)
      BY <2>2 DEF Issuing
    <3>2. Family!Open(s, r, a) \/ Family!Renew(s, r, a)
      BY <3>1, IssuingStepHands
    <3> QED  BY <3>2 DEF Family!Next
  <2>3. CASE UNCHANGED vars
    BY <2>3 DEF vars, tables, history, Family!familyVars, Stage, CurrentGrant, RefreshOf
  <2> QED  BY <2>1, <2>2, <2>3, StepKinds
<1> QED  BY <1>1, <1>2, Invariance, PTL DEF Spec, FamilySpec, Family!Spec

-----------------------------------------------------------------------------
(* The cleanup.                                                            *)

\* An instant on an earlier day is an earlier instant.
LEMMA EarlierDayIsEarlier ==
    ASSUME NEW e \in Nat, now \in Nat, ExpiredBySql(e)
    PROVE  Expired(e)
<1>1. DayLength \in Nat \ {0}
  BY TimeAssumption
<1>2. /\ e \div DayLength \in Nat /\ now \div DayLength \in Nat
      /\ DayLength * (e \div DayLength) \in Nat
      /\ DayLength * (now \div DayLength) \in Nat
      /\ e < DayLength * (e \div DayLength) + DayLength
      /\ DayLength * (now \div DayLength) <= now
  BY <1>1, SMTT(30)
<1>3. DayLength * (e \div DayLength) + DayLength <= DayLength * (now \div DayLength)
  <2>1. e \div DayLength + 1 <= now \div DayLength
    BY <1>2 DEF ExpiredBySql
  <2> QED  BY <1>1, <1>2, <2>1, SMTT(30)
<1>4. \A x, y, d \in Nat : e < x + d /\ x + d <= y /\ y <= now => e < now
  BY SMT
<1> QED  BY <1>1, <1>2, <1>3, <1>4 DEF Expired

\* What a cleanup leaves of a table: every unexpired row, and no new one.
LEMMA CleanupKeepsRows ==
    ASSUME NEW table, now \in Nat,
           \A k \in DOMAIN table : table[k].expires \in Nat
    PROVE  /\ SubTable(Delete(table, SqlExpired(table)), table)
           /\ \A k \in DOMAIN table :
                  ~Expired(table[k].expires)
                      => k \in DOMAIN Delete(table, SqlExpired(table))
<1>1. \A k \in DOMAIN table :
          ~Expired(table[k].expires) => k \notin SqlExpired(table)
  BY EarlierDayIsEarlier DEF SqlExpired
<1> QED  BY <1>1, DeleteFacts

\* An hourly cleanup never interrupts a client: whatever could be presented
\* before it can be presented after it, and nothing else can.
THEOREM CleanupIsHarmless == Spec => CleanupKeepsLiveGrants
<1> DEFINE A == Cleanup => /\ \A t \in Token : Accepts(t) => Accepts(t)'
                           /\ CanStillExchange = CanStillExchange'
                           /\ CanStillRefresh = CanStillRefresh'
<1>1. ASSUME IInv, Cleanup
      PROVE  /\ \A t \in Token : Accepts(t) => Accepts(t)'
             /\ CanStillExchange = CanStillExchange'
             /\ CanStillRefresh = CanStillRefresh'
  <2>1. /\ now \in Nat
        /\ \A s \in DOMAIN sessions : sessions[s].expires \in Nat
        /\ \A t \in DOMAIN accessTokens : accessTokens[t].expires \in Nat
        /\ \A t \in DOMAIN refreshTokens : refreshTokens[t].expires \in Nat
    BY <1>1 DEF IInv, CoreInv, TypeOK, SessionRow, AccessRow, RefreshRow
  <2>2. now' = now /\ clients' = clients
    BY <1>1 DEF Cleanup
  <2>3. /\ SubTable(sessions', sessions)
        /\ \A s \in DOMAIN sessions :
               ~Expired(sessions[s].expires) => s \in DOMAIN sessions'
        /\ SubTable(accessTokens', accessTokens)
        /\ \A t \in DOMAIN accessTokens :
               ~Expired(accessTokens[t].expires) => t \in DOMAIN accessTokens'
        /\ SubTable(refreshTokens', refreshTokens)
        /\ \A t \in DOMAIN refreshTokens :
               ~Expired(refreshTokens[t].expires) => t \in DOMAIN refreshTokens'
    <3>1. CASE CleanupAborts
      BY <1>1, <3>1 DEF Cleanup, AfterCleanup, SubTable
    <3>2. CASE ~CleanupAborts
      <4>1. /\ sessions' = Delete(sessions, SqlExpired(sessions))
            /\ accessTokens' = Delete(accessTokens, SqlExpired(accessTokens))
            /\ refreshTokens' = Delete(refreshTokens, SqlExpired(refreshTokens))
        BY <1>1, <3>2 DEF Cleanup, AfterCleanup
      <4> QED  BY <2>1, <4>1, CleanupKeepsRows
    <3> QED  BY <3>1, <3>2
  <2>4. \A t \in Token : Accepts(t) => Accepts(t)'
    BY <2>2, <2>3 DEF Accepts, Expired, SubTable
  <2>5. \A s \in Session, c \in Client, b \in Binding :
            CodeIsExchangeable(s, c, b) <=> CodeIsExchangeable(s, c, b)'
    BY <2>2, <2>3 DEF CodeIsExchangeable, Expired, SubTable
  <2>6. \A r \in Token, c \in Client :
            RefreshIsExchangeable(r, c) <=> RefreshIsExchangeable(r, c)'
    BY <2>2, <2>3
       DEF RefreshIsExchangeable, RefreshIsCurrent, RefreshIsKnown, Expired, SubTable
  <2>7. CanStillExchange = CanStillExchange'
    BY <2>5 DEF CanStillExchange
  <2>8. CanStillRefresh = CanStillRefresh'
    BY <2>6 DEF CanStillRefresh
  <2> QED  BY <2>4, <2>7, <2>8
<1>2. IInv => A
  BY <1>1
<1>3. IInv /\ [Next]_vars => [A]_vars
  BY <1>2
<1>4. Spec => [][A]_vars
  BY <1>3, Invariance, PTL DEF Spec
<1> QED  BY <1>4 DEF CleanupKeepsLiveGrants
=============================================================================
