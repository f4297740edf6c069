------------------------ MODULE ScopeResolverProps ------------------------
(***************************************************************************)
(* What the scope resolver promises the tools, stated over ScopeResolver.  *)
(***************************************************************************)
EXTENDS ScopeResolver

\* How long an answer may be old news, in ticks: it was on its way to the
\* resolver and to Valkey, and was then cached.
MaxAge(k) == 2 * MaxDelay + Second * (IF k = "scope" THEN ScopeTTL ELSE BuildsTTL)

\* resolver.ts:108: an answer that a call gets, from the cache or not, was
\* the right one at most the time to live ago; a user who leaves a project
\* keeps its logs, and one who joins it waits for them, no longer than that,
\* even if calls with older answers overwrite the cache after newer ones.
AnswersAreRecent ==
    \A c \in Call :
        LET k == call[c].key
        IN  call[c].phase = "got" /\ call[c].value # source[k]
                => now <= changed[k] + MaxAge(k)

\* resolver.ts:180-188: that there are no builds yet is not cached, so the first build
\* of a project shows up at once.
FirstBuildIsSeen ==
    \A c \in Call :
        call[c].phase = "got" /\ call[c].key = "builds" /\ source["builds"] /\ ~call[c].value
            => now <= changed["builds"] + MaxDelay

\* What a scope in the cache may outlive its JWT by: the rest of the second
\* the resolver's clock was read in, and the way to Valkey.
CacheDiesWithJwt ==
    cache["scope"].until > 0 =>
        cache["scope"].until < Second * cache["scope"].exp + Second + MaxDelay

\* Valkey refuses SET with EX 0.
StoredWithTime == \A c \in Call : call[c].phase = "storing" => call[c].ttl > 0

\* resolver.ts:108-119: nothing that the cache gives outlives its time, neither
\* an answer its time to live nor a scope the JWT that it was found with, and
\* what is put into it has a time.
CacheIsShortLived == AnswersAreRecent /\ CacheDiesWithJwt /\ StoredWithTime
=============================================================================
