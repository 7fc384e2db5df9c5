---------------------------------- MODULE Jwks ----------------------------------
(***************************************************************************)
(* The signing keys of the token issuer (server/http/jwks.rs): what a key  *)
(* set document yields, and the cache of the last one fetched.             *)
(*                                                                         *)
(* A key is [kid, type, signer]: its name, its type and curve, and the     *)
(* private key it belongs to.  Signatures are ideal.                       *)
(***************************************************************************)
EXTENDS Integers, Sequences, FiniteSets

CONSTANTS
    RefreshInterval,  \* REFRESH_INTERVAL, in ticks of the clock
    MaxStale,         \* MAX_STALE
    FetchTimeout,     \* TOTAL_TIMEOUT
    MinTtl, MaxTtl, DefaultTtl

ASSUME JwksAssumption ==
    /\ RefreshInterval \in Nat \ {0} /\ MaxStale \in Nat /\ FetchTimeout \in Nat
    /\ MinTtl \in Nat \ {0} /\ MaxTtl \in Nat /\ DefaultTtl \in MinTtl..MaxTtl

Never == -1

RsaAlgorithms == {"RS256", "RS384", "RS512", "PS256", "PS384", "PS512"}
Algorithms == RsaAlgorithms \union {"ES256", "ES384", "EdDSA"}

\* VerifyingKey::accepts and verify.
Accepts(key, algorithm) ==
    \/ key.type = "RSA" /\ algorithm \in RsaAlgorithms
    \/ key.type = "P-256" /\ algorithm = "ES256"
    \/ key.type = "P-384" /\ algorithm = "ES384"
    \/ key.type = "Ed25519" /\ algorithm = "EdDSA"
Verifies(key, token) == Accepts(key, token.alg) /\ key.signer = token.signer

\* key_from_jwk: a member of a document that is a key to verify with.  A member is a key
\* with its `use` and whether its coordinates are all there and of the right length.
FromJwk(jwk) ==
    /\ jwk.use \in {"sig", "absent"}
    /\ jwk.type \in {"RSA", "P-256", "P-384", "Ed25519"}
    /\ jwk.complete

\* The name of a key, or the key a token asks for, when none is given.
NoName == "unnamed"

\* parse_key_set: the usable members with a name, the last of each name; a set without
\* any is an error.
ParseKeySet(document) ==
    LET usable == {i \in DOMAIN document : FromJwk(document[i]) /\ document[i].kid # NoName}
    IN  {[kid |-> document[i].kid, type |-> document[i].type, signer |-> document[i].signer] :
            i \in {i \in usable : \A j \in usable : document[j].kid = document[i].kid => j <= i}}

-----------------------------------------------------------------------------
(* Cache *)

EmptyCache == [keys |-> {}, fetchedAt |-> Never, ttl |-> DefaultTtl, lastAttempt |-> Never]

IsFresh(cache, now) == cache.fetchedAt # Never /\ now - cache.fetchedAt < cache.ttl
IsThrottled(cache, now) == cache.lastAttempt # Never /\ now - cache.lastAttempt < RefreshInterval
IsStale(cache, now) == cache.fetchedAt = Never \/ now - cache.fetchedAt >= MaxStale
Unusable(cache, now) == cache.keys = {} \/ IsStale(cache, now)

\* What a suspended call still reads of its snapshot.
Seen(cache) == [cache EXCEPT !.lastAttempt = Never, !.ttl = DefaultTtl]

Named(cache, kid) == {k \in cache.keys : k.kid = kid}

TtlUncapped(maxAge) ==
    LET asked == IF maxAge = Never THEN DefaultTtl ELSE maxAge
    IN  IF asked < MinTtl THEN MinTtl ELSE asked
\* max_age, held between the shortest and the longest lifetime; Never when there is none.
TtlOf(maxAge) ==
    LET asked == IF maxAge = Never THEN DefaultTtl ELSE maxAge
    IN  IF asked < MinTtl THEN MinTtl ELSE IF asked > MaxTtl THEN MaxTtl ELSE asked

\* What `key` makes of its snapshot: a key, no key, or "refresh".
FirstLook(cache, kid, now) ==
    IF IsFresh(cache, now) /\ Named(cache, kid) # {} THEN "found"
    ELSE IF IsFresh(cache, now) /\ IsThrottled(cache, now) THEN "unknown"
    ELSE "refresh"

\* What `refresh` finds once it holds the mutex: another call's fetch, a fetch too recent
\* to repeat, or leave to fetch.  `seen` is the time of the set the caller had looked at.
UnderMutex(cache, seen, now) ==
    IF cache.fetchedAt # seen /\ IsFresh(cache, now) THEN "done"
    ELSE IF IsThrottled(cache, now) THEN IF Unusable(cache, now) THEN "failed" ELSE "done"
    ELSE "fetch"

Attempted(cache, now) == [cache EXCEPT !.lastAttempt = now]
StoredAnew(cache, keys, maxAge, now) ==
    [cache EXCEPT !.keys = keys, !.ttl = TtlOf(maxAge), !.fetchedAt = now, !.lastAttempt = Never]
\* `now` is read when the last byte of the document has come.
Stored(cache, keys, maxAge, now) ==
    [cache EXCEPT !.keys = keys, !.ttl = TtlOf(maxAge), !.fetchedAt = now]
================================================================================
