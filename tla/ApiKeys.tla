-------------------------------- MODULE ApiKeys --------------------------------
(* Authentication of API requests in one process: the api_keys table, which    *)
(* operators change, and the cache of valid keys in front of it.  Requests are *)
(* coroutines: others run where one awaits its query.                          *)
EXTENDS Integers, Sequences, SequencesExt, FiniteSets

CONSTANTS
    Keys,          \* hashes of API keys
    Requests,      \* requests being authenticated
    ttl,           \* api_key_cache_ttl_seconds
    max_entries,   \* api_key_cache_max_entries
    MaxTime,       \* bound on the clock
    Never,         \* not revoked
    Idle           \* no request in this slot

VARIABLES
    now,           \* the clock
    revokedAt,     \* [Keys -> Nat \cup {Never}]: when is_active became false
    cache,         \* _AUTH_CACHE, least recently used first: Seq([key, expires])
    request,       \* [Requests -> [key, began, stage, found, afterClear] \cup {Idle}]
    cleared        \* keys that were revoked when the cache was last cleared

vars == <<now, revokedAt, cache, request, cleared>>

Init ==
    /\ now = 0
    /\ revokedAt = [k \in Keys |-> Never]
    /\ cache = <<>>
    /\ request = [r \in Requests |-> Idle]
    /\ cleared = {}

IsActive(k) == revokedAt[k] = Never

Tick ==
    /\ now < MaxTime
    /\ now' = now + 1
    /\ UNCHANGED <<revokedAt, cache, request, cleared>>

(* UPDATE api_keys SET is_active = false, by an operator. *)
RevokeKey(k) ==
    /\ IsActive(k)
    /\ revokedAt' = [revokedAt EXCEPT ![k] = now]
    /\ UNCHANGED <<now, cache, request, cleared>>

clear_auth_cache ==
    /\ cache' = <<>>
    /\ cleared' = {k \in Keys : ~ IsActive(k)}
    /\ UNCHANGED <<now, revokedAt, request>>
--------------------------------------------------------------------------------
(* The entry of a key, if it has one. *)
Position(k) == {i \in DOMAIN cache : cache[i].key = k}
Entry(k)    == {cache[i] : i \in Position(k)}
Without(k)  == IF Position(k) = {} THEN cache ELSE RemoveAt(cache, CHOOSE i \in Position(k) : TRUE)

(* Mutant of _get_cached_api_key: using an entry renews it. *)
RenewedByUse(k) ==
    IF \E e \in Entry(k) : e.expires > now
    THEN [hit |-> TRUE, cache |-> Append(Without(k), [key |-> k, expires |-> now + ttl])]
    ELSE [hit |-> FALSE, cache |-> Without(k)]

(* An expired entry is dropped, a valid one becomes the most recently used. *)
_get_cached_api_key(k) ==
    LET valid == {e \in Entry(k) : e.expires > now}
    IN [hit   |-> valid # {},
        cache |-> IF valid = {} THEN Without(k)
                  ELSE Append(Without(k), CHOOSE e \in valid : TRUE)]

(* The entry lives for ttl from when the request began; the oldest give way. *)
_cache_api_key(k, began) ==
    LET longer == Append(Without(k), [key |-> k, expires |-> began + ttl])
    IN IF ttl <= 0 THEN cache
       ELSE IF Len(longer) > max_entries THEN Tail(longer) ELSE longer

(* _resolve_api_key up to its query. *)
Resolve(r, k) ==
    LET cached == _get_cached_api_key(k)
    IN /\ request[r] = Idle
       /\ cache' = cached.cache
       /\ request' = [request EXCEPT ![r] =
             [key |-> k, began |-> now, found |-> cached.hit, afterClear |-> k \in cleared,
              stage |-> IF cached.hit THEN "granted" ELSE "query"]]
       /\ UNCHANGED <<now, revokedAt, cleared>>

(* SELECT ... WHERE key_hash = :key_hash AND is_active *)
SelectKey(r) ==
    /\ request[r] # Idle /\ request[r].stage = "query"
    /\ request' = [request EXCEPT ![r].stage = "answered", ![r].found = IsActive(request[r].key)]
    /\ UNCHANGED <<now, revokedAt, cache, cleared>>

(* The coroutine goes on: the row is cached and the request granted ... *)
Grant(r) ==
    /\ request[r] # Idle /\ request[r].stage = "answered" /\ request[r].found
    /\ cache' = _cache_api_key(request[r].key, request[r].began)
    /\ request' = [request EXCEPT ![r].stage = "granted"]
    /\ UNCHANGED <<now, revokedAt, cleared>>

(* ... or there is no row: 403, and nothing is cached for the key. *)
Deny(r) ==
    /\ request[r] # Idle /\ request[r].stage = "answered" /\ ~ request[r].found
    /\ cache' = Without(request[r].key)
    /\ request' = [request EXCEPT ![r] = Idle]
    /\ UNCHANGED <<now, revokedAt, cleared>>

Finish(r) ==
    /\ request[r] # Idle /\ request[r].stage = "granted"
    /\ request' = [request EXCEPT ![r] = Idle]
    /\ UNCHANGED <<now, revokedAt, cache, cleared>>

Next ==
    \/ Tick
    \/ clear_auth_cache
    \/ \E k \in Keys : RevokeKey(k)
    \/ \E r \in Requests :
          \/ \E k \in Keys : Resolve(r, k)
          \/ SelectKey(r)
          \/ Grant(r)
          \/ Deny(r)
          \/ Finish(r)

Spec == Init /\ [][Next]_vars
--------------------------------------------------------------------------------
(* Type invariant. *)
TypeOK ==
    /\ now \in 0..MaxTime
    /\ revokedAt \in [Keys -> 0..MaxTime \cup {Never}]
    /\ \A i \in DOMAIN cache : cache[i].key \in Keys

Granted == {r \in Requests : request[r] # Idle /\ request[r].stage = "granted"}

(* The TTL bounds staleness (clear_auth_cache's comment, and the cache is      *)
(* bounded): a request that begins after its key was revoked, and not within   *)
(* ttl of it, is refused, however queries were delayed, entries evicted and    *)
(* used again; the cache holds at most max_entries, one per key.               *)
RevocationBounded ==
    /\ \A r \in Granted : ~ IsActive(request[r].key) =>
          \/ request[r].began <= revokedAt[request[r].key]
          \/ request[r].began < revokedAt[request[r].key] + ttl
    /\ Len(cache) <= max_entries
    /\ Cardinality({cache[i].key : i \in DOMAIN cache}) = Len(cache)

(* "Explicit clearing gives admins a zero-wait invalidation path": a request   *)
(* that begins after its key was revoked and the cache cleared is refused.     *)
ClearingInvalidates == \A r \in Granted : ~ request[r].afterClear
================================================================================
