--------------------------------- MODULE Tenants --------------------------------
(* What stands between a caller and the data of tenants, in one specification: *)
(* a behaviour is a behaviour of one part, chosen at the start, while the      *)
(* others rest.                                                                *)
EXTENDS Integers, Sequences, FiniteSets

CONSTANTS
    Callers, Nobody, NoRow, Idle, Ended, Never,
    requests, window_seconds, TicksPerSecond, MaxTicks,                \* RateLimit
    KeyHashes, ttl, max_entries, MaxAuthTime,                          \* ApiKeys
    Metered, NO_TENANT_SENTINEL, _TENANT_SCOPED_METRICS,               \* Metering
    _SYSTEM_METRICS, Writers, Quantities, TicksPerDay, Days, MaxEvents,
    Tenants, Users, ApiKeys, Events, Existing, Projected, Duplicates, Names, \* Tenancy
    RunIds, ClaimIds, ReportIds, Batches, Narratives, Texts, InitialMember, Changes, Closing,
    Workloads, MAX_CLAIMS_PER_BATCH, MIN_NARRATIVE_WORDS, _TENANT_EVENT_LIST_MAX_LIMIT, MaxTime

VARIABLES
    part,                                                              \* who is at work
    rateNow, hits, lastSweep, passed, retryAt,                         \* RateLimit
    authNow, revokedAt, cache, auth, cleared,                          \* ApiKeys
    meterNow, events, writer, rollup, job,                             \* Metering
    member, is_active, source, run, claim, report, association,        \* Tenancy
    overlay, usage, routes, clock, request, projected, absorbed, listing

rateVars    == <<rateNow, hits, lastSweep, passed, retryAt>>
keyVars     == <<authNow, revokedAt, cache, auth, cleared>>
meterVars   == <<meterNow, events, writer, rollup, job>>
tenancyVars == <<member, is_active, source, run, claim, report, association, overlay, usage,
                 routes, clock, request, projected, absorbed, listing>>
vars        == <<part, rateVars, keyVars, meterVars, tenancyVars>>

Limiter == INSTANCE RateLimit WITH Clients <- Callers, MaxTime <- MaxTicks, now <- rateNow

Auth == INSTANCE ApiKeys WITH
    Keys <- KeyHashes, Requests <- Callers, MaxTime <- MaxAuthTime, now <- authNow, request <- auth

Meters == INSTANCE Metering WITH
    Tenants <- Metered, Jobs <- Callers, now <- meterNow, usage <- events

Evidence == INSTANCE Tenancy WITH Slots <- Callers

(* The middleware is there only when it has something to limit. *)
ASSUME LimiterAssumption ==
    /\ requests \in Nat \ {0}
    /\ window_seconds \in Nat \ {0}
    /\ TicksPerSecond \in Nat \ {0}

ASSUME AuthAssumption ==
    /\ ttl \in Nat
    /\ max_entries \in Nat \ {0}
    /\ Never \notin Nat

(* The days are consecutive, each has a tick, no tenant is the sentinel, a     *)
(* metric is visited once a day, and a marker is no row.                       *)
ASSUME MetersAssumption ==
    /\ IsFiniteSet(Days) /\ Days # {} /\ Days \subseteq Int /\ \A d, e \in Days : d..e \subseteq Days
    /\ TicksPerDay \in Nat \ {0} /\ Quantities \subseteq Nat
    /\ IsFiniteSet(Metered) /\ NO_TENANT_SENTINEL \notin Metered
    /\ \A metrics \in {_TENANT_SCOPED_METRICS, _SYSTEM_METRICS} : metrics \in Seq(Meters!ToSet(metrics))
    /\ \A i, j \in DOMAIN _TENANT_SCOPED_METRICS :
          _TENANT_SCOPED_METRICS[i] = _TENANT_SCOPED_METRICS[j] => i = j
    /\ NoRow \notin [count : Nat, final : BOOLEAN]
    /\ NoRow \notin [cell : Meters!Cells, count : Nat, final : BOOLEAN]

(* Rows are finitely many, a marker is not a row, a metric or (updated_at, id) *)
(* of an overlay, keys are of known users, and what has a projection or a row  *)
(* is an event.  A page of overlays is not empty.                              *)
ASSUME EvidenceAssumption ==
    /\ IsFiniteSet(RunIds) /\ IsFiniteSet(ClaimIds) /\ IsFiniteSet(ReportIds)
    /\ \A batch \in Batches : IsFiniteSet(batch)
    /\ \A key \in ApiKeys : key.user \in Users
    /\ NoRow \notin Evidence!MetricKind
    /\ NoRow \notin Evidence!Runs
    /\ NoRow \notin Int \X Events
    /\ IsFiniteSet(Events) /\ Events \subseteq Int /\ NoRow \notin Events
    /\ Existing \subseteq Events /\ Projected \subseteq Existing
    /\ MaxTime \in Nat /\ _TENANT_EVENT_LIST_MAX_LIMIT \in Nat \ {0}

Init ==
    /\ part \in {"rate", "keys", "meters", "tenancy"}
    /\ Limiter!Init
    /\ Auth!Init
    /\ Meters!Init
    /\ Evidence!Init
    /\ part # "tenancy" => routes = CHOOSE w \in Workloads : TRUE

Next ==
    /\ part' = part
    /\ \/ part = "rate" /\ Limiter!Next /\ UNCHANGED <<keyVars, meterVars, tenancyVars>>
       \/ part = "keys" /\ Auth!Next /\ UNCHANGED <<rateVars, meterVars, tenancyVars>>
       \/ part = "meters" /\ Meters!Next /\ UNCHANGED <<rateVars, keyVars, tenancyVars>>
       \/ part = "tenancy" /\ Evidence!Next /\ UNCHANGED <<rateVars, keyVars, meterVars>>

Spec == Init /\ [][Next]_vars
--------------------------------------------------------------------------------
(* RateLimit: the limiter lets no client through too often, nor keeps one out  *)
(* longer than it said.                                                        *)
RateFair == part = "rate" => Limiter!RateFair

(* ApiKeys: a revoked key is refused from ttl after its revocation on. *)
RevocationBounded == part = "keys" => Auth!RevocationBounded

(* ApiKeys: a revoked key is refused once the cache was cleared. *)
ClearingInvalidates == part = "keys" => Auth!ClearingInvalidates

(* Metering: the rollups can be billed from. *)
RollupSound == part = "meters" => Meters!RollupSound

(* Tenancy: the rows of a tenant were written by its owners and members. *)
TenantIsolation == part = "tenancy" => Evidence!TenantIsolation

(* Tenancy: what is stored is metered, once. *)
MeteredExactly == part = "tenancy" => Evidence!MeteredExactly

(* Tenancy: a tenant is shown everything it stored. *)
EvidenceShown == part = "tenancy" => Evidence!EvidenceShown

(* Tenancy: a listing is exact, whatever is written meanwhile. *)
ListingExact == part = "tenancy" => Evidence!ListingExact

(* Tenancy: an overlay that is listed can be opened. *)
OverlayOpens == part = "tenancy" => Evidence!OverlayOpens

(* Tenancy: a closed run and its claims do not change. *)
ClosedRunFrozen == Evidence!ClosedRunFrozen
================================================================================
