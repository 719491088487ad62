--------------------------------- MODULE Tenancy --------------------------------
(* Tenancy: the private evidence of tenants and the requests that write it.    *)
(* A request is one transaction on a connection bound to the tenant of the     *)
(* path.  It is admitted (key, tenant, live membership), runs its use case up  *)
(* to the commit (the rows it read may change meanwhile), and commits its rows *)
(* together with the usage events that meter them.                             *)
EXTENDS Integers, Sequences, SequencesExt, FiniteSets, FiniteSetsExt

CONSTANTS
    Tenants, Users,
    ApiKeys,           \* set of [user, tenant]; tenant is Nobody for a plain key
    Slots,             \* requests in flight
    Events,            \* numbers, also of their overlays; Existing have a row
    Existing,
    Projected,         \* events that have a projection at first
    Duplicates,        \* events that a merge may absorb
    Names,             \* names of tenant sources
    RunIds, ClaimIds, ReportIds,   \* numbers
    Batches,           \* batches of claims: sets of [event, kind]
    Narratives,        \* of reports: [plain, marks], see run_deidentification
    Texts,             \* what overlays say
    InitialMember,     \* [Users \X Tenants -> TenantRole \cup {Nobody}]
    Changes, Closing,  \* <<user, tenant, role>> and tenants: what administrators change
    Workloads,         \* sets of <<route, tenant>>: the calls that are made; no tenant merges or projects
    MAX_CLAIMS_PER_BATCH, MIN_NARRATIVE_WORDS, _TENANT_EVENT_LIST_MAX_LIMIT,
    MaxTime,           \* bound on the clock
    Nobody, NoRow, Idle

VARIABLES
    member,            \* tenant_memberships
    is_active,         \* tenants.is_active
    source,            \* set of [tenant, name, by]: tenant_sources
    run,               \* [RunIds -> [tenant, source, status, by] or NoRow]
    claim,             \* set of [id, tenant, run, event, kind, by]
    report,            \* set of [id, tenant, text, by]: tenant_safety_reports
    association,       \* set of [tenant, event, report]
    overlay,           \* [Tenants \X Events -> [text, at, by] or NoRow]
    usage,             \* [Tenants \X MetricKind -> number of usage_events]
    routes,            \* the routes that are called, and for which tenants
    clock,             \* utc_now(), read by the requests that write an overlay
    request,           \* [Slots -> [user, tenant, role, granted, writes] or Idle]
    projected,         \* events with a row in projections
    absorbed,          \* events with merged_into_event_id
    listing            \* the pages a reader has been given, see NewListing, or Idle

tables == <<source, run, claim, report, association, overlay, usage>>
public == <<projected, absorbed>>
vars   == <<member, is_active, tables, routes, clock, request, public, listing>>

TenantRole == {"OWNER", "MEMBER", "READ_ONLY"}
MetricKind == {"TENANT_CLAIM_INGESTED", "TENANT_REPORT_FILED", "TENANT_INGESTION_RUN_COMPLETED"}
TenantClaimKind == {"FOQA", "ASAP", "OTHER"}
TenantIngestionRunStatus == {"RUNNING", "SUCCEEDED", "FAILED"}
_coerce_final_status(status) == status \in {"SUCCEEDED", "FAILED"}

Authors    == [user : Users, tenant : Tenants, role : TenantRole]
Sources    == [tenant : Tenants, name : Names, by : Authors]
Runs       == [tenant : Tenants, source : Names, status : TenantIngestionRunStatus, by : Authors]
Claims     == [id : ClaimIds, tenant : Tenants, run : RunIds, event : Existing, kind : TenantClaimKind,
               by : Authors]
Overlays   == [text : Texts, at : 1..MaxTime, by : Authors]
Associated == [tenant : Tenants, event : Existing, report : ReportIds]
Reports    == [id : ReportIds, tenant : Tenants, by : Authors,
               text : [plain : Nat, marks : {<<>>}]]     \* identifying marks are never stored

Init ==
    /\ member = InitialMember
    /\ is_active = [t \in Tenants |-> TRUE]
    /\ source = {}
    /\ run = [r \in RunIds |-> NoRow]
    /\ claim = {}
    /\ report = {}
    /\ association = {}
    /\ overlay = [k \in Tenants \X Events |-> NoRow]
    /\ usage = [k \in Tenants \X MetricKind |-> 0]
    /\ routes \in Workloads
    /\ clock = 0
    /\ request = [c \in Slots |-> Idle]
    /\ projected = Projected
    /\ absorbed = {}
    /\ listing = Idle

(* Memberships and tenants are managed outside this API. *)
ChangeMembership(u, t, role) ==
    /\ member[<<u, t>>] # role
    /\ member' = [member EXCEPT ![<<u, t>>] = role]
    /\ UNCHANGED <<is_active, tables, routes, clock, request, public, listing>>

DeactivateTenant(t) ==
    /\ is_active[t]
    /\ is_active' = [is_active EXCEPT ![t] = FALSE]
    /\ UNCHANGED <<member, tables, routes, clock, request, public, listing>>

(* The absorbed event loses its projection; its row and what tenants hold      *)
(* about it stay where they are.                                               *)
MergeDuplicateEvents(e) ==
    /\ <<"merge", Nobody>> \in routes
    /\ e \in Existing \ absorbed
    /\ Existing \ absorbed # {e}
    /\ absorbed' = absorbed \cup {e}
    /\ projected' = projected \ {e}
    /\ UNCHANGED <<member, is_active, tables, routes, clock, request, listing>>

(* The first projection of an event, or the tombstone of an absorbed one. *)
ReProjectEvent(e) ==
    /\ <<"reproject", Nobody>> \in routes
    /\ e \in Existing \ projected
    /\ projected' = projected \cup {e}
    /\ UNCHANGED <<member, is_active, tables, routes, clock, request, absorbed, listing>>
--------------------------------------------------------------------------------
(* get_current_tenant_user: a key that is bound to no tenant is refused. *)
get_current_tenant_user(key) == key.tenant # Nobody

(* Mutant of get_for_user_in_tenant: a membership of the user in any tenant. *)
MembershipAnywhere(u, t) ==
    LET roles == {member[<<u, s>>] : s \in Tenants} \ {Nobody}
    IN IF member[<<u, t>>] # "READ_ONLY" \/ roles = {"READ_ONLY"} THEN member[<<u, t>>]
       ELSE CHOOSE r \in roles : r # "READ_ONLY"

get_for_user_in_tenant(u, t) == member[<<u, t>>]

Admitted(key, t) ==
    /\ get_current_tenant_user(key)
    /\ key.tenant = t
    /\ is_active[t]
    /\ get_for_user_in_tenant(key.user, t) # Nobody

(* get_tenant_uow binds the connection to the tenant of the path, then         *)
(* require_tenant_membership lets the caller in with its live role.            *)
require_tenant_membership(c, key, t) ==
    /\ request[c] = Idle
    /\ \E call \in routes : call[2] = t
    /\ Admitted(key, t)
    /\ request' = [request EXCEPT ![c] =
          [user |-> key.user, tenant |-> t, role |-> get_for_user_in_tenant(key.user, t),
           granted |-> member[<<key.user, t>>], writes |-> NoRow]]
    /\ UNCHANGED <<member, is_active, tables, routes, clock, public, listing>>

(* app.current_tenant_id of the connection: set again in every transaction. *)
current_setting(c) == request[c].tenant

(* The policy tenant_isolation: a connection sees its tenant's rows only. *)
tenant_isolation(c, rows) == {r \in rows : r.tenant = current_setting(c)}

_require_write_role(role) == role \in {"OWNER", "MEMBER"}

Writing(c) == request[c] # Idle /\ request[c].writes = NoRow /\ _require_write_role(request[c].role)

(* Who a row is owed to: the user, and its role when the request was admitted. *)
Author(c) == [user |-> request[c].user, tenant |-> request[c].tenant, role |-> request[c].granted]

(* What a request has flushed and not committed. *)
NoWrites == [source |-> {}, run |-> NoRow, claim |-> {}, report |-> {}, association |-> {},
             overlay |-> NoRow, metric |-> NoRow, quantity |-> 0]

Flush(c, writes) ==
    /\ request' = [request EXCEPT ![c].writes = writes]
    /\ clock' = IF writes.overlay = NoRow THEN clock ELSE writes.overlay[2].at
    /\ UNCHANGED <<member, is_active, tables, routes, public, listing>>

Flushed == {c \in Slots : request[c] # Idle /\ request[c].writes # NoRow}

Pending(field) == UNION {request[c].writes[field] : c \in Flushed}
--------------------------------------------------------------------------------
(* A second source of the name fails, and waits while the first is not committed. *)
uq_tenant_sources_tenant_name(t, name) ==
    \A s \in source \cup Pending("source") : s.tenant = t => s.name # name

RegisterTenantSource(c, name) ==
    /\ Writing(c)
    /\ uq_tenant_sources_tenant_name(request[c].tenant, name)
    /\ Flush(c, [NoWrites EXCEPT !.source =
          {[tenant |-> request[c].tenant, name |-> name, by |-> Author(c)]}])

(* The source is looked up among the tenant's. *)
OpenTenantIngestionRun(c, r, name) ==
    /\ Writing(c)
    /\ run[r] = NoRow
    /\ \A d \in Flushed : request[d].writes.run # NoRow => request[d].writes.run[1] # r
    /\ \E s \in tenant_isolation(c, source) : s.name = name
    /\ Flush(c, [NoWrites EXCEPT !.run =
          <<r, [tenant |-> request[c].tenant, source |-> name, status |-> "RUNNING", by |-> Author(c)]>>])

(* tenant_ingestion_runs.get: the run, if it is the tenant's. *)
OwnRun(c, r) == run[r] # NoRow /\ run[r].tenant = request[c].tenant

(* uuid4: n ids that no row has, the lowest. *)
NewIds(ids, rows, n) ==
    LET free == ids \ {row.id : row \in rows}
    IN {i \in free : Cardinality({j \in free : j <= i}) <= n}

NewClaimIds(n)  == NewIds(ClaimIds, claim \cup Pending("claim"), n)
NewReportIds(n) == NewIds(ReportIds, report \cup Pending("report"), n)

(* Mutant of Meter: a batch is metered as one event. *)
MeterOnce(writes, kind, quantity) == [writes EXCEPT !.metric = kind, !.quantity = 1]

(* MeteringService.record in the transaction of the action. *)
Meter(writes, kind, quantity) == [writes EXCEPT !.metric = kind, !.quantity = quantity]

(* The claims of a batch carry the tenant of the request and the run's id. *)
add_many(c, r, batch) ==
    LET ids  == SetToSeq(NewClaimIds(Cardinality(batch)))
        rows == SetToSeq(batch)
    IN {[id |-> ids[i], tenant |-> request[c].tenant, run |-> r, event |-> rows[i].event,
         kind |-> rows[i].kind, by |-> Author(c)] : i \in DOMAIN rows}

find_existing_ids(events) == events \cap Existing

(* The run is RUNNING when it is read; an empty batch ends there.  All events  *)
(* of the batch exist, or none of it is stored.                                *)
SubmitTenantClaimsBatch(c, r, batch) ==
    LET n      == Cardinality(batch)
        events == {b.event : b \in batch}
    IN /\ Writing(c)
       /\ n \in 1..MAX_CLAIMS_PER_BATCH
       /\ OwnRun(c, r) /\ run[r].status = "RUNNING"
       /\ find_existing_ids(events) = events
       /\ Cardinality(NewClaimIds(n)) = n
       /\ Flush(c, Meter([NoWrites EXCEPT !.claim = add_many(c, r, batch)],
                         "TENANT_CLAIM_INGESTED", n))

(* UPDATE ... WHERE id = :id AND tenant_id = :tenant_id: the status that was    *)
(* read is not compared.                                                        *)
update_status(r, status) == <<r, [run[r] EXCEPT !.status = status]>>

CompleteTenantIngestionRun(c, r, final_status) ==
    /\ Writing(c)
    /\ OwnRun(c, r) /\ run[r].status = "RUNNING"
    /\ Flush(c, Meter([NoWrites EXCEPT !.run = update_status(r, final_status)],
                      "TENANT_INGESTION_RUN_COMPLETED", 1))

(* A narrative is a number of plain words and of identifying marks, by kind,   *)
(* of one or more words; each mark is replaced by one word.                    *)
run_deidentification(n) == [plain |-> n.plain + Len(n.marks), marks |-> <<>>]

assert_acceptable_narrative(n) == run_deidentification(n).plain >= MIN_NARRATIVE_WORDS

(* A report, with its association when it names an event that is projected. *)
SubmitTenantSafetyReport(c, narrative, attested, event) ==
    LET t == request[c].tenant
    IN /\ Writing(c)
       /\ attested
       /\ assert_acceptable_narrative(narrative)
       /\ event \in projected \cup {NoRow}
       /\ \E id \in NewReportIds(1) :
             Flush(c, Meter([NoWrites EXCEPT
                   !.report = {[id |-> id, tenant |-> t, text |-> run_deidentification(narrative),
                                by |-> Author(c)]},
                   !.association = IF event = NoRow THEN {}
                                   ELSE {[tenant |-> t, event |-> event, report |-> id]}],
                "TENANT_REPORT_FILED", 1))

(* INSERT ... ON CONFLICT DO UPDATE: the last to write wins. *)
upsert(c, event, text, now) ==
    <<<<request[c].tenant, event>>, [text |-> text, at |-> now, by |-> Author(c)]>>

(* Two requests may read the same time. *)
UpsertTenantEventOverlay(c, event, text) ==
    /\ Writing(c)
    /\ event \in projected
    /\ \E now \in {clock, clock + 1} :
          /\ now \in 1..MaxTime
          /\ Flush(c, [NoWrites EXCEPT !.overlay = upsert(c, event, text, now)])

(* The overlays a reader was shown, or will be, are no longer what they were. *)
Untouched(key) ==
    IF listing # Idle /\ key[1] = listing.tenant
    THEN [listing EXCEPT !.kept = @ \ {key[2]}]
    ELSE listing

Commit(c) ==
    LET w == request[c].writes
        t == request[c].tenant
    IN /\ request[c] # Idle /\ w # NoRow
       /\ source' = source \cup w.source
       /\ run' = IF w.run = NoRow THEN run ELSE [run EXCEPT ![w.run[1]] = w.run[2]]
       /\ claim' = claim \cup w.claim
       /\ report' = report \cup w.report
       /\ association' = association \cup w.association
       /\ overlay' = IF w.overlay = NoRow THEN overlay
                     ELSE [overlay EXCEPT ![w.overlay[1]] = w.overlay[2]]
       /\ usage' = IF w.metric = NoRow THEN usage
                   ELSE [usage EXCEPT ![<<t, w.metric>>] = @ + w.quantity]
       /\ request' = [request EXCEPT ![c] = Idle]
       /\ listing' = IF w.overlay = NoRow THEN listing ELSE Untouched(w.overlay[1])
       /\ UNCHANGED <<member, is_active, routes, clock, public>>

(* A refusal, an error or a lost connection: nothing of the request is stored. *)
RollBack(c) ==
    /\ request[c] # Idle
    /\ request' = [request EXCEPT ![c] = Idle]
    /\ UNCHANGED <<member, is_active, tables, routes, clock, public, listing>>

(* The routes check what the use cases take for granted. *)
register_source(c, name) == RegisterTenantSource(c, name)
upsert_event_overlay(c, event, text) == UpsertTenantEventOverlay(c, event, text)
open_ingestion_run(c, r, name) == OpenTenantIngestionRun(c, r, name)

submit_claims_batch(c, r, batch) ==
    {b.kind : b \in batch} \subseteq TenantClaimKind /\ SubmitTenantClaimsBatch(c, r, batch)

complete_ingestion_run(c, r, status) ==
    _coerce_final_status(status) /\ CompleteTenantIngestionRun(c, r, status)

submit_safety_report(c, narrative, attested, event) ==
    SubmitTenantSafetyReport(c, narrative, attested, event)

Called(c, route) == <<route, request[c].tenant>> \in routes

Handle(c) ==
    \/ Called(c, "register_source") /\ \E name \in Names : register_source(c, name)
    \/ \E r \in RunIds :
          \/ Called(c, "open_ingestion_run") /\ \E name \in Names : open_ingestion_run(c, r, name)
          \/ Called(c, "submit_claims_batch") /\ \E batch \in Batches : submit_claims_batch(c, r, batch)
          \/ /\ Called(c, "complete_ingestion_run")
             /\ \E status \in TenantIngestionRunStatus : complete_ingestion_run(c, r, status)
    \/ /\ Called(c, "submit_safety_report")
       /\ \E n \in Narratives, attested \in BOOLEAN, e \in Events \cup {NoRow} :
             submit_safety_report(c, n, attested, e)
    \/ /\ Called(c, "upsert_event_overlay")
       /\ \E e \in Events, text \in Texts : upsert_event_overlay(c, e, text)

--------------------------------------------------------------------------------
(* The pages of a tenant's overlays *)

(* (updated_at, id) of an overlay *)
Key(t, e) == <<overlay[<<t, e>>].at, e>>

(* Mutant of Newer: overlays of the same time are not told apart. *)
NewerByTime(k, l) == k[1] > l[1]

Newer(k, l) == k[1] > l[1] \/ (k[1] = l[1] /\ k[2] > l[2])

(* The events of the tenant's overlays *)
Written(t) == {e \in Events : overlay[<<t, e>>] # NoRow}

(* The overlays after a key, or all, the newest first. *)
OverlaysAfter(t, after) ==
    LET rows == {e \in Written(t) : after # NoRow => Newer(after, Key(t, e))}
    IN CHOOSE order \in SetToSeqs(rows) :
          \A i, j \in DOMAIN order : i < j => ~ Newer(Key(t, order[j]), Key(t, order[i]))

(* The cursor is the id of the last overlay of the page, when there are more. *)
list_for_tenant(t, limit, after) ==
    LET order == OverlaysAfter(t, after)
    IN [items |-> SubSeq(order, 1, IF Len(order) > limit THEN limit ELSE Len(order)),
        next  |-> IF Len(order) > limit THEN order[limit] ELSE NoRow]

ListTenantEvents(t, limit, after) ==
    list_for_tenant(t, Max({1, Min({limit, _TENANT_EVENT_LIST_MAX_LIMIT})}), after)

(* What a reader has been given: the events shown, and shown again; the cursor *)
(* and the time of its row, when the page was read or as looked up; whether a   *)
(* lookup found the row newer or older than the page had it.  kept: overlays    *)
(* that were there from the first page on and have not been written since.      *)
NewListing(t) ==
    [tenant |-> t, shown |-> {}, twice |-> {}, next |-> NoRow, at |-> NoRow, resolved |-> FALSE,
     ahead |-> FALSE, behind |-> FALSE, kept |-> Written(t)]

Shown(l, page) ==
    [l EXCEPT !.shown = @ \cup ToSet(page.items),
              !.twice = @ \cup (l.shown \cap ToSet(page.items)),
              !.next = page.next,
              !.at = IF page.next = NoRow THEN NoRow ELSE overlay[<<l.tenant, page.next>>].at,
              !.resolved = FALSE]

(* A request without a cursor.  Reading disturbs nobody: one listing is        *)
(* followed.                                                                   *)
list_events(key, t, limit) ==
    /\ <<"list_events", t>> \in routes
    /\ listing = Idle
    /\ Admitted(key, t)
    /\ listing' = Shown(NewListing(t), ListTenantEvents(t, limit, NoRow))
    /\ UNCHANGED <<member, is_active, tables, routes, clock, request, public>>

(* A request with the cursor: the row's time is looked up as it is now, ...     *)
resolve_cursor(key) ==
    /\ listing # Idle /\ listing.next # NoRow
    /\ Admitted(key, listing.tenant)
    /\ LET now == overlay[<<listing.tenant, listing.next>>].at
       IN listing' = [listing EXCEPT !.at = now, !.resolved = TRUE,
                                     !.ahead = @ \/ now > listing.at,
                                     !.behind = @ \/ now < listing.at]
    /\ UNCHANGED <<member, is_active, tables, routes, clock, request, public>>

(* ... and a second statement reads the page after it. *)
next_page(limit) ==
    /\ listing # Idle /\ listing.resolved
    /\ listing' = Shown(listing, ListTenantEvents(listing.tenant, limit, <<listing.at, listing.next>>))
    /\ UNCHANGED <<member, is_active, tables, routes, clock, request, public>>

Read ==
    \E limit \in 0..(_TENANT_EVENT_LIST_MAX_LIMIT + 1) :
        \/ \E key \in ApiKeys :
              \/ \E t \in Tenants : list_events(key, t, limit)
              \/ resolve_cursor(key)
        \/ next_page(limit)
--------------------------------------------------------------------------------
Next ==
    \/ \E x \in Changes : ChangeMembership(x[1], x[2], x[3])
    \/ \E t \in Closing : DeactivateTenant(t)
    \/ \E e \in Duplicates : MergeDuplicateEvents(e)
    \/ \E e \in Existing : ReProjectEvent(e)
    \/ \E c \in Slots :
          \/ \E key \in ApiKeys, t \in Tenants : require_tenant_membership(c, key, t)
          \/ request[c] # Idle /\ Handle(c)
          \/ Commit(c)
          \/ RollBack(c)
    \/ Read

Spec == Init /\ [][Next]_vars
--------------------------------------------------------------------------------
(* What the tenant's readers are shown *)

GetTenantEventOverlay(t, event) == IF event \in projected THEN overlay[<<t, event>>] ELSE NoRow

list_for_event_by_kind(t, event, kind) ==
    {r \in claim : r.tenant = t /\ r.event = event /\ r.kind = kind}

ListTenantEvidenceForEvent(t, event) ==
    LET associations == {a \in association : a.tenant = t /\ a.event = event}
    IN [foqa    |-> list_for_event_by_kind(t, event, "FOQA"),
        asap    |-> list_for_event_by_kind(t, event, "ASAP"),
        other   |-> list_for_event_by_kind(t, event, "OTHER"),
        reports |-> {r \in report : r.tenant = t /\ \E a \in associations : a.report = r.id},
        associations |-> associations]

(* The routes: the gate, and then the answer. *)
get_event_overlay(key, t, event) == IF Admitted(key, t) THEN GetTenantEventOverlay(t, event) ELSE NoRow

get_tenant_evidence_for_event(key, t, event) ==
    IF Admitted(key, t)
    THEN LET v == ListTenantEvidenceForEvent(t, event) IN v.foqa \cup v.asap \cup v.other \cup v.reports
    ELSE {}

(* Type invariant. *)
TypeOK ==
    /\ member \in [Users \X Tenants -> TenantRole \cup {Nobody}]
    /\ source \subseteq Sources /\ claim \subseteq Claims
    /\ \A r \in RunIds : run[r] # NoRow => run[r] \in Runs
    /\ \A r \in report : r \in Reports
    /\ association \subseteq Associated
    /\ \A k \in DOMAIN overlay : overlay[k] # NoRow => overlay[k] \in Overlays
    /\ usage \in [Tenants \X MetricKind -> Nat]

Owned(row) == row.by.tenant = row.tenant /\ row.by.role \in {"OWNER", "MEMBER"}

(* Tenant isolation, the promise of require_tenant_membership and of the       *)
(* policy: every row of a tenant was written by a user who, when the request   *)
(* was admitted, was OWNER or MEMBER of that very tenant, whatever memberships *)
(* the user has elsewhere or had before; and what a row refers to (run of a    *)
(* claim, source of a run, report of an association) is the same tenant's.     *)
TenantIsolation ==
    /\ \A row \in source \cup claim \cup report : Owned(row)
    /\ \A r \in RunIds : run[r] # NoRow =>
          /\ Owned(run[r])
          /\ \E s \in source : s.tenant = run[r].tenant /\ s.name = run[r].source
    /\ \A k \in DOMAIN overlay : overlay[k] # NoRow =>
          overlay[k].by.tenant = k[1] /\ overlay[k].by.role \in {"OWNER", "MEMBER"}
    /\ \A row \in claim : run[row.run] # NoRow /\ run[row.run].tenant = row.tenant
    /\ \A a \in association : \E r \in report : r.id = a.report /\ r.tenant = a.tenant

(* "A metered action and its meter land in the same UoW" (services/metering):  *)
(* claims and reports are metered one for one, and every completed run at      *)
(* least once, whichever requests failed or raced.                             *)
MeteredExactly ==
    \A t \in Tenants :
        /\ usage[<<t, "TENANT_CLAIM_INGESTED">>] = Cardinality({r \in claim : r.tenant = t})
        /\ usage[<<t, "TENANT_REPORT_FILED">>] = Cardinality({r \in report : r.tenant = t})
        /\ usage[<<t, "TENANT_INGESTION_RUN_COMPLETED">>] >=
              Cardinality({r \in RunIds : run[r] # NoRow /\ run[r].tenant = t
                                          /\ run[r].status # "RUNNING"})

(* A reader who follows the cursor to the end is shown every overlay that was  *)
(* there all along, although others are written meanwhile, the cursor's row    *)
(* too: only a cursor row whose time went back may lose some, and only one     *)
(* whose time went on may show some again.                                     *)
ListingWhole ==
    listing # Idle =>
        /\ listing.next = NoRow /\ ~ listing.behind => listing.kept \subseteq listing.shown
        /\ ~ listing.ahead => listing.kept \cap listing.twice = {}

(* A tenant's keys show everything it stored and nothing else: the pages of    *)
(* its overlays are whole (ListingWhole), an overlay is returned with its      *)
(* event unless a merge absorbed that event, and the evidence of the events    *)
(* holds every claim and every associated report.                              *)
EvidenceShown ==
    /\ ListingWhole
    /\ \A key \in ApiKeys, t \in Tenants :
          LET linked == {r \in report : \E a \in association : a.report = r.id}
          IN /\ Admitted(key, t) => \A e \in Written(t) \ absorbed :
                    get_event_overlay(key, t, e) = overlay[<<t, e>>]
             /\ UNION {get_tenant_evidence_for_event(key, t, e) : e \in Events}
                   = IF Admitted(key, t) THEN {r \in claim \cup linked : r.tenant = key.tenant} ELSE {}

(* A listing read to its end shows every overlay that was there all along, and *)
(* no such overlay twice: not when the cursor's row is written in between.     *)
ListingExact ==
    listing # Idle =>
        /\ listing.next = NoRow => listing.kept \subseteq listing.shown
        /\ listing.kept \cap listing.twice = {}

(* Every overlay a tenant has written can be opened: not when a merge absorbed *)
(* its event, which has no projection any more.                                *)
OverlayOpens ==
    \A t \in Tenants, e \in Events : overlay[<<t, e>>] # NoRow => GetTenantEventOverlay(t, e) # NoRow

(* "One-way door: a non-RUNNING run rejects further state changes"             *)
(* (CompleteTenantIngestionRun) and "claims in this run are immutable after    *)
(* this point" (SUCCEEDED): a closed run and its claims do not change.         *)
ClosedRunFrozen ==
    [][\A r \in DOMAIN run : run[r] # NoRow /\ run[r].status # "RUNNING" =>
          /\ run'[r] = run[r]
          /\ {k \in claim' : k.run = r} = {k \in claim : k.run = r}]_vars
================================================================================
