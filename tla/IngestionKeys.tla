------------------------------ MODULE IngestionKeys ------------------------------
(* Ingestions that are retried, repeated and raced (IngestSourceData with its  *)
(* services): the idempotency key, the continuity of a source record, and the  *)
(* choice of the event through the identity index.                             *)
(*                                                                             *)
(* An ingestion is one READ COMMITTED transaction.  Its steps are the places   *)
(* where it may wait for another transaction: the row of ingestion_runs, the   *)
(* advisory lock of the source record, the unique key of raw_snapshots, the    *)
(* advisory lock of the identity key.  The row of the event is locked and its  *)
(* merge state read again in the step that commits (EventStore splits it, and  *)
(* the merge, further).  The identity row is upserted before the event row is  *)
(* locked and both are held to the commit, so whoever upserts first commits    *)
(* first and the upsert is applied at the commit.                              *)
EXTENDS Matching

CONSTANTS
    Clients,          \* requests in flight
    Submissions,      \* what any client may send
    Workloads,        \* what the clients of a behaviour send, the values an admin gives the
                      \* mapping of each source, and what older releases left
    Events,           \* ids new events take, in order; bound on the events
    SourceKind,       \* [source -> "EXTERNAL" or "INTERNAL"]
    CandidateLimit,   \* find_candidates: limit
    RegistrationLimit,\* find_by_registration: limit
    MaxDuplicateReviews,
    NoEvent, NoClient, NoResult

Sources == DOMAIN SourceKind

(* A run is the source with the key (derive_ingestion_run_id).  A request     *)
(* without a key is one whose key is never used again.                        *)
derive_ingestion_run_id(s) == <<s.source, s.key>>

Runs == {derive_ingestion_run_id(s) : s \in Submissions}

Records == {<<s.source, s.record>> : s \in {t \in Submissions : t.record # {}}}

RecordOf(s) == <<s.source, s.record>>

VARIABLES
    stored,        \* accident_events
    mergedInto,    \* merged_into_event_id
    entry,         \* event_identity_index, NoEntry where there is no row
    claims,        \* set of <<run, record, event>>: claims, superseded ones too
    snapshots,     \* raw_snapshots
    finished,      \* ingestion_runs with status finished
    reviews,       \* pending_duplicate_reviews: sets of two events
    mapping,       \* [Sources -> field_mapping_json]
    runRow,        \* [Runs -> who inserted the ingestion_runs row and has not committed]
    snapshotRow,   \* [Runs -> who inserted the raw_snapshots row and has not committed]
    recordLock,    \* [Records -> holder of lock_for_source_record_correction]
    identityLock,  \* lock_for_identity_resolution: the key each client holds
    workload,      \* the workload of this behaviour
    txn,           \* [Clients -> local variables of the transaction]
    answers,       \* what clients were told
    originKey      \* history: the identity key an event was created for, while its row keeps it

eventVars == <<stored, mergedInto, entry, claims, reviews, originKey>>
keyVars   == <<snapshots, finished>>
lockVars  == <<runRow, snapshotRow, recordLock, identityLock>>
vars      == <<eventVars, keyVars, mapping, workload, lockVars, txn, answers>>

NoKey == <<0, NoMark>>

(* A client that has not resolved by identity holds no key, not even the one  *)
(* without a date and a registration.                                         *)
NoLock == <<>>

(* The event of an ingestion, whether it was created, and the reviews queued. *)
StoredIngestionResult == [event : Events, created : BOOLEAN, reviews : SUBSET SUBSET Events]

(* Submissions name an event or none; older releases left one run without a   *)
(* result for each key, and one event for each record.                        *)
LegacyRun(l) ==
    /\ l.event \in Events
    /\ l.snapshot.run \in Runs
    /\ l.snapshot.legacy
    /\ l.snapshot.result = NoResult

ASSUME IngestionAssumption ==
    /\ Events \subseteq Nat
    /\ IsFiniteSet(Events)
    /\ NoEvent \notin Events
    /\ NoClient \notin Clients
    /\ NoResult \notin StoredIngestionResult
    /\ CandidateLimit \in Nat \ {0}
    /\ RegistrationLimit \in Nat \ {0}
    /\ MaxDuplicateReviews \in Nat \ {0}
    /\ \A s \in Submissions :
          /\ s.event \in Events \cup {NoEvent}
          /\ \A name \in DOMAIN s.claims : IsValue(s.claims[name])
    /\ \A w \in Workloads :
          /\ w.submissions \subseteq Submissions
          /\ \A l \in w.legacy : LegacyRun(l)
          /\ \A l, m \in w.legacy :
                /\ l.snapshot.run = m.snapshot.run => l = m
                /\ /\ l.snapshot.run[1] = m.snapshot.run[1]
                   /\ l.snapshot.record = m.snapshot.record
                   /\ l.snapshot.record # {}
                   => l.event = m.event

(* A row keeps what was sent under the key and what was answered.  A run      *)
(* without a result is of an older release.                                   *)
IsSnapshot(s) ==
    /\ s.run \in Runs
    /\ s.result \in StoredIngestionResult \cup {NoResult}
    /\ s.result = NoResult => s.legacy

(* Two different events, in either order once.                                *)
IsReview(r) == r \subseteq stored /\ Cardinality(r) = 2

IsIdentityRow(row) ==
    /\ row.event_date \in Nat \cup {Unread}
    /\ Len(row.registration_norms) <= MaxRegistrationAliases

Idle == [pc |-> "idle", sub |-> NoResult, fields |-> <<>>, prior |-> NoEvent, event |-> NoEvent,
         created |-> FALSE, alias |-> FALSE, against |-> {}]

TypeOK ==
    /\ stored \subseteq Events
    /\ mergedInto \in [Events -> Events \cup {NoEvent}]
    /\ \A e \in Events : IsIdentityRow(entry[e])
    /\ \A c \in claims : c[1] \in Runs /\ c[3] \in stored
    /\ \A s \in snapshots : IsSnapshot(s)
    /\ finished \subseteq Runs
    /\ \A r \in reviews : IsReview(r)
    /\ runRow \in [Runs -> Clients \cup {NoClient}]
    /\ snapshotRow \in [Runs -> Clients \cup {NoClient}]
    /\ recordLock \in [Records -> Clients \cup {NoClient}]
    /\ \A c \in Clients : txn[c].event \in Events \cup {NoEvent}

(* Events of older releases hold the claims of the legacy snapshots.          *)
Init ==
    /\ \E w \in Workloads :
          /\ workload = w
          /\ mapping \in {m \in [Sources -> UNION {w.mappings[s] : s \in Sources}] :
                             \A s \in Sources : m[s] \in w.mappings[s]}
          /\ snapshots = {l.snapshot : l \in w.legacy}
          /\ finished = {l.snapshot.run : l \in w.legacy}
          /\ claims = {<<l.snapshot.run, l.snapshot.record, l.event>> : l \in w.legacy}
          /\ stored = {l.event : l \in w.legacy}
    /\ mergedInto = [e \in Events |-> NoEvent]
    /\ entry = [e \in Events |-> NoEntry]
    /\ reviews = {}
    /\ runRow = [r \in Runs |-> NoClient]
    /\ snapshotRow = [r \in Runs |-> NoClient]
    /\ recordLock = [r \in Records |-> NoClient]
    /\ identityLock = [c \in Clients |-> NoLock]
    /\ txn = [c \in Clients |-> Idle]
    /\ answers = {}
    /\ originKey = [e \in Events |-> NoKey]

--------------------------------------------------------------------------------
Merged(e) == mergedInto[e] # NoEvent

(* _canonical_event_for: along the merge pointers, which form a forest        *)
(* (EventStore), for as many steps as there are events.                       *)
Ancestors(into) ==
    LET up[n \in 0 .. Cardinality(Events)] ==
            [e \in Events |-> IF n = 0 \/ into[e] = NoEvent THEN e ELSE up[n - 1][into[e]]]
    IN up

Canonical(e) == Ancestors(mergedInto)[Cardinality(Events)][e]

At(c, label) == txn[c].pc = label
Sub(c) == txn[c].sub
Run(c) == derive_ingestion_run_id(Sub(c))

(* _ingestion_submission_hash_material: everything the client sent, the time  *)
(* of capture too, but not how the source is mapped.                          *)
SubmissionHash(s) == <<s.raw, s.claims, s.record, s.event, s.captured>>

(* The fields an admitted submission claims, as its source is mapped now.     *)
NormalisedFields(s) == normalise_claims(SourceKind[s.source], mapping[s.source], s.claims)

IdentityEntry(c) == _build_identity_entry(txn[c].fields, Sub(c).record)

IdentityKey(c) == <<IdentityEntry(c).event_date, IdentityEntry(c).registration>>

Freed(lock, c) == [k \in DOMAIN lock |-> IF lock[k] = c THEN NoClient ELSE lock[k]]

(* COMMIT or ROLLBACK.                                                        *)
End(c) ==
    /\ txn' = [txn EXCEPT ![c] = Idle]
    /\ runRow' = Freed(runRow, c)
    /\ snapshotRow' = Freed(snapshotRow, c)
    /\ recordLock' = Freed(recordLock, c)
    /\ identityLock' = [identityLock EXCEPT ![c] = NoLock]

(* An error, a crash or a lost connection.  A retry is a new Submit.          *)
Rollback(c) ==
    /\ ~At(c, "idle")
    /\ End(c)
    /\ UNCHANGED <<eventVars, keyVars, mapping, workload, answers>>

--------------------------------------------------------------------------------
(* Idempotency.                                                               *)

find_by_source_run(run) == {s \in snapshots : s.run = run}

(* A row of an older release knows the hash of the raw payload only.          *)
snapshot_hash_matches(snapshot, s) ==
    IF snapshot.legacy THEN snapshot.raw = s.raw ELSE snapshot.hash = SubmissionHash(s)

(* _result_from_snapshot: the stored result, its event made canonical; for a  *)
(* row of an older release the event of its claims.                           *)
_result_from_snapshot(snapshot) ==
    IF snapshot.result # NoResult
    THEN [snapshot.result EXCEPT !.event = Canonical(@)]
    ELSE [event |-> Canonical(CHOOSE e \in Events : <<snapshot.run, snapshot.record, e>> \in claims),
          created |-> FALSE, reviews |-> {}]

Answer(s, result) == answers' = answers \cup {[sub |-> s, result |-> result]}

(* What a committed snapshot of the run means for the submission: a replay,   *)
(* or IdempotencyKeyPayloadMismatchError.  (Rows without a result and without *)
(* a claim, IngestionInProgressError, are never committed.)                   *)
AnswerFrom(snapshot, s) ==
    IF snapshot_hash_matches(snapshot, s)
    THEN Answer(s, _result_from_snapshot(snapshot))
    ELSE UNCHANGED answers

ReplayEarly(c, s) ==
    /\ At(c, "idle")
    /\ \E snapshot \in find_by_source_run(derive_ingestion_run_id(s)) : AnswerFrom(snapshot, s)
    /\ UNCHANGED <<eventVars, keyVars, mapping, workload, lockVars, txn>>

(* _validate_and_hash, check and _load_and_normalise let the submission pass. *)
Submit(c, s) ==
    /\ At(c, "idle")
    /\ find_by_source_run(derive_ingestion_run_id(s)) = {}
    /\ s.event # NoEvent => s.event \in stored /\ ~Merged(s.event)
    /\ ~Rejected(SourceKind[s.source], mapping[s.source], s.claims)
    /\ txn' = [txn EXCEPT ![c] = [Idle EXCEPT !.pc = "start", !.sub = s,
                                               !.fields = NormalisedFields(s)]]
    /\ UNCHANGED <<eventVars, keyVars, mapping, workload, lockVars, answers>>

(* The body of a request has a claim; a blank record id is none.              *)
IngestionRequest(s) == DOMAIN s.claims # {}

ingest_from_source(c, s) ==
    /\ IngestionRequest(s)
    /\ ReplayEarly(c, s) \/ Submit(c, s)

(* ON CONFLICT DO NOTHING waits for an uncommitted row of the same run; a     *)
(* finished run keeps its row.                                                *)
ensure_started(c) ==
    /\ At(c, "start")
    /\ runRow[Run(c)] = NoClient
    /\ runRow' = IF Run(c) \in finished THEN runRow ELSE [runRow EXCEPT ![Run(c)] = c]
    /\ txn' = [txn EXCEPT ![c].pc = IF Sub(c).record = {} THEN "snapshot" ELSE "record"]
    /\ UNCHANGED <<eventVars, keyVars, mapping, workload, snapshotRow, recordLock, identityLock, answers>>

--------------------------------------------------------------------------------
(* Continuity of a source record.                                             *)

(* find_latest_event_id_by_source_record_id: the latest claim of the record;  *)
(* any of them, since created_at is not the order of the commits.             *)
RecordEvents(s) == {c[3] : c \in {d \in claims : <<d[1][1], d[2]>> = RecordOf(s)}}

PriorEvents(s) == IF RecordEvents(s) = {} THEN {NoEvent} ELSE {Canonical(e) : e \in RecordEvents(s)}

(* Mutant of LockRecord: no advisory lock before the lookup. *)
LookUpOnly(c) == TRUE

LockRecord(c) == recordLock[RecordOf(Sub(c))] = NoClient

(* SourceRecordEventMismatchError when the record belongs to another event.   *)
ResolveRecord(c) ==
    /\ At(c, "record")
    /\ LockRecord(c)
    /\ \E prior \in PriorEvents(Sub(c)) :
          IF prior # NoEvent /\ Sub(c).event \notin {NoEvent, prior}
          THEN End(c)
          ELSE /\ txn' = [txn EXCEPT ![c].pc = "snapshot", ![c].prior = prior]
               /\ recordLock' = [recordLock EXCEPT ![RecordOf(Sub(c))] = c]
               /\ UNCHANGED <<runRow, snapshotRow, identityLock>>
    /\ UNCHANGED <<eventVars, keyVars, mapping, workload, answers>>

--------------------------------------------------------------------------------
(* The snapshot, which the unique key of source and run admits once.          *)

(* Mutant of try_add_unique: the conflict on the key is not noticed. *)
AddAlways(c) ==
    /\ txn' = [txn EXCEPT ![c].pc = "resolve"]
    /\ snapshotRow' = [snapshotRow EXCEPT ![Run(c)] = c]
    /\ UNCHANGED <<runRow, recordLock, identityLock, answers>>

(* Waits for an uncommitted row of the same key; a committed one answers.     *)
try_add_unique(c) ==
    /\ snapshotRow[Run(c)] = NoClient
    /\ IF find_by_source_run(Run(c)) = {}
       THEN /\ txn' = [txn EXCEPT ![c].pc = "resolve"]
            /\ snapshotRow' = [snapshotRow EXCEPT ![Run(c)] = c]
            /\ UNCHANGED <<runRow, recordLock, identityLock, answers>>
       ELSE /\ \E snapshot \in find_by_source_run(Run(c)) : AnswerFrom(snapshot, Sub(c))
            /\ End(c)

InsertSnapshot(c) ==
    /\ At(c, "snapshot")
    /\ try_add_unique(c)
    /\ UNCHANGED <<eventVars, keyVars, mapping, workload>>

--------------------------------------------------------------------------------
(* The event.                                                                 *)

ResolveTo(c, e) ==
    /\ txn' = [txn EXCEPT ![c].pc = "write", ![c].event = e]
    /\ UNCHANGED identityLock

(* A new id; the row is seen by nobody before the commit.                     *)
FreshEvent ==
    {e \in Events \ (stored \cup {txn[c].event : c \in Clients}) :
        \A d \in Events \ (stored \cup {txn[c].event : c \in Clients}) : e <= d}

CreateEvent(c, against) ==
    \E e \in FreshEvent :
        txn' = [txn EXCEPT ![c].pc = "write", ![c].event = e, ![c].created = TRUE,
                           ![c].against = against]

(* At most limit rows, those of canonical events first.  Which ones is a      *)
(* matter of updated_at.                                                      *)
FirstRows(rows, limit) ==
    {page \in SUBSET rows :
        /\ Cardinality(page) = IF Cardinality(rows) < limit THEN Cardinality(rows) ELSE limit
        /\ (\E e \in page : Merged(e)) => {e \in rows : ~Merged(e)} \subseteq page}

WithinADay(date) ==
    {e \in stored : entry[e].event_date > 0 /\ entry[e].event_date \in date - 1 .. date + 1}

find_candidates(date) == FirstRows(IF date <= 0 THEN {} ELSE WithinADay(date), CandidateLimit)

RegistrationRows(mark, date) ==
    {e \in IF date <= 0 THEN stored ELSE WithinADay(date) :
        entry[e].registration = mark \/ InAliases(mark, entry[e].registration_norms)}

find_by_registration(mark, date) == FirstRows(RegistrationRows(mark, date), RegistrationLimit)

(* Mutant of lock_for_identity_resolution: concurrent resolutions are not serialised. *)
ResolveUnserialised(c, key) == identityLock' = identityLock

lock_for_identity_resolution(c, key) ==
    /\ \A d \in Clients \ {c} : identityLock[d] # key
    /\ identityLock' = [identityLock EXCEPT ![c] = key]

(* Reviews against at most so many of the canonical events of the candidates. *)
ReviewedEvents(candidates) ==
    LET canonical == {Canonical(e) : e \in candidates} IN
    {page \in SUBSET canonical :
        Cardinality(page) = IF Cardinality(canonical) < MaxDuplicateReviews
                            THEN Cardinality(canonical) ELSE MaxDuplicateReviews}

(* resolve_with_reviews for a submission with a date.                         *)
MatchOrCreate(c) ==
    LET incoming == IdentityEntry(c)
        key      == IdentityKey(c)
    IN
    /\ lock_for_identity_resolution(c, key)
    /\ \E near \in find_candidates(key[1]) :
       \E same \in (IF key[2] = NoMark THEN {{}} ELSE find_by_registration(key[2], key[1])) :
          LET decision == decide(incoming, entry, near \cup same) IN
          \/ /\ decision.action = "attach"
             /\ \E e \in decision.events :
                   txn' = [txn EXCEPT ![c].pc = "write", ![c].event = Canonical(e),
                                      ![c].alias = Merged(e)]
          \/ /\ decision.action = "review"
             /\ \E against \in ReviewedEvents(decision.events) : CreateEvent(c, against)
          \/ /\ decision.action = "new"
             /\ CreateEvent(c, {})

(* The explicit event, the event of the record, a new event where nothing can *)
(* be matched, or the identity index.                                         *)
ResolveEvent(c) ==
    /\ At(c, "resolve")
    /\ \/ Sub(c).event # NoEvent /\ ResolveTo(c, Sub(c).event)
       \/ Sub(c).event = NoEvent /\ txn[c].prior # NoEvent /\ ResolveTo(c, txn[c].prior)
       \/ /\ Sub(c).event = NoEvent /\ txn[c].prior = NoEvent
          /\ IF Get(txn[c].fields, "event_date").form = "null"
             THEN CreateEvent(c, {}) /\ UNCHANGED identityLock
             ELSE MatchOrCreate(c)
    /\ UNCHANGED <<eventVars, keyVars, mapping, workload, runRow, snapshotRow, recordLock, answers>>

--------------------------------------------------------------------------------
(* The write.                                                                 *)

NewEntry(c) ==
    LET e == txn[c].event IN
    IF txn[c].alias
    THEN enrich_identity_index_from_alias(entry[e], IdentityEntry(c))
    ELSE upsert(entry[e], IdentityEntry(c))

IngestionResult(c) ==
    [event |-> txn[c].event, created |-> txn[c].created,
     reviews |-> {{e, txn[c].event} : e \in txn[c].against}]

NewSnapshot(c) ==
    [run |-> Run(c), legacy |-> FALSE, hash |-> SubmissionHash(Sub(c)), raw |-> Sub(c).raw,
     record |-> Sub(c).record, result |-> IngestionResult(c)]

KeptKey(e, c) ==
    IF txn[c].created
    THEN IdentityKey(c)
    ELSE IF <<NewEntry(c).event_date, NewEntry(c).registration>> = originKey[e]
         THEN originKey[e] ELSE NoKey

(* _lock_and_write_claims to the commit, and the answer.                      *)
CommitIngestion(c) ==
    LET e == txn[c].event IN
    /\ At(c, "write")
    /\ ~Merged(e)
    /\ stored' = stored \cup {e}
    /\ entry' = [entry EXCEPT ![e] = NewEntry(c)]
    /\ originKey' = [originKey EXCEPT ![e] = KeptKey(e, c)]
    /\ claims' = claims \cup {<<Run(c), Sub(c).record, e>>}
    /\ reviews' = reviews \cup IngestionResult(c).reviews
    /\ snapshots' = snapshots \cup {NewSnapshot(c)}
    /\ finished' = finished \cup {Run(c)}
    /\ Answer(Sub(c), IngestionResult(c))
    /\ End(c)
    /\ UNCHANGED <<mergedInto, mapping, workload>>

(* EventAlreadyMergedError: merged since it was resolved.                     *)
RefuseMerged(c) ==
    /\ At(c, "write")
    /\ Merged(txn[c].event)
    /\ End(c)
    /\ UNCHANGED <<eventVars, keyVars, mapping, workload, answers>>

--------------------------------------------------------------------------------
(* What others do meanwhile.                                                  *)

(* MergeDuplicateEvents: the claims of the source get copies on the target.   *)
Merge(s, t) ==
    /\ {s, t} \subseteq stored
    /\ s # t
    /\ ~Merged(s) /\ ~Merged(t)
    /\ mergedInto' = [mergedInto EXCEPT ![s] = t]
    /\ entry' = [entry EXCEPT ![t] = merge_identity_index(@, entry[s])]
    /\ claims' = claims \cup {<<c[1], c[2], t>> : c \in {d \in claims : d[3] = s}}
    /\ UNCHANGED <<stored, reviews, originKey, keyVars, mapping, workload, lockVars, txn, answers>>

(* The mapping of a source is replaced, between two attempts of an ingestion  *)
(* or within one.                                                             *)
update_field_mapping(s, m) == mapping' = [mapping EXCEPT ![s] = m]

SetSourceFieldMapping(s, m) ==
    /\ ValidMapping(m)
    /\ update_field_mapping(s, m)
    /\ UNCHANGED <<eventVars, keyVars, workload, lockVars, txn, answers>>

Next ==
    \/ \E c \in Clients :
          \/ \E s \in workload.submissions : ingest_from_source(c, s)
          \/ ensure_started(c) \/ ResolveRecord(c) \/ InsertSnapshot(c) \/ ResolveEvent(c)
          \/ CommitIngestion(c) \/ RefuseMerged(c) \/ Rollback(c)
    \/ \E s, t \in Events : Merge(s, t)
    \/ \E s \in Sources : \E m \in workload.mappings[s] : SetSourceFieldMapping(s, m)

Spec == Init /\ [][Next]_vars

--------------------------------------------------------------------------------
(* Properties.                                                                *)

SameEvent(e, f) == Canonical(e) = Canonical(f)

(* However often, and however concurrently, a key is used, what it was first  *)
(* used for is ingested once, and every later answer is the first one, its    *)
(* event made canonical: a retry that overtakes the first attempt, meets it   *)
(* half-way or comes after a crash neither ingests again nor is told about    *)
(* another submission.  (A row of an older release recognises the raw payload *)
(* only.)                                                                     *)
OnceAndForAll ==
    /\ \A s, t \in snapshots : s.run = t.run => s = t
    /\ \A a, b \in answers :
          derive_ingestion_run_id(a.sub) = derive_ingestion_run_id(b.sub) =>
              /\ a.sub.raw = b.sub.raw
              /\ SameEvent(a.result.event, b.result.event)
              /\ a.result.created = b.result.created
              /\ a.result.reviews = b.result.reviews
              /\ \/ SubmissionHash(a.sub) = SubmissionHash(b.sub)
                 \/ \E s \in find_by_source_run(derive_ingestion_run_id(a.sub)) : s.legacy

(* All that was ever ingested for one record of one source is on one event,   *)
(* through concurrent corrections, explicit event ids and merges.             *)
RecordContinuity ==
    \A c, d \in claims :
        c[1][1] = d[1][1] /\ c[2] = d[2] /\ c[2] # {} => SameEvent(c[3], d[3])

Reviewed(e, f) ==
    \E r \in reviews : {Canonical(x) : x \in r} = {Canonical(e), Canonical(f)}

(* Two events created for one accident, that is one date and registration,    *)
(* whose identity has not been corrected since, are merged, or a curator has  *)
(* been asked about the two of them.  Not so: reviews are against the best    *)
(* matches only.                                                              *)
NoSilentTwin ==
    \A e, f \in stored :
        /\ e # f
        /\ originKey[e] = originKey[f]
        /\ originKey[e][1] > 0
        /\ originKey[e][2] # NoMark
        => SameEvent(e, f) \/ Reviewed(e, f)

(* Nobody adds a twin in silence: an event that is stored while another one   *)
(* of the same date and registration is there, not corrected since, comes     *)
(* with a review.  The review is against the best matches, which need not be  *)
(* that other one.                                                            *)
TwinAnnounced ==
    [][\A f \in stored' \ stored : \A e \in stored :
          /\ originKey'[f] = originKey[e]
          /\ originKey[e][1] > 0
          /\ originKey[e][2] # NoMark
          => \E r \in reviews' : f \in r]_vars

(* Whenever a dated submission is resolved, the rows within a day of its date *)
(* that carry its registration fit on the page of find_by_registration.       *)
RegistrationsFit ==
    \A c \in Clients : At(c, "resolve") =>
        LET key == IdentityKey(c)
        IN key[1] > 0 /\ key[2] # NoMark =>
              Cardinality(RegistrationRows(key[2], key[1])) <= RegistrationLimit

(* test_anonymous_ingestion_matching_merged_identity_alias: what looks like   *)
(* an absorbed event, and like no other but the events merged with it,        *)
(* resolves to the canonical event and creates no third duplicate.            *)
LooksLike(c, e) == score_match(IdentityEntry(c), entry[e]) >= HIGH_CONFIDENCE

ResolvesToCanonical(c) ==
    ( /\ At(c, "resolve")
      /\ txn'[c].pc = "write"
      /\ Sub(c).event = NoEvent
      /\ \E s \in stored : Merged(s) /\ LooksLike(c, s)
      /\ \A e, f \in stored : LooksLike(c, e) /\ LooksLike(c, f) => SameEvent(e, f) )
    => ~txn'[c].created

AbsorbedAliasAttaches == [][\A c \in Clients : ResolvesToCanonical(c)]_vars
================================================================================
