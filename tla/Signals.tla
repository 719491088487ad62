-------------------------------- MODULE Signals --------------------------------
(* Chronos and Argus.  Chronos turns the projection of an accident into a      *)
(* timeline and asks for a review where times contradict the usual sequence;   *)
(* Argus turns those reviews, the changes Hermes saw and the open conflicts    *)
(* into signals, which reviewers confirm or dismiss.                           *)
(*                                                                             *)
(* A detection reads its sources in separate statements, each of which sees    *)
(* what is committed by then, and commits all its upserts at once; rows it has *)
(* upserted are locked until then, so that its writes take effect together.    *)
(* One accident and one Hermes target.                                         *)
EXTENDS Integers, Sequences, SequencesExt, FiniteSets

CONSTANTS
    Kinds,          \* timeline event types, numbered as in _SEQUENCE_ORDER
    Times,          \* instants a raw value can stand for
    Blank,          \* the field is absent, blank or disputed
    Vague,          \* a raw value with no instant: relative, approximate, unknown
    Projected,      \* values the time fields may take, [Kinds -> Raw]
    Extractors,     \* extraction requests in flight
    Detectors,      \* detection requests in flight
    Reviewers,      \* review requests in flight
    ChangeTypes,    \* Hermes change types that occur
    Decisions,      \* decisions reviewers take, of SignalStatus
    ConflictBatches,\* sets of conflicts of the accident that are opened together
    Curated,        \* the conflicts that curators decide
    RecentLimit,    \* recent_limit
    SpikeThreshold, \* _FETCH_FAILURE_SPIKE_THRESHOLD
    MaxInputs,      \* bound on the changes that Hermes and the conflicts undergo
    MaxReviews,     \* bound on the reviews of all signals
    Idle            \* a request slot nobody uses

VARIABLES
    fields,         \* [Kinds -> Raw]: the time fields of the projection
    timeline,       \* set of [kind, raw]: chronos_timeline_events
    links,          \* set of <<row, row>>: chronos_event_links
    sequenceReviews,\* PENDING chronos_sequence_reviews, oldest first, as {row, row}
    extractor,      \* [Extractors -> the fields it read, or Idle]
    changes,        \* hermes_source_changes of the target, oldest first
    conflicts,      \* [conflict -> status] for the conflicts of the accident
    inputs,         \* number of those changes
    overtaken,      \* history: conflicts resolved between the two reads of a detection
    signal,         \* [dedupe key -> row] for the keys that exist
    evidence,       \* set of <<dedupe key, item>>: argus_signal_evidence
    decisions,      \* [dedupe key -> Seq(decision)]: argus_signal_reviews
    detector,       \* [Detectors -> its transaction, or Idle]
    reviewer        \* [Reviewers -> the review it is writing, or Idle]

chronosVars == <<timeline, links, sequenceReviews>>
argusVars   == <<signal, evidence, decisions>>
conflictVars == <<conflicts, overtaken>>
inputVars   == <<fields, changes, conflictVars, inputs>>
vars == <<chronosVars, argusVars, inputVars, extractor, detector, reviewer>>

Raw == Times \cup {Blank, Vague}

(* Argus severities by rank: LOW, MEDIUM, HIGH, CRITICAL *)
Severities == 0..3

(* AUTO_RESOLVED is in the enumeration and written by nobody. *)
SignalStatus == {"OPEN", "CONFIRMED", "DISMISSED", "NEEDS_MORE_REVIEW"}

Signals == [status : SignalStatus, severity : Severities, version : 1..(MaxReviews + 1)]

(* The engines in the order they run; "evidence" is the second read of atlas. *)
Engines == {"chronos", "hermes", "atlas"}

Stages == Engines \cup {"evidence", "commit"}

(* The accident has been projected, with any of these fields. *)
Init ==
    /\ fields \in Projected
    /\ timeline = {}
    /\ links = {}
    /\ sequenceReviews = <<>>
    /\ extractor = [p \in Extractors |-> Idle]
    /\ changes = <<>>
    /\ conflicts = <<>>
    /\ inputs = 0
    /\ overtaken = {}
    /\ signal = <<>>
    /\ evidence = {}
    /\ decisions = <<>>
    /\ detector = [d \in Detectors |-> Idle]
    /\ reviewer = [r \in Reviewers |-> Idle]
--------------------------------------------------------------------------------
(* The inputs, as the other components change them. *)

UpdateProjection(f) ==
    /\ f # fields
    /\ fields' = f
    /\ UNCHANGED <<chronosVars, argusVars, changes, conflictVars, inputs,
                   extractor, detector, reviewer>>

Input == inputs < MaxInputs /\ inputs' = inputs + 1

RecordChange(type) ==
    /\ Input
    /\ changes' = Append(changes, type)
    /\ UNCHANGED <<chronosVars, argusVars, fields, conflictVars,
                   extractor, detector, reviewer>>

(* An ingestion opens conflicts on several fields at once. *)
OpenConflicts(batch) ==
    /\ Input
    /\ batch \cap DOMAIN conflicts = {}
    /\ conflicts' = [c \in DOMAIN conflicts \cup batch |->
                        IF c \in batch THEN "OPEN" ELSE conflicts[c]]
    /\ UNCHANGED <<chronosVars, argusVars, fields, changes, overtaken,
                   extractor, detector, reviewer>>

(* A detection has counted the open conflicts and not yet fetched them. *)
HasCounted(t) == t # Idle /\ t.stage = "evidence"

ResolveConflict(c) ==
    /\ Input
    /\ conflicts[c] = "OPEN"
    /\ conflicts' = [conflicts EXCEPT ![c] = "RESOLVED"]
    /\ overtaken' = overtaken \cup {x \in {c} : \E d \in Detectors : HasCounted(detector[d])}
    /\ UNCHANGED <<chronosVars, argusVars, fields, changes, extractor, detector, reviewer>>

ReopenConflict(c) ==
    /\ Input
    /\ conflicts[c] = "RESOLVED"
    /\ conflicts' = [conflicts EXCEPT ![c] = "OPEN"]
    /\ UNCHANGED <<chronosVars, argusVars, fields, changes, overtaken,
                   extractor, detector, reviewer>>
--------------------------------------------------------------------------------
(* ExtractChronosTimelineFromEvent *)

(* parse_chronos_timestamp: an instant, or none *)
HasInstant(raw) == raw \in Times

ReadProjection(p) ==
    /\ extractor[p] = Idle
    /\ extractor' = [extractor EXCEPT ![p] = fields]
    /\ UNCHANGED <<chronosVars, argusVars, inputVars, detector, reviewer>>

(* The kinds of event that a projection has a value for, and their rows. *)
Matched(f) == {k \in Kinds : f[k] # Blank}

Row(f, k) == [kind |-> k, raw |-> f[k]]

(* pairwise(ordered): the rows that follow each other in the order of           *)
(* sequence_index.                                                              *)
Pairwise(f) ==
    {<<Row(f, q[1]), Row(f, q[2])>> :
        q \in {p \in Matched(f) \X Matched(f) :
                 p[1] < p[2] /\ \A k \in Matched(f) : k <= p[1] \/ p[2] <= k}}

(* Mutant of Contradicts: the comparison is the wrong way round. *)
ContradictsReversed(pair) ==
    /\ HasInstant(pair[1].raw)
    /\ HasInstant(pair[2].raw)
    /\ pair[1].raw < pair[2].raw

Contradicts(pair) ==
    /\ HasInstant(pair[1].raw)
    /\ HasInstant(pair[2].raw)
    /\ pair[1].raw > pair[2].raw

(* Each row, link and review is inserted unless it is there (ON CONFLICT DO     *)
(* NOTHING); at most one PENDING review per unordered pair.                     *)
CommitExtraction(p) ==
    LET pairs   == Pairwise(extractor[p])
        reviews == {{pair[1], pair[2]} : pair \in {q \in pairs : Contradicts(q)}}
                      \ {sequenceReviews[i] : i \in DOMAIN sequenceReviews}
    IN /\ extractor[p] # Idle
       /\ timeline' = timeline \cup {Row(extractor[p], k) : k \in Matched(extractor[p])}
       /\ links' = links \cup pairs
       /\ \E order \in SetToSeqs(reviews) : sequenceReviews' = sequenceReviews \o order
       /\ extractor' = [extractor EXCEPT ![p] = Idle]
       /\ UNCHANGED <<argusVars, inputVars, detector, reviewer>>
--------------------------------------------------------------------------------
(* RunArgusSignalDetection *)

severity_for_chronos_sequence_conflict == 1

severity_for_hermes_source_change(type) == IF type = "CONTENT_CHANGED" THEN 1 ELSE 0

severity_for_hermes_fetch_failure_spike(count) == IF count >= 2 * SpikeThreshold THEN 2 ELSE 1

severity_for_atlas_high_conflict(count) ==
    CASE count >= 20 -> 3 [] count >= 10 -> 2 [] count >= 5 -> 1 [] OTHER -> 0

HighConflictThreshold == 3

Upsert(key, severity, items) == [key |-> key, severity |-> severity, items |-> items]

First(s, n) == SubSeq(s, 1, IF Len(s) < n THEN Len(s) ELSE n)

(* list_pending: the oldest reviews, one signal each. *)
detect_chronos ==
    LET pending == First(sequenceReviews, RecentLimit)
    IN {Upsert(<<"SEQUENCE", pending[i]>>, severity_for_chronos_sequence_conflict, {pending[i]})
           : i \in DOMAIN pending}

(* list_recent: one signal per type of change, one for a spike of failures. *)
ChangesOf(type) ==
    {i \in DOMAIN changes : i > Len(changes) - RecentLimit /\ changes[i] = type}

(* Mutant of SpikeReached: a spike needs one failure less. *)
SpikeReachedEarly(failures) == Cardinality(failures) >= SpikeThreshold - 1

SpikeReached(failures) == Cardinality(failures) >= SpikeThreshold

detect_hermes ==
    {Upsert(<<"CHANGE", type>>, severity_for_hermes_source_change(type), ChangesOf(type))
        : type \in {t \in {"FIRST_SEEN", "CONTENT_CHANGED"} : ChangesOf(t) # {}}}
      \cup {Upsert(<<"SPIKE">>, severity_for_hermes_fetch_failure_spike(Cardinality(failures)), failures)
               : failures \in {f \in {ChangesOf("FETCH_FAILED")} : SpikeReached(f)}}

OpenOnes == {c \in DOMAIN conflicts : conflicts[c] = "OPEN"}

(* count_open_conflicts_per_event decides on the signal and its severity ... *)
detect_atlas ==
    {Upsert(<<"CONFLICTS">>, severity_for_atlas_high_conflict(n), {})
        : n \in {Cardinality(OpenOnes)} \ (0..(HighConflictThreshold - 1))}

(* ... and find_by_event, a later statement, on the conflicts it links. *)
WithEvidence(u) == IF u.key = <<"CONFLICTS">> THEN Upsert(u.key, u.severity, OpenOnes) ELSE u

StartDetection(d) ==
    /\ detector[d] = Idle
    /\ detector' = [detector EXCEPT ![d] = [stage |-> "chronos", drafts |-> {}, broken |-> FALSE]]
    /\ UNCHANGED <<chronosVars, argusVars, inputVars, extractor, reviewer>>

After(stage) ==
    CASE stage = "chronos" -> "hermes" [] stage = "hermes" -> "atlas" [] OTHER -> "evidence"

FoundBy(stage) ==
    CASE stage = "chronos" -> detect_chronos
      [] stage = "hermes"  -> detect_hermes
      [] OTHER             -> detect_atlas

Detect(d) ==
    LET t == detector[d]
    IN /\ t # Idle
       /\ t.stage \in Engines
       /\ ~ t.broken
       /\ detector' = [detector EXCEPT ![d].stage = After(t.stage),
                                       ![d].drafts = @ \cup FoundBy(t.stage)]
       /\ UNCHANGED <<chronosVars, argusVars, inputVars, extractor, reviewer>>

(* The query of an engine raises: the engine is noted as errored and the run    *)
(* goes on.  An error of the database has also aborted the transaction, and     *)
(* then every later query fails and the commit stores nothing.                  *)
EngineFails(d, broken) ==
    LET t == detector[d]
    IN /\ t # Idle
       /\ t.stage \in Engines
       /\ t.broken => broken
       /\ detector' = [detector EXCEPT ![d].stage = After(t.stage), ![d].broken = broken]
       /\ UNCHANGED <<chronosVars, argusVars, inputVars, extractor, reviewer>>

(* Nothing to fetch when no signal was drafted, as after a failure. *)
LinkConflicts(d) ==
    LET t == detector[d]
    IN /\ HasCounted(t)
       /\ detector' = [detector EXCEPT ![d].stage = "commit",
                                       ![d].drafts = {WithEvidence(u) : u \in t.drafts}]
       /\ UNCHANGED <<chronosVars, argusVars, inputVars, extractor, reviewer>>

(* An error outside the queries of the engines, find_by_event included, is not *)
(* caught: the request ends and everything is rolled back.                      *)
DetectionFails(d) ==
    /\ detector[d] # Idle
    /\ detector' = [detector EXCEPT ![d] = Idle]
    /\ UNCHANGED <<chronosVars, argusVars, inputVars, extractor, reviewer>>

(* Mutant of upsert_signal: a detection reopens the signals it finds again. *)
UpsertReopening(old, severity) ==
    IF old = Idle THEN [status |-> "OPEN", severity |-> severity, version |-> 1]
    ELSE [old EXCEPT !.status = "OPEN", !.severity = IF @ < severity THEN severity ELSE @]

(* INSERT ... ON CONFLICT (dedupe_key) DO UPDATE: the status of a reviewed      *)
(* signal and its version stay, its severity only rises.                        *)
upsert_signal(old, severity) ==
    IF old = Idle THEN [status |-> "OPEN", severity |-> severity, version |-> 1]
    ELSE [old EXCEPT !.severity = IF @ < severity THEN severity ELSE @]

upsert_evidence(drafts) == UNION {{<<u.key, item>> : item \in u.items} : u \in drafts}

CommitDetection(d) ==
    LET t      == detector[d]
        drafts == IF t.broken THEN {} ELSE t.drafts
        keys   == {u.key : u \in drafts}
        Old(k) == IF k \in DOMAIN signal THEN signal[k] ELSE Idle
        Of(k)  == CHOOSE u \in drafts : u.key = k
    IN /\ t # Idle
       /\ t.stage = "commit"
       /\ signal' = [k \in DOMAIN signal \cup keys |->
                        IF k \in keys THEN upsert_signal(Old(k), Of(k).severity) ELSE signal[k]]
       /\ decisions' = [k \in DOMAIN signal \cup keys |->
                           IF k \in DOMAIN decisions THEN decisions[k] ELSE <<>>]
       /\ evidence' = evidence \cup upsert_evidence(drafts)
       /\ detector' = [detector EXCEPT ![d] = Idle]
       /\ UNCHANGED <<chronosVars, inputVars, extractor, reviewer>>
--------------------------------------------------------------------------------
(* ReviewArgusSignal *)

Written == Cardinality({x \in (DOMAIN decisions) \X (1..MaxReviews) : x[2] <= Len(decisions[x[1]])})

(* The signal is loaded and its version is the one the reviewer was shown. *)
ReviewSignal(r, k, decision) ==
    /\ reviewer[r] = Idle
    /\ Written < MaxReviews
    /\ reviewer' = [reviewer EXCEPT ![r] =
                       [key |-> k, expected |-> signal[k].version, decision |-> decision]]
    /\ UNCHANGED <<chronosVars, argusVars, inputVars, extractor, detector>>

update_with_version_check(k, expected) == signal[k].version = expected

(* The review row and the new status commit together. *)
CommitReview(r) ==
    LET t == reviewer[r]
    IN /\ t # Idle
       /\ update_with_version_check(t.key, t.expected)
       /\ signal' = [signal EXCEPT ![t.key].status = t.decision,
                                   ![t.key].version = @ + 1]
       /\ decisions' = [decisions EXCEPT ![t.key] = Append(@, t.decision)]
       /\ reviewer' = [reviewer EXCEPT ![r] = Idle]
       /\ UNCHANGED <<chronosVars, evidence, inputVars, extractor, detector>>

(* ArgusSignalModifiedError: the review row is rolled back too. *)
ReviewRefused(r) ==
    LET t == reviewer[r]
    IN /\ t # Idle
       /\ ~ update_with_version_check(t.key, t.expected)
       /\ reviewer' = [reviewer EXCEPT ![r] = Idle]
       /\ UNCHANGED <<chronosVars, argusVars, inputVars, extractor, detector>>
--------------------------------------------------------------------------------
Next ==
    \/ \E f \in Projected : UpdateProjection(f)
    \/ \E type \in ChangeTypes : RecordChange(type)
    \/ \E batch \in ConflictBatches : OpenConflicts(batch)
    \/ \E c \in Curated \cap DOMAIN conflicts : ResolveConflict(c) \/ ReopenConflict(c)
    \/ \E p \in Extractors : ReadProjection(p) \/ CommitExtraction(p)
    \/ \E d \in Detectors :
          \/ StartDetection(d)
          \/ Detect(d)
          \/ \E broken \in BOOLEAN : EngineFails(d, broken)
          \/ LinkConflicts(d)
          \/ CommitDetection(d)
          \/ DetectionFails(d)
    \/ \E r \in Reviewers :
          \/ \E k \in DOMAIN signal, decision \in Decisions : ReviewSignal(r, k, decision)
          \/ CommitReview(r)
          \/ ReviewRefused(r)

Spec == Init /\ [][Next]_vars
--------------------------------------------------------------------------------
(* Type invariant. *)
TypeOK ==
    /\ fields \in [Kinds -> Raw]
    /\ timeline \subseteq [kind : Kinds, raw : Raw \ {Blank}]
    /\ links \subseteq timeline \X timeline
    /\ \A k \in DOMAIN signal : signal[k] \in Signals
    /\ DOMAIN decisions = DOMAIN signal

(* Detection never touches a decision and reviewers never override each other  *)
(* (review_argus_signal.py:3-8, argus.py upsert_signal): the decisions of a     *)
(* signal, one per version after the first, explain its status.                 *)
DecisionStands ==
    \A k \in DOMAIN signal :
        LET log == decisions[k]
        IN /\ Len(log) = signal[k].version - 1
           /\ signal[k].status = IF log = <<>> THEN "OPEN" ELSE log[Len(log)]

(* No signal without its grounds, whatever runs overlap, fail or are repeated:  *)
(* a sequence signal names a contradiction of the timeline that is under        *)
(* review, a spike links at least a threshold of failures, and a conflict       *)
(* signal links the conflicts that its severity claims, all but those that      *)
(* were resolved between the count and the fetch of a detection.                *)
SignalsGrounded ==
    \A k \in DOMAIN signal :
        LET linked == {x[2] : x \in {y \in evidence : y[1] = k}}
            counted == Cardinality(linked \cup overtaken)
        IN /\ k[1] # "CONFLICTS" => linked # {}
           /\ k[1] = "SEQUENCE" =>
                 \E pair \in links : {pair[1], pair[2]} = k[2] /\ Contradicts(pair)
           /\ k[1] = "SPIKE" => \E s \in SUBSET linked :
                 /\ Cardinality(s) = SpikeThreshold
                 /\ \A i \in s : changes[i] = "FETCH_FAILED"
           /\ k[1] = "CONFLICTS" =>
                 /\ counted >= HighConflictThreshold
                 /\ signal[k].severity <= severity_for_atlas_high_conflict(counted)

(* Comparing neighbours is enough: an accident whose times, of whatever kinds   *)
(* are known, all have instants that are not in the usual order has a review    *)
(* about some contradiction of that very timeline once it is extracted          *)
(* (ExtractChronosTimelineFromEvent).                                           *)
InversionStep ==
    \A p \in Extractors :
        LET f == extractor[p]
        IN (/\ f # Idle
            /\ extractor'[p] = Idle
            /\ \A k \in Matched(f) : HasInstant(f[k])
            /\ \E j, k \in Matched(f) : j < k /\ f[j] > f[k])
              => \E i \in DOMAIN sequenceReviews' :
                    \A row \in sequenceReviews'[i] : row.raw = f[row.kind]

InversionNoticed == [][InversionStep]_vars
================================================================================
