-------------------------------- MODULE Matching --------------------------------
(* What an ingestion makes of the claims it is given, before it touches the    *)
(* database: the field names and values of the source are normalised           *)
(* (SourceNormalizerRegistry), the normalised fields become an identity entry  *)
(* (_build_identity_entry) and are scored against the entries of other events  *)
(* (EventMatcher).  Pure operators.                                            *)
(*                                                                             *)
(* A field name is a pair: how it is spelled and its normalised key.  A value  *)
(* is a form and a content: a "date" holds a day number, a "number" an         *)
(* integer, a "text" a set of words; a registration is a "mark", or a "dashed" *)
(* mark when it is spelled with separators; "null", "blank" and "garbled" hold *)
(* nothing.  In an entry day 0 and the empty set of words stand for NULL, and  *)
(* the day Unread for the '' of a date that could not be read.                 *)
EXTENDS Integers, FiniteSets, Sequences, TLC

CONSTANTS
    NoMark,                  \* registration_norm IS NULL
    MaxRegistrationAliases   \* MAX_REGISTRATION_ALIASES

ASSUME MatchingAssumption == MaxRegistrationAliases \in Nat \ {0}

Spelling(name) == name[1]
normalise_field_key(name) == name[2]

Null == [form |-> "null"]

IsValue(v) ==
    /\ v.form = "date" => v.v \in Nat \ {0}
    /\ v.form = "text" => IsFiniteSet(v.v)

RequiredFields ==
    {"event_date", "location", "aircraft_type", "fatalities_total", "injuries_total",
     "operator", "registration", "flight_phase", "narrative"}

GenericExternalFieldMapper ==
    [k \in {"accident_date", "incident_date", "eventdate"} |-> "event_date"] @@
    [k \in {"tail_number", "tail_num", "tailnumber", "aircraft_registration",
            "aircraftregistration", "registration_number", "registrationnumber", "reg"}
         |-> "registration"] @@
    [k \in {"airline_name", "operator_name", "operatorname"} |-> "operator"] @@
    [k \in {"aircraft_model", "aircraftmodel", "aircraft_make_model"} |-> "aircraft_type"] @@
    ("fatalities" :> "fatalities_total") @@ ("injuries" :> "injuries_total")

Renamed(aliases, key) == IF key \in DOMAIN aliases THEN aliases[key] ELSE key

(* SourceFieldMapper.__init__ raises for a target that is not canonical.      *)
ValidMapping(mapping) == \A key \in DOMAIN mapping : mapping[key] \in RequiredFields

(* The source's own mapping first; what it leaves alone is tried with the     *)
(* generic aliases.                                                           *)
map_field_name(mapping, name) ==
    LET key == normalise_field_key(name)
        own == Renamed(mapping, key)
    IN IF own = key THEN Renamed(GenericExternalFieldMapper, key) ELSE own

--------------------------------------------------------------------------------
(* Coercion: the values a canonical field accepts; NULL for a blank text.     *)

coerce_date(v) == v.form \in {"null", "blank", "date"}

coerce_non_negative_int(v) == v.form = "null" \/ (v.form = "number" /\ v.v >= 0)

Coercible(field, v) ==
    CASE field = "event_date" -> coerce_date(v)
      [] field \in {"fatalities_total", "injuries_total"} -> coerce_non_negative_int(v)
      [] OTHER -> TRUE

coerce_string(v) == IF v.form = "blank" THEN Null ELSE v

Coerced(field, v) == IF field \in RequiredFields /\ Coercible(field, v) THEN coerce_string(v) ELSE v

(* A wrong date rejects the submission (nothing a registration can be is      *)
(* refused); any other field keeps its raw value.                             *)
IdentityCritical == {"event_date", "registration"}

NormalizationFails(field, v) ==
    \/ field = "event_date" /\ v.form = "blank"
    \/ field \in IdentityCritical /\ ~Coercible(field, v)

FieldName(kind, mapping, name) ==
    IF kind = "EXTERNAL" THEN map_field_name(mapping, name) ELSE Spelling(name)

(* _assert_no_duplicate_fields after the mapping.                             *)
DuplicateFields(kind, mapping, claims) ==
    \E a, b \in DOMAIN claims :
        a # b /\ FieldName(kind, mapping, a) = FieldName(kind, mapping, b)

normalise_claims(kind, mapping, claims) ==
    LET fields == {FieldName(kind, mapping, n) : n \in DOMAIN claims} IN
    [f \in fields |->
        LET v == claims[CHOOSE n \in DOMAIN claims : FieldName(kind, mapping, n) = f]
        IN IF kind = "EXTERNAL" THEN Coerced(f, v) ELSE v]

(* What _validate_and_hash and _load_and_normalise refuse.                    *)
Rejected(kind, mapping, claims) ==
    \/ DOMAIN claims = {}
    \/ /\ kind = "EXTERNAL"
       /\ \/ ~ValidMapping(mapping)
          \/ \E n \in DOMAIN claims :
                NormalizationFails(map_field_name(mapping, n), claims[n])
    \/ DuplicateFields(kind, mapping, claims)

--------------------------------------------------------------------------------
(* Identity entries.                                                          *)

Get(fields, f) == IF f \in DOMAIN fields THEN fields[f] ELSE Null

Unread == -1

_norm_date(v) ==
    CASE v.form = "date" -> v.v
      [] v.form = "null" -> 0
      [] OTHER           -> Unread

_norm_reg(v)  == IF v.form \in {"mark", "dashed"} THEN v.v ELSE NoMark
_norm(v)      == IF v.form = "text" THEN v.v ELSE {}

KeptAt(aliases, kept) ==
    [k \in 1 .. Cardinality(kept) |->
        aliases[CHOOSE i \in kept : Cardinality({j \in kept : j <= i}) = k]]

FirstSeen(aliases) ==
    KeptAt(aliases, {i \in 1 .. Len(aliases) : \A j \in 1 .. i - 1 : aliases[j] # aliases[i]})

(* cap_registration_norms and _capped_jsonb_union_sql: the last occurrence of *)
(* each alias, and of those the newest few.                                   *)
CappedAliases(aliases) ==
    LET Last(i) == \A j \in i + 1 .. Len(aliases) : aliases[j] # aliases[i]
        Newer(i) == {j \in i + 1 .. Len(aliases) : Last(j)}
    IN KeptAt(aliases, {i \in 1 .. Len(aliases) :
                          Last(i) /\ Cardinality(Newer(i)) < MaxRegistrationAliases})

InAliases(mark, aliases) == \E i \in 1 .. Len(aliases) : aliases[i] = mark

MarkOnly(mark) == IF mark = NoMark THEN <<>> ELSE <<mark>>

(* The registration, then aircraft_registration_numbers (a list of marks).    *)
_registration_norm_aliases(fields) ==
    LET listed == Get(fields, "aircraft_registration_numbers") IN
    CappedAliases(FirstSeen(MarkOnly(_norm_reg(Get(fields, "registration")))
                            \o (IF listed.form = "marks" THEN listed.v ELSE <<>>)))

_build_identity_entry(fields, record) ==
    [event_date        |-> _norm_date(Get(fields, "event_date")),
     registration      |-> _norm_reg(Get(fields, "registration")),
     operator          |-> _norm(Get(fields, "operator")),
     location          |-> _norm(Get(fields, "location")),
     aircraft_type     |-> _norm(Get(fields, "aircraft_type")),
     registration_norms |-> _registration_norm_aliases(fields),
     source_record_ids |-> record]

NoEntry ==
    [event_date |-> 0, registration |-> NoMark, operator |-> {}, location |-> {},
     aircraft_type |-> {}, registration_norms |-> <<>>, source_record_ids |-> {}]

(* COALESCE(first, second) column by column.                                  *)
Coalesce(first, second) ==
    [event_date    |-> IF first.event_date # 0 THEN first.event_date ELSE second.event_date,
     registration  |-> IF first.registration # NoMark THEN first.registration
                                                      ELSE second.registration,
     operator      |-> IF first.operator # {} THEN first.operator ELSE second.operator,
     location      |-> IF first.location # {} THEN first.location ELSE second.location,
     aircraft_type |-> IF first.aircraft_type # {} THEN first.aircraft_type
                                                   ELSE second.aircraft_type,
     registration_norms |-> first.registration_norms,
     source_record_ids |-> first.source_record_ids \cup second.source_record_ids]

(* upsert: what the newest submission says wins.                              *)
upsert(row, entry) ==
    [Coalesce(entry, row) EXCEPT
        !.registration_norms = CappedAliases(row.registration_norms \o entry.registration_norms)]

(* The row wins; the other registration is kept as an alias.                  *)
enrich_identity_index_from_alias(row, entry) ==
    [Coalesce(row, entry) EXCEPT
        !.registration_norms = CappedAliases(row.registration_norms \o entry.registration_norms
                                             \o MarkOnly(entry.registration))]

merge_identity_index(target, source) == enrich_identity_index_from_alias(target, source)

--------------------------------------------------------------------------------
(* EventMatcher.  Scores are in ten-thousandths: _WEIGHTS in hundredths, a    *)
(* field's score in percent.                                                  *)

HIGH_CONFIDENCE == 7500
UNCERTAIN_LOW   == 4000

_date_score(a, b) ==
    IF a <= 0 \/ b <= 0 THEN 0
    ELSE CASE a = b                  -> 100
           [] a - b \in {1, -1}      -> 50
           [] OTHER                  -> 0

RegistrationScore(a, b) == IF a # NoMark /\ a = b THEN 100 ELSE 0

_token_overlap(a, b) ==
    IF a = {} \/ b = {} THEN 0 ELSE (100 * Cardinality(a \cap b)) \div Cardinality(a \cup b)

(* A registration that is only an alias of the candidate counts half.         *)
AliasScore(incoming, candidate) ==
    IF /\ RegistrationScore(incoming.registration, candidate.registration) = 0
       /\ incoming.registration # NoMark
       /\ InAliases(incoming.registration, candidate.registration_norms)
    THEN 50 ELSE 0

score_match(incoming, candidate) ==
    45 * (RegistrationScore(incoming.registration, candidate.registration)
          + AliasScore(incoming, candidate))
    + 30 * _date_score(incoming.event_date, candidate.event_date)
    + 10 * _token_overlap(incoming.operator, candidate.operator)
    + 8 * _token_overlap(incoming.location, candidate.location)
    + 7 * _token_overlap(incoming.aircraft_type, candidate.aircraft_type)

(* The candidates of the top score, if it is worth anything.                  *)
best_match(incoming, entries, candidates) ==
    {e \in candidates :
        /\ score_match(incoming, entries[e]) > 0
        /\ \A f \in candidates :
              score_match(incoming, entries[f]) <= score_match(incoming, entries[e])}

(* Attach to the one best candidate, ask a curator, or neither.  A tie is     *)
(* never attached.                                                            *)
decide(incoming, entries, candidates) ==
    LET best  == best_match(incoming, entries, candidates)
        score == IF best = {} THEN 0 ELSE score_match(incoming, entries[CHOOSE e \in best : TRUE])
    IN [action |-> IF score >= HIGH_CONFIDENCE /\ Cardinality(best) = 1 THEN "attach"
                   ELSE IF score >= UNCERTAIN_LOW THEN "review" ELSE "new",
        events |-> best]
================================================================================
