---------------------------------- MODULE Orion ---------------------------------
(* Orion: entities (aircraft, operators, airports ...) extracted from the      *)
(* projection of an event.  An extraction is one transaction that goes through *)
(* the fields in a fixed order.  For each it takes an advisory lock on the     *)
(* identifier, looks the entity up, creates it if it is not there, attaches    *)
(* the identifiers, links the claim and upserts the relationship; other        *)
(* extractions see its rows when it commits, and wait for them where a unique  *)
(* index says so.                                                              *)
(*                                                                             *)
(* A projection is a record of the fields that have a usable value.  A mention *)
(* is what resolve_aircraft ... resolve_country make of a field: the type, the *)
(* primary identifier, further identifiers (airports only) and the name; an    *)
(* identifier is its type and its normalised value.                            *)
EXTENDS Integers, Sequences, FiniteSets

CONSTANTS
    Events,        \* accident events
    Projections,   \* [Events -> set of records of fields]: what is projected at times
    Normal,        \* [raw values -> normalised values]
    Codes,         \* raw values of three or four letters
    Claimed,       \* raw values that a claim still stands for
    Extractors,    \* extraction requests in flight
    EntityIds,     \* numbers; bound on the entities ever made
    MaxRuns,       \* bound on the extractions that commit
    None,          \* no subject
    Idle           \* a request slot nobody uses

VARIABLES
    entity,        \* set of [id, type, name]: orion_entities
    identifier,    \* set of [type, key, entity]: active orion_entity_identifiers
    relation,      \* set of [event, kind, subject, object]: orion_relationships
    link,          \* set of [entity, event, field, claim]: orion_entity_claim_links
    extraction,    \* [Extractors -> Extractions \cup {Idle}]
    done           \* sequence of [event, reading]: the extractions that committed

tables == <<entity, identifier, relation, link>>
vars   == <<tables, extraction, done>>

OrionEntityType == {"AIRCRAFT", "OPERATOR", "AIRCRAFT_TYPE", "MANUFACTURER", "AIRPORT",
                    "COUNTRY", "INVESTIGATION_AGENCY"}

Mention(type, key, extras, name) == [type |-> type, key |-> key, extras |-> extras, name |-> name]

Name(raw) == <<"name", Normal[raw]>>
_name_candidate(type, raw) == Mention(type, Name(raw), <<>>, raw)

(* The identifier drops the hyphens a registration is typed with, the name does not. *)
resolve_aircraft(raw) == Mention("AIRCRAFT", <<"registration", Normal[raw]>>, <<>>, raw)
resolve_operator(raw) == _name_candidate("OPERATOR", raw)
resolve_aircraft_type(raw) == Mention("AIRCRAFT_TYPE", <<"model", Normal[raw]>>, <<>>, raw)
resolve_manufacturer(raw) == _name_candidate("MANUFACTURER", raw)
resolve_country(raw) == _name_candidate("COUNTRY", raw)
resolve_investigation_agency(raw) == _name_candidate("INVESTIGATION_AGENCY", raw)

(* A code identifies the airport and the location is a further name of it;     *)
(* without a code the location comes first.                                    *)
resolve_airport(f) ==
    LET airport == "airport" \in DOMAIN f
        place   == "location" \in DOMAIN f
    IN CASE airport /\ f.airport \in Codes ->
              Mention("AIRPORT", <<"code", f.airport>>,
                      IF place THEN <<Name(f.location)>> ELSE <<>>, f.airport)
         [] place /\ (airport => f.airport \notin Codes) ->
              Mention("AIRPORT", Name(f.location),
                      IF airport /\ f.airport # f.location THEN <<Name(f.airport)>> ELSE <<>>,
                      f.location)
         [] OTHER -> Mention("AIRPORT", Name(f.airport), <<>>, f.airport)

(* The fields in the order in which execute goes through them. *)
IfPresent(f, field, resolve(_)) == IF field \in DOMAIN f THEN <<resolve(f[field])>> ELSE <<>>

Mentions(f) ==
    IfPresent(f, "registration", resolve_aircraft)
      \o IfPresent(f, "operator", resolve_operator)
      \o IfPresent(f, "aircraft_type", resolve_aircraft_type)
      \o IfPresent(f, "manufacturer", resolve_manufacturer)
      \o (IF {"airport", "location"} \cap DOMAIN f = {} THEN <<>> ELSE <<resolve_airport(f)>>)
      \o IfPresent(f, "country", resolve_country)
      \o IfPresent(f, "agency", resolve_investigation_agency)

Entities    == [id : EntityIds, type : OrionEntityType, name : DOMAIN Normal]
Identifiers == [type : OrionEntityType, entity : EntityIds,
                key : {"registration", "name", "model", "code"} \X DOMAIN Normal]
RelationshipKind == [AIRCRAFT |-> "INVOLVED_AIRCRAFT", OPERATOR |-> "OPERATED_BY",
                     AIRCRAFT_TYPE |-> "AIRCRAFT_TYPE", MANUFACTURER |-> "MANUFACTURED_BY",
                     AIRPORT |-> "OCCURRED_AT", COUNTRY |-> "LOCATED_IN",
                     INVESTIGATION_AGENCY |-> "INVESTIGATED_BY"]

(* The entity a relationship starts from, when it does not start at the event. *)
SubjectType == [OPERATOR |-> "AIRCRAFT", AIRCRAFT_TYPE |-> "AIRCRAFT",
                MANUFACTURER |-> "AIRCRAFT_TYPE", COUNTRY |-> "AIRPORT"]

Init ==
    /\ entity = {}
    /\ identifier = {}
    /\ relation = {}
    /\ link = {}
    /\ extraction = [x \in Extractors |-> Idle]
    /\ done = <<>>
--------------------------------------------------------------------------------
(* What a transaction sees and holds *)

Busy == {x \in Extractors : extraction[x] # Idle}

(* The mention being worked on, and the keys of it not yet attached. *)
Current(x) == extraction[x].reading[extraction[x].at]
Finished(x) == extraction[x].at > Len(extraction[x].reading)

SeenEntities(x)    == entity \cup extraction[x].entities
SeenIdentifiers(x) == identifier \cup extraction[x].identifiers

(* Ids are uuid4: never one that a running transaction has drawn. *)
DrawnIds == {e.id : e \in entity} \cup UNION {{e.id : e \in extraction[x].entities} : x \in Busy}

(* Mutant of lock_for_identifier_identity: no lock is taken. *)
NoLock(x, m) == TRUE

(* pg_advisory_xact_lock: held by nobody else; released when the holder ends. *)
lock_for_identifier_identity(x, m) ==
    \A y \in Busy \ {x} : <<m.type, m.key>> \notin extraction[y].locks

find_by_identifier(x, m) ==
    {e \in SeenEntities(x) : \E i \in SeenIdentifiers(x) :
        i.type = m.type /\ i.key = m.key /\ i.entity = e.id}

find_by_canonical_name(x, m) ==
    {e \in SeenEntities(x) : e.type = m.type /\ e.name = m.name}

(* An insert meets the uncommitted row of another transaction and waits for it. *)
InsertWaits(x, rowsOf(_), Same(_)) == \E y \in Busy \ {x} : \E r \in rowsOf(y) : Same(r)
--------------------------------------------------------------------------------
(* The route and the steps of ExtractOrionEntitiesFromEvent *)

(* The projection is read once; its fields are the mentions. *)
extract_entities_from_event(x, event, projection) ==
    /\ extraction[x] = Idle
    /\ Len(done) + Cardinality(Busy) < MaxRuns
    /\ extraction' = [extraction EXCEPT ![x] =
          [event |-> event, reading |-> Mentions(projection), at |-> 1, todo |-> <<>>, who |-> <<>>,
           locks |-> {}, entities |-> {}, identifiers |-> {}, relations |-> {}, links |-> {}]]
    /\ UNCHANGED <<tables, done>>

(* Mutant of Chosen: the entity is made without being looked up. *)
CreatedAnew(x, m) == {}

Chosen(x, m) ==
    IF find_by_identifier(x, m) # {} THEN find_by_identifier(x, m)
    ELSE find_by_canonical_name(x, m)

(* who is the sequence of the entities of the mentions done so far. *)
_resolve_or_create(x) ==
    LET m == Current(x)
        With(id, made) ==
            extraction' = [extraction EXCEPT
                ![x].locks = @ \cup {<<m.type, m.key>>}, ![x].who = Append(@, id),
                ![x].entities = @ \cup made, ![x].todo = <<m.key>> \o m.extras]
    IN /\ extraction[x] # Idle /\ ~ Finished(x)
       /\ Len(extraction[x].who) < extraction[x].at
       /\ lock_for_identifier_identity(x, m)
       /\ IF Chosen(x, m) # {}
          THEN \E e \in Chosen(x, m) : With(e.id, {})
          ELSE \E id \in EntityIds \ DrawnIds :
                  /\ \A other \in EntityIds \ DrawnIds : id <= other
                  /\ With(id, {[id |-> id, type |-> m.type, name |-> m.name]})
       /\ UNCHANGED <<tables, done>>

(* try_add: ON CONFLICT DO NOTHING on (type, key) of the active identifiers. *)
try_add(x, row) ==
    LET Same(r) == r.type = row.type /\ r.key = row.key
    IN IF \E r \in SeenIdentifiers(x) : Same(r)
       THEN extraction[x].identifiers ELSE extraction[x].identifiers \cup {row}

_attach_identifier(x) ==
    /\ extraction[x] # Idle /\ extraction[x].todo # <<>>
    /\ LET m   == Current(x)
           key == Head(extraction[x].todo)
           row == [type |-> m.type, key |-> key, entity |-> extraction[x].who[extraction[x].at]]
       IN /\ ~ InsertWaits(x, LAMBDA y : extraction[y].identifiers,
                           LAMBDA r : r.type = m.type /\ r.key = key)
          /\ extraction' = [extraction EXCEPT ![x].todo = Tail(@),
                                              ![x].identifiers = try_add(x, row)]
    /\ UNCHANGED <<tables, done>>

(* The entity of the subject's type among the mentions before this one. *)
Subject(x) ==
    LET types == {i \in 1..(extraction[x].at - 1) :
                     /\ Current(x).type \in DOMAIN SubjectType
                     /\ extraction[x].reading[i].type = SubjectType[Current(x).type]}
    IN IF types = {} THEN None ELSE extraction[x].who[CHOOSE i \in types : TRUE]

(* A type that hangs on a subject is related only when the subject is there. *)
_upsert_rel(x) ==
    IF Current(x).type \in DOMAIN SubjectType /\ Subject(x) = None THEN {}
    ELSE {[event |-> extraction[x].event, kind |-> RelationshipKind[Current(x).type],
           subject |-> Subject(x), object |-> extraction[x].who[extraction[x].at]]}

(* The claim that gave the projection its value, when there is still one; an   *)
(* event's claims on a field are told apart by their values.                   *)
_maybe_claim_link(x) ==
    {[entity |-> extraction[x].who[extraction[x].at], event |-> extraction[x].event,
      field |-> Current(x).type, claim |-> claim] : claim \in Claimed \cap {Current(x).name}}

(* The claim link and the relationship of the mention; both ON CONFLICT DO NOTHING. *)
LinkAndRelate(x) ==
    /\ extraction[x] # Idle /\ ~ Finished(x)
    /\ Len(extraction[x].who) = extraction[x].at
    /\ extraction[x].todo = <<>>
    /\ ~ InsertWaits(x, LAMBDA y : extraction[y].relations \cup extraction[y].links,
                     LAMBDA r : r \in _upsert_rel(x) \cup _maybe_claim_link(x))
    /\ extraction' = [extraction EXCEPT
          ![x].at = @ + 1,
          ![x].relations = @ \cup _upsert_rel(x),
          ![x].links = @ \cup _maybe_claim_link(x)]
    /\ UNCHANGED <<tables, done>>

Commit(x) ==
    /\ extraction[x] # Idle /\ Finished(x)
    /\ entity' = entity \cup extraction[x].entities
    /\ identifier' = identifier \cup extraction[x].identifiers
    /\ relation' = relation \cup extraction[x].relations
    /\ link' = link \cup extraction[x].links
    /\ done' = Append(done, [event |-> extraction[x].event, reading |-> extraction[x].reading])
    /\ extraction' = [extraction EXCEPT ![x] = Idle]

(* An error, a deadlock broken by the server, or a lost connection. *)
Rollback(x) ==
    /\ extraction[x] # Idle
    /\ extraction' = [extraction EXCEPT ![x] = Idle]
    /\ UNCHANGED <<tables, done>>

Next ==
    \E x \in Extractors :
        \/ \E event \in Events : \E projection \in Projections[event] :
              extract_entities_from_event(x, event, projection)
        \/ _resolve_or_create(x)
        \/ _attach_identifier(x)
        \/ LinkAndRelate(x)
        \/ Commit(x)
        \/ Rollback(x)

Spec == Init /\ [][Next]_vars
--------------------------------------------------------------------------------
(* Type invariant. *)
TypeOK ==
    /\ entity \subseteq Entities
    /\ identifier \subseteq Identifiers
    /\ \A r \in relation : r.event \in Events /\ r.subject \in EntityIds \cup {None}

(* "Concurrent extractors cannot race to create duplicate active entities"     *)
(* (_resolve_or_create): but for airports, whose further names are attached    *)
(* without a lock, no two entities of a type have one name, each has an        *)
(* identifier, and an identifier leads to one entity of its type.              *)
OneEntityPerName ==
    /\ \A d, e \in entity : d # e /\ d.type # "AIRPORT" => <<d.type, d.name>> # <<e.type, e.name>>
    /\ \A e \in entity : e.type # "AIRPORT" =>
          \E i \in identifier : i.entity = e.id /\ i.type = e.type
    /\ \A i, j \in identifier : i.type = j.type /\ i.key = j.key => i = j
    /\ \A i \in identifier : \E e \in entity : e.id = i.entity /\ e.type = i.type

(* The same of every type, as the comment says it. *)
NoDuplicateEntities ==
    \A e \in entity : \E i \in identifier : i.entity = e.id /\ i.type = e.type

(* Extracting an event again from the same projection changes nothing but for  *)
(* airports, whatever other extractions committed between the two              *)
(* (upsert_relationship, try_add and the claim links are idempotent).          *)
IdempotentStep ==
    (Len(done') > Len(done) /\ done'[Len(done')] \in {done[i] : i \in DOMAIN done}) =>
        /\ {e \in entity' : e.type # "AIRPORT"} = {e \in entity : e.type # "AIRPORT"}
        /\ {r \in relation' : r.kind \notin {"OCCURRED_AT", "LOCATED_IN"}}
              = {r \in relation : r.kind \notin {"OCCURRED_AT", "LOCATED_IN"}}
        /\ {k \in link' : k.field # "AIRPORT"} = {k \in link : k.field # "AIRPORT"}

ExtractionIdempotent == [][IdempotentStep]_vars
================================================================================
