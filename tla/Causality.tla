------------------------------- MODULE Causality -------------------------------
(* Causality analysis: HFACS attributions of an event to a category or         *)
(* subcategory, and the SHELO graph of factors and their interactions.         *)
(*                                                                             *)
(* A request first reads what it needs, without locks, and later writes and    *)
(* commits; whatever is decided between the two is decided by the constraints  *)
(* of the tables.  Ids are uuid4: the id of a deleted row is not used again.   *)
EXTENDS Workflow, Integers, FiniteSets

CONSTANTS
    AttributionIds, FactorIds, InteractionIds,   \* bounds on the rows ever made
    Events,        \* accident events
    CategoryOf,    \* [Subcategories -> Categories]
    NoSub,         \* subcategory_id IS NULL
    Values,        \* confidence and note, or class, label and description
    SheloInteractionKind,
    Analysts,      \* requests in flight
    MaxVersion,    \* bound on the edits of a row
    NoRow,         \* never inserted
    Gone,          \* deleted
    Idle           \* a request slot nobody uses

VARIABLES
    attribution,   \* [AttributionIds -> Attributions \cup {NoRow, Gone}]
    factor,        \* [FactorIds -> Factors \cup {NoRow, Gone}]
    interaction,   \* [InteractionIds -> Interactions \cup {NoRow, Gone}]
    usage,         \* UsageEvents of HFACS_ATTRIBUTION_CREATED
    call           \* [Analysts -> Calls \cup {Idle}]

tables == <<attribution, factor, interaction, usage>>
vars   == <<tables, call>>

Subcategories == DOMAIN CategoryOf
Categories    == {CategoryOf[sub] : sub \in Subcategories}

Attributions == [event : Events, category : Categories, sub : Subcategories \cup {NoSub},
                 value : Values, version : 1..MaxVersion]
Factors      == [event : Events, value : Values, version : 1..MaxVersion]
Interactions == [event : Events, source : FactorIds, target : FactorIds,
                 kind : SheloInteractionKind]

Present(table) == {i \in DOMAIN table : table[i] \notin {NoRow, Gone}}
Fresh(table, i) == table[i] = NoRow

Init ==
    /\ attribution = [i \in AttributionIds |-> NoRow]
    /\ factor = [i \in FactorIds |-> NoRow]
    /\ interaction = [i \in InteractionIds |-> NoRow]
    /\ usage = 0
    /\ call = [a \in Analysts |-> Idle]
--------------------------------------------------------------------------------
(* The constraints of the tables *)

NaturalKey(row) == <<row.event, row.category, row.sub>>

(* (event_id, category_id, COALESCE(subcategory_id, '0...')) *)
uq_event_hfacs_attributions_natural(row) ==
    \A i \in Present(attribution) : NaturalKey(attribution[i]) # NaturalKey(row)

uq_shelo_factor_interactions_natural(row) ==
    \A i \in Present(interaction) : interaction[i] # row

fk_factors(row) == {row.source, row.target} \subseteq Present(factor)

(* Mutant of ondelete_cascade: the edges of a deleted factor stay. *)
EdgesStay(f) == interaction

(* Deleting a factor deletes the interactions it is an end of. *)
ondelete_cascade(f) ==
    [i \in InteractionIds |->
        IF i \in Present(interaction) /\ f \in {interaction[i].source, interaction[i].target}
        THEN Gone ELSE interaction[i]]

(* Mutant of VersionMatches: the row is written whatever its version. *)
AnyVersion(table, i, expected) == i \in Present(table)

(* WHERE id = :id AND version = :expected_version *)
VersionMatches(table, i, expected) == i \in Present(table) /\ table[i].version = expected
--------------------------------------------------------------------------------
(* The requests up to their write *)

Begin(a, op, id, row) ==
    /\ call[a] = Idle
    /\ call' = [call EXCEPT ![a] = [op |-> op, id |-> id, row |-> row]]
    /\ UNCHANGED tables

(* find_natural finds nothing, and the subcategory is one of the category. *)
AttachEventHfacsAttribution(a, id, event, category, sub, value) ==
    LET row == [event |-> event, category |-> category, sub |-> sub,
                value |-> value, version |-> 1]
    IN /\ Fresh(attribution, id)
       /\ sub # NoSub => CategoryOf[sub] = category
       /\ uq_event_hfacs_attributions_natural(row)
       /\ Begin(a, "attach_hfacs", id, row)

Edited(row, value) == [row EXCEPT !.value = value, !.version = @ + 1]

(* The caller sends the version it was shown; a stale one is refused at once. *)
UpdateEventHfacsAttribution(a, id, value) ==
    /\ id \in Present(attribution)
    /\ attribution[id].version < MaxVersion
    /\ Begin(a, "update_hfacs", id, Edited(attribution[id], value))

DeleteEventHfacsAttribution(a, id) ==
    id \in Present(attribution) /\ Begin(a, "delete_hfacs", id, attribution[id])

AttachSheloFactor(a, id, event, value) ==
    /\ Fresh(factor, id)
    /\ Begin(a, "attach_factor", id, [event |-> event, value |-> value, version |-> 1])

UpdateSheloFactor(a, id, value) ==
    /\ id \in Present(factor)
    /\ factor[id].version < MaxVersion
    /\ Begin(a, "update_factor", id, Edited(factor[id], value))

DeleteSheloFactor(a, id) ==
    id \in Present(factor) /\ Begin(a, "delete_factor", id, factor[id])

OnEvent(f, event) == f \in Present(factor) /\ factor[f].event = event

AttachSheloInteraction(a, id, event, source, target, kind) ==
    LET row == [event |-> event, source |-> source, target |-> target, kind |-> kind]
    IN /\ Fresh(interaction, id)
       /\ source # target
       /\ OnEvent(source, event)
       /\ OnEvent(target, event)
       /\ uq_shelo_factor_interactions_natural(row)
       /\ Begin(a, "attach_interaction", id, row)

DeleteSheloInteraction(a, id) ==
    id \in Present(interaction) /\ Begin(a, "delete_interaction", id, interaction[id])
--------------------------------------------------------------------------------
(* The writes; each with the commit of its transaction *)

Expected(r) == r.row.version - 1

(* The attribution and its usage event are inserted together. *)
add_attribution(r) ==
    /\ Fresh(attribution, r.id)
    /\ uq_event_hfacs_attributions_natural(r.row)
    /\ attribution' = [attribution EXCEPT ![r.id] = r.row]
    /\ usage' = usage + 1
    /\ UNCHANGED <<factor, interaction>>

update_attribution(r) ==
    /\ VersionMatches(attribution, r.id, Expected(r))
    /\ attribution' = [attribution EXCEPT ![r.id] = r.row]
    /\ UNCHANGED <<factor, interaction, usage>>

(* DELETE by id, whatever the version is by now; a row that is gone stays so. *)
delete_attribution(r) ==
    /\ attribution' = [attribution EXCEPT ![r.id] = Gone]
    /\ UNCHANGED <<factor, interaction, usage>>

add_factor(r) ==
    /\ Fresh(factor, r.id)
    /\ factor' = [factor EXCEPT ![r.id] = r.row]
    /\ UNCHANGED <<attribution, interaction, usage>>

update_factor(r) ==
    /\ VersionMatches(factor, r.id, Expected(r))
    /\ factor' = [factor EXCEPT ![r.id] = r.row]
    /\ UNCHANGED <<attribution, interaction, usage>>

delete_factor(r) ==
    /\ factor' = [factor EXCEPT ![r.id] = Gone]
    /\ interaction' = ondelete_cascade(r.id)
    /\ UNCHANGED <<attribution, usage>>

add_interaction(r) ==
    /\ Fresh(interaction, r.id)
    /\ fk_factors(r.row)
    /\ uq_shelo_factor_interactions_natural(r.row)
    /\ interaction' = [interaction EXCEPT ![r.id] = r.row]
    /\ UNCHANGED <<attribution, factor, usage>>

delete_interaction(r) ==
    /\ interaction' = [interaction EXCEPT ![r.id] = Gone]
    /\ UNCHANGED <<attribution, factor, usage>>

Written(r) ==
    \/ r.op = "attach_hfacs" /\ add_attribution(r)
    \/ r.op = "update_hfacs" /\ update_attribution(r)
    \/ r.op = "delete_hfacs" /\ delete_attribution(r)
    \/ r.op = "attach_factor" /\ add_factor(r)
    \/ r.op = "update_factor" /\ update_factor(r)
    \/ r.op = "delete_factor" /\ delete_factor(r)
    \/ r.op = "attach_interaction" /\ add_interaction(r)
    \/ r.op = "delete_interaction" /\ delete_interaction(r)

Commit(a) ==
    /\ call[a] # Idle
    /\ Written(call[a])
    /\ call' = [call EXCEPT ![a] = Idle]

(* What the database, or the comparison of versions, refuses. *)
Refused(r) ==
    \/ r.op = "attach_hfacs"
       /\ ~ (Fresh(attribution, r.id) /\ uq_event_hfacs_attributions_natural(r.row))
    \/ r.op = "update_hfacs" /\ ~ VersionMatches(attribution, r.id, Expected(r))
    \/ r.op = "attach_factor" /\ ~ Fresh(factor, r.id)
    \/ r.op = "update_factor" /\ ~ VersionMatches(factor, r.id, Expected(r))
    \/ r.op = "attach_interaction"
       /\ ~ (/\ Fresh(interaction, r.id)
             /\ fk_factors(r.row)
             /\ uq_shelo_factor_interactions_natural(r.row))

(* A conflict, or an IntegrityError: the transaction is rolled back. *)
Refuse(a) ==
    /\ call[a] # Idle
    /\ Refused(call[a])
    /\ call' = [call EXCEPT ![a] = Idle]
    /\ UNCHANGED tables
--------------------------------------------------------------------------------
(* The editorial routes: the role, then the use case. *)

_EDITORS == {"ADMIN", "REVIEWER"}

attach_event_hfacs(a, id) ==
    \E event \in Events, category \in Categories, sub \in Subcategories \cup {NoSub},
       value \in Values : AttachEventHfacsAttribution(a, id, event, category, sub, value)
update_event_hfacs(a, id) == \E value \in Values : UpdateEventHfacsAttribution(a, id, value)
delete_event_hfacs(a, id) == DeleteEventHfacsAttribution(a, id)

attach_shelo_factor(a, id) ==
    \E event \in Events, value \in Values : AttachSheloFactor(a, id, event, value)
update_shelo_factor(a, id) == \E value \in Values : UpdateSheloFactor(a, id, value)
delete_shelo_factor(a, id) == DeleteSheloFactor(a, id)

attach_shelo_interaction(a, id) ==
    \E event \in Events, source, target \in FactorIds, kind \in SheloInteractionKind :
        AttachSheloInteraction(a, id, event, source, target, kind)
delete_shelo_interaction(a, id) == DeleteSheloInteraction(a, id)

Next ==
    \/ \E a \in Analysts, role \in Role :
          /\ role \in _EDITORS
          /\ \/ \E id \in AttributionIds : \/ attach_event_hfacs(a, id)
                                           \/ update_event_hfacs(a, id)
                                           \/ delete_event_hfacs(a, id)
             \/ \E id \in FactorIds : \/ attach_shelo_factor(a, id)
                                      \/ update_shelo_factor(a, id)
                                      \/ delete_shelo_factor(a, id)
             \/ \E id \in InteractionIds : \/ attach_shelo_interaction(a, id)
                                           \/ delete_shelo_interaction(a, id)
    \/ \E a \in Analysts : Commit(a) \/ Refuse(a)

Spec == Init /\ [][Next]_vars
--------------------------------------------------------------------------------
(* Type invariant. *)
TypeOK ==
    /\ attribution \in [AttributionIds -> Attributions \cup {NoRow, Gone}]
    /\ factor \in [FactorIds -> Factors \cup {NoRow, Gone}]
    /\ interaction \in [InteractionIds -> Interactions \cup {NoRow, Gone}]
    /\ usage \in Nat

(* The graph is whole however requests interleave (AttachSheloInteraction      *)
(* checks the factors and inserts later, DeleteSheloFactor may commit between  *)
(* the two): an interaction joins two different stored factors of its own      *)
(* event, no edge of one kind is there twice, and an event is not attributed   *)
(* twice to a category, nor twice to a subcategory.  Every attribution that    *)
(* was ever committed was metered once: a refused insert leaves no usage event *)
(* and a deletion takes none back.                                             *)
GraphWhole ==
    /\ \A i \in Present(interaction) :
          LET edge == interaction[i]
          IN /\ edge.source # edge.target
             /\ \A f \in {edge.source, edge.target} :
                   f \in Present(factor) /\ factor[f].event = edge.event
    /\ \A i, j \in Present(interaction) : i # j => interaction[i] # interaction[j]
    /\ \A i, j \in Present(attribution) :
          i # j => NaturalKey(attribution[i]) # NaturalKey(attribution[j])
    /\ \A i \in Present(attribution) :
          attribution[i].sub # NoSub => CategoryOf[attribution[i].sub] = attribution[i].category
    /\ usage = Cardinality({i \in AttributionIds : attribution[i] # NoRow})

(* A step leaves a row as it is, deletes it, or replaces it by an edit of it. *)
EditStep ==
    /\ \A i \in Present(attribution) :
          attribution'[i] \in {attribution[i], Gone}
          \/ /\ attribution'[i].version = attribution[i].version + 1
             /\ NaturalKey(attribution'[i]) = NaturalKey(attribution[i])
    /\ \A f \in Present(factor) :
          factor'[f] \in {factor[f], Gone}
          \/ /\ factor'[f].version = factor[f].version + 1
             /\ factor'[f].event = factor[f].event

(* Of the edits made from one version of a row only one is kept, and what it   *)
(* keeps of the row is the row it replaces.                                    *)
EditsSerial == [][EditStep]_vars
================================================================================
