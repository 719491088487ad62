--------------------------------- MODULE Records --------------------------------
(* The components whose tables nobody else writes, in one specification: a     *)
(* behaviour is a behaviour of one of them, chosen at the start, while the     *)
(* others rest.                                                                *)
EXTENDS Integers, Sequences, FiniteSets

CONSTANTS
    Callers,                                 \* requests in flight
    NoDoc, NoSub, NoRow, Gone, Idle, None, Blank, Vague,
    Docs, KindOf, Keys, Places, Texts,       \* Cms
    Existing, _CHANGELOG_LIST_MAX_LIMIT, Stale, MaxVersion, MaxWrites,
    AttributionIds, HfacsEvents, CategoryOf, HfacsValues,              \* Causality
    FactorIds, InteractionIds, SheloEvents, SheloValues, SheloInteractionKind, MaxEdits,
    OrionEvents, Projections, Normal, Codes, Claimed, EntityIds, MaxRuns,       \* Orion
    Kinds, Times, Projected, Extractors, Detectors, ChangeTypes,       \* Signals
    Decisions, ConflictBatches, Curated, RecentLimit, SpikeThreshold, MaxInputs, MaxReviews

VARIABLES
    part,                                                              \* who is at work
    doc, revisions, request,                                           \* Cms
    attribution, factor, interaction, usage, call,                     \* Causality
    entity, identifier, relation, link, extraction, done,              \* Orion
    fields, timeline, links, sequenceReviews, extractor, changes,      \* Signals
    conflicts, overtaken, inputs, signal, evidence, decisions, detector, reviewer

cmsVars       == <<doc, revisions, request>>
causalityVars == <<attribution, factor, interaction, usage, call>>
orionVars     == <<entity, identifier, relation, link, extraction, done>>
signalVars    == <<fields, timeline, links, sequenceReviews, extractor, changes,
                   conflicts, overtaken, inputs, signal, evidence, decisions,
                   detector, reviewer>>
vars          == <<part, cmsVars, causalityVars, orionVars, signalVars>>

CmsDocs == INSTANCE Cms WITH Editors <- Callers

(* The attributions and the graph are separate tables: one instance of each. *)
Hfacs == INSTANCE Causality WITH
    Analysts <- Callers, Events <- HfacsEvents, Values <- HfacsValues, MaxVersion <- MaxEdits,
    FactorIds <- {}, InteractionIds <- {}, SheloInteractionKind <- {}
Shelo == INSTANCE Causality WITH
    Analysts <- Callers, Events <- SheloEvents, Values <- SheloValues, MaxVersion <- MaxEdits,
    AttributionIds <- {}, CategoryOf <- <<>>

Registry == INSTANCE Orion WITH Extractors <- Callers, Events <- OrionEvents

Watch == INSTANCE Signals WITH Reviewers <- Callers

(* A document's row, with its place or none, and no marker. *)
CmsRows == [key : Keys, place : Places \cup {0}, text : Texts, status : CmsDocs!PublicationStatus,
            version : Nat, firstPublished : Nat, lastPublished : Nat]

(* What documents are sorted by are numbers, and those that are there already  *)
(* have ids and, within their kind, keys of their own.                         *)
ASSUME CmsAssumption ==
    /\ IsFiniteSet(Docs) /\ Docs \subseteq Int
    /\ Keys \subseteq Int /\ Places \subseteq Int /\ Texts \subseteq Int /\ Texts # {}
    /\ _CHANGELOG_LIST_MAX_LIMIT \in Nat \ {0}
    /\ \A x \in Existing : x.id \in Docs /\ x.key \in Keys /\ x.place \in Places \cup {0}
    /\ \A x, y \in Existing : x # y =>
          x.id # y.id /\ (KindOf[x.id] = KindOf[y.id] => x.key # y.key)
    /\ NoDoc \notin CmsRows /\ NoDoc \notin Docs

(* Markers are not rows, and only finitely many rows are ever made. *)
ASSUME CausalityAssumption ==
    /\ IsFiniteSet(AttributionIds)
    /\ MaxEdits \in Nat \ {0}
    /\ NoRow # Gone
    /\ \A marker \in {NoRow, Gone} :
          /\ marker \notin Hfacs!Attributions
          /\ marker \notin Shelo!Factors
          /\ marker \notin Shelo!Interactions

(* Kinds and instants are numbers, a slot nobody uses is not a row, and no     *)
(* failure at all is not a spike.                                              *)
ASSUME SignalsAssumption ==
    /\ IsFiniteSet(Kinds) /\ Kinds \subseteq Int
    /\ Times \subseteq Int /\ Blank \notin Times
    /\ RecentLimit \in Nat /\ SpikeThreshold \in Nat \ {0}
    /\ \A batch \in ConflictBatches : IsFiniteSet(batch)
    /\ Decisions \subseteq Watch!SignalStatus
    /\ Idle \notin [status : Watch!SignalStatus, severity : Nat, version : Nat]

Init ==
    /\ part \in {"cms", "hfacs", "shelo", "orion", "signals"}
    /\ CmsDocs!Init
    /\ IF part = "shelo" THEN Shelo!Init ELSE Hfacs!Init
    /\ Registry!Init
    /\ Watch!Init
    /\ part # "signals" => fields = CHOOSE f \in Projected : TRUE

Next ==
    /\ part' = part
    /\ \/ part = "cms" /\ CmsDocs!Next /\ UNCHANGED <<causalityVars, orionVars, signalVars>>
       \/ part = "hfacs" /\ Hfacs!Next /\ UNCHANGED <<cmsVars, orionVars, signalVars>>
       \/ part = "shelo" /\ Shelo!Next /\ UNCHANGED <<cmsVars, orionVars, signalVars>>
       \/ part = "orion" /\ Registry!Next /\ UNCHANGED <<cmsVars, causalityVars, signalVars>>
       \/ part = "signals" /\ Watch!Next /\ UNCHANGED <<cmsVars, causalityVars, orionVars>>

Spec == Init /\ [][Next]_vars
--------------------------------------------------------------------------------
(* Cms: the revisions of a document are its history of transitions. *)
TransitionTrail == part = "cms" => CmsDocs!TransitionTrail

(* Cms: the public lists hold exactly the published documents, page by page. *)
PublicLists == part = "cms" => CmsDocs!PublicLists

(* Causality: edges join stored factors of their event, natural keys are unique. *)
GraphWhole == IF part = "shelo" THEN Shelo!GraphWhole ELSE Hfacs!GraphWhole

(* Causality: of the edits made from one version of a row only one is kept. *)
EditsSerial == Hfacs!EditsSerial /\ Shelo!EditsSerial

(* Orion: concurrent extractions never make an entity twice, airports aside. *)
OneEntityPerName == part = "orion" => Registry!OneEntityPerName

(* Orion: no extraction makes an entity that owns no identifier. *)
NoDuplicateEntities == Registry!NoDuplicateEntities

(* Orion: extracting an unchanged projection again changes nothing. *)
ExtractionIdempotent == Registry!ExtractionIdempotent

(* Argus: the decisions of a signal explain its status. *)
DecisionStands == part = "signals" => Watch!DecisionStands

(* Argus: every signal has the evidence its type and severity claim. *)
SignalsGrounded == part = "signals" => Watch!SignalsGrounded

(* Chronos: a timeline out of order is under review once it is extracted. *)
InversionNoticed == Watch!InversionNoticed
================================================================================
