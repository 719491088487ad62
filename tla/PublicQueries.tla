----------------------------- MODULE PublicQueries -----------------------------
(* What readers get: the public list, the search with its facets, the map with *)
(* its clusters and the related events, as functions of the tables Publication *)
(* keeps.  A query is a record whose absent facets are Null; as in SQL, a      *)
(* column that is NULL satisfies no facet.                                     *)
(*                                                                             *)
(* The columns of an index row are those of the projection it was made from,   *)
(* so they are constants of the event unless it had none; one facet of each    *)
(* kind stands for the others: equality (country) and a range (fatalities).    *)
(* ts_rank_cd gives equal texts equal ranks, and the rank of a query without   *)
(* text is last_published_at, which is the order recent.  Coordinates are      *)
(* whole degrees.                                                              *)
EXTENDS Publication

CONSTANTS
    Country,       \* [Events -> values]: the column of the projection, or Null
    Fatalities,    \* [Events -> Nat \cup {Null}]
    Position,      \* [Events -> [lng, lat]] of the located projections
    Queries,       \* the searches readers make
    Boxes,         \* the map windows they look at
    Precision,     \* cluster_precision
    MaxPoints,     \* the limit of a map query
    MaxCells,      \* MAX_CLUSTER_CELLS_PER_RESPONSE
    Relations,     \* set of <<event, entity>>: OPERATED_BY and AIRCRAFT_TYPE
    RelatedLimit,  \* PUBLIC_RELATED_LIMIT
    Null           \* an absent facet, or a NULL column

(* MapBoundingBox.__post_init__ *)
IsBox(box) ==
    /\ box.south \in -90..90 /\ box.north \in -90..90
    /\ box.west \in -180..180 /\ box.east \in -180..180
    /\ box.south <= box.north

(* SearchQuery.__post_init__ and MapQuery.__post_init__ *)
IsQuery(query) ==
    \/ Null \in {query.min, query.max}
    \/ query.min \in 0..query.max

ASSUME QueriesAssumption ==
    /\ \A query \in Queries : IsQuery(query)
    /\ \A box \in Boxes : IsBox(box)
    /\ \A e \in Events : Position[e].lng \in -180..180 /\ Position[e].lat \in -90..90
    /\ {Precision, MaxPoints, MaxCells, RelatedLimit} \subseteq Nat \ {0}
--------------------------------------------------------------------------------
(* Search *)

(* upsert: the columns of the row of page p in an index. *)
Column(index, p, values) ==
    IF index[p].facts = "none" THEN Null ELSE values[page[p].event]

(* The facets of a query, on the rows of either index. *)
_filters_predicate_sql(index, p, query) ==
    /\ query.country # Null => Column(index, p, Country) = query.country
    /\ query.min # Null => /\ Column(index, p, Fatalities) # Null
                           /\ Column(index, p, Fatalities) >= query.min
    /\ query.max # Null => /\ Column(index, p, Fatalities) # Null
                           /\ Column(index, p, Fatalities) <= query.max

has_text_query(query) == query.q # Null

(* search_vector @@ plainto_tsquery(q), and the facets. *)
Hits(query) ==
    {p \in Pages : /\ searchIndex[p] # NoEntry
                   /\ has_text_query(query) => searchIndex[p].text = query.q
                   /\ _filters_predicate_sql(searchIndex, p, query)}

RankOf(query, p) ==
    IF has_text_query(query) THEN 0
    ELSE Len(recent) - Place(p)

(* ORDER BY rank DESC, page_id DESC *)
Before(query, p, q) ==
    \/ RankOf(query, p) > RankOf(query, q)
    \/ RankOf(query, p) = RankOf(query, q) /\ p > q

(* At most limit rows of found in this order, with the cursor of the next ones. *)
FirstOf(found, limit, Precedes(_, _)) ==
    LET rows  == OrderBy(found, Precedes)
        items == SubSeq(rows, 1, IF Len(rows) > limit THEN limit ELSE Len(rows))
    IN [items |-> items, next |-> IF Len(rows) > limit THEN items[limit] ELSE NoPage]

search(query, limit, after) ==
    FirstOf({p \in Hits(query) : after # NoPage => Before(query, after, p)},
            limit, LAMBDA p, q : Before(query, p, q))

SearchPublicEvents(query, limit, after) == search(query, limit, after)

(* GET /search/events *)
search_events(query, limit, after) == SearchPublicEvents(query, limit, after)
--------------------------------------------------------------------------------
(* Map *)

crosses_antimeridian(box) == box.west > box.east

longitude_span(box) ==
    IF crosses_antimeridian(box) THEN (180 - box.west) + (box.east + 180)
    ELSE box.east - box.west

latitude_span(box) == box.north - box.south

(* ST_Intersects of the point with an envelope. *)
InEnvelope(at, west, south, east, north) ==
    at.lng \in west..east /\ at.lat \in south..north

_bbox_predicate_sql(box, at) ==
    IF crosses_antimeridian(box)
    THEN \/ InEnvelope(at, box.west, box.south, 180, box.north)
         \/ InEnvelope(at, -180, box.south, box.east, box.north)
    ELSE InEnvelope(at, box.west, box.south, box.east, box.north)

At(p) == Position[page[p].event]

PointsIn(box, query) ==
    {p \in Pages : /\ mapIndex[p] # NoEntry
                   /\ _bbox_predicate_sql(box, At(p))
                   /\ _filters_predicate_sql(mapIndex, p, query)}

NoFacet == [q |-> Null, country |-> Null, min |-> Null, max |-> Null]

(* ORDER BY last_published_at DESC, page_id DESC LIMIT limit + 1 *)
search_bbox(box, query, limit) ==
    LET found == FirstOf(PointsIn(box, query), limit, LAMBDA p, q : Before(NoFacet, p, q))
    IN [items |-> found.items, truncated |-> found.next # NoPage]

SearchMapPoints(box, query, limit) == search_bbox(box, query, limit)

(* GET /maps/events *)
map_events(box, query) == SearchMapPoints(box, query, MaxPoints)

(* The longitude on the axis that starts at the west edge of the box. *)
ShiftedLng(box, at) ==
    IF crosses_antimeridian(box) /\ at.lng < box.west THEN at.lng + 360 ELSE at.lng

(* The grid cell of a point.  A box without height has cells 1 / Precision high; *)
(* one without width is a division by zero, which the query does not guard.      *)
CellOf(box, at) ==
    [x |-> ((ShiftedLng(box, at) - box.west) * Precision) \div longitude_span(box),
     y |-> ((at.lat - box.south) * Precision)
              \div (IF latitude_span(box) > 0 THEN latitude_span(box) ELSE 1)]

(* GROUP BY xi, yi ORDER BY count DESC LIMIT MaxCells + 1: the points of each   *)
(* cell that is returned.  Which of equally full cells are cut is not defined;  *)
(* one of the choices is taken.                                                 *)
cluster_bbox(box, query) ==
    LET points == PointsIn(box, query)
        full   == {[cell   |-> c,
                    points |-> {p \in points : CellOf(box, At(p)) = c}] :
                      c \in {CellOf(box, At(p)) : p \in points}}
        rows   == OrderBy(full, LAMBDA c, d : Cardinality(c.points) > Cardinality(d.points))
    IN [cells     |-> SubSeq(rows, 1, IF Len(rows) > MaxCells THEN MaxCells ELSE Len(rows)),
        truncated |-> Len(rows) > MaxCells]

ClusterMapPoints(box, query) == cluster_bbox(box, query)

(* GET /maps/events/cluster *)
map_events_cluster(box, query) == ClusterMapPoints(box, query)

(* AVG(ST_X) of a cell: the average of the longitudes as they are stored,       *)
(* given as their sum; the average is sum / count.                              *)
CentroidSum(cell) == MapThenSumSet(LAMBDA p : At(p).lng, cell.points)
--------------------------------------------------------------------------------
(* Related events *)

get_by_event_id(event) == {p \in Stored : page[p].event = event}

(* Events that share an operator or an aircraft type with the canonical event;  *)
(* PUBLIC_RELATED_CANDIDATE_LIMIT is not reached.                               *)
CandidateEvents(event) ==
    {r[1] : r \in {r \in Relations : <<event, r[2]>> \in Relations}} \ {event}

(* GET /public/events/{slug}/related: the pages it names. *)
GetPublicEventRelated(slug) ==
    IF VisibilityOf(slug) # "visible" THEN {}
    ELSE LET event == CanonicalEvent(page[CHOOSE p \in get_by_slug(slug) : TRUE].event)
             found == {p \in UNION {get_by_event_id(e) : e \in CandidateEvents(event)} :
                          page[p].status = "PUBLISHED"}
         IN Range(FirstOf(found, RelatedLimit, LAMBDA p, q : Before(NoFacet, p, q)).items)
--------------------------------------------------------------------------------
(* Following next_cursor from the start until a page has none. *)
Walk(Fetch(_)) ==
    LET walk[n \in 0..Cardinality(Pages)] ==
            IF n = 0 THEN [got |-> <<>>, next |-> NoPage, more |-> TRUE]
            ELSE LET last == walk[n - 1]
                     here == Fetch(last.next)
                 IN IF ~ last.more THEN last
                    ELSE [got  |-> last.got \o here.items, next |-> here.next,
                          more |-> here.next # NoPage]
    IN walk[Cardinality(Pages)].got

(* GET /public/events, and GET /search/events, read to the end. *)
ListingOf(limit) == Walk(LAMBDA after : ListPublicEvents(limit, after))
SearchOf(query, limit) == Walk(LAMBDA after : search_events(query, limit, after))

(* The reference for the map: how far east of the west edge a point lies.  The *)
(* axis is closed: 180 and -180 are two longitudes, and a window reaches from  *)
(* one to the other only when it crosses the antimeridian.                     *)
EastOf(box, at) == at.lng - box.west + (IF at.lng < box.west THEN 360 ELSE 0)
Within(box, at) ==
    /\ EastOf(box, at) <= longitude_span(box)
    /\ at.lng < box.west => crosses_antimeridian(box)
    /\ at.lat \in box.south..box.north

Published == OrderBy(PagesIn({"PUBLISHED"}), Later)

(* The answer of a search is the published pages it describes, each once, and  *)
(* without text in the order of the list; of an adrift page nothing is said.   *)
SearchExact(query, limit) ==
    LET expected == {p \in PagesIn({"PUBLISHED"}) \ adrift :
                        /\ query.q # Null => page[p].text = query.q
                        /\ _filters_predicate_sql(searchIndex, p, query)}
        got      == SearchOf(query, limit)
    IN /\ Range(got) \ adrift = expected
       /\ Len(got) = Cardinality(Range(got))
       /\ query.q = Null /\ adrift = {} => got = OrderBy(expected, Later)

(* The map shows the published, located pages of the window, and its clusters  *)
(* hold each of them once, in a cell that contains it, unless cells were cut.  *)
MapExact(box) ==
    LET expected == {p \in Range(Published) \ adrift :
                        HasCoords(searchIndex[p].facts) /\ Within(box, At(p))}
        shown    == map_events(box, NoFacet)
        clusters == map_events_cluster(box, NoFacet)
        cells    == Range(clusters.cells)
        grouped  == UNION {c.points : c \in cells}
        span     == longitude_span(box)
    IN /\ Range(shown.items) \ adrift \subseteq expected
       /\ IF shown.truncated THEN Len(shown.items) = MaxPoints
          ELSE expected \subseteq Range(shown.items)
       /\ span > 0 =>
             /\ grouped \ adrift \subseteq expected
             /\ clusters.truncated \/ expected \subseteq grouped
             /\ MapThenSumSet(LAMBDA c : Cardinality(c.points), cells) = Cardinality(grouped)
             /\ \A c \in cells : \A p \in c.points :
                   LET east == EastOf(box, At(p)) * Precision
                   IN c.cell.x * span <= east /\ east < (c.cell.x + 1) * span

(* A projection that is owed: the event is not absorbed and has none so far. *)
AwaitsProjection(event) == mergedInto[event] = NoEvent /\ facts[event] = "none"

(* Readers see the published pages and nothing else, by whichever route they   *)
(* come: the list and the search read to the end with any page size, the map   *)
(* in any window and its clusters all agree with the editorial table           *)
(* (_search_indexing.py: "The search index contains exactly the set of         *)
(* PUBLISHED pages").  A reindex that editors disturb, before or after its     *)
(* DELETE, spoils at most the rows of the pages they published or withdrew     *)
(* meanwhile, and those only until they change again or the next reindex.      *)
(* The page of an absorbed event is served from the event that survives, and   *)
(* answers 404 only as long as that event awaits its projection.               *)
PublicRoutesAgree ==
    /\ \A limit \in 1..Cardinality(Pages) : ListingOf(limit) = Published
    /\ \A slug \in Slugs : GetPublicEventRelated(slug) \subseteq Range(Published)
    /\ \A p \in Range(Published) :
          GetPublicEventPage(page[p].slug) =
             IF AwaitsProjection(CanonicalEvent(page[p].event)) THEN "not found" ELSE "served"
    /\ {p \in Pages : searchIndex[p] # NoEntry} \ adrift = Range(Published) \ adrift
    /\ \A p \in Range(Published) \ adrift :
          searchIndex[p].slug = page[p].slug /\ searchIndex[p].text = page[p].text
    /\ \A query \in Queries, limit \in 1..Cardinality(Pages) : SearchExact(query, limit)
    /\ \A box \in Boxes : MapExact(box)

(* "centroid_* is the average of the points' coordinates inside the cell ...   *)
(* because it pulls toward the actual data" (MapClusterCell): it lies in the   *)
(* range of their longitudes, seen from the west edge of the box.              *)
CentroidInCell ==
    \A box \in Boxes : longitude_span(box) > 0 =>
        \A c \in Range(map_events_cluster(box, NoFacet).cells) :
            LET n    == Cardinality(c.points)
                mean == (CentroidSum(c) - n * box.west) % (360 * n)
            IN c.cell.x * longitude_span(box) * n <= mean * Precision
                 /\ mean * Precision < (c.cell.x + 1) * longitude_span(box) * n

(* A page is not related to itself, nor to another page of the same accident:  *)
(* GetPublicEventRelated drops "the current canonical event itself".           *)
RelatedAreOthers ==
    \A slug \in Slugs : \A p \in get_by_slug(slug), q \in GetPublicEventRelated(slug) :
        CanonicalEvent(page[q].event) # CanonicalEvent(page[p].event)
================================================================================
