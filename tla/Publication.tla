------------------------------ MODULE Publication ------------------------------
(* Public event pages: the editorial workflow, its revision trail, the search  *)
(* and map indexes that publishing maintains, the administrator's reindex, and *)
(* what the public routes answer.                                              *)
(*                                                                             *)
(* A request of an editor is two steps.  It loads the page, checks the         *)
(* transition and computes the new row; later it writes that row where the     *)
(* version is still the one its caller was shown, with the revision and the    *)
(* index writes of the same transaction.  Between the two, other requests      *)
(* commit.  ReindexPublicEvents reads the published pages batch by batch, then *)
(* deletes and rewrites the rows of the search index and of the map index, and *)
(* commits.  It locks no page; an index row it has deleted or written is locked *)
(* until it ends, and a request that wants that row waits.  PostgreSQL runs at *)
(* READ COMMITTED: a DELETE that waited for a row which is then gone removes   *)
(* nothing, though another row of the page stands in its place.                *)
(*                                                                             *)
(* updated_at is kept as the order recent of the last commits; as only a       *)
(* publish writes a PUBLISHED row, the published pages stand in it in the      *)
(* order of last_published_at.  first_ and last_published_at are the versions  *)
(* those publications wrote.  The title, summary and narrative are one text.   *)
EXTENDS Workflow, Integers, SequencesExt, FiniteSets

CONSTANTS
    Pages,         \* ids of public_event_pages; bound on pages ever created
    Events,        \* accident events
    Slugs,         \* normalised slugs
    Texts,         \* editorial texts
    Editors,       \* requests in flight
    Stale,         \* how many versions behind a caller's expected_version may be
    MaxVersion,    \* bound on the writes of a page
    MaxWrites,     \* bound on the writes of all pages
    Existing,      \* [page, event, slug, text] of the pages published before
    Unsettled,     \* events whose evidence changes while the pages are edited
    BatchSize,     \* _REINDEX_BATCH_SIZE
    NoPage,        \* no row
    NoEntry,       \* no index row
    NoEvent,       \* merged_into_event_id IS NULL
    Idle           \* a request slot nobody uses

VARIABLES
    page,          \* [Pages -> PageRows \cup {NoPage}]
    revisions,     \* [Pages -> Seq(Revisions)]
    recent,        \* ids of the stored pages, latest updated_at first
    facts,         \* [Events -> Facts]: the projection of each event
    mergedInto,    \* [Events -> Events \cup {NoEvent}]
    searchIndex,   \* [Pages -> Entries \cup {NoEntry}]
    mapIndex,      \* [Pages -> Entries \cup {NoEntry}]
    request,       \* [Editors -> Requests \cup {Idle}]
    reindex,       \* the ReindexPublicEvents transaction
    adrift         \* pages whose index rows a race may have left wrong

pageVars  == <<page, revisions, recent>>
eventVars == <<facts, mergedInto>>
indexVars == <<searchIndex, mapIndex, reindex, adrift>>
vars      == <<pageVars, eventVars, indexVars, request>>

(* What the indexers tell apart in a projection: its absence, and whether it   *)
(* has coordinates that parse and lie on the globe.                            *)
Facts == {"none", "bare", "located"}

PageRows == [event : Events, slug : Slugs, text : Texts, status : PublicationStatus,
             version : 1..MaxVersion, firstPublished : 0..MaxVersion,
             lastPublished : 0..MaxVersion]

Revisions == [version : 1..MaxVersion, from : PublicationStatus \cup {"NONE"},
              to : PublicationStatus, text : Texts]

SearchEntries == [slug : Slugs, text : Texts, facts : Facts]
MapEntries    == [slug : Slugs, text : Texts, facts : {"located"}]

Transitions == {"submit", "request_changes", "approve", "reject",
                "publish", "archive", "reopen", "retract"}

Indexes == {"search", "map"}

(* A request has its caller's version and the row it will write.  When a       *)
(* reindex holds it up: the indexes it has turned to, the last of which it     *)
(* waits for; the projection it had read by then; whether the reindex has      *)
(* committed since, and from which indexes it failed to remove the page.       *)
Requests == [page : Pages, expected : 1..MaxVersion, from : PublicationStatus, row : PageRows,
             begun : {{}, {"search"}, Indexes}, fact : Facts,
             released : BOOLEAN, missed : SUBSET Indexes]

(* Finitely many pages, whose ids can be compared, and events, bounds that     *)
(* leave room for a publication, pages that the constraints of the table       *)
(* admit, and markers that are no rows.                                        *)
ASSUME PublicationAssumption ==
    /\ IsFiniteSet(Pages) /\ Pages \subseteq Int /\ NoPage \notin Pages
    /\ IsFiniteSet(Events) /\ NoEvent \notin Events
    /\ MaxVersion \in Nat /\ MaxVersion >= 4
    /\ BatchSize \in Nat \ {0}
    /\ Stale \in Nat
    /\ Existing \subseteq [page : Pages, event : Events, slug : Slugs, text : Texts]
    /\ \A x, y \in Existing : x # y => x.page # y.page /\ x.event # y.event /\ x.slug # y.slug
    /\ NoPage \notin PageRows
    /\ NoPage \notin [status : PublicationStatus, version : Nat]
    /\ NoEntry \notin SearchEntries
    /\ Idle \notin Requests

(* The reindex: reading the pages after the cursor, about to rewrite one of    *)
(* the indexes, or to commit; what it found, the pages whose row it deleted    *)
(* from each index, and those that entered or left PUBLISHED since it began.   *)
Reindex(stage, after, found, touched) ==
    [stage |-> stage, after |-> after, found |-> found, touched |-> touched,
     cleared |-> [i \in Indexes |-> {}]]
NoReindex == Reindex("none", NoPage, {}, {})

(* The validator of PublicEventPage: a row that breaks it cannot be loaded. *)
check_status_timestamps(row) == row.status = "PUBLISHED" => row.lastPublished > 0

(* The page and the trail that create, submit, approve and publish leave. *)
PublishedRow(x) ==
    [event |-> x.event, slug |-> x.slug, text |-> x.text, status |-> "PUBLISHED",
     version |-> 4, firstPublished |-> 4, lastPublished |-> 4]

PublishedTrail(x) ==
    LET path == <<"NONE", "DRAFT", "IN_REVIEW", "APPROVED", "PUBLISHED">>
    IN [i \in 1..4 |-> [version |-> i, from |-> path[i], to |-> path[i + 1], text |-> x.text]]

ExistingAt(p, Made(_), none) ==
    IF \E x \in Existing : x.page = p
    THEN Made(CHOOSE x \in Existing : x.page = p) ELSE none

(* Settled events are projected with coordinates, the others not yet; pages     *)
(* about either may have been published.                                        *)
Init ==
    /\ page = [p \in Pages |-> ExistingAt(p, PublishedRow, NoPage)]
    /\ revisions = [p \in Pages |-> ExistingAt(p, PublishedTrail, <<>>)]
    /\ recent = SetToSeq({x.page : x \in Existing})
    /\ facts = [e \in Events |-> IF e \in Unsettled THEN "none" ELSE "located"]
    /\ mergedInto = [e \in Events |-> NoEvent]
    /\ searchIndex = [p \in Pages |-> ExistingAt(p,
          LAMBDA x : [slug |-> x.slug, text |-> x.text, facts |-> facts[x.event]], NoEntry)]
    /\ mapIndex = [p \in Pages |->
          IF searchIndex[p] # NoEntry /\ searchIndex[p].facts = "located"
          THEN searchIndex[p] ELSE NoEntry]
    /\ request = [e \in Editors |-> Idle]
    /\ reindex = NoReindex
    /\ adrift = {}
--------------------------------------------------------------------------------
(* The tables *)

Stored == {p \in Pages : page[p] # NoPage}
PagesIn(statuses) == {p \in Stored : page[p].status \in statuses}

Writes == LET total[n \in 0..Len(recent)] ==
                  IF n = 0 THEN 0 ELSE total[n - 1] + page[recent[n]].version
          IN total[Len(recent)]

(* ORDER BY: some list of the rows, none of them before one that precedes it. *)
OrderBy(rows, Precedes(_, _)) ==
    CHOOSE order \in SetToSeqs(rows) :
        \A i, j \in DOMAIN order : i < j => ~ Precedes(order[j], order[i])

(* updated_at DESC *)
Place(p) == CHOOSE i \in DOMAIN recent : recent[i] = p
Later(p, q) == Place(p) < Place(q)

Touch(p) == <<p>> \o OrderBy(Stored \ {p}, Later)

uq_slug(p, slug)   == \A q \in Stored \ {p} : page[q].slug # slug
uq_event(p, event) == \A q \in Stored \ {p} : page[q].event # event

(* INSERT INTO public_event_pages; SlugAlreadyTaken and AlreadyExists otherwise. *)
add(p, row) ==
    /\ page[p] = NoPage
    /\ uq_slug(p, row.slug)
    /\ uq_event(p, row.event)
    /\ page' = [page EXCEPT ![p] = row]
    /\ recent' = Touch(p)

(* Mutant of VersionMatches: the row is written whatever its version. *)
AnyVersion(p, expected) == page[p] # NoPage

(* WHERE id = :id AND version = :expected_version *)
VersionMatches(p, expected) == page[p].version = expected

update(p, row, expected) ==
    /\ VersionMatches(p, expected)
    /\ uq_slug(p, row.slug)
    /\ page' = [page EXCEPT ![p] = row]
    /\ recent' = Touch(p)

add_revision(p, row, from) ==
    revisions' = [revisions EXCEPT ![p] =
                     Append(@, [version |-> row.version, from |-> from,
                                to |-> row.status, text |-> row.text])]

list_revisions(p) == revisions[p]

(* One keyset page: at most limit rows of these statuses, after the row of the *)
(* cursor in the order.  A cursor that is not such a row any more is ignored.  *)
Keyset(statuses, limit, after) ==
    LET listed == OrderBy(PagesIn(statuses), Later)
        start  == IF \E i \in DOMAIN listed : listed[i] = after
                  THEN CHOOSE i \in DOMAIN listed : listed[i] = after ELSE 0
        rest   == SubSeq(listed, start + 1, Len(listed))
        items  == IF Len(rest) > limit THEN SubSeq(rest, 1, limit) ELSE rest
    IN [items |-> items,
        next  |-> IF Len(rest) > limit THEN items[limit] ELSE NoPage]

list_editorial(statuses, limit, after) == Keyset(statuses, limit, after)
list_published(limit, after) == Keyset({"PUBLISHED"}, limit, after)
--------------------------------------------------------------------------------
(* The indexes *)

search_entry(row, fact) == [slug |-> row.slug, text |-> row.text, facts |-> fact]

HasCoords(fact) == fact = "located"
map_entry(row, fact) == IF HasCoords(fact) THEN search_entry(row, fact) ELSE NoEntry

(* What a request leaves in an index: the entry, or no row where it removes the *)
(* page and finds the row to remove.                                           *)
Put(index, p, entry, missed) ==
    [index EXCEPT ![p] = IF entry = NoEntry /\ missed THEN @ ELSE entry]

index_published_page(p, row, fact) ==
    searchIndex' = Put(searchIndex, p, search_entry(row, fact), FALSE)

(* The map row is written when there are coordinates and deleted otherwise. *)
index_published_page_in_map(p, row, fact, missed) ==
    mapIndex' = Put(mapIndex, p, map_entry(row, fact), missed)

remove_page_from_index(p, missed) == searchIndex' = Put(searchIndex, p, NoEntry, missed)

remove_page_from_map(p, missed) == mapIndex' = Put(mapIndex, p, NoEntry, missed)
--------------------------------------------------------------------------------
(* The editorial use cases *)

_EDITORIAL_ROLES  == {"ADMIN", "REVIEWER"}
_RETRACTION_ROLES == {"ADMIN"}

RolesOf(op) == IF op = "retract" THEN _RETRACTION_ROLES ELSE _EDITORIAL_ROLES

TargetOf(op) ==
    CASE op = "submit"                                  -> "IN_REVIEW"
      [] op = "approve"                                 -> "APPROVED"
      [] op = "publish"                                 -> "PUBLISHED"
      [] op = "archive"                                 -> "ARCHIVED"
      [] op = "retract"                                 -> "RETRACTED"
      [] op \in {"request_changes", "reject", "reopen"} -> "DRAFT"

StatusMutation(row, to) == [row EXCEPT !.status = to, !.version = @ + 1]

(* Mutant of PublishMutation: publishing again restarts first_published_at. *)
PublishAfresh(row) ==
    [StatusMutation(row, "PUBLISHED") EXCEPT
        !.firstPublished = row.version + 1, !.lastPublished = row.version + 1]

PublishMutation(row) ==
    [StatusMutation(row, "PUBLISHED") EXCEPT
        !.firstPublished = IF row.firstPublished = 0 THEN row.version + 1 ELSE @,
        !.lastPublished = row.version + 1]

(* The row a transition writes; the note of a retraction is not kept here. *)
Mutation(op, row) ==
    IF op = "publish" THEN PublishMutation(row) ELSE StatusMutation(row, TargetOf(op))

CreatePublicEventPage(p, role, event, slug, text) ==
    LET row == [event |-> event, slug |-> slug, text |-> text, status |-> "DRAFT",
                version |-> 1, firstPublished |-> 0, lastPublished |-> 0]
    IN /\ role \in _EDITORIAL_ROLES
       /\ add(p, row)
       /\ add_revision(p, row, "NONE")
       /\ UNCHANGED <<eventVars, indexVars, request>>

(* A caller sends the version some answer showed it, the current one or older. *)
ShownVersions(p) == {v \in 1..page[p].version : v >= page[p].version - Stale}

WithinBounds(row) == row.version <= MaxVersion /\ Writes < MaxWrites

Begin(e, p, expected, row) ==
    /\ request[e] = Idle
    /\ WithinBounds(row)
    /\ request' = [request EXCEPT ![e] =
                      [page |-> p, expected |-> expected, from |-> page[p].status, row |-> row,
                       begun |-> {}, fact |-> "none", released |-> FALSE, missed |-> {}]]
    /\ UNCHANGED <<pageVars, eventVars, indexVars>>

(* Mutant of EditableNow: published pages can be edited in place. *)
EditableAnywhere(p) == page[p].status \in {"DRAFT", "PUBLISHED"}

EditableNow(p) == page[p].status = "DRAFT"

UpdatePublicEventPage(e, p, role, expected, slug, text) ==
    /\ role \in _EDITORIAL_ROLES
    /\ EditableNow(p)
    /\ Begin(e, p, expected,
             [page[p] EXCEPT !.slug = slug, !.text = text, !.version = @ + 1])

(* SubmitPublicEventPage ... RetractPublicEventPage up to the UPDATE. *)
TransitionUseCase(e, p, role, op, expected) ==
    /\ role \in RolesOf(op)
    /\ validate_transition(page[p].status, TargetOf(op))
    /\ Begin(e, p, expected, Mutation(op, page[p]))

(* The statements of a transition on the indexes. *)
Publishes(r) == r.row.status = "PUBLISHED"
Withdraws(r) == r.row.status \in {"ARCHIVED", "RETRACTED"}

(* projections.get, before the statement that waits if one does. *)
FactFor(r, i) == IF i \in r.begun THEN r.fact ELSE facts[r.row.event]

Removes(r, i) == Withdraws(r) \/ (Publishes(r) /\ i = "map" /\ ~ HasCoords(FactFor(r, "map")))

(* The two indexes are given different projections. *)
Torn(r) == Publishes(r) /\ FactFor(r, "search") # FactFor(r, "map")

Located(found) == {f \in found : HasCoords(f.entry.facts)}

(* The rows the reindex writes to an index, and whether it has. *)
FoundFor(i) == IF i = "map" THEN Located(reindex.found) ELSE reindex.found
Rewritten(i) == reindex.stage = "commit" \/ (i = "search" /\ reindex.stage = "map")

(* A row the reindex deleted holds up whatever wants it; one it inserted is    *)
(* invisible to a DELETE, and holds up an upsert by the unique page_id.        *)
HeldUp(r, i) ==
    /\ Publishes(r) \/ Withdraws(r)
    /\ Rewritten(i)
    /\ \/ r.page \in reindex.cleared[i]
       \/ ~ Removes(r, i) /\ r.page \in {f.page : f \in FoundFor(i)}

(* The hook of the subclass, in the transaction of the status change. *)
PostTransitionHook(r) ==
    CASE Publishes(r) ->
            /\ index_published_page(r.page, r.row, FactFor(r, "search"))
            /\ index_published_page_in_map(r.page, r.row, FactFor(r, "map"), "map" \in r.missed)
      [] Withdraws(r) ->
            /\ remove_page_from_index(r.page, "search" \in r.missed)
            /\ remove_page_from_map(r.page, "map" \in r.missed)
      [] OTHER -> UNCHANGED <<searchIndex, mapIndex>>

(* No other request has updated the row of the page and waits for an index. *)
RowFree(e) ==
    \A d \in Editors \ {e} :
        request[d] # Idle /\ request[d].page = request[e].page => request[d].begun = {}

(* The UPDATE is done, and a statement on an index has to wait for the reindex. *)
Wait(e) ==
    LET r == request[e]
    IN /\ r # Idle /\ r.begun = {}
       /\ RowFree(e)
       /\ VersionMatches(r.page, r.expected)
       /\ \E i \in Indexes : HeldUp(r, i)
       /\ request' = [request EXCEPT
             ![e].begun = IF HeldUp(r, "search") THEN {"search"} ELSE Indexes,
             ![e].fact = IF Publishes(r) THEN facts[r.row.event] ELSE @]
       /\ UNCHANGED <<pageVars, eventVars, indexVars>>

Commit(e) ==
    LET r == request[e]
    IN /\ r # Idle
       /\ IF r.begun = {} THEN \A i \in Indexes : ~ HeldUp(r, i) ELSE r.released
       /\ RowFree(e)
       /\ update(r.page, r.row, r.expected)
       /\ add_revision(r.page, r.row, r.from)
       /\ PostTransitionHook(r)
       /\ reindex' = IF reindex.stage # "none" /\ "PUBLISHED" \in {r.from, r.row.status}
                     THEN [reindex EXCEPT !.touched = @ \cup {r.page}] ELSE reindex
       /\ adrift' = IF ~ (Publishes(r) \/ Withdraws(r)) THEN adrift
                    ELSE IF r.missed # {} \/ Torn(r) THEN adrift \cup {r.page}
                    ELSE adrift \ {r.page}
       /\ request' = [request EXCEPT ![e] = Idle]
       /\ UNCHANGED eventVars

(* PublicEventPageModified or SlugAlreadyTaken: the transaction rolls back. *)
Refuse(e) ==
    LET r == request[e]
    IN /\ r # Idle
       /\ ~ (VersionMatches(r.page, r.expected) /\ uq_slug(r.page, r.row.slug))
       /\ request' = [request EXCEPT ![e] = Idle]
       /\ UNCHANGED <<pageVars, eventVars, indexVars>>
--------------------------------------------------------------------------------
(* ReindexPublicEvents *)

StartReindex ==
    /\ reindex.stage = "none"
    /\ Stored # {}
    /\ reindex' = Reindex("read", NoPage, {}, {})
    /\ UNCHANGED <<pageVars, eventVars, searchIndex, mapIndex, adrift, request>>

(* One batch of the walk, with the projection of each of its pages. *)
Batch == list_editorial({"PUBLISHED"}, BatchSize, reindex.after)

Collected ==
    LET items == {Batch.items[i] : i \in DOMAIN Batch.items}
    IN {f \in reindex.found : f.page \notin items}
         \cup {[page |-> p, entry |-> search_entry(page[p], facts[page[p].event])] : p \in items}

(* Mutant of NextBatch: what the last, partial batch holds is not collected. *)
DropLastBatch ==
    /\ reindex.stage = "read"
    /\ reindex' = IF Batch.next = NoPage
                  THEN [reindex EXCEPT !.stage = "search"]
                  ELSE Reindex("read", Batch.next, Collected, reindex.touched)
    /\ UNCHANGED <<pageVars, eventVars, searchIndex, mapIndex, adrift, request>>

NextBatch ==
    /\ reindex.stage = "read"
    /\ reindex' = Reindex(IF Batch.next = NoPage THEN "search" ELSE "read",
                          Batch.next, Collected, reindex.touched)
    /\ UNCHANGED <<pageVars, eventVars, searchIndex, mapIndex, adrift, request>>

(* DELETE of the rows that are there, then an upsert of each collected one. *)
rebuild_all_from(i, index, next) ==
    reindex' = [reindex EXCEPT
        !.stage = next, !.cleared[i] = {p \in Pages : index[p] # NoEntry}]

(* The DELETE waits for the requests an earlier reindex held up. *)
RebuildSearch ==
    /\ reindex.stage = "search"
    /\ \A e \in Editors : request[e] # Idle => request[e].begun = {}
    /\ rebuild_all_from("search", searchIndex, "map")
    /\ UNCHANGED <<pageVars, eventVars, searchIndex, mapIndex, adrift, request>>

RebuildMap ==
    /\ reindex.stage = "map"
    /\ rebuild_all_from("map", mapIndex, "commit")
    /\ UNCHANGED <<pageVars, eventVars, searchIndex, mapIndex, adrift, request>>

(* The index with the rows of the reindex, and those inserted past its DELETE. *)
Rewrite(i, index) ==
    [p \in Pages |->
        IF \E f \in FoundFor(i) : f.page = p THEN (CHOOSE f \in FoundFor(i) : f.page = p).entry
        ELSE IF p \in reindex.cleared[i] THEN NoEntry ELSE index[p]]

Waiting(r) == r # Idle /\ r.begun # {} /\ ~ r.released

(* The row that a DELETE waited for, or did not see, is back. *)
Release(r) ==
    [r EXCEPT !.released = TRUE,
              !.missed = {i \in r.begun : /\ Removes(r, i)
                                          /\ r.page \in {f.page : f \in FoundFor(i)}}]

CommitReindex ==
    /\ reindex.stage = "commit"
    /\ searchIndex' = Rewrite("search", searchIndex)
    /\ mapIndex' = Rewrite("map", mapIndex)
    /\ adrift' = reindex.touched
    /\ request' = [e \in Editors |->
                      IF Waiting(request[e]) THEN Release(request[e]) ELSE request[e]]
    /\ reindex' = NoReindex
    /\ UNCHANGED <<pageVars, eventVars>>

(* The page ceiling is reached, or the transaction fails: it is rolled back,   *)
(* and a statement that waited for it finds everything as it was.              *)
AbandonReindex ==
    /\ reindex.stage # "none"
    /\ reindex' = NoReindex
    /\ request' = [e \in Editors |->
                      IF Waiting(request[e]) THEN [request[e] EXCEPT !.begun = {}, !.fact = "none"]
                      ELSE request[e]]
    /\ UNCHANGED <<pageVars, eventVars, searchIndex, mapIndex, adrift>>
--------------------------------------------------------------------------------
(* The evidence underneath, as the projection and merge components change it. *)

(* The worker projects an event that is not absorbed. *)
ReProjectEvent(e, fact) ==
    /\ e \in Unsettled
    /\ mergedInto[e] = NoEvent
    /\ fact \in Facts \ {"none", facts[e]}
    /\ facts' = [facts EXCEPT ![e] = fact]
    /\ UNCHANGED <<pageVars, mergedInto, indexVars, request>>

(* A merge deletes the projection of the absorbed event; its page stays. *)
MergeDuplicateEvents(source, target) ==
    /\ source \in Unsettled \ {target}
    /\ mergedInto[source] = NoEvent
    /\ mergedInto[target] = NoEvent
    /\ mergedInto' = [mergedInto EXCEPT ![source] = target]
    /\ facts' = [facts EXCEPT ![source] = "none"]
    /\ UNCHANGED <<pageVars, indexVars, request>>
--------------------------------------------------------------------------------
(* What the public routes answer, as functions of the tables. *)

get_by_slug(slug) == {p \in Stored : page[p].slug = slug}

(* The surviving event, by following merged_into_event_id; the forest is finite. *)
CanonicalEvent(event) ==
    LET walk[n \in 0..Cardinality(Events)] ==
            IF n = 0 THEN event
            ELSE IF mergedInto[walk[n - 1]] = NoEvent THEN walk[n - 1]
                 ELSE mergedInto[walk[n - 1]]
    IN walk[Cardinality(Events)]

(* _load_page_and_check_visibility: the slug-keyed gate of every public route. *)
VisibilityOf(slug) ==
    IF get_by_slug(slug) = {} THEN "not found"
    ELSE LET row == page[CHOOSE p \in get_by_slug(slug) : TRUE]
         IN CASE row.status = "DRAFT"     -> "not published"
              [] row.status = "RETRACTED" -> "gone"
              [] OTHER                    -> "visible"

(* GetPublicEventPage: the page and the projection of its canonical event. *)
GetPublicEventPage(slug) ==
    IF VisibilityOf(slug) # "visible" THEN VisibilityOf(slug)
    ELSE LET row == page[CHOOSE p \in get_by_slug(slug) : TRUE]
         IN IF facts[CanonicalEvent(row.event)] = "none" THEN "not found" ELSE "served"

ListPublicEvents(limit, after) == list_published(limit, after)
--------------------------------------------------------------------------------
Next ==
    \/ \E p \in Pages, role \in Role, event \in Events, slug \in Slugs, text \in Texts :
          CreatePublicEventPage(p, role, event, slug, text)
    \/ \E e \in Editors, p \in Stored, role \in Role : \E v \in ShownVersions(p) :
          \/ \E slug \in Slugs, text \in Texts :
                UpdatePublicEventPage(e, p, role, v, slug, text)
          \/ \E op \in Transitions : TransitionUseCase(e, p, role, op, v)
    \/ \E e \in Editors : Wait(e) \/ Commit(e) \/ Refuse(e)
    \/ StartReindex \/ NextBatch \/ RebuildSearch \/ RebuildMap \/ CommitReindex
    \/ AbandonReindex
    \/ \E e \in Events, fact \in Facts : ReProjectEvent(e, fact)
    \/ \E s, t \in Events : MergeDuplicateEvents(s, t)

Spec == Init /\ [][Next]_vars
--------------------------------------------------------------------------------
(* Type invariant. *)
TypeOK ==
    /\ page \in [Pages -> PageRows \cup {NoPage}]
    /\ \A p \in Pages : \A i \in DOMAIN revisions[p] : revisions[p][i] \in Revisions
    /\ \A i \in DOMAIN recent : recent[i] \in Stored
    /\ facts \in [Events -> Facts]
    /\ mergedInto \in [Events -> Events \cup {NoEvent}]
    /\ searchIndex \in [Pages -> SearchEntries \cup {NoEntry}]
    /\ mapIndex \in [Pages -> MapEntries \cup {NoEntry}]
    /\ request \in [Editors -> Requests \cup {Idle}]

(* The revision trail explains the page (editorial.py: every use case appends  *)
(* an audit row in the transaction of its write).  With several editors at     *)
(* work it has one row per version, each starts in the state where the one     *)
(* before ended, the last one is the page as it stands, the page can be loaded *)
(* and its publication dates are those of its first and last publication.      *)
AuditTrail ==
    \A p \in Stored :
        LET trail     == list_revisions(p)
            published == {i \in DOMAIN trail : trail[i].from # "PUBLISHED"
                                                 /\ trail[i].to = "PUBLISHED"}
        IN /\ Len(trail) = page[p].version
           /\ \A i \in DOMAIN trail :
                 /\ trail[i].version = i
                 /\ trail[i].from = IF i = 1 THEN "NONE" ELSE trail[i - 1].to
           /\ check_status_timestamps(page[p])
           /\ trail[Len(trail)].to = page[p].status
           /\ trail[Len(trail)].text = page[p].text
           /\ IF published = {} THEN page[p].firstPublished = 0
              ELSE /\ page[p].firstPublished \in published
                   /\ page[p].lastPublished \in published
                   /\ \A i \in published :
                         page[p].firstPublished <= i /\ i <= page[p].lastPublished

(* "The search index contains exactly the set of PUBLISHED pages", also after a *)
(* reindex that was disturbed (_search_indexing.py:6).                         *)
IndexAlwaysExact == {p \in Pages : searchIndex[p] # NoEntry} = PagesIn({"PUBLISHED"})

(* Only PUBLISHED pages are visible on the slug-keyed public routes            *)
(* (PublicationStatus: the other states are "not publicly visible" or          *)
(* "soft-hidden").                                                             *)
OnlyPublishedVisible ==
    \A slug \in Slugs : VisibilityOf(slug) = "visible" =>
        \A p \in get_by_slug(slug) : page[p].status = "PUBLISHED"

(* A retracted page stays as it is: no write reaches the row again, so that    *)
(* its slug answers 410 with the same note for ever and is never reused        *)
(* (workflow.py: RETRACTED is terminal).                                       *)
RetractedStays ==
    \A p \in Stored : page[p].status = "RETRACTED" =>
        /\ page'[p] = page[p]
        /\ \A q \in Pages \ {p} : page'[q] # NoPage => page'[q].slug # page[p].slug
RetractionFinal == [][RetractedStays]_vars

(* No edit is lost: a committed write keeps everything of the row it replaces  *)
(* that its own operation does not set, whoever wrote it and whenever.         *)
EditsKept ==
    \A p \in Stored : page'[p] # page[p] =>
        /\ page'[p].version = page[p].version + 1
        /\ page'[p].event = page[p].event
        /\ page'[p].status # page[p].status =>
              page'[p].text = page[p].text /\ page'[p].slug = page[p].slug
        /\ page'[p].status = page[p].status =>
              page'[p].lastPublished = page[p].lastPublished
NoLostEdit == [][EditsKept]_vars

(* The editorial table behaves as a versioned document editable as a DRAFT. *)
DocumentOf(row) ==
    IF row = NoPage THEN NoPage ELSE [status |-> row.status, version |-> row.version]
Document == INSTANCE VersionedDocument WITH
    Docs <- Pages, Absent <- NoPage, Editable <- {"DRAFT"},
    Start <- [p \in Pages |-> DocumentOf(ExistingAt(p, PublishedRow, NoPage))],
    doc <- [p \in Pages |-> DocumentOf(page[p])]
ImplementsDocument == Document!Spec
================================================================================
