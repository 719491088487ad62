---------------------------------- MODULE Cms ----------------------------------
(* The CMS: glossary terms, methodology pages and changelog entries.  The      *)
(* three kinds are three tables with the same life cycle, so a document has a  *)
(* kind and the use cases are written once; the routes are those of each kind. *)
(*                                                                             *)
(* A request loads a document, computes the new row and later writes it where  *)
(* the version is the one its caller was shown; other requests commit between. *)
(* place is what a kind is listed by: the section of a methodology page, the   *)
(* effective date of a changelog entry.  text stands for the title and body,   *)
(* and for a methodology page also for its order within the section.           *)
EXTENDS Workflow, Integers, FiniteSets, SequencesExt

CONSTANTS
    Docs,          \* ids, numbers as they are compared; bound on documents
    KindOf,        \* [Docs -> DocumentKinds]
    Keys,          \* terms and slugs, numbers as they are sorted
    Places,        \* sections or effective dates, numbers as they are sorted
    Texts,         \* titles and bodies
    Editors,       \* requests in flight
    Existing,      \* [id, key, place] of the documents published before
    _CHANGELOG_LIST_MAX_LIMIT,
    Stale,         \* how many versions behind a caller's expected_version may be
    MaxVersion,    \* bound on the writes of a document
    MaxWrites,     \* bound on the writes of all documents
    NoDoc,         \* no row
    Idle           \* a request slot nobody uses

VARIABLES
    doc,           \* [Docs -> Rows \cup {NoDoc}]
    revisions,     \* [Docs -> Seq(Revisions)]
    request        \* [Editors -> Requests \cup {Idle}]

vars == <<doc, revisions, request>>

DocumentKinds == {"glossary_term", "methodology_page", "changelog_entry"}

Row(places) == [key : Keys, place : places, text : Texts, status : PublicationStatus,
                version : 1..MaxVersion, firstPublished : 0..MaxVersion,
                lastPublished : 0..MaxVersion]
GlossaryTerms    == Row({0})
MethodologyPages == Row(Places)
ChangelogEntries == Row(Places)

RowsOf(kind) == CASE kind = "glossary_term"    -> GlossaryTerms
                  [] kind = "methodology_page" -> MethodologyPages
                  [] kind = "changelog_entry"  -> ChangelogEntries

Revisions == [version : 1..MaxVersion, from : PublicationStatus \cup {"NONE"},
              to : PublicationStatus]

Requests == [doc : Docs, expected : 1..MaxVersion, from : PublicationStatus,
             row : UNION {RowsOf(k) : k \in DocumentKinds}]

Transitions == {"submit", "request-changes", "approve", "reject",
                "publish", "archive", "reopen", "retract"}

(* The row and the trail that create, submit, approve and publish leave. *)
PublishedRow(x) ==
    [key |-> x.key, place |-> x.place, text |-> CHOOSE t \in Texts : TRUE,
     status |-> "PUBLISHED", version |-> 4, firstPublished |-> 4, lastPublished |-> 4]

PublishedTrail(x) ==
    LET path == <<"NONE", "DRAFT", "IN_REVIEW", "APPROVED", "PUBLISHED">>
    IN [i \in 1..4 |-> [version |-> i, from |-> path[i], to |-> path[i + 1]]]

ExistingAt(d, Made(_), none) ==
    IF \E x \in Existing : x.id = d
    THEN Made(CHOOSE x \in Existing : x.id = d) ELSE none

Init ==
    /\ doc = [d \in Docs |-> ExistingAt(d, PublishedRow, NoDoc)]
    /\ revisions = [d \in Docs |-> ExistingAt(d, PublishedTrail, <<>>)]
    /\ request = [e \in Editors |-> Idle]
--------------------------------------------------------------------------------
(* The tables *)

Stored == {d \in Docs : doc[d] # NoDoc}
Published(kind) == {d \in Stored : KindOf[d] = kind /\ doc[d].status = "PUBLISHED"}
Writes == LET total[n \in 0..Cardinality(Docs)] ==
                  IF n = 0 THEN 0
                  ELSE total[n - 1] + IF n \in Stored THEN doc[n].version ELSE 0
          IN total[Cardinality(Docs)]

uq_key(d, key) == \A q \in Stored \ {d} : KindOf[q] = KindOf[d] => doc[q].key # key

(* INSERT of the row with its first revision; a taken key is an IntegrityError. *)
add(d, row) ==
    /\ doc[d] = NoDoc
    /\ uq_key(d, row.key)
    /\ doc' = [doc EXCEPT ![d] = row]

(* Mutant of VersionMatches: the row is written whatever its version. *)
AnyVersion(d, expected) == doc[d] # NoDoc

(* WHERE id = :id AND version = :expected_version *)
VersionMatches(d, expected) == doc[d].version = expected

update(d, row, expected) ==
    /\ VersionMatches(d, expected)
    /\ doc' = [doc EXCEPT ![d] = row]

add_revision(d, row, from) ==
    revisions' = [revisions EXCEPT ![d] =
                     Append(@, [version |-> row.version, from |-> from, to |-> row.status])]
--------------------------------------------------------------------------------
(* The use cases *)

EDITORIAL_ROLES  == {"ADMIN", "REVIEWER", "ANALYST"}
TRANSITION_ROLES == {"ADMIN", "REVIEWER"}
RETRACT_ROLES    == {"ADMIN"}

Create(d, key, place, text) ==
    LET row == [key |-> key, place |-> place, text |-> text, status |-> "DRAFT",
                version |-> 1, firstPublished |-> 0, lastPublished |-> 0]
    IN /\ add(d, row)
       /\ add_revision(d, row, "NONE")
       /\ UNCHANGED request

CreateGlossaryTerm(d, key, text) ==
    KindOf[d] = "glossary_term" /\ Create(d, key, 0, text)
CreateMethodologyPage(d, key, section, text) ==
    KindOf[d] = "methodology_page" /\ Create(d, key, section, text)
CreateChangelogEntry(d, key, date, text) ==
    KindOf[d] = "changelog_entry" /\ Create(d, key, date, text)

(* A request that has computed its row and not yet written it. *)
Begin(e, d, expected, row) ==
    /\ request[e] = Idle
    /\ row.version <= MaxVersion
    /\ request' = [request EXCEPT ![e] =
                      [doc |-> d, expected |-> expected, from |-> doc[d].status, row |-> row]]
    /\ UNCHANGED <<doc, revisions>>

(* The text is replaced in whatever status the document is. *)
Edited(row, place, text) ==
    [row EXCEPT !.place = place, !.text = text, !.version = @ + 1]

UpdateGlossaryTerm(e, d, expected, text) ==
    KindOf[d] = "glossary_term" /\ Begin(e, d, expected, Edited(doc[d], 0, text))
UpdateMethodologyPage(e, d, expected, section, text) ==
    KindOf[d] = "methodology_page" /\ Begin(e, d, expected, Edited(doc[d], section, text))
UpdateChangelogEntry(e, d, expected, date, text) ==
    KindOf[d] = "changelog_entry" /\ Begin(e, d, expected, Edited(doc[d], date, text))

TargetOf(op) ==
    CASE op = "submit"                                  -> "IN_REVIEW"
      [] op = "approve"                                 -> "APPROVED"
      [] op = "publish"                                 -> "PUBLISHED"
      [] op = "archive"                                 -> "ARCHIVED"
      [] op = "retract"                                 -> "RETRACTED"
      [] op \in {"request-changes", "reject", "reopen"} -> "DRAFT"

StatusMutation(row, to) == [row EXCEPT !.status = to, !.version = @ + 1]

(* first_published_at is set once; both dates are the versions that set them. *)
PublishMutation(row) ==
    [StatusMutation(row, "PUBLISHED") EXCEPT
        !.firstPublished = IF row.firstPublished = 0 THEN row.version + 1 ELSE @,
        !.lastPublished = row.version + 1]

(* The note of a retraction is not kept here. *)
RetractMutation(row) == StatusMutation(row, "RETRACTED")

Mutation(op, row) ==
    CASE op = "publish" -> PublishMutation(row)
      [] op = "retract" -> RetractMutation(row)
      [] OTHER          -> StatusMutation(row, TargetOf(op))

(* _CmsTransition.execute up to the UPDATE. *)
CmsTransition(e, d, op, expected) ==
    /\ validate_transition(doc[d].status, TargetOf(op))
    /\ Begin(e, d, expected, Mutation(op, doc[d]))

(* The write and, of a transition only, its revision; one transaction. *)
Commit(e) ==
    LET r == request[e]
    IN /\ r # Idle
       /\ update(r.doc, r.row, r.expected)
       /\ IF r.row.status = r.from THEN UNCHANGED revisions
          ELSE add_revision(r.doc, r.row, r.from)
       /\ request' = [request EXCEPT ![e] = Idle]

(* CmsContentModifiedError: nothing is written. *)
Refuse(e) ==
    /\ request[e] # Idle
    /\ ~ VersionMatches(request[e].doc, request[e].expected)
    /\ request' = [request EXCEPT ![e] = Idle]
    /\ UNCHANGED <<doc, revisions>>
--------------------------------------------------------------------------------
(* The editorial routes: the role, then the use case.  A caller sends the      *)
(* version some answer showed it, the current one or older.                    *)

ShownVersions(d) == {v \in 1..doc[d].version : v >= doc[d].version - Stale}

create_glossary_term(d, role) ==
    /\ role \in EDITORIAL_ROLES
    /\ \E key \in Keys, text \in Texts : CreateGlossaryTerm(d, key, text)

update_glossary_term(e, d, role) ==
    /\ role \in EDITORIAL_ROLES
    /\ \E v \in ShownVersions(d), text \in Texts : UpdateGlossaryTerm(e, d, v, text)

create_methodology_page(d, role) ==
    /\ role \in EDITORIAL_ROLES
    /\ \E key \in Keys, section \in Places, text \in Texts :
          CreateMethodologyPage(d, key, section, text)

update_methodology_page(e, d, role) ==
    /\ role \in EDITORIAL_ROLES
    /\ \E v \in ShownVersions(d), section \in Places, text \in Texts :
          UpdateMethodologyPage(e, d, v, section, text)

create_changelog_entry(d, role) ==
    /\ role \in EDITORIAL_ROLES
    /\ \E key \in Keys, date \in Places, text \in Texts :
          CreateChangelogEntry(d, key, date, text)

update_changelog_entry(e, d, role) ==
    /\ role \in EDITORIAL_ROLES
    /\ \E v \in ShownVersions(d), date \in Places, text \in Texts :
          UpdateChangelogEntry(e, d, v, date, text)

RolesOf(op) == IF op = "retract" THEN RETRACT_ROLES ELSE TRANSITION_ROLES

(* One route per transition and kind. *)
Transition(e, d, role, op) ==
    /\ role \in RolesOf(op)
    /\ \E v \in ShownVersions(d) : CmsTransition(e, d, op, v)

transition_glossary(e, d, role, op) ==
    KindOf[d] = "glossary_term" /\ Transition(e, d, role, op)
transition_methodology(e, d, role, op) ==
    KindOf[d] = "methodology_page" /\ Transition(e, d, role, op)
transition_changelog(e, d, role, op) ==
    KindOf[d] = "changelog_entry" /\ Transition(e, d, role, op)
--------------------------------------------------------------------------------
(* What the public routes answer, as functions of the tables. *)

(* The gate of the three single-document reads. *)
Visibility(row) == CASE row.status = "PUBLISHED" -> "served"
                     [] row.status = "RETRACTED" -> "gone"
                     [] OTHER                    -> "not found"

ByKey(kind, key) == {d \in Stored : KindOf[d] = kind /\ doc[d].key = key}
GetPublic(kind, key) ==
    IF ByKey(kind, key) = {} THEN "not found" ELSE Visibility(doc[CHOOSE d \in ByKey(kind, key) : TRUE])

GetPublicGlossaryTerm(term)    == GetPublic("glossary_term", term)
GetPublicMethodologyPage(slug) == GetPublic("methodology_page", slug)
GetPublicChangelogEntry(slug)  == GetPublic("changelog_entry", slug)

(* ORDER BY: some list of the rows, none of them before one that precedes it. *)
OrderBy(rows, Before(_, _)) ==
    CHOOSE order \in SetToSeqs(rows) :
        \A i, j \in DOMAIN order : i < j => ~ Before(order[j], order[i])

ByTerm(a, b) == doc[a].key < doc[b].key

list_published_terms == OrderBy(Published("glossary_term"), ByTerm)

ListPublicGlossary == list_published_terms

(* section, section_order, title *)
BySection(a, b) ==
    \/ doc[a].place < doc[b].place
    \/ doc[a].place = doc[b].place /\ doc[a].text < doc[b].text

list_published_grouped_by_section == OrderBy(Published("methodology_page"), BySection)

(* The flat list cut into runs of one section. *)
SectionViews(flat) ==
    LET Starts(i) == i = 1 \/ doc[flat[i]].place # doc[flat[i - 1]].place
        views[n \in 0..Len(flat)] ==
            IF n = 0 THEN <<>>
            ELSE IF Starts(n)
                 THEN Append(views[n - 1], [section |-> doc[flat[n]].place, pages |-> <<flat[n]>>])
                 ELSE [views[n - 1] EXCEPT ![Len(views[n - 1])].pages = Append(@, flat[n])]
    IN views[Len(flat)]

(* Mutant of ListPublicMethodology: the last section is not flushed. *)
LastSectionLost ==
    LET views == SectionViews(list_published_grouped_by_section)
    IN IF views = <<>> THEN views ELSE Front(views)

ListPublicMethodology == SectionViews(list_published_grouped_by_section)

(* (effective_date, id) < (effective_date, id) of the cursor *)
Later(a, b) == doc[a].place > doc[b].place \/ (doc[a].place = doc[b].place /\ a > b)

(* The cursor is any stored entry, published or not any more. *)
list_published(limit, after) ==
    LET rows  == OrderBy({d \in Published("changelog_entry") : after \in Stored => Later(after, d)},
                         Later)
        items == IF Len(rows) > limit THEN SubSeq(rows, 1, limit) ELSE rows
    IN [items |-> items, next |-> IF Len(rows) > limit THEN items[limit] ELSE NoDoc]

ListPublicChangelog(limit, after) ==
    list_published(Max({1, Min({limit, _CHANGELOG_LIST_MAX_LIMIT})}), after)
--------------------------------------------------------------------------------
Next ==
    \/ /\ Writes < MaxWrites
       /\ \E role \in Role :
            \/ \E d \in Docs : \/ create_glossary_term(d, role)
                               \/ create_methodology_page(d, role)
                               \/ create_changelog_entry(d, role)
            \/ \E e \in Editors, d \in Stored :
                  \/ update_glossary_term(e, d, role)
                  \/ update_methodology_page(e, d, role)
                  \/ update_changelog_entry(e, d, role)
                  \/ \E op \in Transitions : \/ transition_glossary(e, d, role, op)
                                             \/ transition_methodology(e, d, role, op)
                                             \/ transition_changelog(e, d, role, op)
    \/ \E e \in Editors : Commit(e) \/ Refuse(e)

Spec == Init /\ [][Next]_vars
--------------------------------------------------------------------------------
(* Type invariant. *)
TypeOK ==
    /\ \A d \in Docs : doc[d] \in RowsOf(KindOf[d]) \cup {NoDoc}
    /\ \A d \in Docs : \A i \in DOMAIN revisions[d] : revisions[d][i] \in Revisions
    /\ request \in [Editors -> Requests \cup {Idle}]

(* The revisions of a document are its history of transitions, whatever edits  *)
(* and editors came between (cms.py: the revision is added in the transaction  *)
(* of the status change): they start with the creation, each continues where   *)
(* the one before ended, at a later version, the last one led to the status    *)
(* the document has, and its publication dates are those of the first and the  *)
(* last revision that published it.                                            *)
TransitionTrail ==
    \A d \in Stored :
        LET trail     == revisions[d]
            published == {trail[i].version : i \in {j \in DOMAIN trail : trail[j].to = "PUBLISHED"}}
        IN /\ trail[1] = [version |-> 1, from |-> "NONE", to |-> "DRAFT"]
           /\ \A i \in 2..Len(trail) :
                 trail[i].from = trail[i - 1].to /\ trail[i].version > trail[i - 1].version
           /\ trail[Len(trail)].to = doc[d].status
           /\ trail[Len(trail)].version <= doc[d].version
           /\ IF published = {} THEN doc[d].firstPublished = 0
              ELSE /\ {doc[d].firstPublished, doc[d].lastPublished} \subseteq published
                   /\ \A v \in published : v \in doc[d].firstPublished..doc[d].lastPublished

(* The public lists hold exactly the published documents: the glossary once    *)
(* per term and in their order, the methodology in sections that each appear   *)
(* once and hold their pages only (ListPublicMethodology cuts a flat list),    *)
(* and the changelog, the latest first.  Its pages, of any limit, can be put   *)
(* together: a page goes on right after its cursor, also when the entry of the *)
(* cursor has been withdrawn meanwhile, and names its last entry as the next   *)
(* cursor when there are more.  A key is served exactly when the list of its   *)
(* kind has it.                                                                *)
PublicLists ==
    LET terms == ListPublicGlossary
        views == ListPublicMethodology
        all   == list_published(Cardinality(Docs), NoDoc).items
        Served(kind, Get(_)) ==
            {key \in Keys : Get(key) = "served"} = {doc[d].key : d \in Published(kind)}
    IN /\ Served("glossary_term", GetPublicGlossaryTerm)
       /\ Served("methodology_page", GetPublicMethodologyPage)
       /\ Served("changelog_entry", GetPublicChangelogEntry)
       /\ ToSet(terms) = Published("glossary_term")
       /\ \A i, j \in DOMAIN terms : i < j => ByTerm(terms[i], terms[j])
       /\ UNION {ToSet(views[i].pages) : i \in DOMAIN views} = Published("methodology_page")
       /\ \A i, j \in DOMAIN views : i # j => views[i].section # views[j].section
       /\ \A i \in DOMAIN views : \A d \in ToSet(views[i].pages) : doc[d].place = views[i].section
       /\ ToSet(all) = Published("changelog_entry")
       /\ \A i, j \in DOMAIN all : i < j => Later(all[i], all[j])
       /\ \A limit \in 1..Cardinality(Docs),
             after \in {NoDoc} \cup {d \in Stored : KindOf[d] = "changelog_entry"} :
             LET page == ListPublicChangelog(limit, after)
             IN \E k, last \in 0..Len(all) :
                   /\ \A i \in DOMAIN all : i <= k <=> (after # NoDoc /\ ~ Later(after, all[i]))
                   /\ last \in k..(k + limit)
                   /\ page.items = SubSeq(all, k + 1, last)
                   /\ IF last = Len(all) THEN page.next = NoDoc
                      ELSE last > k /\ page.next = all[last]
================================================================================
