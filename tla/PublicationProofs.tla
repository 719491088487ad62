--------------------------- MODULE PublicationProofs ---------------------------
(* The editorial table for any number of pages, editors and versions: its      *)
(* revisions explain it, no edit is lost, a retraction is final, it implements *)
(* VersionedDocument, and the answers of the public routes agree with it.      *)
EXTENDS PublicQueries, TLAPS, FiniteSetTheorems, SequenceTheorems, WellFoundedInduction

(* What an editor may write over a row: an edit of a draft, or a transition. *)
Successor(old, new) ==
    \/ /\ old.status = "DRAFT"
       /\ \E slug \in Slugs, text \in Texts :
             new = [old EXCEPT !.slug = slug, !.text = text, !.version = @ + 1]
    \/ \E op \in Transitions :
          validate_transition(old.status, TargetOf(op)) /\ new = Mutation(op, old)

RowsTyped ==
    /\ page \in [Pages -> PageRows \cup {NoPage}]
    /\ revisions \in [Pages -> Seq(Revisions)]
    /\ request \in [Editors -> Requests \cup {Idle}]
    /\ facts \in [Events -> Facts]

(* The constraint uq_slug of the table. *)
SlugsUnique == \A p, q \in Stored : p # q => page[p].slug # page[q].slug

(* A request holds a row computed from a version of the page its caller had    *)
(* seen or a later one; while the page has that version, it is the row the     *)
(* request read.  The version a caller was shown is no later, so that a        *)
(* version check that succeeds means that nothing was written in between.      *)
RequestsSound ==
    \A e \in Editors : request[e] # Idle =>
        LET r == request[e] IN
        /\ page[r.page] # NoPage
        /\ r.expected < r.row.version
        /\ r.row.version <= page[r.page].version + 1
        /\ r.row.version = page[r.page].version + 1 =>
              r.from = page[r.page].status /\ Successor(page[r.page], r.row)

(* Revisions belong to a stored page. *)
NoOrphans == \A p \in Pages : page[p] = NoPage => revisions[p] = <<>>

IInv == RowsTyped /\ SlugsUnique /\ NoOrphans /\ RequestsSound /\ AuditTrail
--------------------------------------------------------------------------------
(* The target of a transition is a status. *)
LEMMA Targets == \A op \in Transitions : TargetOf(op) \in PublicationStatus
BY DEF Transitions, TargetOf, PublicationStatus

(* What a successor keeps and what it sets. *)
LEMMA SuccessorFacts ==
    ASSUME NEW old \in PageRows, NEW new, Successor(old, new)
    PROVE  /\ new.version = old.version + 1
           /\ new.event = old.event
           /\ \/ /\ old.status = "DRAFT" /\ new.status = "DRAFT"
                 /\ new.firstPublished = old.firstPublished
                 /\ new.lastPublished = old.lastPublished
              \/ /\ validate_transition(old.status, new.status)
                 /\ new.status \in PublicationStatus /\ new.status # old.status
                 /\ new.text = old.text /\ new.slug = old.slug
                 /\ IF new.status = "PUBLISHED"
                    THEN /\ new.firstPublished = IF old.firstPublished = 0 THEN old.version + 1
                                                 ELSE old.firstPublished
                         /\ new.lastPublished = old.version + 1
                    ELSE /\ new.firstPublished = old.firstPublished
                         /\ new.lastPublished = old.lastPublished
<1>1. CASE /\ old.status = "DRAFT"
           /\ \E slug \in Slugs, text \in Texts :
                 new = [old EXCEPT !.slug = slug, !.text = text, !.version = @ + 1]
  BY <1>1 DEF PageRows
<1>2. ASSUME NEW op \in Transitions, validate_transition(old.status, TargetOf(op)),
             new = Mutation(op, old)
      PROVE  /\ new.version = old.version + 1
             /\ new.event = old.event
             /\ new.status = TargetOf(op)
             /\ new.text = old.text /\ new.slug = old.slug
             /\ IF new.status = "PUBLISHED"
                THEN /\ new.firstPublished = IF old.firstPublished = 0 THEN old.version + 1
                                             ELSE old.firstPublished
                     /\ new.lastPublished = old.version + 1
                ELSE /\ new.firstPublished = old.firstPublished
                     /\ new.lastPublished = old.lastPublished
  <2>1. op = "publish" <=> TargetOf(op) = "PUBLISHED"
    BY DEF Transitions, TargetOf
  <2>2. CASE op = "publish"
    BY <1>2, <2>1, <2>2 DEF Mutation, PublishMutation, StatusMutation, PageRows
  <2>3. CASE op # "publish"
    BY <1>2, <2>1, <2>3 DEF Mutation, StatusMutation, PageRows
  <2>4. QED
    BY <2>2, <2>3
<1>3. \A s, t \in PublicationStatus : validate_transition(s, t) => t # s
  BY DEF validate_transition, allowed_next_states, ALLOWED_TRANSITIONS, PublicationStatus
<1>4. QED
  BY <1>1, <1>2, <1>3, Targets DEF Successor, PageRows

(* Rows and requests are what their types say. *)
LEMMA Typing ==
    ASSUME RowsTyped
    PROVE  /\ \A p \in Stored : page[p] \in PageRows
           /\ \A e \in Editors : request[e] # Idle => request[e] \in Requests
           /\ \A p \in Pages : revisions[p] \in Seq(Revisions)
           /\ MaxVersion \in Nat /\ NoPage \notin PageRows /\ Idle \notin Requests
BY PublicationAssumption DEF RowsTyped, Stored, PublicationAssumption

LEMMA InitRows ==
    ASSUME Init, NEW p \in Pages
    PROVE  \/ /\ \A x \in Existing : x.page # p
              /\ page[p] = NoPage /\ revisions[p] = <<>>
           \/ \E x \in Existing : x.page = p /\ page[p] = PublishedRow(x)
                                  /\ revisions[p] = PublishedTrail(x)
<1>1. /\ page[p] = ExistingAt(p, PublishedRow, NoPage)
      /\ revisions[p] = ExistingAt(p, PublishedTrail, <<>>)
  BY DEF Init
<1>2. CASE \E x \in Existing : x.page = p
  <2>1. PICK x \in Existing : x = CHOOSE y \in Existing : y.page = p
    BY <1>2
  <2>2. x.page = p
    BY <1>2, <2>1
  <2>3. page[p] = PublishedRow(x) /\ revisions[p] = PublishedTrail(x)
    BY <1>1, <1>2, <2>1 DEF ExistingAt
  <2>4. QED
    BY <2>2, <2>3
<1>3. CASE \A x \in Existing : x.page # p
  BY <1>1, <1>3 DEF ExistingAt
<1>4. QED
  BY <1>2, <1>3

(* The row and the trail of a page that was published before. *)
LEMMA PublishedFacts ==
    ASSUME NEW x \in Existing
    PROVE  /\ PublishedRow(x) \in PageRows /\ PublishedRow(x) # NoPage
           /\ PublishedTrail(x) \in Seq(Revisions)
<1>1. x \in [page : Pages, event : Events, slug : Slugs, text : Texts]
  BY PublicationAssumption DEF PublicationAssumption
<1>2. MaxVersion \in Nat /\ MaxVersion >= 4 /\ NoPage \notin PageRows
  BY PublicationAssumption DEF PublicationAssumption
<1>3. PublishedRow(x) \in PageRows
  BY <1>1, <1>2 DEF PublishedRow, PageRows, PublicationStatus
<1>4. \A i \in 1..4 : PublishedTrail(x)[i] \in Revisions
  BY <1>1, <1>2 DEF PublishedTrail, Revisions, PublicationStatus
<1>5. PublishedTrail(x) \in [1..4 -> Revisions]
  BY <1>4 DEF PublishedTrail
<1>6. PublishedTrail(x) \in Seq(Revisions)
  <2>1. Seq(Revisions) = UNION {[1..n -> Revisions] : n \in Nat}
    BY SeqDef
  <2>2. QED
    BY <1>5, <2>1
<1>7. QED
  BY <1>2, <1>3, <1>6

LEMMA InitInv == Init => IInv
<1> SUFFICES ASSUME Init PROVE IInv
  OBVIOUS
<1>1. RowsTyped
  <2>1. \A p \in Pages : page[p] \in PageRows \cup {NoPage} /\ revisions[p] \in Seq(Revisions)
    <3>1. <<>> \in Seq(Revisions)
      OBVIOUS
    <3>2. QED
      BY <3>1, InitRows, PublishedFacts
  <2>2. page = [p \in Pages |-> page[p]] /\ revisions = [p \in Pages |-> revisions[p]]
    BY DEF Init
  <2>3. request \in [Editors -> Requests \cup {Idle}]
    BY DEF Init
  <2>5. facts \in [Events -> Facts]
    BY DEF Init, Facts
  <2>4. QED
    BY <2>1, <2>2, <2>3, <2>5 DEF RowsTyped
<1>2. SlugsUnique
  <2> SUFFICES ASSUME NEW p \in Stored, NEW q \in Stored, p # q
               PROVE  page[p].slug # page[q].slug
    BY DEF SlugsUnique
  <2>1. PICK x \in Existing : x.page = p /\ page[p] = PublishedRow(x)
    BY InitRows DEF Stored
  <2>2. PICK y \in Existing : y.page = q /\ page[q] = PublishedRow(y)
    BY InitRows DEF Stored
  <2>3. QED
    BY <2>1, <2>2, PublicationAssumption DEF PublicationAssumption, PublishedRow
<1>3. RequestsSound
  BY DEF Init, RequestsSound
<1>4. AuditTrail
  <2> SUFFICES ASSUME NEW p \in Stored
               PROVE  LET trail     == list_revisions(p)
                          published == {i \in DOMAIN trail : trail[i].from # "PUBLISHED"
                                                               /\ trail[i].to = "PUBLISHED"}
                      IN /\ Len(trail) = page[p].version
                         /\ \A i \in DOMAIN trail :
                               /\ trail[i].version = i
                               /\ trail[i].from = IF i = 1 THEN "NONE" ELSE trail[i - 1].to
                         /\ check_status_timestamps(page[p])
                         /\ trail[Len(trail)].to = page[p].status
                         /\ trail[Len(trail)].text = page[p].text
                         /\ IF published = {} THEN page[p].firstPublished = 0
                            ELSE /\ page[p].firstPublished \in published
                                 /\ page[p].lastPublished \in published
                                 /\ \A i \in published : page[p].firstPublished <= i
                                                           /\ i <= page[p].lastPublished
    BY DEF AuditTrail
  <2>1. PICK x \in Existing : page[p] = PublishedRow(x) /\ revisions[p] = PublishedTrail(x)
    BY InitRows DEF Stored
  <2> DEFINE path == <<"NONE", "DRAFT", "IN_REVIEW", "APPROVED", "PUBLISHED">>
             trail == revisions[p]
             published == {i \in DOMAIN trail : trail[i].from # "PUBLISHED"
                                                  /\ trail[i].to = "PUBLISHED"}
  <2>2. trail = [i \in 1..4 |-> [version |-> i, from |-> path[i], to |-> path[i + 1],
                                 text |-> x.text]]
    BY <2>1 DEF PublishedTrail
  <2>3. DOMAIN trail = 1..4 /\ Len(trail) = 4
    BY <2>2
  <2>4. /\ trail[1].from = "NONE" /\ trail[1].to = "DRAFT"
        /\ trail[2].from = "DRAFT" /\ trail[2].to = "IN_REVIEW"
        /\ trail[3].from = "IN_REVIEW" /\ trail[3].to = "APPROVED"
        /\ trail[4].from = "APPROVED" /\ trail[4].to = "PUBLISHED" /\ trail[4].text = x.text
    BY <2>2
  <2>5. \A i \in 1..4 : trail[i].version = i
    BY <2>2
  <2>6. published = {4}
    BY <2>3, <2>4
  <2>7. \A i \in 1..4 : trail[i].from = IF i = 1 THEN "NONE" ELSE trail[i - 1].to
    BY <2>4
  <2>8. /\ page[p].version = 4 /\ page[p].firstPublished = 4 /\ page[p].lastPublished = 4
        /\ page[p].status = "PUBLISHED" /\ page[p].text = x.text
    BY <2>1 DEF PublishedRow
  <2> HIDE DEF trail, published
  <2>9. QED
    BY <2>3, <2>4, <2>5, <2>6, <2>7, <2>8
    DEF trail, published, list_revisions, check_status_timestamps
<1>5. NoOrphans
  BY InitRows, PublishedFacts DEF NoOrphans
<1>6. QED
  BY <1>1, <1>2, <1>3, <1>4, <1>5 DEF IInv
--------------------------------------------------------------------------------
(* The steps that write a page. *)

(* A page is inserted as a draft, with its first revision. *)
Created(p) ==
    \E row \in PageRows :
        /\ page[p] = NoPage
        /\ row.version = 1 /\ row.status = "DRAFT" /\ row.firstPublished = 0
        /\ uq_slug(p, row.slug)
        /\ page' = [page EXCEPT ![p] = row]
        /\ add_revision(p, row, "NONE")
        /\ UNCHANGED <<request, facts>>

(* A request replaces the row it has read by a successor. *)
Written(e, p, row) ==
    /\ request[e] # Idle
    /\ p = request[e].page /\ row = request[e].row
    /\ p \in Stored /\ row \in PageRows
    /\ Successor(page[p], row)
    /\ uq_slug(p, row.slug)
    /\ page' = [page EXCEPT ![p] = row]
    /\ add_revision(p, row, page[p].status)
    /\ request' = [request EXCEPT ![e] = Idle]
    /\ facts' = facts

(* A request begins with a successor of the row it reads. *)
NewRequest(p, expected, row) ==
    [page |-> p, expected |-> expected, from |-> page[p].status, row |-> row,
     begun |-> {}, fact |-> "none", released |-> FALSE, missed |-> {}]

Began(e) ==
    \E p \in Stored, expected \in 1..MaxVersion, row \in PageRows :
        /\ request[e] = Idle
        /\ expected <= page[p].version
        /\ Successor(page[p], row)
        /\ request' = [request EXCEPT ![e] = NewRequest(p, expected, row)]
        /\ UNCHANGED <<page, revisions, facts>>

(* A request that a reindex holds up or lets go has the same row to write. *)
SameRequest(r, s) ==
    /\ r \in Requests /\ s \in Requests
    /\ s.page = r.page /\ s.expected = r.expected /\ s.from = r.from /\ s.row = r.row

(* The others: a request is refused, held up or let go, or something else is   *)
(* written.                                                                    *)
Elsewhere ==
    /\ UNCHANGED <<page, revisions>>
    /\ request' \in [Editors -> Requests \cup {Idle}]
    /\ facts' \in [Events -> Facts]
    /\ \A e \in Editors : \/ request'[e] \in {request[e], Idle}
                          \/ request[e] # Idle /\ SameRequest(request[e], request'[e])

LEMMA CreateStep ==
    ASSUME RowsTyped, NEW p \in Pages, NEW role \in Role, NEW event \in Events,
           NEW slug \in Slugs, NEW text \in Texts,
           CreatePublicEventPage(p, role, event, slug, text)
    PROVE  Created(p)
<1> DEFINE row == [event |-> event, slug |-> slug, text |-> text, status |-> "DRAFT",
                   version |-> 1, firstPublished |-> 0, lastPublished |-> 0]
<1>1. row \in PageRows
  BY PublicationAssumption DEF PublicationAssumption, PageRows, PublicationStatus
<1>2. add(p, row) /\ add_revision(p, row, "NONE") /\ UNCHANGED <<request, facts>>
  BY DEF CreatePublicEventPage, eventVars
<1>3. QED
  BY <1>1, <1>2 DEF Created, add

(* An edit and a transition stay within the type of the rows. *)
LEMMA SuccessorTyped ==
    ASSUME NEW old \in PageRows, NEW new, Successor(old, new), new.version <= MaxVersion
    PROVE  new \in PageRows
<1>1. old.version + 1 \in 1..MaxVersion /\ old.version + 1 \in 0..MaxVersion
  BY SuccessorFacts, PublicationAssumption DEF PublicationAssumption, PageRows
<1>2. ASSUME NEW slug \in Slugs, NEW text \in Texts,
             new = [old EXCEPT !.slug = slug, !.text = text, !.version = @ + 1]
      PROVE  new \in PageRows
  BY <1>1, <1>2 DEF PageRows
<1>3. ASSUME NEW op \in Transitions, new = Mutation(op, old) PROVE new \in PageRows
  <2>1. TargetOf(op) \in PublicationStatus /\ "PUBLISHED" \in PublicationStatus
    BY Targets DEF PublicationStatus
  <2>2. CASE op = "publish"
    <3>1. new = [old EXCEPT !.status = "PUBLISHED", !.version = old.version + 1,
                            !.firstPublished = IF old.firstPublished = 0 THEN old.version + 1
                                               ELSE old.firstPublished,
                            !.lastPublished = old.version + 1]
      BY <1>3, <2>2 DEF Mutation, PublishMutation, StatusMutation, PageRows
    <3>2. QED
      BY <1>1, <2>1, <3>1 DEF PageRows
  <2>3. CASE op # "publish"
    <3>1. new = [old EXCEPT !.status = TargetOf(op), !.version = old.version + 1]
      BY <1>3, <2>3 DEF Mutation, StatusMutation, PageRows
    <3>2. QED
      BY <1>1, <2>1, <3>1 DEF PageRows
  <2>4. QED
    BY <2>2, <2>3
<1>4. QED
  BY <1>2, <1>3 DEF Successor

LEMMA BeginStep ==
    ASSUME RowsTyped, NEW e \in Editors, NEW p \in Stored, NEW role \in Role,
           NEW v \in ShownVersions(p),
           \/ \E slug \in Slugs, text \in Texts : UpdatePublicEventPage(e, p, role, v, slug, text)
           \/ \E op \in Transitions : TransitionUseCase(e, p, role, op, v)
    PROVE  Began(e)
<1>1. PICK row : Begin(e, p, v, row) /\ Successor(page[p], row)
  <2>1. CASE \E slug \in Slugs, text \in Texts : UpdatePublicEventPage(e, p, role, v, slug, text)
    BY <2>1 DEF UpdatePublicEventPage, EditableNow, Successor
  <2>2. CASE \E op \in Transitions : TransitionUseCase(e, p, role, op, v)
    BY <2>2 DEF TransitionUseCase, Successor
  <2>3. QED
    BY <2>1, <2>2
<1>2. page[p] \in PageRows /\ MaxVersion \in Nat
  BY Typing
<1>3. v \in 1..MaxVersion /\ v <= page[p].version
  BY <1>2 DEF ShownVersions, PageRows
<1>4. row \in PageRows
  BY <1>1, <1>2, SuccessorTyped DEF Begin, WithinBounds
<1>5. QED
  BY <1>1, <1>3, <1>4 DEF Began, Begin, NewRequest, pageVars, eventVars

(* A reindex leaves the rows that requests will write alone. *)
LEMMA HoldingStep ==
    ASSUME RowsTyped,
           (\E e \in Editors : Wait(e)) \/ CommitReindex \/ AbandonReindex
    PROVE  Elsewhere
<1>1. request \in [Editors -> Requests \cup {Idle}] /\ Idle \notin Requests
  BY Typing DEF RowsTyped
<1>2. ASSUME NEW e \in Editors, Wait(e) PROVE Elsewhere
  <2> DEFINE r == request[e]
             w == [r EXCEPT !.begun = IF HeldUp(r, "search") THEN {"search"} ELSE Indexes,
                            !.fact = IF Publishes(r) THEN facts[r.row.event] ELSE @]
  <2>1. r # Idle /\ r \in Requests /\ request' = [request EXCEPT ![e] = w]
        /\ UNCHANGED <<page, revisions>>
    BY <1>1, <1>2 DEF Wait, pageVars
  <2>2. w \in Requests /\ SameRequest(r, w)
    <3>1. facts[r.row.event] \in Facts
      BY <2>1 DEF RowsTyped, Requests, PageRows
    <3>2. QED
      BY <2>1, <3>1 DEF SameRequest, Requests, Indexes
  <2>3. facts' = facts
    BY <1>2 DEF Wait, eventVars
  <2> HIDE DEF w
  <2>4. QED
    BY <1>1, <2>1, <2>2, <2>3 DEF Elsewhere, RowsTyped
<1>3. ASSUME NEW e \in Editors, Waiting(request[e])
      PROVE  SameRequest(request[e], Release(request[e]))
  <2>1. request[e] \in Requests
    BY <1>1, <1>3 DEF Waiting
  <2>2. request[e].begun \subseteq Indexes
    BY <2>1 DEF Requests, Indexes
  <2> DEFINE m == {i \in request[e].begun : /\ Removes(request[e], i)
                                            /\ request[e].page \in {f.page : f \in FoundFor(i)}}
  <2>3. m \in SUBSET Indexes
    BY <2>2
  <2>4. Release(request[e]) = [request[e] EXCEPT !.released = TRUE, !.missed = m]
    BY DEF Release
  <2> HIDE DEF m
  <2>5. QED
    BY <2>1, <2>3, <2>4 DEF SameRequest, Requests
<1>4. ASSUME NEW e \in Editors, Waiting(request[e])
      PROVE  SameRequest(request[e], [request[e] EXCEPT !.begun = {}, !.fact = "none"])
  <2>1. request[e] \in Requests
    BY <1>1, <1>4 DEF Waiting
  <2>2. QED
    BY <2>1 DEF SameRequest, Requests, Facts
<1>5. CASE CommitReindex
  <2>1. /\ request' = [e \in Editors |-> IF Waiting(request[e]) THEN Release(request[e])
                                        ELSE request[e]]
        /\ UNCHANGED <<page, revisions, facts>>
    BY <1>5 DEF CommitReindex, pageVars, eventVars
  <2>2. QED
    BY <1>1, <1>3, <2>1 DEF Elsewhere, RowsTyped, SameRequest, Waiting
<1>6. CASE AbandonReindex
  <2>1. /\ request' = [e \in Editors |->
                          IF Waiting(request[e])
                          THEN [request[e] EXCEPT !.begun = {}, !.fact = "none"]
                          ELSE request[e]]
        /\ UNCHANGED <<page, revisions, facts>>
    BY <1>6 DEF AbandonReindex, pageVars, eventVars
  <2>2. QED
    BY <1>1, <1>4, <2>1 DEF Elsewhere, RowsTyped, SameRequest, Waiting
<1>7. QED
  BY <1>2, <1>5, <1>6

(* The version check of the UPDATE: nothing was written since the read. *)
LEMMA CommitStep ==
    ASSUME RowsTyped, RequestsSound, NEW e \in Editors, Commit(e)
    PROVE  Written(e, request[e].page, request[e].row)
<1> DEFINE r == request[e]
<1>1. r # Idle /\ update(r.page, r.row, r.expected) /\ add_revision(r.page, r.row, r.from)
      /\ request' = [request EXCEPT ![e] = Idle] /\ facts' = facts
  BY DEF Commit, eventVars
<1>2. r \in Requests
  BY <1>1, Typing
<1>3. r.page \in Pages /\ r.row \in PageRows /\ r.expected \in Nat
  BY <1>2, Typing DEF Requests
<1>4. page[r.page] # NoPage /\ r.page \in Stored
  BY <1>1, <1>3 DEF RequestsSound, Stored
<1>5. page[r.page] \in PageRows
  BY <1>4, Typing
<1>6. page[r.page].version \in Nat /\ r.row.version \in Nat
  BY <1>3, <1>5 DEF PageRows
<1>7. page[r.page].version = r.expected
  BY <1>1 DEF update, VersionMatches
<1>8. r.row.version = page[r.page].version + 1
  BY <1>1, <1>3, <1>6, <1>7 DEF RequestsSound
<1>9. r.from = page[r.page].status /\ Successor(page[r.page], r.row)
  BY <1>1, <1>8 DEF RequestsSound
<1>10. QED
  BY <1>1, <1>3, <1>4, <1>9 DEF Written, update

(* Every step is one of four kinds. *)
LEMMA StepKinds ==
    ASSUME RowsTyped, RequestsSound, [Next]_vars
    PROVE  \/ \E p \in Pages : Created(p)
           \/ \E e \in Editors : Written(e, request[e].page, request[e].row)
           \/ \E e \in Editors : Began(e)
           \/ Elsewhere
<1>1. ASSUME NEW p \in Pages, NEW role \in Role, NEW event \in Events, NEW slug \in Slugs,
             NEW text \in Texts, CreatePublicEventPage(p, role, event, slug, text)
      PROVE  Created(p)
  BY <1>1, CreateStep
<1>2. ASSUME NEW e \in Editors, NEW p \in Stored, NEW role \in Role, NEW v \in ShownVersions(p),
             \/ \E slug \in Slugs, text \in Texts : UpdatePublicEventPage(e, p, role, v, slug, text)
             \/ \E op \in Transitions : TransitionUseCase(e, p, role, op, v)
      PROVE  Began(e)
  BY <1>2, BeginStep
<1>3. ASSUME NEW e \in Editors, Commit(e)
      PROVE  Written(e, request[e].page, request[e].row)
  BY <1>3, CommitStep
<1>4. ASSUME NEW e \in Editors, Refuse(e) PROVE Elsewhere
  BY <1>4 DEF Refuse, Elsewhere, pageVars, eventVars, RowsTyped
<1>5. ASSUME StartReindex \/ NextBatch \/ RebuildSearch \/ RebuildMap PROVE Elsewhere
  BY <1>5 DEF StartReindex, NextBatch, RebuildSearch, RebuildMap, Elsewhere,
     pageVars, eventVars, RowsTyped
<1>10. ASSUME (\E e \in Editors : Wait(e)) \/ CommitReindex \/ AbandonReindex PROVE Elsewhere
  BY <1>10, HoldingStep
<1>6. ASSUME NEW e \in Events, NEW fact \in Facts, ReProjectEvent(e, fact) PROVE Elsewhere
  BY <1>6 DEF ReProjectEvent, Elsewhere, pageVars, RowsTyped
<1>7. ASSUME NEW s \in Events, NEW t \in Events, MergeDuplicateEvents(s, t) PROVE Elsewhere
  BY <1>7 DEF MergeDuplicateEvents, Elsewhere, pageVars, RowsTyped, Facts
<1>8. ASSUME UNCHANGED vars PROVE Elsewhere
  BY <1>8 DEF vars, Elsewhere, pageVars, eventVars, RowsTyped
<1>9. QED
  BY <1>1, <1>2, <1>3, <1>4, <1>5, <1>6, <1>7, <1>8, <1>10 DEF Next
--------------------------------------------------------------------------------
(* The trail. *)

Publications(trail) ==
    {i \in DOMAIN trail : trail[i].from # "PUBLISHED" /\ trail[i].to = "PUBLISHED"}

(* AuditTrail for one page: the trail explains the row. *)
Explains(trail, row) ==
    /\ Len(trail) = row.version
    /\ \A i \in DOMAIN trail :
          /\ trail[i].version = i
          /\ trail[i].from = IF i = 1 THEN "NONE" ELSE trail[i - 1].to
    /\ check_status_timestamps(row)
    /\ trail[Len(trail)].to = row.status
    /\ trail[Len(trail)].text = row.text
    /\ IF Publications(trail) = {} THEN row.firstPublished = 0
       ELSE /\ row.firstPublished \in Publications(trail)
            /\ row.lastPublished \in Publications(trail)
            /\ \A i \in Publications(trail) :
                  row.firstPublished <= i /\ i <= row.lastPublished

LEMMA TrailDef == AuditTrail <=> \A p \in Stored : Explains(revisions[p], page[p])
BY DEF AuditTrail, Explains, Publications, list_revisions

RevisionOf(row, from) ==
    [version |-> row.version, from |-> from, to |-> row.status, text |-> row.text]

LEMMA RevisionTyped ==
    ASSUME NEW row \in PageRows, NEW from \in PublicationStatus \cup {"NONE"}
    PROVE  RevisionOf(row, from) \in Revisions
BY DEF RevisionOf, Revisions, PageRows

(* The first revision explains the draft that was created. *)
LEMMA FirstRevision ==
    ASSUME NEW row \in PageRows, row.version = 1, row.status = "DRAFT", row.firstPublished = 0
    PROVE  Explains(Append(<<>>, RevisionOf(row, "NONE")), row)
<1> DEFINE trail == Append(<<>>, RevisionOf(row, "NONE"))
<1>1. trail = <<RevisionOf(row, "NONE")>>
  OBVIOUS
<1>2. Len(trail) = 1 /\ DOMAIN trail = {1} /\ trail[1] = RevisionOf(row, "NONE")
  BY <1>1
<1>3. /\ trail[1].version = 1 /\ trail[1].from = "NONE"
      /\ trail[1].to = "DRAFT" /\ trail[1].text = row.text
  BY <1>2 DEF RevisionOf
<1> HIDE DEF trail
<1>4. Publications(trail) = {}
  BY <1>2, <1>3 DEF Publications
<1>5. Explains(trail, row)
  BY <1>2, <1>3, <1>4 DEF Explains, check_status_timestamps
<1>6. QED
  BY <1>5 DEF trail

(* A further revision: the trail goes on explaining the row. *)
LEMMA NextRevision ==
    ASSUME NEW old \in PageRows, NEW new \in PageRows, NEW trail \in Seq(Revisions),
           Explains(trail, old), Successor(old, new)
    PROVE  Explains(Append(trail, RevisionOf(new, old.status)), new)
<1> DEFINE n == Len(trail)
           longer == Append(trail, RevisionOf(new, old.status))
<1>1. n \in Nat /\ n = old.version /\ n >= 1 /\ new.version = n + 1
  BY SuccessorFacts DEF Explains, PageRows
<1>2. /\ Len(longer) = n + 1 /\ DOMAIN longer = 1..(n + 1) /\ DOMAIN trail = 1..n
      /\ longer[n + 1] = RevisionOf(new, old.status)
      /\ \A i \in 1..n : longer[i] = trail[i]
  OBVIOUS
<1>3. /\ longer[n + 1].version = n + 1 /\ longer[n + 1].from = old.status
      /\ longer[n + 1].to = new.status /\ longer[n + 1].text = new.text
  BY <1>1, <1>2 DEF RevisionOf
<1> HIDE DEF longer
<1>4. \A i \in 1..(n + 1) :
         /\ longer[i].version = i
         /\ longer[i].from = IF i = 1 THEN "NONE" ELSE longer[i - 1].to
  <2> SUFFICES ASSUME NEW i \in 1..(n + 1)
               PROVE  /\ longer[i].version = i
                      /\ longer[i].from = IF i = 1 THEN "NONE" ELSE longer[i - 1].to
    OBVIOUS
  <2>1. CASE i = n + 1
    <3>1. longer[n].to = old.status
      BY <1>1, <1>2 DEF Explains
    <3>2. QED
      BY <1>1, <1>3, <2>1, <3>1
  <2>2. CASE i \in 1..n
    <3>1. i # 1 => i - 1 \in 1..n
      BY <1>1, <2>2
    <3>2. QED
      BY <1>2, <2>2, <3>1 DEF Explains
  <2>3. QED
    BY <1>1, <2>1, <2>2
<1>5. Publications(longer) =
        IF old.status # "PUBLISHED" /\ new.status = "PUBLISHED"
        THEN Publications(trail) \cup {n + 1} ELSE Publications(trail)
  BY <1>1, <1>2, <1>3 DEF Publications
<1>6. Publications(trail) \subseteq 1..n
  BY <1>2 DEF Publications
<1>7. /\ old.firstPublished \in Nat /\ old.lastPublished \in Nat
      /\ Publications(trail) = {} <=> old.firstPublished = 0
  BY <1>1, <1>6 DEF Explains, PageRows
<1>8. \/ /\ new.status = "PUBLISHED" /\ old.status # "PUBLISHED"
         /\ new.firstPublished = IF old.firstPublished = 0 THEN n + 1 ELSE old.firstPublished
         /\ new.lastPublished = n + 1
      \/ /\ new.status # "PUBLISHED"
         /\ new.firstPublished = old.firstPublished /\ new.lastPublished = old.lastPublished
  BY <1>1, SuccessorFacts
<1>9. /\ check_status_timestamps(new)
      /\ IF Publications(longer) = {} THEN new.firstPublished = 0
         ELSE /\ new.firstPublished \in Publications(longer)
              /\ new.lastPublished \in Publications(longer)
              /\ \A i \in Publications(longer) :
                    new.firstPublished <= i /\ i <= new.lastPublished
  <2>1. CASE new.status = "PUBLISHED"
    <3>1. Publications(longer) = Publications(trail) \cup {n + 1}
      BY <1>5, <1>8, <2>1
    <3>2. CASE old.firstPublished = 0
      BY <1>1, <1>6, <1>7, <1>8, <2>1, <3>1, <3>2 DEF check_status_timestamps
    <3>3. CASE old.firstPublished # 0
      BY <1>1, <1>6, <1>7, <1>8, <2>1, <3>1, <3>3 DEF check_status_timestamps, Explains
    <3>4. QED
      BY <3>2, <3>3
  <2>2. CASE new.status # "PUBLISHED"
    BY <1>5, <1>7, <1>8, <2>2 DEF check_status_timestamps, Explains
  <2>3. QED
    BY <2>1, <2>2
<1>10. Explains(longer, new)
  BY <1>1, <1>2, <1>3, <1>4, <1>9 DEF Explains
<1>11. QED
  BY <1>10 DEF longer
--------------------------------------------------------------------------------
(* The invariant is inductive. *)

LEMMA CreatedInv == ASSUME IInv, NEW p \in Pages, Created(p) PROVE IInv'
<1>1. PICK row \in PageRows :
         /\ page[p] = NoPage
         /\ row.version = 1 /\ row.status = "DRAFT" /\ row.firstPublished = 0
         /\ uq_slug(p, row.slug)
         /\ page' = [page EXCEPT ![p] = row]
         /\ add_revision(p, row, "NONE")
         /\ request' = request /\ facts' = facts
  BY DEF Created
<1>2. RowsTyped /\ SlugsUnique /\ NoOrphans /\ RequestsSound /\ AuditTrail
  BY DEF IInv
<1>3. revisions' = [revisions EXCEPT ![p] = Append(@, RevisionOf(row, "NONE"))]
  BY <1>1 DEF add_revision, RevisionOf
<1>4. revisions[p] \in Seq(Revisions) /\ RevisionOf(row, "NONE") \in Revisions
  BY <1>2, RevisionTyped, Typing
<1>5. RowsTyped'
  <2>1. Append(revisions[p], RevisionOf(row, "NONE")) \in Seq(Revisions)
    BY <1>4
  <2>2. QED
    BY <1>1, <1>2, <1>3, <2>1 DEF RowsTyped
<1>6. Stored' = Stored \cup {p} /\ page'[p] = row /\ \A q \in Stored : page'[q] = page[q]
  BY <1>1, <1>2, Typing DEF RowsTyped, Stored
<1>7. SlugsUnique'
  BY <1>1, <1>2, <1>6 DEF SlugsUnique, uq_slug
<1>8. RequestsSound'
  <2> SUFFICES ASSUME NEW e \in Editors, request[e] # Idle
               PROVE  page'[request[e].page] = page[request[e].page]
    BY <1>1, <1>2 DEF RequestsSound
  <2>1. request[e].page \in Stored
    BY <1>2, Typing DEF RequestsSound, Requests, Stored
  <2>2. QED
    BY <1>6, <2>1
<1>9. NoOrphans'
  BY <1>1, <1>2, <1>3, <1>6, Typing DEF NoOrphans, RowsTyped, Stored
<1>10. AuditTrail'
  <2>1. revisions[p] = <<>>
    BY <1>1, <1>2 DEF NoOrphans
  <2>2. Explains(revisions'[p], page'[p])
    BY <1>1, <1>2, <1>3, <1>6, <2>1, FirstRevision DEF RowsTyped
  <2>3. \A q \in Stored : revisions'[q] = revisions[q] /\ page'[q] = page[q]
    BY <1>1, <1>2, <1>3, <1>6 DEF RowsTyped, Stored
  <2>4. \A q \in Stored' : Explains(revisions'[q], page'[q])
    BY <1>2, <1>6, <2>2, <2>3, TrailDef
  <2>5. AuditTrail' <=> \A q \in Stored' : Explains(revisions'[q], page'[q])
    BY DEF AuditTrail, Explains, Publications, list_revisions, check_status_timestamps
  <2>6. QED
    BY <2>4, <2>5
<1>11. QED
  BY <1>5, <1>7, <1>8, <1>9, <1>10 DEF IInv

LEMMA WrittenInv ==
    ASSUME IInv, NEW e \in Editors, NEW p, NEW row, Written(e, p, row) PROVE IInv'
<1>1. RowsTyped /\ SlugsUnique /\ NoOrphans /\ RequestsSound /\ AuditTrail
  BY DEF IInv
<1>2. /\ p \in Stored /\ p \in Pages /\ row \in PageRows /\ Successor(page[p], row)
      /\ request[e] # Idle
      /\ uq_slug(p, row.slug)
      /\ page' = [page EXCEPT ![p] = row]
      /\ request' = [request EXCEPT ![e] = Idle] /\ facts' = facts
  BY DEF Written, Stored
<1>3. revisions' = [revisions EXCEPT ![p] = Append(@, RevisionOf(row, page[p].status))]
  BY DEF Written, add_revision, RevisionOf
<1>4. page[p] \in PageRows /\ revisions[p] \in Seq(Revisions)
  BY <1>1, <1>2, Typing
<1>5. RevisionOf(row, page[p].status) \in Revisions
  <2>1. page[p].status \in PublicationStatus
    BY <1>4 DEF PageRows
  <2>2. QED
    BY <1>2, <2>1, RevisionTyped
<1>6. RowsTyped'
  <2>1. Append(revisions[p], RevisionOf(row, page[p].status)) \in Seq(Revisions)
    BY <1>4, <1>5
  <2>2. QED
    BY <1>1, <1>2, <1>3, <2>1 DEF RowsTyped
<1>7. /\ Stored' = Stored /\ page'[p] = row
      /\ \A q \in Pages \ {p} : page'[q] = page[q] /\ revisions'[q] = revisions[q]
  BY <1>1, <1>2, <1>3, Typing DEF RowsTyped, Stored
<1>8. SlugsUnique'
  BY <1>1, <1>2, <1>7 DEF SlugsUnique, uq_slug, Stored
<1>9. NoOrphans'
  BY <1>1, <1>2, <1>7, Typing DEF NoOrphans
<1>10. RequestsSound'
  <2> SUFFICES ASSUME NEW d \in Editors, request'[d] # Idle
               PROVE  LET r == request'[d] IN
                      /\ page'[r.page] # NoPage
                      /\ r.expected < r.row.version
                      /\ r.row.version <= page'[r.page].version + 1
                      /\ r.row.version = page'[r.page].version + 1 =>
                            r.from = page'[r.page].status /\ Successor(page'[r.page], r.row)
    BY DEF RequestsSound, Successor
  <2> DEFINE r == request[d]
  <2>1. request'[d] = r /\ r # Idle
    BY <1>1, <1>2 DEF RowsTyped
  <2>2. r \in Requests /\ r.page \in Pages /\ r.row \in PageRows
    BY <1>1, <2>1, Typing DEF Requests
  <2>3. /\ page[r.page] # NoPage /\ r.expected < r.row.version
        /\ r.row.version <= page[r.page].version + 1
        /\ r.row.version = page[r.page].version + 1 =>
              r.from = page[r.page].status /\ Successor(page[r.page], r.row)
    BY <1>1, <2>1 DEF RequestsSound
  <2>4. CASE r.page = p
    <3>1. row.version = page[p].version + 1
      BY <1>2, <1>4, SuccessorFacts
    <3>2. page[p].version \in Nat /\ r.row.version \in Nat
      BY <1>4, <2>2 DEF PageRows
    <3>3. r.row.version < row.version + 1
      BY <2>3, <2>4, <3>1, <3>2
    <3>4. row # NoPage
      BY <1>1, <1>2, Typing
    <3>5. QED
      BY <1>7, <2>1, <2>3, <2>4, <3>1, <3>2, <3>3, <3>4
  <2>5. CASE r.page # p
    BY <1>7, <2>1, <2>2, <2>3, <2>5
  <2>6. QED
    BY <2>4, <2>5
<1>11. AuditTrail'
  <2>1. Explains(revisions[p], page[p])
    BY <1>1, <1>2, TrailDef
  <2>2. Explains(Append(revisions[p], RevisionOf(row, page[p].status)), row)
    BY <1>2, <1>4, <2>1, NextRevision
  <2>3. Explains(revisions'[p], page'[p])
    BY <1>1, <1>2, <1>3, <1>7, <2>2 DEF RowsTyped
  <2>4. \A q \in Stored : Explains(revisions'[q], page'[q])
    BY <1>1, <1>7, <2>3, TrailDef DEF Stored
  <2>5. AuditTrail' <=> \A q \in Stored' : Explains(revisions'[q], page'[q])
    BY DEF AuditTrail, Explains, Publications, list_revisions, check_status_timestamps
  <2>6. QED
    BY <1>7, <2>4, <2>5
<1>12. QED
  BY <1>6, <1>8, <1>9, <1>10, <1>11 DEF IInv

LEMMA OtherInv ==
    ASSUME IInv, UNCHANGED <<page, revisions>>, RowsTyped',
           \A e \in Editors : \/ request'[e] \in {request[e], Idle}
                              \/ request[e] # Idle /\ SameRequest(request[e], request'[e])
                              \/ (Began(e) /\ \A d \in Editors \ {e} : request'[d] = request[d])
    PROVE  IInv'
<1>1. SlugsUnique' /\ NoOrphans'
  BY DEF IInv, SlugsUnique, NoOrphans, Stored
<1>2. AuditTrail'
  BY DEF IInv, AuditTrail, Stored, list_revisions, check_status_timestamps
<1>3. RequestsSound'
  <2> SUFFICES ASSUME NEW e \in Editors, request'[e] # Idle
               PROVE  LET r == request'[e] IN
                      /\ page'[r.page] # NoPage
                      /\ r.expected < r.row.version
                      /\ r.row.version <= page'[r.page].version + 1
                      /\ r.row.version = page'[r.page].version + 1 =>
                            r.from = page'[r.page].status /\ Successor(page'[r.page], r.row)
    BY DEF RequestsSound, Successor
  <2>1. CASE request'[e] = request[e]
    BY <2>1 DEF IInv, RequestsSound
  <2>4. CASE request[e] # Idle /\ SameRequest(request[e], request'[e])
    BY <2>4 DEF IInv, RequestsSound, SameRequest
  <2>2. CASE Began(e)
    <3>1. PICK p \in Stored, expected \in 1..MaxVersion, row \in PageRows :
             /\ expected <= page[p].version
             /\ Successor(page[p], row)
             /\ request' = [request EXCEPT ![e] = NewRequest(p, expected, row)]
      BY <2>2 DEF Began
    <3>2. request'[e] = NewRequest(p, expected, row)
      BY <3>1 DEF IInv, RowsTyped
    <3>3. page[p] \in PageRows /\ page[p] # NoPage
      BY Typing DEF IInv, Stored
    <3>4. row.version = page[p].version + 1
      BY <3>1, <3>3, SuccessorFacts
    <3>5. page[p].version \in Nat /\ expected \in Nat
      BY <3>3, Typing DEF PageRows, IInv
    <3>6. QED
      BY <3>1, <3>2, <3>3, <3>4, <3>5 DEF NewRequest
  <2>3. QED
    BY <2>1, <2>2, <2>4
<1>4. QED
  BY <1>1, <1>2, <1>3 DEF IInv

LEMMA StepInv == IInv /\ [Next]_vars => IInv'
<1> SUFFICES ASSUME IInv, [Next]_vars PROVE IInv'
  OBVIOUS
<1>1. CASE \E p \in Pages : Created(p)
  BY <1>1, CreatedInv
<1>2. CASE \E e \in Editors : Written(e, request[e].page, request[e].row)
  BY <1>2, WrittenInv
<1>3. ASSUME NEW e \in Editors, Began(e) PROVE IInv'
  <2>1. PICK p \in Stored, expected \in 1..MaxVersion, row \in PageRows :
           request' = [request EXCEPT ![e] = NewRequest(p, expected, row)]
    BY <1>3 DEF Began
  <2>2. page[p].status \in PublicationStatus /\ p \in Pages
    BY Typing DEF IInv, PageRows, Stored
  <2>3. NewRequest(p, expected, row) \in Requests
    BY <2>2 DEF NewRequest, Requests, Facts, Indexes
  <2>4. RowsTyped' /\ UNCHANGED <<page, revisions>>
    BY <1>3, <2>1, <2>3 DEF IInv, RowsTyped, Began
  <2>5. \A d \in Editors \ {e} : request'[d] = request[d]
    BY <2>1 DEF IInv, RowsTyped
  <2>6. QED
    BY <1>3, <2>4, <2>5, OtherInv
<1>4. CASE Elsewhere
  <2>1. RowsTyped'
    BY <1>4 DEF Elsewhere, IInv, RowsTyped
  <2>2. QED
    BY <1>4, <2>1, OtherInv DEF Elsewhere
<1>5. QED
  BY <1>1, <1>2, <1>3, <1>4, StepKinds DEF IInv

THEOREM Invariance == Spec => []IInv
BY InitInv, StepInv, PTL DEF Spec

(* The revisions of every page explain it. *)
THEOREM RevisionsExplain == Spec => []AuditTrail
BY Invariance, PTL DEF IInv
--------------------------------------------------------------------------------
(* What a step does to a stored page: nothing, or a successor takes its place. *)
LEMMA PageStep ==
    ASSUME IInv, [Next]_vars, NEW p \in Stored
    PROVE  page'[p] = page[p] \/ Successor(page[p], page'[p])
<1>1. ASSUME NEW q \in Pages, Created(q) PROVE page'[p] = page[p]
  BY <1>1 DEF Created, IInv, RowsTyped, Stored
<1>2. ASSUME NEW e \in Editors, Written(e, request[e].page, request[e].row)
      PROVE  page'[p] = page[p] \/ Successor(page[p], page'[p])
  BY <1>2 DEF Written, IInv, RowsTyped, Stored
<1>3. ASSUME NEW e \in Editors, Began(e) PROVE page'[p] = page[p]
  BY <1>3 DEF Began
<1>4. ASSUME Elsewhere PROVE page'[p] = page[p]
  BY <1>4 DEF Elsewhere
<1>5. QED
  BY <1>1, <1>2, <1>3, <1>4, StepKinds DEF IInv

(* A committed write keeps what its operation does not set. *)
THEOREM NothingLost == Spec => NoLostEdit
<1>1. IInv /\ [Next]_vars => EditsKept
  <2> SUFFICES ASSUME IInv, [Next]_vars, NEW p \in Stored, page'[p] # page[p]
               PROVE  /\ page'[p].version = page[p].version + 1
                      /\ page'[p].event = page[p].event
                      /\ page'[p].status # page[p].status =>
                            page'[p].text = page[p].text /\ page'[p].slug = page[p].slug
                      /\ page'[p].status = page[p].status =>
                            page'[p].lastPublished = page[p].lastPublished
    BY DEF EditsKept
  <2>1. Successor(page[p], page'[p])
    BY PageStep
  <2>2. page[p] \in PageRows
    BY Typing DEF IInv
  <2>3. QED
    BY <2>1, <2>2, SuccessorFacts
<1>2. QED
  BY <1>1, Invariance, PTL DEF Spec, NoLostEdit

(* A retracted page is not written again and keeps its slug to itself. *)
THEOREM RetractionIsFinal == Spec => RetractionFinal
<1>1. IInv /\ IInv' /\ [Next]_vars => RetractedStays
  <2> SUFFICES ASSUME IInv, IInv', [Next]_vars, NEW p \in Stored, page[p].status = "RETRACTED"
               PROVE  /\ page'[p] = page[p]
                      /\ \A q \in Pages \ {p} :
                            page'[q] # NoPage => page'[q].slug # page[p].slug
    BY DEF RetractedStays
  <2>1. page[p] \in PageRows
    BY Typing DEF IInv
  <2>2. ~ \E t \in PublicationStatus : validate_transition("RETRACTED", t)
    BY DEF validate_transition, allowed_next_states, ALLOWED_TRANSITIONS
  <2>3. page'[p] = page[p]
    BY <2>1, <2>2, PageStep, SuccessorFacts
  <2>4. p \in Stored'
    BY <2>3 DEF Stored
  <2>5. \A q \in Pages \ {p} : page'[q] # NoPage => q \in Stored' /\ q # p
    BY DEF Stored
  <2>6. QED
    BY <2>3, <2>4, <2>5 DEF IInv, SlugsUnique
<1>2. QED
  BY <1>1, Invariance, PTL DEF Spec, RetractionFinal
--------------------------------------------------------------------------------
(* Refinement: the table of pages is a versioned document. *)

Mapped == [p \in Pages |-> DocumentOf(page[p])]

(* A step that replaces one row replaces one document. *)
LEMMA OneDocument ==
    ASSUME RowsTyped, NEW p \in Pages, NEW row \in PageRows, page' = [page EXCEPT ![p] = row]
    PROVE  Mapped' = [Mapped EXCEPT ![p] = [status |-> row.status, version |-> row.version]]
<1>1. row # NoPage
  BY Typing
<1>2. QED
  BY <1>1 DEF Mapped, DocumentOf, RowsTyped

LEMMA CreatedRefines == ASSUME IInv, NEW p \in Pages, Created(p) PROVE Document!Create(p)
<1>1. PICK row \in PageRows : /\ page[p] = NoPage /\ row.version = 1 /\ row.status = "DRAFT"
                              /\ page' = [page EXCEPT ![p] = row]
  BY DEF Created
<1>2. Mapped[p] = NoPage
  BY <1>1 DEF Mapped, DocumentOf
<1>3. Mapped' = [Mapped EXCEPT ![p] = [status |-> "DRAFT", version |-> 1]]
  BY <1>1, OneDocument DEF IInv
<1>4. QED
  BY <1>2, <1>3 DEF Document!Create, Mapped

LEMMA WrittenRefines ==
    ASSUME IInv, NEW e \in Editors, NEW p, NEW row, Written(e, p, row)
    PROVE  Document!Edit(p) \/ \E to \in PublicationStatus : Document!Move(p, to)
<1>1. /\ p \in Stored /\ p \in Pages /\ row \in PageRows /\ Successor(page[p], row)
      /\ page' = [page EXCEPT ![p] = row]
  BY DEF Written, Stored
<1>2. page[p] \in PageRows /\ page[p] # NoPage /\ NoPage \notin [status : PublicationStatus, version : Nat]
  BY <1>1, Typing, PublicationAssumption DEF IInv, Stored, PublicationAssumption
<1>3. Mapped[p] = [status |-> page[p].status, version |-> page[p].version] /\ Mapped[p] # NoPage
  BY <1>1, <1>2, Typing DEF Mapped, DocumentOf, PageRows, IInv
<1>4. Mapped' = [Mapped EXCEPT ![p] = [status |-> row.status, version |-> page[p].version + 1]]
  <2>1. row.version = page[p].version + 1
    BY <1>1, <1>2, SuccessorFacts
  <2>2. Mapped' = [Mapped EXCEPT ![p] = [status |-> row.status, version |-> row.version]]
    BY <1>1, OneDocument DEF IInv
  <2>3. QED
    BY <2>1, <2>2
<1>5. CASE page[p].status = "DRAFT" /\ row.status = "DRAFT"
  <2>1. Mapped' = [Mapped EXCEPT ![p].version = @ + 1]
    <3>1. [Mapped[p] EXCEPT !.version = @ + 1]
             = [status |-> row.status, version |-> page[p].version + 1]
      BY <1>3, <1>5
    <3>2. QED
      BY <1>4, <3>1
  <2>2. Document!Edit(p)
    BY <1>3, <1>5, <2>1 DEF Document!Edit, Mapped
  <2>3. QED
    BY <2>2
<1>6. CASE validate_transition(page[p].status, row.status) /\ row.status \in PublicationStatus
  <2>1. Mapped' = [Mapped EXCEPT ![p] = [status |-> row.status, version |-> @.version + 1]]
    BY <1>3, <1>4
  <2>2. Document!validate_transition(Mapped[p].status, row.status)
    BY <1>3, <1>6 DEF validate_transition, allowed_next_states, ALLOWED_TRANSITIONS,
       Document!validate_transition, Document!allowed_next_states, Document!ALLOWED_TRANSITIONS
  <2>3. Document!Move(p, row.status)
    BY <1>3, <2>1, <2>2 DEF Document!Move, Mapped
  <2>4. QED
    BY <1>6, <2>3
<1>7. QED
  BY <1>1, <1>2, <1>5, <1>6, SuccessorFacts

(* The editorial table implements the versioned document. *)
THEOREM Refinement == Spec => ImplementsDocument
<1>1. Init => Document!Init
  BY DEF Init, Document!Init
<1>2. IInv /\ [Next]_vars => [Document!Next]_Mapped
  <2> SUFFICES ASSUME IInv, [Next]_vars PROVE Document!Next \/ Mapped' = Mapped
    OBVIOUS
  <2>1. ASSUME NEW p \in Pages, Created(p) PROVE Document!Next
    BY <2>1, CreatedRefines DEF Document!Next
  <2>2. ASSUME NEW e \in Editors, Written(e, request[e].page, request[e].row) PROVE Document!Next
    <3>1. request[e].page \in Pages
      BY <2>2 DEF Written, Stored
    <3>2. QED
      BY <2>2, <3>1, WrittenRefines DEF Document!Next, PublicationStatus, Document!PublicationStatus
  <2>3. ASSUME UNCHANGED page PROVE Mapped' = Mapped
    BY <2>3 DEF Mapped
  <2>4. QED
    BY <2>1, <2>2, <2>3, StepKinds DEF IInv, Began, Elsewhere
<1>3. QED
  BY <1>1, <1>2, Invariance, PTL DEF Spec, ImplementsDocument, Document!Spec, Mapped
--------------------------------------------------------------------------------
(* Lists and recursion *)

LEMMA LeastNat ==
    ASSUME NEW T \in SUBSET Nat, T # {}
    PROVE  \E n \in T : \A m \in T : n <= m
<1>1. PICK n \in T : \A m \in T : ~(<<m, n>> \in OpToRel(<, Nat))
  BY NatLessThanWellFounded, WFMin
<1>2. \A m \in T : ~(m < n)
  BY <1>1 DEF OpToRel
<1> QED
  BY <1>2

(* R does not go round in circles on S. *)
StrictOrder(R, S) ==
    /\ \A x \in S : <<x, x>> \notin R
    /\ \A x, y, z \in S : <<x, y>> \in R /\ <<y, z>> \in R => <<x, z>> \in R

(* A finite set has an element that precedes no other: one with the fewest     *)
(* elements after it.                                                          *)
LEMMA LastElement ==
    ASSUME NEW R, NEW S, IsFiniteSet(S), S # {}, StrictOrder(R, S)
    PROVE  \E m \in S : \A x \in S : <<m, x>> \notin R
<1> DEFINE After(x) == {y \in S : <<x, y>> \in R}
           sizes == {Cardinality(After(x)) : x \in S}
<1>1. \A x \in S : IsFiniteSet(After(x)) /\ Cardinality(After(x)) \in Nat
  BY FS_Subset, FS_CardinalityType
<1>2. sizes \in SUBSET Nat /\ sizes # {}
  BY <1>1
<1>3. PICK n \in sizes : \A m \in sizes : n <= m
  BY <1>2, LeastNat
<1>4. PICK m \in S : n = Cardinality(After(m))
  BY <1>3
<1>5. ASSUME NEW x \in S, <<m, x>> \in R PROVE FALSE
  <2>1. After(x) \subseteq After(m) /\ x \in After(m) /\ x \notin After(x)
    BY <1>5 DEF StrictOrder
  <2>2. Cardinality(After(x)) < Cardinality(After(m))
    <3>1. After(x) # After(m)
      BY <2>1
    <3> HIDE DEF After
    <3>2. Cardinality(After(x)) <= Cardinality(After(m)) /\ Cardinality(After(x)) # Cardinality(After(m))
      BY <1>1, <2>1, <3>1, FS_Subset
    <3> QED
      BY <1>1, <3>2
  <2>3. Cardinality(After(x)) \in sizes
    OBVIOUS
  <2> HIDE DEF sizes, After
  <2> QED
    BY <1>1, <1>3, <1>4, <2>2, <2>3
<1> QED
  BY <1>5

(* The sequences that list S in the order R: each element once, none before    *)
(* one that precedes it.                                                       *)
ListsOf(S, R) ==
    {s \in [1..Cardinality(S) -> S] :
        /\ \A i, j \in 1..Cardinality(S) : i # j => s[i] # s[j]
        /\ \A i, j \in 1..Cardinality(S) : i < j => <<s[j], s[i]>> \notin R}

LEMMA ListExists ==
    ASSUME NEW R, NEW S, IsFiniteSet(S), StrictOrder(R, S)
    PROVE  ListsOf(S, R) # {}
<1> DEFINE bad == {n \in Nat : \E U \in SUBSET S : Cardinality(U) = n /\ ListsOf(U, R) = {}}
<1>1. ASSUME bad # {} PROVE FALSE
  <2>1. PICK n \in bad : \A m \in bad : n <= m
    BY <1>1, LeastNat
  <2>2. PICK U \in SUBSET S : Cardinality(U) = n /\ ListsOf(U, R) = {}
    BY <2>1
  <2>3. IsFiniteSet(U) /\ StrictOrder(R, U)
    BY <2>2, FS_Subset DEF StrictOrder
  <2>4. CASE U = {}
    <3>1. n = 0
      BY <2>2, <2>4, FS_EmptySet
    <3>2. [i \in 1..0 |-> i] \in ListsOf(U, R)
      BY <2>2, <2>4, <3>1 DEF ListsOf
    <3> QED
      BY <2>2, <3>2
  <2>5. CASE U # {}
    <3>1. PICK m \in U : \A x \in U : <<m, x>> \notin R
      BY <2>3, <2>5, LastElement
    <3> DEFINE V == U \ {m}
    <3>2. IsFiniteSet(V) /\ Cardinality(V) = n - 1 /\ n \in Nat /\ n - 1 \in Nat
      <4>1. n \in Nat /\ n # 0
        BY <2>1, <2>2, <2>3, <2>5, FS_EmptySet
      <4>2. IsFiniteSet(V) /\ Cardinality(V) = n - 1
        BY <2>2, <2>3, <3>1, FS_RemoveElement
      <4> QED
        BY <4>1, <4>2
    <3>3. V \in SUBSET S /\ n - 1 \notin bad
      <4>1. n - 1 < n
        BY <3>2
      <4> QED
        BY <2>1, <3>2, <4>1
    <3>4. PICK s \in ListsOf(V, R) : TRUE
      BY <3>2, <3>3
    <3> DEFINE u == [i \in 1..n |-> IF i = n THEN m ELSE s[i]]
    <3>5. /\ \A i \in 1..(n - 1) : u[i] = s[i] /\ s[i] \in U /\ s[i] # m
          /\ u[n] = m
      <4>1. n \in 1..n /\ \A i \in 1..(n - 1) : i \in 1..n /\ i # n
        BY <3>2
      <4>2. \A i \in 1..(n - 1) : s[i] \in V
        BY <3>2, <3>4 DEF ListsOf
      <4> QED
        BY <4>1, <4>2
    <3>6. \A i, j \in 1..(n - 1) : (i # j => s[i] # s[j]) /\ (i < j => <<s[j], s[i]>> \notin R)
      BY <3>2, <3>4 DEF ListsOf
    <3>7. \A i \in 1..n : i = n \/ i \in 1..(n - 1)
      BY <3>2
    <3>8. u \in [1..n -> U]
      BY <3>5, <3>7
    <3> HIDE DEF u, V
    <3>9. \A i, j \in 1..n : i # j => u[i] # u[j]
      BY <3>5, <3>6, <3>7
    <3>10. \A i, j \in 1..n : i < j => <<u[j], u[i]>> \notin R
      <4>1. \A i, j \in 1..n : i < j => i # n
        BY <3>2
      <4> QED
        BY <3>1, <3>5, <3>6, <3>7, <4>1
    <3>11. u \in ListsOf(U, R)
      BY <2>2, <3>8, <3>9, <3>10 DEF ListsOf
    <3> QED
      BY <2>2, <3>11
  <2> QED
    BY <2>4, <2>5
<1>2. Cardinality(S) \in Nat /\ S \in SUBSET S
  BY FS_CardinalityType
<1> QED
  BY <1>1, <1>2

(* A list has every element: as many places as there are elements. *)
LEMMA ListIsOnto ==
    ASSUME NEW S, IsFiniteSet(S), NEW s \in [1..Cardinality(S) -> S],
           \A i, j \in 1..Cardinality(S) : i # j => s[i] # s[j]
    PROVE  \A x \in S : \E i \in 1..Cardinality(S) : s[i] = x
<1> DEFINE n == Cardinality(S)
           T == {s[i] : i \in 1..n}
<1>1. n \in Nat
  BY FS_CardinalityType
<1>2. s \in Bijection(1..n, T)
  BY DEF Bijection, Injection, Surjection, IsInjective
<1>3. Cardinality(T) = n
  BY <1>1, <1>2, FS_CountingElements DEF ExistsBijection
<1>4. T \subseteq S
  OBVIOUS
<1>5. T = S
  BY <1>3, <1>4, FS_Subset
<1> QED
  BY <1>5

(* A function by recursion on the naturals up to N, with a step G. *)
Recursive(f, N, b, G) == f[0] = b /\ \A n \in 1..N : f[n] = G[<<n, f[n - 1]>>]

LEMMA Recursion ==
    ASSUME NEW N \in Nat, NEW V, NEW b \in V, NEW G \in [(1..N) \X V -> V]
    PROVE  \E f \in [0..N -> V] : Recursive(f, N, b, G)
<1> DEFINE Upto(k, f) == f[0] = b /\ \A n \in 1..k : f[n] = G[<<n, f[n - 1]>>]
           bad == {k \in 0..N : ~ \E f \in [0..k -> V] : Upto(k, f)}
<1>1. ASSUME bad # {} PROVE FALSE
  <2>0. bad \in SUBSET Nat
    OBVIOUS
  <2>1. PICK k \in bad : \A m \in bad : k <= m
    <3> HIDE DEF bad
    <3> QED
      BY <1>1, <2>0, LeastNat
  <2>2. k \in 0..N /\ k \in Nat
    BY <2>1
  <2>3. k # 0
    <3> SUFFICES ASSUME k = 0 PROVE FALSE
      OBVIOUS
    <3>1. [i \in 0..0 |-> b] \in [0..k -> V] /\ Upto(k, [i \in 0..0 |-> b])
      BY <2>2
    <3> QED
      BY <2>1, <3>1
  <2>4. k - 1 \in 0..N /\ ~ (k <= k - 1)
    BY <2>2, <2>3
  <2>5. k - 1 \notin bad
    BY <2>1, <2>4
  <2>6. PICK g \in [0..(k - 1) -> V] : Upto(k - 1, g)
    BY <2>4, <2>5
  <2> DEFINE f == [n \in 0..k |-> IF n = k THEN G[<<k, g[k - 1]>>] ELSE g[n]]
  <2>7. /\ f[k] = G[<<k, g[k - 1]>>]
        /\ \A n \in 0..(k - 1) : f[n] = g[n] /\ n \in 0..k
        /\ \A n \in 0..k : n = k \/ n \in 0..(k - 1)
    BY <2>2, <2>3
  <2>8. f \in [0..k -> V]
    <3>1. k \in 1..N /\ g[k - 1] \in V
      BY <2>2, <2>3, <2>6
    <3>2. G[<<k, g[k - 1]>>] \in V
      BY <3>1
    <3> QED
      BY <2>2, <2>6, <3>2
  <2> HIDE DEF f
  <2>9. f[0] = b
    BY <2>2, <2>3, <2>6, <2>7
  <2>10. ASSUME NEW n \in 1..k PROVE f[n] = G[<<n, f[n - 1]>>]
    <3>1. n - 1 \in 0..(k - 1)
      BY <2>2
    <3>2. CASE n = k
      BY <2>7, <3>1, <3>2
    <3>3. CASE n # k
      <4>1. n \in 1..(k - 1) /\ n \in 0..(k - 1)
        BY <2>2, <3>3
      <4> QED
        BY <2>6, <2>7, <3>1, <4>1
    <3> QED
      BY <3>2, <3>3
  <2> QED
    BY <2>1, <2>8, <2>9, <2>10
<1>2. PICK f \in [0..N -> V] : Upto(N, f)
  BY <1>1
<1> QED
  BY <1>2 DEF Recursive

(* Two lists of one set in one total order are the same list: where they first *)
(* differ, each has later what the other has there.                            *)
LEMMA ListIsUnique ==
    ASSUME NEW R, NEW S, IsFiniteSet(S), StrictOrder(R, S),
           \A x, y \in S : x # y => <<x, y>> \in R \/ <<y, x>> \in R,
           NEW s \in ListsOf(S, R), NEW t \in ListsOf(S, R)
    PROVE  s = t
<1> DEFINE n == Cardinality(S)
           bad == {i \in 1..n : s[i] # t[i]}
<1>1. n \in Nat
  BY FS_CardinalityType
<1> HIDE DEF n
<1>2. /\ s \in [1..n -> S] /\ t \in [1..n -> S]
      /\ \A i, j \in 1..n : i # j => s[i] # s[j] /\ t[i] # t[j]
      /\ \A i, j \in 1..n : i < j => <<s[j], s[i]>> \notin R /\ <<t[j], t[i]>> \notin R
  BY DEF ListsOf, n
<1>3. /\ \A x \in S : \E i \in 1..n : s[i] = x
      /\ \A x \in S : \E i \in 1..n : t[i] = x
  <2>1. \A f \in [1..n -> S] : (\A i, j \in 1..n : i # j => f[i] # f[j]) =>
            \A x \in S : \E i \in 1..n : f[i] = x
    BY ListIsOnto DEF n
  <2> QED
    BY <1>2, <2>1
<1>4. ASSUME bad # {} PROVE FALSE
  <2>1. bad \in SUBSET Nat
    BY <1>1
  <2>2. PICK i \in bad : \A m \in bad : i <= m
    <3> HIDE DEF bad
    <3> QED
      BY <1>4, <2>1, LeastNat
  <2>3. i \in 1..n /\ s[i] # t[i] /\ s[i] \in S /\ t[i] \in S
    BY <1>2, <2>2
  <2>4. \A m \in 1..n : m < i => s[m] = t[m]
    BY <1>1, <2>2, <2>3
  <2>5. PICK j \in 1..n : t[j] = s[i]
    BY <1>3, <2>3
  <2>6. PICK k \in 1..n : s[k] = t[i]
    BY <1>3, <2>3
  <2>7. i < j /\ i < k
    <3>1. j # i /\ k # i
      BY <2>3, <2>5, <2>6
    <3>2. ~ (j < i) /\ ~ (k < i)
      BY <1>2, <2>3, <2>4, <2>5, <2>6, <3>1
    <3> QED
      BY <1>1, <2>3, <3>1, <3>2
  <2>8. <<t[i], s[i]>> \notin R /\ <<s[i], t[i]>> \notin R
    BY <1>2, <2>3, <2>5, <2>6, <2>7
  <2> QED
    BY <2>3, <2>8
<1>5. \A i \in 1..n : s[i] = t[i]
  BY <1>4
<1>6. s = [i \in 1..n |-> s[i]]
  BY <1>2
<1>7. t = [i \in 1..n |-> t[i]]
  BY <1>2
<1>8. [i \in 1..n |-> s[i]] = [i \in 1..n |-> t[i]]
  BY <1>5
<1> QED
  BY <1>6, <1>7, <1>8

(* What is left of a list behind its first k members is a list. *)
LEMMA ListRest ==
    ASSUME NEW R, NEW S, IsFiniteSet(S), NEW s \in ListsOf(S, R), NEW k \in 0..Cardinality(S)
    PROVE  LET T == {s[i] : i \in (k + 1)..Cardinality(S)}
               n == Cardinality(S) - k
           IN n = Cardinality(T) /\ [i \in 1..n |-> s[k + i]] \in ListsOf(T, R)
<1> DEFINE N == Cardinality(S)
           n == N - k
           T == {s[i] : i \in (k + 1)..N}
           u == [i \in 1..n |-> s[k + i]]
<1>1. N \in Nat
  BY FS_CardinalityType
<1> HIDE DEF N
<1>2. n \in Nat /\ \A i \in 1..n : k + i \in (k + 1)..N /\ k + i \in 1..N /\ u[i] = s[k + i]
  BY <1>1 DEF N
<1>3. \A i \in (k + 1)..N : i - k \in 1..n /\ k + (i - k) = i
  BY <1>1 DEF N
<1>4. /\ s \in [1..N -> S]
      /\ \A i, j \in 1..N : i # j => s[i] # s[j]
      /\ \A i, j \in 1..N : i < j => <<s[j], s[i]>> \notin R
  BY DEF ListsOf, N
<1>5. \A i, j \in 1..n : (i # j => k + i # k + j) /\ (i < j => k + i < k + j)
  BY <1>1, <1>2 DEF N
<1>6. u \in [1..n -> T]
  BY <1>2
<1>7. T = {u[i] : i \in 1..n}
  BY <1>2, <1>3
<1> HIDE DEF n, u, T
<1>8. \A i, j \in 1..n : (i # j => u[i] # u[j]) /\ (i < j => <<u[j], u[i]>> \notin R)
  BY <1>2, <1>4, <1>5
<1>9. u \in Bijection(1..n, T)
  BY <1>6, <1>7, <1>8 DEF Bijection, Injection, Surjection, IsInjective
<1>10. Cardinality(T) = n
  BY <1>2, <1>9, FS_CountingElements DEF ExistsBijection
<1>11. u \in ListsOf(T, R)
  BY <1>6, <1>8, <1>10 DEF ListsOf
<1> QED
  BY <1>10, <1>11 DEF n, u, T, N

(* R puts the elements of S in a row. *)
TotalOrder(R, S) ==
    /\ StrictOrder(R, S)
    /\ \A x, y \in S : x # y => <<x, y>> \in R \/ <<y, x>> \in R

(* A list of a set in a total order has every element, at its place. *)
LEMMA ListInOrder ==
    ASSUME NEW R, NEW S, IsFiniteSet(S), TotalOrder(R, S), NEW s \in ListsOf(S, R)
    PROVE  /\ Cardinality(S) \in Nat /\ s \in Seq(S) /\ Len(s) = Cardinality(S)
           /\ \A i, j \in 1..Cardinality(S) : s[i] = s[j] => i = j
           /\ \A i, j \in 1..Cardinality(S) : <<s[i], s[j]>> \in R <=> i < j
           /\ \A x \in S : \E i \in 1..Cardinality(S) : s[i] = x
<1> DEFINE n == Cardinality(S)
<1>1. n \in Nat
  BY FS_CardinalityType
<1>2. \A x \in S : \E i \in 1..n : s[i] = x
  BY ListIsOnto DEF ListsOf
<1>3. /\ s \in [1..n -> S]
      /\ \A i, j \in 1..n : i # j => s[i] # s[j]
      /\ \A i, j \in 1..n : i < j => <<s[j], s[i]>> \notin R
  BY DEF ListsOf
<1> HIDE DEF n
<1>4. s \in Seq(S) /\ Len(s) = n
  BY <1>1, <1>3
<1>5. ASSUME NEW i \in 1..n, NEW j \in 1..n PROVE <<s[i], s[j]>> \in R <=> i < j
  <2>1. s[i] \in S /\ s[j] \in S
    BY <1>3
  <2>2. CASE i = j
    <3>1. <<s[i], s[i]>> \notin R
      BY <2>1 DEF TotalOrder, StrictOrder
    <3>2. ~ (i < j)
      BY <1>1, <2>2
    <3> QED
      BY <2>2, <3>1, <3>2, Zenon
  <2>3. CASE i < j
    <3>1. i # j
      BY <1>1, <2>3
    <3>2. s[i] # s[j] /\ <<s[j], s[i]>> \notin R
      BY <1>3, <2>3, <3>1
    <3>3. <<s[i], s[j]>> \in R
      BY <2>1, <3>2 DEF TotalOrder
    <3> QED
      BY <2>3, <3>3
  <2>4. CASE j < i
    <3>1. ~ (i < j)
      BY <1>1, <2>4
    <3>2. <<s[i], s[j]>> \notin R
      BY <1>3, <2>4
    <3> QED
      BY <3>1, <3>2
  <2> QED
    BY <1>1, <2>2, <2>3, <2>4
<1> QED
  BY <1>1, <1>2, <1>3, <1>4, <1>5 DEF n

--------------------------------------------------------------------------------
(* Reading a list page by page. *)

(* The cursor after the first k members, and the page that follows them. *)
Cursor(L, k) == IF k = 0 THEN NoPage ELSE L[k]
PageEnd(L, limit, k) == IF k + limit < Len(L) THEN k + limit ELSE Len(L)
PageAt(L, limit, k) ==
    [items |-> SubSeq(L, k + 1, PageEnd(L, limit, k)),
     next  |-> IF k + limit < Len(L) THEN L[k + limit] ELSE NoPage]

Walked(last, here) ==
    [got |-> last.got \o here.items, next |-> here.next, more |-> here.next # NoPage]

Unread == [got |-> <<>>, next |-> NoPage, more |-> TRUE]

(* One more page, until there is none. *)
Reads(L, limit, last, next) ==
    IF ~ last.more THEN next = last
    ELSE \E k \in 0..Len(L) : last.next = Cursor(L, k) /\ next = Walked(last, PageAt(L, limit, k))

LEMMA SubSeqJoin ==
    ASSUME NEW A, NEW L \in Seq(A), NEW k \in 0..Len(L), NEW m \in k..Len(L)
    PROVE  SubSeq(L, 1, k) \o SubSeq(L, k + 1, m) = SubSeq(L, 1, m)
<1> DEFINE s == SubSeq(L, 1, k)
           t == SubSeq(L, k + 1, m)
           u == SubSeq(L, 1, m)
<1>1. Len(L) \in Nat /\ k \in Nat /\ m \in Nat /\ k <= m
  OBVIOUS
<1>2. s \in Seq(A) /\ Len(s) = k /\ \A i \in 1..k : s[i] = L[i]
  BY <1>1
<1>3. t \in Seq(A) /\ Len(t) = m - k /\ \A i \in 1..(m - k) : t[i] = L[k + i]
  BY <1>1
<1>4. u \in Seq(A) /\ Len(u) = m /\ \A i \in 1..m : u[i] = L[i]
  BY <1>1
<1> HIDE DEF s, t, u
<1>5. s \o t \in Seq(A) /\ Len(s \o t) = m
  <2>1. s \o t \in Seq(A) /\ Len(s \o t) = Len(s) + Len(t)
    BY <1>2, <1>3
  <2> QED
    BY <1>1, <1>2, <1>3, <2>1
<1>6. \A i \in 1..m : (s \o t)[i] = L[i]
  <2> SUFFICES ASSUME NEW i \in 1..m PROVE (s \o t)[i] = L[i]
    OBVIOUS
  <2>1. (s \o t)[i] = IF i <= k THEN s[i] ELSE t[i - k]
    BY <1>1, <1>2, <1>3
  <2>2. CASE i <= k
    BY <1>1, <1>2, <2>1, <2>2
  <2>3. CASE ~ (i <= k)
    <3>1. i - k \in 1..(m - k) /\ k + (i - k) = i
      BY <1>1, <2>3
    <3> QED
      BY <1>3, <2>1, <2>3, <3>1
  <2> QED
    BY <2>2, <2>3
<1>7. s \o t = [i \in 1..m |-> L[i]]
  <2> DEFINE r == s \o t
  <2> HIDE DEF r
  <2>1. r \in Seq(A) /\ Len(r) = m /\ \A i \in 1..m : r[i] = L[i]
    BY <1>5, <1>6 DEF r
  <2>2. r = [i \in 1..m |-> L[i]]
    BY <2>1
  <2> QED
    BY <2>2 DEF r
<1>8. u = [i \in 1..m |-> L[i]]
  BY <1>4
<1> QED
  BY <1>7, <1>8 DEF s, t, u

(* Such a walk exists: after n pages it has read the first n * limit members. *)
LEMMA WalkExists ==
    ASSUME NEW A, NoPage \notin A, NEW L \in Seq(A), NEW limit \in Nat \ {0}, NEW N \in Nat
    PROVE  \E f : /\ f = [n \in 0..N |-> f[n]] /\ f[0] = Unread
                  /\ \A n \in 1..N : Reads(L, limit, f[n - 1], f[n])
<1> DEFINE size == Len(L)
           Got(k) == SubSeq(L, 1, IF k < size THEN k ELSE size)
           Coming(k) == IF k > 0 /\ k < size THEN L[k] ELSE NoPage
           More(k) == IF k = 0 \/ k < size THEN TRUE ELSE FALSE
           At_(k) == [got |-> Got(k), next |-> Coming(k), more |-> More(k)]
           State(n) == At_(n * limit)
           f == [n \in 0..N |-> State(n)]
<1>1. size \in Nat
  OBVIOUS
<1>2. \A n \in 0..N : f[n] = State(n)
  OBVIOUS
<1>3. State(0) = Unread
  <2>1. 0 * limit = 0
    OBVIOUS
  <2>2. Got(0) = <<>> /\ Coming(0) = NoPage /\ More(0)
    BY <1>1
  <2> HIDE DEF Got, Coming, More
  <2> QED
    BY <2>1, <2>2 DEF Unread
<1>4. ASSUME NEW n \in 1..N PROVE Reads(L, limit, State(n - 1), State(n))
  <2> DEFINE m == (n - 1) * limit
             last == At_(m)
             here == At_(m + limit)
  <2>1. m \in Nat /\ n * limit = m + limit
    OBVIOUS
  <2>2. State(n - 1) = last /\ State(n) = here
    BY <2>1
  <2> HIDE DEF m
  <2>3. /\ last.got = Got(m) /\ last.next = Coming(m) /\ last.more = More(m)
        /\ here.got = Got(m + limit) /\ here.next = Coming(m + limit) /\ here.more = More(m + limit)
    OBVIOUS
  <2>4. /\ Coming(m + limit) = (IF m + limit < size THEN L[m + limit] ELSE NoPage)
        /\ More(m + limit) <=> m + limit < size
    BY <1>1, <2>1
  <2>5. CASE m = 0 \/ m < size
    <3>1. More(m) /\ m \in 0..size
      BY <1>1, <2>1, <2>5
    <3>2. Coming(m) = Cursor(L, m) /\ Got(m) = SubSeq(L, 1, m)
      BY <1>1, <2>1, <2>5 DEF Cursor
    <3>3. PageEnd(L, limit, m) = (IF m + limit < size THEN m + limit ELSE size)
             /\ PageEnd(L, limit, m) \in m..size
      BY <1>1, <2>1, <3>1 DEF PageEnd
    <3>4. Got(m) \o PageAt(L, limit, m).items = Got(m + limit)
      <4>1. SubSeq(L, 1, m) \o SubSeq(L, m + 1, PageEnd(L, limit, m)) = SubSeq(L, 1, PageEnd(L, limit, m))
        BY <3>1, <3>3, SubSeqJoin
      <4>2. Got(m + limit) = SubSeq(L, 1, PageEnd(L, limit, m))
        BY <3>3
      <4>3. PageAt(L, limit, m).items = SubSeq(L, m + 1, PageEnd(L, limit, m))
        BY DEF PageAt
      <4> QED
        BY <3>2, <4>1, <4>2, <4>3
    <3>5. PageAt(L, limit, m).next = Coming(m + limit)
      BY <2>4 DEF PageAt
    <3>6. (Coming(m + limit) # NoPage) = More(m + limit)
      <4>1. m + limit < size => L[m + limit] \in A
        BY <1>1, <2>1
      <4>2. CASE m + limit < size
        <5>1. (Coming(m + limit) # NoPage) = TRUE /\ More(m + limit) = TRUE
          BY <2>4, <4>1, <4>2
        <5> QED
          BY <5>1
      <4>3. CASE ~ (m + limit < size)
        <5>1. (Coming(m + limit) # NoPage) = FALSE /\ More(m + limit) = FALSE
          BY <2>4, <4>3
        <5> QED
          BY <5>1
      <4> QED
        BY <4>2, <4>3
    <3> HIDE DEF Got, Coming, More
    <3>7. here = Walked(last, PageAt(L, limit, m))
      BY <3>4, <3>5, <3>6 DEF Walked
    <3>8. last.more /\ last.next = Cursor(L, m)
      BY <3>1, <3>2
    <3> HIDE DEF last, here
    <3>9. Reads(L, limit, last, here)
      BY <3>1, <3>7, <3>8 DEF Reads
    <3> QED
      BY <2>2, <3>9
  <2>6. CASE ~ (m = 0 \/ m < size)
    <3>1. ~ (m + limit < size) /\ ~ (m < size) /\ m # 0 /\ m + limit # 0
      BY <1>1, <2>1, <2>6
    <3>2. Got(m) = Got(m + limit) /\ Coming(m) = Coming(m + limit)
      BY <3>1
    <3>3. More(m) = FALSE /\ More(m + limit) = FALSE
      BY <3>1
    <3> HIDE DEF Got, Coming, More
    <3>4. More(m) = More(m + limit)
      BY <3>3
    <3>5. last = here
      BY <3>2, <3>4
    <3>6. ~ last.more
      BY <3>3
    <3> HIDE DEF last, here
    <3> QED
      BY <2>2, <3>5, <3>6 DEF Reads
  <2> QED
    BY <2>5, <2>6
<1> HIDE DEF State
<1>5. f = [n \in 0..N |-> f[n]] /\ f[0] = Unread
  BY <1>2, <1>3
<1>6. \A n \in 1..N : Reads(L, limit, f[n - 1], f[n])
  <2>1. \A n \in 1..N : n - 1 \in 0..N /\ n \in 0..N
    OBVIOUS
  <2> QED
    BY <1>2, <1>4, <2>1
<1> HIDE DEF f
<1> QED
  BY <1>5, <1>6

(* The same of a walk that is given: from a cursor of the list it reads on. *)
Follows(L, limit, last, next) ==
    IF ~ last.more THEN next = last
    ELSE \A k \in 0..Len(L) : last.next = Cursor(L, k) => next = Walked(last, PageAt(L, limit, k))

Walks(L, limit, N, w) == w[0] = Unread /\ \A n \in 1..N : Follows(L, limit, w[n - 1], w[n])

(* Every such walk has read the whole list after as many pages as members. *)
LEMMA WalkIsComplete ==
    ASSUME NEW A, NoPage \notin A, NEW L \in Seq(A), NEW limit \in Nat \ {0},
           NEW N \in Nat \ {0}, Len(L) <= N,
           NEW w, Walks(L, limit, N, w)
    PROVE  w[N].got = L
<1> DEFINE size == Len(L)
           Good(n, r) == \E k \in 0..size :
                            /\ r.got = SubSeq(L, 1, k)
                            /\ IF r.more THEN r.next = Cursor(L, k) /\ k >= n /\ (n = 0 \/ k < size)
                               ELSE k = size
<1>1. size \in Nat
  OBVIOUS
<1>2. Good(0, w[0])
  <2>1. SubSeq(L, 1, 0) = <<>> /\ w[0] = Unread
    BY DEF Walks
  <2> QED
    BY <1>1, <2>1 DEF Unread, Cursor
<1>3. ASSUME NEW n \in 1..N, Good(n - 1, w[n - 1]) PROVE Good(n, w[n])
  <2> DEFINE last == w[n - 1]
  <2>1. PICK k \in 0..size :
           /\ last.got = SubSeq(L, 1, k)
           /\ IF last.more THEN last.next = Cursor(L, k) /\ k >= n - 1 /\ (n - 1 = 0 \/ k < size)
              ELSE k = size
    BY <1>3
  <2>2. Follows(L, limit, last, w[n])
    BY <1>3 DEF Walks
  <2> HIDE DEF last
  <2>3. CASE ~ last.more
    BY <2>1, <2>2, <2>3 DEF Follows
  <2>4. CASE last.more
    <3>1. w[n] = Walked(last, PageAt(L, limit, k))
      BY <2>1, <2>2, <2>4 DEF Follows
    <3> DEFINE m == PageEnd(L, limit, k)
    <3>3. m \in k..size /\ m \in 0..size
      BY <1>1 DEF PageEnd
    <3>4. w[n].got = SubSeq(L, 1, m)
      <4>1. SubSeq(L, 1, k) \o SubSeq(L, k + 1, m) = SubSeq(L, 1, m)
        BY <3>3, SubSeqJoin
      <4>2. PageAt(L, limit, k).items = SubSeq(L, k + 1, m)
        BY DEF PageAt
      <4>3. w[n].got = last.got \o PageAt(L, limit, k).items
        <5> DEFINE p == PageAt(L, limit, k)
        <5>1. w[n] = Walked(last, p)
          BY <3>1
        <5> HIDE DEF p
        <5> DEFINE g == last.got \o p.items
        <5>2. w[n] = [got |-> g, next |-> p.next, more |-> p.next # NoPage]
          BY <5>1 DEF Walked
        <5> HIDE DEF g
        <5>3. w[n].got = g
          BY <5>2
        <5> QED
          BY <5>3 DEF p, g
      <4> HIDE DEF m
      <4> QED
        BY <2>1, <4>1, <4>2, <4>3
    <3>5. /\ w[n].next = (IF k + limit < size THEN L[k + limit] ELSE NoPage)
          /\ w[n].more = (w[n].next # NoPage)
      BY <3>1 DEF Walked, PageAt
    <3>6. CASE k + limit < size
      <4>1. L[k + limit] \in A /\ m = k + limit /\ m # 0
        BY <1>1, <3>6 DEF PageEnd
      <4>2. w[n].more /\ w[n].next = Cursor(L, m)
        BY <3>5, <3>6, <4>1 DEF Cursor
      <4>3. m >= n /\ m < size
        BY <2>1, <2>4, <3>6, <4>1
      <4> QED
        BY <3>3, <3>4, <4>2, <4>3
    <3>7. CASE ~ (k + limit < size)
      <4>1. m = size /\ ~ w[n].more
        BY <3>5, <3>7 DEF PageEnd
      <4> QED
        BY <3>3, <3>4, <4>1
    <3> QED
      BY <3>6, <3>7
  <2> QED
    BY <2>3, <2>4
<1> HIDE DEF Good
<1>4. Good(N, w[N])
  <2> DEFINE bad == {n \in 0..N : ~ Good(n, w[n])}
  <2> SUFFICES ASSUME bad # {} PROVE FALSE
    OBVIOUS
  <2>1. bad \in SUBSET Nat
    OBVIOUS
  <2>2. PICK n \in bad : \A m \in bad : n <= m
    <3> HIDE DEF bad
    <3> QED
      BY <2>1, LeastNat
  <2>3. n \in 1..N
    BY <1>2, <2>2
  <2>4. n - 1 \in 0..N /\ ~ (n <= n - 1)
    BY <2>3
  <2>5. Good(n - 1, w[n - 1])
    BY <2>2, <2>4
  <2> QED
    BY <1>3, <2>2, <2>3, <2>5
<1>5. PICK k \in 0..size : w[N].got = SubSeq(L, 1, k) /\ (IF w[N].more THEN k >= N /\ k < size ELSE k = size)
  BY <1>4 DEF Good
<1>6. k = size
  BY <1>1, <1>5
<1>7. SubSeq(L, 1, size) = L
  OBVIOUS
<1> QED
  BY <1>5, <1>6, <1>7


(* The first page of what is left after k members. *)
LEMMA PageOfRest ==
    ASSUME NEW A, NEW L \in Seq(A), NEW limit \in Nat \ {0}, NEW k \in 0..Len(L)
    PROVE  PageAt(SubSeq(L, k + 1, Len(L)), limit, 0) = PageAt(L, limit, k)
<1> DEFINE n == Len(L)
           rest == SubSeq(L, k + 1, n)
           m == PageEnd(L, limit, k)
           c == PageEnd(rest, limit, 0)
<1>1. n \in Nat
  OBVIOUS
<1>2. rest \in Seq(A) /\ Len(rest) = n - k /\ \A i \in 1..(n - k) : rest[i] = L[k + i]
  BY <1>1
<1> HIDE DEF rest, n
<1>3. 0 + limit < Len(rest) <=> k + limit < n
  BY <1>1, <1>2 DEF n
<1>4. c \in Nat /\ m = k + c /\ m \in k..n /\ c \in 0..(n - k)
  <2>1. c = (IF 0 + limit < Len(rest) THEN 0 + limit ELSE Len(rest))
    BY DEF PageEnd
  <2>2. m = (IF k + limit < n THEN k + limit ELSE n)
    BY DEF PageEnd, n
  <2>3. k \in 0..n
    BY DEF n
  <2> HIDE DEF c, m
  <2> QED
    BY <1>1, <1>2, <1>3, <2>1, <2>2, <2>3
<1> HIDE DEF c, m
<1> DEFINE s == SubSeq(rest, 0 + 1, c)
           t == SubSeq(L, k + 1, m)
<1>5. s \in Seq(A) /\ Len(s) = c /\ \A i \in 1..c : s[i] = rest[i]
  BY <1>1, <1>2, <1>4
<1>6. t \in Seq(A) /\ Len(t) = c /\ \A i \in 1..c : t[i] = L[k + i]
  <2>1. k \in 0..n /\ Len(L) = n
    BY DEF n
  <2> QED
    BY <1>1, <1>4, <2>1
<1> HIDE DEF s, t
<1>7. \A i \in 1..c : i \in 1..(n - k)
  BY <1>1, <1>4
<1>8. s = [i \in 1..c |-> L[k + i]]
  BY <1>2, <1>5, <1>7
<1>9. t = [i \in 1..c |-> L[k + i]]
  BY <1>6
<1>10. s = t
  BY <1>8, <1>9
<1>11. k + limit < n => rest[0 + limit] = L[k + limit]
  <2> SUFFICES ASSUME k + limit < n PROVE rest[0 + limit] = L[k + limit]
    OBVIOUS
  <2>1. 0 + limit \in 1..(n - k) /\ 0 + limit = limit
    BY <1>1 DEF n
  <2> QED
    BY <1>2, <2>1
<1>12. PageAt(rest, limit, 0).items = s /\ PageAt(L, limit, k).items = t
  BY DEF PageAt, s, t, c, m
<1>13. PageAt(rest, limit, 0).next = PageAt(L, limit, k).next
  BY <1>3, <1>11 DEF PageAt, n
<1>14. \A r, j : PageAt(r, limit, j) = [items |-> PageAt(r, limit, j).items, next |-> PageAt(r, limit, j).next]
  BY DEF PageAt
<1>15. PageAt(rest, limit, 0) = PageAt(L, limit, k)
  BY <1>10, <1>12, <1>13, <1>14
<1> QED
  BY <1>15 DEF rest, n

--------------------------------------------------------------------------------
(* The order of the pages. *)

(* recent lists the stored pages, each once. *)
RecentInv ==
    /\ recent \in Seq(Pages)
    /\ \A i, j \in 1..Len(recent) : recent[i] = recent[j] => i = j
    /\ Stored = {recent[i] : i \in 1..Len(recent)}

LEMMA PlaceIs ==
    ASSUME RecentInv
    PROVE  /\ Len(recent) \in Nat
           /\ \A i \in 1..Len(recent) : Place(recent[i]) = i
           /\ \A p \in Stored : Place(p) \in 1..Len(recent) /\ recent[Place(p)] = p
<1>1. Len(recent) \in Nat /\ DOMAIN recent = 1..Len(recent)
  BY DEF RecentInv
<1>2. \A p \in Stored : Place(p) \in 1..Len(recent) /\ recent[Place(p)] = p
  BY <1>1 DEF RecentInv, Place
<1>3. \A i \in 1..Len(recent) : recent[i] \in Stored
  BY DEF RecentInv
<1> QED
  BY <1>1, <1>2, <1>3 DEF RecentInv

LaterOrder == {x \in Pages \X Pages : Later(x[1], x[2])}

LEMMA LaterIsTotal ==
    ASSUME RecentInv
    PROVE  /\ TotalOrder(LaterOrder, Stored)
           /\ \A p, q \in Stored : <<p, q>> \in LaterOrder <=> Later(p, q)
<1>1. \A p, q \in Stored : <<p, q>> \in LaterOrder <=> Later(p, q)
  BY DEF LaterOrder, Stored
<1>2. \A p \in Stored : Place(p) \in Int /\ recent[Place(p)] = p
  BY PlaceIs
<1>3. \A p, q \in Stored : <<p, q>> \in LaterOrder <=> Place(p) < Place(q)
  BY <1>1 DEF Later
<1>4. \A p, q \in Stored : p # q => Place(p) # Place(q)
  BY <1>2
<1>5. StrictOrder(LaterOrder, Stored)
  BY <1>2, <1>3 DEF StrictOrder
<1>6. \A p, q \in Stored : p # q => <<p, q>> \in LaterOrder \/ <<q, p>> \in LaterOrder
  BY <1>2, <1>3, <1>4
<1> QED
  BY <1>1, <1>5, <1>6 DEF TotalOrder

(* (rank, page_id) descending *)
BeforeOrder(query) == {x \in Pages \X Pages : Before(query, x[1], x[2])}

LEMMA BeforeIsTotal ==
    ASSUME RecentInv, NEW query
    PROVE  /\ TotalOrder(BeforeOrder(query), Stored)
           /\ \A p, q \in Stored : <<p, q>> \in BeforeOrder(query) <=> Before(query, p, q)
<1> DEFINE rank(p) == RankOf(query, p)
<1>1. \A p, q \in Stored : <<p, q>> \in BeforeOrder(query) <=> Before(query, p, q)
  BY DEF BeforeOrder, Stored
<1>2. \A p \in Stored : rank(p) \in Int
  <2>1. \A p \in Stored : Place(p) \in Int /\ Len(recent) \in Int
    BY PlaceIs
  <2> QED
    BY <2>1 DEF RankOf
<1>3. \A p \in Stored : p \in Int
  BY PublicationAssumption, Zenon DEF PublicationAssumption, Stored
<1>4. \A p, q \in Stored : <<p, q>> \in BeforeOrder(query) <=>
         (rank(p) > rank(q) \/ (rank(p) = rank(q) /\ p > q))
  BY <1>1 DEF Before
<1> HIDE DEF rank
<1>5. StrictOrder(BeforeOrder(query), Stored)
  BY <1>2, <1>3, <1>4 DEF StrictOrder
<1>6. \A p, q \in Stored : p # q => <<p, q>> \in BeforeOrder(query) \/ <<q, p>> \in BeforeOrder(query)
  BY <1>2, <1>3, <1>4
<1> QED
  BY <1>1, <1>5, <1>6 DEF TotalOrder

(* Without a text, the rank is the order of the last publications. *)
LEMMA BeforeIsLater ==
    ASSUME RecentInv, NEW query, ~ has_text_query(query)
    PROVE  \A p, q \in Stored : Before(query, p, q) <=> Later(p, q)
<1>1. \A p \in Stored : Place(p) \in 1..Len(recent) /\ recent[Place(p)] = p /\ RankOf(query, p) = Len(recent) - Place(p)
  BY PlaceIs DEF RankOf
<1>2. Len(recent) \in Nat
  BY PlaceIs
<1> SUFFICES ASSUME NEW p \in Stored, NEW q \in Stored PROVE Before(query, p, q) <=> Later(p, q)
  OBVIOUS
<1>3. p \in Int /\ q \in Int
  BY PublicationAssumption, Zenon DEF PublicationAssumption, Stored
<1>4. Place(p) = Place(q) => p = q
  BY <1>1
<1> QED
  BY <1>1, <1>2, <1>3, <1>4 DEF Before, Later

(* The lists that SetToSeqs offers, of some rows. *)
LEMMA SortedLists ==
    ASSUME NEW S, IsFiniteSet(S), NEW R, StrictOrder(R, S)
    PROVE  /\ ListsOf(S, R) # {}
           /\ \A s : s \in ListsOf(S, R) <=>
                 /\ s \in SetToSeqs(S)
                 /\ \A i, j \in DOMAIN s : i < j => <<s[j], s[i]>> \notin R
           /\ \A s \in SetToSeqs(S) : \A i \in DOMAIN s : s[i] \in S
<1>1. ListsOf(S, R) # {}
  BY ListExists
<1>2. SetToSeqs(S)
        = {s \in [1..Cardinality(S) -> S] : \A i, j \in 1..Cardinality(S) : i # j => s[i] # s[j]}
  BY DEF SetToSeqs
<1>3. \A s : s \in ListsOf(S, R) <=>
         /\ s \in SetToSeqs(S)
         /\ \A i, j \in DOMAIN s : i < j => <<s[j], s[i]>> \notin R
  BY <1>2 DEF ListsOf
<1>4. \A s \in SetToSeqs(S) : \A i \in DOMAIN s : s[i] \in S
  BY <1>2
<1> QED
  BY <1>1, <1>3, <1>4

LEMMA StoredIsFinite == IsFiniteSet(Stored) /\ \A S \in SUBSET Stored : IsFiniteSet(S)
<1>1. Stored \subseteq Pages /\ IsFiniteSet(Pages)
  BY PublicationAssumption DEF PublicationAssumption, Stored
<1> QED
  BY <1>1, FS_Subset

LEMMA PartOrder ==
    ASSUME NEW R, NEW T, TotalOrder(R, T), NEW S \in SUBSET T
    PROVE  TotalOrder(R, S) /\ StrictOrder(R, S)
BY DEF TotalOrder, StrictOrder

(* The queries list their rows. *)
LEMMA OrderByLater ==
    ASSUME RecentInv, NEW S \in SUBSET Stored
    PROVE  OrderBy(S, Later) \in ListsOf(S, LaterOrder)
<1> DEFINE Sorted(s) == \A i, j \in DOMAIN s : i < j => ~ Later(s[j], s[i])
           order == CHOOSE s \in SetToSeqs(S) : Sorted(s)
<1>1. OrderBy(S, Later) = order
  BY DEF OrderBy
<1>2. StrictOrder(LaterOrder, S) /\ \A x, y \in Stored : <<x, y>> \in LaterOrder <=> Later(x, y)
  BY LaterIsTotal, PartOrder
<1>3. /\ ListsOf(S, LaterOrder) # {}
      /\ \A s : s \in ListsOf(S, LaterOrder) <=>
            /\ s \in SetToSeqs(S)
            /\ \A i, j \in DOMAIN s : i < j => <<s[j], s[i]>> \notin LaterOrder
      /\ \A s \in SetToSeqs(S) : \A i \in DOMAIN s : s[i] \in S
  BY <1>2, SortedLists, StoredIsFinite
<1>4. \A s \in SetToSeqs(S) : Sorted(s) <=> s \in ListsOf(S, LaterOrder)
  BY <1>2, <1>3
<1> HIDE DEF Sorted
<1>5. \E s \in SetToSeqs(S) : Sorted(s)
  BY <1>3, <1>4
<1>6. order \in SetToSeqs(S) /\ Sorted(order)
  BY <1>5
<1> QED
  BY <1>1, <1>4, <1>6

InOrder(S, query) == OrderBy(S, LAMBDA p, q : Before(query, p, q))

LEMMA OrderByBefore ==
    ASSUME RecentInv, NEW query, NEW S \in SUBSET Stored
    PROVE  InOrder(S, query) \in ListsOf(S, BeforeOrder(query))
<1> DEFINE R == BeforeOrder(query)
           Sorted(s) == \A i, j \in DOMAIN s : i < j => ~ Before(query, s[j], s[i])
           order == CHOOSE s \in SetToSeqs(S) : Sorted(s)
<1>1. InOrder(S, query) = order
  BY DEF InOrder, OrderBy
<1>2. StrictOrder(R, S) /\ \A x, y \in Stored : <<x, y>> \in R <=> Before(query, x, y)
  BY BeforeIsTotal, PartOrder
<1> HIDE DEF R
<1>3. /\ ListsOf(S, R) # {}
      /\ \A s : s \in ListsOf(S, R) <=>
            /\ s \in SetToSeqs(S)
            /\ \A i, j \in DOMAIN s : i < j => <<s[j], s[i]>> \notin R
      /\ \A s \in SetToSeqs(S) : \A i \in DOMAIN s : s[i] \in S
  BY <1>2, SortedLists, StoredIsFinite
<1>4. \A s \in SetToSeqs(S) : Sorted(s) <=> s \in ListsOf(S, R)
  BY <1>2, <1>3
<1> HIDE DEF Sorted
<1>5. \E s \in SetToSeqs(S) : Sorted(s)
  BY <1>3, <1>4
<1>6. order \in SetToSeqs(S) /\ Sorted(order)
  BY <1>5
<1> QED
  BY <1>1, <1>4, <1>6 DEF R


(* The rows that follow the first k are listed in the same order. *)
LEMMA RestInOrder ==
    ASSUME RecentInv, NEW query, NEW S \in SUBSET Stored, NEW k \in 0..Len(InOrder(S, query))
    PROVE  LET L == InOrder(S, query)
               T == {p \in S : k # 0 => Before(query, L[k], p)}
           IN InOrder(T, query) = SubSeq(L, k + 1, Len(L))
<1> DEFINE L == InOrder(S, query)
           R == BeforeOrder(query)
           T == {p \in S : k # 0 => Before(query, L[k], p)}
           n == Cardinality(S)
<1>1. L \in ListsOf(S, R) /\ InOrder(T, query) \in ListsOf(T, R)
  BY OrderByBefore
<1>2. IsFiniteSet(S) /\ IsFiniteSet(T) /\ T \in SUBSET S
  BY StoredIsFinite
<1>3. TotalOrder(R, S) /\ \A x, y \in Stored : <<x, y>> \in R <=> Before(query, x, y)
  BY BeforeIsTotal, PartOrder
<1>4. TotalOrder(R, T)
  BY <1>2, <1>3, PartOrder
<1> HIDE DEF L, R
<1>5. /\ n \in Nat /\ L \in Seq(S) /\ Len(L) = n
      /\ \A i, j \in 1..n : <<L[i], L[j]>> \in R <=> i < j
      /\ \A x \in S : \E i \in 1..n : L[i] = x
  BY <1>1, <1>2, <1>3, ListInOrder
<1>6. k \in 0..n
  BY <1>5 DEF L
<1> HIDE DEF n
<1>7. \A i \in 1..n : L[i] \in S /\ (k # 0 => (Before(query, L[k], L[i]) <=> k < i))
  <2> SUFFICES ASSUME NEW i \in 1..n
               PROVE  L[i] \in S /\ (k # 0 => (Before(query, L[k], L[i]) <=> k < i))
    OBVIOUS
  <2>1. L[i] \in S
    BY <1>5
  <2>2. ASSUME k # 0 PROVE Before(query, L[k], L[i]) <=> k < i
    <3>1. k \in 1..n
      BY <1>5, <1>6, <2>2
    <3>2. L[k] \in S
      BY <1>5, <3>1
    <3> QED
      BY <1>3, <1>5, <2>1, <3>1, <3>2
  <2> QED
    BY <2>1, <2>2
<1>8. T = {L[i] : i \in (k + 1)..n}
  <2>1. ASSUME NEW i \in (k + 1)..n PROVE L[i] \in T
    <3>1. i \in 1..n /\ k < i
      BY <1>5, <1>6
    <3> QED
      BY <1>7, <3>1
  <2>2. ASSUME NEW p \in T PROVE \E i \in (k + 1)..n : L[i] = p
    <3>1. PICK i \in 1..n : L[i] = p
      BY <1>5
    <3>2. i \in (k + 1)..n
      BY <1>5, <1>6, <1>7, <3>1
    <3> QED
      BY <3>1, <3>2
  <2> QED
    BY <2>1, <2>2
<1> HIDE DEF T
<1>9. [i \in 1..(n - k) |-> L[k + i]] \in ListsOf(T, R)
  <2>1. /\ n - k = Cardinality({L[i] : i \in (k + 1)..n})
        /\ [i \in 1..(n - k) |-> L[k + i]] \in ListsOf({L[i] : i \in (k + 1)..n}, R)
    BY <1>1, <1>2, <1>6, ListRest DEF n
  <2> QED
    BY <1>8, <2>1
<1>10. InOrder(T, query) = [i \in 1..(n - k) |-> L[k + i]]
  BY <1>1, <1>2, <1>4, <1>9, ListIsUnique DEF TotalOrder
<1>11. SubSeq(L, k + 1, n) = [i \in 1..(n - k) |-> L[k + i]]
  <2> DEFINE s == SubSeq(L, k + 1, n)
  <2>1. s \in Seq(S) /\ Len(s) = n - k /\ \A i \in 1..(n - k) : s[i] = L[k + i]
    BY <1>5, <1>6
  <2> HIDE DEF s
  <2>2. s = [i \in 1..(n - k) |-> L[k + i]]
    BY <2>1
  <2> QED
    BY <2>2 DEF s
<1> QED
  BY <1>5, <1>10, <1>11 DEF L, T

(* What a query returns is the first page of its rows. *)
LEMMA FirstPage ==
    ASSUME RecentInv, NEW query, NEW S \in SUBSET Stored, NEW limit \in Nat \ {0}
    PROVE  FirstOf(S, limit, LAMBDA p, q : Before(query, p, q)) = PageAt(InOrder(S, query), limit, 0)
<1> DEFINE L == InOrder(S, query)
           items == SubSeq(L, 1, IF Len(L) > limit THEN limit ELSE Len(L))
           first == FirstOf(S, limit, LAMBDA p, q : Before(query, p, q))
<1>1. first = [items |-> items, next |-> IF Len(L) > limit THEN items[limit] ELSE NoPage]
  BY DEF FirstOf, InOrder
<1>2. L \in ListsOf(S, BeforeOrder(query)) /\ IsFiniteSet(S)
  BY OrderByBefore, StoredIsFinite
<1>3. Cardinality(S) \in Nat
  BY <1>2, FS_CardinalityType
<1> HIDE DEF L
<1>4. L \in Seq(S) /\ Len(L) \in Nat
  BY <1>2, <1>3 DEF ListsOf
<1> HIDE DEF first
<1>5. items = SubSeq(L, 0 + 1, PageEnd(L, limit, 0))
  BY <1>4 DEF PageEnd
<1>6. Len(L) > limit => items[limit] = L[0 + limit]
  BY <1>4
<1>7. Len(L) > limit <=> 0 + limit < Len(L)
  BY <1>4
<1> HIDE DEF items
<1>8. PageAt(L, limit, 0) = [items |-> items, next |-> IF Len(L) > limit THEN items[limit] ELSE NoPage]
  BY <1>5, <1>6, <1>7 DEF PageAt
<1>9. first = PageAt(L, limit, 0)
  BY <1>1, <1>8
<1> QED
  BY <1>9 DEF L, first

(* The search from a cursor: the page that follows it. *)
LEMMA SearchPage ==
    ASSUME RecentInv, NEW query, Hits(query) \subseteq Stored, NEW limit \in Nat \ {0},
           NEW k \in 0..Len(InOrder(Hits(query), query))
    PROVE  LET L == InOrder(Hits(query), query)
           IN search_events(query, limit, Cursor(L, k)) = PageAt(L, limit, k)
<1> DEFINE S == Hits(query)
           L == InOrder(S, query)
           after == Cursor(L, k)
           T == {p \in S : after # NoPage => Before(query, after, p)}
<1>1. S \in SUBSET Stored /\ IsFiniteSet(S) /\ NoPage \notin S
  BY StoredIsFinite, PublicationAssumption DEF PublicationAssumption, Stored
<1>2. search_events(query, limit, after) = FirstOf(T, limit, LAMBDA p, q : Before(query, p, q))
  BY DEF search_events, SearchPublicEvents, search
<1> HIDE DEF S
<1>3. L \in ListsOf(S, BeforeOrder(query)) /\ Cardinality(S) \in Nat
  BY <1>1, OrderByBefore, FS_CardinalityType
<1>4. k \in 0..Len(L)
  BY DEF S
<1>5. InOrder({p \in S : k # 0 => Before(query, L[k], p)}, query) = SubSeq(L, k + 1, Len(L))
  BY <1>1, <1>4, RestInOrder
<1> HIDE DEF L
<1>6. L \in Seq(S)
  BY <1>3 DEF ListsOf
<1>7. T = {p \in S : k # 0 => Before(query, L[k], p)}
  <2>1. k # 0 => L[k] \in S /\ after = L[k]
    BY <1>4, <1>6 DEF Cursor
  <2>2. k = 0 => after = NoPage
    BY DEF Cursor
  <2> HIDE DEF after
  <2> QED
    BY <1>1, <2>1, <2>2
<1>8. T \in SUBSET Stored
  BY <1>1
<1> HIDE DEF T
<1>9. FirstOf(T, limit, LAMBDA p, q : Before(query, p, q)) = PageAt(InOrder(T, query), limit, 0)
  BY <1>8, FirstPage
<1>10. PageAt(SubSeq(L, k + 1, Len(L)), limit, 0) = PageAt(L, limit, k)
  BY <1>4, <1>6, PageOfRest
<1>11. InOrder(T, query) = SubSeq(L, k + 1, Len(L))
  BY <1>5, <1>7
<1>12. search_events(query, limit, after) = PageAt(L, limit, k)
  BY <1>2, <1>9, <1>10, <1>11
<1> QED
  BY <1>12 DEF L, S

(* The list from a cursor: the page that follows it. *)
LEMMA ListPage ==
    ASSUME RecentInv, NEW limit \in Nat \ {0}, NEW k \in 0..Len(Published)
    PROVE  Keyset({"PUBLISHED"}, limit, Cursor(Published, k)) = PageAt(Published, limit, k)
<1> DEFINE S == PagesIn({"PUBLISHED"})
           L == Published
           after == Cursor(L, k)
           start == IF \E i \in DOMAIN L : L[i] = after THEN CHOOSE i \in DOMAIN L : L[i] = after ELSE 0
           rest == SubSeq(L, start + 1, Len(L))
           items == IF Len(rest) > limit THEN SubSeq(rest, 1, limit) ELSE rest
<1>1. S \in SUBSET Stored /\ IsFiniteSet(S) /\ NoPage \notin S
  <2>1. S \in SUBSET Stored /\ NoPage \notin S
    BY PublicationAssumption DEF PublicationAssumption, PagesIn, Stored
  <2> QED
    BY <2>1, StoredIsFinite
<1>2. Keyset({"PUBLISHED"}, limit, after)
         = [items |-> items, next |-> IF Len(rest) > limit THEN items[limit] ELSE NoPage]
  BY DEF Keyset, Published
<1>3. L \in ListsOf(S, LaterOrder) /\ TotalOrder(LaterOrder, S)
  BY <1>1, OrderByLater, LaterIsTotal, PartOrder DEF Published
<1> HIDE DEF S, L
<1>4. /\ L \in Seq(S) /\ Len(L) \in Nat
      /\ \A i, j \in 1..Len(L) : L[i] = L[j] => i = j
  BY <1>1, <1>3, ListInOrder
<1>5. k \in 0..Len(L)
  BY DEF L
<1>6. start = k
  <2>1. CASE k = 0
    <3>1. after = NoPage
      BY <2>1 DEF Cursor
    <3>2. ~ \E i \in DOMAIN L : L[i] = after
      BY <1>1, <1>4, <3>1
    <3> QED
      BY <2>1, <3>2
  <2>2. CASE k # 0
    <3>1. after = L[k] /\ k \in 1..Len(L) /\ DOMAIN L = 1..Len(L)
      BY <1>4, <1>5, <2>2 DEF Cursor
    <3> HIDE DEF after
    <3>2. \A i \in DOMAIN L : L[i] = after <=> i = k
      BY <1>4, <3>1
    <3> QED
      BY <3>1, <3>2
  <2> QED
    BY <2>1, <2>2
<1> HIDE DEF start
<1>7. rest = SubSeq(L, k + 1, Len(L))
  BY <1>6
<1>8. rest \in Seq(S) /\ Len(rest) \in Nat
  <2>1. SubSeq(L, k + 1, Len(L)) \in Seq(S)
    BY <1>4, <1>5
  <2> HIDE DEF rest
  <2> QED
    BY <1>7, <2>1
<1> HIDE DEF rest
<1>9. items = SubSeq(rest, 0 + 1, PageEnd(rest, limit, 0))
  <2>1. SubSeq(rest, 1, Len(rest)) = rest
    BY <1>8
  <2> QED
    BY <1>8, <2>1 DEF PageEnd
<1>10. Len(rest) > limit => items[limit] = rest[0 + limit]
  BY <1>8
<1>11. Len(rest) > limit <=> 0 + limit < Len(rest)
  BY <1>8
<1> HIDE DEF items
<1>12. PageAt(rest, limit, 0) = [items |-> items, next |-> IF Len(rest) > limit THEN items[limit] ELSE NoPage]
  BY <1>9, <1>10, <1>11 DEF PageAt
<1>13. PageAt(rest, limit, 0) = PageAt(L, limit, k)
  BY <1>4, <1>5, <1>7, PageOfRest
<1> QED
  BY <1>2, <1>12, <1>13 DEF L


(* The walk of a list that is fetched page by page. *)
Stepped(last, here) == IF ~ last.more THEN last ELSE Walked(last, here)

LEMMA SearchIsComplete ==
    ASSUME RecentInv, NEW query, Hits(query) \subseteq Stored, NEW limit \in 1..Cardinality(Pages)
    PROVE  SearchOf(query, limit) = InOrder(Hits(query), query)
<1> DEFINE N == Cardinality(Pages)
           S == Hits(query)
           L == InOrder(S, query)
           Fetch(a) == search_events(query, limit, a)
           Eq(w) == w = [n \in 0..N |-> IF n = 0 THEN Unread ELSE Stepped(w[n - 1], Fetch(w[n - 1].next))]
           walk == CHOOSE w : Eq(w)
<1>1. SearchOf(query, limit) = walk[N].got
  BY DEF SearchOf, Walk, Unread, Stepped, Walked
<1>2. IsFiniteSet(Pages) /\ N \in Nat /\ N # 0 /\ limit \in Nat \ {0}
  <2>1. IsFiniteSet(Pages)
    BY PublicationAssumption DEF PublicationAssumption
  <2>2. N \in Nat
    BY <2>1, FS_CardinalityType
  <2> QED
    BY <2>1, <2>2
<1>3. S \in SUBSET Stored /\ S \in SUBSET Pages /\ NoPage \notin S
  BY PublicationAssumption DEF PublicationAssumption, Stored
<1>4. \A k \in 0..Len(L) : Fetch(Cursor(L, k)) = PageAt(L, limit, k)
  BY <1>2, SearchPage
<1> HIDE DEF S, Fetch
<1>5. Cardinality(S) \in Nat /\ Cardinality(S) <= N
  BY <1>2, <1>3, FS_Subset, FS_CardinalityType
<1>6. L \in ListsOf(S, BeforeOrder(query))
  BY <1>3, OrderByBefore
<1> HIDE DEF L, N
<1>7. L \in Seq(S) /\ Len(L) \in Nat /\ Len(L) <= N
  <2>1. L \in [1..Cardinality(S) -> S]
    BY <1>6 DEF ListsOf
  <2> QED
    BY <1>5, <2>1
<1>8. \E f : Eq(f)
  <2>1. PICK f : /\ f = [n \in 0..N |-> f[n]] /\ f[0] = Unread
                 /\ \A n \in 1..N : Reads(L, limit, f[n - 1], f[n])
    BY <1>2, <1>3, <1>7, WalkExists
  <2>2. \A n \in 1..N : f[n] = Stepped(f[n - 1], Fetch(f[n - 1].next))
    BY <1>4, <2>1 DEF Reads, Stepped
  <2>3. \A n \in 0..N : f[n] = IF n = 0 THEN Unread ELSE Stepped(f[n - 1], Fetch(f[n - 1].next))
    <3>1. \A n \in 0..N : n = 0 \/ n \in 1..N
      BY <1>2
    <3>2. \A n \in 1..N : n # 0
      BY <1>2
    <3> QED
      BY <2>1, <2>2, <3>1, <3>2, Zenon
  <2> QED
    BY <2>1, <2>3
<1>9. Eq(walk)
  <2> HIDE DEF Eq
  <2> QED
    BY <1>8
<1> HIDE DEF walk
<1>10. walk[0] = Unread
  BY <1>2, <1>9
<1>11. \A n \in 1..N : Follows(L, limit, walk[n - 1], walk[n])
  <2> SUFFICES ASSUME NEW n \in 1..N PROVE Follows(L, limit, walk[n - 1], walk[n])
    OBVIOUS
  <2>1. n \in 0..N /\ n # 0
    BY <1>2
  <2>2. walk[n] = Stepped(walk[n - 1], Fetch(walk[n - 1].next))
    BY <1>9, <2>1
  <2> QED
    BY <1>4, <2>2 DEF Follows, Stepped
<1>12. walk[N].got = L
  <2>1. N \in Nat \ {0} /\ limit \in Nat \ {0}
    BY <1>2
  <2>2. L \in Seq(S) /\ Len(L) <= N /\ NoPage \notin S
    BY <1>3, <1>7
  <2>3. Walks(L, limit, N, walk)
    BY <1>10, <1>11 DEF Walks
  <2> HIDE DEF Eq
  <2> QED
    BY <2>1, <2>2, <2>3, WalkIsComplete
<1> QED
  BY <1>1, <1>12 DEF L, S

LEMMA ListingIsComplete ==
    ASSUME RecentInv, NEW limit \in 1..Cardinality(Pages)
    PROVE  ListingOf(limit) = Published
<1> DEFINE N == Cardinality(Pages)
           S == PagesIn({"PUBLISHED"})
           L == Published
           Fetch(a) == ListPublicEvents(limit, a)
           Eq(w) == w = [n \in 0..N |-> IF n = 0 THEN Unread ELSE Stepped(w[n - 1], Fetch(w[n - 1].next))]
           walk == CHOOSE w : Eq(w)
<1>1. ListingOf(limit) = walk[N].got
  BY DEF ListingOf, Walk, Unread, Stepped, Walked
<1>2. IsFiniteSet(Pages) /\ N \in Nat /\ N # 0 /\ limit \in Nat \ {0}
  <2>1. IsFiniteSet(Pages)
    BY PublicationAssumption DEF PublicationAssumption
  <2>2. N \in Nat
    BY <2>1, FS_CardinalityType
  <2> QED
    BY <2>1, <2>2
<1>3. S \in SUBSET Stored /\ S \in SUBSET Pages /\ NoPage \notin S
  BY PublicationAssumption DEF PublicationAssumption, Stored, PagesIn
<1>4. \A k \in 0..Len(L) : Fetch(Cursor(L, k)) = PageAt(L, limit, k)
  BY <1>2, ListPage DEF ListPublicEvents, list_published
<1>6. L \in ListsOf(S, LaterOrder)
  BY <1>3, OrderByLater DEF Published
<1> HIDE DEF S, Fetch
<1>5. Cardinality(S) \in Nat /\ Cardinality(S) <= N
  BY <1>2, <1>3, FS_Subset, FS_CardinalityType
<1> HIDE DEF L, N
<1>7. L \in Seq(S) /\ Len(L) \in Nat /\ Len(L) <= N
  <2>1. L \in [1..Cardinality(S) -> S]
    BY <1>6 DEF ListsOf
  <2> QED
    BY <1>5, <2>1
<1>8. \E f : Eq(f)
  <2>1. PICK f : /\ f = [n \in 0..N |-> f[n]] /\ f[0] = Unread
                 /\ \A n \in 1..N : Reads(L, limit, f[n - 1], f[n])
    BY <1>2, <1>3, <1>7, WalkExists
  <2>2. \A n \in 1..N : f[n] = Stepped(f[n - 1], Fetch(f[n - 1].next))
    BY <1>4, <2>1 DEF Reads, Stepped
  <2>3. \A n \in 0..N : f[n] = IF n = 0 THEN Unread ELSE Stepped(f[n - 1], Fetch(f[n - 1].next))
    <3>1. \A n \in 0..N : n = 0 \/ n \in 1..N
      BY <1>2
    <3>2. \A n \in 1..N : n # 0
      BY <1>2
    <3> QED
      BY <2>1, <2>2, <3>1, <3>2, Zenon
  <2> QED
    BY <2>1, <2>3
<1>9. Eq(walk)
  <2> HIDE DEF Eq
  <2> QED
    BY <1>8
<1> HIDE DEF walk
<1>10. walk[0] = Unread
  BY <1>2, <1>9
<1>11. \A n \in 1..N : Follows(L, limit, walk[n - 1], walk[n])
  <2> SUFFICES ASSUME NEW n \in 1..N PROVE Follows(L, limit, walk[n - 1], walk[n])
    OBVIOUS
  <2>1. n \in 0..N /\ n # 0
    BY <1>2
  <2>2. walk[n] = Stepped(walk[n - 1], Fetch(walk[n - 1].next))
    BY <1>9, <2>1
  <2> QED
    BY <1>4, <2>2 DEF Follows, Stepped
<1>12. walk[N].got = L
  <2>1. N \in Nat \ {0} /\ limit \in Nat \ {0}
    BY <1>2
  <2>2. L \in Seq(S) /\ Len(L) <= N /\ NoPage \notin S
    BY <1>3, <1>7
  <2>3. Walks(L, limit, N, walk)
    BY <1>10, <1>11 DEF Walks
  <2> HIDE DEF Eq
  <2> QED
    BY <2>1, <2>2, <2>3, WalkIsComplete
<1> QED
  BY <1>1, <1>12 DEF L

--------------------------------------------------------------------------------
PublishedPages == PagesIn({"PUBLISHED"})

(* The absorbed events form a forest: they have a depth, at most their number. *)
Absorbed == {e \in Events : mergedInto[e] # NoEvent}
Depths(depth) ==
    \A e \in Events :
        /\ mergedInto[e] = NoEvent => depth[e] = 0
        /\ mergedInto[e] # NoEvent => depth[mergedInto[e]] < depth[e]

EvidenceInv ==
    /\ facts \in [Events -> Facts]
    /\ mergedInto \in [Events -> Events \cup {NoEvent}]
    /\ \E depth \in [Events -> 0..Cardinality(Absorbed)] : Depths(depth)

(* The rows of the two indexes, as the last publication of the page left them, *)
(* unless a race has set the page adrift.                                      *)
EntryOf(p, entry) == entry \in SearchEntries /\ entry.slug = page[p].slug /\ entry.text = page[p].text

RowsRight(p) ==
    IF p \in PublishedPages
    THEN /\ EntryOf(p, searchIndex[p])
         /\ mapIndex[p] = IF HasCoords(searchIndex[p].facts) THEN searchIndex[p] ELSE NoEntry
    ELSE searchIndex[p] = NoEntry /\ mapIndex[p] = NoEntry

IndexInv ==
    /\ searchIndex \in [Pages -> SearchEntries \cup {NoEntry}]
    /\ mapIndex \in [Pages -> SearchEntries \cup {NoEntry}]
    /\ adrift \in SUBSET Pages
    /\ \A p \in Pages : p \in Stored \/ (searchIndex[p] = NoEntry /\ mapIndex[p] = NoEntry)
    /\ \A p \in Pages \ adrift : RowsRight(p)

ReindexRows ==
    [stage : {"none", "read", "search", "map", "commit"}, after : Pages \cup {NoPage},
     found : SUBSET [page : Pages, entry : SearchEntries], touched : SUBSET Pages,
     cleared : [Indexes -> SUBSET Pages]]

(* Of the pages that editors have not touched since it began, the reindex has  *)
(* found the published ones up to its cursor, at the end all of them, and      *)
(* deletes whatever an index holds of them.                                    *)
Covered(found, p) == \E f \in found : f.page = p

Progress ==
    LET untouched == Pages \ reindex.touched
    IN /\ \A f \in reindex.found : f.page \in untouched =>
             f.page \in PublishedPages /\ EntryOf(f.page, f.entry)
       /\ reindex.stage # "read" =>
             \A p \in PublishedPages \cap untouched : Covered(reindex.found, p)
       /\ reindex.stage = "read" /\ reindex.after \in PublishedPages =>
             \A p \in PublishedPages \cap untouched :
                ~ Later(reindex.after, p) => Covered(reindex.found, p)
       /\ reindex.stage \in {"map", "commit"} =>
             \A p \in untouched : p \in reindex.cleared["search"] \/ searchIndex[p] = NoEntry
       /\ reindex.stage = "commit" =>
             \A p \in untouched : p \in reindex.cleared["map"] \/ mapIndex[p] = NoEntry

ReindexInv ==
    /\ reindex \in ReindexRows
    /\ \A f, g \in reindex.found : f.page = g.page => f = g
    /\ \A f \in reindex.found : f.page \in Stored
    /\ reindex.stage # "none" => Progress

RoutesInv == IInv /\ RecentInv /\ EvidenceInv /\ IndexInv /\ ReindexInv


LEMMA RecentInit == Init => RecentInv
<1> SUFFICES ASSUME Init PROVE RecentInv
  OBVIOUS
<1> DEFINE S == {x.page : x \in Existing}
           n == Cardinality(S)
<1>1. S \subseteq Pages /\ IsFiniteSet(S)
  <2>1. S \subseteq Pages /\ IsFiniteSet(Pages)
    BY PublicationAssumption DEF PublicationAssumption
  <2> QED
    BY <2>1, FS_Subset
<1>2. Stored = S
  <2>1. \A p \in Pages : page[p] = ExistingAt(p, PublishedRow, NoPage)
    BY DEF Init
  <2>2. ASSUME NEW p \in S PROVE page[p] # NoPage
    <3>1. p \in Pages /\ \E x \in Existing : x.page = p
      BY <1>1
    <3>2. PICK x \in Existing : page[p] = PublishedRow(x)
      BY <3>1, InitRows
    <3>3. page[p] \in PageRows
      BY <3>2, PublishedFacts
    <3> QED
      BY <3>3, PublicationAssumption DEF PublicationAssumption
  <2>3. ASSUME NEW p \in Pages, p \notin S PROVE page[p] = NoPage
    BY <2>1, <2>3 DEF ExistingAt
  <2> QED
    BY <1>1, <2>2, <2>3 DEF Stored
<1>3. n \in Nat
  BY <1>1, FS_CardinalityType
<1>4. recent \in [1..n -> S] /\ \A i, j \in 1..n : recent[i] = recent[j] => i = j
  <2> DEFINE Inj(f) == \A a, b \in DOMAIN f : f[a] = f[b] => a = b
  <2>1. recent = CHOOSE f \in [1..n -> S] : Inj(f)
    BY DEF Init, SetToSeq, IsInjective
  <2>2. \E f \in [1..n -> S] : Inj(f)
    <3>1. StrictOrder({}, S)
      BY DEF StrictOrder
    <3>2. PICK f : f \in ListsOf(S, {})
      BY <1>1, <3>1, ListExists
    <3>3. f \in [1..n -> S] /\ \A i, j \in 1..n : i # j => f[i] # f[j]
      BY <3>2 DEF ListsOf
    <3> QED
      BY <3>3
  <2> HIDE DEF Inj
  <2>3. recent \in [1..n -> S] /\ Inj(recent)
    BY <2>1, <2>2
  <2> QED
    BY <2>3 DEF Inj
<1> HIDE DEF S
<1>5. \A i, j \in 1..n : i # j => recent[i] # recent[j]
  BY <1>4
<1>6. \A x \in S : \E i \in 1..n : recent[i] = x
  BY <1>1, <1>4, <1>5, ListIsOnto
<1> HIDE DEF n
<1>7. recent \in Seq(Pages) /\ Len(recent) = n
  BY <1>1, <1>3, <1>4
<1> QED
  BY <1>2, <1>3, <1>4, <1>6, <1>7 DEF RecentInv

(* A write moves its page to the front and leaves the others in their order. *)
LEMMA TouchStep ==
    ASSUME RecentInv, NEW p \in Pages, recent' = Touch(p), Stored' = Stored \cup {p}
    PROVE  /\ RecentInv'
           /\ \A x, y \in Stored \ {p} : Later(x, y)' <=> Later(x, y)
           /\ \A y \in Stored \ {p} : Later(p, y)'
<1> DEFINE S == Stored \ {p}
           rest == OrderBy(S, Later)
           n == Cardinality(S)
           s == recent'
<1>1. S \in SUBSET Stored /\ S \in SUBSET Pages /\ IsFiniteSet(S)
  BY StoredIsFinite DEF Stored
<1>2. rest \in ListsOf(S, LaterOrder) /\ TotalOrder(LaterOrder, S)
      /\ \A x, y \in Stored : <<x, y>> \in LaterOrder <=> Later(x, y)
  BY <1>1, OrderByLater, LaterIsTotal, PartOrder
<1>3. s = <<p>> \o rest /\ p \notin S
  BY DEF Touch
<1>4. Stored' = S \cup {p}
  OBVIOUS
<1> HIDE DEF S, rest
<1>5. /\ n \in Nat /\ rest \in Seq(S) /\ Len(rest) = n
      /\ \A i, j \in 1..n : rest[i] = rest[j] => i = j
      /\ \A i, j \in 1..n : <<rest[i], rest[j]>> \in LaterOrder <=> i < j
      /\ \A x \in S : \E i \in 1..n : rest[i] = x
  BY <1>1, <1>2, ListInOrder
<1> HIDE DEF n
<1>6. s \in Seq(Pages) /\ Len(s) = n + 1 /\ s[1] = p /\ \A i \in 1..n : s[i + 1] = rest[i]
  <2>1. <<p>> \in Seq(Pages) /\ Len(<<p>>) = 1 /\ rest \in Seq(Pages)
    BY <1>1, <1>5
  <2>2. s \in Seq(Pages) /\ Len(s) = n + 1
    BY <1>3, <1>5, <2>1
  <2>3. \A i \in 1..(n + 1) : s[i] = IF i <= 1 THEN <<p>>[i] ELSE rest[i - 1]
    BY <1>3, <1>5, <2>1
  <2>4. s[1] = p
    BY <1>5, <2>3
  <2>5. ASSUME NEW i \in 1..n PROVE s[i + 1] = rest[i]
    <3>1. i + 1 \in 1..(n + 1) /\ ~ (i + 1 <= 1) /\ (i + 1) - 1 = i
      BY <1>5
    <3> QED
      BY <2>3, <3>1
  <2> QED
    BY <2>2, <2>4, <2>5
<1>7. \A i \in 1..(n + 1) : i = 1 \/ (i - 1 \in 1..n /\ s[i] = rest[i - 1] /\ rest[i - 1] \in S)
  <2> SUFFICES ASSUME NEW i \in 1..(n + 1), i # 1
               PROVE  i - 1 \in 1..n /\ s[i] = rest[i - 1] /\ rest[i - 1] \in S
    OBVIOUS
  <2>1. i - 1 \in 1..n /\ (i - 1) + 1 = i
    BY <1>5
  <2>2. s[(i - 1) + 1] = rest[i - 1]
    BY <1>6, <2>1
  <2>3. rest[i - 1] \in S
    BY <1>5, <2>1
  <2> QED
    BY <2>1, <2>2, <2>3
<1>8. \A i, j \in 1..(n + 1) : s[i] = s[j] => i = j
  <2> SUFFICES ASSUME NEW i \in 1..(n + 1), NEW j \in 1..(n + 1), s[i] = s[j] PROVE i = j
    OBVIOUS
  <2>1. CASE i = 1
    BY <1>3, <1>6, <1>7, <2>1
  <2>2. CASE j = 1
    BY <1>3, <1>6, <1>7, <2>2
  <2>3. CASE i # 1 /\ j # 1
    <3>1. i - 1 \in 1..n /\ j - 1 \in 1..n /\ rest[i - 1] = rest[j - 1]
      BY <1>7, <2>3
    <3>2. i - 1 = j - 1
      BY <1>5, <3>1
    <3> QED
      BY <1>5, <3>2
  <2> QED
    BY <2>1, <2>2, <2>3
<1>9. Stored' = {s[i] : i \in 1..(n + 1)}
  <2>1. ASSUME NEW i \in 1..(n + 1) PROVE s[i] \in S \cup {p}
    BY <1>6, <1>7
  <2>2. ASSUME NEW x \in S PROVE \E i \in 1..(n + 1) : s[i] = x
    <3>1. PICK i \in 1..n : rest[i] = x
      BY <1>5
    <3>2. i + 1 \in 1..(n + 1)
      BY <1>5
    <3> QED
      BY <1>6, <3>1, <3>2
  <2>3. \E i \in 1..(n + 1) : s[i] = p
    <3>1. 1 \in 1..(n + 1)
      BY <1>5
    <3> QED
      BY <1>6, <3>1
  <2> QED
    BY <1>4, <2>1, <2>2, <2>3
<1>10. RecentInv'
  BY <1>6, <1>8, <1>9 DEF RecentInv
<1>11. ASSUME NEW i \in 1..n, NEW x, x = rest[i] PROVE Place(x)' = i + 1
  <2>1. i + 1 \in DOMAIN s /\ s[i + 1] = x /\ DOMAIN s = 1..(n + 1)
    BY <1>5, <1>6, <1>11
  <2>2. \A j \in DOMAIN s : s[j] = x <=> j = i + 1
    BY <1>8, <2>1
  <2>3. Place(x)' = CHOOSE j \in DOMAIN s : s[j] = x
    BY DEF Place
  <2> QED
    BY <2>1, <2>2, <2>3
<1>12. ASSUME NEW x \in S, NEW y \in S PROVE Later(x, y)' <=> Later(x, y)
  <2>1. PICK i \in 1..n : rest[i] = x
    BY <1>5
  <2>2. PICK j \in 1..n : rest[j] = y
    BY <1>5
  <2>3. Place(x)' = i + 1 /\ Place(y)' = j + 1
    BY <1>11, <2>1, <2>2
  <2>4. Later(x, y)' <=> i < j
    BY <2>3, <1>5 DEF Later
  <2>5. Later(x, y) <=> i < j
    BY <1>1, <1>2, <1>5, <2>1, <2>2
  <2> QED
    BY <2>4, <2>5
<1>13. Place(p)' = 1
  <2>1. 1 \in DOMAIN s /\ s[1] = p /\ DOMAIN s = 1..(n + 1)
    BY <1>5, <1>6
  <2>2. \A j \in DOMAIN s : s[j] = p <=> j = 1
    BY <1>8, <2>1
  <2>3. Place(p)' = CHOOSE j \in DOMAIN s : s[j] = p
    BY DEF Place
  <2> QED
    BY <2>1, <2>2, <2>3
<1>14. ASSUME NEW y \in S PROVE Later(p, y)'
  <2>1. PICK j \in 1..n : rest[j] = y
    BY <1>5
  <2>2. Place(y)' = j + 1
    BY <1>11, <2>1
  <2> QED
    BY <1>5, <1>13, <2>2 DEF Later
<1> QED
  BY <1>10, <1>12, <1>14 DEF S

LEMMA RecentKept ==
    ASSUME RecentInv, recent' = recent, page' = page
    PROVE  /\ RecentInv' /\ Stored' = Stored /\ PublishedPages' = PublishedPages
           /\ \A x, y : Later(x, y)' <=> Later(x, y)
BY DEF RecentInv, Stored, Later, Place, PublishedPages, PagesIn


LEMMA EvidenceInit == Init => EvidenceInv
<1> SUFFICES ASSUME Init PROVE EvidenceInv
  OBVIOUS
<1>1. /\ facts \in [Events -> Facts]
      /\ mergedInto \in [Events -> Events \cup {NoEvent}] /\ \A e \in Events : mergedInto[e] = NoEvent
  BY DEF Init, Facts
<1>2. Absorbed = {}
  BY <1>1 DEF Absorbed
<1>3. Cardinality(Absorbed) = 0
  BY <1>2, FS_EmptySet
<1> DEFINE depth == [e \in Events |-> 0]
<1>4. depth \in [Events -> 0..Cardinality(Absorbed)] /\ Depths(depth)
  BY <1>1, <1>3 DEF Depths
<1> HIDE DEF depth
<1> QED
  BY <1>1, <1>4 DEF EvidenceInv

LEMMA AbsorbedIsFinite == IsFiniteSet(Events) /\ IsFiniteSet(Absorbed) /\ Cardinality(Absorbed) \in Nat
<1>1. IsFiniteSet(Events) /\ Absorbed \subseteq Events
  BY PublicationAssumption DEF PublicationAssumption, Absorbed
<1> QED
  BY <1>1, FS_Subset, FS_CardinalityType

(* A merge puts the absorbed event one level above its own absorbed ones. *)
LEMMA MergeStep ==
    ASSUME EvidenceInv, NEW s \in Events, NEW t \in Events, MergeDuplicateEvents(s, t)
    PROVE  EvidenceInv'
<1> DEFINE N == Cardinality(Absorbed)
<1>1. PICK depth \in [Events -> 0..N] : Depths(depth)
  BY DEF EvidenceInv
<1>2. /\ s # t /\ mergedInto[s] = NoEvent /\ mergedInto[t] = NoEvent
      /\ mergedInto' = [mergedInto EXCEPT ![s] = t] /\ facts' = [facts EXCEPT ![s] = "none"]
  BY DEF MergeDuplicateEvents
<1>3. /\ facts \in [Events -> Facts] /\ mergedInto \in [Events -> Events \cup {NoEvent}]
      /\ NoEvent \notin Events /\ "none" \in Facts
  BY PublicationAssumption DEF EvidenceInv, PublicationAssumption, Facts
<1>4. /\ mergedInto'[s] = t /\ facts'[s] = "none"
      /\ \A e \in Events \ {s} : mergedInto'[e] = mergedInto[e] /\ facts'[e] = facts[e]
      /\ facts' \in [Events -> Facts] /\ mergedInto' \in [Events -> Events \cup {NoEvent}]
  BY <1>2, <1>3
<1>6. Absorbed' = Absorbed \cup {s} /\ s \notin Absorbed
  BY <1>2, <1>3, <1>4 DEF Absorbed
<1>7. N \in Nat /\ Cardinality(Absorbed') = N + 1
  BY <1>6, AbsorbedIsFinite, FS_AddElement
<1> DEFINE deeper == [e \in Events |-> IF mergedInto'[e] = NoEvent THEN 0
                                       ELSE IF e = s THEN 1 ELSE depth[e] + 1]
<1> HIDE DEF N
<1>8. deeper \in [Events -> 0..(N + 1)]
  BY <1>1, <1>7
<1>9. ASSUME NEW e \in Events
      PROVE  /\ mergedInto'[e] = NoEvent => deeper[e] = 0
             /\ mergedInto'[e] # NoEvent => deeper[mergedInto'[e]] < deeper[e]
  <2>1. CASE mergedInto'[e] = NoEvent
    BY <2>1
  <2>2. CASE e = s
    <3>1. mergedInto'[t] = NoEvent /\ deeper[t] = 0
      BY <1>2, <1>4
    <3>2. deeper[s] = 1
      BY <1>3, <1>4
    <3> QED
      BY <1>4, <2>2, <3>1, <3>2
  <2>3. CASE mergedInto'[e] # NoEvent /\ e # s
    <3> DEFINE m == mergedInto[e]
    <3>1. mergedInto'[e] = m /\ m \in Events /\ m # NoEvent /\ deeper[e] = depth[e] + 1
      BY <1>3, <1>4, <2>3
    <3>2. depth[m] < depth[e] /\ depth[m] \in Nat /\ depth[e] \in Nat
      BY <1>1, <1>7, <3>1 DEF Depths
    <3>3. deeper[m] \in {0, 1, depth[m] + 1}
      BY <3>1
    <3> HIDE DEF m, deeper
    <3>4. deeper[m] < deeper[e]
      BY <3>1, <3>2, <3>3
    <3> QED
      BY <2>3, <3>1, <3>4
  <2> QED
    BY <2>1, <2>2, <2>3
<1> HIDE DEF deeper
<1>11. deeper \in [Events -> 0..Cardinality(Absorbed')]
  BY <1>7, <1>8
<1>12. \E d \in [Events -> 0..Cardinality(Absorbed)'] : Depths(d)'
  BY <1>9, <1>11 DEF Depths
<1> QED
  BY <1>4, <1>12 DEF EvidenceInv

LEMMA ProjectStep ==
    ASSUME EvidenceInv, NEW e \in Events, NEW fact \in Facts, ReProjectEvent(e, fact)
    PROVE  EvidenceInv'
<1>1. mergedInto' = mergedInto /\ facts' = [facts EXCEPT ![e] = fact]
  BY DEF ReProjectEvent
<1>2. facts \in [Events -> Facts] /\ mergedInto \in [Events -> Events \cup {NoEvent}]
  BY DEF EvidenceInv
<1>3. facts' \in [Events -> Facts]
  BY <1>1, <1>2
<1> QED
  BY <1>1, <1>2, <1>3 DEF EvidenceInv, Absorbed, Depths

LEMMA EvidenceKept == ASSUME EvidenceInv, UNCHANGED <<facts, mergedInto>> PROVE EvidenceInv'
BY DEF EvidenceInv, Absorbed, Depths

(* Following merged_into_event_id ends at an event that was not absorbed: each *)
(* step goes up a level.                                                       *)
LEMMA Survives ==
    ASSUME EvidenceInv, NEW event \in Events
    PROVE  CanonicalEvent(event) \in Events /\ mergedInto[CanonicalEvent(event)] = NoEvent
<1> DEFINE N == Cardinality(Events)
           Up(e) == IF mergedInto[e] = NoEvent THEN e ELSE mergedInto[e]
           Eq(w) == w = [n \in 0..N |-> IF n = 0 THEN event ELSE Up(w[n - 1])]
           walk == CHOOSE w : Eq(w)
<1>1. CanonicalEvent(event) = walk[N]
  BY DEF CanonicalEvent
<1>2. IsFiniteSet(Events) /\ N \in Nat /\ Cardinality(Absorbed) \in Nat /\ Cardinality(Absorbed) <= N
  <2>1. Absorbed \subseteq Events
    BY DEF Absorbed
  <2> QED
    BY <2>1, AbsorbedIsFinite, FS_CardinalityType, FS_Subset
<1>3. PICK depth \in [Events -> 0..Cardinality(Absorbed)] : Depths(depth)
  BY DEF EvidenceInv
<1>4. \A e \in Events : depth[e] \in Nat /\ depth[e] <= N
  BY <1>2, <1>3
<1>5. ASSUME NEW e \in Events
      PROVE  /\ Up(e) \in Events
             /\ depth[e] = 0 => mergedInto[e] = NoEvent /\ Up(e) = e
             /\ depth[e] # 0 => depth[Up(e)] < depth[e]
  <2>1. mergedInto[e] \in Events \cup {NoEvent}
    BY DEF EvidenceInv
  <2>2. CASE mergedInto[e] = NoEvent
    BY <1>3, <2>2 DEF Depths
  <2>3. CASE mergedInto[e] # NoEvent
    <3>1. mergedInto[e] \in Events /\ depth[mergedInto[e]] < depth[e] /\ Up(e) = mergedInto[e]
      BY <1>3, <2>1, <2>3 DEF Depths
    <3>2. depth[e] # 0
      BY <1>4, <3>1
    <3> QED
      BY <3>1, <3>2
  <2> QED
    BY <2>2, <2>3
<1> HIDE DEF N, Up
<1>6. \E f : Eq(f)
  <2> DEFINE G == [x \in (1..N) \X Events |-> Up(x[2])]
  <2>1. G \in [(1..N) \X Events -> Events]
    BY <1>5
  <2>2. PICK f \in [0..N -> Events] : Recursive(f, N, event, G)
    BY <1>2, <2>1, Recursion
  <2>3. \A n \in 1..N : f[n] = Up(f[n - 1])
    <3> SUFFICES ASSUME NEW n \in 1..N PROVE f[n] = Up(f[n - 1])
      OBVIOUS
    <3>1. n - 1 \in 0..N
      BY <1>2
    <3>2. f[n] = G[<<n, f[n - 1]>>]
      BY <2>2 DEF Recursive
    <3>3. f[n - 1] \in Events
      BY <2>2, <3>1
    <3> QED
      BY <3>2, <3>3
  <2>4. f[0] = event
    BY <2>2 DEF Recursive
  <2>5. \A n \in 0..N : f[n] = IF n = 0 THEN event ELSE Up(f[n - 1])
    <3>1. \A n \in 0..N : n = 0 \/ n \in 1..N
      BY <1>2
    <3>2. \A n \in 1..N : n # 0
      BY <1>2
    <3> QED
      BY <2>3, <2>4, <3>1, <3>2, Zenon
  <2>6. f = [n \in 0..N |-> f[n]]
    BY <2>2
  <2> QED
    BY <2>5, <2>6
<1>7. Eq(walk)
  <2> HIDE DEF Eq
  <2> QED
    BY <1>6
<1> HIDE DEF walk
<1> DEFINE Good(n) == walk[n] \in Events /\ (depth[walk[n]] = 0 \/ depth[walk[n]] + n <= N)
           bad == {n \in 0..N : ~ Good(n)}
<1>8. Good(0)
  <2>1. walk[0] = event
    BY <1>2, <1>7
  <2> QED
    BY <1>4, <2>1
<1>9. ASSUME NEW n \in 1..N, Good(n - 1) PROVE Good(n)
  <2> DEFINE e == walk[n - 1]
  <2>1. n \in 0..N /\ n # 0
    BY <1>2
  <2>2. walk[n] = Up(e) /\ e \in Events
    BY <1>7, <1>9, <2>1
  <2>3. depth[e] = 0 \/ depth[e] + (n - 1) <= N
    BY <1>9
  <2> HIDE DEF e
  <2>4. Up(e) \in Events /\ depth[Up(e)] \in Nat /\ depth[e] \in Nat
    BY <1>4, <1>5, <2>2
  <2>5. CASE depth[e] = 0
    BY <1>5, <2>2, <2>5
  <2>6. CASE depth[e] # 0
    <3>1. depth[Up(e)] < depth[e]
      BY <1>5, <2>2, <2>6
    <3>2. depth[Up(e)] + n <= N
      BY <1>2, <2>3, <2>4, <2>6, <3>1
    <3> QED
      BY <2>2, <2>4, <3>2
  <2> QED
    BY <2>5, <2>6
<1> HIDE DEF Good
<1>10. Good(N)
  <2> SUFFICES ASSUME bad # {} PROVE FALSE
    BY <1>2
  <2>1. bad \in SUBSET Nat
    BY <1>2
  <2>2. PICK n \in bad : \A m \in bad : n <= m
    <3> HIDE DEF bad
    <3> QED
      BY <2>1, LeastNat
  <2>3. n \in 1..N
    BY <1>2, <1>8
  <2>4. n - 1 \in 0..N /\ ~ (n <= n - 1)
    BY <1>2, <2>3
  <2>5. Good(n - 1)
    BY <2>2, <2>4
  <2> QED
    BY <1>9, <2>3, <2>5
<1>11. walk[N] \in Events /\ depth[walk[N]] = 0
  <2>1. walk[N] \in Events /\ (depth[walk[N]] = 0 \/ depth[walk[N]] + N <= N)
    BY <1>10 DEF Good
  <2>2. depth[walk[N]] \in Nat
    BY <1>4, <2>1
  <2> QED
    BY <1>2, <2>1, <2>2
<1> QED
  BY <1>1, <1>5, <1>11


(* Steps that neither publish nor withdraw a page. *)
Quiet ==
    /\ Stored \subseteq Stored'
    /\ PublishedPages' = PublishedPages
    /\ \A q \in PublishedPages : page'[q] = page[q]
    /\ \A x, y \in PublishedPages : Later(x, y)' <=> Later(x, y)

LEMMA PublishedPagesAre ==
    /\ PublishedPages = {p \in Stored : page[p].status = "PUBLISHED"}
    /\ PublishedPages \in SUBSET Stored /\ PublishedPages \in SUBSET Pages /\ NoPage \notin PublishedPages
BY PublicationAssumption DEF PublicationAssumption, PublishedPages, PagesIn, Stored

LEMMA QuietIndex ==
    ASSUME IndexInv, Quiet, UNCHANGED <<searchIndex, mapIndex, adrift>>
    PROVE  IndexInv'
<1>1. /\ searchIndex' \in [Pages -> SearchEntries \cup {NoEntry}]
      /\ mapIndex' \in [Pages -> SearchEntries \cup {NoEntry}] /\ adrift' \in SUBSET Pages
      /\ \A p \in Pages : p \in Stored' \/ (searchIndex'[p] = NoEntry /\ mapIndex'[p] = NoEntry)
  BY DEF IndexInv, Quiet
<1>2. ASSUME NEW p \in Pages \ adrift PROVE RowsRight(p)'
  <2>1. RowsRight(p)
    BY DEF IndexInv
  <2>2. p \in PublishedPages' <=> p \in PublishedPages
    BY DEF Quiet
  <2>3. CASE p \in PublishedPages
    BY <2>1, <2>2, <2>3 DEF RowsRight, EntryOf, Quiet, HasCoords
  <2>4. CASE p \notin PublishedPages
    BY <2>1, <2>2, <2>4 DEF RowsRight
  <2> QED
    BY <2>3, <2>4
<1> QED
  BY <1>1, <1>2 DEF IndexInv

(* The reindex goes on: of the pages that remain untouched no one enters or    *)
(* leaves PUBLISHED or gets an index row, and those before its cursor stay.    *)
LEMMA ReindexKept ==
    ASSUME ReindexInv, NEW T \in SUBSET Pages, reindex.touched \subseteq T,
           reindex' = [reindex EXCEPT !.touched = T], Stored \subseteq Stored',
           \A q \in Pages \ T :
              /\ q \in PublishedPages' <=> q \in PublishedPages
              /\ q \in PublishedPages => page'[q] = page[q]
              /\ searchIndex'[q] \in {searchIndex[q], NoEntry}
              /\ mapIndex'[q] \in {mapIndex[q], NoEntry},
           \A x, q \in PublishedPages' : q \notin T /\ ~ Later(x, q)' =>
              x \in PublishedPages /\ ~ Later(x, q)
    PROVE  ReindexInv'
<1>1. PICK a : a = reindex.after
  OBVIOUS
<1>2. PICK found : found = reindex.found
  OBVIOUS
<1>3. PICK stage : stage = reindex.stage
  OBVIOUS
<1>4. PICK cleared : cleared = reindex.cleared
  OBVIOUS
<1>5. reindex \in ReindexRows
  BY DEF ReindexInv
<1>6. /\ reindex' \in ReindexRows /\ reindex'.after = a /\ reindex'.found = found
      /\ reindex'.stage = stage /\ reindex'.cleared = cleared /\ reindex'.touched = T
  BY <1>1, <1>2, <1>3, <1>4, <1>5 DEF ReindexRows
<1>7. /\ \A f, g \in found : f.page = g.page => f = g
      /\ \A f \in found : f.page \in Stored
      /\ \A f \in found : f.page \in Pages
  BY <1>2, <1>5 DEF ReindexInv, ReindexRows
<1>8. ASSUME stage # "none" PROVE Progress'
  <2>1. Progress
    BY <1>3, <1>8 DEF ReindexInv
  <2>2. ASSUME NEW f \in found, f.page \notin T
        PROVE  f.page \in PublishedPages' /\ EntryOf(f.page, f.entry)'
    <3>1. f.page \in PublishedPages /\ EntryOf(f.page, f.entry) /\ f.page \in Pages \ T
      BY <1>2, <1>7, <2>1, <2>2 DEF Progress
    <3> QED
      BY <3>1 DEF EntryOf
  <2>3. ASSUME stage # "read", NEW p \in PublishedPages', p \in Pages, p \notin T
        PROVE  Covered(found, p)
    BY <1>2, <1>3, <2>1, <2>3 DEF Progress
  <2>4. ASSUME stage = "read", a \in PublishedPages', NEW p \in PublishedPages', p \in Pages,
               p \notin T, ~ Later(a, p)'
        PROVE  Covered(found, p)
    <3>1. a \in PublishedPages /\ ~ Later(a, p) /\ p \in PublishedPages
      BY <2>4
    <3> QED
      BY <1>1, <1>2, <1>3, <2>1, <2>4, <3>1 DEF Progress
  <2>5. ASSUME stage \in {"map", "commit"}, NEW p \in Pages, p \notin T
        PROVE  p \in cleared["search"] \/ searchIndex'[p] = NoEntry
    BY <1>3, <1>4, <2>1, <2>5 DEF Progress
  <2>6. ASSUME stage = "commit", NEW p \in Pages, p \notin T
        PROVE  p \in cleared["map"] \/ mapIndex'[p] = NoEntry
    BY <1>3, <1>4, <2>1, <2>6 DEF Progress
  <2>7. \A p : Later(reindex.after, p)' <=> Later(a, p)'
    BY <1>6 DEF Later, Place
  <2> QED
    BY <1>6, <1>7, <2>2, <2>3, <2>4, <2>5, <2>6, <2>7 DEF Progress, Covered
<1> QED
  BY <1>6, <1>7, <1>8 DEF ReindexInv

LEMMA QuietReindex ==
    ASSUME ReindexInv, Quiet, UNCHANGED <<reindex, searchIndex, mapIndex>>
    PROVE  ReindexInv'
<1>1. PICK T : T = reindex.touched
  OBVIOUS
<1>2. reindex \in ReindexRows
  BY DEF ReindexInv
<1>3. T \in SUBSET Pages /\ reindex' = [reindex EXCEPT !.touched = T]
  BY <1>1, <1>2 DEF ReindexRows
<1>4. \A q \in Pages \ T :
         /\ q \in PublishedPages' <=> q \in PublishedPages
         /\ q \in PublishedPages => page'[q] = page[q]
         /\ searchIndex'[q] \in {searchIndex[q], NoEntry}
         /\ mapIndex'[q] \in {mapIndex[q], NoEntry}
  BY DEF Quiet
<1>5. \A x, q \in PublishedPages' : q \notin T /\ ~ Later(x, q)' =>
         x \in PublishedPages /\ ~ Later(x, q)
  BY DEF Quiet
<1>6. Stored \subseteq Stored'
  BY DEF Quiet
<1> QED
  BY <1>1, <1>3, <1>4, <1>5, <1>6, ReindexKept

(* A write of a page that neither was nor becomes published. *)
LEMMA QuietWrite ==
    ASSUME RecentInv, RowsTyped, NEW p \in Pages, NEW row \in PageRows,
           page' = [page EXCEPT ![p] = row], recent' = Touch(p),
           row.status # "PUBLISHED", p \notin PublishedPages
    PROVE  Quiet /\ RecentInv'
<1>1. page'[p] = row /\ row # NoPage /\ \A q \in Pages \ {p} : page'[q] = page[q]
  BY PublicationAssumption DEF PublicationAssumption, RowsTyped
<1>2. Stored' = Stored \cup {p}
  BY <1>1 DEF Stored
<1>3. PublishedPages' = PublishedPages
  BY <1>1, <1>2 DEF PublishedPages, PagesIn, Stored
<1>4. \A q \in PublishedPages : q \in Stored \ {p} /\ q \in Pages \ {p}
  BY PublishedPagesAre
<1>5. RecentInv' /\ \A x, y \in Stored \ {p} : Later(x, y)' <=> Later(x, y)
  BY <1>2, TouchStep
<1> QED
  BY <1>1, <1>2, <1>3, <1>4, <1>5 DEF Quiet

LEMMA NothingWritten ==
    ASSUME RecentInv, UNCHANGED <<page, recent>>
    PROVE  Quiet /\ RecentInv'
BY RecentKept DEF Quiet


LEMMA EntryTyped ==
    ASSUME NEW row \in PageRows, EvidenceInv
    PROVE  /\ search_entry(row, facts[row.event]) \in SearchEntries
           /\ search_entry(row, facts[row.event]).slug = row.slug
           /\ search_entry(row, facts[row.event]).text = row.text
           /\ search_entry(row, facts[row.event]).facts = facts[row.event]
           /\ map_entry(row, facts[row.event]) \in SearchEntries \cup {NoEntry}
<1>1. facts[row.event] \in Facts
  BY DEF EvidenceInv, PageRows
<1> QED
  BY <1>1 DEF search_entry, map_entry, SearchEntries, PageRows

LEMMA IndexInit == Init => IndexInv /\ ReindexInv
<1> SUFFICES ASSUME Init PROVE IndexInv /\ ReindexInv
  OBVIOUS
<1>1. EvidenceInv /\ NoEntry \notin SearchEntries /\ RowsTyped
  BY EvidenceInit, InitInv, PublicationAssumption DEF PublicationAssumption, IInv
<1>2. ReindexInv
  BY DEF Init, NoReindex, Reindex, ReindexInv, ReindexRows
<1>3. ASSUME NEW p \in Pages
      PROVE  /\ searchIndex[p] \in SearchEntries \cup {NoEntry}
             /\ mapIndex[p] = IF searchIndex[p] # NoEntry /\ searchIndex[p].facts = "located"
                              THEN searchIndex[p] ELSE NoEntry
             /\ IF p \in PublishedPages THEN EntryOf(p, searchIndex[p]) ELSE searchIndex[p] = NoEntry
  <2> DEFINE Made(x) == [slug |-> x.slug, text |-> x.text, facts |-> facts[x.event]]
  <2>1. searchIndex[p] = (IF \E x \in Existing : x.page = p
                          THEN Made(CHOOSE x \in Existing : x.page = p) ELSE NoEntry)
    BY DEF Init, ExistingAt
  <2>2. page[p] = (IF \E x \in Existing : x.page = p
                   THEN PublishedRow(CHOOSE x \in Existing : x.page = p) ELSE NoPage)
    BY DEF Init, ExistingAt
  <2>3. mapIndex[p] = IF searchIndex[p] # NoEntry /\ searchIndex[p].facts = "located"
                      THEN searchIndex[p] ELSE NoEntry
    BY DEF Init
  <2>4. CASE \E x \in Existing : x.page = p
    <3>1. PICK x \in Existing : x = CHOOSE y \in Existing : y.page = p
      BY <2>4
    <3>2. searchIndex[p] = Made(x) /\ page[p] = PublishedRow(x)
      BY <2>1, <2>2, <2>4, <3>1
    <3>3. x \in [page : Pages, event : Events, slug : Slugs, text : Texts]
      BY PublicationAssumption DEF PublicationAssumption
    <3>4. facts[x.event] \in Facts
      BY <1>1, <3>3 DEF EvidenceInv
    <3>5. Made(x) \in SearchEntries
      BY <3>3, <3>4 DEF SearchEntries
    <3>6. EntryOf(p, searchIndex[p])
      BY <3>2, <3>5 DEF EntryOf, PublishedRow
    <3>7. p \in PublishedPages
      BY <3>2, PublishedFacts DEF PublishedPages, PagesIn, Stored, PublishedRow
    <3> QED
      BY <2>3, <3>2, <3>5, <3>6, <3>7
  <2>5. CASE ~ \E x \in Existing : x.page = p
    <3>1. searchIndex[p] = NoEntry /\ page[p] = NoPage
      BY <2>1, <2>2, <2>5
    <3>2. p \notin PublishedPages
      BY <3>1 DEF PublishedPages, PagesIn, Stored
    <3> QED
      BY <2>3, <3>1, <3>2
  <2> QED
    BY <2>4, <2>5
<1>4. /\ searchIndex = [p \in Pages |-> searchIndex[p]] /\ mapIndex = [p \in Pages |-> mapIndex[p]]
      /\ adrift = {}
  <2>1. searchIndex = [p \in Pages |-> ExistingAt(p,
          LAMBDA x : [slug |-> x.slug, text |-> x.text, facts |-> facts[x.event]], NoEntry)]
    BY DEF Init
  <2>2. mapIndex = [p \in Pages |->
          IF searchIndex[p] # NoEntry /\ searchIndex[p].facts = "located" THEN searchIndex[p] ELSE NoEntry]
    BY DEF Init
  <2>3. adrift = {}
    BY DEF Init
  <2>4. searchIndex = [p \in Pages |-> searchIndex[p]]
    BY <2>1
  <2> QED
    BY <2>2, <2>3, <2>4
<1>5. \A p \in Pages : mapIndex[p] \in SearchEntries \cup {NoEntry}
  BY <1>3
<1>6. \A p \in Pages : RowsRight(p)
  BY <1>1, <1>3 DEF RowsRight, EntryOf, HasCoords
<1>7. \A p \in Pages : p \in Stored \/ (searchIndex[p] = NoEntry /\ mapIndex[p] = NoEntry)
  BY <1>6, PublishedPagesAre DEF RowsRight
<1> QED
  BY <1>2, <1>3, <1>4, <1>5, <1>6, <1>7 DEF IndexInv

(* The status of the page that a commit replaces. *)
LEMMA CommitFrom ==
    ASSUME IInv, NEW e \in Editors, Commit(e)
    PROVE  request[e].from = page[request[e].page].status /\ request[e].page \in Pages
<1> DEFINE r == request[e]
<1>1. Written(e, r.page, r.row)
  BY CommitStep DEF IInv
<1>2. r # Idle /\ r.page \in Stored /\ Successor(page[r.page], r.row)
  BY <1>1 DEF Written
<1>3. page[r.page] \in PageRows
  BY <1>2, Typing DEF IInv
<1>4. r.row.version = page[r.page].version + 1
  BY <1>2, <1>3, SuccessorFacts
<1> QED
  BY <1>2, <1>4 DEF IInv, RequestsSound, Stored

(* A commit changes the indexes with the status. *)
LEMMA CommitRoutes ==
    ASSUME RoutesInv, NEW e \in Editors, Commit(e)
    PROVE  RecentInv' /\ IndexInv' /\ ReindexInv'
<1> DEFINE r == request[e]
<1>1. PICK p : p = r.page
  OBVIOUS
<1>2. PICK row : row = r.row
  OBVIOUS
<1>3. PICK old : old = page[p]
  OBVIOUS
<1>4. /\ p \in Stored /\ p \in Pages /\ row \in PageRows /\ Successor(old, row)
      /\ page' = [page EXCEPT ![p] = row]
  <2>1. Written(e, r.page, r.row)
    BY CommitStep DEF RoutesInv, IInv
  <2> QED
    BY <1>1, <1>2, <1>3, <2>1 DEF Written, Stored
<1>5. old \in PageRows /\ row # NoPage
  BY <1>3, <1>4, Typing DEF RoutesInv, IInv
<1>6. recent' = Touch(p) /\ r.page = p /\ r.row = row /\ r \in Requests /\ PostTransitionHook(r)
  <2>1. r # Idle
    BY DEF Commit
  <2> QED
    BY <1>1, <1>2, <2>1, Typing DEF Commit, update, RoutesInv, IInv
<1>7. /\ reindex' = IF reindex.stage # "none" /\ "PUBLISHED" \in {old.status, row.status}
                    THEN [reindex EXCEPT !.touched = @ \cup {p}] ELSE reindex
      /\ adrift' = IF ~ (Publishes(r) \/ Withdraws(r)) THEN adrift
                   ELSE IF r.missed # {} \/ Torn(r) THEN adrift \cup {p} ELSE adrift \ {p}
  <2>1. r.from = old.status
    BY <1>1, <1>3, CommitFrom DEF RoutesInv
  <2> QED
    BY <1>1, <1>2, <2>1 DEF Commit
<1>8. \/ old.status = "DRAFT" /\ row.status = "DRAFT"
      \/ validate_transition(old.status, row.status) /\ row.status # old.status
  BY <1>4, <1>5, SuccessorFacts
<1>9. old.status \in PublicationStatus /\ row.status \in PublicationStatus
  BY <1>4, <1>5 DEF PageRows
<1>10. old.status = "PUBLISHED" => row.status \in {"ARCHIVED", "RETRACTED"}
  BY <1>8, <1>9 DEF validate_transition, allowed_next_states, ALLOWED_TRANSITIONS
<1>11. page'[p] = row /\ \A q \in Pages \ {p} : page'[q] = page[q]
  BY <1>4 DEF RoutesInv, IInv, RowsTyped
<1>12. Stored' = Stored \cup {p}
  BY <1>4, <1>5, <1>11 DEF Stored
<1>13. /\ RecentInv'
       /\ \A x, y \in Stored \ {p} : Later(x, y)' <=> Later(x, y)
       /\ \A y \in Stored \ {p} : Later(p, y)'
  BY <1>4, <1>6, <1>12, TouchStep DEF RoutesInv
<1>14. \A q \in Pages \ {p} : q \in PublishedPages' <=> q \in PublishedPages
  BY <1>11, <1>12 DEF PublishedPages, PagesIn, Stored
<1>15. p \in PublishedPages' <=> row.status = "PUBLISHED"
  BY <1>4, <1>11, <1>12 DEF PublishedPages, PagesIn
<1>16. p \in PublishedPages <=> old.status = "PUBLISHED"
  BY <1>3, <1>4 DEF PublishedPages, PagesIn
<1> HIDE DEF r
<1>17. /\ searchIndex \in [Pages -> SearchEntries \cup {NoEntry}]
       /\ mapIndex \in [Pages -> SearchEntries \cup {NoEntry}] /\ adrift \in SUBSET Pages
       /\ \A q \in Pages : q \in Stored \/ (searchIndex[q] = NoEntry /\ mapIndex[q] = NoEntry)
       /\ \A q \in Pages \ adrift : RowsRight(q)
  BY DEF RoutesInv, IndexInv
<1>18. Publishes(r) <=> row.status = "PUBLISHED"
  BY <1>6 DEF Publishes
<1>19. Withdraws(r) <=> row.status \in {"ARCHIVED", "RETRACTED"}
  BY <1>6 DEF Withdraws
<1>20. PICK entry, mapped :
          /\ entry \in SearchEntries \cup {NoEntry} /\ mapped \in SearchEntries \cup {NoEntry}
          /\ searchIndex' = [searchIndex EXCEPT ![p] = entry]
          /\ mapIndex' = [mapIndex EXCEPT ![p] = mapped]
          /\ (Publishes(r) \/ Withdraws(r)) /\ r.missed = {} /\ ~ Torn(r) =>
                IF row.status = "PUBLISHED"
                THEN /\ entry \in SearchEntries /\ entry.slug = row.slug /\ entry.text = row.text
                     /\ mapped = IF HasCoords(entry.facts) THEN entry ELSE NoEntry
                ELSE entry = NoEntry /\ mapped = NoEntry
          /\ ~ (Publishes(r) \/ Withdraws(r)) => entry = searchIndex[p] /\ mapped = mapIndex[p]
  <2>1. CASE Publishes(r)
    <3> DEFINE f == FactFor(r, "search")
               g == FactFor(r, "map")
               entry == search_entry(row, f)
               mapped == IF map_entry(row, g) = NoEntry /\ "map" \in r.missed THEN mapIndex[p]
                         ELSE map_entry(row, g)
    <3>1. f \in Facts /\ g \in Facts
      <4>1. facts[row.event] \in Facts /\ r.fact \in Facts
        BY <1>4, <1>6 DEF RoutesInv, EvidenceInv, PageRows, Requests
      <4> QED
        BY <1>6, <4>1 DEF FactFor
    <3>2. /\ entry \in SearchEntries /\ entry.slug = row.slug /\ entry.text = row.text /\ entry.facts = f
          /\ search_entry(row, g) \in SearchEntries /\ NoEntry \notin SearchEntries
      BY <1>4, <3>1, PublicationAssumption
      DEF PublicationAssumption, search_entry, SearchEntries, PageRows
    <3>3. index_published_page(p, row, f) /\ index_published_page_in_map(p, row, g, "map" \in r.missed)
      <4>1. ~ Withdraws(r)
        BY <1>18, <1>19, <2>1
      <4> QED
        BY <1>6, <2>1, <4>1 DEF PostTransitionHook
    <3> HIDE DEF f, g
    <3>4. searchIndex' = [searchIndex EXCEPT ![p] = entry] /\ mapIndex' = [mapIndex EXCEPT ![p] = mapped]
      BY <1>4, <1>17, <3>3 DEF index_published_page, index_published_page_in_map, Put
    <3>5. mapped \in SearchEntries \cup {NoEntry}
      BY <1>4, <1>17, <3>2 DEF map_entry
    <3>6. ~ Torn(r) => f = g
      BY <2>1 DEF Torn, f, g
    <3>7. r.missed = {} /\ ~ Torn(r) => mapped = IF HasCoords(entry.facts) THEN entry ELSE NoEntry
      BY <3>2, <3>6 DEF map_entry
    <3> HIDE DEF entry, mapped
    <3> QED
      BY <1>18, <2>1, <3>2, <3>4, <3>5, <3>7
  <2>2. CASE Withdraws(r)
    <3> DEFINE entry == IF "search" \in r.missed THEN searchIndex[p] ELSE NoEntry
               mapped == IF "map" \in r.missed THEN mapIndex[p] ELSE NoEntry
    <3>1. ~ Publishes(r) /\ row.status # "PUBLISHED"
      BY <1>18, <1>19, <2>2
    <3>2. remove_page_from_index(p, "search" \in r.missed) /\ remove_page_from_map(p, "map" \in r.missed)
      BY <1>6, <2>2, <3>1 DEF PostTransitionHook
    <3>3. searchIndex' = [searchIndex EXCEPT ![p] = entry] /\ mapIndex' = [mapIndex EXCEPT ![p] = mapped]
      BY <1>4, <1>17, <3>2 DEF remove_page_from_index, remove_page_from_map, Put
    <3>4. entry \in SearchEntries \cup {NoEntry} /\ mapped \in SearchEntries \cup {NoEntry}
      BY <1>4, <1>17
    <3>5. r.missed = {} => entry = NoEntry /\ mapped = NoEntry
      OBVIOUS
    <3> HIDE DEF entry, mapped
    <3> QED
      BY <2>2, <3>1, <3>3, <3>4, <3>5
  <2>3. CASE ~ (Publishes(r) \/ Withdraws(r))
    <3>1. UNCHANGED <<searchIndex, mapIndex>>
      BY <1>6, <2>3 DEF PostTransitionHook
    <3>2. /\ searchIndex' = [searchIndex EXCEPT ![p] = searchIndex[p]]
          /\ mapIndex' = [mapIndex EXCEPT ![p] = mapIndex[p]]
          /\ searchIndex[p] \in SearchEntries \cup {NoEntry} /\ mapIndex[p] \in SearchEntries \cup {NoEntry}
      BY <1>4, <1>17, <3>1
    <3> QED
      BY <2>3, <3>2
  <2> QED
    BY <2>1, <2>2, <2>3
<1>21. /\ searchIndex' \in [Pages -> SearchEntries \cup {NoEntry}]
       /\ mapIndex' \in [Pages -> SearchEntries \cup {NoEntry}]
       /\ searchIndex'[p] = entry /\ mapIndex'[p] = mapped
       /\ \A q \in Pages \ {p} : searchIndex'[q] = searchIndex[q] /\ mapIndex'[q] = mapIndex[q]
  BY <1>4, <1>17, <1>20
<1> HIDE DEF r
<1>22. IndexInv'
  <2>1. adrift' \in SUBSET Pages /\ \A q \in Pages \ {p} : q \in adrift' <=> q \in adrift
    BY <1>4, <1>7, <1>17
  <2>2. \A q \in Pages : q \in Stored' \/ (searchIndex'[q] = NoEntry /\ mapIndex'[q] = NoEntry)
    BY <1>12, <1>17, <1>21
  <2>3. ASSUME NEW q \in Pages \ adrift' PROVE RowsRight(q)'
    <3>1. CASE q # p
      <4>1. RowsRight(q)
        BY <1>17, <2>1, <2>3, <3>1
      <4>2. page'[q] = page[q] /\ (q \in PublishedPages' <=> q \in PublishedPages)
            /\ searchIndex'[q] = searchIndex[q] /\ mapIndex'[q] = mapIndex[q]
        BY <1>11, <1>14, <1>21, <3>1
      <4> QED
        BY <4>1, <4>2 DEF RowsRight, EntryOf, HasCoords
    <3>2. CASE q = p /\ (Publishes(r) \/ Withdraws(r))
      <4>1. r.missed = {} /\ ~ Torn(r)
        BY <1>7, <2>3, <3>2
      <4>2. CASE row.status = "PUBLISHED"
        BY <1>11, <1>15, <1>20, <1>21, <3>2, <4>1, <4>2 DEF RowsRight, EntryOf, HasCoords
      <4>3. CASE row.status # "PUBLISHED"
        BY <1>15, <1>20, <1>21, <3>2, <4>1, <4>3 DEF RowsRight
      <4> QED
        BY <4>2, <4>3
    <3>3. CASE q = p /\ ~ (Publishes(r) \/ Withdraws(r))
      <4>1. q \in Pages \ adrift /\ q \notin PublishedPages /\ q \notin PublishedPages'
        BY <1>4, <1>7, <1>10, <1>15, <1>16, <1>18, <1>19, <2>3, <3>3
      <4>2. searchIndex[q] = NoEntry /\ mapIndex[q] = NoEntry
        BY <1>17, <4>1 DEF RowsRight
      <4> QED
        BY <1>20, <1>21, <3>3, <4>1, <4>2 DEF RowsRight
    <3> QED
      BY <3>1, <3>2, <3>3
  <2> QED
    BY <1>21, <2>1, <2>2, <2>3 DEF IndexInv
<1>23. ReindexInv'
  <2> DEFINE T == IF reindex.stage # "none" /\ "PUBLISHED" \in {old.status, row.status}
                  THEN reindex.touched \cup {p} ELSE reindex.touched
  <2>1. reindex \in ReindexRows /\ ReindexInv
    BY DEF RoutesInv, ReindexInv
  <2>2. reindex.touched \in SUBSET Pages
    BY <2>1 DEF ReindexRows
  <2>3. T \in SUBSET Pages /\ reindex.touched \subseteq T /\ reindex' = [reindex EXCEPT !.touched = T]
    BY <1>4, <1>7, <2>1, <2>2 DEF ReindexRows
  <2>4. CASE reindex.stage = "none"
    <3>1. reindex' = reindex /\ Stored \subseteq Stored'
      BY <1>7, <1>12, <2>4
    <3> QED
      BY <2>1, <2>4, <3>1 DEF ReindexInv
  <2>5. CASE reindex.stage # "none"
    <3>1. "PUBLISHED" \in {old.status, row.status} => p \in T
      BY <2>5
    <3>2. ~ (p \in PublishedPages \/ p \in PublishedPages') => ~ (Publishes(r) \/ Withdraws(r))
      <4>1. old.status # "PUBLISHED" => row.status \notin {"ARCHIVED", "RETRACTED"}
        BY <1>8, <1>9 DEF validate_transition, allowed_next_states, ALLOWED_TRANSITIONS, PublicationStatus
      <4> QED
        BY <1>15, <1>16, <1>18, <1>19, <4>1
    <3> HIDE DEF T
    <3>3. ASSUME NEW q \in Pages \ T
          PROVE  /\ q \in PublishedPages' <=> q \in PublishedPages
                 /\ q \in PublishedPages => page'[q] = page[q]
                 /\ searchIndex'[q] \in {searchIndex[q], NoEntry}
                 /\ mapIndex'[q] \in {mapIndex[q], NoEntry}
      <4>1. CASE q # p
        BY <1>11, <1>14, <1>21, <4>1
      <4>2. CASE q = p
        <5>1. p \notin PublishedPages /\ p \notin PublishedPages'
          BY <1>15, <1>16, <3>1, <4>2
        <5> QED
          BY <1>20, <1>21, <3>2, <4>2, <5>1
      <4> QED
        BY <4>1, <4>2
    <3>4. ASSUME NEW x \in PublishedPages', NEW q \in PublishedPages', q \notin T, ~ Later(x, q)'
          PROVE  x \in PublishedPages /\ ~ Later(x, q)
      <4>1. PublishedPages' \subseteq Stored' /\ PublishedPages' \subseteq Pages
        BY DEF PublishedPages, PagesIn, Stored
      <4>2. q # p /\ q \in Stored \ {p} /\ q \in Pages
        BY <1>12, <1>15, <3>1, <3>4, <4>1
      <4>3. x # p /\ x \in Stored \ {p} /\ x \in Pages
        BY <1>12, <1>13, <3>4, <4>1, <4>2
      <4> QED
        BY <1>13, <1>14, <3>4, <4>2, <4>3
    <3>5. Stored \subseteq Stored'
      BY <1>12
    <3> QED
      BY <2>1, <2>3, <3>3, <3>4, <3>5, ReindexKept
  <2> QED
    BY <2>4, <2>5
<1> QED
  BY <1>13, <1>22, <1>23

(* A page of the published list, whatever the cursor: from the start when the  *)
(* cursor is not published any more.                                           *)
LEMMA PageFrom ==
    ASSUME RecentInv, NEW limit \in Nat \ {0}, NEW after
    PROVE  \E k \in 0..Len(Published) :
              /\ IF after \in PublishedPages THEN k # 0 /\ after = Published[k] ELSE k = 0
              /\ Keyset({"PUBLISHED"}, limit, after) = PageAt(Published, limit, k)
<1> DEFINE L == Published
           S == PublishedPages
<1>1. S \in SUBSET Stored /\ NoPage \notin S /\ IsFiniteSet(S)
  BY PublishedPagesAre, StoredIsFinite
<1>2. L \in ListsOf(S, LaterOrder) /\ TotalOrder(LaterOrder, S)
  BY <1>1, OrderByLater, LaterIsTotal, PartOrder DEF Published, PublishedPages
<1>3. /\ L \in Seq(S) /\ Len(L) \in Nat
      /\ \A x \in S : \E i \in 1..Len(L) : L[i] = x
  BY <1>1, <1>2, ListInOrder
<1>4. \A k \in 0..Len(L) : Keyset({"PUBLISHED"}, limit, Cursor(L, k)) = PageAt(L, limit, k)
  BY ListPage
<1>5. CASE after \in S
  <2>1. PICK k \in 1..Len(L) : L[k] = after
    BY <1>3, <1>5
  <2>2. k \in 0..Len(L) /\ k # 0 /\ Cursor(L, k) = after
    BY <1>3, <2>1 DEF Cursor
  <2> QED
    BY <1>4, <1>5, <2>1, <2>2
<1>6. CASE after \notin S
  <2>1. \A i \in DOMAIN L : L[i] \in S
    BY <1>3
  <2>2. (~ \E i \in DOMAIN L : L[i] = after) /\ (~ \E i \in DOMAIN L : L[i] = NoPage)
    BY <1>1, <1>6, <2>1
  <2>3. Keyset({"PUBLISHED"}, limit, after) = Keyset({"PUBLISHED"}, limit, NoPage)
    BY <2>2 DEF Keyset, Published
  <2>4. 0 \in 0..Len(L) /\ Cursor(L, 0) = NoPage
    BY <1>3 DEF Cursor
  <2>5. Keyset({"PUBLISHED"}, limit, after) = PageAt(L, limit, 0)
    BY <1>4, <2>3, <2>4
  <2> QED
    BY <1>6, <2>4, <2>5
<1> QED
  BY <1>5, <1>6

(* The list of the published pages. *)
LEMMA PublishedList ==
    ASSUME RecentInv
    PROVE  /\ Published \in Seq(PublishedPages) /\ Len(Published) \in Nat
           /\ Len(Published) = Cardinality(PublishedPages)
           /\ Published \in ListsOf(PublishedPages, LaterOrder)
           /\ \A i \in 1..Len(Published) : Published[i] \in PublishedPages
           /\ \A p \in PublishedPages : \E i \in 1..Len(Published) : Published[i] = p
           /\ \A i, j \in 1..Len(Published) : Later(Published[i], Published[j]) <=> i < j
<1> DEFINE L == Published
           S == PublishedPages
<1>1. S \in SUBSET Stored /\ NoPage \notin S /\ IsFiniteSet(S)
  BY PublishedPagesAre, StoredIsFinite
<1>2. L \in ListsOf(S, LaterOrder) /\ TotalOrder(LaterOrder, S)
  BY <1>1, OrderByLater, LaterIsTotal, PartOrder DEF Published, PublishedPages
<1>3. /\ L \in Seq(S) /\ Len(L) \in Nat /\ Len(L) = Cardinality(S)
      /\ \A x \in S : \E i \in 1..Len(L) : L[i] = x
      /\ \A i, j \in 1..Len(L) : <<L[i], L[j]>> \in LaterOrder <=> i < j
  BY <1>1, <1>2, ListInOrder
<1>4. \A p, q \in Stored : <<p, q>> \in LaterOrder <=> Later(p, q)
  BY LaterIsTotal
<1>5. \A i \in 1..Len(L) : L[i] \in S
  BY <1>3
<1>6. \A i, j \in 1..Len(L) : Later(L[i], L[j]) <=> i < j
  BY <1>1, <1>3, <1>4, <1>5
<1> QED
  BY <1>2, <1>3, <1>5, <1>6

(* One batch extends what the reindex has found up to the new cursor. *)
LEMMA BatchStep ==
    ASSUME RoutesInv, NextBatch
    PROVE  ReindexInv'
<1> DEFINE L == Published
           S == PublishedPages
           a == reindex.after
           found == reindex.found
<1>1. reindex' = Reindex(IF Batch.next = NoPage THEN "search" ELSE "read",
                         Batch.next, Collected, reindex.touched)
      /\ reindex.stage = "read" /\ page' = page /\ recent' = recent
  BY DEF NextBatch, pageVars
<1>2. RecentInv /\ RowsTyped /\ EvidenceInv /\ BatchSize \in Nat \ {0}
  BY PublicationAssumption DEF RoutesInv, IInv, PublicationAssumption
<1>3. PICK k \in 0..Len(L) :
             /\ IF a \in S THEN k # 0 /\ a = L[k] ELSE k = 0
             /\ Keyset({"PUBLISHED"}, BatchSize, a) = PageAt(L, BatchSize, k)
  BY <1>2, PageFrom
<1>4. Batch = PageAt(L, BatchSize, k)
  BY <1>3 DEF Batch, list_editorial
<1>5. /\ L \in Seq(S) /\ Len(L) \in Nat
      /\ \A i \in 1..Len(L) : L[i] \in S
      /\ \A p \in S : \E i \in 1..Len(L) : L[i] = p
      /\ \A i, j \in 1..Len(L) : Later(L[i], L[j]) <=> i < j
  BY <1>2, PublishedList
<1>6. S \in SUBSET Stored /\ S \in SUBSET Pages /\ NoPage \notin S
  BY PublishedPagesAre
<1> DEFINE end == PageEnd(L, BatchSize, k)
           I == {L[i] : i \in (k + 1)..end}
           next == Batch.next
<1> HIDE DEF L
<1>7. end \in k..Len(L) /\ end \in Nat /\ k \in Nat
  BY <1>2, <1>5 DEF PageEnd
<1>8. {Batch.items[i] : i \in DOMAIN Batch.items} = I
  <2> DEFINE s == SubSeq(L, k + 1, end)
  <2>1. Batch.items = s
    BY <1>4 DEF PageAt
  <2> HIDE DEF end
  <2>2. s \in Seq(S) /\ Len(s) = end - k /\ \A i \in 1..(end - k) : s[i] = L[k + i]
    <3>1. end \in 0..Len(L) /\ k <= end /\ end - (k + 1) + 1 = end - k
      BY <1>5, <1>7
    <3>2. s \in Seq(S) /\ Len(s) = end - k
      BY <1>5, <1>7, <3>1
    <3>3. \A i \in 1..(end - k) : s[i] = L[k + i]
      BY <1>5, <1>7, <3>1
    <3> QED
      BY <3>2, <3>3
  <2> HIDE DEF s
  <2>3. DOMAIN s = 1..(end - k)
    BY <2>2
  <2>4. \A i \in 1..(end - k) : k + i \in (k + 1)..end
    BY <1>7
  <2>5. \A i \in (k + 1)..end : i - k \in 1..(end - k) /\ k + (i - k) = i
    BY <1>7
  <2>6. {s[i] : i \in 1..(end - k)} = I
    <3>1. ASSUME NEW i \in (k + 1)..end PROVE \E j \in 1..(end - k) : s[j] = L[i]
      BY <2>2, <2>5
    <3>2. ASSUME NEW j \in 1..(end - k) PROVE \E i \in (k + 1)..end : s[j] = L[i]
      BY <2>2, <2>4
    <3>3. ASSUME NEW x \in I PROVE x \in {s[i] : i \in 1..(end - k)}
      <4>1. PICK i \in (k + 1)..end : x = L[i]
        BY <3>3, Zenon
      <4> QED
        BY <3>1, <4>1
    <3>4. ASSUME NEW j \in 1..(end - k) PROVE s[j] \in I
      BY <3>2
    <3> HIDE DEF I
    <3> QED
      BY <3>3, <3>4
  <2> QED
    BY <2>1, <2>3, <2>6
<1>9. I \in SUBSET S
  <2>1. \A i \in (k + 1)..end : i \in 1..Len(L)
    BY <1>5, <1>7
  <2> QED
    BY <1>5, <2>1
<1> DEFINE Made(p) == [page |-> p, entry |-> search_entry(page[p], facts[page[p].event])]
           old == {f \in found : f.page \notin I}
           new == {Made(p) : p \in I}
<1>10. Collected = old \cup new
  BY <1>8 DEF Collected
<1>11. next = IF k + BatchSize < Len(L) THEN L[k + BatchSize] ELSE NoPage
  BY <1>4 DEF PageAt
<1>12. \A p \in I : /\ Made(p) \in [page : Pages, entry : SearchEntries]
                    /\ Made(p).page = p /\ EntryOf(p, Made(p).entry)
  <2> SUFFICES ASSUME NEW p \in I
               PROVE  /\ Made(p) \in [page : Pages, entry : SearchEntries]
                      /\ Made(p).page = p /\ EntryOf(p, Made(p).entry)
    OBVIOUS
  <2>1. p \in S
    BY <1>9
  <2>2. page[p] \in PageRows /\ p \in Pages
    BY <1>2, <1>6, <2>1, Typing
  <2>3. /\ search_entry(page[p], facts[page[p].event]) \in SearchEntries
        /\ search_entry(page[p], facts[page[p].event]).slug = page[p].slug
        /\ search_entry(page[p], facts[page[p].event]).text = page[p].text
    BY <1>2, <2>2, EntryTyped
  <2> QED
    BY <2>2, <2>3 DEF EntryOf
<1> HIDE DEF I, Made, S
<1>13. /\ reindex \in ReindexRows
       /\ \A f, g \in found : f.page = g.page => f = g
       /\ \A f \in found : f.page \in Stored
       /\ found \in SUBSET [page : Pages, entry : SearchEntries]
       /\ reindex.touched \in SUBSET Pages
  BY DEF RoutesInv, ReindexInv, ReindexRows
<1>14. next \in Pages \cup {NoPage} /\ (next = NoPage <=> ~ (k + BatchSize < Len(L)))
  <2>1. k + BatchSize < Len(L) => L[k + BatchSize] \in S
    BY <1>2, <1>5, <1>7
  <2> QED
    BY <1>6, <1>11, <2>1
<1>15. Collected \in SUBSET [page : Pages, entry : SearchEntries]
  BY <1>10, <1>12, <1>13
<1>16. \A f, g \in Collected : f.page = g.page => f = g
  <2>1. \A f \in new : f.page \in I /\ f = Made(f.page)
    BY <1>12
  <2>2. \A f \in old : f \in found /\ f.page \notin I
    OBVIOUS
  <2> HIDE DEF old, new
  <2> QED
    BY <1>10, <1>13, <2>1, <2>2
<1>17. \A p \in I : Covered(Collected, p)
  BY <1>10, <1>12 DEF Covered
<1>18. \A p : Covered(found, p) => Covered(Collected, p)
  BY <1>10, <1>17 DEF Covered
<1> DEFINE U == Pages \ reindex.touched
<1>26. \A f \in Collected : f.page \in Stored
  <2>1. \A f \in new : f.page \in Stored
    BY <1>6, <1>9, <1>12 DEF S
  <2> HIDE DEF new
  <2> QED
    BY <1>10, <1>13, <2>1
<1>19. /\ \A f \in Collected : f.page \in U => f.page \in S /\ EntryOf(f.page, f.entry)
       /\ next = NoPage => \A p \in S \cap U : Covered(Collected, p)
       /\ next # NoPage => \A p \in S \cap U : ~ Later(next, p) => Covered(Collected, p)
  <2>1. /\ \A f \in found : f.page \in U => f.page \in S /\ EntryOf(f.page, f.entry)
        /\ a \in S => \A p \in S \cap U : ~ Later(a, p) => Covered(found, p)
    BY <1>1 DEF RoutesInv, ReindexInv, Progress, S
  <2> HIDE DEF U
  <2>2. \A f \in Collected : f.page \in U => f.page \in S /\ EntryOf(f.page, f.entry)
    <3>1. \A f \in new : f.page \in S /\ EntryOf(f.page, f.entry)
      BY <1>9, <1>12
    <3> HIDE DEF new
    <3> QED
      BY <1>10, <2>1, <3>1
  <2>3. ASSUME NEW j \in 1..Len(L), j <= end, L[j] \in U PROVE Covered(Collected, L[j])
    <3>1. CASE j > k
      <4>1. j \in (k + 1)..end
        BY <1>5, <1>7, <2>3, <3>1
      <4> QED
        BY <1>17, <4>1 DEF I
    <3>2. CASE j <= k
      <4>1. k # 0 /\ k \in 1..Len(L) /\ ~ (k < j)
        BY <1>5, <1>7, <3>2
      <4>2. a \in S /\ a = L[k] /\ a # NoPage
        BY <1>3, <1>6, <4>1 DEF S
      <4>3. ~ Later(a, L[j]) /\ L[j] \in S
        BY <1>5, <4>1, <4>2
      <4> QED
        BY <1>18, <2>1, <2>3, <4>2, <4>3
    <3> QED
      BY <1>5, <1>7, <3>1, <3>2
  <2>4. ASSUME next = NoPage, NEW p \in S \cap U PROVE Covered(Collected, p)
    <3>1. PICK j \in 1..Len(L) : L[j] = p
      BY <1>5
    <3>2. end = Len(L)
      BY <1>14, <2>4 DEF PageEnd
    <3>3. j <= end
      BY <1>5, <3>1, <3>2
    <3> QED
      BY <2>3, <3>1, <3>3
  <2>5. ASSUME next # NoPage
        PROVE  \A p \in S \cap U : ~ Later(next, p) => Covered(Collected, p)
    <3>1. k + BatchSize < Len(L) /\ end = k + BatchSize /\ end \in 1..Len(L)
      BY <1>2, <1>5, <1>7, <1>14, <2>5 DEF PageEnd
    <3>2. next = L[end]
      BY <1>11, <3>1
    <3> HIDE DEF next, end
    <3>4. ASSUME NEW p \in S \cap U, ~ Later(next, p) PROVE Covered(Collected, p)
      <4>1. PICK j \in 1..Len(L) : L[j] = p
        BY <1>5
      <4>2. ~ (end < j)
        BY <1>5, <3>1, <3>2, <3>4, <4>1
      <4>3. j <= end
        BY <1>5, <3>1, <4>2
      <4> QED
        BY <2>3, <4>1, <4>3
    <3> QED
      BY <3>4
  <2> QED
    BY <2>2, <2>4, <2>5
<1> DEFINE got == Collected
           stage == IF next = NoPage THEN "search" ELSE "read"
           none == [i \in Indexes |-> {}]
<1>20. reindex' = [stage |-> stage, after |-> next, found |-> got, touched |-> reindex.touched,
                   cleared |-> none]
  BY <1>1 DEF Reindex
<1>21. none \in [Indexes -> SUBSET Pages]
  OBVIOUS
<1> HIDE DEF got, next, none, U
<1>22. /\ reindex'.stage = stage /\ reindex'.after = next /\ reindex'.found = got
       /\ reindex'.touched = reindex.touched
  BY <1>20
<1>23. reindex' \in ReindexRows
  <2>1. got \in SUBSET [page : Pages, entry : SearchEntries]
    BY <1>15 DEF got
  <2>2. next \in Pages \cup {NoPage}
    BY <1>14 DEF next
  <2> QED
    BY <1>13, <1>20, <1>21, <2>1, <2>2 DEF ReindexRows
<1>24. /\ PublishedPages' = S /\ Stored' = Stored
       /\ \A x, y : Later(x, y)' <=> Later(x, y)
  BY <1>1, <1>2, RecentKept DEF S
<1>25. \A p, entry : EntryOf(p, entry)' <=> EntryOf(p, entry)
  BY <1>1 DEF EntryOf
<1>27. \A p : Later(reindex.after, p)' <=> Later(next, p)
  BY <1>1, <1>22 DEF Later, Place
<1>28. /\ \A f, g \in got : f.page = g.page => f = g
       /\ \A f \in got : f.page \in Stored
       /\ \A f \in got : f.page \in U => f.page \in S /\ EntryOf(f.page, f.entry)
       /\ next = NoPage => \A p \in S \cap U : Covered(got, p)
       /\ next # NoPage => \A p \in S \cap U : ~ Later(next, p) => Covered(got, p)
  BY <1>16, <1>19, <1>26 DEF got
<1>29. Progress'
  BY <1>22, <1>24, <1>25, <1>27, <1>28 DEF Progress, Covered, U
<1> QED
  BY <1>22, <1>23, <1>24, <1>28, <1>29 DEF ReindexInv


(* The DELETE of an index: what it did not see was not there. *)
LEMMA RebuildStep ==
    ASSUME RoutesInv, RebuildSearch \/ RebuildMap
    PROVE  ReindexInv'
<1> DEFINE C(index) == {p \in Pages : index[p] # NoEntry}
<1>1. reindex \in ReindexRows /\ ReindexInv
  BY DEF RoutesInv, ReindexInv
<1>2. PICK i \in Indexes, stage \in {"map", "commit"}, gone \in SUBSET Pages :
         /\ reindex' = [reindex EXCEPT !.stage = stage, !.cleared[i] = gone]
         /\ reindex.stage \notin {"none", "read"}
         /\ stage = "map" => i = "search" /\ gone = C(searchIndex)
         /\ stage = "commit" => i = "map" /\ gone = C(mapIndex) /\ reindex.stage = "map"
  <2>1. CASE RebuildSearch
    <3>1. /\ reindex' = [reindex EXCEPT !.stage = "map", !.cleared["search"] = C(searchIndex)]
          /\ reindex.stage = "search" /\ C(searchIndex) \in SUBSET Pages /\ "search" \in Indexes
      BY <2>1 DEF RebuildSearch, rebuild_all_from, Indexes
    <3> HIDE DEF C
    <3> QED
      BY <3>1
  <2>2. CASE RebuildMap
    <3>1. /\ reindex' = [reindex EXCEPT !.stage = "commit", !.cleared["map"] = C(mapIndex)]
          /\ reindex.stage = "map" /\ C(mapIndex) \in SUBSET Pages /\ "map" \in Indexes
      BY <2>2 DEF RebuildMap, rebuild_all_from, Indexes
    <3> HIDE DEF C
    <3> QED
      BY <3>1
  <2> QED
    BY <2>1, <2>2
<1>3. UNCHANGED <<page, recent, searchIndex, mapIndex>>
  BY DEF RebuildSearch, RebuildMap, pageVars
<1> HIDE DEF C
<1>4. PICK old : old = reindex.cleared
  OBVIOUS
<1>5. old \in [Indexes -> SUBSET Pages]
  BY <1>1, <1>4 DEF ReindexRows
<1>6. /\ reindex' \in ReindexRows /\ reindex'.stage = stage /\ reindex'.found = reindex.found
      /\ reindex'.touched = reindex.touched /\ reindex'.cleared = [old EXCEPT ![i] = gone]
  <2>1. [old EXCEPT ![i] = gone] \in [Indexes -> SUBSET Pages]
    BY <1>5
  <2>2. reindex' = [reindex EXCEPT !.stage = stage, !.cleared = [old EXCEPT ![i] = gone]]
    BY <1>1, <1>2, <1>4 DEF ReindexRows
  <2> QED
    BY <1>1, <2>1, <2>2 DEF ReindexRows
<1>7. /\ PublishedPages' = PublishedPages /\ Stored' = Stored
      /\ \A p, entry : EntryOf(p, entry)' <=> EntryOf(p, entry)
  BY <1>3 DEF PublishedPages, PagesIn, Stored, EntryOf
<1>8. Progress
  BY <1>1, <1>2 DEF ReindexInv
<1>9. ASSUME NEW p \in Pages \ reindex.touched
      PROVE  /\ p \in reindex'.cleared["search"] \/ searchIndex'[p] = NoEntry
             /\ stage = "commit" => p \in reindex'.cleared["map"] \/ mapIndex'[p] = NoEntry
  <2>1. CASE stage = "map"
    <3>1. reindex'.cleared["search"] = C(searchIndex)
      BY <1>2, <1>5, <1>6, <2>1
    <3> QED
      BY <1>3, <2>1, <3>1 DEF C
  <2>2. CASE stage = "commit"
    <3>1. reindex'.cleared["map"] = C(mapIndex) /\ reindex'.cleared["search"] = old["search"]
      BY <1>2, <1>5, <1>6, <2>2 DEF Indexes
    <3>2. p \in old["search"] \/ searchIndex[p] = NoEntry
      BY <1>2, <1>4, <1>8, <2>2 DEF Progress
    <3>3. p \in C(mapIndex) \/ mapIndex[p] = NoEntry
      BY DEF C
    <3> QED
      BY <1>3, <3>1, <3>2, <3>3
  <2> QED
    BY <1>2, <2>1, <2>2
<1>10. Progress'
  <2>1. /\ \A f \in reindex.found : f.page \in Pages \ reindex.touched =>
              f.page \in PublishedPages /\ EntryOf(f.page, f.entry)
        /\ \A p \in PublishedPages \cap (Pages \ reindex.touched) : Covered(reindex.found, p)
    BY <1>2, <1>8 DEF Progress
  <2> QED
    BY <1>2, <1>6, <1>7, <1>9, <2>1 DEF Progress, Covered
<1> QED
  BY <1>1, <1>6, <1>7, <1>10 DEF ReindexInv

(* The indexes hold what the reindex has found, but for the touched pages. *)
LEMMA CommitReindexStep ==
    ASSUME RoutesInv, CommitReindex
    PROVE  IndexInv' /\ ReindexInv'
<1> DEFINE found == reindex.found
           S == PublishedPages
           T == reindex.touched
           cleared == reindex.cleared
<1>1. /\ reindex.stage = "commit" /\ searchIndex' = Rewrite("search", searchIndex)
      /\ mapIndex' = Rewrite("map", mapIndex) /\ adrift' = T
      /\ reindex' = NoReindex /\ page' = page
  BY DEF CommitReindex, pageVars
<1>2. /\ \A f, g \in found : f.page = g.page => f = g
      /\ \A f \in found : f.page \in Stored
      /\ found \in SUBSET [page : Pages, entry : SearchEntries] /\ T \in SUBSET Pages
  BY DEF RoutesInv, ReindexInv, ReindexRows
<1>3. /\ \A f \in found : f.page \in Pages \ T => f.page \in S /\ EntryOf(f.page, f.entry)
      /\ \A p \in S \cap (Pages \ T) : Covered(found, p)
      /\ \A p \in Pages \ T : p \in cleared["search"] \/ searchIndex[p] = NoEntry
      /\ \A p \in Pages \ T : p \in cleared["map"] \/ mapIndex[p] = NoEntry
  BY <1>1 DEF RoutesInv, ReindexInv, Progress
<1>4. /\ searchIndex \in [Pages -> SearchEntries \cup {NoEntry}]
      /\ mapIndex \in [Pages -> SearchEntries \cup {NoEntry}]
      /\ \A p \in Pages : p \in Stored \/ (searchIndex[p] = NoEntry /\ mapIndex[p] = NoEntry)
  BY DEF RoutesInv, IndexInv
<1>5. /\ searchIndex' = [p \in Pages |->
             IF \E f \in found : f.page = p THEN (CHOOSE f \in found : f.page = p).entry
             ELSE IF p \in cleared["search"] THEN NoEntry ELSE searchIndex[p]]
      /\ mapIndex' = [p \in Pages |->
             IF \E f \in Located(found) : f.page = p
             THEN (CHOOSE f \in Located(found) : f.page = p).entry
             ELSE IF p \in cleared["map"] THEN NoEntry ELSE mapIndex[p]]
  BY <1>1 DEF Rewrite, FoundFor
<1>6. PublishedPages' = S /\ Stored' = Stored
  BY <1>1 DEF PublishedPages, PagesIn, Stored
<1> HIDE DEF found, T, cleared
<1>7. ASSUME NEW f \in found, NEW p \in Pages, f.page = p
      PROVE  /\ searchIndex'[p] = f.entry
             /\ mapIndex'[p] = IF HasCoords(f.entry.facts) THEN f.entry
                               ELSE IF p \in cleared["map"] THEN NoEntry ELSE mapIndex[p]
  <2>1. (CHOOSE g \in found : g.page = p) = f
    BY <1>2, <1>7
  <2>2. searchIndex'[p] = f.entry
    BY <1>5, <1>7, <2>1
  <2>3. CASE HasCoords(f.entry.facts)
    <3>1. f \in Located(found) /\ \A g \in Located(found) : g.page = p => g = f
      BY <1>2, <1>7, <2>3 DEF Located
    <3>2. (CHOOSE g \in Located(found) : g.page = p) = f
      BY <1>7, <3>1
    <3> QED
      BY <1>5, <1>7, <2>2, <2>3, <3>1, <3>2
  <2>4. CASE ~ HasCoords(f.entry.facts)
    <3>1. ~ \E g \in Located(found) : g.page = p
      BY <1>2, <1>7, <2>4 DEF Located
    <3> QED
      BY <1>5, <2>2, <2>4, <3>1
  <2> QED
    BY <2>3, <2>4
<1>8. ASSUME NEW p \in Pages, ~ Covered(found, p)
      PROVE  /\ searchIndex'[p] = IF p \in cleared["search"] THEN NoEntry ELSE searchIndex[p]
             /\ mapIndex'[p] = IF p \in cleared["map"] THEN NoEntry ELSE mapIndex[p]
  BY <1>5, <1>8 DEF Covered, Located
<1>9. ASSUME NEW p \in Pages
      PROVE  /\ searchIndex'[p] \in SearchEntries \cup {NoEntry}
             /\ mapIndex'[p] \in SearchEntries \cup {NoEntry}
             /\ p \in Stored \/ (searchIndex'[p] = NoEntry /\ mapIndex'[p] = NoEntry)
  <2>1. CASE Covered(found, p)
    <3>1. PICK f \in found : f.page = p
      BY <2>1 DEF Covered
    <3>2. f.entry \in SearchEntries /\ p \in Stored
      BY <1>2, <3>1
    <3>3. mapIndex[p] \in SearchEntries \cup {NoEntry}
      BY <1>4
    <3> QED
      BY <1>7, <3>1, <3>2, <3>3
  <2>2. CASE ~ Covered(found, p)
    BY <1>4, <1>8, <2>2
  <2> QED
    BY <2>1, <2>2
<1>10. /\ searchIndex' \in [Pages -> SearchEntries \cup {NoEntry}]
       /\ mapIndex' \in [Pages -> SearchEntries \cup {NoEntry}]
  <2>1. searchIndex' = [p \in Pages |-> searchIndex'[p]] /\ mapIndex' = [p \in Pages |-> mapIndex'[p]]
    BY <1>5
  <2> QED
    BY <1>9, <2>1
<1>11. ASSUME NEW p \in Pages \ T PROVE RowsRight(p)'
  <2>1. CASE p \in S
    <3>1. PICK f \in found : f.page = p
      BY <1>3, <2>1 DEF Covered
    <3>2. EntryOf(p, f.entry)
      BY <1>3, <3>1
    <3>3. searchIndex'[p] = f.entry /\ mapIndex'[p] = IF HasCoords(f.entry.facts) THEN f.entry ELSE NoEntry
      BY <1>3, <1>7, <3>1
    <3> QED
      BY <1>1, <1>6, <2>1, <3>2, <3>3 DEF RowsRight, EntryOf, HasCoords
  <2>2. CASE p \notin S
    <3>1. ~ Covered(found, p)
      BY <1>3, <2>2 DEF Covered
    <3>2. searchIndex'[p] = NoEntry /\ mapIndex'[p] = NoEntry
      BY <1>3, <1>8, <3>1
    <3> QED
      BY <1>6, <2>2, <3>2 DEF RowsRight
  <2> QED
    BY <2>1, <2>2
<1>12. IndexInv'
  BY <1>1, <1>2, <1>6, <1>9, <1>10, <1>11 DEF IndexInv
<1>13. ReindexInv'
  BY <1>1 DEF ReindexInv, NoReindex, Reindex, ReindexRows
<1> QED
  BY <1>12, <1>13

LEMMA RoutesInit == Init => RoutesInv
BY InitInv, RecentInit, EvidenceInit, IndexInit DEF RoutesInv

LEMMA RoutesStep == RoutesInv /\ [Next]_vars => RoutesInv'
<1> SUFFICES ASSUME RoutesInv, [Next]_vars PROVE RoutesInv'
  OBVIOUS
<1>0. IInv' /\ IInv /\ RowsTyped /\ RecentInv /\ EvidenceInv /\ IndexInv /\ ReindexInv
  BY StepInv DEF RoutesInv, IInv
<1> SUFFICES RecentInv' /\ EvidenceInv' /\ IndexInv' /\ ReindexInv'
  BY <1>0 DEF RoutesInv
<1>1. ASSUME NEW p \in Pages, NEW role \in Role, NEW event \in Events, NEW slug \in Slugs, NEW text \in Texts,
             CreatePublicEventPage(p, role, event, slug, text)
      PROVE  RecentInv' /\ EvidenceInv' /\ IndexInv' /\ ReindexInv'
  <2> DEFINE row == [event |-> event, slug |-> slug, text |-> text, status |-> "DRAFT",
                     version |-> 1, firstPublished |-> 0, lastPublished |-> 0]
  <2>1. row \in PageRows /\ row.status # "PUBLISHED"
    BY PublicationAssumption DEF PublicationAssumption, PageRows, PublicationStatus
  <2>2. add(p, row) /\ UNCHANGED <<facts, mergedInto, searchIndex, mapIndex, reindex, adrift>>
    BY <1>1 DEF CreatePublicEventPage, eventVars, indexVars
  <2> HIDE DEF row
  <2>3. page[p] = NoPage /\ page' = [page EXCEPT ![p] = row] /\ recent' = Touch(p)
    BY <2>2 DEF add
  <2>4. p \notin PublishedPages
    BY <2>3 DEF PublishedPages, PagesIn, Stored
  <2>5. Quiet /\ RecentInv'
    BY <1>0, <2>1, <2>3, <2>4, QuietWrite
  <2> QED
    BY <1>0, <2>2, <2>5, QuietIndex, QuietReindex, EvidenceKept
<1>2. ASSUME UNCHANGED <<pageVars, eventVars, indexVars>>
      PROVE  RecentInv' /\ EvidenceInv' /\ IndexInv' /\ ReindexInv'
  <2>1. UNCHANGED <<page, recent, facts, mergedInto, searchIndex, mapIndex, reindex, adrift>>
    BY <1>2 DEF pageVars, eventVars, indexVars
  <2>2. Quiet /\ RecentInv'
    BY <1>0, <2>1, NothingWritten
  <2> QED
    BY <1>0, <2>1, <2>2, QuietIndex, QuietReindex, EvidenceKept
<1>3. ASSUME NEW e \in Editors, NEW p \in Stored, NEW role \in Role, NEW v \in ShownVersions(p),
             \/ \E slug \in Slugs, text \in Texts : UpdatePublicEventPage(e, p, role, v, slug, text)
             \/ \E op \in Transitions : TransitionUseCase(e, p, role, op, v)
      PROVE  RecentInv' /\ EvidenceInv' /\ IndexInv' /\ ReindexInv'
  BY <1>2, <1>3 DEF UpdatePublicEventPage, TransitionUseCase, Begin
<1>4. ASSUME NEW e \in Editors, Commit(e)
      PROVE  RecentInv' /\ EvidenceInv' /\ IndexInv' /\ ReindexInv'
  <2>1. UNCHANGED <<facts, mergedInto>>
    BY <1>4 DEF Commit, eventVars
  <2> QED
    BY <1>0, <1>4, <2>1, CommitRoutes, EvidenceKept
<1>5. ASSUME NEW e \in Editors, Refuse(e)
      PROVE  RecentInv' /\ EvidenceInv' /\ IndexInv' /\ ReindexInv'
  BY <1>2, <1>5 DEF Refuse
<1>6. ASSUME StartReindex \/ AbandonReindex
      PROVE  RecentInv' /\ EvidenceInv' /\ IndexInv' /\ ReindexInv'
  <2>1. UNCHANGED <<page, recent, facts, mergedInto, searchIndex, mapIndex, adrift>>
    BY <1>6 DEF StartReindex, AbandonReindex, pageVars, eventVars
  <2>2. reindex' \in {Reindex("read", NoPage, {}, {}), NoReindex}
    BY <1>6 DEF StartReindex, AbandonReindex
  <2>3. PICK stage \in {"none", "read"} :
           reindex' = [stage |-> stage, after |-> NoPage, found |-> {}, touched |-> {},
                       cleared |-> [i \in Indexes |-> {}]]
    BY <2>2 DEF NoReindex, Reindex
  <2>5. NoPage \notin PublishedPages'
    BY PublicationAssumption DEF PublicationAssumption, PublishedPages, PagesIn, Stored
  <2>4. ReindexInv'
    BY <2>3, <2>5 DEF ReindexInv, ReindexRows, Progress
  <2> QED
    BY <1>0, <2>1, <2>4, NothingWritten, QuietIndex, EvidenceKept
<1>7. ASSUME NextBatch PROVE RecentInv' /\ EvidenceInv' /\ IndexInv' /\ ReindexInv'
  <2>1. UNCHANGED <<page, recent, facts, mergedInto, searchIndex, mapIndex, adrift>>
    BY <1>7 DEF NextBatch, pageVars, eventVars
  <2>2. ReindexInv'
    BY <1>7, BatchStep
  <2> QED
    BY <1>0, <2>1, <2>2, NothingWritten, QuietIndex, EvidenceKept
<1>8. ASSUME RebuildSearch \/ RebuildMap
      PROVE  RecentInv' /\ EvidenceInv' /\ IndexInv' /\ ReindexInv'
  <2>1. UNCHANGED <<page, recent, facts, mergedInto, searchIndex, mapIndex, adrift>>
    BY <1>8 DEF RebuildSearch, RebuildMap, pageVars, eventVars
  <2>2. ReindexInv'
    BY <1>8, RebuildStep
  <2> QED
    BY <1>0, <2>1, <2>2, NothingWritten, QuietIndex, EvidenceKept
<1>12. ASSUME CommitReindex PROVE RecentInv' /\ EvidenceInv' /\ IndexInv' /\ ReindexInv'
  <2>1. UNCHANGED <<page, recent, facts, mergedInto>>
    BY <1>12 DEF CommitReindex, pageVars, eventVars
  <2> QED
    BY <1>0, <1>12, <2>1, NothingWritten, EvidenceKept, CommitReindexStep
<1>13. ASSUME NEW e \in Editors, Wait(e)
       PROVE  RecentInv' /\ EvidenceInv' /\ IndexInv' /\ ReindexInv'
  BY <1>2, <1>13 DEF Wait
<1>9. ASSUME NEW e \in Events, NEW fact \in Facts, ReProjectEvent(e, fact)
      PROVE  RecentInv' /\ EvidenceInv' /\ IndexInv' /\ ReindexInv'
  <2>1. UNCHANGED <<page, recent, searchIndex, mapIndex, reindex, adrift>>
    BY <1>9 DEF ReProjectEvent, pageVars, indexVars
  <2>2. Quiet /\ RecentInv' /\ EvidenceInv'
    BY <1>0, <1>9, <2>1, NothingWritten, ProjectStep
  <2> QED
    BY <1>0, <2>1, <2>2, QuietIndex, QuietReindex
<1>10. ASSUME NEW s \in Events, NEW t \in Events, MergeDuplicateEvents(s, t)
       PROVE  RecentInv' /\ EvidenceInv' /\ IndexInv' /\ ReindexInv'
  <2>1. UNCHANGED <<page, recent, searchIndex, mapIndex, reindex, adrift>>
    BY <1>10 DEF MergeDuplicateEvents, pageVars, indexVars
  <2>2. Quiet /\ RecentInv' /\ EvidenceInv'
    BY <1>0, <1>10, <2>1, NothingWritten, MergeStep
  <2> QED
    BY <1>0, <2>1, <2>2, QuietIndex, QuietReindex
<1>11. ASSUME UNCHANGED vars PROVE RecentInv' /\ EvidenceInv' /\ IndexInv' /\ ReindexInv'
  BY <1>2, <1>11 DEF vars
<1> QED
  BY <1>1, <1>3, <1>4, <1>5, <1>6, <1>7, <1>8, <1>9, <1>10, <1>11, <1>12, <1>13 DEF Next

THEOREM RoutesInvariance == Spec => []RoutesInv
BY RoutesInit, RoutesStep, PTL DEF Spec

--------------------------------------------------------------------------------
(* What a page of a list holds. *)
LEMMA PageItems ==
    ASSUME NEW S, NEW L \in Seq(S), NEW limit \in Nat \ {0}, NoPage \notin S
    PROVE  LET got == PageAt(L, limit, 0)
           IN /\ Range(got.items) \subseteq S
              /\ Len(got.items) = IF got.next # NoPage THEN limit ELSE Len(L)
<1> DEFINE end == PageEnd(L, limit, 0)
           s == SubSeq(L, 0 + 1, end)
           next == IF 0 + limit < Len(L) THEN L[0 + limit] ELSE NoPage
<1>1. PageAt(L, limit, 0) = [items |-> s, next |-> next]
  BY DEF PageAt
<1>2. end \in 0..Len(L) /\ end \in Nat /\ Len(L) \in Nat
  BY DEF PageEnd
<1>3. end = IF limit < Len(L) THEN limit ELSE Len(L)
  BY DEF PageEnd
<1>4. next # NoPage <=> limit < Len(L)
  <2>1. limit < Len(L) => L[0 + limit] \in S /\ 0 + limit < Len(L)
    BY <1>2
  <2> QED
    BY <1>2, <2>1
<1> HIDE DEF end
<1>5. s \in Seq(S) /\ Len(s) = end
  BY <1>2
<1> HIDE DEF s, next
<1>6. Range(s) \subseteq S
  BY <1>5 DEF Range
<1> DEFINE got == PageAt(L, limit, 0)
<1>7. got.items = s /\ got.next = next
  BY <1>1
<1> HIDE DEF got
<1>8. Len(got.items) = IF got.next # NoPage THEN limit ELSE Len(L)
  BY <1>3, <1>4, <1>5, <1>7
<1>9. Range(got.items) \subseteq S
  BY <1>6, <1>7
<1> QED
  BY <1>8, <1>9 DEF got

LEMMA RangeOfPublished == ASSUME RecentInv PROVE Range(Published) = PublishedPages
<1> DEFINE L == Published
<1>1. /\ L \in Seq(PublishedPages) /\ \A i \in 1..Len(L) : L[i] \in PublishedPages
      /\ \A p \in PublishedPages : \E i \in 1..Len(L) : L[i] = p
  BY PublishedList
<1>2. DOMAIN L = 1..Len(L)
  BY <1>1
<1> HIDE DEF L
<1>3. Range(L) = PublishedPages
  BY <1>1, <1>2 DEF Range
<1> QED
  BY <1>3 DEF L

(* The page of a published slug is served, from the event that survives, unless *)
(* that event awaits its projection.                                           *)
LEMMA PageIsServed ==
    ASSUME RoutesInv, NEW p \in PublishedPages
    PROVE  GetPublicEventPage(page[p].slug) =
              IF AwaitsProjection(CanonicalEvent(page[p].event)) THEN "not found" ELSE "served"
<1> DEFINE slug == page[p].slug
           event == page[p].event
<1>1. p \in Stored /\ page[p].status = "PUBLISHED"
  BY PublishedPagesAre
<1>2. page[p] \in PageRows /\ event \in Events
  BY <1>1, Typing DEF RoutesInv, IInv, PageRows
<1>3. get_by_slug(slug) = {p}
  BY <1>1 DEF get_by_slug, RoutesInv, IInv, SlugsUnique
<1>4. (CHOOSE q \in get_by_slug(slug) : TRUE) = p /\ get_by_slug(slug) # {}
  BY <1>3
<1>5. VisibilityOf(slug) = "visible"
  BY <1>1, <1>4 DEF VisibilityOf
<1>6. CanonicalEvent(event) \in Events /\ mergedInto[CanonicalEvent(event)] = NoEvent
  BY <1>2, Survives DEF RoutesInv
<1>7. AwaitsProjection(CanonicalEvent(event)) <=> facts[CanonicalEvent(event)] = "none"
  BY <1>6 DEF AwaitsProjection
<1> QED
  BY <1>4, <1>5, <1>7 DEF GetPublicEventPage

(* Related pages are published. *)
LEMMA RelatedArePublished ==
    ASSUME RoutesInv, NEW slug
    PROVE  GetPublicEventRelated(slug) \subseteq PublishedPages
<1>1. CASE VisibilityOf(slug) # "visible"
  BY <1>1 DEF GetPublicEventRelated
<1>2. CASE VisibilityOf(slug) = "visible"
  <2> DEFINE event == CanonicalEvent(page[CHOOSE p \in get_by_slug(slug) : TRUE].event)
             found == {p \in UNION {get_by_event_id(e) : e \in CandidateEvents(event)} :
                          page[p].status = "PUBLISHED"}
             first == FirstOf(found, RelatedLimit, LAMBDA p, q : Before(NoFacet, p, q))
             L == InOrder(found, NoFacet)
  <2>1. GetPublicEventRelated(slug) = Range(first.items)
    BY <1>2 DEF GetPublicEventRelated
  <2>2. found \in SUBSET PublishedPages /\ found \in SUBSET Stored
    <3>1. \A e : get_by_event_id(e) \subseteq Stored
      BY DEF get_by_event_id
    <3> QED
      BY <3>1, PublishedPagesAre
  <2>3. RelatedLimit \in Nat \ {0} /\ RecentInv /\ NoPage \notin found
    BY <2>2, PublishedPagesAre, QueriesAssumption DEF QueriesAssumption, RoutesInv
  <2> HIDE DEF found
  <2>4. first = PageAt(L, RelatedLimit, 0)
    BY <2>2, <2>3, FirstPage
  <2>5. L \in ListsOf(found, BeforeOrder(NoFacet)) /\ IsFiniteSet(found)
    BY <2>2, <2>3, OrderByBefore, StoredIsFinite
  <2>6. Cardinality(found) \in Nat
    BY <2>5, FS_CardinalityType
  <2> HIDE DEF first, L
  <2>7. L \in Seq(found)
    BY <2>5, <2>6 DEF ListsOf
  <2>8. Range(PageAt(L, RelatedLimit, 0).items) \subseteq found
    BY <2>3, <2>7, PageItems
  <2> QED
    BY <2>1, <2>2, <2>4, <2>8
<1> QED
  BY <1>1, <1>2

(* The range of a list of a set. *)
LEMMA ListRange ==
    ASSUME NEW S, IsFiniteSet(S), NEW R, NEW s \in ListsOf(S, R)
    PROVE  Range(s) = S /\ Len(s) = Cardinality(S) /\ Cardinality(S) \in Nat
<1>1. Cardinality(S) \in Nat
  BY FS_CardinalityType
<1>2. /\ s \in [1..Cardinality(S) -> S] /\ \A i, j \in 1..Cardinality(S) : i # j => s[i] # s[j]
  BY DEF ListsOf
<1>3. \A x \in S : \E i \in 1..Cardinality(S) : s[i] = x
  BY <1>2, ListIsOnto
<1>4. Range(s) = S
  BY <1>2, <1>3 DEF Range
<1> QED
  BY <1>1, <1>2, <1>4

LEMMA IndexFacts ==
    ASSUME RoutesInv
    PROVE  /\ \A p \in PublishedPages \ adrift :
                 /\ searchIndex[p] # NoEntry /\ EntryOf(p, searchIndex[p])
                 /\ mapIndex[p] # NoEntry <=> HasCoords(searchIndex[p].facts)
           /\ \A p \in Pages \ adrift : p \in PublishedPages
                                           \/ (searchIndex[p] = NoEntry /\ mapIndex[p] = NoEntry)
           /\ \A p \in Pages : p \in Stored \/ (searchIndex[p] = NoEntry /\ mapIndex[p] = NoEntry)
<1>1. NoEntry \notin SearchEntries
  BY PublicationAssumption DEF PublicationAssumption
<1>2. PublishedPages \in SUBSET Pages
  BY PublishedPagesAre
<1>3. /\ \A p \in Pages \ adrift : RowsRight(p)
      /\ \A p \in Pages : p \in Stored \/ (searchIndex[p] = NoEntry /\ mapIndex[p] = NoEntry)
  BY DEF RoutesInv, IndexInv
<1>4. \A p \in PublishedPages \ adrift : searchIndex[p] # NoEntry
  BY <1>1, <1>2, <1>3 DEF EntryOf, RowsRight
<1> QED
  BY <1>2, <1>3, <1>4 DEF RowsRight

(* The search answers with the published pages it describes. *)
LEMMA SearchIsExact ==
    ASSUME RoutesInv, NEW query, NEW limit \in 1..Cardinality(Pages)
    PROVE  SearchExact(query, limit)
<1> DEFINE S == {p \in PagesIn({"PUBLISHED"}) \ adrift :
                    /\ query.q # Null => page[p].text = query.q
                    /\ _filters_predicate_sql(searchIndex, p, query)}
           H == Hits(query)
           got == SearchOf(query, limit)
<1>1. RecentInv
  BY DEF RoutesInv
<1>2. H \ adrift = S
  <2>1. PagesIn({"PUBLISHED"}) = PublishedPages /\ PublishedPages \in SUBSET Pages
    BY PublishedPagesAre DEF PublishedPages
  <2>2. \A p \in Pages \ adrift : p \in PublishedPages <=> searchIndex[p] # NoEntry
    BY IndexFacts
  <2>3. \A p \in PublishedPages \ adrift : searchIndex[p].text = page[p].text
    BY IndexFacts DEF EntryOf
  <2> QED
    BY <2>1, <2>2, <2>3 DEF Hits, has_text_query
<1>3. H \in SUBSET Stored /\ IsFiniteSet(H)
  <2>1. H \in SUBSET Stored
    BY IndexFacts DEF Hits
  <2> QED
    BY <2>1, StoredIsFinite
<1>4. SearchExact(query, limit) <=>
         /\ Range(got) \ adrift = S
         /\ Len(got) = Cardinality(Range(got))
         /\ query.q = Null /\ adrift = {} => got = OrderBy(S, Later)
  BY DEF SearchExact
<1>5. got = InOrder(H, query)
  BY <1>1, <1>3, SearchIsComplete
<1> HIDE DEF S, H
<1>6. InOrder(H, query) \in ListsOf(H, BeforeOrder(query)) /\ OrderBy(H, Later) \in ListsOf(H, LaterOrder)
  BY <1>1, <1>3, OrderByBefore, OrderByLater
<1> HIDE DEF got
<1>7. Range(got) = H /\ Len(got) = Cardinality(H)
  BY <1>3, <1>5, <1>6, ListRange
<1>8. ASSUME query.q = Null, adrift = {} PROVE got = OrderBy(S, Later)
  <2>0. S = H
    BY <1>2, <1>8
  <2>1. \A x, y \in H : <<x, y>> \in BeforeOrder(query) <=> <<x, y>> \in LaterOrder
    <3>1. \A x, y \in Stored : Before(query, x, y) <=> Later(x, y)
      BY <1>1, <1>8, BeforeIsLater DEF has_text_query
    <3>2. \A x, y \in Stored : <<x, y>> \in LaterOrder <=> Later(x, y)
      BY <1>1, LaterIsTotal
    <3>3. \A x, y \in Stored : <<x, y>> \in BeforeOrder(query) <=> Before(query, x, y)
      BY <1>1, BeforeIsTotal
    <3> QED
      BY <1>3, <3>1, <3>2, <3>3
  <2>2. got \in ListsOf(H, LaterOrder)
    <3>1. got \in ListsOf(H, BeforeOrder(query)) /\ Cardinality(H) \in Nat
      BY <1>3, <1>5, <1>6, FS_CardinalityType
    <3>2. /\ got \in [1..Cardinality(H) -> H]
          /\ \A i, j \in 1..Cardinality(H) : i # j => got[i] # got[j]
          /\ \A i, j \in 1..Cardinality(H) : i < j => <<got[j], got[i]>> \notin BeforeOrder(query)
      BY <3>1 DEF ListsOf
    <3>3. \A i, j \in 1..Cardinality(H) : i < j => <<got[j], got[i]>> \notin LaterOrder
      BY <2>1, <3>2
    <3> QED
      BY <3>2, <3>3 DEF ListsOf
  <2>3. TotalOrder(LaterOrder, H)
    BY <1>1, <1>3, LaterIsTotal, PartOrder
  <2>4. got = OrderBy(H, Later)
    BY <1>3, <1>6, <2>2, <2>3, ListIsUnique DEF TotalOrder
  <2> QED
    BY <2>0, <2>4
<1> QED
  BY <1>2, <1>4, <1>7, <1>8


Pick(T) == CHOOSE x \in T : TRUE

(* A property of the parts of a finite set fails, if at all, for a smallest one. *)
LEMMA SmallestPart ==
    ASSUME NEW S, IsFiniteSet(S), NEW B \in SUBSET SUBSET S, B # {}
    PROVE  \E T \in B : IsFiniteSet(T) /\ \A x \in T : T \ {x} \notin B
<1> DEFINE sizes == {Cardinality(T) : T \in B}
<1>1. \A T \in B : IsFiniteSet(T) /\ Cardinality(T) \in Nat
  BY FS_Subset, FS_CardinalityType
<1>2. sizes \in SUBSET Nat /\ sizes # {}
  BY <1>1
<1>3. PICK n \in sizes : \A m \in sizes : n <= m
  <2> HIDE DEF sizes
  <2> QED
    BY <1>2, LeastNat
<1>4. PICK T \in B : n = Cardinality(T)
  BY <1>3
<1>5. ASSUME NEW x \in T, T \ {x} \in B PROVE FALSE
  <2>1. Cardinality(T \ {x}) = n - 1
    BY <1>1, <1>4, FS_RemoveElement
  <2>2. n <= n - 1 /\ n \in Nat
    BY <1>1, <1>3, <1>4, <1>5, <2>1
  <2> QED
    BY <2>2
<1> QED
  BY <1>1, <1>5

(* The counts of cells that share no point add up to the number of points. *)
LEMMA SumOfCells ==
    ASSUME NEW S, IsFiniteSet(S), NEW P, IsFiniteSet(P),
           \A c \in S : c.points \subseteq P,
           \A c, d \in S : c # d => c.points \cap d.points = {}
    PROVE  MapThenSumSet(LAMBDA c : Cardinality(c.points), S) = Cardinality(UNION {c.points : c \in S})
<1> DEFINE In(T) == UNION {c.points : c \in T}
           Eq(g) == g = [T \in SUBSET S |-> IF T = {} THEN 0
                                            ELSE Cardinality(Pick(T).points) + g[T \ {Pick(T)}]]
           sum == CHOOSE g : Eq(g)
           size == [T \in SUBSET S |-> Cardinality(In(T))]
<1>1. MapThenSumSet(LAMBDA c : Cardinality(c.points), S) = sum[S]
  BY DEF MapThenSumSet, MapThenFoldSet, Pick
<1>2. \A T \in SUBSET S : In(T) \subseteq P /\ IsFiniteSet(In(T)) /\ Cardinality(In(T)) \in Nat
  <2>1. \A T \in SUBSET S : In(T) \subseteq P
    OBVIOUS
  <2> QED
    BY <2>1, FS_Subset, FS_CardinalityType
<1>3. ASSUME NEW T \in SUBSET S, NEW x \in T
      PROVE  Cardinality(In(T)) = Cardinality(x.points) + Cardinality(In(T \ {x}))
  <2> DEFINE U == T \ {x}
  <2>1. In(T) = x.points \cup In(U) /\ x.points \cap In(U) = {}
    BY <1>3
  <2>2. U \in SUBSET S /\ IsFiniteSet(x.points) /\ IsFiniteSet(In(U))
    <3>1. U \in SUBSET S /\ x.points \subseteq P
      OBVIOUS
    <3> QED
      BY <1>2, <3>1, FS_Subset
  <2>3. Cardinality(x.points) \in Nat /\ Cardinality(In(U)) \in Nat /\ Cardinality({}) = 0
    BY <2>2, FS_CardinalityType, FS_EmptySet
  <2> HIDE DEF In, U
  <2>4. Cardinality(x.points \cup In(U)) = Cardinality(x.points) + Cardinality(In(U)) - Cardinality(x.points \cap In(U))
    BY <2>2, FS_Union
  <2>5. Cardinality(x.points \cup In(U)) = Cardinality(x.points) + Cardinality(In(U))
    <3>1. x.points \cap In(U) = {}
      BY <2>1
    <3>2. Cardinality(x.points \cap In(U)) = 0
      BY <3>1, <2>3, Zenon
    <3> DEFINE a == Cardinality(x.points)
               b == Cardinality(In(U))
               c == Cardinality(x.points \cap In(U))
               d == Cardinality(x.points \cup In(U))
    <3>3. a \in Nat /\ b \in Nat /\ c = 0 /\ d = a + b - c
      BY <2>3, <2>4, <3>2
    <3> HIDE DEF a, b, c, d
    <3>4. d = a + b
      BY <3>3
    <3> QED
      BY <3>4 DEF a, b, d
  <2> QED
    BY <2>1, <2>5 DEF U
<1>4. In({}) = {} /\ Cardinality(In({})) = 0
  BY FS_EmptySet
<1>5. \A T : T # {} => Pick(T) \in T
  BY DEF Pick
<1> HIDE DEF In
<1>6. \A T \in SUBSET S : size[T] = IF T = {} THEN 0 ELSE Cardinality(Pick(T).points) + size[T \ {Pick(T)}]
  <2> SUFFICES ASSUME NEW T \in SUBSET S
               PROVE  size[T] = IF T = {} THEN 0 ELSE Cardinality(Pick(T).points) + size[T \ {Pick(T)}]
    OBVIOUS
  <2>1. CASE T = {}
    BY <1>4, <2>1
  <2>2. CASE T # {}
    <3>1. Pick(T) \in T /\ T \ {Pick(T)} \in SUBSET S
      BY <1>5, <2>2
    <3> QED
      BY <1>3, <2>2, <3>1
  <2> QED
    BY <2>1, <2>2
<1>7. size = [T \in SUBSET S |-> size[T]]
  OBVIOUS
<1> HIDE DEF size
<1>8. Eq(size)
  BY <1>6, <1>7
<1>9. Eq(sum)
  <2> HIDE DEF Eq
  <2> QED
    BY <1>8
<1> HIDE DEF sum
<1> DEFINE B == {T \in SUBSET S : sum[T] # size[T]}
<1>10. ASSUME B # {} PROVE FALSE
  <2>1. B \in SUBSET SUBSET S
    OBVIOUS
  <2>2. PICK T \in B : \A x \in T : T \ {x} \notin B
    <3> HIDE DEF B
    <3> QED
      BY <1>10, <2>1, SmallestPart
  <2>3. T \in SUBSET S /\ sum[T] # size[T]
    BY <2>2
  <2>4. sum[T] = IF T = {} THEN 0 ELSE Cardinality(Pick(T).points) + sum[T \ {Pick(T)}]
    BY <1>9, <2>3
  <2>5. size[T] = IF T = {} THEN 0 ELSE Cardinality(Pick(T).points) + size[T \ {Pick(T)}]
    BY <1>6, <2>3
  <2>6. T # {} => sum[T \ {Pick(T)}] = size[T \ {Pick(T)}]
    BY <1>5, <2>2, <2>3
  <2> QED
    BY <2>3, <2>4, <2>5, <2>6
<1>11. S \in SUBSET S
  OBVIOUS
<1>12. sum[S] = size[S]
  BY <1>10, <1>11
<1> QED
  BY <1>1, <1>11, <1>12 DEF size, In

LEMMA QuotientBounds ==
    ASSUME NEW T \in Nat \ {0}, NEW t \in Int
    PROVE  t \div T \in Int /\ (t \div T) * T <= t /\ t < (t \div T + 1) * T
OBVIOUS

(* The two envelopes of the query are the window of the reference. *)
LEMMA WindowIs ==
    ASSUME NEW box, IsBox(box), NEW at, at.lng \in -180..180
    PROVE  /\ _bbox_predicate_sql(box, at) <=> Within(box, at)
           /\ longitude_span(box) \in Nat
           /\ Within(box, at) => ShiftedLng(box, at) - box.west = EastOf(box, at) /\ EastOf(box, at) \in Int
<1> DEFINE w == box.west
           e == box.east
           x == at.lng
           inside == at.lat \in box.south..box.north
<1>1. w \in -180..180 /\ e \in -180..180 /\ x \in -180..180
  BY DEF IsBox
<1>2. _bbox_predicate_sql(box, at) <=>
        /\ inside
        /\ IF w > e THEN x \in w..180 \/ x \in -180..e ELSE x \in w..e
  BY DEF _bbox_predicate_sql, InEnvelope, crosses_antimeridian
<1>3. longitude_span(box) = IF w > e THEN (180 - w) + (e + 180) ELSE e - w
  BY DEF longitude_span, crosses_antimeridian
<1>4. EastOf(box, at) = x - w + (IF x < w THEN 360 ELSE 0)
  BY DEF EastOf
<1>5. Within(box, at) <=> EastOf(box, at) <= longitude_span(box) /\ (x < w => w > e) /\ inside
  BY DEF Within, crosses_antimeridian
<1>6. ShiftedLng(box, at) = IF w > e /\ x < w THEN x + 360 ELSE x
  BY DEF ShiftedLng, crosses_antimeridian
<1> HIDE DEF w, e, x, inside
<1>7. (IF w > e THEN x \in w..180 \/ x \in -180..e ELSE x \in w..e)
        <=> EastOf(box, at) <= longitude_span(box) /\ (x < w => w > e)
  BY <1>1, <1>3, <1>4
<1>8. longitude_span(box) \in Nat
  BY <1>1, <1>3
<1>9. Within(box, at) => ShiftedLng(box, at) - w = EastOf(box, at) /\ EastOf(box, at) \in Int
  BY <1>1, <1>4, <1>5, <1>6
<1> QED
  BY <1>2, <1>5, <1>7, <1>8, <1>9 DEF w


CellsOf(box, points) ==
    {[cell   |-> c,
      points |-> {p \in points : CellOf(box, At(p)) = c}] : c \in {CellOf(box, At(p)) : p \in points}}

(* The clusters that are returned, and all of them unless some were cut. *)
LEMMA ClusterRows ==
    ASSUME NEW box, NEW query, IsFiniteSet(PointsIn(box, query))
    PROVE  LET full == CellsOf(box, PointsIn(box, query))
               got  == cluster_bbox(box, query)
           IN /\ IsFiniteSet(full)
              /\ Range(got.cells) \subseteq full
              /\ ~ got.truncated => Range(got.cells) = full
<1> DEFINE points == PointsIn(box, query)
           full == CellsOf(box, points)
           size(c) == Cardinality(c.points)
           Sorted(s) == \A i, j \in DOMAIN s : i < j => ~ (size(s[j]) > size(s[i]))
           rows == CHOOSE s \in SetToSeqs(full) : Sorted(s)
           got == cluster_bbox(box, query)
<1>1. got = [cells |-> SubSeq(rows, 1, IF Len(rows) > MaxCells THEN MaxCells ELSE Len(rows)),
             truncated |-> Len(rows) > MaxCells]
  BY DEF cluster_bbox, OrderBy, CellsOf
<1> HIDE DEF got
<1>2. MaxCells \in Nat \ {0}
  BY QueriesAssumption DEF QueriesAssumption
<1>3. IsFiniteSet(full)
  <2> DEFINE made == [p \in points |-> [cell |-> CellOf(box, At(p)),
                                        points |-> {q \in points : CellOf(box, At(q)) = CellOf(box, At(p))}]]
  <2>1. made \in Surjection(points, full)
    BY DEF Surjection, CellsOf
  <2> QED
    BY <2>1, FS_Surjection
<1>4. \A c \in full : size(c) \in Nat
  <2> SUFFICES ASSUME NEW c \in full PROVE size(c) \in Nat
    OBVIOUS
  <2>1. c.points \subseteq points
    BY DEF CellsOf
  <2> HIDE DEF points
  <2> QED
    BY <2>1, FS_Subset, FS_CardinalityType DEF points
<1> HIDE DEF points, full, size
<1> DEFINE R == {x \in full \X full : size(x[1]) > size(x[2])}
<1>5. StrictOrder(R, full)
  BY <1>4 DEF StrictOrder
<1>6. \A x, y \in full : <<x, y>> \in R <=> size(x) > size(y)
  OBVIOUS
<1> HIDE DEF R
<1>7. /\ ListsOf(full, R) # {}
      /\ \A s : s \in ListsOf(full, R) <=>
            /\ s \in SetToSeqs(full)
            /\ \A i, j \in DOMAIN s : i < j => <<s[j], s[i]>> \notin R
      /\ \A s \in SetToSeqs(full) : \A i \in DOMAIN s : s[i] \in full
  BY <1>3, <1>5, SortedLists
<1>8. \A s \in SetToSeqs(full) : Sorted(s) <=> s \in ListsOf(full, R)
  BY <1>6, <1>7
<1> HIDE DEF Sorted
<1>9. \E s \in SetToSeqs(full) : Sorted(s)
  BY <1>7, <1>8
<1>10. rows \in SetToSeqs(full) /\ Sorted(rows)
  BY <1>9
<1> HIDE DEF rows
<1>11. rows \in ListsOf(full, R)
  BY <1>8, <1>10
<1>12. Range(rows) = full /\ Len(rows) = Cardinality(full) /\ Cardinality(full) \in Nat
  BY <1>3, <1>11, ListRange
<1>13. rows \in Seq(full)
  BY <1>11, <1>12 DEF ListsOf
<1> DEFINE m == IF Len(rows) > MaxCells THEN MaxCells ELSE Len(rows)
           s == SubSeq(rows, 1, m)
<1>14. m \in 0..Len(rows) /\ Len(rows) \in Nat
  BY <1>2, <1>12
<1> HIDE DEF m
<1>15. s \in Seq(full)
  BY <1>13, <1>14
<1>16. m = Len(rows) => s = rows
  BY <1>13, <1>14
<1> HIDE DEF s
<1>17. got.cells = s /\ got.truncated = (Len(rows) > MaxCells)
  BY <1>1 DEF m, s
<1>18. Range(s) \subseteq full
  BY <1>15 DEF Range
<1>19. ~ (Len(rows) > MaxCells) => s = rows
  BY <1>16 DEF m
<1>20. ~ got.truncated => Range(got.cells) = full
  BY <1>12, <1>17, <1>19
<1>21. Range(got.cells) \subseteq full
  BY <1>17, <1>18
<1> QED
  BY <1>3, <1>20, <1>21 DEF got, full, points

(* The map shows the located pages of the window, as points and as clusters. *)
LEMMA MapIsExact ==
    ASSUME RoutesInv, NEW box \in Boxes
    PROVE  MapExact(box)
<1> DEFINE expected == {p \in Range(Published) \ adrift :
                           HasCoords(searchIndex[p].facts) /\ Within(box, At(p))}
           points == PointsIn(box, NoFacet)
           shown == map_events(box, NoFacet)
           clusters == map_events_cluster(box, NoFacet)
           cells == Range(clusters.cells)
           grouped == UNION {c.points : c \in cells}
           span == longitude_span(box)
<1>1. IsBox(box) /\ MaxPoints \in Nat \ {0} /\ Precision \in Nat \ {0}
  BY QueriesAssumption DEF QueriesAssumption
<1>2. RecentInv /\ RowsTyped
  BY DEF RoutesInv, IInv
<1>3. Range(Published) = PublishedPages /\ PublishedPages \in SUBSET Stored /\ PublishedPages \in SUBSET Pages
  BY <1>2, RangeOfPublished, PublishedPagesAre
<1>4. ASSUME NEW p \in Stored PROVE At(p).lng \in -180..180 /\ At(p).lat \in -90..90
  <2>1. page[p] \in PageRows
    BY <1>2, Typing
  <2>2. page[p].event \in Events
    BY <2>1 DEF PageRows
  <2> QED
    BY <2>2, QueriesAssumption DEF QueriesAssumption, At
<1>5. ASSUME NEW p \in Stored
      PROVE  /\ _bbox_predicate_sql(box, At(p)) <=> Within(box, At(p))
             /\ span \in Nat
             /\ Within(box, At(p)) => ShiftedLng(box, At(p)) - box.west = EastOf(box, At(p)) /\ EastOf(box, At(p)) \in Int
  BY <1>1, <1>4, WindowIs
<1>6. \A p : _filters_predicate_sql(mapIndex, p, NoFacet)
  BY DEF _filters_predicate_sql, NoFacet
<1>7. points \ adrift = expected
  <2>1. \A p \in Pages \ adrift :
           mapIndex[p] # NoEntry <=> p \in PublishedPages /\ HasCoords(searchIndex[p].facts)
    BY <1>3, IndexFacts
  <2> QED
    BY <1>3, <1>5, <1>6, <2>1 DEF PointsIn
<1>8. points \in SUBSET Stored /\ IsFiniteSet(points) /\ NoPage \notin points
  <2>1. points \in SUBSET Stored
    BY IndexFacts DEF PointsIn
  <2>2. NoPage \notin points
    BY <2>1, PublicationAssumption DEF PublicationAssumption, Stored
  <2> QED
    BY <2>1, <2>2, StoredIsFinite
<1>9. Cardinality(points) \in Nat
  BY <1>8, FS_CardinalityType
<1>10. \A p \in points : Within(box, At(p))
  BY <1>5, <1>8 DEF PointsIn
<1> HIDE DEF expected
<1>11. /\ Range(shown.items) \subseteq points
       /\ IF shown.truncated THEN Len(shown.items) = MaxPoints ELSE Range(shown.items) = points
  <2> DEFINE first == FirstOf(points, MaxPoints, LAMBDA p, q : Before(NoFacet, p, q))
             L == InOrder(points, NoFacet)
             page0 == PageAt(L, MaxPoints, 0)
  <2>1. shown = [items |-> first.items, truncated |-> first.next # NoPage]
    BY DEF map_events, SearchMapPoints, search_bbox
  <2>2. first = page0
    BY <1>1, <1>2, <1>8, FirstPage
  <2>3. L \in ListsOf(points, BeforeOrder(NoFacet))
    BY <1>2, <1>8, OrderByBefore
  <2> HIDE DEF first, L, points, shown
  <2>4. Len(L) = Cardinality(points) /\ L \in Seq(points)
    <3>1. L \in [1..Cardinality(points) -> points]
      BY <2>3 DEF ListsOf
    <3> QED
      BY <1>9, <3>1
  <2>5. /\ Range(page0.items) \subseteq points
        /\ Len(page0.items) = IF page0.next # NoPage THEN MaxPoints ELSE Len(L)
    BY <1>1, <1>8, <2>4, PageItems
  <2> HIDE DEF page0
  <2>6. shown.items = page0.items /\ (shown.truncated <=> page0.next # NoPage)
    BY <2>1, <2>2
  <2>7. ASSUME page0.next = NoPage PROVE Range(page0.items) = points
    <3>1. ~ (0 + MaxPoints < Len(L))
      BY <1>1, <1>8, <1>9, <2>4, <2>7 DEF page0, PageAt
    <3>2. PageEnd(L, MaxPoints, 0) = Len(L)
      BY <3>1 DEF PageEnd
    <3>3. page0.items = SubSeq(L, 1, Len(L))
      BY <3>2 DEF page0, PageAt
    <3>4. page0.items = L
      BY <1>9, <2>4, <3>3
    <3> QED
      BY <1>8, <2>3, <3>4, ListRange
  <2> QED
    BY <2>4, <2>5, <2>6, <2>7
<1> DEFINE full == CellsOf(box, points)
<1>12. /\ IsFiniteSet(full) /\ cells \subseteq full /\ (~ clusters.truncated => cells = full)
  <2>1. clusters = cluster_bbox(box, NoFacet)
    BY DEF map_events_cluster, ClusterMapPoints
  <2> HIDE DEF clusters
  <2> QED
    BY <1>8, <2>1, ClusterRows
<1> HIDE DEF points, shown, clusters, cells, grouped
<1>13. /\ grouped \subseteq points
       /\ clusters.truncated \/ points \subseteq grouped
       /\ MapThenSumSet(LAMBDA c : Cardinality(c.points), cells) = Cardinality(grouped)
  <2>1. \A c \in full : c.points \subseteq points
    BY DEF CellsOf
  <2>2. \A c, d \in full : c # d => c.points \cap d.points = {}
    BY DEF CellsOf
  <2>3. points \subseteq UNION {c.points : c \in full}
    <3>1. ASSUME NEW p \in points PROVE \E c \in full : p \in c.points
      <4> DEFINE x == CellOf(box, At(p))
                 c == [cell |-> x, points |-> {q \in points : CellOf(box, At(q)) = x}]
      <4>1. c \in full /\ p \in c.points
        BY DEF CellsOf
      <4> QED
        BY <4>1
    <3> HIDE DEF full
    <3> QED
      BY <3>1
  <2> HIDE DEF full
  <2>4. /\ IsFiniteSet(cells) /\ \A c \in cells : c.points \subseteq points
        /\ \A c, d \in cells : c # d => c.points \cap d.points = {}
    <3>1. IsFiniteSet(cells)
      BY <1>12, FS_Subset
    <3> QED
      BY <1>12, <2>1, <2>2, <3>1
  <2>5. MapThenSumSet(LAMBDA c : Cardinality(c.points), cells) = Cardinality(UNION {c.points : c \in cells})
    BY <1>8, <2>4, SumOfCells
  <2>6. grouped \subseteq points
    BY <2>4 DEF grouped
  <2>7. clusters.truncated \/ points \subseteq grouped
    BY <1>12, <2>3 DEF grouped
  <2> QED
    BY <2>5, <2>6, <2>7 DEF grouped
<1>14. ASSUME span > 0, NEW c \in full, NEW p \in c.points
       PROVE  LET east == EastOf(box, At(p)) * Precision
              IN c.cell.x * span <= east /\ east < (c.cell.x + 1) * span
  <2> DEFINE east == EastOf(box, At(p)) * Precision
  <2>1. p \in points /\ CellOf(box, At(p)) = c.cell
    BY DEF CellsOf
  <2>2. ShiftedLng(box, At(p)) - box.west = EastOf(box, At(p)) /\ EastOf(box, At(p)) \in Int /\ span \in Nat
    BY <1>5, <1>8, <1>10, <2>1
  <2>3. CellOf(box, At(p)).x = ((ShiftedLng(box, At(p)) - box.west) * Precision) \div span
    BY DEF CellOf
  <2>4. c.cell.x = east \div span
    BY <2>1, <2>2, <2>3
  <2>5. east \in Int
    BY <1>1, <2>2
  <2> HIDE DEF east, span
  <2>6. span \in Nat \ {0}
    BY <1>14, <2>2
  <2>7. (east \div span) * span <= east /\ east < (east \div span + 1) * span
    BY <2>5, <2>6, QuotientBounds
  <2> QED
    BY <2>4, <2>7 DEF east
<1>16. MapExact(box) <=>
         /\ Range(shown.items) \ adrift \subseteq expected
         /\ IF shown.truncated THEN Len(shown.items) = MaxPoints
            ELSE expected \subseteq Range(shown.items)
         /\ span > 0 =>
               /\ grouped \ adrift \subseteq expected
               /\ clusters.truncated \/ expected \subseteq grouped
               /\ MapThenSumSet(LAMBDA c : Cardinality(c.points), cells) = Cardinality(grouped)
               /\ \A c \in cells : \A p \in c.points :
                     LET east == EastOf(box, At(p)) * Precision
                     IN c.cell.x * span <= east /\ east < (c.cell.x + 1) * span
  BY DEF MapExact, shown, clusters, cells, grouped, expected
<1> HIDE DEF full
<1>17. /\ Range(shown.items) \ adrift \subseteq expected
       /\ IF shown.truncated THEN Len(shown.items) = MaxPoints
          ELSE expected \subseteq Range(shown.items)
  BY <1>7, <1>11
<1>18. grouped \ adrift \subseteq expected /\ (clusters.truncated \/ expected \subseteq grouped)
  BY <1>7, <1>13
<1> QED
  BY <1>12, <1>13, <1>14, <1>16, <1>17, <1>18

(* Readers see the published pages and nothing else, by whichever route. *)
LEMMA RoutesFollow == RoutesInv => PublicRoutesAgree
<1> SUFFICES ASSUME RoutesInv PROVE PublicRoutesAgree
  OBVIOUS
<1>1. RecentInv /\ Range(Published) = PublishedPages
  BY RangeOfPublished DEF RoutesInv
<1>2. \A limit \in 1..Cardinality(Pages) : ListingOf(limit) = Published
  BY <1>1, ListingIsComplete
<1>3. \A slug \in Slugs : GetPublicEventRelated(slug) \subseteq Range(Published)
  BY <1>1, RelatedArePublished
<1>4. \A p \in Range(Published) :
         GetPublicEventPage(page[p].slug) =
            IF AwaitsProjection(CanonicalEvent(page[p].event)) THEN "not found" ELSE "served"
  BY <1>1, PageIsServed
<1>5. {p \in Pages : searchIndex[p] # NoEntry} \ adrift = PublishedPages \ adrift
  BY IndexFacts, PublishedPagesAre
<1>6. \A p \in PublishedPages \ adrift :
         searchIndex[p].slug = page[p].slug /\ searchIndex[p].text = page[p].text
  BY IndexFacts DEF EntryOf
<1>7. \A query \in Queries, limit \in 1..Cardinality(Pages) : SearchExact(query, limit)
  BY SearchIsExact
<1>8. \A box \in Boxes : MapExact(box)
  BY MapIsExact
<1> QED
  BY <1>1, <1>2, <1>3, <1>4, <1>5, <1>6, <1>7, <1>8 DEF PublicRoutesAgree

(* Readers see the published pages and nothing else, by whichever route; a     *)
(* disturbed reindex spoils at most the pages that changed during it.          *)
THEOREM RoutesAgree == Spec => []PublicRoutesAgree
BY RoutesInvariance, RoutesFollow, PTL
================================================================================
