------------------------------ MODULE RecordsProofs -----------------------------
(* Proofs about the parts of Records, for any number of requests, rows and     *)
(* values.                                                                     *)
EXTENDS Records, TLAPS, FiniteSetTheorems, SequenceTheorems, WellFoundedInduction

--------------------------------------------------------------------------------
(* Cms *)

Statuses == CmsDocs!PublicationStatus

CmsRevisions == [version : Nat, from : Statuses \cup {"NONE"}, to : Statuses]

(* What an edit or a transition makes of a row. *)
Follows(old, new) ==
    /\ new.version = old.version + 1
    /\ IF new.status # old.status /\ new.status = "PUBLISHED"
       THEN /\ new.firstPublished = IF old.firstPublished = 0 THEN new.version ELSE old.firstPublished
            /\ new.lastPublished = new.version
       ELSE new.firstPublished = old.firstPublished /\ new.lastPublished = old.lastPublished

(* A request holds a row computed from the version its caller had seen or a    *)
(* later one; while the document has that version, it is the row that was read.*)
CmsRequest(table, r) ==
    /\ r.doc \in Docs /\ table[r.doc] \in CmsRows
    /\ r.row \in CmsRows
    /\ r.expected \in Nat /\ r.expected < r.row.version
    /\ r.row.version <= table[r.doc].version + 1
    /\ r.row.version = table[r.doc].version + 1 =>
          r.from = table[r.doc].status /\ Follows(table[r.doc], r.row)

PublishedAt(trail) == {trail[i].version : i \in {j \in DOMAIN trail : trail[j].to = "PUBLISHED"}}

(* TransitionTrail of one document; no revision is later than the document. *)
Trails(trail, row) ==
    /\ trail \in Seq(CmsRevisions)
    /\ Len(trail) > 0
    /\ trail[1] = [version |-> 1, from |-> "NONE", to |-> "DRAFT"]
    /\ \A i \in DOMAIN trail : trail[i].version \in 1..row.version
    /\ \A i \in 2..Len(trail) :
          trail[i].from = trail[i - 1].to /\ trail[i].version > trail[i - 1].version
    /\ trail[Len(trail)].to = row.status
    /\ IF PublishedAt(trail) = {} THEN row.firstPublished = 0
       ELSE /\ {row.firstPublished, row.lastPublished} \subseteq PublishedAt(trail)
            /\ \A v \in PublishedAt(trail) : v \in row.firstPublished..row.lastPublished

CmsInv ==
    /\ DOMAIN doc = Docs /\ DOMAIN revisions = Docs /\ DOMAIN request = Callers
    /\ \A d \in Docs : IF doc[d] = NoDoc THEN revisions[d] = <<>>
                       ELSE doc[d] \in CmsRows /\ Trails(revisions[d], doc[d])
    /\ \A e \in Callers : request[e] # Idle => CmsRequest(doc, request[e])

LEMMA TrailDef == CmsInv => CmsDocs!TransitionTrail
<1> SUFFICES ASSUME CmsInv, NEW d \in CmsDocs!Stored
             PROVE  LET trail     == revisions[d]
                        published == {trail[i].version : i \in {j \in DOMAIN trail : trail[j].to = "PUBLISHED"}}
                    IN /\ trail[1] = [version |-> 1, from |-> "NONE", to |-> "DRAFT"]
                       /\ \A i \in 2..Len(trail) :
                             trail[i].from = trail[i - 1].to /\ trail[i].version > trail[i - 1].version
                       /\ trail[Len(trail)].to = doc[d].status
                       /\ trail[Len(trail)].version <= doc[d].version
                       /\ IF published = {} THEN doc[d].firstPublished = 0
                          ELSE /\ {doc[d].firstPublished, doc[d].lastPublished} \subseteq published
                               /\ \A v \in published : v \in doc[d].firstPublished..doc[d].lastPublished
  BY DEF CmsDocs!TransitionTrail
<1>1. Trails(revisions[d], doc[d]) /\ doc[d].version \in Nat
  BY DEF CmsInv, CmsDocs!Stored, CmsRows
<1>2. Len(revisions[d]) \in DOMAIN revisions[d]
  BY <1>1 DEF Trails
<1>3. revisions[d][Len(revisions[d])].version <= doc[d].version
  BY <1>1, <1>2 DEF Trails
<1>4. PublishedAt(revisions[d]) = {revisions[d][i].version :
                                     i \in {j \in DOMAIN revisions[d] : revisions[d][j].to = "PUBLISHED"}}
  BY DEF PublishedAt
<1> QED
  BY <1>1, <1>3, <1>4 DEF Trails

(* A document that was published before has the trail of its publication. *)
LEMMA PublishedBefore ==
    ASSUME NEW x \in Existing
    PROVE  /\ CmsDocs!PublishedRow(x) \in CmsRows
           /\ Trails(CmsDocs!PublishedTrail(x), CmsDocs!PublishedRow(x))
<1> DEFINE row == CmsDocs!PublishedRow(x)
           trail == CmsDocs!PublishedTrail(x)
           path == <<"NONE", "DRAFT", "IN_REVIEW", "APPROVED", "PUBLISHED">>
<1>1. (CHOOSE t \in Texts : TRUE) \in Texts
  BY CmsAssumption
<1>2. row \in CmsRows
  BY <1>1, CmsAssumption DEF CmsRows, CmsDocs!PublishedRow, CmsDocs!PublicationStatus
<1>3. trail = [i \in 1..4 |-> [version |-> i, from |-> path[i], to |-> path[i + 1]]]
  BY DEF CmsDocs!PublishedTrail
<1>4. /\ DOMAIN trail = 1..4 /\ Len(trail) = 4
      /\ trail[1].from = "NONE" /\ trail[1].to = "DRAFT"
      /\ trail[2].from = "DRAFT" /\ trail[2].to = "IN_REVIEW"
      /\ trail[3].from = "IN_REVIEW" /\ trail[3].to = "APPROVED"
      /\ trail[4].from = "APPROVED" /\ trail[4].to = "PUBLISHED"
      /\ \A i \in 1..4 : trail[i].version = i
  BY <1>3
<1>5. trail[1] = [version |-> 1, from |-> "NONE", to |-> "DRAFT"]
  BY <1>3
<1>6. trail \in Seq(CmsRevisions)
  <2>1. \A i \in 1..4 : trail[i] \in CmsRevisions
    BY <1>3 DEF CmsRevisions, Statuses, CmsDocs!PublicationStatus
  <2>2. trail \in [1..4 -> CmsRevisions]
    BY <1>3, <2>1
  <2>3. Seq(CmsRevisions) = UNION {[1..n -> CmsRevisions] : n \in Nat}
    BY SeqDef
  <2> QED
    BY <2>2, <2>3
<1>7. row.version = 4 /\ row.status = "PUBLISHED" /\ row.firstPublished = 4 /\ row.lastPublished = 4
  BY DEF CmsDocs!PublishedRow
<1> HIDE DEF trail, row
<1>8. PublishedAt(trail) = {4}
  BY <1>4 DEF PublishedAt
<1>9. Len(trail) > 0
  BY <1>4
<1>10. \A i \in 2..4 : trail[i].from = trail[i - 1].to /\ trail[i].version > trail[i - 1].version
  BY <1>4
<1> QED
  BY <1>2, <1>4, <1>5, <1>6, <1>7, <1>8, <1>9, <1>10 DEF Trails, row, trail

LEMMA CmsInit == CmsDocs!Init => CmsInv
<1> SUFFICES ASSUME CmsDocs!Init PROVE CmsInv
  OBVIOUS
<1>1. /\ DOMAIN doc = Docs /\ DOMAIN revisions = Docs /\ DOMAIN request = Callers
      /\ \A e \in Callers : request[e] = Idle
  BY DEF CmsDocs!Init
<1>2. ASSUME NEW d \in Docs
      PROVE  \/ doc[d] = NoDoc /\ revisions[d] = <<>>
             \/ \E x \in Existing : /\ doc[d] = CmsDocs!PublishedRow(x)
                                    /\ revisions[d] = CmsDocs!PublishedTrail(x)
  <2>1. /\ doc[d] = CmsDocs!ExistingAt(d, CmsDocs!PublishedRow, NoDoc)
        /\ revisions[d] = CmsDocs!ExistingAt(d, CmsDocs!PublishedTrail, <<>>)
    BY DEF CmsDocs!Init
  <2>2. CASE \E x \in Existing : x.id = d
    <3>1. PICK x \in Existing : x = CHOOSE y \in Existing : y.id = d
      BY <2>2
    <3> QED
      BY <2>1, <2>2, <3>1 DEF CmsDocs!ExistingAt
  <2>3. CASE ~ \E x \in Existing : x.id = d
    BY <2>1, <2>3 DEF CmsDocs!ExistingAt
  <2> QED
    BY <2>2, <2>3
<1>3. ASSUME NEW d \in Docs
      PROVE  IF doc[d] = NoDoc THEN revisions[d] = <<>>
             ELSE doc[d] \in CmsRows /\ Trails(revisions[d], doc[d])
  BY <1>2, PublishedBefore, CmsAssumption
<1> QED
  BY <1>1, <1>3 DEF CmsInv

(* An edit leaves the trail, which goes on explaining the row. *)
LEMMA TrailKept ==
    ASSUME NEW old \in CmsRows, NEW new \in CmsRows, NEW trail, Trails(trail, old),
           Follows(old, new), new.status = old.status
    PROVE  Trails(trail, new)
<1>1. /\ old.version \in Nat /\ new.version = old.version + 1
      /\ new.firstPublished = old.firstPublished /\ new.lastPublished = old.lastPublished
  BY DEF Follows, CmsRows
<1>2. \A i \in DOMAIN trail : trail[i].version \in 1..new.version
  BY <1>1 DEF Trails
<1> QED
  BY <1>1, <1>2 DEF Trails

RevisionOf(row, from) == [version |-> row.version, from |-> from, to |-> row.status]

(* A transition adds one revision. *)
LEMMA TrailGrows ==
    ASSUME NEW old \in CmsRows, NEW new \in CmsRows, NEW trail, Trails(trail, old),
           Follows(old, new), new.status # old.status
    PROVE  Trails(Append(trail, RevisionOf(new, old.status)), new)
<1> DEFINE n == Len(trail)
           longer == Append(trail, RevisionOf(new, old.status))
<1>0. trail \in Seq(CmsRevisions) /\ n \in Nat /\ n >= 1
  BY DEF Trails
<1>1. old.version \in Nat /\ new.version \in Nat /\ new.version = old.version + 1
  BY DEF Follows, CmsRows
<1>2. RevisionOf(new, old.status) \in CmsRevisions
  BY DEF RevisionOf, CmsRevisions, CmsRows, Statuses
<1>3. /\ longer \in Seq(CmsRevisions)
      /\ Len(longer) = n + 1 /\ DOMAIN longer = 1..(n + 1) /\ DOMAIN trail = 1..n
      /\ longer[n + 1] = RevisionOf(new, old.status)
      /\ \A i \in 1..n : longer[i] = trail[i]
  BY <1>0, <1>2
<1>4. /\ longer[n + 1].version = new.version
      /\ longer[n + 1].from = old.status /\ longer[n + 1].to = new.status
  BY <1>3 DEF RevisionOf
<1> HIDE DEF longer
<1>5. \A i \in 1..n : trail[i].version \in 1..old.version
  BY <1>3 DEF Trails
<1>6. \A i \in 1..(n + 1) : longer[i].version \in 1..new.version
  BY <1>0, <1>1, <1>3, <1>4, <1>5
<1>7. \A i \in 2..(n + 1) :
         longer[i].from = longer[i - 1].to /\ longer[i].version > longer[i - 1].version
  <2> SUFFICES ASSUME NEW i \in 2..(n + 1)
               PROVE  longer[i].from = longer[i - 1].to /\ longer[i].version > longer[i - 1].version
    OBVIOUS
  <2>1. CASE i = n + 1
    <3>1. longer[n].to = old.status /\ longer[n].version \in 1..old.version
      BY <1>0, <1>3, <1>5 DEF Trails
    <3> QED
      BY <1>0, <1>1, <1>4, <2>1, <3>1
  <2>2. CASE i \in 2..n
    <3>1. i \in 1..n /\ i - 1 \in 1..n
      BY <1>0, <2>2
    <3> QED
      BY <1>3, <2>2, <3>1 DEF Trails
  <2> QED
    BY <1>0, <2>1, <2>2
<1>8. longer[1] = [version |-> 1, from |-> "NONE", to |-> "DRAFT"]
  BY <1>0, <1>3 DEF Trails
<1>9. PublishedAt(longer) = IF new.status = "PUBLISHED" THEN PublishedAt(trail) \cup {new.version}
                            ELSE PublishedAt(trail)
  BY <1>0, <1>3, <1>4 DEF PublishedAt
<1>10. PublishedAt(trail) \subseteq 1..old.version
  BY <1>3, <1>5 DEF PublishedAt
<1>11. /\ old.firstPublished \in Nat /\ old.lastPublished \in Nat
       /\ PublishedAt(trail) = {} <=> old.firstPublished = 0
  BY <1>1, <1>10 DEF Trails, CmsRows
<1>12. IF PublishedAt(longer) = {} THEN new.firstPublished = 0
       ELSE /\ {new.firstPublished, new.lastPublished} \subseteq PublishedAt(longer)
            /\ \A v \in PublishedAt(longer) : v \in new.firstPublished..new.lastPublished
  <2>1. CASE new.status = "PUBLISHED" /\ old.firstPublished = 0
    <3>1. PublishedAt(longer) = {new.version}
      BY <1>9, <1>11, <2>1
    <3>2. new.firstPublished = new.version /\ new.lastPublished = new.version
      BY <2>1 DEF Follows
    <3> QED
      BY <1>1, <3>1, <3>2
  <2>2. CASE new.status = "PUBLISHED" /\ old.firstPublished # 0
    <3>1. /\ PublishedAt(longer) = PublishedAt(trail) \cup {new.version}
          /\ new.firstPublished = old.firstPublished /\ new.lastPublished = new.version
      BY <1>9, <2>2 DEF Follows
    <3>2. /\ old.firstPublished \in PublishedAt(trail)
          /\ \A v \in PublishedAt(trail) : v \in old.firstPublished..old.lastPublished
      BY <1>11, <2>2 DEF Trails
    <3>3. \A v \in PublishedAt(trail) : v \in new.firstPublished..new.lastPublished
      BY <1>1, <1>10, <1>11, <3>1, <3>2
    <3> QED
      BY <1>1, <1>10, <1>11, <3>1, <3>2, <3>3
  <2>3. CASE new.status # "PUBLISHED"
    BY <1>9, <2>3 DEF Follows, Trails
  <2> QED
    BY <2>1, <2>2, <2>3
<1> QED
  BY <1>0, <1>3, <1>4, <1>6, <1>7, <1>8, <1>12 DEF Trails, longer

LEMMA FirstRevision ==
    ASSUME NEW row \in CmsRows, row.version = 1, row.status = "DRAFT", row.firstPublished = 0
    PROVE  Trails(Append(<<>>, RevisionOf(row, "NONE")), row)
<1> DEFINE trail == Append(<<>>, RevisionOf(row, "NONE"))
<1>1. RevisionOf(row, "NONE") \in CmsRevisions
  BY DEF RevisionOf, CmsRevisions, CmsRows, Statuses
<1>2. /\ trail \in Seq(CmsRevisions) /\ Len(trail) = 1 /\ DOMAIN trail = {1}
      /\ trail[1] = RevisionOf(row, "NONE")
  BY <1>1
<1>3. /\ trail[1] = [version |-> 1, from |-> "NONE", to |-> "DRAFT"]
      /\ trail[1].version = 1 /\ trail[1].to = "DRAFT"
  BY <1>2 DEF RevisionOf
<1> HIDE DEF trail
<1>4. PublishedAt(trail) = {}
  BY <1>2, <1>3 DEF PublishedAt
<1> QED
  BY <1>2, <1>3, <1>4 DEF Trails, trail

(* Requests outlive writes of other requests: versions only grow. *)
LEMMA RequestsStay ==
    ASSUME NEW table, NEW later, NEW r, CmsRequest(table, r),
           \A d \in Docs : table[d] \in CmsRows =>
               \/ later[d] = table[d]
               \/ later[d] \in CmsRows /\ later[d].version = table[d].version + 1
    PROVE  CmsRequest(later, r)
<1>1. table[r.doc].version \in Nat /\ r.row.version \in Nat
  BY DEF CmsRequest, CmsRows
<1> QED
  BY <1>1 DEF CmsRequest

LEMMA EditFollows ==
    ASSUME NEW old \in CmsRows, NEW place \in Places \cup {0}, NEW text \in Texts
    PROVE  /\ CmsDocs!Edited(old, place, text) \in CmsRows
           /\ Follows(old, CmsDocs!Edited(old, place, text))
<1> DEFINE next == old.version + 1
           new == CmsDocs!Edited(old, place, text)
<1>1. next \in Nat
  BY DEF CmsRows
<1>2. new = [old EXCEPT !.place = place, !.text = text, !.version = next]
  BY DEF CmsDocs!Edited, CmsRows
<1> HIDE DEF next, new
<1>3. /\ new \in CmsRows /\ new.version = next /\ new.status = old.status
      /\ new.firstPublished = old.firstPublished /\ new.lastPublished = old.lastPublished
  BY <1>1, <1>2 DEF CmsRows
<1> QED
  BY <1>3 DEF Follows, next, new

LEMMA TransitionFollows ==
    ASSUME NEW old \in CmsRows, NEW op \in CmsDocs!Transitions,
           CmsDocs!validate_transition(old.status, CmsDocs!TargetOf(op))
    PROVE  /\ CmsDocs!Mutation(op, old) \in CmsRows
           /\ Follows(old, CmsDocs!Mutation(op, old))
<1> DEFINE next == old.version + 1
           to == CmsDocs!TargetOf(op)
           new == CmsDocs!Mutation(op, old)
<1>1. /\ to \in CmsDocs!PublicationStatus
      /\ op = "publish" <=> to = "PUBLISHED"
      /\ op = "retract" => to = "RETRACTED"
  BY DEF CmsDocs!Transitions, CmsDocs!TargetOf, CmsDocs!PublicationStatus
<1>2. to # old.status
  <2>1. \A s, t \in CmsDocs!PublicationStatus : CmsDocs!validate_transition(s, t) => t # s
    BY DEF CmsDocs!validate_transition, CmsDocs!allowed_next_states, CmsDocs!ALLOWED_TRANSITIONS,
           CmsDocs!PublicationStatus
  <2> QED
    BY <1>1, <2>1 DEF CmsRows
<1>3. next \in Nat
  BY DEF CmsRows
<1>4. CASE op = "publish"
  <2> DEFINE first == IF old.firstPublished = 0 THEN next ELSE old.firstPublished
  <2>1. new = [old EXCEPT !.status = "PUBLISHED", !.version = next,
                          !.firstPublished = first, !.lastPublished = next]
    BY <1>4 DEF CmsDocs!Mutation, CmsDocs!PublishMutation, CmsDocs!StatusMutation, CmsRows
  <2>2. first \in Nat /\ "PUBLISHED" \in CmsDocs!PublicationStatus
    BY <1>3 DEF CmsRows, CmsDocs!PublicationStatus
  <2> HIDE DEF next, new, first
  <2>3. /\ new \in CmsRows /\ new.version = next /\ new.status = "PUBLISHED"
        /\ new.firstPublished = first /\ new.lastPublished = next
    BY <1>3, <2>1, <2>2 DEF CmsRows
  <2> QED
    BY <1>1, <1>2, <1>4, <2>3 DEF Follows, next, new, first
<1>5. CASE op # "publish"
  <2>1. new = [old EXCEPT !.status = to, !.version = next]
    BY <1>1, <1>5 DEF CmsDocs!Mutation, CmsDocs!RetractMutation, CmsDocs!StatusMutation, CmsRows
  <2> HIDE DEF next, new, to
  <2>2. /\ new \in CmsRows /\ new.version = next /\ new.status = to
        /\ new.firstPublished = old.firstPublished /\ new.lastPublished = old.lastPublished
    BY <1>1, <1>3, <2>1 DEF CmsRows
  <2> QED
    BY <1>1, <1>5, <2>2 DEF Follows, next, new
<1> QED
  BY <1>4, <1>5

LEMMA CmsCreate ==
    ASSUME CmsInv, NEW d \in Docs, NEW key \in Keys, NEW place \in Places \cup {0},
           NEW text \in Texts, CmsDocs!Create(d, key, place, text)
    PROVE  CmsInv'
<1> DEFINE row == [key |-> key, place |-> place, text |-> text, status |-> "DRAFT",
                   version |-> 1, firstPublished |-> 0, lastPublished |-> 0]
<1>1. /\ doc[d] = NoDoc
      /\ doc' = [doc EXCEPT ![d] = row]
      /\ revisions' = [revisions EXCEPT ![d] = Append(@, RevisionOf(row, "NONE"))]
      /\ request' = request
  BY DEF CmsDocs!Create, CmsDocs!add, CmsDocs!add_revision, RevisionOf
<1>2. row \in CmsRows /\ row.version = 1 /\ row.status = "DRAFT" /\ row.firstPublished = 0
  BY DEF CmsRows, CmsDocs!PublicationStatus
<1> HIDE DEF row
<1>3. revisions[d] = <<>>
  BY <1>1 DEF CmsInv
<1>4. /\ DOMAIN doc' = Docs /\ DOMAIN revisions' = Docs
      /\ doc'[d] = row /\ revisions'[d] = Append(<<>>, RevisionOf(row, "NONE"))
      /\ \A c \in Docs \ {d} : doc'[c] = doc[c] /\ revisions'[c] = revisions[c]
  BY <1>1, <1>3 DEF CmsInv
<1>5. Trails(revisions'[d], row)
  BY <1>2, <1>4, FirstRevision
<1>6. \A c \in Docs : doc[c] \in CmsRows => doc'[c] = doc[c]
  BY <1>1, <1>4, CmsAssumption
<1>7. \A e \in Callers : request'[e] # Idle => CmsRequest(doc', request'[e])
  <2>1. \A e \in Callers : request'[e] # Idle => CmsRequest(doc, request'[e])
    BY <1>1 DEF CmsInv
  <2> QED
    BY <1>6, <2>1, RequestsStay
<1>8. row # NoDoc
  BY <1>2, CmsAssumption
<1> QED
  BY <1>1, <1>2, <1>4, <1>5, <1>7, <1>8 DEF CmsInv

LEMMA CmsBegin ==
    ASSUME CmsInv, NEW e \in Callers, NEW d \in CmsDocs!Stored, NEW v \in CmsDocs!ShownVersions(d),
           NEW row \in CmsRows, Follows(doc[d], row), CmsDocs!Begin(e, d, v, row)
    PROVE  CmsInv'
<1>1. /\ request' = [request EXCEPT ![e] =
                        [doc |-> d, expected |-> v, from |-> doc[d].status, row |-> row]]
      /\ UNCHANGED <<doc, revisions>>
  BY DEF CmsDocs!Begin
<1>2. d \in Docs /\ doc[d] \in CmsRows
  BY DEF CmsDocs!Stored, CmsInv
<1>3. v \in Nat /\ v <= doc[d].version /\ doc[d].version \in Nat
  BY <1>2 DEF CmsDocs!ShownVersions, CmsRows
<1>4. CmsRequest(doc, [doc |-> d, expected |-> v, from |-> doc[d].status, row |-> row])
  BY <1>2, <1>3 DEF CmsRequest, Follows
<1> QED
  BY <1>1, <1>4 DEF CmsInv

LEMMA CmsCommit ==
    ASSUME CmsInv, NEW e \in Callers, CmsDocs!Commit(e)
    PROVE  CmsInv'
<1> DEFINE r == request[e]
           d == r.doc
<1>1. /\ r # Idle
      /\ doc[d].version = r.expected
      /\ doc' = [doc EXCEPT ![d] = r.row]
      /\ IF r.row.status = r.from THEN UNCHANGED revisions
         ELSE revisions' = [revisions EXCEPT ![d] = Append(@, RevisionOf(r.row, r.from))]
      /\ request' = [request EXCEPT ![e] = Idle]
  BY DEF CmsDocs!Commit, CmsDocs!update, CmsDocs!VersionMatches, CmsDocs!add_revision, RevisionOf
<1>2. CmsRequest(doc, r)
  BY <1>1 DEF CmsInv
<1>3. d \in Docs /\ doc[d] \in CmsRows /\ r.row \in CmsRows /\ doc[d].version \in Nat /\ r.row.version \in Nat
  BY <1>2 DEF CmsRequest, CmsRows
<1>4. r.row.version = doc[d].version + 1 /\ r.from = doc[d].status /\ Follows(doc[d], r.row)
  BY <1>1, <1>2, <1>3 DEF CmsRequest
<1>5. doc[d] # NoDoc /\ r.row # NoDoc
  BY <1>3, CmsAssumption
<1>6. Trails(revisions[d], doc[d])
  BY <1>3, <1>5 DEF CmsInv
<1> HIDE DEF r, d
<1>7. /\ DOMAIN doc' = Docs /\ DOMAIN revisions' = Docs /\ DOMAIN request' = Callers
      /\ doc'[d] = r.row
      /\ \A c \in Docs \ {d} : doc'[c] = doc[c] /\ revisions'[c] = revisions[c]
      /\ \A c \in Callers : request'[c] # Idle => request'[c] = request[c]
  BY <1>1, <1>3 DEF CmsInv
<1>8. Trails(revisions'[d], r.row)
  <2>1. CASE r.row.status = r.from
    BY <1>1, <1>3, <1>4, <1>6, <2>1, TrailKept
  <2>2. CASE r.row.status # r.from
    <3>1. revisions'[d] = Append(revisions[d], RevisionOf(r.row, doc[d].status))
      BY <1>1, <1>3, <1>4, <2>2 DEF CmsInv
    <3> QED
      BY <1>3, <1>4, <1>6, <2>2, <3>1, TrailGrows
  <2> QED
    BY <2>1, <2>2
<1>9. \A c \in Docs : doc[c] \in CmsRows =>
         \/ doc'[c] = doc[c]
         \/ doc'[c] \in CmsRows /\ doc'[c].version = doc[c].version + 1
  BY <1>3, <1>4, <1>7
<1>10. \A c \in Callers : request'[c] # Idle => CmsRequest(doc', request'[c])
  BY <1>7, <1>9, RequestsStay DEF CmsInv
<1> QED
  BY <1>3, <1>5, <1>7, <1>8, <1>10 DEF CmsInv

LEMMA CmsNext ==
    ASSUME CmsInv, CmsDocs!Next
    PROVE  CmsInv'
<1>1. ASSUME NEW role, NEW d \in Docs,
             \/ CmsDocs!create_glossary_term(d, role)
             \/ CmsDocs!create_methodology_page(d, role)
             \/ CmsDocs!create_changelog_entry(d, role)
      PROVE  CmsInv'
  BY <1>1, CmsCreate
  DEF CmsDocs!create_glossary_term, CmsDocs!create_methodology_page, CmsDocs!create_changelog_entry,
      CmsDocs!CreateGlossaryTerm, CmsDocs!CreateMethodologyPage, CmsDocs!CreateChangelogEntry
<1>2. ASSUME NEW role, NEW e \in Callers, NEW d \in CmsDocs!Stored,
             \/ CmsDocs!update_glossary_term(e, d, role)
             \/ CmsDocs!update_methodology_page(e, d, role)
             \/ CmsDocs!update_changelog_entry(e, d, role)
      PROVE  CmsInv'
  <2>1. PICK v \in CmsDocs!ShownVersions(d), place \in Places \cup {0}, text \in Texts :
                CmsDocs!Begin(e, d, v, CmsDocs!Edited(doc[d], place, text))
    BY <1>2
    DEF CmsDocs!update_glossary_term, CmsDocs!update_methodology_page, CmsDocs!update_changelog_entry,
        CmsDocs!UpdateGlossaryTerm, CmsDocs!UpdateMethodologyPage, CmsDocs!UpdateChangelogEntry
  <2>2. doc[d] \in CmsRows
    BY DEF CmsDocs!Stored, CmsInv
  <2> QED
    BY <2>1, <2>2, EditFollows, CmsBegin
<1>3. ASSUME NEW role, NEW e \in Callers, NEW d \in CmsDocs!Stored, NEW op \in CmsDocs!Transitions,
             \/ CmsDocs!transition_glossary(e, d, role, op)
             \/ CmsDocs!transition_methodology(e, d, role, op)
             \/ CmsDocs!transition_changelog(e, d, role, op)
      PROVE  CmsInv'
  <2>1. PICK v \in CmsDocs!ShownVersions(d) :
                /\ CmsDocs!validate_transition(doc[d].status, CmsDocs!TargetOf(op))
                /\ CmsDocs!Begin(e, d, v, CmsDocs!Mutation(op, doc[d]))
    BY <1>3
    DEF CmsDocs!transition_glossary, CmsDocs!transition_methodology, CmsDocs!transition_changelog,
        CmsDocs!Transition, CmsDocs!CmsTransition
  <2>2. doc[d] \in CmsRows
    BY DEF CmsDocs!Stored, CmsInv
  <2> QED
    BY <2>1, <2>2, TransitionFollows, CmsBegin
<1>4. ASSUME NEW e \in Callers, CmsDocs!Refuse(e) PROVE CmsInv'
  BY <1>4 DEF CmsDocs!Refuse, CmsInv
<1> QED
  BY <1>1, <1>2, <1>3, <1>4, CmsCommit DEF CmsDocs!Next

LEMMA CmsStep ==
    ASSUME CmsInv, [Next]_vars
    PROVE  CmsInv'
<1>1. CASE CmsDocs!Next
  BY <1>1, CmsNext
<1>2. CASE UNCHANGED cmsVars
  BY <1>2 DEF cmsVars, CmsInv
<1> QED
  BY <1>1, <1>2 DEF Next, vars

(* Whatever edits, transitions and refusals interleave, the revisions of a     *)
(* document tell how it came to the status it has, and when it was published.  *)
THEOREM TransitionsTrail == Spec => []TransitionTrail
<1>1. Init => CmsInv
  BY CmsInit DEF Init
<1>2. CmsInv => TransitionTrail
  BY TrailDef DEF TransitionTrail
<1> QED
  BY <1>1, <1>2, CmsStep, PTL DEF Spec
--------------------------------------------------------------------------------
(* Lists and recursion *)

LEMMA LeastNat ==
    ASSUME NEW T \in SUBSET Nat, T # {}
    PROVE  \E n \in T : \A m \in T : n <= m
<1>1. PICK n \in T : \A m \in T : ~(<<m, n>> \in OpToRel(<, Nat))
  BY NatLessThanWellFounded, WFMin
<1>2. \A m \in T : ~(m < n)
  BY <1>1 DEF OpToRel
<1> QED
  BY <1>2

(* R does not go round in circles on S. *)
StrictOrder(R, S) ==
    /\ \A x \in S : <<x, x>> \notin R
    /\ \A x, y, z \in S : <<x, y>> \in R /\ <<y, z>> \in R => <<x, z>> \in R

(* A finite set has an element that precedes no other: one with the fewest     *)
(* elements after it.                                                          *)
LEMMA LastElement ==
    ASSUME NEW R, NEW S, IsFiniteSet(S), S # {}, StrictOrder(R, S)
    PROVE  \E m \in S : \A x \in S : <<m, x>> \notin R
<1> DEFINE After(x) == {y \in S : <<x, y>> \in R}
           sizes == {Cardinality(After(x)) : x \in S}
<1>1. \A x \in S : IsFiniteSet(After(x)) /\ Cardinality(After(x)) \in Nat
  BY FS_Subset, FS_CardinalityType
<1>2. sizes \in SUBSET Nat /\ sizes # {}
  BY <1>1
<1>3. PICK n \in sizes : \A m \in sizes : n <= m
  BY <1>2, LeastNat
<1>4. PICK m \in S : n = Cardinality(After(m))
  BY <1>3
<1>5. ASSUME NEW x \in S, <<m, x>> \in R PROVE FALSE
  <2>1. After(x) \subseteq After(m) /\ x \in After(m) /\ x \notin After(x)
    BY <1>5 DEF StrictOrder
  <2>2. Cardinality(After(x)) < Cardinality(After(m))
    <3>1. After(x) # After(m)
      BY <2>1
    <3> HIDE DEF After
    <3>2. Cardinality(After(x)) <= Cardinality(After(m)) /\ Cardinality(After(x)) # Cardinality(After(m))
      BY <1>1, <2>1, <3>1, FS_Subset
    <3> QED
      BY <1>1, <3>2
  <2>3. Cardinality(After(x)) \in sizes
    OBVIOUS
  <2> HIDE DEF sizes, After
  <2> QED
    BY <1>1, <1>3, <1>4, <2>2, <2>3
<1> QED
  BY <1>5

(* The sequences that list S in the order R: each element once, none before    *)
(* one that precedes it.                                                       *)
ListsOf(S, R) ==
    {s \in [1..Cardinality(S) -> S] :
        /\ \A i, j \in 1..Cardinality(S) : i # j => s[i] # s[j]
        /\ \A i, j \in 1..Cardinality(S) : i < j => <<s[j], s[i]>> \notin R}

LEMMA ListExists ==
    ASSUME NEW R, NEW S, IsFiniteSet(S), StrictOrder(R, S)
    PROVE  ListsOf(S, R) # {}
<1> DEFINE bad == {n \in Nat : \E U \in SUBSET S : Cardinality(U) = n /\ ListsOf(U, R) = {}}
<1>1. ASSUME bad # {} PROVE FALSE
  <2>1. PICK n \in bad : \A m \in bad : n <= m
    BY <1>1, LeastNat
  <2>2. PICK U \in SUBSET S : Cardinality(U) = n /\ ListsOf(U, R) = {}
    BY <2>1
  <2>3. IsFiniteSet(U) /\ StrictOrder(R, U)
    BY <2>2, FS_Subset DEF StrictOrder
  <2>4. CASE U = {}
    <3>1. n = 0
      BY <2>2, <2>4, FS_EmptySet
    <3>2. [i \in 1..0 |-> i] \in ListsOf(U, R)
      BY <2>2, <2>4, <3>1 DEF ListsOf
    <3> QED
      BY <2>2, <3>2
  <2>5. CASE U # {}
    <3>1. PICK m \in U : \A x \in U : <<m, x>> \notin R
      BY <2>3, <2>5, LastElement
    <3> DEFINE V == U \ {m}
    <3>2. IsFiniteSet(V) /\ Cardinality(V) = n - 1 /\ n \in Nat /\ n - 1 \in Nat
      <4>1. n \in Nat /\ n # 0
        BY <2>1, <2>2, <2>3, <2>5, FS_EmptySet
      <4>2. IsFiniteSet(V) /\ Cardinality(V) = n - 1
        BY <2>2, <2>3, <3>1, FS_RemoveElement
      <4> QED
        BY <4>1, <4>2
    <3>3. V \in SUBSET S /\ n - 1 \notin bad
      <4>1. n - 1 < n
        BY <3>2
      <4> QED
        BY <2>1, <3>2, <4>1
    <3>4. PICK s \in ListsOf(V, R) : TRUE
      BY <3>2, <3>3
    <3> DEFINE u == [i \in 1..n |-> IF i = n THEN m ELSE s[i]]
    <3>5. /\ \A i \in 1..(n - 1) : u[i] = s[i] /\ s[i] \in U /\ s[i] # m
          /\ u[n] = m
      <4>1. n \in 1..n /\ \A i \in 1..(n - 1) : i \in 1..n /\ i # n
        BY <3>2
      <4>2. \A i \in 1..(n - 1) : s[i] \in V
        BY <3>2, <3>4 DEF ListsOf
      <4> QED
        BY <4>1, <4>2
    <3>6. \A i, j \in 1..(n - 1) : (i # j => s[i] # s[j]) /\ (i < j => <<s[j], s[i]>> \notin R)
      BY <3>2, <3>4 DEF ListsOf
    <3>7. \A i \in 1..n : i = n \/ i \in 1..(n - 1)
      BY <3>2
    <3>8. u \in [1..n -> U]
      BY <3>5, <3>7
    <3> HIDE DEF u, V
    <3>9. \A i, j \in 1..n : i # j => u[i] # u[j]
      BY <3>5, <3>6, <3>7
    <3>10. \A i, j \in 1..n : i < j => <<u[j], u[i]>> \notin R
      <4>1. \A i, j \in 1..n : i < j => i # n
        BY <3>2
      <4> QED
        BY <3>1, <3>5, <3>6, <3>7, <4>1
    <3>11. u \in ListsOf(U, R)
      BY <2>2, <3>8, <3>9, <3>10 DEF ListsOf
    <3> QED
      BY <2>2, <3>11
  <2> QED
    BY <2>4, <2>5
<1>2. Cardinality(S) \in Nat /\ S \in SUBSET S
  BY FS_CardinalityType
<1> QED
  BY <1>1, <1>2

(* A list has every element: as many places as there are elements. *)
LEMMA ListIsOnto ==
    ASSUME NEW S, IsFiniteSet(S), NEW s \in [1..Cardinality(S) -> S],
           \A i, j \in 1..Cardinality(S) : i # j => s[i] # s[j]
    PROVE  \A x \in S : \E i \in 1..Cardinality(S) : s[i] = x
<1> DEFINE n == Cardinality(S)
           T == {s[i] : i \in 1..n}
<1>1. n \in Nat
  BY FS_CardinalityType
<1>2. s \in Bijection(1..n, T)
  BY DEF Bijection, Injection, Surjection, IsInjective
<1>3. Cardinality(T) = n
  BY <1>1, <1>2, FS_CountingElements DEF ExistsBijection
<1>4. T \subseteq S
  OBVIOUS
<1>5. T = S
  BY <1>3, <1>4, FS_Subset
<1> QED
  BY <1>5

(* A function by recursion on the naturals up to N, with a step G. *)
Recursive(f, N, b, G) == f[0] = b /\ \A n \in 1..N : f[n] = G[<<n, f[n - 1]>>]

LEMMA Recursion ==
    ASSUME NEW N \in Nat, NEW V, NEW b \in V, NEW G \in [(1..N) \X V -> V]
    PROVE  \E f \in [0..N -> V] : Recursive(f, N, b, G)
<1> DEFINE Upto(k, f) == f[0] = b /\ \A n \in 1..k : f[n] = G[<<n, f[n - 1]>>]
           bad == {k \in 0..N : ~ \E f \in [0..k -> V] : Upto(k, f)}
<1>1. ASSUME bad # {} PROVE FALSE
  <2>0. bad \in SUBSET Nat
    OBVIOUS
  <2>1. PICK k \in bad : \A m \in bad : k <= m
    <3> HIDE DEF bad
    <3> QED
      BY <1>1, <2>0, LeastNat
  <2>2. k \in 0..N /\ k \in Nat
    BY <2>1
  <2>3. k # 0
    <3> SUFFICES ASSUME k = 0 PROVE FALSE
      OBVIOUS
    <3>1. [i \in 0..0 |-> b] \in [0..k -> V] /\ Upto(k, [i \in 0..0 |-> b])
      BY <2>2
    <3> QED
      BY <2>1, <3>1
  <2>4. k - 1 \in 0..N /\ ~ (k <= k - 1)
    BY <2>2, <2>3
  <2>5. k - 1 \notin bad
    BY <2>1, <2>4
  <2>6. PICK g \in [0..(k - 1) -> V] : Upto(k - 1, g)
    BY <2>4, <2>5
  <2> DEFINE f == [n \in 0..k |-> IF n = k THEN G[<<k, g[k - 1]>>] ELSE g[n]]
  <2>7. /\ f[k] = G[<<k, g[k - 1]>>]
        /\ \A n \in 0..(k - 1) : f[n] = g[n] /\ n \in 0..k
        /\ \A n \in 0..k : n = k \/ n \in 0..(k - 1)
    BY <2>2, <2>3
  <2>8. f \in [0..k -> V]
    <3>1. k \in 1..N /\ g[k - 1] \in V
      BY <2>2, <2>3, <2>6
    <3>2. G[<<k, g[k - 1]>>] \in V
      BY <3>1
    <3> QED
      BY <2>2, <2>6, <3>2
  <2> HIDE DEF f
  <2>9. f[0] = b
    BY <2>2, <2>3, <2>6, <2>7
  <2>10. ASSUME NEW n \in 1..k PROVE f[n] = G[<<n, f[n - 1]>>]
    <3>1. n - 1 \in 0..(k - 1)
      BY <2>2
    <3>2. CASE n = k
      BY <2>7, <3>1, <3>2
    <3>3. CASE n # k
      <4>1. n \in 1..(k - 1) /\ n \in 0..(k - 1)
        BY <2>2, <3>3
      <4> QED
        BY <2>6, <2>7, <3>1, <4>1
    <3> QED
      BY <3>2, <3>3
  <2> QED
    BY <2>1, <2>8, <2>9, <2>10
<1>2. PICK f \in [0..N -> V] : Upto(N, f)
  BY <1>1
<1> QED
  BY <1>2 DEF Recursive

(* Two lists of one set in one total order are the same list: where they first *)
(* differ, each has later what the other has there.                            *)
LEMMA ListIsUnique ==
    ASSUME NEW R, NEW S, IsFiniteSet(S), StrictOrder(R, S),
           \A x, y \in S : x # y => <<x, y>> \in R \/ <<y, x>> \in R,
           NEW s \in ListsOf(S, R), NEW t \in ListsOf(S, R)
    PROVE  s = t
<1> DEFINE n == Cardinality(S)
           bad == {i \in 1..n : s[i] # t[i]}
<1>1. n \in Nat
  BY FS_CardinalityType
<1> HIDE DEF n
<1>2. /\ s \in [1..n -> S] /\ t \in [1..n -> S]
      /\ \A i, j \in 1..n : i # j => s[i] # s[j] /\ t[i] # t[j]
      /\ \A i, j \in 1..n : i < j => <<s[j], s[i]>> \notin R /\ <<t[j], t[i]>> \notin R
  BY DEF ListsOf, n
<1>3. /\ \A x \in S : \E i \in 1..n : s[i] = x
      /\ \A x \in S : \E i \in 1..n : t[i] = x
  <2>1. \A f \in [1..n -> S] : (\A i, j \in 1..n : i # j => f[i] # f[j]) =>
            \A x \in S : \E i \in 1..n : f[i] = x
    BY ListIsOnto DEF n
  <2> QED
    BY <1>2, <2>1
<1>4. ASSUME bad # {} PROVE FALSE
  <2>1. bad \in SUBSET Nat
    BY <1>1
  <2>2. PICK i \in bad : \A m \in bad : i <= m
    <3> HIDE DEF bad
    <3> QED
      BY <1>4, <2>1, LeastNat
  <2>3. i \in 1..n /\ s[i] # t[i] /\ s[i] \in S /\ t[i] \in S
    BY <1>2, <2>2
  <2>4. \A m \in 1..n : m < i => s[m] = t[m]
    BY <1>1, <2>2, <2>3
  <2>5. PICK j \in 1..n : t[j] = s[i]
    BY <1>3, <2>3
  <2>6. PICK k \in 1..n : s[k] = t[i]
    BY <1>3, <2>3
  <2>7. i < j /\ i < k
    <3>1. j # i /\ k # i
      BY <2>3, <2>5, <2>6
    <3>2. ~ (j < i) /\ ~ (k < i)
      BY <1>2, <2>3, <2>4, <2>5, <2>6, <3>1
    <3> QED
      BY <1>1, <2>3, <3>1, <3>2
  <2>8. <<t[i], s[i]>> \notin R /\ <<s[i], t[i]>> \notin R
    BY <1>2, <2>3, <2>5, <2>6, <2>7
  <2> QED
    BY <2>3, <2>8
<1>5. \A i \in 1..n : s[i] = t[i]
  BY <1>4
<1>6. s = [i \in 1..n |-> s[i]]
  BY <1>2
<1>7. t = [i \in 1..n |-> t[i]]
  BY <1>2
<1>8. [i \in 1..n |-> s[i]] = [i \in 1..n |-> t[i]]
  BY <1>5
<1> QED
  BY <1>6, <1>7, <1>8

(* What is left of a list behind its first k members is a list. *)
LEMMA ListRest ==
    ASSUME NEW R, NEW S, IsFiniteSet(S), NEW s \in ListsOf(S, R), NEW k \in 0..Cardinality(S)
    PROVE  LET T == {s[i] : i \in (k + 1)..Cardinality(S)}
               n == Cardinality(S) - k
           IN n = Cardinality(T) /\ [i \in 1..n |-> s[k + i]] \in ListsOf(T, R)
<1> DEFINE N == Cardinality(S)
           n == N - k
           T == {s[i] : i \in (k + 1)..N}
           u == [i \in 1..n |-> s[k + i]]
<1>1. N \in Nat
  BY FS_CardinalityType
<1> HIDE DEF N
<1>2. n \in Nat /\ \A i \in 1..n : k + i \in (k + 1)..N /\ k + i \in 1..N /\ u[i] = s[k + i]
  BY <1>1 DEF N
<1>3. \A i \in (k + 1)..N : i - k \in 1..n /\ k + (i - k) = i
  BY <1>1 DEF N
<1>4. /\ s \in [1..N -> S]
      /\ \A i, j \in 1..N : i # j => s[i] # s[j]
      /\ \A i, j \in 1..N : i < j => <<s[j], s[i]>> \notin R
  BY DEF ListsOf, N
<1>5. \A i, j \in 1..n : (i # j => k + i # k + j) /\ (i < j => k + i < k + j)
  BY <1>1, <1>2 DEF N
<1>6. u \in [1..n -> T]
  BY <1>2
<1>7. T = {u[i] : i \in 1..n}
  BY <1>2, <1>3
<1> HIDE DEF n, u, T
<1>8. \A i, j \in 1..n : (i # j => u[i] # u[j]) /\ (i < j => <<u[j], u[i]>> \notin R)
  BY <1>2, <1>4, <1>5
<1>9. u \in Bijection(1..n, T)
  BY <1>6, <1>7, <1>8 DEF Bijection, Injection, Surjection, IsInjective
<1>10. Cardinality(T) = n
  BY <1>2, <1>9, FS_CountingElements DEF ExistsBijection
<1>11. u \in ListsOf(T, R)
  BY <1>6, <1>8, <1>10 DEF ListsOf
<1> QED
  BY <1>10, <1>11 DEF n, u, T, N
--------------------------------------------------------------------------------
(* Cms: what is public *)

(* The unique keys: no two documents of a kind have one key, and the row that  *)
(* a request is about to write keeps the key of its document.                  *)
KeysInv ==
    /\ \A c, d \in Docs : c # d /\ KindOf[c] = KindOf[d] /\ doc[c] # NoDoc /\ doc[d] # NoDoc =>
          doc[c].key # doc[d].key
    /\ \A e \in Callers : request[e] # Idle => request[e].row.key = doc[request[e].doc].key

LEMMA KeysInit == CmsDocs!Init => KeysInv
<1> SUFFICES ASSUME CmsDocs!Init PROVE KeysInv
  OBVIOUS
<1>1. \A e \in Callers : request[e] = Idle
  BY DEF CmsDocs!Init
<1>2. \A d \in Docs : doc[d] # NoDoc => \E x \in Existing : x.id = d /\ doc[d].key = x.key
  <2> SUFFICES ASSUME NEW d \in Docs, doc[d] # NoDoc
               PROVE  \E x \in Existing : x.id = d /\ doc[d].key = x.key
    OBVIOUS
  <2> DEFINE x == CHOOSE y \in Existing : y.id = d
  <2>1. doc[d] = IF \E y \in Existing : y.id = d THEN CmsDocs!PublishedRow(x) ELSE NoDoc
    BY DEF CmsDocs!Init, CmsDocs!ExistingAt
  <2>2. \E y \in Existing : y.id = d
    BY <2>1
  <2>3. x \in Existing /\ x.id = d
    BY <2>2
  <2> HIDE DEF x
  <2>4. doc[d].key = x.key
    BY <2>1, <2>2 DEF CmsDocs!PublishedRow
  <2> QED
    BY <2>3, <2>4
<1>3. \A c, d \in Docs : c # d /\ KindOf[c] = KindOf[d] /\ doc[c] # NoDoc /\ doc[d] # NoDoc =>
         doc[c].key # doc[d].key
  <2> SUFFICES ASSUME NEW c \in Docs, NEW d \in Docs, c # d, KindOf[c] = KindOf[d],
                      doc[c] # NoDoc, doc[d] # NoDoc
               PROVE  doc[c].key # doc[d].key
    OBVIOUS
  <2>1. PICK x \in Existing : x.id = c /\ doc[c].key = x.key
    BY <1>2
  <2>2. PICK y \in Existing : y.id = d /\ doc[d].key = y.key
    BY <1>2
  <2>3. x # y
    BY <2>1, <2>2
  <2> QED
    BY <2>1, <2>2, <2>3, CmsAssumption
<1> QED
  BY <1>1, <1>3 DEF KeysInv

(* A new document has a key that no other of its kind has. *)
LEMMA KeysCreate ==
    ASSUME CmsInv, KeysInv, NEW d \in Docs, NEW key, NEW place, NEW text,
           CmsDocs!Create(d, key, place, text)
    PROVE  KeysInv'
<1> DEFINE row == [key |-> key, place |-> place, text |-> text, status |-> "DRAFT",
                   version |-> 1, firstPublished |-> 0, lastPublished |-> 0]
<1>1. /\ doc[d] = NoDoc /\ CmsDocs!uq_key(d, key)
      /\ doc' = [doc EXCEPT ![d] = row] /\ request' = request
  BY DEF CmsDocs!Create, CmsDocs!add
<1>2. row.key = key
  OBVIOUS
<1> HIDE DEF row
<1>3. doc'[d] = row /\ \A c \in Docs \ {d} : doc'[c] = doc[c]
  BY <1>1 DEF CmsInv
<1>4. \A c \in Docs \ {d} : doc[c] # NoDoc /\ KindOf[c] = KindOf[d] => doc[c].key # key
  BY <1>1 DEF CmsDocs!uq_key, CmsDocs!Stored
<1>5. \A e \in Callers : request[e] # Idle => request[e].doc \in Docs \ {d}
  BY <1>1, CmsAssumption DEF CmsInv, CmsRequest
<1> QED
  BY <1>1, <1>2, <1>3, <1>4, <1>5 DEF KeysInv

LEMMA KeysBegin ==
    ASSUME CmsInv, KeysInv, NEW e \in Callers, NEW d \in Docs, NEW v, NEW row,
           row.key = doc[d].key, CmsDocs!Begin(e, d, v, row)
    PROVE  KeysInv'
<1> DEFINE new == [doc |-> d, expected |-> v, from |-> doc[d].status, row |-> row]
<1>1. request' = [request EXCEPT ![e] = new] /\ doc' = doc
  BY DEF CmsDocs!Begin
<1>2. new.row = row /\ new.doc = d
  OBVIOUS
<1> HIDE DEF new
<1>3. request'[e] = new /\ \A c \in Callers \ {e} : request'[c] = request[c]
  BY <1>1 DEF CmsInv
<1> QED
  BY <1>1, <1>2, <1>3 DEF KeysInv

LEMMA KeysCommit ==
    ASSUME CmsInv, KeysInv, NEW e \in Callers, CmsDocs!Commit(e)
    PROVE  KeysInv'
<1> DEFINE r == request[e]
<1>1. r # Idle /\ doc' = [doc EXCEPT ![r.doc] = r.row] /\ request' = [request EXCEPT ![e] = Idle]
  BY DEF CmsDocs!Commit, CmsDocs!update
<1>2. r.doc \in Docs /\ doc[r.doc] # NoDoc /\ r.row.key = doc[r.doc].key
  BY <1>1, CmsAssumption DEF CmsInv, CmsRequest, KeysInv
<1> HIDE DEF r
<1>3. /\ doc'[r.doc] = r.row /\ \A c \in Docs \ {r.doc} : doc'[c] = doc[c]
      /\ \A c \in Callers : request'[c] # Idle => request'[c] = request[c]
  BY <1>1, <1>2 DEF CmsInv
<1>4. \A c \in Docs : doc'[c].key = doc[c].key
  BY <1>2, <1>3
<1>5. \A c \in Docs : doc'[c] # NoDoc => doc[c] # NoDoc
  BY <1>2, <1>3
<1>6. \A c \in Callers : request'[c] # Idle => request'[c].doc \in Docs
  BY <1>3 DEF CmsInv, CmsRequest
<1> QED
  BY <1>3, <1>4, <1>5, <1>6 DEF KeysInv

(* Edits and transitions leave the key. *)
LEMMA KeyStays ==
    ASSUME NEW row \in CmsRows
    PROVE  /\ \A place, text : CmsDocs!Edited(row, place, text).key = row.key
           /\ \A op \in CmsDocs!Transitions : CmsDocs!Mutation(op, row).key = row.key
<1>1. \A place, text : CmsDocs!Edited(row, place, text).key = row.key
  BY DEF CmsDocs!Edited, CmsRows
<1>2. \A to : CmsDocs!StatusMutation(row, to).key = row.key
  BY DEF CmsDocs!StatusMutation, CmsRows
<1>3. CmsDocs!PublishMutation(row).key = row.key
  BY DEF CmsDocs!PublishMutation, CmsDocs!StatusMutation, CmsRows
<1>4. \A op \in CmsDocs!Transitions :
         CmsDocs!Mutation(op, row) = CmsDocs!PublishMutation(row)
            \/ \E to : CmsDocs!Mutation(op, row) = CmsDocs!StatusMutation(row, to)
  BY DEF CmsDocs!Mutation, CmsDocs!RetractMutation
<1> QED
  BY <1>1, <1>2, <1>3, <1>4

LEMMA KeysNext ==
    ASSUME CmsInv, KeysInv, CmsDocs!Next
    PROVE  KeysInv'
<1>1. ASSUME NEW role, NEW d \in Docs,
             \/ CmsDocs!create_glossary_term(d, role)
             \/ CmsDocs!create_methodology_page(d, role)
             \/ CmsDocs!create_changelog_entry(d, role)
      PROVE  KeysInv'
  BY <1>1, KeysCreate
  DEF CmsDocs!create_glossary_term, CmsDocs!create_methodology_page, CmsDocs!create_changelog_entry,
      CmsDocs!CreateGlossaryTerm, CmsDocs!CreateMethodologyPage, CmsDocs!CreateChangelogEntry
<1>2. ASSUME NEW role, NEW e \in Callers, NEW d \in CmsDocs!Stored,
             \/ CmsDocs!update_glossary_term(e, d, role)
             \/ CmsDocs!update_methodology_page(e, d, role)
             \/ CmsDocs!update_changelog_entry(e, d, role)
      PROVE  KeysInv'
  <2>1. PICK v \in CmsDocs!ShownVersions(d), place \in Places \cup {0}, text \in Texts :
                CmsDocs!Begin(e, d, v, CmsDocs!Edited(doc[d], place, text))
    BY <1>2
    DEF CmsDocs!update_glossary_term, CmsDocs!update_methodology_page, CmsDocs!update_changelog_entry,
        CmsDocs!UpdateGlossaryTerm, CmsDocs!UpdateMethodologyPage, CmsDocs!UpdateChangelogEntry
  <2>2. d \in Docs /\ doc[d] \in CmsRows
    BY DEF CmsDocs!Stored, CmsInv
  <2> QED
    BY <2>1, <2>2, KeyStays, KeysBegin
<1>3. ASSUME NEW role, NEW e \in Callers, NEW d \in CmsDocs!Stored, NEW op \in CmsDocs!Transitions,
             \/ CmsDocs!transition_glossary(e, d, role, op)
             \/ CmsDocs!transition_methodology(e, d, role, op)
             \/ CmsDocs!transition_changelog(e, d, role, op)
      PROVE  KeysInv'
  <2>1. PICK v \in CmsDocs!ShownVersions(d) : CmsDocs!Begin(e, d, v, CmsDocs!Mutation(op, doc[d]))
    BY <1>3
    DEF CmsDocs!transition_glossary, CmsDocs!transition_methodology, CmsDocs!transition_changelog,
        CmsDocs!Transition, CmsDocs!CmsTransition
  <2>2. d \in Docs /\ doc[d] \in CmsRows
    BY DEF CmsDocs!Stored, CmsInv
  <2> QED
    BY <2>1, <2>2, KeyStays, KeysBegin
<1>4. ASSUME NEW e \in Callers, CmsDocs!Refuse(e) PROVE KeysInv'
  BY <1>4 DEF CmsDocs!Refuse, CmsInv, KeysInv
<1> QED
  BY <1>1, <1>2, <1>3, <1>4, KeysCommit DEF CmsDocs!Next

LEMMA KeysStep ==
    ASSUME CmsInv, KeysInv, [Next]_vars
    PROVE  KeysInv'
<1>1. CASE CmsDocs!Next
  BY <1>1, KeysNext
<1>2. CASE UNCHANGED cmsVars
  BY <1>2 DEF cmsVars, KeysInv
<1> QED
  BY <1>1, <1>2 DEF Next, vars

LEMMA CmsCardinality == \A S : CmsDocs!Cardinality(S) = Cardinality(S)
BY DEF CmsDocs!Cardinality, Cardinality

(* Stored rows can be compared. *)
LEMMA StoredIs ==
    ASSUME CmsInv
    PROVE  /\ CmsDocs!Stored \subseteq Docs /\ IsFiniteSet(CmsDocs!Stored)
           /\ \A d \in CmsDocs!Stored :
                 /\ d \in Int /\ doc[d] \in CmsRows /\ doc[d].key \in Keys
                 /\ doc[d].key \in Int /\ doc[d].place \in Int /\ doc[d].text \in Int
<1>1. CmsDocs!Stored \subseteq Docs
  BY DEF CmsDocs!Stored
<1>2. IsFiniteSet(CmsDocs!Stored)
  BY <1>1, CmsAssumption, FS_Subset
<1>3. ASSUME NEW d \in CmsDocs!Stored
      PROVE  /\ d \in Int /\ doc[d] \in CmsRows /\ doc[d].key \in Keys
             /\ doc[d].key \in Int /\ doc[d].place \in Int /\ doc[d].text \in Int
  <2>1. d \in Docs /\ doc[d] \in CmsRows
    BY DEF CmsDocs!Stored, CmsInv
  <2>2. doc[d].key \in Keys /\ doc[d].place \in Places \cup {0} /\ doc[d].text \in Texts
    BY <2>1 DEF CmsRows
  <2>3. Keys \subseteq Int /\ Places \subseteq Int /\ Texts \subseteq Int /\ Docs \subseteq Int
    BY CmsAssumption
  <2>4. d \in Int /\ doc[d].key \in Int /\ doc[d].text \in Int
    BY <2>1, <2>2, <2>3, Zenon
  <2>5. doc[d].place \in Int
    <3>1. CASE doc[d].place \in Places
      BY <2>3, <3>1, Zenon
    <3>2. CASE doc[d].place = 0
      BY <3>2
    <3> QED
      BY <2>2, <3>1, <3>2
  <2> QED
    BY <2>1, <2>2, <2>4, <2>5
<1> QED
  BY <1>1, <1>2, <1>3

(* The orders of the lists, as relations. *)
TermOrder    == {p \in Docs \X Docs : CmsDocs!ByTerm(p[1], p[2])}
SectionOrder == {p \in Docs \X Docs : CmsDocs!BySection(p[1], p[2])}
LaterOrder   == {p \in Docs \X Docs : CmsDocs!Later(p[1], p[2])}

LEMMA OrdersAre ==
    ASSUME CmsInv
    PROVE  /\ StrictOrder(TermOrder, CmsDocs!Stored)
           /\ StrictOrder(SectionOrder, CmsDocs!Stored)
           /\ StrictOrder(LaterOrder, CmsDocs!Stored)
           /\ \A x, y \in CmsDocs!Stored : x # y => <<x, y>> \in LaterOrder \/ <<y, x>> \in LaterOrder
           /\ \A x, y \in CmsDocs!Stored : <<x, y>> \in TermOrder <=> CmsDocs!ByTerm(x, y)
           /\ \A x, y \in CmsDocs!Stored : <<x, y>> \in SectionOrder <=> CmsDocs!BySection(x, y)
           /\ \A x, y \in CmsDocs!Stored : <<x, y>> \in LaterOrder <=> CmsDocs!Later(x, y)
<1> DEFINE key(d) == doc[d].key
           place(d) == doc[d].place
           text(d) == doc[d].text
<1>1. /\ \A x, y \in CmsDocs!Stored : <<x, y>> \in TermOrder <=> CmsDocs!ByTerm(x, y)
      /\ \A x, y \in CmsDocs!Stored : <<x, y>> \in SectionOrder <=> CmsDocs!BySection(x, y)
      /\ \A x, y \in CmsDocs!Stored : <<x, y>> \in LaterOrder <=> CmsDocs!Later(x, y)
  BY StoredIs DEF TermOrder, SectionOrder, LaterOrder
<1>2. \A d \in CmsDocs!Stored : d \in Int /\ key(d) \in Int /\ place(d) \in Int /\ text(d) \in Int
  BY StoredIs
<1>3. /\ \A a, b : CmsDocs!ByTerm(a, b) <=> key(a) < key(b)
      /\ \A a, b : CmsDocs!BySection(a, b) <=>
            (place(a) < place(b) \/ (place(a) = place(b) /\ text(a) < text(b)))
      /\ \A a, b : CmsDocs!Later(a, b) <=> (place(a) > place(b) \/ (place(a) = place(b) /\ a > b))
  BY DEF CmsDocs!ByTerm, CmsDocs!BySection, CmsDocs!Later
<1> HIDE DEF key, place, text
<1>4. StrictOrder(TermOrder, CmsDocs!Stored)
  BY <1>1, <1>2, <1>3 DEF StrictOrder
<1>5. StrictOrder(SectionOrder, CmsDocs!Stored)
  BY <1>1, <1>2, <1>3 DEF StrictOrder
<1>6. StrictOrder(LaterOrder, CmsDocs!Stored)
  BY <1>1, <1>2, <1>3 DEF StrictOrder
<1>7. \A x, y \in CmsDocs!Stored : x # y => <<x, y>> \in LaterOrder \/ <<y, x>> \in LaterOrder
  BY <1>1, <1>2, <1>3
<1> QED
  BY <1>1, <1>4, <1>5, <1>6, <1>7

(* The lists that SetToSeqs offers and ListsOf, of some stored rows. *)
LEMMA ListsAre ==
    ASSUME CmsInv, NEW S \in SUBSET CmsDocs!Stored, NEW R, StrictOrder(R, CmsDocs!Stored)
    PROVE  /\ IsFiniteSet(S) /\ Cardinality(S) \in Nat
           /\ ListsOf(S, R) # {}
           /\ \A s : s \in ListsOf(S, R) <=>
                 /\ s \in CmsDocs!SetToSeqs(S)
                 /\ \A i, j \in DOMAIN s : i < j => <<s[j], s[i]>> \notin R
           /\ \A s \in CmsDocs!SetToSeqs(S) : \A i \in DOMAIN s : s[i] \in CmsDocs!Stored
<1>1. IsFiniteSet(S) /\ Cardinality(S) \in Nat
  BY StoredIs, FS_Subset, FS_CardinalityType
<1>2. StrictOrder(R, S)
  BY DEF StrictOrder
<1>3. ListsOf(S, R) # {}
  BY <1>1, <1>2, ListExists
<1>4. CmsDocs!SetToSeqs(S)
        = {s \in [1..Cardinality(S) -> S] : \A i, j \in 1..Cardinality(S) : i # j => s[i] # s[j]}
  BY CmsCardinality DEF CmsDocs!SetToSeqs
<1>5. \A s : s \in ListsOf(S, R) <=>
         /\ s \in CmsDocs!SetToSeqs(S)
         /\ \A i, j \in DOMAIN s : i < j => <<s[j], s[i]>> \notin R
  BY <1>4 DEF ListsOf
<1>6. \A s \in CmsDocs!SetToSeqs(S) : \A i \in DOMAIN s : s[i] \in CmsDocs!Stored
  BY <1>4
<1> QED
  BY <1>1, <1>3, <1>5, <1>6

(* Each query lists its rows. *)
LEMMA OrderByTerm ==
    ASSUME CmsInv, NEW S \in SUBSET CmsDocs!Stored
    PROVE  CmsDocs!OrderBy(S, CmsDocs!ByTerm) \in ListsOf(S, TermOrder)
<1> DEFINE Sorted(s) == \A i, j \in DOMAIN s : i < j => ~ CmsDocs!ByTerm(s[j], s[i])
           order == CHOOSE s \in CmsDocs!SetToSeqs(S) : Sorted(s)
<1>1. CmsDocs!OrderBy(S, CmsDocs!ByTerm) = order
  BY DEF CmsDocs!OrderBy
<1>2. /\ StrictOrder(TermOrder, CmsDocs!Stored)
      /\ \A x, y \in CmsDocs!Stored : <<x, y>> \in TermOrder <=> CmsDocs!ByTerm(x, y)
  BY OrdersAre
<1>3. /\ ListsOf(S, TermOrder) # {}
      /\ \A s : s \in ListsOf(S, TermOrder) <=>
            /\ s \in CmsDocs!SetToSeqs(S)
            /\ \A i, j \in DOMAIN s : i < j => <<s[j], s[i]>> \notin TermOrder
      /\ \A s \in CmsDocs!SetToSeqs(S) : \A i \in DOMAIN s : s[i] \in CmsDocs!Stored
  BY <1>2, ListsAre
<1>4. \A s \in CmsDocs!SetToSeqs(S) : Sorted(s) <=> s \in ListsOf(S, TermOrder)
  BY <1>2, <1>3
<1> HIDE DEF Sorted
<1>5. \E s \in CmsDocs!SetToSeqs(S) : Sorted(s)
  BY <1>3, <1>4
<1>6. order \in CmsDocs!SetToSeqs(S) /\ Sorted(order)
  BY <1>5
<1> QED
  BY <1>1, <1>4, <1>6

LEMMA OrderBySection ==
    ASSUME CmsInv, NEW S \in SUBSET CmsDocs!Stored
    PROVE  CmsDocs!OrderBy(S, CmsDocs!BySection) \in ListsOf(S, SectionOrder)
<1> DEFINE Sorted(s) == \A i, j \in DOMAIN s : i < j => ~ CmsDocs!BySection(s[j], s[i])
           order == CHOOSE s \in CmsDocs!SetToSeqs(S) : Sorted(s)
<1>1. CmsDocs!OrderBy(S, CmsDocs!BySection) = order
  BY DEF CmsDocs!OrderBy
<1>2. /\ StrictOrder(SectionOrder, CmsDocs!Stored)
      /\ \A x, y \in CmsDocs!Stored : <<x, y>> \in SectionOrder <=> CmsDocs!BySection(x, y)
  BY OrdersAre
<1>3. /\ ListsOf(S, SectionOrder) # {}
      /\ \A s : s \in ListsOf(S, SectionOrder) <=>
            /\ s \in CmsDocs!SetToSeqs(S)
            /\ \A i, j \in DOMAIN s : i < j => <<s[j], s[i]>> \notin SectionOrder
      /\ \A s \in CmsDocs!SetToSeqs(S) : \A i \in DOMAIN s : s[i] \in CmsDocs!Stored
  BY <1>2, ListsAre
<1>4. \A s \in CmsDocs!SetToSeqs(S) : Sorted(s) <=> s \in ListsOf(S, SectionOrder)
  BY <1>2, <1>3
<1> HIDE DEF Sorted
<1>5. \E s \in CmsDocs!SetToSeqs(S) : Sorted(s)
  BY <1>3, <1>4
<1>6. order \in CmsDocs!SetToSeqs(S) /\ Sorted(order)
  BY <1>5
<1> QED
  BY <1>1, <1>4, <1>6

LEMMA OrderByLater ==
    ASSUME CmsInv, NEW S \in SUBSET CmsDocs!Stored
    PROVE  CmsDocs!OrderBy(S, CmsDocs!Later) \in ListsOf(S, LaterOrder)
<1> DEFINE Sorted(s) == \A i, j \in DOMAIN s : i < j => ~ CmsDocs!Later(s[j], s[i])
           order == CHOOSE s \in CmsDocs!SetToSeqs(S) : Sorted(s)
<1>1. CmsDocs!OrderBy(S, CmsDocs!Later) = order
  BY DEF CmsDocs!OrderBy
<1>2. /\ StrictOrder(LaterOrder, CmsDocs!Stored)
      /\ \A x, y \in CmsDocs!Stored : <<x, y>> \in LaterOrder <=> CmsDocs!Later(x, y)
  BY OrdersAre
<1>3. /\ ListsOf(S, LaterOrder) # {}
      /\ \A s : s \in ListsOf(S, LaterOrder) <=>
            /\ s \in CmsDocs!SetToSeqs(S)
            /\ \A i, j \in DOMAIN s : i < j => <<s[j], s[i]>> \notin LaterOrder
      /\ \A s \in CmsDocs!SetToSeqs(S) : \A i \in DOMAIN s : s[i] \in CmsDocs!Stored
  BY <1>2, ListsAre
<1>4. \A s \in CmsDocs!SetToSeqs(S) : Sorted(s) <=> s \in ListsOf(S, LaterOrder)
  BY <1>2, <1>3
<1> HIDE DEF Sorted
<1>5. \E s \in CmsDocs!SetToSeqs(S) : Sorted(s)
  BY <1>3, <1>4
<1>6. order \in CmsDocs!SetToSeqs(S) /\ Sorted(order)
  BY <1>5
<1> QED
  BY <1>1, <1>4, <1>6

(* A list has its set, and nothing twice. *)
LEMMA ListHas ==
    ASSUME CmsInv, NEW S \in SUBSET CmsDocs!Stored, NEW R, NEW s \in ListsOf(S, R)
    PROVE  /\ s \in Seq(S) /\ Len(s) = Cardinality(S) /\ DOMAIN s = 1..Cardinality(S)
           /\ {s[i] : i \in 1..Cardinality(S)} = S
           /\ \A i, j \in 1..Cardinality(S) : i # j => s[i] # s[j]
           /\ \A i, j \in 1..Cardinality(S) : i < j => <<s[j], s[i]>> \notin R
<1> DEFINE n == Cardinality(S)
<1>1. IsFiniteSet(S) /\ n \in Nat
  BY StoredIs, FS_Subset, FS_CardinalityType
<1>2. /\ s \in [1..n -> S]
      /\ \A i, j \in 1..n : i # j => s[i] # s[j]
      /\ \A i, j \in 1..n : i < j => <<s[j], s[i]>> \notin R
  BY DEF ListsOf
<1>3. \A x \in S : \E i \in 1..n : s[i] = x
  BY <1>1, <1>2, ListIsOnto
<1> HIDE DEF n
<1>4. {s[i] : i \in 1..n} = S
  BY <1>2, <1>3
<1>5. s \in Seq(S) /\ Len(s) = n /\ DOMAIN s = 1..n
  BY <1>1, <1>2
<1> QED
  BY <1>2, <1>4, <1>5 DEF n

(* A key is served exactly when a published document of the kind has it. *)
LEMMA KeysServed ==
    ASSUME CmsInv, KeysInv, NEW kind
    PROVE  {key \in Keys : CmsDocs!GetPublic(kind, key) = "served"}
              = {doc[d].key : d \in CmsDocs!Published(kind)}
<1>1. ASSUME NEW key \in Keys, CmsDocs!GetPublic(kind, key) = "served"
      PROVE  \E d \in CmsDocs!Published(kind) : doc[d].key = key
  <2> DEFINE d == CHOOSE c \in CmsDocs!ByKey(kind, key) : TRUE
  <2>1. CmsDocs!ByKey(kind, key) # {} /\ CmsDocs!Visibility(doc[d]) = "served"
    BY <1>1 DEF CmsDocs!GetPublic
  <2>2. d \in CmsDocs!ByKey(kind, key)
    BY <2>1
  <2> HIDE DEF d
  <2>3. doc[d].status = "PUBLISHED"
    BY <2>1 DEF CmsDocs!Visibility
  <2> QED
    BY <2>2, <2>3 DEF CmsDocs!ByKey, CmsDocs!Published
<1>2. ASSUME NEW d \in CmsDocs!Published(kind)
      PROVE  doc[d].key \in Keys /\ CmsDocs!GetPublic(kind, doc[d].key) = "served"
  <2>1. d \in CmsDocs!Stored /\ KindOf[d] = kind /\ doc[d].status = "PUBLISHED"
    BY DEF CmsDocs!Published
  <2>2. \A c \in CmsDocs!ByKey(kind, doc[d].key) : c = d
    BY <2>1 DEF CmsDocs!ByKey, CmsDocs!Stored, KeysInv
  <2>3. d \in CmsDocs!ByKey(kind, doc[d].key)
    BY <2>1 DEF CmsDocs!ByKey
  <2>4. (CHOOSE c \in CmsDocs!ByKey(kind, doc[d].key) : TRUE) = d
    BY <2>2, <2>3
  <2>5. CmsDocs!Visibility(doc[d]) = "served"
    BY <2>1 DEF CmsDocs!Visibility
  <2>6. CmsDocs!GetPublic(kind, doc[d].key) = "served"
    BY <2>3, <2>4, <2>5 DEF CmsDocs!GetPublic
  <2> QED
    BY <2>1, <2>6, StoredIs
<1> QED
  BY <1>1, <1>2

(* The glossary has every published term, in the order of the terms. *)
LEMMA GlossaryIs ==
    ASSUME CmsInv, KeysInv
    PROVE  LET terms == CmsDocs!ListPublicGlossary
           IN /\ CmsDocs!ToSet(terms) = CmsDocs!Published("glossary_term")
              /\ \A i, j \in DOMAIN terms : i < j => CmsDocs!ByTerm(terms[i], terms[j])
<1> DEFINE S == CmsDocs!Published("glossary_term")
           terms == CmsDocs!ListPublicGlossary
           n == Cardinality(S)
<1>1. S \in SUBSET CmsDocs!Stored /\ \A c \in S : KindOf[c] = "glossary_term"
  BY DEF CmsDocs!Published
<1> HIDE DEF S
<1>2. terms \in ListsOf(S, TermOrder)
  BY <1>1, OrderByTerm DEF CmsDocs!ListPublicGlossary, CmsDocs!list_published_terms, S
<1> HIDE DEF terms
<1>3. /\ terms \in Seq(S) /\ DOMAIN terms = 1..n
      /\ {terms[i] : i \in 1..n} = S
      /\ \A i, j \in 1..n : i # j => terms[i] # terms[j]
      /\ \A i, j \in 1..n : i < j => <<terms[j], terms[i]>> \notin TermOrder
  BY <1>1, <1>2, ListHas
<1>4. n \in Nat
  BY <1>1, StoredIs, FS_Subset, FS_CardinalityType
<1> HIDE DEF n
<1>5. ASSUME NEW i \in 1..n, NEW j \in 1..n, i < j PROVE CmsDocs!ByTerm(terms[i], terms[j])
  <2> DEFINE a == terms[i]
             b == terms[j]
  <2>1. a \in S /\ b \in S
    BY <1>3
  <2>2. a # b
    BY <1>3, <1>4, <1>5
  <2>3. <<b, a>> \notin TermOrder
    BY <1>3, <1>5
  <2> HIDE DEF a, b
  <2>4. a \in CmsDocs!Stored /\ b \in CmsDocs!Stored
    BY <1>1, <2>1
  <2>5. ~ CmsDocs!ByTerm(b, a)
    BY <2>3, <2>4, OrdersAre
  <2>6. doc[a].key # doc[b].key
    BY <1>1, <2>1, <2>2, <2>4 DEF KeysInv, CmsDocs!Stored
  <2>7. doc[a].key \in Int /\ doc[b].key \in Int
    BY <2>4, StoredIs
  <2>8. CmsDocs!ByTerm(a, b)
    BY <2>5, <2>6, <2>7 DEF CmsDocs!ByTerm
  <2> QED
    BY <2>8 DEF a, b
<1>6. CmsDocs!ToSet(terms) = S
  BY <1>3 DEF CmsDocs!ToSet
<1> QED
  BY <1>3, <1>5, <1>6 DEF S, terms

(* The entries of the changelog after a cursor, and their list. *)
EntriesAfter(after) ==
    {d \in CmsDocs!Published("changelog_entry") : after \in CmsDocs!Stored => CmsDocs!Later(after, d)}

EntryList(after) == CmsDocs!OrderBy(EntriesAfter(after), CmsDocs!Later)

PageOf(rows, limit) ==
    LET items == IF Len(rows) > limit THEN SubSeq(rows, 1, limit) ELSE rows
    IN [items |-> items, next |-> IF Len(rows) > limit THEN items[limit] ELSE NoDoc]

LEMMA EntriesAre ==
    ASSUME CmsInv, NEW after
    PROVE  /\ EntriesAfter(after) \in SUBSET CmsDocs!Stored
           /\ EntryList(after) \in ListsOf(EntriesAfter(after), LaterOrder)
           /\ IsFiniteSet(EntriesAfter(after)) /\ Cardinality(EntriesAfter(after)) \in Nat
           /\ Cardinality(EntriesAfter(after)) <= Cardinality(Docs)
<1>1. EntriesAfter(after) \in SUBSET CmsDocs!Stored
  BY DEF EntriesAfter, CmsDocs!Published
<1> HIDE DEF EntriesAfter
<1>2. EntryList(after) \in ListsOf(EntriesAfter(after), LaterOrder)
  BY <1>1, OrderByLater DEF EntryList
<1>3. EntriesAfter(after) \in SUBSET Docs
  BY <1>1, StoredIs
<1> QED
  BY <1>1, <1>2, <1>3, CmsAssumption, FS_Subset, FS_CardinalityType

LEMMA PageIs ==
    ASSUME NEW limit, NEW after
    PROVE  CmsDocs!list_published(limit, after) = PageOf(EntryList(after), limit)
BY DEF CmsDocs!list_published, PageOf, EntryList, EntriesAfter

(* The whole changelog. *)
LEMMA ChangelogIs ==
    ASSUME CmsInv
    PROVE  LET all == CmsDocs!list_published(CmsDocs!Cardinality(Docs), NoDoc).items
               S   == CmsDocs!Published("changelog_entry")
           IN /\ all \in ListsOf(S, LaterOrder)
              /\ S \in SUBSET CmsDocs!Stored
              /\ CmsDocs!ToSet(all) = S
              /\ \A i, j \in DOMAIN all : i < j => CmsDocs!Later(all[i], all[j])
<1> DEFINE all == CmsDocs!list_published(CmsDocs!Cardinality(Docs), NoDoc).items
           S == CmsDocs!Published("changelog_entry")
           n == Cardinality(S)
           rows == EntryList(NoDoc)
<1>1. EntriesAfter(NoDoc) = S
  BY CmsAssumption DEF EntriesAfter, CmsDocs!Stored
<1> HIDE DEF S
<1>2. /\ S \in SUBSET CmsDocs!Stored /\ rows \in ListsOf(S, LaterOrder)
      /\ n \in Nat /\ n <= Cardinality(Docs) /\ Cardinality(Docs) \in Nat
  BY <1>1, EntriesAre, CmsAssumption, FS_CardinalityType
<1>3. /\ rows \in Seq(S) /\ Len(rows) = n /\ DOMAIN rows = 1..n
      /\ {rows[i] : i \in 1..n} = S
      /\ \A i, j \in 1..n : i # j => rows[i] # rows[j]
      /\ \A i, j \in 1..n : i < j => <<rows[j], rows[i]>> \notin LaterOrder
  BY <1>2, ListHas
<1>4. all = PageOf(rows, Cardinality(Docs)).items
  BY PageIs, CmsCardinality
<1> HIDE DEF all, rows, n
<1>5. all = rows
  BY <1>2, <1>3, <1>4 DEF PageOf
<1>6. ASSUME NEW i \in 1..n, NEW j \in 1..n, i < j PROVE CmsDocs!Later(rows[i], rows[j])
  <2>1. rows[i] \in CmsDocs!Stored /\ rows[j] \in CmsDocs!Stored
    BY <1>2, <1>3
  <2>2. rows[i] # rows[j] /\ <<rows[j], rows[i]>> \notin LaterOrder
    BY <1>2, <1>3, <1>6
  <2> QED
    BY <2>1, <2>2, OrdersAre
<1>7. CmsDocs!ToSet(all) = S
  BY <1>3, <1>5 DEF CmsDocs!ToSet
<1> QED
  BY <1>2, <1>3, <1>5, <1>6, <1>7 DEF all, S

(* Those of a list that come after a cursor are the rest of it. *)
LEMMA RestIs ==
    ASSUME CmsInv, NEW S \in SUBSET CmsDocs!Stored, NEW s \in ListsOf(S, LaterOrder),
           NEW after \in CmsDocs!Stored
    PROVE  \E k \in 0..Cardinality(S) :
              \A i \in 1..Cardinality(S) : i <= k <=> ~ CmsDocs!Later(after, s[i])
<1> DEFINE n == Cardinality(S)
           T == {i \in 1..(n + 1) : i = n + 1 \/ CmsDocs!Later(after, s[i])}
<1>1. n \in Nat
  BY StoredIs, FS_Subset, FS_CardinalityType
<1>2. /\ s \in Seq(S) /\ DOMAIN s = 1..n
      /\ \A i, j \in 1..n : i # j => s[i] # s[j]
      /\ \A i, j \in 1..n : i < j => <<s[j], s[i]>> \notin LaterOrder
  BY ListHas
<1> HIDE DEF n
<1>2a. \A i \in 1..n : s[i] \in S
  BY DEF ListsOf, n
<1>3. n + 1 \in T /\ T \in SUBSET Nat
  BY <1>1
<1>4. PICK m \in T : \A i \in T : m <= i
  <2> HIDE DEF T
  <2> QED
    BY <1>3, LeastNat
<1>5. m \in 1..(n + 1) /\ m - 1 \in 0..n
  BY <1>1, <1>4
<1>6. ASSUME NEW i \in 1..n, i <= m - 1 PROVE ~ CmsDocs!Later(after, s[i])
  <2>1. i \in 1..(n + 1) /\ ~ (m <= i)
    BY <1>1, <1>5, <1>6
  <2> QED
    BY <1>4, <2>1
<1>7. ASSUME NEW i \in 1..n, ~ (i <= m - 1) PROVE CmsDocs!Later(after, s[i])
  <2>1. m \in 1..n /\ m <= i
    BY <1>1, <1>5, <1>7
  <2>2. CmsDocs!Later(after, s[m])
    BY <1>1, <1>4, <2>1
  <2>3. CASE m = i
    BY <2>2, <2>3
  <2>4. CASE m # i
    <3> DEFINE a == s[m]
               b == s[i]
    <3>1. m < i
      BY <1>1, <2>1, <2>4
    <3>2. a \in CmsDocs!Stored /\ b \in CmsDocs!Stored /\ a # b /\ <<b, a>> \notin LaterOrder
      <4>1. s[m] \in S /\ s[i] \in S
        BY <1>2a, <2>1
      <4>2. s[m] # s[i]
        BY <1>2, <2>1, <2>4
      <4>3. <<s[i], s[m]>> \notin LaterOrder
        BY <1>2, <2>1, <3>1
      <4> QED
        BY <4>1, <4>2, <4>3
    <3>3. CmsDocs!Later(after, a)
      BY <2>2
    <3> HIDE DEF a, b
    <3>4. <<a, b>> \in LaterOrder /\ <<after, a>> \in LaterOrder
      BY <3>2, <3>3, OrdersAre
    <3>5. <<after, b>> \in LaterOrder
      <4>1. StrictOrder(LaterOrder, CmsDocs!Stored)
        BY OrdersAre
      <4> QED
        BY <3>2, <3>4, <4>1 DEF StrictOrder
    <3>6. CmsDocs!Later(after, b)
      BY <3>2, <3>5, OrdersAre
    <3> QED
      BY <3>6 DEF b
  <2> QED
    BY <2>3, <2>4
<1>8. \A i \in 1..n : i <= m - 1 <=> ~ CmsDocs!Later(after, s[i])
  BY <1>6, <1>7
<1> QED
  BY <1>5, <1>8 DEF n

(* The m rows that follow the first k of a list. *)
LEMMA SliceIs ==
    ASSUME NEW S, NEW s \in Seq(S), NEW k \in Nat, NEW m \in Nat, k + m <= Len(s)
    PROVE  SubSeq(s, k + 1, k + m) = [i \in 1..m |-> s[k + i]]
<1>1. Len(s) \in Nat
  OBVIOUS
<1>2. SubSeq(s, k + 1, k + m) = [i \in 1..((k + m) - (k + 1) + 1) |-> s[(k + 1) + i - 1]]
  OBVIOUS
<1>3. (k + m) - (k + 1) + 1 = m /\ \A i \in 1..m : (k + 1) + i - 1 = k + i
  OBVIOUS
<1> QED
  BY <1>2, <1>3

(* A page is the piece of the changelog that follows its cursor. *)
LEMMA PageFollows ==
    ASSUME CmsInv, NEW asked \in Nat \ {0},
           NEW after \in {NoDoc} \cup {d \in CmsDocs!Stored : KindOf[d] = "changelog_entry"}
    PROVE  LET all  == CmsDocs!list_published(CmsDocs!Cardinality(Docs), NoDoc).items
               page == CmsDocs!ListPublicChangelog(asked, after)
           IN \E k, last \in 0..Len(all) :
                 /\ \A i \in DOMAIN all : i <= k <=> (after # NoDoc /\ ~ CmsDocs!Later(after, all[i]))
                 /\ last \in k..(k + asked)
                 /\ page.items = SubSeq(all, k + 1, last)
                 /\ IF last = Len(all) THEN page.next = NoDoc
                    ELSE last > k /\ page.next = all[last]
<1> DEFINE all == CmsDocs!list_published(CmsDocs!Cardinality(Docs), NoDoc).items
           page == CmsDocs!ListPublicChangelog(asked, after)
           S == CmsDocs!Published("changelog_entry")
           n == Cardinality(S)
           limit == CmsDocs!Max({1, CmsDocs!Min({asked, _CHANGELOG_LIST_MAX_LIMIT})})
           rows == EntryList(after)
           T == EntriesAfter(after)
<1>1. S \in SUBSET CmsDocs!Stored /\ all \in ListsOf(S, LaterOrder)
  BY ChangelogIs
<1>2. limit \in Nat \ {0} /\ limit <= asked
  <2>1. _CHANGELOG_LIST_MAX_LIMIT \in Nat \ {0}
    BY CmsAssumption
  <2> DEFINE least == CmsDocs!Min({asked, _CHANGELOG_LIST_MAX_LIMIT})
  <2>2. least \in Nat \ {0} /\ least <= asked
    BY <2>1 DEF CmsDocs!Min
  <2> HIDE DEF least
  <2>3. CmsDocs!Max({1, least}) = least
    BY <2>2 DEF CmsDocs!Max
  <2> QED
    BY <2>2, <2>3 DEF least
<1>3. page = PageOf(rows, limit)
  BY PageIs DEF CmsDocs!ListPublicChangelog
<1>4. T = {d \in S : after # NoDoc => CmsDocs!Later(after, d)}
  BY CmsAssumption DEF EntriesAfter, CmsDocs!Stored
<1>5. rows \in ListsOf(T, LaterOrder) /\ IsFiniteSet(T) /\ T \in SUBSET CmsDocs!Stored
  BY EntriesAre
<1> HIDE DEF all, page, S, limit, rows, T
<1>6. /\ all \in Seq(S) /\ Len(all) = n /\ DOMAIN all = 1..n
      /\ {all[i] : i \in 1..n} = S
  BY <1>1, ListHas
<1>7. IsFiniteSet(S) /\ n \in Nat
  BY <1>1, StoredIs, FS_Subset, FS_CardinalityType
<1>8. PICK k \in 0..n : \A i \in 1..n : i <= k <=> (after # NoDoc /\ ~ CmsDocs!Later(after, all[i]))
  <2>1. CASE after = NoDoc
    <3>1. 0 \in 0..n /\ \A i \in 1..n : ~ (i <= 0)
      BY <1>7
    <3> QED
      BY <2>1, <3>1
  <2>2. CASE after # NoDoc
    <3>1. after \in CmsDocs!Stored
      BY <2>2
    <3> QED
      BY <1>1, <2>2, <3>1, RestIs
  <2> QED
    BY <2>1, <2>2
<1>9. T = {all[i] : i \in (k + 1)..n}
  <2>1. \A i \in 1..n : i \in (k + 1)..n <=> ~ (i <= k)
    BY <1>7
  <2>2. \A i \in (k + 1)..n : i \in 1..n
    BY <1>7
  <2>3. \A i \in 1..n : all[i] \in T <=> i \in (k + 1)..n
    BY <1>4, <1>6, <1>8, <2>1
  <2>4. T \subseteq S
    BY <1>4
  <2> QED
    BY <1>6, <2>2, <2>3, <2>4
<1> DEFINE m == n - k
           rest == [i \in 1..m |-> all[k + i]]
<1>10. m \in Nat /\ m = Cardinality(T) /\ rest \in ListsOf(T, LaterOrder)
  BY <1>1, <1>7, <1>9, ListRest
<1>11. rows = rest
  <2>1. StrictOrder(LaterOrder, T) /\ \A x, y \in T : x # y => <<x, y>> \in LaterOrder \/ <<y, x>> \in LaterOrder
    <3>1. /\ StrictOrder(LaterOrder, CmsDocs!Stored)
          /\ \A x, y \in CmsDocs!Stored : x # y => <<x, y>> \in LaterOrder \/ <<y, x>> \in LaterOrder
      BY OrdersAre
    <3> QED
      BY <1>5, <3>1 DEF StrictOrder
  <2> HIDE DEF rest
  <2> QED
    BY <1>5, <1>10, <2>1, ListIsUnique
<1>12. /\ Len(rows) = m /\ rows \in Seq(S)
       /\ \A i \in 1..m : k + i \in 1..n /\ rows[i] = all[k + i]
  <2>1. \A i \in 1..m : k + i \in 1..n /\ all[k + i] \in S
    BY <1>6, <1>7
  <2> QED
    BY <1>10, <1>11, <2>1
<1> HIDE DEF rest
<1> DEFINE last == IF m > limit THEN k + limit ELSE n
<1>13. /\ last \in 0..n /\ last \in k..(k + asked)
       /\ (last = n) <=> ~ (m > limit)
       /\ last = n \/ last > k
  BY <1>2, <1>7, <1>10
<1>14. page.items = SubSeq(all, k + 1, last)
  <2>1. CASE m > limit
    <3>1. page.items = SubSeq(rows, 1, limit) /\ last = k + limit
      BY <1>3, <1>12, <2>1 DEF PageOf
    <3>2. SubSeq(rows, 1, limit) = [i \in 1..limit |-> rows[i]]
      BY <1>2, <1>10, <1>12, <2>1
    <3>3. SubSeq(all, k + 1, last) = [i \in 1..limit |-> all[k + i]]
      <4>1. k \in Nat /\ limit \in Nat /\ k + limit <= Len(all)
        BY <1>2, <1>6, <1>7, <1>10, <2>1
      <4> HIDE DEF last, n, m
      <4>2. SubSeq(all, k + 1, k + limit) = [i \in 1..limit |-> all[k + i]]
        BY <1>6, <4>1, SliceIs
      <4> QED
        BY <3>1, <4>2
    <3>4. \A i \in 1..limit : rows[i] = all[k + i]
      BY <1>2, <1>10, <1>12, <2>1
    <3> QED
      BY <3>1, <3>2, <3>3, <3>4
  <2>2. CASE ~ (m > limit)
    <3>1. page.items = rows /\ last = n
      BY <1>3, <1>12, <2>2 DEF PageOf
    <3>2. SubSeq(all, k + 1, last) = [i \in 1..m |-> all[k + i]]
      <4>1. k \in Nat /\ k + m = n /\ k + m <= Len(all)
        BY <1>6, <1>7, <1>10
      <4> HIDE DEF last, n, m
      <4>2. SubSeq(all, k + 1, k + m) = [i \in 1..m |-> all[k + i]]
        BY <1>6, <1>10, <4>1, SliceIs
      <4> QED
        BY <3>1, <4>1, <4>2
    <3> QED
      BY <1>11, <3>1, <3>2 DEF rest
  <2> QED
    BY <2>1, <2>2
<1>15. IF last = n THEN page.next = NoDoc ELSE last > k /\ page.next = all[last]
  <2>1. CASE m > limit
    <3>1. page.next = SubSeq(rows, 1, limit)[limit]
      BY <1>3, <1>12, <2>1 DEF PageOf
    <3>2. SubSeq(rows, 1, limit)[limit] = rows[limit] /\ limit \in 1..m
      BY <1>2, <1>10, <1>12, <2>1
    <3> QED
      BY <1>12, <1>13, <2>1, <3>1, <3>2
  <2>2. CASE ~ (m > limit)
    BY <1>3, <1>12, <1>13, <2>2 DEF PageOf
  <2> QED
    BY <2>1, <2>2
<1> HIDE DEF last, n, m
<1> QED
  BY <1>6, <1>8, <1>13, <1>14, <1>15 DEF all, page

AppendedTo(s, x) == Append(s, x)

LEMMA AppendSet ==
    ASSUME NEW S, NEW s \in Seq(S), NEW x \in S
    PROVE  CmsDocs!ToSet(AppendedTo(s, x)) = CmsDocs!ToSet(s) \cup {x}
<1> DEFINE u == Append(s, x)
<1>1. /\ DOMAIN s = 1..Len(s) /\ Len(s) \in Nat
      /\ DOMAIN u = 1..(Len(s) + 1) /\ u[Len(s) + 1] = x
      /\ \A i \in 1..Len(s) : u[i] = s[i]
  OBVIOUS
<1>2. \A i \in 1..(Len(s) + 1) : i = Len(s) + 1 \/ i \in 1..Len(s)
  BY <1>1
<1>3. Len(s) + 1 \in 1..(Len(s) + 1) /\ \A i \in 1..Len(s) : i \in 1..(Len(s) + 1)
  BY <1>1
<1> HIDE DEF u
<1>4. CmsDocs!ToSet(u) = CmsDocs!ToSet(s) \cup {x}
  BY <1>1, <1>2, <1>3 DEF CmsDocs!ToSet
<1> QED
  BY <1>4 DEF u, AppendedTo

LEMMA SingletonSet == \A x : CmsDocs!ToSet(<<x>>) = {x}
BY DEF CmsDocs!ToSet

SectionView(S) == [section : Int, pages : Seq(S)]

(* v is the first k pages of a flat list, cut into sections. *)
Cut(flat, S, k, v) ==
    /\ v \in Seq(SectionView(S))
    /\ k > 0 => Len(v) > 0 /\ v[Len(v)].section = doc[flat[k]].place
    /\ \A i \in 1..Len(v) : \A d \in CmsDocs!ToSet(v[i].pages) :
          doc[d].place = v[i].section /\ \E m \in 1..k : d = flat[m]
    /\ \A m \in 1..k : \E i \in 1..Len(v) : flat[m] \in CmsDocs!ToSet(v[i].pages)
    /\ \A i, j \in 1..Len(v) : i < j => v[i].section < v[j].section
    /\ k = 0 => v = <<>>

(* A page opens a section or joins the last one. *)
Starts(flat, k) == k = 1 \/ doc[flat[k]].place # doc[flat[k - 1]].place

CutNext(flat, k, v) ==
    IF Starts(flat, k)
    THEN Append(v, [section |-> doc[flat[k]].place, pages |-> <<flat[k]>>])
    ELSE [v EXCEPT ![Len(v)].pages = Append(@, flat[k])]

LEMMA CutNextType ==
    ASSUME NEW S, NEW flat, NEW k, flat[k] \in S, doc[flat[k]].place \in Int,
           NEW v \in Seq(SectionView(S))
    PROVE  CutNext(flat, k, v) \in Seq(SectionView(S))
<1>1. [section |-> doc[flat[k]].place, pages |-> <<flat[k]>>] \in SectionView(S)
  BY DEF SectionView
<1>2. CASE Starts(flat, k)
  BY <1>1, <1>2 DEF CutNext
<1>3. CASE ~ Starts(flat, k)
  <2> DEFINE L == Len(v)
             w == [v EXCEPT ![L].pages = Append(@, flat[k])]
  <2>1. L \in Nat /\ v \in [1..L -> SectionView(S)]
    OBVIOUS
  <2>2. ASSUME NEW i \in 1..L PROVE w[i] \in SectionView(S)
    <3>1. v[i] \in SectionView(S)
      BY <2>1
    <3>2. CASE i = L
      <4>1. w[i] = [v[i] EXCEPT !.pages = Append(@, flat[k])]
        BY <2>1, <3>2
      <4>2. Append(v[i].pages, flat[k]) \in Seq(S)
        BY <3>1 DEF SectionView
      <4> QED
        BY <3>1, <4>1, <4>2 DEF SectionView
    <3>3. CASE i # L
      BY <2>1, <3>1, <3>3
    <3> QED
      BY <3>2, <3>3
  <2>3. w \in [1..L -> SectionView(S)]
    <3>1. DOMAIN w = 1..L /\ w = [i \in 1..L |-> w[i]]
      BY <2>1
    <3> HIDE DEF w
    <3> QED
      BY <2>2, <3>1
  <2> HIDE DEF w, L
  <2>4. w \in Seq(SectionView(S))
    BY <2>1, <2>3
  <2> QED
    BY <1>3, <2>4 DEF CutNext, w, L
<1> QED
  BY <1>2, <1>3

LEMMA CutStep ==
    ASSUME NEW S, NEW n \in Nat, NEW flat \in [1..n -> S],
           \A d \in S : doc[d].place \in Int,
           \A i, j \in 1..n : i < j => doc[flat[i]].place <= doc[flat[j]].place,
           NEW k \in 1..n, NEW v, Cut(flat, S, k - 1, v)
    PROVE  Cut(flat, S, k, CutNext(flat, k, v))
<1> DEFINE x == flat[k]
           p == doc[x].place
           L == Len(v)
           w == CutNext(flat, k, v)
<1>1. x \in S /\ p \in Int
  OBVIOUS
<1>2. /\ v \in Seq(SectionView(S)) /\ L \in Nat
      /\ \A i \in 1..L : v[i] \in SectionView(S)
  BY DEF Cut
<1>3. w \in Seq(SectionView(S))
  BY <1>1, <1>2, CutNextType
<1>4. /\ \A i \in 1..L : v[i].section \in Int /\ v[i].pages \in Seq(S)
      /\ \A i \in 1..L : v[i] = [section |-> v[i].section, pages |-> v[i].pages]
  BY <1>2 DEF SectionView
<1>5. /\ \A i \in 1..L : \A d \in CmsDocs!ToSet(v[i].pages) :
            doc[d].place = v[i].section /\ \E m \in 1..k : d = flat[m]
      /\ \A m \in 1..(k - 1) : \E i \in 1..L : flat[m] \in CmsDocs!ToSet(v[i].pages)
      /\ \A i, j \in 1..L : i < j => v[i].section < v[j].section
  <2>1. \A m \in 1..(k - 1) : m \in 1..k
    OBVIOUS
  <2> QED
    BY <2>1 DEF Cut
<1>6. k > 1 => L > 0 /\ L \in 1..L /\ v[L].section = doc[flat[k - 1]].place
  BY <1>2 DEF Cut
<1>7. k = 1 => L = 0
  BY DEF Cut
<1>8. \A m \in 1..k : m = k \/ m \in 1..(k - 1)
  OBVIOUS
<1>9. CmsDocs!ToSet(<<x>>) = {x}
  BY SingletonSet
<1>10. CASE Starts(flat, k)
  <2> DEFINE view == [section |-> p, pages |-> <<x>>]
  <2>1. w = Append(v, view)
    BY <1>10 DEF CutNext
  <2>2. view.section = p /\ view.pages = <<x>>
    OBVIOUS
  <2> HIDE DEF view, w
  <2>3. /\ Len(w) = L + 1 /\ w[L + 1] = view /\ \A i \in 1..L : w[i] = v[i]
        /\ L + 1 \in 1..(L + 1) /\ \A i \in 1..L : i \in 1..(L + 1)
        /\ \A i \in 1..(L + 1) : i = L + 1 \/ i \in 1..L
    BY <1>2, <2>1
  <2>4. \A i \in 1..L : v[i].section < p
    <3> SUFFICES ASSUME NEW i \in 1..L PROVE v[i].section < p
      OBVIOUS
    <3>1. k > 1
      BY <1>2, <1>7
    <3>2. k - 1 \in 1..n /\ k - 1 < k
      BY <3>1
    <3>3. doc[flat[k - 1]].place <= p /\ doc[flat[k - 1]].place \in Int
      BY <3>2
    <3>4. doc[flat[k - 1]].place # p
      BY <1>10, <3>1 DEF Starts
    <3>5. v[i].section = v[L].section \/ v[i].section < v[L].section
      BY <1>2, <1>5, <1>6, <3>1
    <3>6. v[i].section \in Int
      BY <1>4
    <3> HIDE DEF p, L, x
    <3> QED
      BY <1>1, <1>6, <3>1, <3>3, <3>4, <3>5, <3>6
  <2>5. w[Len(w)].section = doc[flat[k]].place /\ Len(w) > 0
    BY <1>2, <2>2, <2>3
  <2>6. \A i \in 1..Len(w) : \A d \in CmsDocs!ToSet(w[i].pages) :
           doc[d].place = w[i].section /\ \E m \in 1..k : d = flat[m]
    <3> SUFFICES ASSUME NEW i \in 1..(L + 1), NEW d \in CmsDocs!ToSet(w[i].pages)
                 PROVE  doc[d].place = w[i].section /\ \E m \in 1..k : d = flat[m]
      BY <2>3
    <3>1. CASE i = L + 1
      <4>1. w[i].pages = <<x>> /\ w[i].section = p
        BY <2>2, <2>3, <3>1
      <4>2. d = x
        BY <1>9, <4>1
      <4> QED
        BY <4>1, <4>2
    <3>2. CASE i \in 1..L
      <4>1. w[i] = v[i]
        BY <2>3, <3>2
      <4> QED
        BY <1>5, <3>2, <4>1
    <3> QED
      BY <2>3, <3>1, <3>2
  <2>7. \A m \in 1..k : \E i \in 1..Len(w) : flat[m] \in CmsDocs!ToSet(w[i].pages)
    BY <1>5, <1>8, <1>9, <2>2, <2>3
  <2>8. \A i, j \in 1..Len(w) : i < j => w[i].section < w[j].section
    <3> SUFFICES ASSUME NEW i \in 1..Len(w), NEW j \in 1..Len(w), i < j
                 PROVE  w[i].section < w[j].section
      OBVIOUS
    <3>1. i \in 1..L
      BY <1>2, <2>3
    <3>2. CASE j = L + 1
      BY <2>2, <2>3, <2>4, <3>1, <3>2
    <3>3. CASE j \in 1..L
      BY <1>5, <2>3, <3>1, <3>3
    <3> QED
      BY <2>3, <3>2, <3>3
  <2> HIDE DEF p, x, L
  <2> QED
    BY <1>3, <2>5, <2>6, <2>7, <2>8 DEF Cut, w
<1>11. CASE ~ Starts(flat, k)
  <2>1. k > 1 /\ p = doc[flat[k - 1]].place
    BY <1>11 DEF Starts
  <2>2. L \in 1..L /\ v[L].section = p
    BY <1>6, <2>1
  <2>3. w = [v EXCEPT ![L].pages = Append(@, x)]
    BY <1>11 DEF CutNext
  <2>4. /\ Len(w) = L /\ w[L] = [v[L] EXCEPT !.pages = Append(@, x)]
        /\ \A i \in 1..L : i # L => w[i] = v[i]
    <3>1. DOMAIN v = 1..L /\ L \in Nat
      BY <1>2
    <3> HIDE DEF w, L, x
    <3>2. DOMAIN w = 1..L
      BY <2>3, <3>1
    <3>3. Len(w) = L
      BY <1>3, <3>1, <3>2
    <3> QED
      BY <2>2, <2>3, <3>1, <3>3
  <2>5. w[L].section = p /\ w[L].pages = Append(v[L].pages, x)
    <3>1. v[L] \in SectionView(S)
      BY <1>2, <2>2
    <3> HIDE DEF w, p, x, L
    <3> QED
      BY <2>2, <2>4, <3>1 DEF SectionView
  <2>6. CmsDocs!ToSet(w[L].pages) = CmsDocs!ToSet(v[L].pages) \cup {x}
    <3> HIDE DEF w, L, x
    <3>1. v[L].pages \in Seq(S)
      BY <1>4, <2>2
    <3>2. w[L].pages = AppendedTo(v[L].pages, x)
      BY <2>5 DEF AppendedTo
    <3>3. CmsDocs!ToSet(AppendedTo(v[L].pages, x)) = CmsDocs!ToSet(v[L].pages) \cup {x}
      BY <1>1, <3>1, AppendSet
    <3> QED
      BY <3>2, <3>3
  <2>7. \A i \in 1..L : w[i].section = v[i].section
    BY <2>2, <2>4, <2>5
  <2>8. \A i \in 1..L : CmsDocs!ToSet(v[i].pages) \subseteq CmsDocs!ToSet(w[i].pages)
    BY <2>4, <2>6
  <2> HIDE DEF w, L
  <2>9. \A i \in 1..Len(w) : \A d \in CmsDocs!ToSet(w[i].pages) :
           doc[d].place = w[i].section /\ \E m \in 1..k : d = flat[m]
    <3> SUFFICES ASSUME NEW i \in 1..L, NEW d \in CmsDocs!ToSet(w[i].pages)
                 PROVE  doc[d].place = w[i].section /\ \E m \in 1..k : d = flat[m]
      BY <2>4
    <3>1. CASE d = x /\ i = L
      BY <2>5, <3>1
    <3>2. CASE d \in CmsDocs!ToSet(v[i].pages)
      BY <1>5, <2>7, <3>2
    <3> QED
      BY <2>4, <2>6, <3>1, <3>2
  <2>10. \A m \in 1..k : \E i \in 1..Len(w) : flat[m] \in CmsDocs!ToSet(w[i].pages)
    <3> SUFFICES ASSUME NEW m \in 1..k PROVE \E i \in 1..L : flat[m] \in CmsDocs!ToSet(w[i].pages)
      BY <2>4
    <3>1. CASE m = k
      BY <2>2, <2>6, <3>1
    <3>2. CASE m \in 1..(k - 1)
      BY <1>5, <2>8, <3>2
    <3> QED
      BY <1>8, <3>1, <3>2
  <2>11. \A i, j \in 1..Len(w) : i < j => w[i].section < w[j].section
    BY <1>5, <2>4, <2>7
  <2>12. w[Len(w)].section = doc[flat[k]].place /\ Len(w) > 0
    BY <1>2, <2>2, <2>4, <2>5
  <2> HIDE DEF p, x
  <2> QED
    BY <1>3, <2>9, <2>10, <2>11, <2>12 DEF Cut, w
<1> QED
  BY <1>10, <1>11

(* SectionViews is that cut of the flat list. *)
LEMMA ViewsExist ==
    ASSUME NEW S, NEW n \in Nat, NEW flat \in [1..n -> S], \A d \in S : doc[d].place \in Int
    PROVE  \E f : /\ f[0] = <<>>
                  /\ \A k \in 1..n : f[k] = CutNext(flat, k, f[k - 1])
                  /\ CmsDocs!SectionViews(flat) = f[n]
<1> DEFINE V == Seq(SectionView(S))
           G == [x \in (1..n) \X V |-> CutNext(flat, x[1], x[2])]
           Eq(f) == f = [k \in 0..n |-> IF k = 0 THEN <<>> ELSE CutNext(flat, k, f[k - 1])]
<1>1. <<>> \in V /\ \A k \in 1..n, v \in V : CutNext(flat, k, v) \in V
  BY CutNextType
<1>2. G \in [(1..n) \X V -> V]
  <2> HIDE DEF V
  <2> QED
    BY <1>1
<1> HIDE DEF V
<1>3. PICK f \in [0..n -> V] : Recursive(f, n, <<>>, G)
  <2> HIDE DEF G
  <2> QED
    BY <1>1, <1>2, Recursion
<1>4. f[0] = <<>> /\ \A k \in 1..n : f[k] = G[<<k, f[k - 1]>>]
  BY <1>3 DEF Recursive
<1>5. ASSUME NEW k \in 1..n PROVE f[k] = CutNext(flat, k, f[k - 1])
  <2>1. k - 1 \in 0..n
    OBVIOUS
  <2>2. <<k, f[k - 1]>> \in (1..n) \X V
    BY <1>3, <2>1
  <2> QED
    BY <1>4, <2>2
<1>6. Eq(f)
  BY <1>3, <1>4, <1>5
<1>7. Eq(CHOOSE g : Eq(g))
  <2> HIDE DEF Eq
  <2> QED
    BY <1>6
<1> DEFINE g == CHOOSE h : Eq(h)
<1>8. Len(flat) = n
  OBVIOUS
<1>9. CmsDocs!SectionViews(flat) = g[n]
  BY <1>8 DEF CmsDocs!SectionViews, CutNext, Starts
<1>10. g = [k \in 0..n |-> IF k = 0 THEN <<>> ELSE CutNext(flat, k, g[k - 1])]
  BY <1>7
<1> HIDE DEF g, Eq
<1>11. g[0] = <<>> /\ \A k \in 1..n : g[k] = CutNext(flat, k, g[k - 1])
  <2>1. 0 \in 0..n /\ \A k \in 1..n : k \in 0..n /\ k # 0
    OBVIOUS
  <2> QED
    BY <1>10, <2>1
<1> QED
  BY <1>9, <1>11

LEMMA ViewsAreCut ==
    ASSUME NEW S, NEW n \in Nat, NEW flat \in [1..n -> S],
           \A d \in S : doc[d].place \in Int,
           \A i, j \in 1..n : i < j => doc[flat[i]].place <= doc[flat[j]].place
    PROVE  Cut(flat, S, n, CmsDocs!SectionViews(flat))
<1>1. PICK f : /\ f[0] = <<>>
               /\ \A k \in 1..n : f[k] = CutNext(flat, k, f[k - 1])
               /\ CmsDocs!SectionViews(flat) = f[n]
  BY ViewsExist
<1> DEFINE bad == {k \in 0..n : ~ Cut(flat, S, k, f[k])}
<1>2. ASSUME bad # {} PROVE FALSE
  <2>1. bad \in SUBSET Nat
    OBVIOUS
  <2>2. PICK k \in bad : \A m \in bad : k <= m
    <3> HIDE DEF bad
    <3> QED
      BY <1>2, <2>1, LeastNat
  <2>3. k \in 0..n /\ ~ Cut(flat, S, k, f[k])
    BY <2>2
  <2>4. k # 0
    <3>1. Cut(flat, S, 0, <<>>)
      BY DEF Cut
    <3> QED
      BY <1>1, <2>3, <3>1
  <2>5. k \in 1..n /\ k - 1 \in 0..n /\ ~ (k <= k - 1)
    BY <2>3, <2>4
  <2>6. Cut(flat, S, k - 1, f[k - 1])
    BY <2>2, <2>5
  <2>7. Cut(flat, S, k, CutNext(flat, k, f[k - 1]))
    BY <2>5, <2>6, CutStep
  <2> QED
    BY <1>1, <2>3, <2>5, <2>7
<1>3. n \in 0..n
  OBVIOUS
<1> QED
  BY <1>1, <1>2, <1>3

(* The methodology: the sections are those of the published pages, each once. *)
LEMMA MethodologyIs ==
    ASSUME CmsInv
    PROVE  LET views == CmsDocs!ListPublicMethodology
           IN /\ UNION {CmsDocs!ToSet(views[i].pages) : i \in DOMAIN views}
                    = CmsDocs!Published("methodology_page")
              /\ \A i, j \in DOMAIN views : i # j => views[i].section # views[j].section
              /\ \A i \in DOMAIN views : \A d \in CmsDocs!ToSet(views[i].pages) :
                    doc[d].place = views[i].section
<1> DEFINE S == CmsDocs!Published("methodology_page")
           flat == CmsDocs!list_published_grouped_by_section
           views == CmsDocs!ListPublicMethodology
           n == Cardinality(S)
<1>1. S \in SUBSET CmsDocs!Stored
  BY DEF CmsDocs!Published
<1> HIDE DEF S
<1>2. flat \in ListsOf(S, SectionOrder)
  BY <1>1, OrderBySection DEF CmsDocs!list_published_grouped_by_section, S
<1>3. n \in Nat
  BY <1>1, StoredIs, FS_Subset, FS_CardinalityType
<1>4. views = CmsDocs!SectionViews(flat)
  BY DEF CmsDocs!ListPublicMethodology
<1> HIDE DEF flat, views
<1>5. flat \in [1..n -> S]
  BY <1>2 DEF ListsOf
<1>6. /\ {flat[i] : i \in 1..n} = S
      /\ \A i, j \in 1..n : i < j => <<flat[j], flat[i]>> \notin SectionOrder
  BY <1>1, <1>2, ListHas
<1> HIDE DEF n
<1>7. \A d \in S : doc[d].place \in Int
  BY <1>1, StoredIs
<1>8. ASSUME NEW i \in 1..n, NEW j \in 1..n, i < j PROVE doc[flat[i]].place <= doc[flat[j]].place
  <2> DEFINE a == flat[i]
             b == flat[j]
  <2>1. a \in CmsDocs!Stored /\ b \in CmsDocs!Stored /\ a \in S /\ b \in S
    BY <1>1, <1>5
  <2>2. <<b, a>> \notin SectionOrder
    BY <1>6, <1>8
  <2> HIDE DEF a, b
  <2>3. ~ CmsDocs!BySection(b, a)
    BY <2>1, <2>2, OrdersAre
  <2>4. ~ (doc[b].place < doc[a].place)
    BY <2>3 DEF CmsDocs!BySection
  <2>5. doc[a].place <= doc[b].place
    BY <1>7, <2>1, <2>4
  <2> QED
    BY <2>5 DEF a, b
<1>9. Cut(flat, S, n, views)
  BY <1>3, <1>4, <1>5, <1>7, <1>8, ViewsAreCut
<1> DEFINE L == Len(views)
<1>10. /\ DOMAIN views = 1..L /\ L \in Nat
       /\ \A i \in 1..L : views[i].section \in Int
  <2>1. views \in Seq(SectionView(S))
    BY <1>9 DEF Cut
  <2>2. DOMAIN views = 1..L /\ L \in Nat /\ \A i \in 1..L : views[i] \in SectionView(S)
    BY <2>1
  <2> QED
    BY <2>2 DEF SectionView
<1>11. /\ \A i \in 1..L : \A d \in CmsDocs!ToSet(views[i].pages) :
             doc[d].place = views[i].section /\ \E m \in 1..n : d = flat[m]
       /\ \A m \in 1..n : \E i \in 1..L : flat[m] \in CmsDocs!ToSet(views[i].pages)
       /\ \A i, j \in 1..L : i < j => views[i].section < views[j].section
  BY <1>9 DEF Cut
<1> HIDE DEF L
<1>12. \A i, j \in 1..L : i # j => views[i].section # views[j].section
  <2>1. \A i, j \in 1..L : i # j => i < j \/ j < i
    BY <1>10
  <2> QED
    BY <1>10, <1>11, <2>1
<1>13. UNION {CmsDocs!ToSet(views[i].pages) : i \in 1..L} = S
  <2>1. ASSUME NEW i \in 1..L, NEW d \in CmsDocs!ToSet(views[i].pages) PROVE d \in S
    BY <1>6, <1>11
  <2>2. ASSUME NEW d \in S PROVE \E i \in 1..L : d \in CmsDocs!ToSet(views[i].pages)
    BY <1>6, <1>11
  <2> QED
    BY <2>1, <2>2
<1> QED
  BY <1>10, <1>11, <1>12, <1>13 DEF S, views

LEMMA ListsArePublic == CmsInv /\ KeysInv => CmsDocs!PublicLists
<1> SUFFICES ASSUME CmsInv, KeysInv PROVE CmsDocs!PublicLists
  OBVIOUS
<1> DEFINE all == CmsDocs!list_published(CmsDocs!Cardinality(Docs), NoDoc).items
           cursors == {NoDoc} \cup {d \in CmsDocs!Stored : KindOf[d] = "changelog_entry"}
           Follow(limit, after) ==
               LET page == CmsDocs!ListPublicChangelog(limit, after)
               IN \E k, last \in 0..Len(all) :
                     /\ \A i \in DOMAIN all : i <= k <=> (after # NoDoc /\ ~ CmsDocs!Later(after, all[i]))
                     /\ last \in k..(k + limit)
                     /\ page.items = SubSeq(all, k + 1, last)
                     /\ IF last = Len(all) THEN page.next = NoDoc
                        ELSE last > k /\ page.next = all[last]
<1>1. /\ {key \in Keys : CmsDocs!GetPublicGlossaryTerm(key) = "served"}
            = {doc[d].key : d \in CmsDocs!Published("glossary_term")}
      /\ {key \in Keys : CmsDocs!GetPublicMethodologyPage(key) = "served"}
            = {doc[d].key : d \in CmsDocs!Published("methodology_page")}
      /\ {key \in Keys : CmsDocs!GetPublicChangelogEntry(key) = "served"}
            = {doc[d].key : d \in CmsDocs!Published("changelog_entry")}
  BY KeysServed
  DEF CmsDocs!GetPublicGlossaryTerm, CmsDocs!GetPublicMethodologyPage, CmsDocs!GetPublicChangelogEntry
<1>2. /\ CmsDocs!ToSet(all) = CmsDocs!Published("changelog_entry")
      /\ \A i, j \in DOMAIN all : i < j => CmsDocs!Later(all[i], all[j])
  BY ChangelogIs
<1>3. \A limit \in 1..CmsDocs!Cardinality(Docs), after \in cursors : Follow(limit, after)
  <2>1. \A limit \in 1..CmsDocs!Cardinality(Docs) : limit \in Nat \ {0}
    BY CmsCardinality, CmsAssumption, FS_CardinalityType
  <2> SUFFICES ASSUME NEW limit \in Nat \ {0}, NEW after \in cursors PROVE Follow(limit, after)
    BY <2>1
  <2> QED
    BY PageFollows
<1> HIDE DEF Follow
<1> QED
  BY <1>1, <1>2, <1>3, GlossaryIs, MethodologyIs DEF CmsDocs!PublicLists, Follow

(* The documents that are served by key and those the lists show are the ones  *)
(* that are published, the sections are cut right, and the pages of the        *)
(* changelog join, whatever editors write, for any documents, keys and limits. *)
THEOREM ListsShowWhatIsPublished == Spec => []PublicLists
<1>1. Init => CmsInv /\ KeysInv
  BY CmsInit, KeysInit DEF Init
<1>2. CmsInv /\ KeysInv => PublicLists
  BY ListsArePublic DEF PublicLists
<1>3. CmsInv /\ KeysInv /\ [Next]_vars => CmsInv' /\ KeysInv'
  BY CmsStep, KeysStep
<1> QED
  BY <1>1, <1>2, <1>3, PTL DEF Spec
--------------------------------------------------------------------------------
(* Causality, the attributions *)

(* What an HFACS request has decided and still relies on at its write: a row   *)
(* that was there keeps its natural key, or is deleted for good.               *)
AttributionCall(table, r) ==
    /\ r.id \in AttributionIds
    /\ \/ /\ r.op = "attach_hfacs"
          /\ r.row \in Hfacs!Attributions
          /\ r.row.sub # NoSub => CategoryOf[r.row.sub] = r.row.category
       \/ /\ r.op = "update_hfacs"
          /\ r.row \in Hfacs!Attributions
          /\ table[r.id] # NoRow
          /\ table[r.id] # Gone => Hfacs!NaturalKey(r.row) = Hfacs!NaturalKey(table[r.id])
       \/ r.op = "delete_hfacs" /\ table[r.id] # NoRow

HfacsInv ==
    /\ attribution \in [AttributionIds -> Hfacs!Attributions \cup {NoRow, Gone}]
    /\ DOMAIN factor = {} /\ DOMAIN interaction = {}
    /\ usage \in Nat
    /\ Hfacs!GraphWhole
    /\ DOMAIN call = Callers
    /\ \A a \in Callers : call[a] # Idle => AttributionCall(attribution, call[a])

(* Instances of one standard operator. *)
LEMMA HfacsCardinality == \A S : Hfacs!Cardinality(S) = Cardinality(S)
BY DEF Hfacs!Cardinality, Cardinality

LEMMA HfacsInit == Hfacs!Init => HfacsInv
<1> SUFFICES ASSUME Hfacs!Init PROVE HfacsInv
  OBVIOUS
<1>1. {i \in AttributionIds : attribution[i] # NoRow} = {}
  BY DEF Hfacs!Init
<1>2. usage = Cardinality({i \in AttributionIds : attribution[i] # NoRow})
  BY <1>1, FS_EmptySet DEF Hfacs!Init
<1>3. /\ Hfacs!Present(attribution) = {}
      /\ Hfacs!Present(interaction) = {}
  BY DEF Hfacs!Init, Hfacs!Present
<1>4. Hfacs!GraphWhole
  BY <1>2, <1>3, HfacsCardinality DEF Hfacs!GraphWhole
<1>5. /\ attribution \in [AttributionIds -> Hfacs!Attributions \cup {NoRow, Gone}]
      /\ DOMAIN factor = {} /\ DOMAIN interaction = {}
      /\ usage \in Nat
  BY DEF Hfacs!Init
<1>6. DOMAIN call = Callers /\ \A a \in Callers : call[a] = Idle
  BY DEF Hfacs!Init
<1> QED
  BY <1>4, <1>5, <1>6 DEF HfacsInv

(* A request that only begins: the tables stay. *)
LEMMA HfacsBegin ==
    ASSUME HfacsInv, NEW a \in Callers, NEW op, NEW id, NEW row, Hfacs!Begin(a, op, id, row),
           AttributionCall(attribution, [op |-> op, id |-> id, row |-> row])
    PROVE  HfacsInv'
<1>1. /\ call' = [call EXCEPT ![a] = [op |-> op, id |-> id, row |-> row]]
      /\ UNCHANGED <<attribution, factor, interaction, usage>>
  BY DEF Hfacs!Begin, Hfacs!tables
<1>2. \A b \in Callers : call'[b] # Idle => AttributionCall(attribution, call'[b])
  BY <1>1 DEF HfacsInv
<1>3. DOMAIN call' = Callers
  BY <1>1 DEF HfacsInv
<1>4. Hfacs!GraphWhole'
  BY <1>1 DEF HfacsInv, Hfacs!GraphWhole, Hfacs!Present
<1> QED
  BY <1>1, <1>2, <1>3, <1>4 DEF HfacsInv

(* A request that ends without a write. *)
LEMMA HfacsRefuse ==
    ASSUME HfacsInv, NEW a \in Callers, Hfacs!Refuse(a)
    PROVE  HfacsInv'
<1>1. /\ call' = [call EXCEPT ![a] = Idle]
      /\ UNCHANGED <<attribution, factor, interaction, usage>>
  BY DEF Hfacs!Refuse, Hfacs!tables
<1>2. \A b \in Callers : call'[b] # Idle => AttributionCall(attribution, call'[b])
  BY <1>1 DEF HfacsInv
<1>3. DOMAIN call' = Callers
  BY <1>1 DEF HfacsInv
<1>4. Hfacs!GraphWhole'
  BY <1>1 DEF HfacsInv, Hfacs!GraphWhole, Hfacs!Present
<1> QED
  BY <1>1, <1>2, <1>3, <1>4 DEF HfacsInv

(* A write that leaves every other row alone, and turns its own row into       *)
(* something with the natural key it had, or into a deleted row.               *)
AttributionWrite(old, new, id) ==
    /\ new \in [AttributionIds -> Hfacs!Attributions \cup {NoRow, Gone}]
    /\ \A i \in AttributionIds \ {id} : new[i] = old[i]
    /\ old[id] = Gone => new[id] = Gone
    /\ new[id] # NoRow
    /\ new[id] # Gone /\ old[id] # NoRow =>
          Hfacs!NaturalKey(new[id]) = Hfacs!NaturalKey(old[id])

(* The write of a request leaves what the other requests rely on. *)
LEMMA AttributionCallsStay ==
    ASSUME NEW old, NEW new, NEW id \in AttributionIds, AttributionWrite(old, new, id),
           NEW r, AttributionCall(old, r)
    PROVE  AttributionCall(new, r)
BY DEF AttributionWrite, AttributionCall

LEMMA HfacsWrite ==
    ASSUME HfacsInv, NEW a \in Callers, Hfacs!Commit(a)
    PROVE  /\ AttributionWrite(attribution, attribution', call[a].id)
           /\ Hfacs!GraphWhole'
           /\ usage' \in Nat
           /\ UNCHANGED <<factor, interaction>>
           /\ attribution[call[a].id] = NoRow
              \/ attribution'[call[a].id] \in {attribution[call[a].id], Gone}
              \/ /\ attribution'[call[a].id].version = attribution[call[a].id].version + 1
                 /\ Hfacs!NaturalKey(attribution'[call[a].id]) = Hfacs!NaturalKey(attribution[call[a].id])
<1> DEFINE r == call[a]
<1>1. AttributionCall(attribution, r) /\ Hfacs!Written(r)
  BY DEF HfacsInv, Hfacs!Commit
<1>2. CASE r.op = "attach_hfacs"
  <2>1. Hfacs!add_attribution(r)
    BY <1>1, <1>2 DEF Hfacs!Written
  <2>2. /\ r.row \in Hfacs!Attributions /\ r.id \in AttributionIds
        /\ r.row.sub # NoSub => CategoryOf[r.row.sub] = r.row.category
    BY <1>1, <1>2 DEF AttributionCall
  <2>3. /\ attribution[r.id] = NoRow
        /\ attribution' = [attribution EXCEPT ![r.id] = r.row]
        /\ usage' = usage + 1
        /\ UNCHANGED <<factor, interaction>>
        /\ \A i \in Hfacs!Present(attribution) :
              Hfacs!NaturalKey(attribution[i]) # Hfacs!NaturalKey(r.row)
    BY <2>1 DEF Hfacs!add_attribution, Hfacs!Fresh, Hfacs!uq_event_hfacs_attributions_natural
  <2>4. AttributionWrite(attribution, attribution', r.id)
    BY <2>2, <2>3, CausalityAssumption DEF HfacsInv, AttributionWrite
  <2>5. Hfacs!Present(attribution)' = Hfacs!Present(attribution) \cup {r.id}
    BY <2>2, <2>3, CausalityAssumption DEF HfacsInv, Hfacs!Present
  <2>6. /\ \A i \in Hfacs!Present(attribution) : attribution'[i] = attribution[i] /\ i # r.id
        /\ attribution'[r.id] = r.row
    BY <2>2, <2>3 DEF HfacsInv, Hfacs!Present
  <2>7. usage' = Cardinality({i \in AttributionIds : attribution'[i] # NoRow})
    <3> DEFINE before == {i \in AttributionIds : attribution[i] # NoRow}
               after  == {i \in AttributionIds : attribution'[i] # NoRow}
    <3>1. after = before \cup {r.id} /\ r.id \notin before
      BY <2>2, <2>3, CausalityAssumption DEF HfacsInv
    <3>2. IsFiniteSet(before)
      BY CausalityAssumption, FS_Subset
    <3>3. usage = Cardinality(before)
      BY HfacsCardinality DEF HfacsInv, Hfacs!GraphWhole
    <3> QED
      BY <3>1, <3>2, <3>3, <2>3, FS_AddElement
  <2>8. Hfacs!GraphWhole'
    <3>1. Hfacs!Present(interaction)' = {}
      BY <2>3 DEF HfacsInv, Hfacs!Present
    <3>2. \A i, j \in Hfacs!Present(attribution)' :
             i # j => Hfacs!NaturalKey(attribution'[i]) # Hfacs!NaturalKey(attribution'[j])
      BY <2>3, <2>5, <2>6 DEF HfacsInv, Hfacs!GraphWhole
    <3>3. \A i \in Hfacs!Present(attribution)' :
             attribution'[i].sub # NoSub => CategoryOf[attribution'[i].sub] = attribution'[i].category
      BY <2>2, <2>5, <2>6 DEF HfacsInv, Hfacs!GraphWhole
    <3> QED
      BY <2>7, <3>1, <3>2, <3>3, HfacsCardinality DEF Hfacs!GraphWhole
  <2> QED
    BY <2>3, <2>4, <2>8 DEF HfacsInv
<1>3. CASE r.op \in {"update_hfacs", "delete_hfacs"}
  <2>1. Hfacs!update_attribution(r) \/ Hfacs!delete_attribution(r)
    BY <1>1, <1>3 DEF Hfacs!Written
  <2>2. r.id \in AttributionIds /\ attribution[r.id] # NoRow
    BY <1>1, <1>3 DEF AttributionCall
  <2>3. PICK row \in Hfacs!Attributions \cup {Gone} :
           /\ attribution' = [attribution EXCEPT ![r.id] = row]
           /\ row # Gone => /\ r.id \in Hfacs!Present(attribution)
                            /\ attribution[r.id].version = row.version - 1
                            /\ Hfacs!NaturalKey(row) = Hfacs!NaturalKey(attribution[r.id])
    <3>1. CASE Hfacs!delete_attribution(r)
      BY <3>1 DEF Hfacs!delete_attribution
    <3>2. CASE Hfacs!update_attribution(r) /\ r.op = "update_hfacs"
      <4>1. /\ r.row \in Hfacs!Attributions
            /\ r.id \in Hfacs!Present(attribution)
            /\ attribution[r.id].version = r.row.version - 1
            /\ attribution' = [attribution EXCEPT ![r.id] = r.row]
        BY <1>1, <3>2 DEF Hfacs!update_attribution, Hfacs!VersionMatches, Hfacs!Expected, AttributionCall
      <4>2. attribution[r.id] # Gone
        BY <4>1 DEF Hfacs!Present
      <4> QED
        BY <1>1, <3>2, <4>1, <4>2 DEF AttributionCall
    <3> QED
      BY <1>1, <1>3, <3>1, <3>2 DEF Hfacs!Written
  <2>4. UNCHANGED <<factor, interaction, usage>>
    BY <2>1 DEF Hfacs!update_attribution, Hfacs!delete_attribution
  <2>5. /\ attribution'[r.id] = row
        /\ \A i \in AttributionIds \ {r.id} : attribution'[i] = attribution[i]
        /\ attribution' \in [AttributionIds -> Hfacs!Attributions \cup {NoRow, Gone}]
    BY <2>2, <2>3 DEF HfacsInv
  <2>6. row # NoRow
    BY <2>3, CausalityAssumption
  <2>7. AttributionWrite(attribution, attribution', r.id)
    BY <2>2, <2>3, <2>5, <2>6 DEF AttributionWrite, Hfacs!Present
  <2>8. Hfacs!GraphWhole'
    <3>1. Hfacs!Present(interaction)' = {}
      BY <2>4 DEF HfacsInv, Hfacs!Present
    <3>2. \A i \in Hfacs!Present(attribution)' :
             /\ i \in Hfacs!Present(attribution)
             /\ Hfacs!NaturalKey(attribution'[i]) = Hfacs!NaturalKey(attribution[i])
      BY <2>3, <2>5 DEF HfacsInv, Hfacs!Present
    <3>3. \A i \in Hfacs!Present(attribution)' : /\ attribution'[i].sub = attribution[i].sub
                                                /\ attribution'[i].category = attribution[i].category
      BY <3>2 DEF Hfacs!NaturalKey
    <3>4. {i \in AttributionIds : attribution'[i] # NoRow} = {i \in AttributionIds : attribution[i] # NoRow}
      BY <2>2, <2>5, <2>6
    <3>5. \A i, j \in Hfacs!Present(attribution)' :
             i # j => Hfacs!NaturalKey(attribution'[i]) # Hfacs!NaturalKey(attribution'[j])
      BY <3>2 DEF HfacsInv, Hfacs!GraphWhole
    <3>6. \A i \in Hfacs!Present(attribution)' :
             attribution'[i].sub # NoSub => CategoryOf[attribution'[i].sub] = attribution'[i].category
      BY <3>2, <3>3 DEF HfacsInv, Hfacs!GraphWhole
    <3>7. usage' = Hfacs!Cardinality({i \in AttributionIds : attribution'[i] # NoRow})
      BY <2>4, <3>4 DEF HfacsInv, Hfacs!GraphWhole
    <3> QED
      BY <3>1, <3>5, <3>6, <3>7 DEF Hfacs!GraphWhole
  <2>9. row # Gone => row.version = attribution[r.id].version + 1
    BY <2>3 DEF HfacsInv, Hfacs!Attributions, Hfacs!Present
  <2> QED
    BY <2>3, <2>4, <2>5, <2>7, <2>8, <2>9 DEF HfacsInv
<1> QED
  BY <1>1, <1>2, <1>3 DEF AttributionCall

LEMMA HfacsCommit ==
    ASSUME HfacsInv, NEW a \in Callers, Hfacs!Commit(a)
    PROVE  HfacsInv'
<1>1. AttributionCall(attribution, call[a]) /\ call' = [call EXCEPT ![a] = Idle]
  BY DEF HfacsInv, Hfacs!Commit
<1>2. call[a].id \in AttributionIds
  BY <1>1 DEF AttributionCall
<1>3. /\ AttributionWrite(attribution, attribution', call[a].id)
      /\ Hfacs!GraphWhole'
      /\ usage' \in Nat
      /\ UNCHANGED <<factor, interaction>>
  BY HfacsWrite
<1>4. \A b \in Callers : call'[b] # Idle => b # a /\ call'[b] = call[b]
  BY <1>1 DEF HfacsInv
<1>5. \A b \in Callers : call'[b] # Idle => AttributionCall(attribution', call'[b])
  BY <1>2, <1>3, <1>4, AttributionCallsStay DEF HfacsInv
<1>6. DOMAIN call' = Callers
  BY <1>1 DEF HfacsInv
<1>7. attribution' \in [AttributionIds -> Hfacs!Attributions \cup {NoRow, Gone}]
  BY <1>3 DEF AttributionWrite
<1> QED
  BY <1>3, <1>5, <1>6, <1>7 DEF HfacsInv

LEMMA AttributionEdited ==
    ASSUME NEW old \in Hfacs!Attributions, NEW value \in HfacsValues, old.version < MaxEdits
    PROVE  /\ Hfacs!Edited(old, value) \in Hfacs!Attributions
           /\ Hfacs!NaturalKey(Hfacs!Edited(old, value)) = Hfacs!NaturalKey(old)
<1> DEFINE n == old.version + 1
<1>1. n \in 1..MaxEdits
  BY CausalityAssumption DEF Hfacs!Attributions
<1>2. Hfacs!Edited(old, value) = [old EXCEPT !.value = value, !.version = n]
  BY DEF Hfacs!Edited, Hfacs!Attributions
<1> HIDE DEF n
<1>3. [old EXCEPT !.value = value, !.version = n] \in Hfacs!Attributions
  BY <1>1 DEF Hfacs!Attributions
<1>4. Hfacs!NaturalKey(Hfacs!Edited(old, value)) = Hfacs!NaturalKey(old)
  BY DEF Hfacs!Attributions, Hfacs!Edited, Hfacs!NaturalKey
<1> QED
  BY <1>2, <1>3, <1>4

(* What the requests on attributions carry when they begin. *)
LEMMA HfacsRequest ==
    ASSUME HfacsInv, NEW a \in Callers, NEW id \in AttributionIds,
           \/ Hfacs!attach_event_hfacs(a, id)
           \/ Hfacs!update_event_hfacs(a, id)
           \/ Hfacs!delete_event_hfacs(a, id)
    PROVE  HfacsInv' /\ attribution' = attribution
<1>1. CASE Hfacs!attach_event_hfacs(a, id)
  <2>1. PICK event \in HfacsEvents, category \in Hfacs!Categories,
             sub \in Hfacs!Subcategories \cup {NoSub}, value \in HfacsValues :
                Hfacs!AttachEventHfacsAttribution(a, id, event, category, sub, value)
    BY <1>1 DEF Hfacs!attach_event_hfacs
  <2> DEFINE row == [event |-> event, category |-> category, sub |-> sub,
                     value |-> value, version |-> 1]
  <2>2. /\ sub # NoSub => CategoryOf[sub] = category
        /\ Hfacs!Begin(a, "attach_hfacs", id, row)
    BY <2>1 DEF Hfacs!AttachEventHfacsAttribution
  <2>3. row \in Hfacs!Attributions
    BY CausalityAssumption DEF Hfacs!Attributions
  <2>4. AttributionCall(attribution, [op |-> "attach_hfacs", id |-> id, row |-> row])
    BY <2>2, <2>3 DEF AttributionCall
  <2> QED
    BY <2>2, <2>4, HfacsBegin DEF Hfacs!Begin, Hfacs!tables
<1>2. CASE Hfacs!update_event_hfacs(a, id)
  <2>1. PICK value \in HfacsValues : Hfacs!UpdateEventHfacsAttribution(a, id, value)
    BY <1>2 DEF Hfacs!update_event_hfacs
  <2> DEFINE row == Hfacs!Edited(attribution[id], value)
  <2>2. /\ id \in Hfacs!Present(attribution)
        /\ attribution[id].version < MaxEdits
        /\ Hfacs!Begin(a, "update_hfacs", id, row)
    BY <2>1 DEF Hfacs!UpdateEventHfacsAttribution
  <2>3. attribution[id] \in Hfacs!Attributions
    BY <2>2 DEF HfacsInv, Hfacs!Present
  <2>4. /\ row \in Hfacs!Attributions
        /\ Hfacs!NaturalKey(row) = Hfacs!NaturalKey(attribution[id])
    BY <2>2, <2>3, AttributionEdited
  <2>5. AttributionCall(attribution, [op |-> "update_hfacs", id |-> id, row |-> row])
    BY <2>2, <2>4 DEF AttributionCall, Hfacs!Present
  <2> HIDE DEF row
  <2> QED
    BY <2>2, <2>5, HfacsBegin DEF Hfacs!Begin, Hfacs!tables
<1>3. CASE Hfacs!delete_event_hfacs(a, id)
  <2>1. /\ id \in Hfacs!Present(attribution)
        /\ Hfacs!Begin(a, "delete_hfacs", id, attribution[id])
    BY <1>3 DEF Hfacs!delete_event_hfacs, Hfacs!DeleteEventHfacsAttribution
  <2>2. AttributionCall(attribution, [op |-> "delete_hfacs", id |-> id, row |-> attribution[id]])
    BY <2>1 DEF AttributionCall, Hfacs!Present
  <2> QED
    BY <2>1, <2>2, HfacsBegin DEF Hfacs!Begin, Hfacs!tables
<1> QED
  BY <1>1, <1>2, <1>3

(* A step of the attributions keeps the invariant, and a row only ever becomes *)
(* its next version or a deleted row.                                          *)
LEMMA HfacsNext ==
    ASSUME HfacsInv, Hfacs!Next
    PROVE  HfacsInv' /\ Hfacs!EditStep
<1>0. Hfacs!Present(factor) = {}
  BY DEF HfacsInv, Hfacs!Present
<1>1. CASE \E a \in Callers : \E id \in AttributionIds :
              \/ Hfacs!attach_event_hfacs(a, id)
              \/ Hfacs!update_event_hfacs(a, id)
              \/ Hfacs!delete_event_hfacs(a, id)
  BY <1>0, <1>1, HfacsRequest DEF Hfacs!EditStep
<1>2. CASE \E a \in Callers : Hfacs!Refuse(a)
  BY <1>0, <1>2, HfacsRefuse DEF Hfacs!EditStep, Hfacs!Refuse, Hfacs!tables
<1>3. CASE \E a \in Callers : Hfacs!Commit(a)
  <2>1. PICK a \in Callers : Hfacs!Commit(a)
    BY <1>3
  <2>2. \A i \in Hfacs!Present(attribution) :
           attribution'[i] \in {attribution[i], Gone}
           \/ /\ attribution'[i].version = attribution[i].version + 1
              /\ Hfacs!NaturalKey(attribution'[i]) = Hfacs!NaturalKey(attribution[i])
    <3> SUFFICES ASSUME NEW i \in Hfacs!Present(attribution)
                 PROVE  attribution'[i] \in {attribution[i], Gone}
                        \/ /\ attribution'[i].version = attribution[i].version + 1
                           /\ Hfacs!NaturalKey(attribution'[i]) = Hfacs!NaturalKey(attribution[i])
      OBVIOUS
    <3>1. i \in AttributionIds /\ attribution[i] # NoRow
      BY DEF HfacsInv, Hfacs!Present
    <3>2. CASE i = call[a].id
      BY <2>1, <3>1, <3>2, HfacsWrite
    <3>3. CASE i # call[a].id
      BY <2>1, <3>1, <3>3, HfacsWrite DEF AttributionWrite
    <3> QED
      BY <3>2, <3>3
  <2> QED
    BY <1>0, <2>1, <2>2, HfacsCommit DEF Hfacs!EditStep
<1> QED
  BY <1>1, <1>2, <1>3 DEF Hfacs!Next
--------------------------------------------------------------------------------
(* Causality, the graph of factors *)

(* A factor that was ever stored stays a factor of its event, or is deleted    *)
(* for good.                                                                   *)
FactorOf(table, f, event) ==
    /\ f \in FactorIds
    /\ table[f] # NoRow
    /\ table[f] # Gone => table[f].event = event

(* What a SHELO request relies on at its write. *)
GraphCall(factors, edges, r) ==
    \/ /\ r.op \in {"attach_factor", "update_factor"}
       /\ r.id \in FactorIds
       /\ r.row \in Shelo!Factors
       /\ r.op = "update_factor" => FactorOf(factors, r.id, r.row.event)
    \/ r.op = "delete_factor" /\ r.id \in FactorIds /\ factors[r.id] # NoRow
    \/ /\ r.op = "attach_interaction"
       /\ r.id \in InteractionIds
       /\ r.row \in Shelo!Interactions
       /\ r.row.source # r.row.target
       /\ FactorOf(factors, r.row.source, r.row.event)
       /\ FactorOf(factors, r.row.target, r.row.event)
    \/ r.op = "delete_interaction" /\ r.id \in InteractionIds /\ edges[r.id] # NoRow

(* The edges join stored factors of their event, and none is there twice. *)
EdgesWhole(factors, edges) ==
    /\ \A i \in InteractionIds : edges[i] \notin {NoRow, Gone} =>
          /\ edges[i].source # edges[i].target
          /\ \A f \in {edges[i].source, edges[i].target} :
                /\ f \in FactorIds /\ factors[f] \notin {NoRow, Gone}
                /\ factors[f].event = edges[i].event
    /\ \A i, j \in InteractionIds :
          edges[i] \notin {NoRow, Gone} /\ edges[j] \notin {NoRow, Gone} /\ i # j => edges[i] # edges[j]

SheloInv ==
    /\ DOMAIN attribution = {}
    /\ factor \in [FactorIds -> Shelo!Factors \cup {NoRow, Gone}]
    /\ interaction \in [InteractionIds -> Shelo!Interactions \cup {NoRow, Gone}]
    /\ usage = 0
    /\ EdgesWhole(factor, interaction)
    /\ DOMAIN call = Callers
    /\ \A a \in Callers : call[a] # Idle => GraphCall(factor, interaction, call[a])

LEMMA SheloInit == Shelo!Init => SheloInv
<1> SUFFICES ASSUME Shelo!Init PROVE SheloInv
  OBVIOUS
<1>4. usage = 0 /\ EdgesWhole(factor, interaction)
  BY DEF Shelo!Init, EdgesWhole
<1>5. /\ factor \in [FactorIds -> Shelo!Factors \cup {NoRow, Gone}]
      /\ interaction \in [InteractionIds -> Shelo!Interactions \cup {NoRow, Gone}]
      /\ DOMAIN attribution = {}
  BY DEF Shelo!Init
<1>6. DOMAIN call = Callers /\ \A a \in Callers : call[a] = Idle
  BY DEF Shelo!Init
<1> QED
  BY <1>4, <1>5, <1>6 DEF SheloInv

(* A request that only begins: the tables stay. *)
LEMMA SheloBegin ==
    ASSUME SheloInv, NEW a \in Callers, NEW op, NEW id, NEW row, Shelo!Begin(a, op, id, row),
           GraphCall(factor, interaction, [op |-> op, id |-> id, row |-> row])
    PROVE  SheloInv'
<1>1. /\ call' = [call EXCEPT ![a] = [op |-> op, id |-> id, row |-> row]]
      /\ UNCHANGED <<attribution, factor, interaction, usage>>
  BY DEF Shelo!Begin, Shelo!tables
<1>2. \A b \in Callers : call'[b] # Idle => GraphCall(factor, interaction, call'[b])
  BY <1>1 DEF SheloInv
<1>3. DOMAIN call' = Callers
  BY <1>1 DEF SheloInv
<1> QED
  BY <1>1, <1>2, <1>3 DEF SheloInv

LEMMA SheloRefuse ==
    ASSUME SheloInv, NEW a \in Callers, Shelo!Refuse(a)
    PROVE  SheloInv'
<1>1. /\ call' = [call EXCEPT ![a] = Idle]
      /\ UNCHANGED <<attribution, factor, interaction, usage>>
  BY DEF Shelo!Refuse, Shelo!tables
<1>2. \A b \in Callers : call'[b] # Idle => GraphCall(factor, interaction, call'[b])
  BY <1>1 DEF SheloInv
<1>3. DOMAIN call' = Callers
  BY <1>1 DEF SheloInv
<1> QED
  BY <1>1, <1>2, <1>3 DEF SheloInv

(* What a write may do to the factors and to the edges. *)
FactorWrite(old, new) ==
    \A f \in FactorIds :
        /\ old[f] # NoRow => new[f] # NoRow
        /\ old[f] = Gone => new[f] = Gone
        /\ old[f] # NoRow /\ new[f] # Gone => new[f].event = old[f].event
EdgeWrite(old, new) == \A i \in InteractionIds : old[i] # NoRow => new[i] # NoRow

LEMMA GraphCallsStay ==
    ASSUME NEW factors, NEW edges, NEW factors2, NEW edges2,
           FactorWrite(factors, factors2), EdgeWrite(edges, edges2),
           NEW r, GraphCall(factors, edges, r)
    PROVE  GraphCall(factors2, edges2, r)
<1>1. \A f, event : FactorOf(factors, f, event) => FactorOf(factors2, f, event)
  BY DEF FactorWrite, FactorOf
<1> HIDE DEF FactorOf
<1> QED
  BY <1>1 DEF GraphCall, FactorWrite, EdgeWrite

(* What a factor is replaced by at its write. *)
FactorEdit(old, new) ==
    old = NoRow \/ new \in {old, Gone} \/ (new.version = old.version + 1 /\ new.event = old.event)

LEMMA SheloWrite ==
    ASSUME SheloInv, NEW a \in Callers, Shelo!Commit(a)
    PROVE  /\ factor' \in [FactorIds -> Shelo!Factors \cup {NoRow, Gone}]
           /\ interaction' \in [InteractionIds -> Shelo!Interactions \cup {NoRow, Gone}]
           /\ UNCHANGED <<attribution, usage>>
           /\ FactorWrite(factor, factor') /\ EdgeWrite(interaction, interaction')
           /\ EdgesWhole(factor', interaction')
           /\ \A f \in FactorIds : FactorEdit(factor[f], factor'[f])
<1> DEFINE r == call[a]
<1>1. GraphCall(factor, interaction, r) /\ Shelo!Written(r)
  BY DEF SheloInv, Shelo!Commit
<1>2. CASE r.op = "attach_factor"
  <2>1. Shelo!add_factor(r) /\ r.id \in FactorIds /\ r.row \in Shelo!Factors
    BY <1>1, <1>2 DEF Shelo!Written, GraphCall
  <2>2. /\ factor[r.id] = NoRow
        /\ factor' = [factor EXCEPT ![r.id] = r.row]
        /\ UNCHANGED <<attribution, interaction, usage>>
    BY <2>1 DEF Shelo!add_factor, Shelo!Fresh
  <2>3. /\ \A f \in FactorIds \ {r.id} : factor'[f] = factor[f]
        /\ factor'[r.id] = r.row /\ r.row \notin {NoRow, Gone}
        /\ factor' \in [FactorIds -> Shelo!Factors \cup {NoRow, Gone}]
    BY <2>1, <2>2, CausalityAssumption DEF SheloInv
  <2>4. FactorWrite(factor, factor') /\ EdgeWrite(interaction, interaction')
    BY <2>2, <2>3, CausalityAssumption DEF FactorWrite, EdgeWrite
  <2>5. EdgesWhole(factor', interaction')
    BY <2>2, <2>3 DEF SheloInv, EdgesWhole
  <2>6. \A f \in FactorIds : FactorEdit(factor[f], factor'[f])
    BY <2>2, <2>3 DEF FactorEdit
  <2> QED
    BY <2>2, <2>3, <2>4, <2>5, <2>6 DEF SheloInv
<1>3. CASE r.op = "update_factor"
  <2>1. /\ Shelo!update_factor(r) /\ r.id \in FactorIds /\ r.row \in Shelo!Factors
        /\ FactorOf(factor, r.id, r.row.event)
    BY <1>1, <1>3 DEF Shelo!Written, GraphCall
  <2>2. /\ factor[r.id] \notin {NoRow, Gone}
        /\ factor[r.id].version = r.row.version - 1
        /\ factor' = [factor EXCEPT ![r.id] = r.row]
        /\ UNCHANGED <<attribution, interaction, usage>>
    BY <2>1 DEF Shelo!update_factor, Shelo!VersionMatches, Shelo!Present, Shelo!Expected
  <2>3. /\ \A f \in FactorIds \ {r.id} : factor'[f] = factor[f]
        /\ factor'[r.id] = r.row /\ r.row \notin {NoRow, Gone}
        /\ factor' \in [FactorIds -> Shelo!Factors \cup {NoRow, Gone}]
    BY <2>1, <2>2, CausalityAssumption DEF SheloInv
  <2>4. r.row.event = factor[r.id].event
    BY <2>1, <2>2 DEF FactorOf
  <2>5. r.row.version = factor[r.id].version + 1
    BY <2>1, <2>2 DEF SheloInv, Shelo!Factors
  <2>6. FactorWrite(factor, factor') /\ EdgeWrite(interaction, interaction')
    BY <2>2, <2>3, <2>4, CausalityAssumption DEF FactorWrite, EdgeWrite
  <2>7. EdgesWhole(factor', interaction')
    BY <2>2, <2>3, <2>4 DEF SheloInv, EdgesWhole
  <2>8. \A f \in FactorIds : FactorEdit(factor[f], factor'[f])
    BY <2>3, <2>4, <2>5 DEF FactorEdit
  <2> QED
    BY <2>2, <2>3, <2>6, <2>7, <2>8 DEF SheloInv
<1>4. CASE r.op = "delete_factor"
  <2>1. Shelo!delete_factor(r) /\ r.id \in FactorIds /\ factor[r.id] # NoRow
    BY <1>1, <1>4 DEF Shelo!Written, GraphCall
  <2>2. /\ factor' = [factor EXCEPT ![r.id] = Gone]
        /\ UNCHANGED <<attribution, usage>>
    BY <2>1 DEF Shelo!delete_factor
  <2>3. /\ \A f \in FactorIds \ {r.id} : factor'[f] = factor[f]
        /\ factor'[r.id] = Gone
        /\ factor' \in [FactorIds -> Shelo!Factors \cup {NoRow, Gone}]
    BY <2>1, <2>2 DEF SheloInv
  <2>4. interaction' = Shelo!ondelete_cascade(r.id)
    BY <2>1 DEF Shelo!delete_factor
  <2>5. /\ DOMAIN interaction' = InteractionIds
        /\ \A i \in InteractionIds :
              \/ interaction'[i] = interaction[i]
                 /\ (interaction[i] \notin {NoRow, Gone} =>
                        r.id \notin {interaction[i].source, interaction[i].target})
              \/ interaction'[i] = Gone /\ interaction[i] # NoRow
    BY <2>4 DEF Shelo!ondelete_cascade, Shelo!Present, SheloInv
  <2>6. interaction' \in [InteractionIds -> Shelo!Interactions \cup {NoRow, Gone}]
    BY <2>4, <2>5 DEF SheloInv, Shelo!ondelete_cascade
  <2>7. FactorWrite(factor, factor') /\ EdgeWrite(interaction, interaction')
    BY <2>1, <2>3, <2>5, CausalityAssumption DEF FactorWrite, EdgeWrite
  <2>8. EdgesWhole(factor', interaction')
    BY <2>3, <2>5 DEF SheloInv, EdgesWhole
  <2>9. \A f \in FactorIds : FactorEdit(factor[f], factor'[f])
    BY <2>3 DEF FactorEdit
  <2> QED
    BY <2>2, <2>3, <2>6, <2>7, <2>8, <2>9
<1>5. CASE r.op = "attach_interaction"
  <2>1. /\ Shelo!add_interaction(r) /\ r.id \in InteractionIds /\ r.row \in Shelo!Interactions
        /\ r.row.source # r.row.target
        /\ FactorOf(factor, r.row.source, r.row.event)
        /\ FactorOf(factor, r.row.target, r.row.event)
    BY <1>1, <1>5 DEF Shelo!Written, GraphCall
  <2>2. /\ interaction[r.id] = NoRow
        /\ {r.row.source, r.row.target} \subseteq Shelo!Present(factor)
        /\ \A i \in Shelo!Present(interaction) : interaction[i] # r.row
        /\ interaction' = [interaction EXCEPT ![r.id] = r.row]
        /\ UNCHANGED <<attribution, factor, usage>>
    BY <2>1 DEF Shelo!add_interaction, Shelo!Fresh, Shelo!fk_factors,
                Shelo!uq_shelo_factor_interactions_natural
  <2>3. /\ \A i \in InteractionIds \ {r.id} : interaction'[i] = interaction[i]
        /\ interaction'[r.id] = r.row /\ r.row \notin {NoRow, Gone}
        /\ interaction' \in [InteractionIds -> Shelo!Interactions \cup {NoRow, Gone}]
    BY <2>1, <2>2, CausalityAssumption DEF SheloInv
  <2>4. \A f \in {r.row.source, r.row.target} :
           /\ f \in FactorIds /\ factor[f] \notin {NoRow, Gone}
           /\ factor[f].event = r.row.event
    BY <2>1, <2>2 DEF FactorOf, Shelo!Present
  <2>5. \A i \in InteractionIds : interaction[i] \notin {NoRow, Gone} => interaction[i] # r.row
    BY <2>2 DEF SheloInv, Shelo!Present
  <2>6. FactorWrite(factor, factor') /\ EdgeWrite(interaction, interaction')
    BY <2>2, <2>3, CausalityAssumption DEF FactorWrite, EdgeWrite
  <2>7. EdgesWhole(factor', interaction')
    BY <2>1, <2>2, <2>3, <2>4, <2>5 DEF SheloInv, EdgesWhole
  <2>8. \A f \in FactorIds : FactorEdit(factor[f], factor'[f])
    BY <2>2 DEF FactorEdit
  <2> QED
    BY <2>2, <2>3, <2>6, <2>7, <2>8 DEF SheloInv
<1>6. CASE r.op = "delete_interaction"
  <2>1. Shelo!delete_interaction(r) /\ r.id \in InteractionIds
    BY <1>1, <1>6 DEF Shelo!Written, GraphCall
  <2>2. /\ interaction' = [interaction EXCEPT ![r.id] = Gone]
        /\ UNCHANGED <<attribution, factor, usage>>
    BY <2>1 DEF Shelo!delete_interaction
  <2>3. /\ \A i \in InteractionIds \ {r.id} : interaction'[i] = interaction[i]
        /\ interaction'[r.id] = Gone
        /\ interaction' \in [InteractionIds -> Shelo!Interactions \cup {NoRow, Gone}]
    BY <2>1, <2>2 DEF SheloInv
  <2>4. FactorWrite(factor, factor') /\ EdgeWrite(interaction, interaction')
    BY <2>2, <2>3, CausalityAssumption DEF FactorWrite, EdgeWrite
  <2>5. EdgesWhole(factor', interaction')
    BY <2>2, <2>3 DEF SheloInv, EdgesWhole
  <2>6. \A f \in FactorIds : FactorEdit(factor[f], factor'[f])
    BY <2>2 DEF FactorEdit
  <2> QED
    BY <2>2, <2>3, <2>4, <2>5, <2>6 DEF SheloInv
<1> QED
  BY <1>1, <1>2, <1>3, <1>4, <1>5, <1>6 DEF GraphCall

LEMMA SheloCommit ==
    ASSUME SheloInv, NEW a \in Callers, Shelo!Commit(a)
    PROVE  SheloInv'
<1>1. call' = [call EXCEPT ![a] = Idle]
  BY DEF Shelo!Commit
<1>2. \A b \in Callers : call'[b] # Idle => call'[b] = call[b]
  BY <1>1 DEF SheloInv
<1>3. FactorWrite(factor, factor') /\ EdgeWrite(interaction, interaction')
  BY SheloWrite
<1>4. \A b \in Callers : call'[b] # Idle => GraphCall(factor', interaction', call'[b])
  BY <1>2, <1>3, GraphCallsStay DEF SheloInv
<1>5. DOMAIN call' = Callers
  BY <1>1 DEF SheloInv
<1> QED
  BY <1>4, <1>5, SheloWrite DEF SheloInv

LEMMA FactorEdited ==
    ASSUME NEW old \in Shelo!Factors, NEW value \in SheloValues, old.version < MaxEdits
    PROVE  /\ Shelo!Edited(old, value) \in Shelo!Factors
           /\ Shelo!Edited(old, value).event = old.event
<1> DEFINE n == old.version + 1
<1>1. n \in 1..MaxEdits
  BY CausalityAssumption DEF Shelo!Factors
<1>2. Shelo!Edited(old, value) = [old EXCEPT !.value = value, !.version = n]
  BY DEF Shelo!Edited, Shelo!Factors
<1> HIDE DEF n
<1>3. [old EXCEPT !.value = value, !.version = n] \in Shelo!Factors
  BY <1>1 DEF Shelo!Factors
<1>4. Shelo!Edited(old, value).event = old.event
  BY DEF Shelo!Factors, Shelo!Edited
<1> QED
  BY <1>2, <1>3, <1>4

(* What the requests on the graph carry when they begin. *)
LEMMA SheloFactorRequest ==
    ASSUME SheloInv, NEW a \in Callers, NEW id \in FactorIds,
           \/ Shelo!attach_shelo_factor(a, id)
           \/ Shelo!update_shelo_factor(a, id)
           \/ Shelo!delete_shelo_factor(a, id)
    PROVE  SheloInv' /\ factor' = factor
<1>1. CASE Shelo!attach_shelo_factor(a, id)
  <2>1. PICK event \in SheloEvents, value \in SheloValues :
           Shelo!Begin(a, "attach_factor", id, [event |-> event, value |-> value, version |-> 1])
    BY <1>1 DEF Shelo!attach_shelo_factor, Shelo!AttachSheloFactor
  <2> DEFINE row == [event |-> event, value |-> value, version |-> 1]
  <2>2. row \in Shelo!Factors
    BY CausalityAssumption DEF Shelo!Factors
  <2>3. GraphCall(factor, interaction, [op |-> "attach_factor", id |-> id, row |-> row])
    BY <2>2 DEF GraphCall
  <2> QED
    BY <2>1, <2>3, SheloBegin DEF Shelo!Begin, Shelo!tables
<1>2. CASE Shelo!update_shelo_factor(a, id)
  <2>1. PICK value \in SheloValues : Shelo!UpdateSheloFactor(a, id, value)
    BY <1>2 DEF Shelo!update_shelo_factor
  <2> DEFINE row == Shelo!Edited(factor[id], value)
  <2>2. /\ id \in Shelo!Present(factor)
        /\ factor[id].version < MaxEdits
        /\ Shelo!Begin(a, "update_factor", id, row)
    BY <2>1 DEF Shelo!UpdateSheloFactor
  <2>3. factor[id] \in Shelo!Factors
    BY <2>2 DEF SheloInv, Shelo!Present
  <2>4. row \in Shelo!Factors /\ row.event = factor[id].event
    BY <2>2, <2>3, FactorEdited
  <2> HIDE DEF row
  <2>5. GraphCall(factor, interaction, [op |-> "update_factor", id |-> id, row |-> row])
    BY <2>2, <2>4 DEF GraphCall, FactorOf, Shelo!Present
  <2> QED
    BY <2>2, <2>5, SheloBegin DEF Shelo!Begin, Shelo!tables
<1>3. CASE Shelo!delete_shelo_factor(a, id)
  <2>1. /\ id \in Shelo!Present(factor)
        /\ Shelo!Begin(a, "delete_factor", id, factor[id])
    BY <1>3 DEF Shelo!delete_shelo_factor, Shelo!DeleteSheloFactor
  <2>2. GraphCall(factor, interaction, [op |-> "delete_factor", id |-> id, row |-> factor[id]])
    BY <2>1 DEF GraphCall, Shelo!Present
  <2> QED
    BY <2>1, <2>2, SheloBegin DEF Shelo!Begin, Shelo!tables
<1> QED
  BY <1>1, <1>2, <1>3

LEMMA SheloInteractionRequest ==
    ASSUME SheloInv, NEW a \in Callers, NEW id \in InteractionIds,
           \/ Shelo!attach_shelo_interaction(a, id)
           \/ Shelo!delete_shelo_interaction(a, id)
    PROVE  SheloInv' /\ factor' = factor
<1>1. CASE Shelo!attach_shelo_interaction(a, id)
  <2>1. PICK event \in SheloEvents, source \in FactorIds, target \in FactorIds,
             kind \in SheloInteractionKind :
                Shelo!AttachSheloInteraction(a, id, event, source, target, kind)
    BY <1>1 DEF Shelo!attach_shelo_interaction
  <2> DEFINE row == [event |-> event, source |-> source, target |-> target, kind |-> kind]
  <2>2. /\ source # target
        /\ Shelo!OnEvent(source, event) /\ Shelo!OnEvent(target, event)
        /\ Shelo!Begin(a, "attach_interaction", id, row)
    BY <2>1 DEF Shelo!AttachSheloInteraction
  <2>3. FactorOf(factor, source, event) /\ FactorOf(factor, target, event)
    BY <2>2 DEF Shelo!OnEvent, FactorOf, Shelo!Present
  <2>4. row \in Shelo!Interactions
    BY DEF Shelo!Interactions
  <2>5. GraphCall(factor, interaction, [op |-> "attach_interaction", id |-> id, row |-> row])
    BY <2>2, <2>3, <2>4 DEF GraphCall
  <2> QED
    BY <2>2, <2>5, SheloBegin DEF Shelo!Begin, Shelo!tables
<1>2. CASE Shelo!delete_shelo_interaction(a, id)
  <2>1. /\ id \in Shelo!Present(interaction)
        /\ Shelo!Begin(a, "delete_interaction", id, interaction[id])
    BY <1>2 DEF Shelo!delete_shelo_interaction, Shelo!DeleteSheloInteraction
  <2>2. GraphCall(factor, interaction,
                  [op |-> "delete_interaction", id |-> id, row |-> interaction[id]])
    BY <2>1 DEF GraphCall, Shelo!Present
  <2> QED
    BY <2>1, <2>2, SheloBegin DEF Shelo!Begin, Shelo!tables
<1> QED
  BY <1>1, <1>2

LEMMA SheloNext ==
    ASSUME SheloInv, Shelo!Next
    PROVE  SheloInv' /\ Shelo!EditStep
<1>0. /\ Shelo!Present(attribution) = {}
      /\ \A f \in Shelo!Present(factor) : f \in FactorIds /\ factor[f] # NoRow
  BY DEF SheloInv, Shelo!Present
<1>1. CASE \E a \in Callers : \E id \in FactorIds :
              \/ Shelo!attach_shelo_factor(a, id)
              \/ Shelo!update_shelo_factor(a, id)
              \/ Shelo!delete_shelo_factor(a, id)
  BY <1>0, <1>1, SheloFactorRequest DEF Shelo!EditStep
<1>2. CASE \E a \in Callers : \E id \in InteractionIds :
              \/ Shelo!attach_shelo_interaction(a, id)
              \/ Shelo!delete_shelo_interaction(a, id)
  BY <1>0, <1>2, SheloInteractionRequest DEF Shelo!EditStep
<1>3. CASE \E a \in Callers : Shelo!Refuse(a)
  BY <1>0, <1>3, SheloRefuse DEF Shelo!EditStep, Shelo!Refuse, Shelo!tables
<1>4. CASE \E a \in Callers : Shelo!Commit(a)
  <2>1. PICK a \in Callers : Shelo!Commit(a)
    BY <1>4
  <2>2. \A f \in Shelo!Present(factor) : FactorEdit(factor[f], factor'[f])
    BY <1>0, <2>1, SheloWrite
  <2> QED
    BY <1>0, <2>1, <2>2, SheloCommit DEF Shelo!EditStep, FactorEdit
<1> QED
  BY <1>1, <1>2, <1>3, <1>4 DEF Shelo!Next

LEMMA SheloWhole == SheloInv => Shelo!GraphWhole
<1> SUFFICES ASSUME SheloInv PROVE Shelo!GraphWhole
  OBVIOUS
<1>1. {i \in {} : attribution[i] # NoRow} = {}
  OBVIOUS
<1>2. usage = Shelo!Cardinality({i \in {} : attribution[i] # NoRow})
  BY <1>1, FS_EmptySet DEF SheloInv, Shelo!Cardinality, Cardinality
<1>3. Shelo!Present(attribution) = {}
  BY DEF SheloInv, Shelo!Present
<1>4. /\ \A i : i \in Shelo!Present(interaction) <=> i \in InteractionIds /\ interaction[i] \notin {NoRow, Gone}
      /\ \A f : f \in Shelo!Present(factor) <=> f \in FactorIds /\ factor[f] \notin {NoRow, Gone}
  BY DEF SheloInv, Shelo!Present
<1> QED
  BY <1>2, <1>3, <1>4 DEF SheloInv, Shelo!GraphWhole, EdgesWhole
--------------------------------------------------------------------------------
(* Both together: the tables of a part that rests do not change. *)

CausalityInv == IF part = "shelo" THEN SheloInv ELSE HfacsInv

LEMMA CausalityInit == Init => CausalityInv
BY HfacsInit, SheloInit DEF Init, CausalityInv

LEMMA CausalityStep ==
    ASSUME CausalityInv, [Next]_vars
    PROVE  /\ CausalityInv'
           /\ [Hfacs!EditStep]_(Hfacs!vars)
           /\ [Shelo!EditStep]_(Shelo!vars)
<1>1. CASE part = "hfacs" /\ Hfacs!Next /\ part' = part
  <2>1. HfacsInv' /\ Hfacs!EditStep
    BY <1>1, HfacsNext DEF CausalityInv
  <2>2. Shelo!EditStep
    BY <2>1 DEF Hfacs!EditStep, Shelo!EditStep, Hfacs!Present, Shelo!Present,
                Hfacs!NaturalKey, Shelo!NaturalKey
  <2> QED
    BY <1>1, <2>1, <2>2 DEF CausalityInv
<1>2. CASE part = "shelo" /\ Shelo!Next /\ part' = part
  <2>1. SheloInv' /\ Shelo!EditStep
    BY <1>2, SheloNext DEF CausalityInv
  <2>2. Hfacs!EditStep
    BY <2>1 DEF Hfacs!EditStep, Shelo!EditStep, Hfacs!Present, Shelo!Present,
                Hfacs!NaturalKey, Shelo!NaturalKey
  <2> QED
    BY <1>2, <2>1, <2>2 DEF CausalityInv
<1>3. CASE part' = part /\ UNCHANGED causalityVars
  <2>1. UNCHANGED <<attribution, factor, interaction, usage, call>>
    BY <1>3 DEF causalityVars
  <2>2. UNCHANGED Hfacs!vars /\ UNCHANGED Shelo!vars
    BY <2>1 DEF Hfacs!vars, Shelo!vars, Hfacs!tables, Shelo!tables
  <2>3. CausalityInv'
    BY <1>3, <2>1 DEF CausalityInv, HfacsInv, SheloInv, Hfacs!GraphWhole, Hfacs!Present
  <2> QED
    BY <2>2, <2>3
<1> QED
  BY <1>1, <1>2, <1>3 DEF Next, vars

(* Attaching, editing and deleting interleave freely: edges join stored        *)
(* factors of their event, natural keys are unique and every attribution that  *)
(* was committed was metered, for any number of analysts, rows and edits.      *)
THEOREM GraphStaysWhole == Spec => []GraphWhole
<1>1. CausalityInv => GraphWhole
  BY SheloWhole DEF CausalityInv, HfacsInv, GraphWhole
<1> QED
  BY <1>1, CausalityInit, CausalityStep, PTL DEF Spec

(* WHERE version = :expected_version keeps one edit per version: a row is only *)
(* ever replaced by its next version, with its natural key, or deleted.        *)
THEOREM EditsAreSerial == Spec => EditsSerial
BY CausalityInit, CausalityStep, PTL DEF Spec, EditsSerial, Hfacs!EditsSerial, Shelo!EditsSerial
--------------------------------------------------------------------------------
(* Argus, the decisions *)

SignalRows == [status : Watch!SignalStatus, severity : Nat, version : Nat]

(* The decisions explain the row. *)
Explained(row, log) ==
    /\ row \in SignalRows
    /\ log \in Seq(Watch!SignalStatus)
    /\ Len(log) = row.version - 1
    /\ row.status = IF log = <<>> THEN "OPEN" ELSE log[Len(log)]

DecisionsInv ==
    /\ DOMAIN decisions = DOMAIN signal
    /\ \A k \in DOMAIN signal : Explained(signal[k], decisions[k])
    /\ DOMAIN detector = Detectors
    /\ \A d \in Detectors : detector[d] # Idle =>
          /\ DOMAIN detector[d] = {"stage", "drafts", "broken"}
          /\ \A u \in detector[d].drafts : u.severity \in Nat
    /\ DOMAIN reviewer = Callers
    /\ \A r \in Callers : reviewer[r] # Idle =>
          reviewer[r].key \in DOMAIN signal /\ reviewer[r].decision \in Watch!SignalStatus

LEMMA DecisionsInit == Watch!Init => DecisionsInv
BY DEF Watch!Init, DecisionsInv

(* What a stage finds has a severity. *)
LEMMA FoundSeverity ==
    ASSUME NEW stage PROVE \A u \in Watch!FoundBy(stage) : u.severity \in Nat
<1>1. \A u \in Watch!detect_chronos : u.severity \in Nat
  BY DEF Watch!detect_chronos, Watch!Upsert, Watch!severity_for_chronos_sequence_conflict
<1>2. \A u \in Watch!detect_hermes : u.severity \in Nat
  BY DEF Watch!detect_hermes, Watch!Upsert, Watch!severity_for_hermes_source_change,
         Watch!severity_for_hermes_fetch_failure_spike
<1>3. \A n : Watch!severity_for_atlas_high_conflict(n) \in Nat
  BY DEF Watch!severity_for_atlas_high_conflict
<1>4. \A u \in Watch!detect_atlas : u.severity \in Nat
  BY <1>3 DEF Watch!detect_atlas, Watch!Upsert
<1> QED
  BY <1>1, <1>2, <1>4 DEF Watch!FoundBy

(* An upsert leaves status and version alone. *)
LEMMA UpsertExplained ==
    ASSUME NEW row, NEW log, Explained(row, log), NEW severity \in Nat
    PROVE  Explained(Watch!upsert_signal(row, severity), log)
<1>1. row \in SignalRows /\ row # Idle
  BY SignalsAssumption DEF Explained, SignalRows
<1> DEFINE new == Watch!upsert_signal(row, severity)
<1>2. new = [row EXCEPT !.severity = IF @ < severity THEN severity ELSE @]
  BY <1>1 DEF Watch!upsert_signal
<1>3. new \in SignalRows /\ new.status = row.status /\ new.version = row.version
  BY <1>1, <1>2 DEF SignalRows
<1>4. Explained(row, log)
  OBVIOUS
<1> HIDE DEF new
<1> QED
  BY <1>3, <1>4 DEF Explained, new

LEMMA FirstExplained ==
    ASSUME NEW severity \in Nat
    PROVE  Explained(Watch!upsert_signal(Idle, severity), <<>>)
BY DEF Explained, SignalRows, Watch!upsert_signal, Watch!SignalStatus

LEMMA DecisionsDetection ==
    ASSUME DecisionsInv, NEW d \in Detectors, Watch!CommitDetection(d)
    PROVE  DecisionsInv'
<1> DEFINE t      == detector[d]
           drafts == IF t.broken THEN {} ELSE t.drafts
           keys   == {u.key : u \in drafts}
           Old(k) == IF k \in DOMAIN signal THEN signal[k] ELSE Idle
           Of(k)  == CHOOSE u \in drafts : u.key = k
<1>1. /\ t # Idle
      /\ signal' = [k \in DOMAIN signal \cup keys |->
                       IF k \in keys THEN Watch!upsert_signal(Old(k), Of(k).severity) ELSE signal[k]]
      /\ decisions' = [k \in DOMAIN signal \cup keys |->
                          IF k \in DOMAIN decisions THEN decisions[k] ELSE <<>>]
      /\ detector' = [detector EXCEPT ![d] = Idle]
      /\ reviewer' = reviewer
  BY DEF Watch!CommitDetection
<1>2. \A u \in drafts : u.severity \in Nat
  BY <1>1 DEF DecisionsInv
<1>3. \A k \in keys : Of(k).severity \in Nat
  BY <1>2
<1>4. /\ DOMAIN signal' = DOMAIN signal \cup keys
      /\ DOMAIN decisions' = DOMAIN signal \cup keys
      /\ \A k \in keys : signal'[k] = Watch!upsert_signal(Old(k), Of(k).severity)
      /\ \A k \in DOMAIN signal \ keys : signal'[k] = signal[k]
      /\ \A k \in DOMAIN signal : decisions'[k] = decisions[k]
      /\ \A k \in keys \ DOMAIN signal : decisions'[k] = <<>>
  BY <1>1 DEF DecisionsInv
<1> HIDE DEF drafts, keys, Of
<1>5. ASSUME NEW k \in DOMAIN signal' PROVE Explained(signal'[k], decisions'[k])
  <2>1. CASE k \in keys /\ k \in DOMAIN signal
    BY <1>3, <1>4, <2>1, UpsertExplained DEF DecisionsInv
  <2>2. CASE k \in keys /\ k \notin DOMAIN signal
    BY <1>3, <1>4, <2>2, FirstExplained
  <2>3. CASE k \notin keys
    BY <1>4, <1>5, <2>3 DEF DecisionsInv
  <2> QED
    BY <2>1, <2>2, <2>3
<1> QED
  BY <1>1, <1>4, <1>5 DEF DecisionsInv

LEMMA DecisionsReview ==
    ASSUME DecisionsInv, NEW r \in Callers, Watch!CommitReview(r)
    PROVE  DecisionsInv'
<1> DEFINE t == reviewer[r]
           k == t.key
<1>1. /\ t # Idle
      /\ signal' = [signal EXCEPT ![k].status = t.decision, ![k].version = @ + 1]
      /\ decisions' = [decisions EXCEPT ![k] = Append(@, t.decision)]
      /\ reviewer' = [reviewer EXCEPT ![r] = Idle]
      /\ detector' = detector
  BY DEF Watch!CommitReview
<1>2. k \in DOMAIN signal /\ k \in DOMAIN decisions /\ t.decision \in Watch!SignalStatus
  BY <1>1 DEF DecisionsInv
<1>3. Explained(signal[k], decisions[k])
  BY <1>2 DEF DecisionsInv
<1> DEFINE next == signal[k].version + 1
<1>4. signal'[k] = [signal[k] EXCEPT !.status = t.decision, !.version = next]
  BY <1>1, <1>2, <1>3 DEF Explained, SignalRows
<1>5. next \in Nat /\ next = Len(decisions[k]) + 2
  BY <1>3 DEF Explained, SignalRows
<1>6. decisions'[k] = Append(decisions[k], t.decision)
  BY <1>1, <1>2
<1>7. /\ DOMAIN signal' = DOMAIN signal /\ DOMAIN decisions' = DOMAIN decisions
      /\ \A j \in DOMAIN signal \ {k} : signal'[j] = signal[j] /\ decisions'[j] = decisions[j]
  BY <1>1 DEF DecisionsInv
<1> HIDE DEF next, k, t
<1>8. signal'[k] \in SignalRows /\ signal'[k].status = t.decision /\ signal'[k].version = next
  BY <1>2, <1>3, <1>4, <1>5 DEF Explained, SignalRows
<1>9. Explained(signal'[k], decisions'[k])
  BY <1>2, <1>3, <1>5, <1>6, <1>8 DEF Explained
<1>10. \A j \in DOMAIN signal' : Explained(signal'[j], decisions'[j])
  BY <1>7, <1>9 DEF DecisionsInv
<1> QED
  BY <1>1, <1>7, <1>10 DEF DecisionsInv

LEMMA DecisionsNext ==
    ASSUME DecisionsInv, Watch!Next
    PROVE  DecisionsInv'
<1>1. CASE UNCHANGED <<signal, decisions, detector, reviewer>>
  BY <1>1 DEF DecisionsInv
<1>2. ASSUME NEW d \in Detectors, Watch!StartDetection(d) PROVE DecisionsInv'
  BY <1>2 DEF DecisionsInv, Watch!StartDetection, Watch!argusVars
<1>3. ASSUME NEW d \in Detectors, Watch!Detect(d) PROVE DecisionsInv'
  <2>1. /\ detector[d] # Idle
        /\ detector' = [detector EXCEPT ![d].stage = Watch!After(detector[d].stage),
                                        ![d].drafts = @ \cup Watch!FoundBy(detector[d].stage)]
        /\ UNCHANGED <<signal, decisions, reviewer>>
    BY <1>3 DEF Watch!Detect, Watch!argusVars
  <2> DEFINE found == Watch!FoundBy(detector[d].stage)
             next == Watch!After(detector[d].stage)
  <2>2. \A u \in found : u.severity \in Nat
    BY FoundSeverity
  <2> HIDE DEF found, next
  <2>3. /\ DOMAIN detector'[d] = {"stage", "drafts", "broken"}
        /\ detector'[d].drafts = detector[d].drafts \cup found
        /\ DOMAIN detector' = Detectors
        /\ \A c \in Detectors \ {d} : detector'[c] = detector[c]
    BY <2>1 DEF DecisionsInv, found, next
  <2> QED
    BY <2>1, <2>2, <2>3 DEF DecisionsInv
<1>4. ASSUME NEW d \in Detectors, NEW broken \in BOOLEAN, Watch!EngineFails(d, broken)
      PROVE  DecisionsInv'
  <2>1. /\ detector[d] # Idle
        /\ detector' = [detector EXCEPT ![d].stage = Watch!After(detector[d].stage),
                                        ![d].broken = broken]
        /\ UNCHANGED <<signal, decisions, reviewer>>
    BY <1>4 DEF Watch!EngineFails, Watch!argusVars
  <2> DEFINE next == Watch!After(detector[d].stage)
  <2> HIDE DEF next
  <2>2. /\ DOMAIN detector'[d] = {"stage", "drafts", "broken"}
        /\ detector'[d].drafts = detector[d].drafts
        /\ DOMAIN detector' = Detectors
        /\ \A c \in Detectors \ {d} : detector'[c] = detector[c]
    BY <2>1 DEF DecisionsInv, next
  <2> QED
    BY <2>1, <2>2 DEF DecisionsInv
<1>5. ASSUME NEW r \in Callers, NEW k \in DOMAIN signal, NEW decision \in Decisions,
             Watch!ReviewSignal(r, k, decision)
      PROVE  DecisionsInv'
  BY <1>5, SignalsAssumption DEF DecisionsInv, Watch!ReviewSignal, Watch!argusVars
<1>6. ASSUME NEW r \in Callers, Watch!ReviewRefused(r) PROVE DecisionsInv'
  BY <1>6 DEF DecisionsInv, Watch!ReviewRefused, Watch!argusVars
<1>7. CASE \/ \E f \in Projected : Watch!UpdateProjection(f)
           \/ \E type \in ChangeTypes : Watch!RecordChange(type)
           \/ \E batch \in ConflictBatches : Watch!OpenConflicts(batch)
           \/ \E c \in Curated \cap DOMAIN conflicts : Watch!ResolveConflict(c) \/ Watch!ReopenConflict(c)
           \/ \E p \in Extractors : Watch!ReadProjection(p) \/ Watch!CommitExtraction(p)
  BY <1>1, <1>7 DEF Watch!UpdateProjection, Watch!RecordChange, Watch!OpenConflicts,
         Watch!ResolveConflict, Watch!ReopenConflict, Watch!ReadProjection, Watch!CommitExtraction,
         Watch!argusVars
<1>8. ASSUME NEW d \in Detectors, Watch!LinkConflicts(d) PROVE DecisionsInv'
  <2> DEFINE linked == {Watch!WithEvidence(u) : u \in detector[d].drafts}
  <2>1. /\ detector[d] # Idle
        /\ detector' = [detector EXCEPT ![d].stage = "commit", ![d].drafts = linked]
        /\ UNCHANGED <<signal, decisions, reviewer>>
    BY <1>8 DEF Watch!LinkConflicts, Watch!HasCounted, Watch!argusVars
  <2>2. \A u \in linked : u.severity \in Nat
    BY <2>1 DEF Watch!WithEvidence, Watch!Upsert, DecisionsInv
  <2> HIDE DEF linked
  <2>3. /\ DOMAIN detector'[d] = {"stage", "drafts", "broken"}
        /\ detector'[d].drafts = linked
        /\ DOMAIN detector' = Detectors
        /\ \A c \in Detectors \ {d} : detector'[c] = detector[c]
    BY <2>1 DEF DecisionsInv
  <2> QED
    BY <2>1, <2>2, <2>3 DEF DecisionsInv
<1>9. ASSUME NEW d \in Detectors, Watch!DetectionFails(d) PROVE DecisionsInv'
  BY <1>9 DEF DecisionsInv, Watch!DetectionFails, Watch!argusVars
<1> QED
  BY <1>2, <1>3, <1>4, <1>5, <1>6, <1>7, <1>8, <1>9, DecisionsDetection, DecisionsReview DEF Watch!Next
--------------------------------------------------------------------------------
(* Argus, the grounds of a signal *)

LEMMA WatchCardinality == \A S : Watch!Cardinality(S) = Cardinality(S)
BY DEF Watch!Cardinality, Cardinality

LEMMA SeverityMonotone ==
    ASSUME NEW m \in Nat, NEW n \in Nat, m <= n
    PROVE  Watch!severity_for_atlas_high_conflict(m) <= Watch!severity_for_atlas_high_conflict(n)
BY DEF Watch!severity_for_atlas_high_conflict

(* What supports a signal, of items that are linked to it and of conflicts     *)
(* that went before they could be: grounds only grow.                          *)
Grounds(k, severity, items, pairs, log, gone) ==
    \/ /\ items # {}
       /\ \/ \E pair \in pairs : Watch!Contradicts(pair) /\ k = <<"SEQUENCE", {pair[1], pair[2]}>>
          \/ \E type : k = <<"CHANGE", type>>
          \/ /\ k = <<"SPIKE">>
             /\ \E s \in SUBSET items :
                   /\ Cardinality(s) = SpikeThreshold
                   /\ \A i \in s : i \in DOMAIN log /\ log[i] = "FETCH_FAILED"
    \/ /\ k = <<"CONFLICTS">>
       /\ \E S \in SUBSET (items \cup gone) :
             /\ Cardinality(S) \in Nat /\ Cardinality(S) >= Watch!HighConflictThreshold
             /\ severity <= Watch!severity_for_atlas_high_conflict(Cardinality(S))

LEMMA GroundsGrow ==
    ASSUME NEW k, NEW severity, NEW items, NEW pairs, NEW log, NEW gone,
           NEW items2, NEW pairs2, NEW log2, NEW gone2,
           Grounds(k, severity, items, pairs, log, gone),
           k = <<"CONFLICTS">> \/ items \subseteq items2,
           items \subseteq items2 \cup gone2, gone \subseteq gone2, pairs \subseteq pairs2,
           \A i \in DOMAIN log : i \in DOMAIN log2 /\ log2[i] = log[i]
    PROVE  Grounds(k, severity, items2, pairs2, log2, gone2)
<1>1. CASE /\ k = <<"CONFLICTS">>
           /\ \E S \in SUBSET (items \cup gone) :
                 /\ Cardinality(S) \in Nat /\ Cardinality(S) >= Watch!HighConflictThreshold
                 /\ severity <= Watch!severity_for_atlas_high_conflict(Cardinality(S))
  <2>1. items \cup gone \subseteq items2 \cup gone2
    OBVIOUS
  <2> QED
    BY <1>1, <2>1 DEF Grounds
<1>2. CASE k # <<"CONFLICTS">>
  <2>1. items # {} /\ items2 # {} /\ items \subseteq items2
    BY <1>2 DEF Grounds
  <2>2. CASE /\ k = <<"SPIKE">>
             /\ \E s \in SUBSET items :
                  /\ Cardinality(s) = SpikeThreshold
                  /\ \A i \in s : i \in DOMAIN log /\ log[i] = "FETCH_FAILED"
    BY <2>1, <2>2 DEF Grounds
  <2> QED
    BY <1>2, <2>1, <2>2 DEF Grounds
<1> QED
  BY <1>1, <1>2 DEF Grounds

(* A signal with two severities, each with its grounds, has those of either. *)
LEMMA GroundsEither ==
    ASSUME NEW k, NEW a \in Nat, NEW b \in Nat, NEW items, NEW pairs, NEW log, NEW gone,
           Grounds(k, a, items, pairs, log, gone), Grounds(k, b, items, pairs, log, gone)
    PROVE  Grounds(k, IF a < b THEN b ELSE a, items, pairs, log, gone)
OBVIOUS

Linked(k) == {x[2] : x \in {y \in evidence : y[1] = k}}

(* Reviews are about contradictions of the timeline. *)
Contradictions(pairs) == {{pair[1], pair[2]} : pair \in {q \in pairs : Watch!Contradicts(q)}}

ReviewsInv ==
    /\ fields \in Projected
    /\ DOMAIN extractor = Extractors
    /\ \A p \in Extractors : extractor[p] # Idle => extractor[p] \in Projected
    /\ sequenceReviews \in Seq(Contradictions(links))

(* A draft whose conflicts are counted and not yet fetched is supported by     *)
(* those that are open.                                                        *)
Supporting(t, u, open) == IF Watch!HasCounted(t) /\ u.key = <<"CONFLICTS">> THEN open ELSE u.items

Drafted(t, open, pairs, log, gone) ==
    /\ IsFiniteSet(t.drafts)
    /\ \A u \in t.drafts :
          /\ IsFiniteSet(u.items)
          /\ t.stage \in Watch!Engines => u.key # <<"CONFLICTS">>
          /\ Grounds(u.key, u.severity, Supporting(t, u, open), pairs, log, gone)

GroundsInv ==
    /\ changes \in Seq(ChangeTypes)
    /\ IsFiniteSet(DOMAIN conflicts) /\ IsFiniteSet(overtaken)
    /\ IsFiniteSet(evidence)
    /\ \A k \in DOMAIN signal : Grounds(k, signal[k].severity, Linked(k), links, changes, overtaken)
    /\ \A d \in Detectors : detector[d] # Idle =>
          Drafted(detector[d], Watch!OpenOnes, links, changes, overtaken)

LEMMA DraftedGrow ==
    ASSUME NEW t, t # Idle, NEW open, NEW pairs, NEW log, NEW gone,
           NEW open2, NEW pairs2, NEW log2, NEW gone2,
           Drafted(t, open, pairs, log, gone),
           Watch!HasCounted(t) => open \subseteq open2 \cup gone2,
           gone \subseteq gone2, pairs \subseteq pairs2,
           \A i \in DOMAIN log : i \in DOMAIN log2 /\ log2[i] = log[i]
    PROVE  Drafted(t, open2, pairs2, log2, gone2)
<1>1. ASSUME NEW u \in t.drafts
      PROVE  Grounds(u.key, u.severity, Supporting(t, u, open2), pairs2, log2, gone2)
  <2>1. Grounds(u.key, u.severity, Supporting(t, u, open), pairs, log, gone)
    BY DEF Drafted
  <2>2. /\ u.key = <<"CONFLICTS">> \/ Supporting(t, u, open) \subseteq Supporting(t, u, open2)
        /\ Supporting(t, u, open) \subseteq Supporting(t, u, open2) \cup gone2
    BY DEF Supporting
  <2> DEFINE before == Supporting(t, u, open)
             after  == Supporting(t, u, open2)
             k == u.key
             severity == u.severity
  <2>3. Grounds(k, severity, before, pairs, log, gone)
    BY <2>1
  <2>4. (k = <<"CONFLICTS">> \/ before \subseteq after) /\ before \subseteq after \cup gone2
    BY <2>2
  <2> HIDE DEF before, after, k, severity
  <2>5. Grounds(k, severity, after, pairs2, log2, gone2)
    BY <2>3, <2>4, GroundsGrow
  <2> QED
    BY <2>5 DEF after, k, severity
<1> QED
  BY <1>1 DEF Drafted

LEMMA GroundsInit == Watch!Init => ReviewsInv /\ GroundsInv
BY FS_EmptySet DEF Watch!Init, ReviewsInv, GroundsInv

(* A set of failures at the threshold has a part of exactly that many. *)
LEMMA ExactPart ==
    ASSUME NEW S, IsFiniteSet(S), NEW n \in Nat, n <= Cardinality(S)
    PROVE  \E s \in SUBSET S : Cardinality(s) = n
<1> DEFINE c == Cardinality(S)
<1>1. c \in Nat /\ ExistsBijection(1..c, S)
  BY FS_CardinalityType
<1>2. PICK f : f \in Bijection(1..c, S)
  BY <1>1 DEF ExistsBijection
<1> DEFINE s == {f[i] : i \in 1..n}
           g == [i \in 1..n |-> f[i]]
<1>3. 1..n \subseteq 1..c
  BY <1>1
<1> HIDE DEF c
<1>4. f \in [1..c -> S] /\ \A i, j \in 1..c : f[i] = f[j] => i = j
  BY <1>2 DEF Bijection, Injection, IsInjective
<1>5. s \subseteq S
  BY <1>3, <1>4
<1>6. g \in Bijection(1..n, s)
  BY <1>3, <1>4 DEF Bijection, Injection, Surjection, IsInjective
<1>7. ExistsBijection(1..n, s)
  BY <1>6 DEF ExistsBijection
<1> HIDE DEF s, g
<1>8. Cardinality(s) = Cardinality(1..n)
  BY <1>7, FS_Bijection, FS_Interval
<1>9. Cardinality(1..n) = n
  BY FS_Interval
<1> QED
  BY <1>5, <1>8, <1>9

(* What a stage finds has grounds in the tables it reads. *)
LEMMA FoundSequence ==
    ASSUME ReviewsInv
    PROVE  /\ IsFiniteSet(Watch!detect_chronos)
           /\ \A u \in Watch!detect_chronos :
                 /\ IsFiniteSet(u.items) /\ u.key # <<"CONFLICTS">>
                 /\ Grounds(u.key, u.severity, u.items, links, changes, overtaken)
<1> DEFINE pending == Watch!First(sequenceReviews, RecentLimit)
<1>1. /\ DOMAIN pending \subseteq DOMAIN sequenceReviews
      /\ \A i \in DOMAIN pending : pending[i] = sequenceReviews[i]
      /\ \E n \in Nat : DOMAIN pending = 1..n
  BY SignalsAssumption DEF Watch!First, ReviewsInv
<1>2. IsFiniteSet(DOMAIN pending)
  <2> HIDE DEF pending
  <2>1. PICK n \in Nat : DOMAIN pending = 1..n
    BY <1>1
  <2> QED
    BY <2>1, FS_Interval
<1> DEFINE Found(i) == Watch!Upsert(<<"SEQUENCE", pending[i]>>,
                                    Watch!severity_for_chronos_sequence_conflict, {pending[i]})
           made == [i \in DOMAIN pending |-> Found(i)]
<1>3. made \in Surjection(DOMAIN pending, Watch!detect_chronos)
  BY DEF Surjection, Watch!detect_chronos
<1>4. IsFiniteSet(Watch!detect_chronos)
  BY <1>2, <1>3, FS_Surjection
<1>5. ASSUME NEW i \in DOMAIN pending
      PROVE  /\ IsFiniteSet(Found(i).items)
             /\ Found(i).key # <<"CONFLICTS">>
             /\ Grounds(Found(i).key, Found(i).severity, Found(i).items, links, changes, overtaken)
  <2>1. PICK pair \in links : Watch!Contradicts(pair) /\ pending[i] = {pair[1], pair[2]}
    <3>1. pending[i] \in Contradictions(links)
      BY <1>1 DEF ReviewsInv
    <3> HIDE DEF pending
    <3> QED
      BY <3>1 DEF Contradictions
  <2>2. /\ Found(i).items = {pending[i]}
        /\ Found(i).key = <<"SEQUENCE", {pair[1], pair[2]}>>
    BY <2>1 DEF Watch!Upsert
  <2>3. IsFiniteSet({pending[i]})
    BY FS_Singleton
  <2>4. Found(i).key # <<"CONFLICTS">>
    BY <2>2
  <2> HIDE DEF Found
  <2> QED
    BY <2>1, <2>2, <2>3, <2>4 DEF Grounds
<1> QED
  BY <1>4, <1>5 DEF Watch!detect_chronos

LEMMA ChangesFound ==
    ASSUME GroundsInv, NEW type
    PROVE  /\ Watch!ChangesOf(type) \subseteq DOMAIN changes
           /\ \A i \in Watch!ChangesOf(type) : changes[i] = type
           /\ IsFiniteSet(Watch!ChangesOf(type))
<1>1. IsFiniteSet(DOMAIN changes)
  <2>1. DOMAIN changes = 1..Len(changes) /\ Len(changes) \in Nat
    BY DEF GroundsInv
  <2> QED
    BY <2>1, FS_Interval
<1>2. /\ Watch!ChangesOf(type) \subseteq DOMAIN changes
      /\ \A i \in Watch!ChangesOf(type) : changes[i] = type
  BY DEF Watch!ChangesOf
<1> QED
  BY <1>1, <1>2, FS_Subset

LEMMA FoundChanges ==
    ASSUME GroundsInv
    PROVE  /\ IsFiniteSet(Watch!detect_hermes)
           /\ \A u \in Watch!detect_hermes :
                 /\ IsFiniteSet(u.items) /\ u.key # <<"CONFLICTS">>
                 /\ Grounds(u.key, u.severity, u.items, links, changes, overtaken)
<1> DEFINE failures == Watch!ChangesOf("FETCH_FAILED")
           Change(type) == Watch!Upsert(<<"CHANGE", type>>,
                               Watch!severity_for_hermes_source_change(type), Watch!ChangesOf(type))
           spike == Watch!Upsert(<<"SPIKE">>,
                        Watch!severity_for_hermes_fetch_failure_spike(Watch!Cardinality(failures)),
                        failures)
<1>1. ASSUME NEW u \in Watch!detect_hermes
      PROVE  \/ u = Change("FIRST_SEEN") /\ Watch!ChangesOf("FIRST_SEEN") # {}
             \/ u = Change("CONTENT_CHANGED") /\ Watch!ChangesOf("CONTENT_CHANGED") # {}
             \/ u = spike /\ Watch!SpikeReached(failures)
  BY DEF Watch!detect_hermes
<1>2. IsFiniteSet({Change("FIRST_SEEN"), Change("CONTENT_CHANGED"), spike})
  <2> DEFINE a == Change("FIRST_SEEN")
             b == Change("CONTENT_CHANGED")
  <2> HIDE DEF a, b, spike
  <2>1. IsFiniteSet({a, b, spike})
    <3>1. IsFiniteSet({a}) /\ IsFiniteSet({b}) /\ IsFiniteSet({spike})
      BY FS_Singleton
    <3>2. IsFiniteSet({a} \cup {b})
      BY <3>1, FS_Union
    <3>3. IsFiniteSet(({a} \cup {b}) \cup {spike})
      BY <3>1, <3>2, FS_Union
    <3>4. {a, b, spike} = ({a} \cup {b}) \cup {spike}
      OBVIOUS
    <3> QED
      BY <3>3, <3>4
  <2> QED
    BY <2>1 DEF a, b
<1>3. IsFiniteSet(Watch!detect_hermes)
  <2>1. Watch!detect_hermes \subseteq {Change("FIRST_SEEN"), Change("CONTENT_CHANGED"), spike}
    <3> HIDE DEF Change, spike
    <3> QED
      BY <1>1
  <2> QED
    BY <1>2, <2>1, FS_Subset
<1>4. \A type : Watch!ChangesOf(type) # {} =>
         /\ IsFiniteSet(Change(type).items)
         /\ Change(type).key # <<"CONFLICTS">>
         /\ Grounds(Change(type).key, Change(type).severity, Change(type).items, links, changes, overtaken)
  BY ChangesFound DEF Watch!Upsert, Grounds
<1>5. Watch!SpikeReached(failures) =>
         /\ IsFiniteSet(spike.items) /\ spike.key # <<"CONFLICTS">>
         /\ Grounds(spike.key, spike.severity, spike.items, links, changes, overtaken)
  <2> SUFFICES ASSUME Watch!SpikeReached(failures)
               PROVE  /\ IsFiniteSet(spike.items) /\ spike.key # <<"CONFLICTS">>
                      /\ Grounds(spike.key, spike.severity, spike.items, links, changes, overtaken)
    OBVIOUS
  <2>1. spike.items = failures /\ spike.key = <<"SPIKE">>
    BY DEF Watch!Upsert
  <2>2. /\ IsFiniteSet(failures)
        /\ \A i \in failures : i \in DOMAIN changes /\ changes[i] = "FETCH_FAILED"
    BY ChangesFound
  <2>3. SpikeThreshold <= Cardinality(failures) /\ SpikeThreshold \in Nat \ {0}
    <3>1. Cardinality(failures) \in Nat
      BY <2>2, FS_CardinalityType
    <3> QED
      BY <3>1, WatchCardinality, SignalsAssumption DEF Watch!SpikeReached
  <2>4. failures # {}
    BY <2>3, FS_EmptySet
  <2>5. \E s \in SUBSET failures : Cardinality(s) = SpikeThreshold
    BY <2>2, <2>3, ExactPart
  <2> HIDE DEF spike, failures
  <2> QED
    BY <2>1, <2>2, <2>4, <2>5 DEF Grounds
<1> HIDE DEF Change, spike, failures
<1> QED
  BY <1>1, <1>3, <1>4, <1>5

(* The draft that a count makes is supported by the conflicts counted. *)
LEMMA FoundConflicts ==
    ASSUME GroundsInv
    PROVE  /\ IsFiniteSet(Watch!detect_atlas)
           /\ \A u \in Watch!detect_atlas :
                 /\ IsFiniteSet(u.items) /\ u.key = <<"CONFLICTS">>
                 /\ Grounds(u.key, u.severity, Watch!OpenOnes, links, changes, overtaken)
<1> DEFINE n == Watch!Cardinality(Watch!OpenOnes)
           severity == Watch!severity_for_atlas_high_conflict(n)
           draft == Watch!Upsert(<<"CONFLICTS">>, severity, {})
<1>1. n = Cardinality(Watch!OpenOnes) /\ n \in Nat
  <2>1. IsFiniteSet(Watch!OpenOnes)
    BY FS_Subset DEF GroundsInv, Watch!OpenOnes
  <2> QED
    BY <2>1, WatchCardinality, FS_CardinalityType
<1>2. Watch!detect_atlas \subseteq {draft}
  BY DEF Watch!detect_atlas
<1>3. IsFiniteSet(Watch!detect_atlas)
  <2> HIDE DEF draft
  <2>1. IsFiniteSet({draft})
    BY FS_Singleton
  <2> QED
    BY <1>2, <2>1, FS_Subset
<1>4. ASSUME NEW u \in Watch!detect_atlas
      PROVE  /\ u = draft
             /\ n >= Watch!HighConflictThreshold
  BY <1>1 DEF Watch!detect_atlas, Watch!HighConflictThreshold
<1>5. draft.items = {} /\ draft.key = <<"CONFLICTS">> /\ draft.severity = severity
  BY DEF Watch!Upsert
<1>6. severity \in Nat /\ severity <= severity
  BY DEF Watch!severity_for_atlas_high_conflict
<1>7. n >= Watch!HighConflictThreshold
        => Grounds(<<"CONFLICTS">>, severity, Watch!OpenOnes, links, changes, overtaken)
  BY <1>1, <1>6 DEF Grounds
<1> HIDE DEF draft, severity, n
<1> QED
  BY <1>3, <1>4, <1>5, <1>7, FS_EmptySet

(* A step that only adds links, changes and overtaken conflicts. *)
LEMMA GroundsStay ==
    ASSUME GroundsInv, UNCHANGED <<evidence, signal>>, links \subseteq links',
           changes' \in Seq(ChangeTypes), IsFiniteSet(DOMAIN conflicts'),
           IsFiniteSet(overtaken'), overtaken \subseteq overtaken',
           \A i \in DOMAIN changes : i \in DOMAIN changes' /\ changes'[i] = changes[i],
           \A d \in Detectors : detector'[d] # Idle =>
               Drafted(detector'[d], Watch!OpenOnes', links', changes', overtaken')
    PROVE  GroundsInv'
<1>1. \A k, severity, items : Grounds(k, severity, items, links, changes, overtaken)
                               => Grounds(k, severity, items, links', changes', overtaken')
  BY GroundsGrow
<1>2. \A k : Linked(k)' = Linked(k)
  BY DEF Linked
<1>3. \A k \in DOMAIN signal : Grounds(k, signal[k].severity, Linked(k), links, changes, overtaken)
  BY DEF GroundsInv
<1>4. IsFiniteSet(evidence')
  BY DEF GroundsInv
<1> QED
  BY <1>1, <1>2, <1>3, <1>4 DEF GroundsInv

LEMMA PairsFinite ==
    ASSUME NEW f
    PROVE  IsFiniteSet(Contradictions(Watch!Pairwise(f)))
<1> DEFINE all == Kinds \X Kinds
           Both(q) == {Watch!Row(f, q[1]), Watch!Row(f, q[2])}
           image == {Both(q) : q \in all}
           made == [q \in all |-> Both(q)]
<1>1. IsFiniteSet(all)
  BY SignalsAssumption, FS_Product
<1>2. made \in Surjection(all, image)
  BY DEF Surjection
<1>3. IsFiniteSet(image)
  <2> HIDE DEF all, made, image
  <2> QED
    BY <1>1, <1>2, FS_Surjection
<1>4. Contradictions(Watch!Pairwise(f)) \subseteq image
  BY DEF Contradictions, Watch!Pairwise, Watch!Matched
<1> QED
  BY <1>3, <1>4, FS_Subset

LEMMA SeqMonotone ==
    ASSUME NEW S, NEW T, S \subseteq T, NEW s \in Seq(S)
    PROVE  s \in Seq(T)
OBVIOUS

LEMMA ReviewsExtraction ==
    ASSUME ReviewsInv, NEW p \in Extractors, Watch!CommitExtraction(p)
    PROVE  /\ ReviewsInv'
           /\ links' = links \cup Watch!Pairwise(extractor[p])
           /\ \A S \in Contradictions(Watch!Pairwise(extractor[p])) :
                 \E i \in DOMAIN sequenceReviews' : sequenceReviews'[i] = S
<1> DEFINE pairs   == Watch!Pairwise(extractor[p])
           known   == {sequenceReviews[i] : i \in DOMAIN sequenceReviews}
           reviews == Contradictions(pairs) \ known
<1>1. /\ links' = links \cup pairs
      /\ \E order \in Watch!SetToSeqs(reviews) : sequenceReviews' = sequenceReviews \o order
      /\ extractor' = [extractor EXCEPT ![p] = Idle]
      /\ fields' = fields
  BY DEF Watch!CommitExtraction, Contradictions, Watch!inputVars
<1>2. IsFiniteSet(reviews)
  BY PairsFinite, FS_Difference
<1>3. PICK order \in Watch!SetToSeqs(reviews) : sequenceReviews' = sequenceReviews \o order
  BY <1>1
<1> DEFINE n == Cardinality(reviews)
<1>4. n \in Nat
  BY <1>2, FS_CardinalityType
<1>5. /\ order \in [1..n -> reviews]
      /\ \A i, j \in 1..n : i # j => order[i] # order[j]
  BY <1>3, WatchCardinality DEF Watch!SetToSeqs
<1> HIDE DEF n, reviews
<1>6. order \in Seq(reviews) /\ Len(order) = n
  BY <1>4, <1>5
<1>7. \A S \in reviews : \E i \in 1..n : order[i] = S
  <2>1. order \in Injection(1..n, reviews)
    BY <1>5 DEF Injection, IsInjective
  <2>2. Cardinality(1..n) = Cardinality(reviews)
    BY <1>4, FS_Interval DEF n
  <2>3. order \in Surjection(1..n, reviews)
    BY <1>2, <2>1, <2>2, FS_Injection
  <2> QED
    BY <2>3 DEF Surjection
<1>8. reviews \subseteq Contradictions(links') /\ Contradictions(links) \subseteq Contradictions(links')
  BY <1>1 DEF reviews, Contradictions
<1>9. sequenceReviews \in Seq(Contradictions(links'))
  BY <1>8, SeqMonotone DEF ReviewsInv
<1>10. order \in Seq(Contradictions(links'))
  BY <1>6, <1>8, SeqMonotone
<1> HIDE DEF pairs
<1>11. sequenceReviews' \in Seq(Contradictions(links'))
  BY <1>3, <1>9, <1>10
<1>12. ReviewsInv'
  BY <1>1, <1>11 DEF ReviewsInv
<1>13. /\ \A i \in DOMAIN sequenceReviews : i \in DOMAIN sequenceReviews' /\ sequenceReviews'[i] = sequenceReviews[i]
       /\ \A i \in 1..n : /\ Len(sequenceReviews) + i \in DOMAIN sequenceReviews'
                           /\ sequenceReviews'[Len(sequenceReviews) + i] = order[i]
  BY <1>3, <1>4, <1>6, <1>9
<1>14. \A S \in Contradictions(pairs) :
          \E i \in DOMAIN sequenceReviews' : sequenceReviews'[i] = S
  BY <1>7, <1>13 DEF reviews
<1> QED
  BY <1>1, <1>12, <1>14 DEF pairs

LEMMA GroundsDetection ==
    ASSUME DecisionsInv, GroundsInv, NEW d \in Detectors, Watch!CommitDetection(d)
    PROVE  GroundsInv'
<1> DEFINE t      == detector[d]
           drafts == IF t.broken THEN {} ELSE t.drafts
           keys   == {u.key : u \in drafts}
           Old(k) == IF k \in DOMAIN signal THEN signal[k] ELSE Idle
           Of(k)  == CHOOSE u \in drafts : u.key = k
           added  == Watch!upsert_evidence(drafts)
<1>1. /\ t # Idle
      /\ signal' = [k \in DOMAIN signal \cup keys |->
                       IF k \in keys THEN Watch!upsert_signal(Old(k), Of(k).severity) ELSE signal[k]]
      /\ evidence' = evidence \cup added
      /\ detector' = [detector EXCEPT ![d] = Idle]
      /\ t.stage = "commit"
      /\ UNCHANGED <<links, changes, conflicts, overtaken>>
  BY DEF Watch!CommitDetection, Watch!chronosVars, Watch!inputVars, Watch!conflictVars
<1>2. /\ IsFiniteSet(drafts)
      /\ \A u \in drafts : /\ IsFiniteSet(u.items) /\ u.severity \in Nat
                            /\ Grounds(u.key, u.severity, u.items, links, changes, overtaken)
  <2>1. Drafted(t, Watch!OpenOnes, links, changes, overtaken) /\ ~ Watch!HasCounted(t)
    BY <1>1 DEF GroundsInv, Watch!HasCounted
  <2>2. \A u \in t.drafts : u.severity \in Nat
    BY <1>1 DEF DecisionsInv
  <2> QED
    BY <2>1, <2>2, FS_EmptySet DEF Drafted, Supporting
<1>3. \A k \in keys : Of(k) \in drafts /\ Of(k).key = k
  OBVIOUS
<1>4. /\ DOMAIN signal' = DOMAIN signal \cup keys
      /\ \A k \in keys : signal'[k] = Watch!upsert_signal(Old(k), Of(k).severity)
      /\ \A k \in DOMAIN signal \ keys : signal'[k] = signal[k]
  BY <1>1
<1> HIDE DEF drafts, keys, Of
<1>5. IsFiniteSet(added)
  <2> DEFINE Items(u) == {<<u.key, item>> : item \in u.items}
             all == {Items(u) : u \in drafts}
             made == [u \in drafts |-> Items(u)]
  <2>1. made \in Surjection(drafts, all)
    BY DEF Surjection
  <2>2. IsFiniteSet(all)
    <3> HIDE DEF made, all
    <3> QED
      BY <1>2, <2>1, FS_Surjection
  <2>3. ASSUME NEW u \in drafts PROVE IsFiniteSet(Items(u))
    <3> DEFINE pairs == [item \in u.items |-> <<u.key, item>>]
    <3>1. pairs \in Surjection(u.items, Items(u))
      BY DEF Surjection
    <3> HIDE DEF pairs, Items
    <3> QED
      BY <1>2, <3>1, FS_Surjection
  <2>4. \A S \in all : IsFiniteSet(S)
    BY <2>3
  <2> HIDE DEF all
  <2>5. IsFiniteSet(UNION all)
    BY <2>2, <2>4, FS_UNION
  <2> QED
    BY <2>5 DEF all, Watch!upsert_evidence
<1>6. IsFiniteSet(evidence')
  BY <1>1, <1>5, FS_Union DEF GroundsInv
<1>7. /\ \A k : Linked(k) \subseteq Linked(k)'
      /\ \A u \in drafts : u.items \subseteq Linked(u.key)'
  <2>1. \A u \in drafts : \A item \in u.items : <<u.key, item>> \in evidence'
    BY <1>1 DEF Watch!upsert_evidence
  <2>2. evidence \subseteq evidence'
    BY <1>1
  <2>3. \A k, item : <<k, item>> \in evidence' => item \in Linked(k)'
    BY DEF Linked
  <2> QED
    BY <2>1, <2>2, <2>3 DEF Linked
<1>8. \A k \in keys : Grounds(k, Of(k).severity, Linked(k)', links, changes, overtaken)
  BY <1>2, <1>3, <1>7, GroundsGrow
<1>9. \A k \in DOMAIN signal : Grounds(k, signal[k].severity, Linked(k)', links, changes, overtaken)
  BY <1>7, GroundsGrow DEF GroundsInv
<1>10. ASSUME NEW k \in DOMAIN signal'
       PROVE  Grounds(k, signal'[k].severity, Linked(k)', links, changes, overtaken)
  <2>1. CASE k \in keys /\ k \in DOMAIN signal
    <3> DEFINE old == signal[k]
               a == old.severity
               b == Of(k).severity
    <3>1. old \in SignalRows /\ old # Idle
      BY <2>1, SignalsAssumption DEF DecisionsInv, Explained, SignalRows
    <3>2. a \in Nat /\ b \in Nat
      BY <1>2, <1>3, <2>1, <3>1 DEF SignalRows
    <3>3. signal'[k] = [old EXCEPT !.severity = IF @ < b THEN b ELSE @]
      BY <1>4, <2>1, <3>1 DEF Watch!upsert_signal
    <3>4. signal'[k].severity = IF a < b THEN b ELSE a
      BY <3>1, <3>3 DEF SignalRows
    <3> QED
      BY <1>8, <1>9, <2>1, <3>2, <3>4, GroundsEither
  <2>2. CASE k \in keys /\ k \notin DOMAIN signal
    <3>1. signal'[k].severity = Of(k).severity
      BY <1>4, <2>2 DEF Watch!upsert_signal
    <3> QED
      BY <1>8, <2>2, <3>1
  <2>3. CASE k \notin keys
    BY <1>4, <1>9, <2>3
  <2> QED
    BY <2>1, <2>2, <2>3
<1>11. \A c \in Detectors : detector'[c] # Idle => detector'[c] = detector[c]
  BY <1>1 DEF DecisionsInv
<1>12. Watch!OpenOnes' = Watch!OpenOnes
  BY <1>1 DEF Watch!OpenOnes
<1> QED
  BY <1>1, <1>6, <1>10, <1>11, <1>12 DEF GroundsInv

LEMMA GroundsReview ==
    ASSUME DecisionsInv, GroundsInv, NEW r \in Callers, Watch!CommitReview(r)
    PROVE  GroundsInv'
<1> DEFINE t == reviewer[r]
<1>1. /\ t # Idle
      /\ signal' = [signal EXCEPT ![t.key].status = t.decision, ![t.key].version = @ + 1]
      /\ UNCHANGED <<links, changes, conflicts, overtaken, evidence, detector>>
  BY DEF Watch!CommitReview, Watch!chronosVars, Watch!inputVars, Watch!conflictVars
<1>2. t.key \in DOMAIN signal /\ signal[t.key] \in SignalRows
  BY <1>1 DEF DecisionsInv, Explained
<1>3. /\ DOMAIN signal' = DOMAIN signal
      /\ \A k \in DOMAIN signal : signal'[k].severity = signal[k].severity
  BY <1>1, <1>2 DEF SignalRows
<1>4. \A k : Linked(k)' = Linked(k)
  BY <1>1 DEF Linked
<1>5. Watch!OpenOnes' = Watch!OpenOnes
  BY <1>1 DEF Watch!OpenOnes
<1> QED
  BY <1>1, <1>3, <1>4, <1>5 DEF GroundsInv

LEMMA SignalsNext ==
    ASSUME DecisionsInv, ReviewsInv, GroundsInv, Watch!Next
    PROVE  ReviewsInv' /\ GroundsInv'
<1> DEFINE Sound(t) == Drafted(t, Watch!OpenOnes, links, changes, overtaken)
<1>0. /\ \A i \in DOMAIN changes : i \in DOMAIN changes /\ changes[i] = changes[i]
      /\ \A d \in Detectors : detector[d] # Idle => Sound(detector[d])
      /\ changes \in Seq(ChangeTypes) /\ IsFiniteSet(DOMAIN conflicts) /\ IsFiniteSet(overtaken)
  BY DEF GroundsInv
<1>1. ASSUME UNCHANGED <<changes, conflicts, overtaken, signal, evidence>>,
             links \subseteq links', ReviewsInv',
             \A d \in Detectors : detector'[d] # Idle => Sound(detector'[d])
      PROVE  ReviewsInv' /\ GroundsInv'
  <2>1. Watch!OpenOnes' = Watch!OpenOnes
    BY <1>1 DEF Watch!OpenOnes
  <2> HIDE DEF Sound
  <2>2. ASSUME NEW d \in Detectors, detector'[d] # Idle
        PROVE  Drafted(detector'[d], Watch!OpenOnes', links', changes', overtaken')
    <3>1. Sound(detector'[d])
      BY <1>1, <2>2
    <3> QED
      BY <1>1, <2>1, <2>2, <3>1, DraftedGrow DEF Sound
  <2> QED
    BY <1>0, <1>1, <2>2, GroundsStay
<1>2. ASSUME UNCHANGED <<links, evidence, signal, detector>>, ReviewsInv',
             changes' \in Seq(ChangeTypes), IsFiniteSet(DOMAIN conflicts'), IsFiniteSet(overtaken'),
             overtaken \subseteq overtaken',
             \A i \in DOMAIN changes : i \in DOMAIN changes' /\ changes'[i] = changes[i],
             \A d \in Detectors : Watch!HasCounted(detector[d]) =>
                 Watch!OpenOnes \subseteq Watch!OpenOnes' \cup overtaken'
      PROVE  ReviewsInv' /\ GroundsInv'
  <2>1. ASSUME NEW d \in Detectors, detector'[d] # Idle
        PROVE  Drafted(detector'[d], Watch!OpenOnes', links', changes', overtaken')
    <3>1. detector'[d] = detector[d] /\ Drafted(detector[d], Watch!OpenOnes, links, changes, overtaken)
      BY <1>0, <1>2, <2>1
    <3> QED
      BY <1>2, <2>1, <3>1, DraftedGrow
  <2> QED
    BY <1>2, <2>1, GroundsStay
<1>3. ASSUME NEW f \in Projected, Watch!UpdateProjection(f) PROVE ReviewsInv' /\ GroundsInv'
  <2>1. UNCHANGED <<links, sequenceReviews, extractor, changes, conflicts, overtaken, signal, evidence, detector>>
    BY <1>3 DEF Watch!UpdateProjection, Watch!chronosVars, Watch!argusVars, Watch!conflictVars
  <2>2. fields' \in Projected
    BY <1>3 DEF Watch!UpdateProjection
  <2>3. ReviewsInv'
    BY <2>1, <2>2 DEF ReviewsInv
  <2> QED
    BY <1>0, <1>1, <2>1, <2>3
<1>4. ASSUME NEW type \in ChangeTypes, Watch!RecordChange(type) PROVE ReviewsInv' /\ GroundsInv'
  <2>1. UNCHANGED <<fields, links, sequenceReviews, extractor, conflicts, overtaken, signal, evidence, detector>>
    BY <1>4 DEF Watch!RecordChange, Watch!chronosVars, Watch!argusVars, Watch!conflictVars
  <2>2. /\ changes' \in Seq(ChangeTypes)
        /\ \A i \in DOMAIN changes : i \in DOMAIN changes' /\ changes'[i] = changes[i]
    BY <1>0, <1>4 DEF Watch!RecordChange
  <2>3. Watch!OpenOnes' = Watch!OpenOnes /\ ReviewsInv'
    BY <2>1 DEF Watch!OpenOnes, ReviewsInv
  <2> QED
    BY <1>0, <1>2, <2>1, <2>2, <2>3
<1>5. ASSUME NEW batch \in ConflictBatches, Watch!OpenConflicts(batch) PROVE ReviewsInv' /\ GroundsInv'
  <2>1. UNCHANGED <<fields, links, sequenceReviews, extractor, changes, overtaken, signal, evidence, detector>>
    BY <1>5 DEF Watch!OpenConflicts, Watch!chronosVars, Watch!argusVars
  <2>2. conflicts' = [c \in DOMAIN conflicts \cup batch |->
                         IF c \in batch THEN "OPEN" ELSE conflicts[c]]
    BY <1>5 DEF Watch!OpenConflicts
  <2>3. IsFiniteSet(DOMAIN conflicts')
    <3>1. IsFiniteSet(DOMAIN conflicts \cup batch)
      BY <1>0, SignalsAssumption, FS_Union
    <3> QED
      BY <2>2, <3>1
  <2>4. Watch!OpenOnes \subseteq Watch!OpenOnes'
    BY <2>2 DEF Watch!OpenOnes
  <2>5. ReviewsInv'
    BY <2>1 DEF ReviewsInv
  <2> QED
    BY <1>0, <1>2, <2>1, <2>3, <2>4, <2>5
<1>6. ASSUME NEW c \in Curated \cap DOMAIN conflicts, Watch!ResolveConflict(c)
      PROVE  ReviewsInv' /\ GroundsInv'
  <2> DEFINE late == {x \in {c} : \E d \in Detectors : Watch!HasCounted(detector[d])}
  <2>1. /\ UNCHANGED <<fields, links, sequenceReviews, extractor, changes, signal, evidence, detector>>
        /\ conflicts' = [conflicts EXCEPT ![c] = "RESOLVED"]
        /\ overtaken' = overtaken \cup late
    BY <1>6 DEF Watch!ResolveConflict, Watch!chronosVars, Watch!argusVars
  <2>2. IsFiniteSet(DOMAIN conflicts')
    BY <1>0, <2>1
  <2>3. IsFiniteSet(overtaken')
    <3>1. IsFiniteSet(late)
      BY FS_Singleton, FS_Subset
    <3> QED
      BY <1>0, <2>1, <3>1, FS_Union
  <2>4. Watch!OpenOnes \ {c} \subseteq Watch!OpenOnes'
    BY <2>1 DEF Watch!OpenOnes
  <2>5. ASSUME NEW d \in Detectors, Watch!HasCounted(detector[d])
        PROVE  Watch!OpenOnes \subseteq Watch!OpenOnes' \cup overtaken'
    <3>1. c \in overtaken'
      BY <2>1, <2>5
    <3> QED
      BY <2>4, <3>1
  <2>6. ReviewsInv'
    BY <2>1 DEF ReviewsInv
  <2>7. overtaken \subseteq overtaken'
    BY <2>1
  <2> QED
    BY <1>0, <1>2, <2>1, <2>2, <2>3, <2>5, <2>6, <2>7
<1>7. ASSUME NEW c \in Curated \cap DOMAIN conflicts, Watch!ReopenConflict(c)
      PROVE  ReviewsInv' /\ GroundsInv'
  <2>1. /\ UNCHANGED <<fields, links, sequenceReviews, extractor, changes, overtaken, signal, evidence, detector>>
        /\ conflicts' = [conflicts EXCEPT ![c] = "OPEN"]
    BY <1>7 DEF Watch!ReopenConflict, Watch!chronosVars, Watch!argusVars
  <2>2. IsFiniteSet(DOMAIN conflicts') /\ Watch!OpenOnes \subseteq Watch!OpenOnes'
    BY <1>0, <2>1 DEF Watch!OpenOnes
  <2>3. ReviewsInv'
    BY <2>1 DEF ReviewsInv
  <2> QED
    BY <1>0, <1>2, <2>1, <2>2, <2>3
<1>8. ASSUME NEW p \in Extractors, Watch!ReadProjection(p) PROVE ReviewsInv' /\ GroundsInv'
  <2>1. UNCHANGED <<fields, links, sequenceReviews, changes, conflicts, overtaken, signal, evidence, detector>>
    BY <1>8 DEF Watch!ReadProjection, Watch!chronosVars, Watch!argusVars, Watch!inputVars, Watch!conflictVars
  <2>2. extractor' = [extractor EXCEPT ![p] = fields]
    BY <1>8 DEF Watch!ReadProjection
  <2>3. ReviewsInv'
    BY <2>1, <2>2 DEF ReviewsInv
  <2> QED
    BY <1>0, <1>1, <2>1, <2>3
<1>9. ASSUME NEW p \in Extractors, Watch!CommitExtraction(p) PROVE ReviewsInv' /\ GroundsInv'
  <2>1. UNCHANGED <<changes, conflicts, overtaken, signal, evidence, detector>>
    BY <1>9 DEF Watch!CommitExtraction, Watch!argusVars, Watch!inputVars, Watch!conflictVars
  <2>2. ReviewsInv' /\ links \subseteq links'
    BY <1>9, ReviewsExtraction
  <2> QED
    BY <1>0, <1>1, <2>1, <2>2
<1>10. ASSUME UNCHANGED <<fields, links, sequenceReviews, extractor, changes, conflicts, overtaken,
                          signal, evidence>>,
              \A d \in Detectors : detector'[d] # Idle => Sound(detector'[d])
       PROVE  ReviewsInv' /\ GroundsInv'
  <2>1. ReviewsInv'
    BY <1>10 DEF ReviewsInv
  <2> HIDE DEF Sound
  <2> QED
    BY <1>1, <1>10, <2>1
<1>11. ASSUME NEW d \in Detectors, Watch!StartDetection(d) PROVE ReviewsInv' /\ GroundsInv'
  <2>1. UNCHANGED <<fields, links, sequenceReviews, extractor, changes, conflicts, overtaken, signal, evidence>>
    BY <1>11 DEF Watch!StartDetection, Watch!chronosVars, Watch!argusVars, Watch!inputVars, Watch!conflictVars
  <2>2. detector'[d].drafts = {} /\ \A c \in Detectors \ {d} : detector'[c] = detector[c]
    BY <1>11 DEF Watch!StartDetection, DecisionsInv
  <2>3. Sound(detector'[d])
    BY <2>2, FS_EmptySet DEF Drafted
  <2> HIDE DEF Sound
  <2> QED
    BY <1>0, <1>10, <2>1, <2>2, <2>3
<1>12. ASSUME NEW d \in Detectors, Watch!Detect(d) PROVE ReviewsInv' /\ GroundsInv'
  <2>1. UNCHANGED <<fields, links, sequenceReviews, extractor, changes, conflicts, overtaken, signal, evidence>>
    BY <1>12 DEF Watch!Detect, Watch!chronosVars, Watch!argusVars, Watch!inputVars, Watch!conflictVars
  <2> DEFINE t == detector[d]
             found == Watch!FoundBy(t.stage)
             next == Watch!After(t.stage)
  <2>2. /\ t # Idle /\ t.stage \in Watch!Engines
        /\ detector' = [detector EXCEPT ![d].stage = next, ![d].drafts = @ \cup found]
    BY <1>12 DEF Watch!Detect
  <2>3. Sound(t) /\ DOMAIN t = {"stage", "drafts", "broken"} /\ DOMAIN detector = Detectors
    BY <1>0, <2>2 DEF DecisionsInv
  <2> DEFINE t2 == detector'[d]
  <2>4. CASE t.stage # "atlas"
    <3>1. /\ found = Watch!detect_chronos \/ found = Watch!detect_hermes
          /\ next \in Watch!Engines
      BY <2>2, <2>4 DEF Watch!FoundBy, Watch!After, Watch!Engines
    <3>2. /\ IsFiniteSet(found)
          /\ \A u \in found : /\ IsFiniteSet(u.items) /\ u.key # <<"CONFLICTS">>
                              /\ Grounds(u.key, u.severity, u.items, links, changes, overtaken)
      <4> HIDE DEF found
      <4> QED
        BY <3>1, FoundSequence, FoundChanges
    <3> HIDE DEF found, next
    <3>3. /\ t2.drafts = t.drafts \cup found /\ t2.stage = next
          /\ \A c \in Detectors \ {d} : detector'[c] = detector[c]
      BY <2>2, <2>3
    <3>4. IsFiniteSet(t2.drafts)
      <4> DEFINE old == t.drafts
      <4>1. IsFiniteSet(old)
        BY <2>3 DEF Drafted
      <4>2. t2.drafts = old \cup found
        BY <3>3
      <4> HIDE DEF old, t2
      <4> QED
        BY <3>2, <4>1, <4>2, FS_Union
    <3>5. \A u \in t.drafts : /\ IsFiniteSet(u.items) /\ u.key # <<"CONFLICTS">>
                              /\ Grounds(u.key, u.severity, u.items, links, changes, overtaken)
      BY <2>2, <2>3 DEF Drafted, Supporting
    <3> HIDE DEF t2, t
    <3>6. \A u \in t2.drafts : /\ IsFiniteSet(u.items) /\ u.key # <<"CONFLICTS">>
                               /\ Grounds(u.key, u.severity, u.items, links, changes, overtaken)
      BY <3>2, <3>3, <3>5
    <3>7. Sound(t2)
      BY <3>4, <3>6 DEF Drafted, Supporting
    <3> HIDE DEF Sound
    <3> QED
      BY <1>0, <1>10, <2>1, <3>3, <3>7 DEF t2
  <2>5. CASE t.stage = "atlas"
    <3>1. found = Watch!detect_atlas /\ next = "evidence"
      BY <2>5 DEF Watch!FoundBy, Watch!After
    <3>2. /\ IsFiniteSet(found)
          /\ \A u \in found : /\ IsFiniteSet(u.items) /\ u.key = <<"CONFLICTS">>
                              /\ Grounds(u.key, u.severity, Watch!OpenOnes, links, changes, overtaken)
      <4> HIDE DEF found
      <4> QED
        BY <3>1, FoundConflicts
    <3> HIDE DEF found
    <3>3. /\ t2.drafts = t.drafts \cup found /\ t2.stage = "evidence"
          /\ \A c \in Detectors \ {d} : detector'[c] = detector[c]
      BY <2>2, <2>3, <3>1
    <3>4. IsFiniteSet(t2.drafts)
      <4> DEFINE old == t.drafts
      <4>1. IsFiniteSet(old)
        BY <2>3 DEF Drafted
      <4>2. t2.drafts = old \cup found
        BY <3>3
      <4> HIDE DEF old, t2
      <4> QED
        BY <3>2, <4>1, <4>2, FS_Union
    <3>5. \A u \in t.drafts : /\ IsFiniteSet(u.items) /\ u.key # <<"CONFLICTS">>
                              /\ Grounds(u.key, u.severity, u.items, links, changes, overtaken)
      BY <2>2, <2>3 DEF Drafted, Supporting
    <3> HIDE DEF t2, t
    <3>6. ASSUME NEW u \in t2.drafts
          PROVE  /\ IsFiniteSet(u.items)
                 /\ Grounds(u.key, u.severity, IF u.key = <<"CONFLICTS">> THEN Watch!OpenOnes ELSE u.items,
                            links, changes, overtaken)
      <4>1. CASE u \in found
        BY <3>2, <4>1
      <4>2. CASE u \in t.drafts
        BY <3>5, <4>2
      <4> QED
        BY <3>3, <4>1, <4>2
    <3>7. t2.stage \notin Watch!Engines
      BY <3>3 DEF Watch!Engines
    <3>8. ASSUME NEW u \in t2.drafts,
                 t2 # Idle
          PROVE  Grounds(u.key, u.severity, Supporting(t2, u, Watch!OpenOnes), links, changes, overtaken)
      BY <3>3, <3>6, <3>8 DEF Supporting, Watch!HasCounted
    <3>9. t2 # Idle => Sound(t2)
      BY <3>4, <3>6, <3>7, <3>8 DEF Drafted
    <3> HIDE DEF Sound
    <3> QED
      BY <1>0, <1>10, <2>1, <3>3, <3>9 DEF t2
  <2> QED
    BY <2>4, <2>5
<1>13. ASSUME NEW d \in Detectors, NEW broken \in BOOLEAN, Watch!EngineFails(d, broken)
       PROVE  ReviewsInv' /\ GroundsInv'
  <2>1. UNCHANGED <<fields, links, sequenceReviews, extractor, changes, conflicts, overtaken, signal, evidence>>
    BY <1>13 DEF Watch!EngineFails, Watch!chronosVars, Watch!argusVars, Watch!inputVars, Watch!conflictVars
  <2> DEFINE next == Watch!After(detector[d].stage)
  <2>2. /\ detector[d] # Idle /\ detector[d].stage \in Watch!Engines
        /\ detector' = [detector EXCEPT ![d].stage = next, ![d].broken = broken]
    BY <1>13 DEF Watch!EngineFails
  <2> HIDE DEF next
  <2>3. /\ detector'[d].drafts = detector[d].drafts
        /\ \A c \in Detectors \ {d} : detector'[c] = detector[c]
    BY <2>2 DEF DecisionsInv
  <2>4. /\ IsFiniteSet(detector[d].drafts)
        /\ \A u \in detector[d].drafts :
              /\ IsFiniteSet(u.items) /\ u.key # <<"CONFLICTS">>
              /\ Grounds(u.key, u.severity, u.items, links, changes, overtaken)
    BY <1>0, <2>2 DEF Drafted, Supporting
  <2>5. Sound(detector'[d])
    BY <2>3, <2>4 DEF Drafted, Supporting
  <2> HIDE DEF Sound
  <2> QED
    BY <1>0, <1>10, <2>1, <2>3, <2>5
<1>14. ASSUME NEW d \in Detectors, Watch!LinkConflicts(d) PROVE ReviewsInv' /\ GroundsInv'
  <2>1. UNCHANGED <<fields, links, sequenceReviews, extractor, changes, conflicts, overtaken, signal, evidence>>
    BY <1>14 DEF Watch!LinkConflicts, Watch!chronosVars, Watch!argusVars, Watch!inputVars, Watch!conflictVars
  <2> DEFINE t == detector[d]
             linked == {Watch!WithEvidence(u) : u \in t.drafts}
             made == [u \in t.drafts |-> Watch!WithEvidence(u)]
             t2 == detector'[d]
  <2>2. /\ Watch!HasCounted(t) /\ t # Idle
        /\ detector' = [detector EXCEPT ![d].stage = "commit", ![d].drafts = linked]
    BY <1>14 DEF Watch!LinkConflicts, Watch!HasCounted
  <2>3. Sound(t) /\ DOMAIN t = {"stage", "drafts", "broken"} /\ DOMAIN detector = Detectors
    BY <1>0, <2>2 DEF DecisionsInv
  <2>4. IsFiniteSet(linked)
    <3>1. made \in Surjection(t.drafts, linked)
      BY DEF Surjection
    <3>2. IsFiniteSet(t.drafts)
      BY <2>3 DEF Drafted
    <3> HIDE DEF made, linked, t
    <3> QED
      BY <3>1, <3>2, FS_Surjection
  <2>5. ASSUME NEW v \in linked
        PROVE  /\ IsFiniteSet(v.items)
               /\ Grounds(v.key, v.severity, v.items, links, changes, overtaken)
    <3>1. PICK u \in t.drafts : v = Watch!WithEvidence(u)
      OBVIOUS
    <3>2. /\ IsFiniteSet(u.items)
          /\ Grounds(u.key, u.severity, Supporting(t, u, Watch!OpenOnes), links, changes, overtaken)
      BY <2>3 DEF Drafted
    <3>3. IsFiniteSet(Watch!OpenOnes)
      BY <1>0, FS_Subset DEF Watch!OpenOnes
    <3>4. CASE u.key = <<"CONFLICTS">>
      <4>1. v.key = u.key /\ v.severity = u.severity /\ v.items = Watch!OpenOnes
        BY <3>1, <3>4 DEF Watch!WithEvidence, Watch!Upsert
      <4>2. Supporting(t, u, Watch!OpenOnes) = Watch!OpenOnes
        BY <2>2, <3>4 DEF Supporting
      <4> QED
        BY <3>2, <3>3, <4>1, <4>2
    <3>5. CASE u.key # <<"CONFLICTS">>
      <4>1. v = u /\ Supporting(t, u, Watch!OpenOnes) = u.items
        BY <3>1, <3>5 DEF Watch!WithEvidence, Supporting
      <4> QED
        BY <3>2, <4>1
    <3> QED
      BY <3>4, <3>5
  <2> HIDE DEF linked, made
  <2>6. /\ t2.drafts = linked /\ t2.stage = "commit"
        /\ \A c \in Detectors \ {d} : detector'[c] = detector[c]
    BY <2>2, <2>3
  <2> HIDE DEF t2, t
  <2>7. t2.stage \notin Watch!Engines /\ ~ Watch!HasCounted(t2)
    BY <2>6 DEF Watch!Engines, Watch!HasCounted
  <2>8. Sound(t2)
    BY <2>4, <2>5, <2>6, <2>7 DEF Drafted, Supporting
  <2> HIDE DEF Sound
  <2> QED
    BY <1>0, <1>10, <2>1, <2>6, <2>8 DEF t2
<1>15. ASSUME NEW d \in Detectors, Watch!DetectionFails(d) PROVE ReviewsInv' /\ GroundsInv'
  <2>1. UNCHANGED <<fields, links, sequenceReviews, extractor, changes, conflicts, overtaken, signal, evidence>>
    BY <1>15 DEF Watch!DetectionFails, Watch!chronosVars, Watch!argusVars, Watch!inputVars, Watch!conflictVars
  <2>2. \A c \in Detectors : detector'[c] = Idle \/ detector'[c] = detector[c]
    BY <1>15 DEF Watch!DetectionFails, DecisionsInv
  <2> HIDE DEF Sound
  <2> QED
    BY <1>0, <1>10, <2>1, <2>2
<1>16. ASSUME NEW d \in Detectors, Watch!CommitDetection(d) PROVE ReviewsInv' /\ GroundsInv'
  <2>1. UNCHANGED <<fields, links, sequenceReviews, extractor>>
    BY <1>16 DEF Watch!CommitDetection, Watch!chronosVars, Watch!inputVars
  <2> QED
    BY <1>16, <2>1, GroundsDetection DEF ReviewsInv
<1>17. ASSUME NEW r \in Callers,
              \/ \E k \in DOMAIN signal, decision \in Decisions : Watch!ReviewSignal(r, k, decision)
              \/ Watch!ReviewRefused(r)
       PROVE  ReviewsInv' /\ GroundsInv'
  <2>1. UNCHANGED <<fields, links, sequenceReviews, extractor, changes, conflicts, overtaken,
                    signal, evidence, detector>>
    BY <1>17 DEF Watch!ReviewSignal, Watch!ReviewRefused, Watch!chronosVars, Watch!argusVars,
                 Watch!inputVars, Watch!conflictVars
  <2> HIDE DEF Sound
  <2> QED
    BY <1>0, <1>10, <2>1
<1>18. ASSUME NEW r \in Callers, Watch!CommitReview(r) PROVE ReviewsInv' /\ GroundsInv'
  <2>1. UNCHANGED <<fields, links, sequenceReviews, extractor>>
    BY <1>18 DEF Watch!CommitReview, Watch!chronosVars, Watch!inputVars
  <2> QED
    BY <1>18, <2>1, GroundsReview DEF ReviewsInv
<1> HIDE DEF Sound
<1> QED
  BY <1>3, <1>4, <1>5, <1>6, <1>7, <1>8, <1>9, <1>11, <1>12, <1>13, <1>14, <1>15, <1>16, <1>17, <1>18
     DEF Watch!Next

LEMMA GroundedSignals ==
    DecisionsInv /\ GroundsInv => Watch!SignalsGrounded
<1> SUFFICES ASSUME DecisionsInv, GroundsInv, NEW k \in DOMAIN signal
             PROVE  LET linked == {x[2] : x \in {y \in evidence : y[1] = k}}
                        counted == Watch!Cardinality(linked \cup overtaken)
                    IN /\ k[1] # "CONFLICTS" => linked # {}
                       /\ k[1] = "SEQUENCE" =>
                             \E pair \in links : {pair[1], pair[2]} = k[2] /\ Watch!Contradicts(pair)
                       /\ k[1] = "SPIKE" => \E s \in SUBSET linked :
                             /\ Watch!Cardinality(s) = SpikeThreshold
                             /\ \A i \in s : changes[i] = "FETCH_FAILED"
                       /\ k[1] = "CONFLICTS" =>
                             /\ counted >= Watch!HighConflictThreshold
                             /\ signal[k].severity <= Watch!severity_for_atlas_high_conflict(counted)
  BY DEF Watch!SignalsGrounded
<1> DEFINE items == {x[2] : x \in {y \in evidence : y[1] = k}}
<1>1. Grounds(k, signal[k].severity, items, links, changes, overtaken)
  BY DEF GroundsInv, Linked
<1>2. CASE /\ items # {}
           /\ \E pair \in links : Watch!Contradicts(pair) /\ k = <<"SEQUENCE", {pair[1], pair[2]}>>
  BY <1>2
<1>3. CASE items # {} /\ \E type : k = <<"CHANGE", type>>
  BY <1>3
<1>4. CASE /\ items # {} /\ k = <<"SPIKE">>
           /\ \E s \in SUBSET items :
                 /\ Cardinality(s) = SpikeThreshold
                 /\ \A i \in s : i \in DOMAIN changes /\ changes[i] = "FETCH_FAILED"
  BY <1>4, WatchCardinality
<1>5. CASE /\ k = <<"CONFLICTS">>
           /\ \E S \in SUBSET (items \cup overtaken) :
                 /\ Cardinality(S) \in Nat /\ Cardinality(S) >= Watch!HighConflictThreshold
                 /\ signal[k].severity <= Watch!severity_for_atlas_high_conflict(Cardinality(S))
  <2> DEFINE linked == {y \in evidence : y[1] = k}
             all == items \cup overtaken
  <2>1. PICK S \in SUBSET all :
              /\ Cardinality(S) \in Nat /\ Cardinality(S) >= Watch!HighConflictThreshold
              /\ signal[k].severity <= Watch!severity_for_atlas_high_conflict(Cardinality(S))
    BY <1>5
  <2>2. IsFiniteSet(items)
    <3>1. IsFiniteSet(linked)
      BY FS_Subset DEF GroundsInv
    <3>2. [x \in linked |-> x[2]] \in Surjection(linked, items)
      BY DEF Surjection
    <3> HIDE DEF linked, items
    <3> QED
      BY <3>1, <3>2, FS_Surjection
  <2>3. IsFiniteSet(all)
    <3> HIDE DEF items
    <3> QED
      BY <2>2, FS_Union DEF GroundsInv
  <2> HIDE DEF all, items
  <2>4. Cardinality(all) \in Nat /\ Cardinality(S) <= Cardinality(all)
    BY <2>1, <2>3, FS_CardinalityType, FS_Subset
  <2>5. Watch!severity_for_atlas_high_conflict(Cardinality(S))
          <= Watch!severity_for_atlas_high_conflict(Cardinality(all))
    BY <2>1, <2>4, SeverityMonotone
  <2>6. \A m : Watch!severity_for_atlas_high_conflict(m) \in Nat
    BY DEF Watch!severity_for_atlas_high_conflict
  <2>7. signal[k].severity \in Nat
    BY DEF DecisionsInv, Explained, SignalRows
  <2>8. signal[k].severity <= Watch!severity_for_atlas_high_conflict(Cardinality(all))
    BY <2>1, <2>5, <2>6, <2>7
  <2>9. Cardinality(all) >= Watch!HighConflictThreshold
    BY <2>1, <2>4 DEF Watch!HighConflictThreshold
  <2> QED
    BY <1>5, <2>8, <2>9, WatchCardinality DEF items, all
<1> HIDE DEF items
<1> QED
  BY <1>1, <1>2, <1>3, <1>4, <1>5 DEF Grounds, items

(* Among two kinds out of order there are neighbours out of order: take two as *)
(* near to each other as there are.                                            *)
LEMMA NeighboursContradict ==
    ASSUME NEW f, \A k \in Watch!Matched(f) : f[k] \in Times,
           NEW lo \in Watch!Matched(f), NEW hi \in Watch!Matched(f), lo < hi, f[lo] > f[hi]
    PROVE  \E pair \in Watch!Pairwise(f) :
              /\ Watch!Contradicts(pair)
              /\ \A row \in {pair[1], pair[2]} : row.raw = f[row.kind]
<1> DEFINE M == Watch!Matched(f)
           Out(j, k) == j < k /\ f[j] > f[k]
           Between(j, k) == {l \in M : j <= l /\ l <= k}
           spans == {U \in SUBSET M : \E j, k \in M : Out(j, k) /\ U = Between(j, k)}
<1>0. (\A k \in M : k \in Int) /\ IsFiniteSet(M)
  <2>1. M \subseteq Kinds
    BY DEF Watch!Matched
  <2> QED
    BY <2>1, SignalsAssumption, FS_Subset
<1>1. IsWellFoundedOn(StrictSubsetOrdering(M), SUBSET M)
  BY <1>0, FS_StrictSubsetOrderingWellFounded, FS_FiniteSubsetsOfFinite
<1>2. Between(lo, hi) \in spans
  OBVIOUS
<1>3. PICK U \in spans : \A V \in spans : <<V, U>> \notin StrictSubsetOrdering(M)
  BY <1>1, <1>2, WFMin
<1>4. PICK j \in M, k \in M : Out(j, k) /\ U = Between(j, k)
  BY <1>3
<1>5. ASSUME NEW l \in M, j < l, l < k PROVE FALSE
  <2>0. {j, k, l} \subseteq Int /\ {f[j], f[k], f[l]} \subseteq Int
    BY <1>0, SignalsAssumption
  <2>1. f[j] > f[l] \/ f[l] > f[k]
    BY <1>4, <2>0
  <2>2. CASE f[j] > f[l]
    <3>1. Between(j, l) \in spans
      BY <1>5, <2>2
    <3>2. Between(j, l) \subseteq U /\ k \in U /\ k \notin Between(j, l)
      BY <1>0, <1>4, <1>5
    <3> QED
      BY <1>3, <3>1, <3>2 DEF StrictSubsetOrdering
  <2>3. CASE f[l] > f[k]
    <3>1. Between(l, k) \in spans
      BY <1>5, <2>3
    <3>2. Between(l, k) \subseteq U /\ j \in U /\ j \notin Between(l, k)
      BY <1>0, <1>4, <1>5
    <3> QED
      BY <1>3, <3>1, <3>2 DEF StrictSubsetOrdering
  <2> QED
    BY <2>1, <2>2, <2>3
<1> DEFINE pair == <<Watch!Row(f, j), Watch!Row(f, k)>>
<1>6. \A l \in M : l <= j \/ k <= l
  BY <1>0, <1>5
<1>7. pair \in Watch!Pairwise(f)
  <2> DEFINE q == <<j, k>>
  <2>1. q \in {p \in Watch!Matched(f) \X Watch!Matched(f) :
                 p[1] < p[2] /\ \A l \in Watch!Matched(f) : l <= p[1] \/ p[2] <= l}
    BY <1>4, <1>6
  <2>2. pair = <<Watch!Row(f, q[1]), Watch!Row(f, q[2])>>
    OBVIOUS
  <2> HIDE DEF q, pair
  <2> QED
    BY <2>1, <2>2 DEF Watch!Pairwise
<1>8. Watch!Contradicts(pair) /\ \A row \in {pair[1], pair[2]} : row.raw = f[row.kind]
  BY <1>4 DEF Watch!Contradicts, Watch!HasInstant, Watch!Row
<1> QED
  BY <1>7, <1>8

LEMMA InversionsNoticed ==
    ASSUME ReviewsInv, Watch!Next
    PROVE  Watch!InversionStep
<1> SUFFICES ASSUME NEW p \in Extractors, extractor[p] # Idle, extractor'[p] = Idle,
                    \A k \in Watch!Matched(extractor[p]) : Watch!HasInstant(extractor[p][k]),
                    NEW lo \in Watch!Matched(extractor[p]),
                    NEW hi \in Watch!Matched(extractor[p]), lo < hi,
                    extractor[p][lo] > extractor[p][hi]
             PROVE  \E i \in DOMAIN sequenceReviews' :
                       \A row \in sequenceReviews'[i] : row.raw = extractor[p][row.kind]
  BY DEF Watch!InversionStep
<1>1. Watch!CommitExtraction(p)
  <2>1. \E c \in Extractors : Watch!ReadProjection(c) \/ Watch!CommitExtraction(c)
    BY DEF Watch!Next, Watch!UpdateProjection, Watch!RecordChange, Watch!OpenConflicts,
           Watch!ResolveConflict, Watch!ReopenConflict, Watch!StartDetection, Watch!Detect,
           Watch!EngineFails, Watch!LinkConflicts, Watch!DetectionFails, Watch!CommitDetection,
           Watch!ReviewSignal, Watch!CommitReview, Watch!ReviewRefused
  <2>2. PICK c \in Extractors : Watch!ReadProjection(c) \/ Watch!CommitExtraction(c)
    BY <2>1
  <2>3. c = p
    BY <2>2 DEF ReviewsInv, Watch!ReadProjection, Watch!CommitExtraction
  <2> QED
    BY <2>2, <2>3 DEF ReviewsInv, Watch!ReadProjection
<1>2. PICK pair \in Watch!Pairwise(extractor[p]) :
             /\ Watch!Contradicts(pair)
             /\ \A row \in {pair[1], pair[2]} : row.raw = extractor[p][row.kind]
  BY NeighboursContradict DEF Watch!HasInstant
<1>3. {pair[1], pair[2]} \in Contradictions(Watch!Pairwise(extractor[p]))
  BY <1>2 DEF Contradictions
<1> QED
  BY <1>1, <1>2, <1>3, ReviewsExtraction

SignalsInv == DecisionsInv /\ ReviewsInv /\ GroundsInv

LEMMA SignalsInit == Init => SignalsInv
BY DecisionsInit, GroundsInit DEF Init, SignalsInv

LEMMA SignalsStep ==
    ASSUME SignalsInv, [Next]_vars
    PROVE  SignalsInv' /\ [Watch!InversionStep]_(Watch!vars)
<1>1. CASE Watch!Next
  BY <1>1, DecisionsNext, SignalsNext, InversionsNoticed DEF SignalsInv
<1>2. CASE UNCHANGED signalVars
  <2>1. UNCHANGED <<fields, timeline, links, sequenceReviews, extractor, changes,
                    conflicts, overtaken, inputs, signal, evidence, decisions, detector, reviewer>>
    BY <1>2 DEF signalVars
  <2>2. UNCHANGED Watch!vars
    BY <2>1 DEF Watch!vars, Watch!chronosVars, Watch!argusVars, Watch!inputVars, Watch!conflictVars
  <2>3. DecisionsInv' /\ ReviewsInv'
    BY <2>1 DEF SignalsInv, DecisionsInv, ReviewsInv
  <2>4. GroundsInv'
    <3>1. Watch!OpenOnes' = Watch!OpenOnes /\ \A k : Linked(k)' = Linked(k)
      BY <2>1 DEF Watch!OpenOnes, Linked
    <3> QED
      BY <2>1, <3>1 DEF SignalsInv, GroundsInv
  <2> QED
    BY <2>2, <2>3, <2>4 DEF SignalsInv
<1> QED
  BY <1>1, <1>2 DEF Next, vars

(* Whatever detections run and whoever reviews, a signal has the status of its *)
(* last decision, and as many decisions as its version counts.                 *)
THEOREM DecisionsStand == Spec => []DecisionStands
<1>1. SignalsInv => DecisionStands
  BY DEF SignalsInv, DecisionsInv, Explained, DecisionStands, Watch!DecisionStands
<1> QED
  BY <1>1, SignalsInit, SignalsStep, PTL DEF Spec

(* A signal never outgrows its evidence, however detections overlap, fail in   *)
(* part or are repeated, for any limits and thresholds: what a HIGH_CONFLICT   *)
(* signal links falls short of its severity only by conflicts that were        *)
(* resolved between the two reads of a detection.                              *)
THEOREM SignalsAreGrounded == Spec => []SignalsGrounded
<1>1. SignalsInv => SignalsGrounded
  BY GroundedSignals DEF SignalsInv, SignalsGrounded
<1> QED
  BY <1>1, SignalsInit, SignalsStep, PTL DEF Spec

(* Comparing neighbours is enough: for any kinds, an extraction whose times    *)
(* are all instants and out of order leaves a review about that very timeline. *)
THEOREM InversionsAreNoticed == Spec => InversionNoticed
BY SignalsInit, SignalsStep, PTL DEF Spec, InversionNoticed, Watch!InversionNoticed
--------------------------------------------------------------------------------
(* Orion                                                                       *)
(*                                                                             *)
(* OrionInv: a key has one row among the committed ones and those of any one   *)
(* transaction, transactions share no lock, id or key, and every entity but an *)
(* airport owns the key of its name, unless its transaction made it and is     *)
(* about to attach the key, which its lock keeps free.  TraceInv: the rows of  *)
(* a transaction are those of the mentions it went through, and the rows of a  *)
(* committed extraction are still there.                                       *)

(* The key of an entity that is not an airport follows from its name. *)
KeyOf(type, name) ==
    CASE type = "AIRCRAFT"      -> <<"registration", Normal[name]>>
      [] type = "AIRCRAFT_TYPE" -> <<"model", Normal[name]>>
      [] OTHER                  -> <<"name", Normal[name]>>

(* A mention of anything but an airport has its one key. *)
Keyed(m) ==
    m.type # "AIRPORT" => m.key = KeyOf(m.type, m.name) /\ m.extras = <<>>

LEMMA MentionsKeyed ==
    ASSUME NEW f
    PROVE  /\ \E S : Registry!Mentions(f) \in Seq(S)
           /\ \A i \in DOMAIN Registry!Mentions(f) : Keyed(Registry!Mentions(f)[i])
<1> DEFINE m1 == Registry!resolve_aircraft(f["registration"])
           m2 == Registry!resolve_operator(f["operator"])
           m3 == Registry!resolve_aircraft_type(f["aircraft_type"])
           m4 == Registry!resolve_manufacturer(f["manufacturer"])
           m5 == Registry!resolve_airport(f)
           m6 == Registry!resolve_country(f["country"])
           m7 == Registry!resolve_investigation_agency(f["agency"])
           S == {m1, m2, m3, m4, m5, m6, m7}
<1>1. Keyed(m1) /\ Keyed(m2) /\ Keyed(m3) /\ Keyed(m4) /\ Keyed(m6) /\ Keyed(m7)
  BY DEF Keyed, KeyOf, Registry!Mention, Registry!Name, Registry!_name_candidate, Registry!resolve_aircraft,
         Registry!resolve_operator, Registry!resolve_aircraft_type, Registry!resolve_manufacturer,
         Registry!resolve_country, Registry!resolve_investigation_agency
<1>2. m5.type = "AIRPORT"
  BY DEF Registry!resolve_airport, Registry!Mention
<1>3. \A m \in S : Keyed(m)
  BY <1>1, <1>2 DEF Keyed
<1> DEFINE s1 == Registry!IfPresent(f, "registration", Registry!resolve_aircraft)
           s2 == Registry!IfPresent(f, "operator", Registry!resolve_operator)
           s3 == Registry!IfPresent(f, "aircraft_type", Registry!resolve_aircraft_type)
           s4 == Registry!IfPresent(f, "manufacturer", Registry!resolve_manufacturer)
           s5 == IF {"airport", "location"} \cap DOMAIN f = {} THEN <<>> ELSE <<m5>>
           s6 == Registry!IfPresent(f, "country", Registry!resolve_country)
           s7 == Registry!IfPresent(f, "agency", Registry!resolve_investigation_agency)
<1>4. Registry!Mentions(f) = s1 \o s2 \o s3 \o s4 \o s5 \o s6 \o s7
  BY DEF Registry!Mentions
<1>5. /\ s1 \in Seq(S) /\ s2 \in Seq(S) /\ s3 \in Seq(S) /\ s4 \in Seq(S)
      /\ s5 \in Seq(S) /\ s6 \in Seq(S) /\ s7 \in Seq(S)
  <2>1. s1 \in {<<>>, <<m1>>} /\ s2 \in {<<>>, <<m2>>} /\ s3 \in {<<>>, <<m3>>} /\ s4 \in {<<>>, <<m4>>}
    BY DEF Registry!IfPresent
  <2>2. s5 \in {<<>>, <<m5>>} /\ s6 \in {<<>>, <<m6>>} /\ s7 \in {<<>>, <<m7>>}
    BY DEF Registry!IfPresent
  <2>3. {m1, m2, m3, m4, m5, m6, m7} \subseteq S
    OBVIOUS
  <2> HIDE DEF m1, m2, m3, m4, m5, m6, m7, s1, s2, s3, s4, s5, s6, s7, S
  <2>4. <<>> \in Seq(S) /\ \A m \in S : <<m>> \in Seq(S)
    OBVIOUS
  <2> QED
    BY <2>1, <2>2, <2>3, <2>4
<1> HIDE DEF S, s1, s2, s3, s4, s5, s6, s7
<1>6. Registry!Mentions(f) \in Seq(S)
  BY <1>4, <1>5
<1> QED
  BY <1>3, <1>6

Airport == "AIRPORT"

(* An entity with the identifier of its name. *)
Owns(identifiers, e) ==
    \E i \in identifiers : i.type = e.type /\ i.key = KeyOf(e.type, e.name) /\ i.entity = e.id

SameKey(i, j) == i.type = j.type /\ i.key = j.key

(* What committed rows and those of one transaction are together. *)
RowsSound(entities, identifiers) ==
    /\ \A d, e \in entities : d.id = e.id => d = e
    /\ \A i, j \in identifiers : SameKey(i, j) => i = j
    /\ \A i \in identifiers : \E e \in entities : e.id = i.entity /\ e.type = i.type

TransactionFields == {"event", "reading", "at", "todo", "who", "locks", "entities", "identifiers",
                      "relations", "links"}

(* The shape of a transaction: who has the mentions before at, and that of at  *)
(* while its keys are attached.                                                *)
Shaped(t) ==
    /\ DOMAIN t = TransactionFields
    /\ \E S : t.reading \in Seq(S)
    /\ \A i \in DOMAIN t.reading : Keyed(t.reading[i])
    /\ t.at \in Nat \ {0}
    /\ \E S : t.who \in Seq(S)
    /\ Len(t.who) = t.at - 1 \/ (Len(t.who) = t.at /\ t.at <= Len(t.reading))
    /\ t.todo # <<>> => Len(t.who) = t.at

(* The entity that was made for the mention and whose key is not attached yet: *)
(* the lock keeps the key free.                                                *)
Making(identifiers, t, e) ==
    LET m == t.reading[t.at]
    IN /\ t.todo = <<m.key>>
       /\ e.id = t.who[t.at] /\ e.type = m.type /\ KeyOf(e.type, e.name) = m.key
       /\ \A i \in identifiers : ~ SameKey(i, m)

Sound(entities, identifiers, t) ==
    /\ Shaped(t)
    /\ RowsSound(entities \cup t.entities, identifiers \cup t.identifiers)
    /\ t.entities \cap entities = {}
    /\ \A e \in t.entities : e.type # Airport =>
          Owns(t.identifiers, e) \/ Making(identifiers \cup t.identifiers, t, e)
    /\ \A i \in t.identifiers : i.type # Airport => <<i.type, i.key>> \in t.locks
    /\ Len(t.who) = t.at =>
          LET m == t.reading[t.at]
          IN /\ <<m.type, m.key>> \in t.locks
             /\ m.type # Airport => t.todo \in {<<>>, <<m.key>>}
             /\ \E e \in entities \cup t.entities : e.id = t.who[t.at] /\ e.type = m.type

(* Two transactions share no lock, no id and no key. *)
Apart(t, u) ==
    /\ t.locks \cap u.locks = {}
    /\ \A d \in t.entities, e \in u.entities : d.id # e.id
    /\ \A i \in t.identifiers, j \in u.identifiers : ~ SameKey(i, j)

OrionInv ==
    /\ DOMAIN extraction = Callers
    /\ RowsSound(entity, identifier)
    /\ \A e \in entity : e.type # Airport => Owns(identifier, e)
    /\ \A x \in Callers : extraction[x] # Idle => Sound(entity, identifier, extraction[x])
    /\ \A x, y \in Callers : x # y /\ extraction[x] # Idle /\ extraction[y] # Idle =>
          Apart(extraction[x], extraction[y])

LEMMA OneEntity == OrionInv => Registry!OneEntityPerName
<1> SUFFICES ASSUME OrionInv PROVE Registry!OneEntityPerName
  OBVIOUS
<1>1. ASSUME NEW d \in entity, NEW e \in entity, d # e, d.type # "AIRPORT"
      PROVE  <<d.type, d.name>> # <<e.type, e.name>>
  <2> SUFFICES ASSUME d.type = e.type, d.name = e.name PROVE FALSE
    OBVIOUS
  <2>1. PICK i \in identifier : i.type = d.type /\ i.key = KeyOf(d.type, d.name) /\ i.entity = d.id
    BY <1>1 DEF OrionInv, Owns, Airport
  <2>2. PICK j \in identifier : j.type = d.type /\ j.key = KeyOf(d.type, d.name) /\ j.entity = e.id
    BY <1>1 DEF OrionInv, Owns, Airport
  <2> QED
    BY <1>1, <2>1, <2>2 DEF OrionInv, RowsSound, SameKey
<1>2. \A e \in entity : e.type # "AIRPORT" => \E i \in identifier : i.entity = e.id /\ i.type = e.type
  BY DEF OrionInv, Owns, Airport
<1> QED
  BY <1>1, <1>2 DEF Registry!OneEntityPerName, OrionInv, RowsSound, SameKey

LEMMA OrionInit == Registry!Init => OrionInv
BY DEF Registry!Init, OrionInv, RowsSound

(* One transaction goes on: the others see nothing of it. *)
LEMMA OrionGoesOn ==
    ASSUME OrionInv, NEW x \in Callers, UNCHANGED <<entity, identifier>>,
           DOMAIN extraction' = Callers,
           \A y \in Callers \ {x} : extraction'[y] = extraction[y],
           extraction'[x] # Idle =>
               /\ Sound(entity, identifier, extraction'[x])
               /\ \A y \in Callers : y # x /\ extraction[y] # Idle =>
                     Apart(extraction'[x], extraction[y])
    PROVE  OrionInv'
<1>1. /\ DOMAIN extraction' = Callers
      /\ \A y \in Callers \ {x} : extraction'[y] = extraction[y]
  OBVIOUS
<1>2. \A u, v : Apart(u, v) => Apart(v, u)
  BY DEF Apart, SameKey
<1>3. /\ RowsSound(entity', identifier')
      /\ \A e \in entity' : e.type # Airport => Owns(identifier', e)
      /\ \A y \in Callers : extraction'[y] # Idle => Sound(entity', identifier', extraction'[y])
  BY <1>1 DEF OrionInv
<1>4. ASSUME NEW y \in Callers, NEW z \in Callers, y # z, extraction'[y] # Idle, extraction'[z] # Idle
      PROVE  Apart(extraction'[y], extraction'[z])
  <2>1. CASE y = x
    BY <1>1, <1>4, <2>1
  <2>2. CASE z = x
    BY <1>1, <1>2, <1>4, <2>2
  <2>3. CASE y # x /\ z # x
    BY <1>1, <1>4, <2>3 DEF OrionInv
  <2> QED
    BY <2>1, <2>2, <2>3
<1> QED
  BY <1>1, <1>3, <1>4 DEF OrionInv

LEMMA OrionStart ==
    ASSUME OrionInv, NEW x \in Callers, NEW event, NEW projection,
           Registry!extract_entities_from_event(x, event, projection)
    PROVE  OrionInv'
<1> DEFINE reading == Registry!Mentions(projection)
           t == [event |-> event, reading |-> reading, at |-> 1, todo |-> <<>>,
                 who |-> <<>>, locks |-> {}, entities |-> {}, identifiers |-> {}, relations |-> {},
                 links |-> {}]
<1>1. extraction' = [extraction EXCEPT ![x] = t] /\ UNCHANGED <<entity, identifier>>
  BY DEF Registry!extract_entities_from_event, Registry!tables
<1>2. /\ \E S : reading \in Seq(S)
      /\ \A i \in DOMAIN reading : Keyed(reading[i])
  BY MentionsKeyed
<1> HIDE DEF reading
<1>3. /\ DOMAIN t = TransactionFields /\ t.reading = reading /\ t.at = 1 /\ t.todo = <<>>
      /\ t.who = <<>> /\ t.locks = {} /\ t.entities = {} /\ t.identifiers = {}
  BY DEF TransactionFields
<1> HIDE DEF t
<1>4. Len(t.who) = 0 /\ \E S : t.who \in Seq(S)
  BY <1>3
<1>5. Shaped(t)
  BY <1>2, <1>3, <1>4 DEF Shaped
<1>6. Sound(entity, identifier, t)
  BY <1>3, <1>4, <1>5 DEF Sound, OrionInv
<1>7. \A u : Apart(t, u)
  BY <1>3 DEF Apart
<1>8. /\ DOMAIN extraction' = Callers /\ extraction'[x] = t
      /\ \A y \in Callers \ {x} : extraction'[y] = extraction[y]
  BY <1>1 DEF OrionInv
<1> QED
  BY <1>1, <1>6, <1>7, <1>8, OrionGoesOn

(* An entity that is found for a mention has its type. *)
LEMMA ChosenType ==
    ASSUME OrionInv, NEW x \in Callers, extraction[x] # Idle, NEW m, NEW e \in Registry!Chosen(x, m)
    PROVE  e \in entity \cup extraction[x].entities /\ e.type = m.type
<1>1. RowsSound(entity \cup extraction[x].entities, identifier \cup extraction[x].identifiers)
  BY DEF OrionInv, Sound
<1>2. CASE e \in Registry!find_by_identifier(x, m)
  BY <1>1, <1>2 DEF Registry!find_by_identifier, Registry!SeenEntities, Registry!SeenIdentifiers, RowsSound
<1>3. CASE e \in Registry!find_by_canonical_name(x, m)
  BY <1>3 DEF Registry!find_by_canonical_name, Registry!SeenEntities
<1> QED
  BY <1>2, <1>3 DEF Registry!Chosen

LEMMA NoneChosen ==
    ASSUME OrionInv, NEW x \in Callers, extraction[x] # Idle, NEW m, Registry!Chosen(x, m) = {}
    PROVE  \A i \in identifier \cup extraction[x].identifiers : ~ SameKey(i, m)
<1>1. RowsSound(entity \cup extraction[x].entities, identifier \cup extraction[x].identifiers)
  BY DEF OrionInv, Sound
<1>2. Registry!find_by_identifier(x, m) = {}
  BY DEF Registry!Chosen
<1> QED
  BY <1>1, <1>2 DEF Registry!find_by_identifier, Registry!SeenEntities, Registry!SeenIdentifiers,
                    RowsSound, SameKey

(* What resolving a mention makes of the transaction, with the entity it made. *)
Resolved(x, id, made) ==
    LET t == extraction[x]
        u == extraction'[x]
        m == t.reading[t.at]
    IN /\ DOMAIN extraction' = Callers
       /\ \A y \in Callers \ {x} : extraction'[y] = extraction[y]
       /\ DOMAIN u = DOMAIN t
       /\ u.event = t.event /\ u.reading = t.reading /\ u.at = t.at
       /\ u.relations = t.relations /\ u.links = t.links /\ u.identifiers = t.identifiers
       /\ u.locks = t.locks \cup {<<m.type, m.key>>}
       /\ u.who = Append(t.who, id)
       /\ u.entities = t.entities \cup made
       /\ u.todo = <<m.key>> \o m.extras

LEMMA ResolveStep ==
    ASSUME OrionInv, NEW x \in Callers, Registry!_resolve_or_create(x)
    PROVE  LET t == extraction[x]
               m == t.reading[t.at]
           IN /\ t # Idle /\ t.at <= Len(t.reading) /\ Len(t.who) < t.at
              /\ UNCHANGED <<entity, identifier>>
              /\ \A y \in Callers : y # x /\ extraction[y] # Idle =>
                    <<m.type, m.key>> \notin extraction[y].locks
              /\ \/ \E e \in Registry!Chosen(x, m) : Resolved(x, e.id, {})
                 \/ /\ Registry!Chosen(x, m) = {}
                    /\ \E id \in EntityIds \ Registry!DrawnIds :
                          Resolved(x, id, {[id |-> id, type |-> m.type, name |-> m.name]})
<1> DEFINE t == extraction[x]
           m == t.reading[t.at]
           With(id, made) == extraction' = [extraction EXCEPT
                ![x].locks = @ \cup {<<m.type, m.key>>}, ![x].who = Append(@, id),
                ![x].entities = @ \cup made, ![x].todo = <<m.key>> \o m.extras]
<1>1. /\ t # Idle /\ ~ Registry!Finished(x) /\ Len(t.who) < t.at
      /\ UNCHANGED <<entity, identifier>>
      /\ Registry!lock_for_identifier_identity(x, m)
      /\ IF Registry!Chosen(x, m) # {}
         THEN \E e \in Registry!Chosen(x, m) : With(e.id, {})
         ELSE \E id \in EntityIds \ Registry!DrawnIds :
                 With(id, {[id |-> id, type |-> m.type, name |-> m.name]})
  BY DEF Registry!_resolve_or_create, Registry!Current, Registry!tables
<1>2. Shaped(t) /\ DOMAIN extraction = Callers
  BY <1>1 DEF OrionInv, Sound
<1>3. DOMAIN t = TransactionFields /\ t.at \in Nat /\ Len(t.reading) \in Nat
  BY <1>2 DEF Shaped
<1>4. ASSUME NEW id, NEW made, With(id, made) PROVE Resolved(x, id, made)
  <2> DEFINE todo == <<m.key>> \o m.extras
             lock == <<m.type, m.key>>
  <2>1. extraction' = [extraction EXCEPT
           ![x].locks = @ \cup {lock}, ![x].who = Append(@, id),
           ![x].entities = @ \cup made, ![x].todo = todo]
    BY <1>4
  <2> HIDE DEF todo, lock
  <2>2. /\ DOMAIN extraction' = Callers
        /\ \A y \in Callers \ {x} : extraction'[y] = extraction[y]
        /\ DOMAIN extraction'[x] = DOMAIN extraction[x]
        /\ extraction'[x].reading = extraction[x].reading
        /\ extraction'[x].at = extraction[x].at
        /\ extraction'[x].event = extraction[x].event
        /\ extraction'[x].relations = extraction[x].relations
        /\ extraction'[x].links = extraction[x].links
        /\ extraction'[x].identifiers = extraction[x].identifiers
        /\ extraction'[x].locks = extraction[x].locks \cup {lock}
        /\ extraction'[x].who = Append(extraction[x].who, id)
        /\ extraction'[x].entities = extraction[x].entities \cup made
        /\ extraction'[x].todo = todo
    BY <1>2, <1>3, <2>1 DEF TransactionFields
  <2> QED
    BY <2>2 DEF Resolved, todo, lock
<1>5. t.at <= Len(t.reading)
  <2>1. ~ (t.at > Len(t.reading))
    BY <1>1 DEF Registry!Finished
  <2>2. t.at \in Int /\ Len(t.reading) \in Int
    BY <1>3
  <2> HIDE DEF t
  <2> QED
    BY <2>1, <2>2
<1>6. \A y \in Callers : y # x /\ extraction[y] # Idle => <<m.type, m.key>> \notin extraction[y].locks
  BY <1>1 DEF Registry!lock_for_identifier_identity, Registry!Busy
<1> HIDE DEF With
<1> QED
  BY <1>1, <1>4, <1>5, <1>6

LEMMA OrionResolve ==
    ASSUME OrionInv, NEW x \in Callers, Registry!_resolve_or_create(x)
    PROVE  OrionInv'
<1> DEFINE t == extraction[x]
           u == extraction'[x]
           m == t.reading[t.at]
<1>1. /\ t # Idle /\ t.at <= Len(t.reading) /\ Len(t.who) < t.at
      /\ UNCHANGED <<entity, identifier>>
      /\ \A y \in Callers : y # x /\ extraction[y] # Idle =>
            <<m.type, m.key>> \notin extraction[y].locks
  BY ResolveStep
<1>2. Sound(entity, identifier, t) /\ Shaped(t)
  BY <1>1 DEF OrionInv, Sound
<1>3. /\ t.at \in Nat \ {0} /\ Len(t.who) = t.at - 1 /\ Keyed(m) /\ t.todo = <<>>
      /\ \E S : t.who \in Seq(S)
  BY <1>1, <1>2 DEF Shaped
<1>4. ASSUME NEW id, NEW made, Resolved(x, id, made),
             \/ made = {} /\ \E e \in entity \cup t.entities : e.id = id /\ e.type = m.type
             \/ /\ made = {[id |-> id, type |-> m.type, name |-> m.name]}
                /\ id \notin Registry!DrawnIds
                /\ \A i \in identifier \cup t.identifiers : ~ SameKey(i, m)
      PROVE  OrionInv'
  <2>1. /\ DOMAIN extraction' = Callers
        /\ \A y \in Callers \ {x} : extraction'[y] = extraction[y]
        /\ DOMAIN u = DOMAIN t
        /\ u.reading = t.reading /\ u.at = t.at /\ u.identifiers = t.identifiers
        /\ u.locks = t.locks \cup {<<m.type, m.key>>}
        /\ u.who = Append(t.who, id)
        /\ u.entities = t.entities \cup made
        /\ u.todo = <<m.key>> \o m.extras
    BY <1>4 DEF Resolved
  <2>2. Len(u.who) = t.at /\ u.who[t.at] = id /\ \E S : u.who \in Seq(S)
    <3>1. PICK S : t.who \in Seq(S)
      BY <1>3
    <3>2. t.who \in Seq(S \cup {id})
      BY <3>1
    <3>3. Append(t.who, id) \in Seq(S \cup {id})
      BY <3>2
    <3> QED
      BY <1>3, <2>1, <3>2, <3>3
  <2>3. Shaped(u)
    BY <1>1, <1>2, <1>3, <2>1, <2>2 DEF Shaped
  <2>4. m.type # Airport => u.todo = <<m.key>> /\ m.key = KeyOf(m.type, m.name)
    <3>1. \A k : <<k>> \o <<>> = <<k>>
      <4> SUFFICES ASSUME NEW k PROVE <<k>> \o <<>> = <<k>>
        OBVIOUS
      <4>1. <<k>> \in Seq({k})
        OBVIOUS
      <4> QED
        BY <4>1, ConcatEmptySeq
    <3>2. m.type # Airport => m.extras = <<>> /\ m.key = KeyOf(m.type, m.name)
      BY <1>3 DEF Keyed, Airport
    <3> QED
      BY <2>1, <3>1, <3>2
  <2>5. ASSUME NEW e \in made, NEW d \in entity \cup t.entities PROVE d.id # e.id
    BY <1>1, <1>4 DEF Registry!DrawnIds, Registry!Busy
  <2>6. RowsSound(entity \cup u.entities, identifier \cup u.identifiers)
    BY <1>2, <1>4, <2>1, <2>5 DEF Sound, RowsSound
  <2>7. u.entities \cap entity = {}
    BY <1>2, <2>1, <2>5 DEF Sound
  <2>8. ASSUME NEW e \in u.entities, e.type # Airport
        PROVE  Owns(u.identifiers, e) \/ Making(identifier \cup u.identifiers, u, e)
    <3>1. CASE e \in t.entities
      <4>1. ~ Making(identifier \cup t.identifiers, t, e)
        BY <1>3 DEF Making
      <4> QED
        BY <1>2, <2>1, <2>8, <3>1, <4>1 DEF Sound
    <3>2. CASE e \in made
      <4>1. e.id = id /\ e.type = m.type /\ e.name = m.name
        BY <1>4, <3>2
      <4>2. \A i \in identifier \cup u.identifiers : ~ SameKey(i, m)
        BY <1>4, <2>1, <3>2
      <4> QED
        BY <2>1, <2>2, <2>4, <2>8, <4>1, <4>2 DEF Making
    <3> QED
      BY <2>1, <3>1, <3>2
  <2>9. \A i \in u.identifiers : i.type # Airport => <<i.type, i.key>> \in u.locks
    BY <1>2, <2>1 DEF Sound
  <2>10. /\ <<m.type, m.key>> \in u.locks
         /\ m.type # Airport => u.todo \in {<<>>, <<m.key>>}
         /\ \E e \in entity \cup u.entities : e.id = u.who[u.at] /\ e.type = m.type
    <3>1. \E e \in entity \cup u.entities : e.id = id /\ e.type = m.type
      <4>1. CASE made = {} /\ \E e \in entity \cup t.entities : e.id = id /\ e.type = m.type
        BY <2>1, <4>1
      <4>2. CASE made = {[id |-> id, type |-> m.type, name |-> m.name]}
        <5> DEFINE e == [id |-> id, type |-> m.type, name |-> m.name]
        <5>1. e.id = id /\ e.type = m.type /\ e \in made
          BY <4>2
        <5> HIDE DEF e
        <5> QED
          BY <2>1, <5>1
      <4> QED
        BY <1>4, <4>1, <4>2
    <3>2. u.who[u.at] = id
      BY <2>1, <2>2
    <3>3. <<m.type, m.key>> \in u.locks /\ (m.type # Airport => u.todo \in {<<>>, <<m.key>>})
      BY <2>1, <2>4
    <3> HIDE DEF u, m, t
    <3> QED
      BY <3>1, <3>2, <3>3
  <2>11. Sound(entity, identifier, u)
    BY <2>1, <2>3, <2>6, <2>7, <2>8, <2>9, <2>10 DEF Sound
  <2>12. ASSUME NEW y \in Callers, y # x, extraction[y] # Idle
         PROVE  Apart(u, extraction[y])
    <3>1. Apart(t, extraction[y])
      BY <1>1, <2>12 DEF OrionInv
    <3>2. \A e \in made, d \in extraction[y].entities : e.id # d.id
      BY <1>4, <2>12 DEF Registry!DrawnIds, Registry!Busy
    <3> QED
      BY <1>1, <2>1, <2>12, <3>1, <3>2 DEF Apart
  <2> QED
    BY <1>1, <2>1, <2>11, <2>12, OrionGoesOn
<1>5. \/ \E e \in Registry!Chosen(x, m) : Resolved(x, e.id, {})
      \/ /\ Registry!Chosen(x, m) = {}
         /\ \E id \in EntityIds \ Registry!DrawnIds :
               Resolved(x, id, {[id |-> id, type |-> m.type, name |-> m.name]})
  BY ResolveStep
<1>6. CASE \E e \in Registry!Chosen(x, m) : Resolved(x, e.id, {})
  BY <1>1, <1>4, <1>6, ChosenType
<1>7. CASE /\ Registry!Chosen(x, m) = {}
           /\ \E id \in EntityIds \ Registry!DrawnIds :
                 Resolved(x, id, {[id |-> id, type |-> m.type, name |-> m.name]})
  BY <1>1, <1>4, <1>7, NoneChosen
<1> QED
  BY <1>5, <1>6, <1>7

LEMMA AttachStep ==
    ASSUME OrionInv, NEW x \in Callers, Registry!_attach_identifier(x)
    PROVE  LET t == extraction[x]
               u == extraction'[x]
               m == t.reading[t.at]
               row == [type |-> m.type, key |-> Head(t.todo), entity |-> t.who[t.at]]
               seen == identifier \cup t.identifiers
           IN /\ t # Idle /\ t.todo # <<>>
              /\ UNCHANGED <<entity, identifier>>
              /\ \A y \in Callers : y # x /\ extraction[y] # Idle =>
                    \A r \in extraction[y].identifiers : ~ SameKey(r, row)
              /\ DOMAIN extraction' = Callers
              /\ \A y \in Callers \ {x} : extraction'[y] = extraction[y]
              /\ DOMAIN u = DOMAIN t
              /\ u.event = t.event /\ u.relations = t.relations /\ u.links = t.links
              /\ u.reading = t.reading /\ u.at = t.at /\ u.who = t.who /\ u.locks = t.locks
              /\ u.entities = t.entities /\ u.todo = Tail(t.todo)
              /\ \/ (\E r \in seen : SameKey(r, row)) /\ u.identifiers = t.identifiers
                 \/ (\A r \in seen : ~ SameKey(r, row)) /\ u.identifiers = t.identifiers \cup {row}
<1> DEFINE t == extraction[x]
           m == t.reading[t.at]
           key == Head(t.todo)
           row == [type |-> m.type, key |-> key, entity |-> t.who[t.at]]
           added == Registry!try_add(x, row)
<1>1. /\ t # Idle /\ t.todo # <<>>
      /\ UNCHANGED <<entity, identifier>>
      /\ extraction' = [extraction EXCEPT ![x].todo = Tail(@), ![x].identifiers = added]
  BY DEF Registry!_attach_identifier, Registry!Current, Registry!tables
<1>2. \A y \in Callers : y # x /\ extraction[y] # Idle =>
         \A r \in extraction[y].identifiers : ~ (r.type = m.type /\ r.key = key)
  BY DEF Registry!_attach_identifier, Registry!Current, Registry!InsertWaits, Registry!Busy
<1>3. row.type = m.type /\ row.key = key
  OBVIOUS
<1>4. DOMAIN t = TransactionFields /\ DOMAIN extraction = Callers
  BY <1>1 DEF OrionInv, Sound, Shaped
<1>5. \/ /\ \E r \in identifier \cup t.identifiers : SameKey(r, row)
         /\ added = t.identifiers
      \/ /\ \A r \in identifier \cup t.identifiers : ~ SameKey(r, row)
         /\ added = t.identifiers \cup {row}
  BY DEF Registry!try_add, Registry!SeenIdentifiers, SameKey
<1> HIDE DEF added, row, m, key
<1>6. /\ DOMAIN extraction' = Callers
      /\ \A y \in Callers \ {x} : extraction'[y] = extraction[y]
      /\ DOMAIN extraction'[x] = DOMAIN extraction[x]
      /\ extraction'[x].reading = extraction[x].reading
      /\ extraction'[x].at = extraction[x].at
      /\ extraction'[x].event = extraction[x].event
      /\ extraction'[x].relations = extraction[x].relations
      /\ extraction'[x].links = extraction[x].links
      /\ extraction'[x].who = extraction[x].who
      /\ extraction'[x].locks = extraction[x].locks
      /\ extraction'[x].entities = extraction[x].entities
      /\ extraction'[x].todo = Tail(extraction[x].todo)
      /\ extraction'[x].identifiers = added
  BY <1>1, <1>4 DEF TransactionFields
<1>7. \A y \in Callers : y # x /\ extraction[y] # Idle =>
         \A r \in extraction[y].identifiers : ~ SameKey(r, row)
  BY <1>2, <1>3 DEF SameKey
<1> QED
  BY <1>1, <1>5, <1>6, <1>7 DEF row, m, key

LEMMA OrionAttach ==
    ASSUME OrionInv, NEW x \in Callers, Registry!_attach_identifier(x)
    PROVE  OrionInv'
<1> DEFINE t == extraction[x]
           u == extraction'[x]
           m == t.reading[t.at]
           row == [type |-> m.type, key |-> Head(t.todo), entity |-> t.who[t.at]]
           seen == identifier \cup t.identifiers
<1>1. /\ t # Idle /\ t.todo # <<>>
      /\ UNCHANGED <<entity, identifier>>
      /\ \A y \in Callers : y # x /\ extraction[y] # Idle =>
            \A r \in extraction[y].identifiers : ~ SameKey(r, row)
      /\ DOMAIN extraction' = Callers
      /\ \A y \in Callers \ {x} : extraction'[y] = extraction[y]
      /\ DOMAIN u = DOMAIN t
      /\ u.reading = t.reading /\ u.at = t.at /\ u.who = t.who /\ u.locks = t.locks
      /\ u.entities = t.entities /\ u.todo = Tail(t.todo)
      /\ \/ (\E r \in seen : SameKey(r, row)) /\ u.identifiers = t.identifiers
         \/ (\A r \in seen : ~ SameKey(r, row)) /\ u.identifiers = t.identifiers \cup {row}
  BY AttachStep
<1>2. row.type = m.type /\ row.key = Head(t.todo) /\ row.entity = t.who[t.at]
  OBVIOUS
<1> HIDE DEF row
<1>3. Sound(entity, identifier, t) /\ Shaped(t)
  BY <1>1 DEF OrionInv, Sound
<1>4. /\ Len(t.who) = t.at
      /\ <<m.type, m.key>> \in t.locks
      /\ m.type # Airport => t.todo = <<m.key>>
      /\ \E e \in entity \cup t.entities : e.id = t.who[t.at] /\ e.type = m.type
  BY <1>1, <1>3 DEF Shaped, Sound
<1>5. \A k : Head(<<k>>) = k /\ Tail(<<k>>) = <<>>
  OBVIOUS
<1>6. m.type # Airport => row.key = m.key /\ u.todo = <<>>
  BY <1>1, <1>2, <1>4, <1>5
<1>7. Shaped(u)
  BY <1>1, <1>3, <1>4 DEF Shaped
<1>8. RowsSound(entity \cup u.entities, identifier \cup u.identifiers)
  <2>1. RowsSound(entity \cup t.entities, seen) /\ u.entities = t.entities
    BY <1>1, <1>3 DEF Sound
  <2>2. \/ identifier \cup u.identifiers = seen
        \/ /\ identifier \cup u.identifiers = seen \cup {row}
           /\ \A r \in seen : ~ SameKey(r, row)
    BY <1>1
  <2>3. \E e \in entity \cup t.entities : e.id = row.entity /\ e.type = row.type
    BY <1>2, <1>4
  <2> HIDE DEF t, u, m, seen
  <2>4. CASE identifier \cup u.identifiers = seen
    BY <2>1, <2>4
  <2>5. CASE /\ identifier \cup u.identifiers = seen \cup {row}
             /\ \A r \in seen : ~ SameKey(r, row)
    <3> DEFINE ids == identifier \cup u.identifiers
    <3>1. \A i, j \in ids : SameKey(i, j) => i = j
      BY <2>1, <2>5 DEF RowsSound, SameKey
    <3>2. \A i \in ids : \E e \in entity \cup t.entities : e.id = i.entity /\ e.type = i.type
      BY <2>1, <2>3, <2>5 DEF RowsSound
    <3> HIDE DEF ids
    <3>3. RowsSound(entity \cup u.entities, ids)
      BY <2>1, <3>1, <3>2 DEF RowsSound
    <3> QED
      BY <3>3 DEF ids
  <2> QED
    BY <2>2, <2>4, <2>5
<1>9. ASSUME NEW e \in u.entities, e.type # Airport
      PROVE  Owns(u.identifiers, e)
  <2>1. t.identifiers \subseteq u.identifiers /\ e \in t.entities
    BY <1>1, <1>9
  <2>2. CASE Owns(t.identifiers, e)
    BY <2>1, <2>2 DEF Owns
  <2>3. CASE Making(identifier \cup t.identifiers, t, e)
    <3>1. /\ e.id = t.who[t.at] /\ e.type = m.type /\ KeyOf(e.type, e.name) = m.key
          /\ \A i \in seen : ~ SameKey(i, m)
      BY <2>3 DEF Making
    <3>2. row.key = m.key
      BY <1>6, <1>9, <3>1
    <3>3. \A r \in seen : ~ SameKey(r, row)
      BY <1>2, <3>1, <3>2 DEF SameKey
    <3>4. row \in u.identifiers
      BY <1>1, <3>3
    <3> QED
      BY <1>2, <3>1, <3>2, <3>4 DEF Owns
  <2> QED
    BY <1>3, <1>9, <2>1, <2>2, <2>3 DEF Sound
<1>10. \A i \in u.identifiers : i.type # Airport => <<i.type, i.key>> \in u.locks
  BY <1>1, <1>2, <1>3, <1>4, <1>6 DEF Sound
<1>11. Sound(entity, identifier, u)
  <2>1. u.entities \cap entity = {}
    BY <1>1, <1>3 DEF Sound
  <2>2. LET n == u.reading[u.at]
        IN /\ <<n.type, n.key>> \in u.locks
           /\ n.type # Airport => u.todo \in {<<>>, <<n.key>>}
           /\ \E e \in entity \cup u.entities : e.id = u.who[u.at] /\ e.type = n.type
    BY <1>1, <1>4, <1>6
  <2> QED
    BY <1>7, <1>8, <1>9, <1>10, <2>1, <2>2 DEF Sound
<1>12. ASSUME NEW y \in Callers, y # x, extraction[y] # Idle
       PROVE  Apart(u, extraction[y])
  <2>1. Apart(t, extraction[y])
    BY <1>1, <1>12 DEF OrionInv
  <2>2. \A r \in extraction[y].identifiers : ~ SameKey(row, r)
    BY <1>1, <1>12 DEF SameKey
  <2> QED
    BY <1>1, <2>1, <2>2 DEF Apart
<1> QED
  BY <1>1, <1>11, <1>12, OrionGoesOn

LEMMA LinkStep ==
    ASSUME OrionInv, NEW x \in Callers, Registry!LinkAndRelate(x)
    PROVE  LET t == extraction[x]
               u == extraction'[x]
           IN /\ t # Idle /\ ~ (t.at > Len(t.reading)) /\ Len(t.who) = t.at /\ t.todo = <<>>
              /\ UNCHANGED <<entity, identifier>>
              /\ DOMAIN extraction' = Callers
              /\ \A y \in Callers \ {x} : extraction'[y] = extraction[y]
              /\ DOMAIN u = DOMAIN t
              /\ u.event = t.event /\ u.reading = t.reading /\ u.at = t.at + 1 /\ u.who = t.who
              /\ u.locks = t.locks /\ u.entities = t.entities /\ u.identifiers = t.identifiers
              /\ u.todo = t.todo
              /\ u.relations = t.relations \cup Registry!_upsert_rel(x)
              /\ u.links = t.links \cup Registry!_maybe_claim_link(x)
<1> DEFINE t == extraction[x]
           rel == Registry!_upsert_rel(x)
           claim == Registry!_maybe_claim_link(x)
<1>1. /\ t # Idle /\ ~ (t.at > Len(t.reading)) /\ Len(t.who) = t.at /\ t.todo = <<>>
      /\ UNCHANGED <<entity, identifier>>
      /\ extraction' = [extraction EXCEPT ![x].at = @ + 1, ![x].relations = @ \cup rel,
                                          ![x].links = @ \cup claim]
  BY DEF Registry!LinkAndRelate, Registry!Finished, Registry!tables
<1>2. DOMAIN t = TransactionFields /\ DOMAIN extraction = Callers
  BY <1>1 DEF OrionInv, Sound, Shaped
<1> HIDE DEF rel, claim
<1>3. /\ DOMAIN extraction' = Callers
      /\ \A y \in Callers \ {x} : extraction'[y] = extraction[y]
      /\ DOMAIN extraction'[x] = DOMAIN extraction[x]
      /\ extraction'[x].event = extraction[x].event
      /\ extraction'[x].reading = extraction[x].reading
      /\ extraction'[x].at = extraction[x].at + 1
      /\ extraction'[x].who = extraction[x].who
      /\ extraction'[x].locks = extraction[x].locks
      /\ extraction'[x].entities = extraction[x].entities
      /\ extraction'[x].identifiers = extraction[x].identifiers
      /\ extraction'[x].todo = extraction[x].todo
      /\ extraction'[x].relations = extraction[x].relations \cup rel
      /\ extraction'[x].links = extraction[x].links \cup claim
  BY <1>1, <1>2 DEF TransactionFields
<1> QED
  BY <1>1, <1>3 DEF rel, claim

LEMMA OrionLink ==
    ASSUME OrionInv, NEW x \in Callers, Registry!LinkAndRelate(x)
    PROVE  OrionInv'
<1> DEFINE t == extraction[x]
           u == extraction'[x]
<1>1. /\ t # Idle /\ ~ (t.at > Len(t.reading)) /\ Len(t.who) = t.at /\ t.todo = <<>>
      /\ UNCHANGED <<entity, identifier>>
  BY LinkStep
<1>2. Sound(entity, identifier, t) /\ Shaped(t)
  BY <1>1 DEF OrionInv, Sound
<1>3. t.at \in Nat \ {0}
  BY <1>2 DEF Shaped
<1>4. /\ DOMAIN extraction' = Callers
      /\ \A y \in Callers \ {x} : extraction'[y] = extraction[y]
      /\ DOMAIN u = DOMAIN t
      /\ u.reading = t.reading /\ u.at = t.at + 1 /\ u.who = t.who /\ u.locks = t.locks
      /\ u.entities = t.entities /\ u.identifiers = t.identifiers /\ u.todo = t.todo
  BY LinkStep
<1>5. Len(u.who) = u.at - 1 /\ Len(u.who) # u.at /\ u.at \in Nat \ {0}
  BY <1>1, <1>3, <1>4
<1>6. Shaped(u)
  BY <1>1, <1>2, <1>4, <1>5 DEF Shaped
<1>7. \A e : ~ Making(identifier \cup t.identifiers, t, e)
  BY <1>1 DEF Making
<1>8. Sound(entity, identifier, u)
  BY <1>2, <1>4, <1>5, <1>6, <1>7 DEF Sound
<1>9. \A y \in Callers : y # x /\ extraction[y] # Idle => Apart(u, extraction[y])
  BY <1>1, <1>4 DEF OrionInv, Apart
<1> QED
  BY <1>1, <1>4, <1>8, <1>9, OrionGoesOn

LEMMA OrionRollback ==
    ASSUME OrionInv, NEW x \in Callers, Registry!Rollback(x)
    PROVE  OrionInv'
<1>1. extraction' = [extraction EXCEPT ![x] = Idle] /\ UNCHANGED <<entity, identifier>>
  BY DEF Registry!Rollback, Registry!tables
<1>2. /\ DOMAIN extraction' = Callers /\ extraction'[x] = Idle
      /\ \A y \in Callers \ {x} : extraction'[y] = extraction[y]
  BY <1>1 DEF OrionInv
<1> QED
  BY <1>1, <1>2, OrionGoesOn

(* The rows of a transaction that commits become everybody's.  The others have *)
(* neither an id nor a key of them, and no lock on one.                        *)
LEMMA OrionCommit ==
    ASSUME OrionInv, NEW x \in Callers, Registry!Commit(x)
    PROVE  OrionInv'
<1> DEFINE t == extraction[x]
<1>1. /\ t # Idle /\ t.at > Len(t.reading)
      /\ entity' = entity \cup t.entities
      /\ identifier' = identifier \cup t.identifiers
      /\ extraction' = [extraction EXCEPT ![x] = Idle]
  BY DEF Registry!Commit, Registry!Finished
<1>2. Sound(entity, identifier, t) /\ Shaped(t) /\ DOMAIN extraction = Callers
  BY <1>1 DEF OrionInv, Sound
<1>3. /\ DOMAIN extraction' = Callers /\ extraction'[x] = Idle
      /\ \A y \in Callers \ {x} : extraction'[y] = extraction[y]
  BY <1>1, <1>2
<1>4. t.todo = <<>>
  <2>1. t.at \in Nat /\ Len(t.reading) \in Nat
    BY <1>2 DEF Shaped
  <2>2. ~ (t.at <= Len(t.reading)) /\ t.at - 1 # t.at
    BY <1>1, <2>1
  <2> QED
    BY <1>2, <2>1, <2>2 DEF Shaped
<1>5. RowsSound(entity', identifier')
  BY <1>1, <1>2 DEF Sound
<1>6. ASSUME NEW e \in entity', e.type # Airport PROVE Owns(identifier', e)
  <2>1. ~ Making(identifier \cup t.identifiers, t, e)
    BY <1>4 DEF Making
  <2>2. CASE e \in entity
    BY <1>1, <1>6, <2>2 DEF OrionInv, Owns
  <2>3. CASE e \in t.entities
    BY <1>1, <1>2, <1>6, <2>1, <2>3 DEF Sound, Owns
  <2> QED
    BY <1>1, <2>2, <2>3
<1>7. ASSUME NEW y \in Callers, y # x, extraction[y] # Idle
      PROVE  Sound(entity', identifier', extraction[y])
  <2> DEFINE u == extraction[y]
  <2>1. Sound(entity, identifier, u) /\ Apart(t, u)
    BY <1>1, <1>7 DEF OrionInv
  <2> HIDE DEF t, u
  <2>2. RowsSound(entity' \cup u.entities, identifier' \cup u.identifiers)
    <3> DEFINE E == entity' \cup u.entities
               I == identifier' \cup u.identifiers
    <3>0. E = entity \cup t.entities \cup u.entities /\ I = identifier \cup t.identifiers \cup u.identifiers
      BY <1>1 DEF t
    <3>1. /\ RowsSound(entity \cup t.entities, identifier \cup t.identifiers)
          /\ RowsSound(entity \cup u.entities, identifier \cup u.identifiers)
      BY <1>2, <2>1 DEF Sound
    <3> HIDE DEF E, I
    <3>2. ASSUME NEW d \in E, NEW e \in E, d.id = e.id PROVE d = e
      BY <2>1, <3>0, <3>1, <3>2 DEF Apart, RowsSound
    <3>3. ASSUME NEW i \in I, NEW j \in I, SameKey(i, j) PROVE i = j
      BY <2>1, <3>0, <3>1, <3>3 DEF Apart, RowsSound, SameKey
    <3>4. ASSUME NEW i \in I PROVE \E e \in E : e.id = i.entity /\ e.type = i.type
      BY <3>0, <3>1 DEF RowsSound
    <3> QED
      BY <3>2, <3>3, <3>4 DEF RowsSound, E, I
  <2>3. u.entities \cap entity' = {}
    BY <1>1, <2>1 DEF Sound, Apart, t
  <2>4. ASSUME NEW e \in u.entities, e.type # Airport
        PROVE  Owns(u.identifiers, e) \/ Making(identifier' \cup u.identifiers, u, e)
    <3>1. CASE Making(identifier \cup u.identifiers, u, e)
      <4> DEFINE n == u.reading[u.at]
      <4>1. n.type # Airport /\ u.todo # <<>>
        BY <2>4, <3>1 DEF Making
      <4>2. <<n.type, n.key>> \in u.locks
        BY <2>1, <4>1 DEF Sound, Shaped
      <4>3. \A i \in t.identifiers : ~ SameKey(i, n)
        <5> SUFFICES ASSUME NEW i \in t.identifiers, SameKey(i, n) PROVE FALSE
          OBVIOUS
        <5>1. i.type = n.type /\ i.key = n.key
          BY DEF SameKey
        <5>2. <<i.type, i.key>> \in t.locks
          BY <1>2, <4>1, <5>1 DEF Sound
        <5> QED
          BY <2>1, <4>2, <5>1, <5>2 DEF Apart
      <4> QED
        BY <1>1, <3>1, <4>3 DEF Making, t
    <3> QED
      BY <2>1, <2>4, <3>1 DEF Sound
  <2>5. /\ Shaped(u)
        /\ \A i \in u.identifiers : i.type # Airport => <<i.type, i.key>> \in u.locks
        /\ Len(u.who) = u.at =>
              LET m == u.reading[u.at]
              IN /\ <<m.type, m.key>> \in u.locks
                 /\ m.type # Airport => u.todo \in {<<>>, <<m.key>>}
                 /\ \E e \in entity' \cup u.entities : e.id = u.who[u.at] /\ e.type = m.type
    BY <1>1, <2>1 DEF Sound
  <2>6. Sound(entity', identifier', u)
    BY <2>2, <2>3, <2>4, <2>5 DEF Sound
  <2> QED
    BY <2>6 DEF u
<1>8. \A y \in Callers : extraction'[y] # Idle => Sound(entity', identifier', extraction'[y])
  BY <1>3, <1>7
<1>9. \A y, z \in Callers : y # z /\ extraction'[y] # Idle /\ extraction'[z] # Idle =>
         Apart(extraction'[y], extraction'[z])
  BY <1>3 DEF OrionInv
<1> QED
  BY <1>3, <1>5, <1>6, <1>8, <1>9 DEF OrionInv

LEMMA OrionStep ==
    ASSUME OrionInv, [Registry!Next]_(Registry!vars) PROVE OrionInv'
<1>1. CASE UNCHANGED Registry!vars
  BY <1>1 DEF OrionInv, Registry!vars, Registry!tables
<1>2. CASE Registry!Next
  BY <1>2, OrionStart, OrionResolve, OrionAttach, OrionLink, OrionCommit, OrionRollback
     DEF Registry!Next
<1> QED
  BY <1>1, <1>2

(* The mention is the entity's that owns its key. *)
Held(ids, reading, who, j) ==
    reading[j].type # Airport => \E i \in ids : SameKey(i, reading[j]) /\ i.entity = who[j]

(* What the mention j of a reading leaves behind, the entities being who. *)
SubjectsOf(reading, j) ==
    {i \in 1..(j - 1) : /\ reading[j].type \in DOMAIN Registry!SubjectType
                        /\ reading[i].type = Registry!SubjectType[reading[j].type]}

SubjectOf(reading, who, j) ==
    IF SubjectsOf(reading, j) = {} THEN None ELSE who[CHOOSE i \in SubjectsOf(reading, j) : TRUE]

RelationOf(event, reading, who, j) ==
    IF reading[j].type \in DOMAIN Registry!SubjectType /\ SubjectOf(reading, who, j) = None THEN {}
    ELSE {[event |-> event, kind |-> Registry!RelationshipKind[reading[j].type],
           subject |-> SubjectOf(reading, who, j), object |-> who[j]]}

LinkOf(event, reading, who, j) ==
    {[entity |-> who[j], event |-> event, field |-> reading[j].type, claim |-> claim]
        : claim \in Claimed \cap {reading[j].name}}

(* The entity was made and its key is not attached yet. *)
Unsettled(ids, t, j) ==
    j = t.at /\ t.todo # <<>> /\ \A i \in ids : ~ SameKey(i, t.reading[j])

(* A transaction wrote what its reading says, of the mentions before at. *)
Traced(ids, t) ==
    /\ t.at <= Len(t.reading) + 1
    /\ \A j \in 1..Len(t.who) : Held(ids, t.reading, t.who, j) \/ Unsettled(ids, t, j)
    /\ \A i \in t.identifiers : i.type # Airport =>
          \E j \in DOMAIN t.reading : SameKey(i, t.reading[j])
    /\ \A r : r \in t.relations <=>
          \E j \in 1..(t.at - 1) : r \in RelationOf(t.event, t.reading, t.who, j)
    /\ \A k : k \in t.links <=> \E j \in 1..(t.at - 1) : k \in LinkOf(t.event, t.reading, t.who, j)

(* A committed extraction left its rows. *)
Lasting(ids, relations, claims, r) ==
    \E who : \A j \in DOMAIN r.reading :
        /\ Held(ids, r.reading, who, j)
        /\ RelationOf(r.event, r.reading, who, j) \subseteq relations
        /\ LinkOf(r.event, r.reading, who, j) \subseteq claims

TraceInv ==
    /\ \E S : done \in Seq(S)
    /\ \A i \in DOMAIN done : Lasting(identifier, relation, link, done[i])
    /\ \A x \in Callers : extraction[x] # Idle =>
          Traced(identifier \cup extraction[x].identifiers, extraction[x])

LEMMA TraceInit == Registry!Init => TraceInv
<1> SUFFICES ASSUME Registry!Init PROVE TraceInv
  OBVIOUS
<1>1. done = <<>> /\ \A x \in Callers : extraction[x] = Idle
  BY DEF Registry!Init
<1>2. done \in Seq({}) /\ DOMAIN done = {}
  BY <1>1
<1> QED
  BY <1>1, <1>2 DEF TraceInv

LEMMA TraceGoesOn ==
    ASSUME TraceInv, NEW x \in Callers, UNCHANGED <<identifier, relation, link, done>>,
           \A y \in Callers \ {x} : extraction'[y] = extraction[y],
           extraction'[x] # Idle => Traced(identifier \cup extraction'[x].identifiers, extraction'[x])
    PROVE  TraceInv'
BY DEF TraceInv

(* Rows only look at the entities up to their mention. *)
LEMMA RowsLocal ==
    ASSUME NEW event, NEW reading, NEW j \in Nat, NEW who, NEW other,
           \A i \in 1..j : who[i] = other[i], j > 0
    PROVE  /\ RelationOf(event, reading, who, j) = RelationOf(event, reading, other, j)
           /\ LinkOf(event, reading, who, j) = LinkOf(event, reading, other, j)
<1>1. who[j] = other[j]
  OBVIOUS
<1>2. \A i \in 1..(j - 1) : who[i] = other[i]
  OBVIOUS
<1>3. SubjectOf(reading, who, j) = SubjectOf(reading, other, j)
  <2> DEFINE k == CHOOSE i \in SubjectsOf(reading, j) : TRUE
  <2>1. CASE SubjectsOf(reading, j) # {}
    <3>1. k \in SubjectsOf(reading, j)
      BY <2>1
    <3>2. k \in 1..(j - 1)
      BY <3>1 DEF SubjectsOf
    <3> QED
      BY <1>2, <3>2 DEF SubjectOf
  <2> QED
    BY <2>1 DEF SubjectOf
<1> QED
  BY <1>1, <1>3 DEF RelationOf, LinkOf

LEMMA TraceStart ==
    ASSUME OrionInv, TraceInv, NEW x \in Callers, NEW event, NEW projection,
           Registry!extract_entities_from_event(x, event, projection)
    PROVE  TraceInv'
<1> DEFINE reading == Registry!Mentions(projection)
           t == [event |-> event, reading |-> reading, at |-> 1, todo |-> <<>>,
                 who |-> <<>>, locks |-> {}, entities |-> {}, identifiers |-> {}, relations |-> {},
                 links |-> {}]
<1>1. extraction' = [extraction EXCEPT ![x] = t] /\ UNCHANGED <<identifier, relation, link, done>>
  BY DEF Registry!extract_entities_from_event, Registry!tables
<1>2. \E S : reading \in Seq(S)
  BY MentionsKeyed
<1> HIDE DEF reading
<1>3. /\ t.reading = reading /\ t.at = 1 /\ t.who = <<>> /\ t.identifiers = {}
      /\ t.relations = {} /\ t.links = {}
  OBVIOUS
<1> HIDE DEF t
<1>4. Len(t.who) = 0 /\ Len(t.reading) \in Nat
  BY <1>2, <1>3
<1>5. 1..Len(t.who) = {} /\ 1..(t.at - 1) = {} /\ t.at <= Len(t.reading) + 1
  BY <1>3, <1>4
<1>6. Traced(identifier \cup t.identifiers, t)
  BY <1>3, <1>5 DEF Traced
<1>7. extraction'[x] = t /\ \A y \in Callers \ {x} : extraction'[y] = extraction[y]
  BY <1>1 DEF OrionInv
<1> QED
  BY <1>1, <1>6, <1>7, TraceGoesOn

(* An entity that is found owns the key of the mention, airports aside: who    *)
(* has the name has the key.                                                   *)
LEMMA ChosenHolds ==
    ASSUME OrionInv, NEW x \in Callers, extraction[x] # Idle, extraction[x].todo = <<>>,
           NEW m, Keyed(m), m.type # Airport, NEW e \in Registry!Chosen(x, m)
    PROVE  \E i \in identifier \cup extraction[x].identifiers : SameKey(i, m) /\ i.entity = e.id
<1>1. CASE e \in Registry!find_by_identifier(x, m)
  BY <1>1 DEF Registry!find_by_identifier, Registry!SeenEntities, Registry!SeenIdentifiers, SameKey
<1>2. CASE e \in Registry!find_by_canonical_name(x, m)
  <2>1. e \in entity \cup extraction[x].entities /\ e.type = m.type /\ e.name = m.name
    BY <1>2 DEF Registry!find_by_canonical_name, Registry!SeenEntities
  <2>2. m.key = KeyOf(e.type, e.name) /\ e.type # Airport
    BY <2>1 DEF Keyed, Airport
  <2>3. ~ Making(identifier \cup extraction[x].identifiers, extraction[x], e)
    BY DEF Making
  <2>4. Owns(identifier, e) \/ Owns(extraction[x].identifiers, e)
    BY <2>1, <2>2, <2>3 DEF OrionInv, Sound
  <2> QED
    BY <2>1, <2>2, <2>4 DEF Owns, SameKey
<1> QED
  BY <1>1, <1>2 DEF Registry!Chosen

LEMMA TraceResolve ==
    ASSUME OrionInv, TraceInv, NEW x \in Callers, Registry!_resolve_or_create(x)
    PROVE  TraceInv'
<1> DEFINE t == extraction[x]
           u == extraction'[x]
           m == t.reading[t.at]
           ids == identifier \cup t.identifiers
<1>0. UNCHANGED <<identifier, relation, link, done>>
  BY DEF Registry!_resolve_or_create, Registry!tables
<1>1. t # Idle /\ t.at <= Len(t.reading) /\ Len(t.who) < t.at
  BY ResolveStep
<1>2. Shaped(t) /\ Traced(ids, t)
  BY <1>1 DEF OrionInv, Sound, TraceInv
<1>3. /\ t.at \in Nat \ {0} /\ Len(t.who) = t.at - 1 /\ Keyed(m) /\ t.todo = <<>>
      /\ \E S : t.who \in Seq(S)
      /\ Len(t.reading) \in Nat
  BY <1>1, <1>2 DEF Shaped
<1>4. ASSUME NEW id, NEW made, Resolved(x, id, made),
             \/ m.type # Airport => \E i \in ids : SameKey(i, m) /\ i.entity = id
             \/ \A i \in ids : ~ SameKey(i, m)
      PROVE  TraceInv'
  <2>1. /\ \A y \in Callers \ {x} : extraction'[y] = extraction[y]
        /\ u.event = t.event /\ u.reading = t.reading /\ u.at = t.at
        /\ u.relations = t.relations /\ u.links = t.links /\ u.identifiers = t.identifiers
        /\ u.who = Append(t.who, id)
        /\ u.todo = <<m.key>> \o m.extras
    BY <1>4 DEF Resolved
  <2>2. /\ Len(u.who) = t.at /\ u.who[t.at] = id
        /\ \A j \in 1..(t.at - 1) : u.who[j] = t.who[j]
    BY <1>3, <2>1
  <2>3. \A j \in 1..(t.at - 1) :
           /\ RelationOf(t.event, t.reading, u.who, j) = RelationOf(t.event, t.reading, t.who, j)
           /\ LinkOf(t.event, t.reading, u.who, j) = LinkOf(t.event, t.reading, t.who, j)
    <3> SUFFICES ASSUME NEW j \in 1..(t.at - 1)
                 PROVE  /\ RelationOf(t.event, t.reading, u.who, j) = RelationOf(t.event, t.reading, t.who, j)
                        /\ LinkOf(t.event, t.reading, u.who, j) = LinkOf(t.event, t.reading, t.who, j)
      OBVIOUS
    <3>1. j \in Nat /\ j > 0 /\ \A i \in 1..j : u.who[i] = t.who[i]
      BY <1>3, <2>2
    <3> HIDE DEF t, u
    <3> QED
      BY <3>1, RowsLocal
  <2>4. ASSUME NEW j \in 1..Len(u.who)
        PROVE  Held(ids, u.reading, u.who, j) \/ Unsettled(ids, u, j)
    <3>1. CASE j = t.at
      <4>1. m.type # Airport => u.todo # <<>>
        <5>1. m.type # Airport => m.extras = <<>>
          BY <1>3 DEF Keyed, Airport
        <5>2. \A k : <<k>> \o <<>> # <<>>
          <6> SUFFICES ASSUME NEW k PROVE <<k>> \o <<>> # <<>>
            OBVIOUS
          <6>1. <<k>> \in Seq({k}) /\ <<k>> # <<>>
            OBVIOUS
          <6> QED
            BY <6>1, ConcatEmptySeq
        <5> QED
          BY <2>1, <5>1, <5>2
      <4> QED
        BY <1>4, <2>1, <2>2, <3>1, <4>1 DEF Held, Unsettled
    <3>2. CASE j # t.at
      <4>1. j \in 1..(t.at - 1) /\ j \in 1..Len(t.who)
        BY <1>3, <2>2, <3>2
      <4>2. Held(ids, t.reading, t.who, j)
        BY <1>2, <3>2, <4>1 DEF Traced, Unsettled
      <4> QED
        BY <2>1, <2>2, <4>1, <4>2 DEF Held
    <3> QED
      BY <3>1, <3>2
  <2>5. Traced(ids, u)
    BY <1>2, <2>1, <2>3, <2>4 DEF Traced
  <2> QED
    BY <1>0, <2>1, <2>5, TraceGoesOn
<1>5. \/ \E e \in Registry!Chosen(x, m) : Resolved(x, e.id, {})
      \/ /\ Registry!Chosen(x, m) = {}
         /\ \E id \in EntityIds \ Registry!DrawnIds :
               Resolved(x, id, {[id |-> id, type |-> m.type, name |-> m.name]})
  BY ResolveStep
<1>6. CASE \E e \in Registry!Chosen(x, m) : Resolved(x, e.id, {})
  <2>1. PICK e \in Registry!Chosen(x, m) : Resolved(x, e.id, {})
    BY <1>6
  <2>2. m.type # Airport => \E i \in ids : SameKey(i, m) /\ i.entity = e.id
    BY <1>1, <1>3, ChosenHolds
  <2> QED
    BY <1>4, <2>1, <2>2
<1>7. CASE /\ Registry!Chosen(x, m) = {}
           /\ \E id \in EntityIds \ Registry!DrawnIds :
                 Resolved(x, id, {[id |-> id, type |-> m.type, name |-> m.name]})
  BY <1>1, <1>4, <1>7, NoneChosen
<1> QED
  BY <1>5, <1>6, <1>7

LEMMA TraceAttach ==
    ASSUME OrionInv, TraceInv, NEW x \in Callers, Registry!_attach_identifier(x)
    PROVE  TraceInv'
<1> DEFINE t == extraction[x]
           u == extraction'[x]
           m == t.reading[t.at]
           row == [type |-> m.type, key |-> Head(t.todo), entity |-> t.who[t.at]]
           seen == identifier \cup t.identifiers
<1>0. UNCHANGED <<identifier, relation, link, done>>
  BY DEF Registry!_attach_identifier, Registry!tables
<1>1. /\ t # Idle /\ t.todo # <<>>
      /\ \A y \in Callers \ {x} : extraction'[y] = extraction[y]
      /\ u.event = t.event /\ u.relations = t.relations /\ u.links = t.links
      /\ u.reading = t.reading /\ u.at = t.at /\ u.who = t.who
      /\ \/ (\E r \in seen : SameKey(r, row)) /\ u.identifiers = t.identifiers
         \/ (\A r \in seen : ~ SameKey(r, row)) /\ u.identifiers = t.identifiers \cup {row}
  BY AttachStep
<1>2. row.type = m.type /\ row.key = Head(t.todo) /\ row.entity = t.who[t.at]
  OBVIOUS
<1> HIDE DEF row
<1>3. Sound(entity, identifier, t) /\ Shaped(t) /\ Traced(seen, t)
  BY <1>1 DEF OrionInv, Sound, TraceInv
<1>4. Len(t.who) = t.at /\ (m.type # Airport => t.todo = <<m.key>>)
  BY <1>1, <1>3 DEF Shaped, Sound
<1>5. \A k : Head(<<k>>) = k
  OBVIOUS
<1>6. m.type # Airport => SameKey(row, m)
  BY <1>2, <1>4, <1>5 DEF SameKey
<1>7. t.at \in DOMAIN t.reading
  <2>1. t.at \in Nat \ {0} /\ Len(t.reading) \in Nat /\ DOMAIN t.reading = 1..Len(t.reading)
    BY <1>3 DEF Shaped
  <2>2. t.at <= Len(t.reading)
    BY <1>3, <1>4, <2>1 DEF Shaped
  <2> QED
    BY <2>1, <2>2
<1>8. ASSUME NEW j \in 1..Len(u.who)
      PROVE  Held(identifier \cup u.identifiers, u.reading, u.who, j)
  <2>1. j \in 1..Len(t.who) /\ t.identifiers \subseteq u.identifiers
    BY <1>1
  <2>2. CASE Held(seen, t.reading, t.who, j)
    BY <1>1, <2>1, <2>2 DEF Held
  <2>3. CASE Unsettled(seen, t, j)
    <3>1. j = t.at /\ \A i \in seen : ~ SameKey(i, m)
      BY <2>3 DEF Unsettled
    <3>2. m.type # Airport => row \in u.identifiers
      BY <1>1, <1>6, <3>1 DEF SameKey
    <3> QED
      BY <1>1, <1>2, <1>6, <3>1, <3>2 DEF Held
  <2> QED
    BY <1>3, <2>1, <2>2, <2>3 DEF Traced
<1>9. \A i \in u.identifiers : i.type # Airport => \E j \in DOMAIN u.reading : SameKey(i, u.reading[j])
  BY <1>1, <1>2, <1>3, <1>6, <1>7 DEF Traced
<1>10. Traced(identifier \cup u.identifiers, u)
  BY <1>1, <1>3, <1>8, <1>9 DEF Traced
<1> QED
  BY <1>0, <1>1, <1>10, TraceGoesOn

LEMMA TraceLink ==
    ASSUME OrionInv, TraceInv, NEW x \in Callers, Registry!LinkAndRelate(x)
    PROVE  TraceInv'
<1> DEFINE t == extraction[x]
           u == extraction'[x]
           ids == identifier \cup t.identifiers
<1>0. UNCHANGED <<identifier, relation, link, done>>
  BY DEF Registry!LinkAndRelate, Registry!tables
<1>1. /\ t # Idle /\ ~ (t.at > Len(t.reading)) /\ Len(t.who) = t.at /\ t.todo = <<>>
      /\ \A y \in Callers \ {x} : extraction'[y] = extraction[y]
      /\ u.event = t.event /\ u.reading = t.reading /\ u.at = t.at + 1 /\ u.who = t.who
      /\ u.identifiers = t.identifiers
      /\ u.relations = t.relations \cup Registry!_upsert_rel(x)
      /\ u.links = t.links \cup Registry!_maybe_claim_link(x)
  BY LinkStep
<1>2. Shaped(t) /\ Traced(ids, t)
  BY <1>1 DEF OrionInv, Sound, TraceInv
<1>3. t.at \in Nat \ {0} /\ Len(t.reading) \in Nat
  BY <1>2 DEF Shaped
<1>4. Registry!_upsert_rel(x) = RelationOf(t.event, t.reading, t.who, t.at)
  <2>1. Registry!Subject(x) = SubjectOf(t.reading, t.who, t.at)
    BY DEF Registry!Subject, Registry!Current, SubjectOf, SubjectsOf
  <2> QED
    BY <2>1 DEF Registry!_upsert_rel, Registry!Current, RelationOf
<1>5. Registry!_maybe_claim_link(x) = LinkOf(t.event, t.reading, t.who, t.at)
  BY DEF Registry!_maybe_claim_link, Registry!Current, LinkOf
<1>6. 1..(u.at - 1) = 1..(t.at - 1) \cup {t.at} /\ u.at <= Len(u.reading) + 1
  BY <1>1, <1>3
<1>7. \A j \in 1..Len(u.who) : Held(ids, u.reading, u.who, j)
  BY <1>1, <1>2 DEF Traced, Unsettled
<1>8. \A r : r \in u.relations <=>
         \E j \in 1..(u.at - 1) : r \in RelationOf(u.event, u.reading, u.who, j)
  BY <1>1, <1>2, <1>4, <1>6 DEF Traced
<1>9. \A k : k \in u.links <=>
         \E j \in 1..(u.at - 1) : k \in LinkOf(u.event, u.reading, u.who, j)
  BY <1>1, <1>2, <1>5, <1>6 DEF Traced
<1>10. \A i \in u.identifiers : i.type # Airport =>
          \E j \in DOMAIN u.reading : SameKey(i, u.reading[j])
  BY <1>1, <1>2 DEF Traced
<1>11. Traced(identifier \cup u.identifiers, u)
  BY <1>1, <1>6, <1>7, <1>8, <1>9, <1>10 DEF Traced
<1> QED
  BY <1>0, <1>1, <1>11, TraceGoesOn

LEMMA TraceRollback ==
    ASSUME OrionInv, TraceInv, NEW x \in Callers, Registry!Rollback(x)
    PROVE  TraceInv'
<1>1. /\ extraction' = [extraction EXCEPT ![x] = Idle]
      /\ UNCHANGED <<identifier, relation, link, done>>
  BY DEF Registry!Rollback, Registry!tables
<1>2. /\ extraction'[x] = Idle
      /\ \A y \in Callers \ {x} : extraction'[y] = extraction[y]
  BY <1>1 DEF OrionInv
<1> QED
  BY <1>1, <1>2, TraceGoesOn

(* At its commit a transaction has been through its reading: it wrote the rows *)
(* of every mention and of nothing else.                                       *)
LEMMA Complete ==
    ASSUME OrionInv, TraceInv, NEW x \in Callers, Registry!Commit(x)
    PROVE  LET t == extraction[x]
           IN /\ \A j \in DOMAIN t.reading :
                    Held(identifier \cup t.identifiers, t.reading, t.who, j)
              /\ \A r : r \in t.relations <=>
                    \E j \in DOMAIN t.reading : r \in RelationOf(t.event, t.reading, t.who, j)
              /\ \A k : k \in t.links <=>
                    \E j \in DOMAIN t.reading : k \in LinkOf(t.event, t.reading, t.who, j)
              /\ t.todo = <<>>
<1> DEFINE t == extraction[x]
           ids == identifier \cup t.identifiers
<1>1. t # Idle /\ t.at > Len(t.reading)
  BY DEF Registry!Commit, Registry!Finished
<1>2. Shaped(t) /\ Traced(ids, t)
  BY <1>1 DEF OrionInv, Sound, TraceInv
<1>3. /\ t.at \in Nat /\ Len(t.reading) \in Nat /\ DOMAIN t.reading = 1..Len(t.reading)
      /\ Len(t.who) \in Nat /\ t.at <= Len(t.reading) + 1
  BY <1>2 DEF Shaped, Traced
<1>4. ~ (t.at <= Len(t.reading)) /\ t.at - 1 # t.at /\ t.at - 1 = Len(t.reading)
  BY <1>1, <1>3
<1>5. Len(t.who) = t.at - 1 /\ t.todo = <<>>
  BY <1>2, <1>4 DEF Shaped
<1>6. 1..(t.at - 1) = DOMAIN t.reading /\ 1..Len(t.who) = DOMAIN t.reading
  BY <1>3, <1>4, <1>5
<1> QED
  BY <1>2, <1>5, <1>6 DEF Traced, Unsettled

LEMMA TraceCommit ==
    ASSUME OrionInv, TraceInv, NEW x \in Callers, Registry!Commit(x)
    PROVE  TraceInv'
<1> DEFINE t == extraction[x]
           r == [event |-> t.event, reading |-> t.reading]
<1>1. /\ t # Idle
      /\ identifier' = identifier \cup t.identifiers
      /\ relation' = relation \cup t.relations
      /\ link' = link \cup t.links
      /\ done' = Append(done, r)
      /\ extraction' = [extraction EXCEPT ![x] = Idle]
  BY DEF Registry!Commit
<1>2. extraction'[x] = Idle /\ \A y \in Callers \ {x} : extraction'[y] = extraction[y]
  BY <1>1 DEF OrionInv
<1>3. r.event = t.event /\ r.reading = t.reading
  OBVIOUS
<1> HIDE DEF r
<1>4. /\ \A j \in DOMAIN t.reading : Held(identifier', t.reading, t.who, j)
      /\ \A j \in DOMAIN t.reading : RelationOf(t.event, t.reading, t.who, j) \subseteq relation'
      /\ \A j \in DOMAIN t.reading : LinkOf(t.event, t.reading, t.who, j) \subseteq link'
  <2>1. \A j \in DOMAIN t.reading : Held(identifier', t.reading, t.who, j)
    BY <1>1, Complete
  <2>2. ASSUME NEW j \in DOMAIN t.reading
        PROVE  /\ RelationOf(t.event, t.reading, t.who, j) \subseteq relation'
               /\ LinkOf(t.event, t.reading, t.who, j) \subseteq link'
    <3>1. RelationOf(t.event, t.reading, t.who, j) \subseteq t.relations
      BY Complete
    <3>2. LinkOf(t.event, t.reading, t.who, j) \subseteq t.links
      BY Complete
    <3> QED
      BY <1>1, <3>1, <3>2
  <2> QED
    BY <2>1, <2>2
<1>5. Lasting(identifier', relation', link', r)
  BY <1>3, <1>4 DEF Lasting
<1>6. \A i \in DOMAIN done : Lasting(identifier', relation', link', done[i])
  BY <1>1 DEF TraceInv, Lasting, Held
<1>7. /\ \E S : done' \in Seq(S)
      /\ \A i \in DOMAIN done' : Lasting(identifier', relation', link', done'[i])
  <2>1. PICK S : done \in Seq(S)
    BY DEF TraceInv
  <2>2. done \in Seq(S \cup {r})
    BY <2>1
  <2>3. /\ Append(done, r) \in Seq(S \cup {r})
        /\ \A i \in DOMAIN Append(done, r) : Append(done, r)[i] = r \/ (i \in DOMAIN done /\ Append(done, r)[i] = done[i])
    BY <2>2
  <2> QED
    BY <1>1, <1>5, <1>6, <2>3
<1>8. ASSUME NEW y \in Callers, y # x, extraction[y] # Idle
      PROVE  Traced(identifier' \cup extraction[y].identifiers, extraction[y])
  <2> DEFINE u == extraction[y]
             ids == identifier \cup u.identifiers
  <2>1. Sound(entity, identifier, t) /\ Sound(entity, identifier, u) /\ Apart(t, u) /\ Traced(ids, u)
    BY <1>1, <1>8 DEF OrionInv, TraceInv
  <2> HIDE DEF t, u
  <2>2. ids \subseteq identifier' \cup u.identifiers
    BY <1>1
  <2>3. ASSUME NEW j \in 1..Len(u.who)
        PROVE  \/ Held(identifier' \cup u.identifiers, u.reading, u.who, j)
               \/ Unsettled(identifier' \cup u.identifiers, u, j)
    <3>1. CASE Held(ids, u.reading, u.who, j)
      BY <2>2, <3>1 DEF Held
    <3>2. CASE Unsettled(ids, u, j) /\ u.reading[j].type # Airport
      <4> DEFINE n == u.reading[u.at]
      <4>1. j = u.at /\ u.todo # <<>> /\ (\A i \in ids : ~ SameKey(i, n)) /\ n.type # Airport
        BY <3>2 DEF Unsettled
      <4>2. <<n.type, n.key>> \in u.locks
        BY <2>1, <4>1 DEF Sound, Shaped
      <4>3. \A i \in t.identifiers : ~ SameKey(i, n)
        <5> SUFFICES ASSUME NEW i \in t.identifiers, SameKey(i, n) PROVE FALSE
          OBVIOUS
        <5>1. i.type = n.type /\ i.key = n.key
          BY DEF SameKey
        <5>2. <<i.type, i.key>> \in t.locks
          BY <2>1, <4>1, <5>1 DEF Sound
        <5> QED
          BY <2>1, <4>2, <5>1, <5>2 DEF Apart
      <4> QED
        BY <1>1, <4>1, <4>3 DEF Unsettled, t
    <3>3. CASE u.reading[j].type = Airport
      BY <3>3 DEF Held
    <3> QED
      BY <2>1, <3>1, <3>2, <3>3 DEF Traced
  <2>4. Traced(identifier' \cup u.identifiers, u)
    BY <2>1, <2>3 DEF Traced
  <2> QED
    BY <2>4 DEF u
<1>9. \A y \in Callers : extraction'[y] # Idle =>
         Traced(identifier' \cup extraction'[y].identifiers, extraction'[y])
  BY <1>2, <1>8
<1> QED
  BY <1>7, <1>9 DEF TraceInv

LEMMA TraceStep ==
    ASSUME OrionInv, TraceInv, [Registry!Next]_(Registry!vars) PROVE TraceInv'
<1>1. CASE UNCHANGED Registry!vars
  BY <1>1 DEF TraceInv, Registry!vars, Registry!tables
<1>2. CASE Registry!Next
  BY <1>2, TraceStart, TraceResolve, TraceAttach, TraceLink, TraceCommit, TraceRollback
     DEF Registry!Next
<1> QED
  BY <1>1, <1>2

LEMMA Repeated ==
    ASSUME OrionInv, TraceInv, NEW x \in Callers, Registry!Commit(x),
           NEW i \in DOMAIN done,
           done[i].event = extraction[x].event, done[i].reading = extraction[x].reading
    PROVE  /\ \A e \in extraction[x].entities : e.type = Airport
           /\ \A r \in extraction[x].relations :
                 r.kind \in {"OCCURRED_AT", "LOCATED_IN"} \/ r \in relation
           /\ \A k \in extraction[x].links : k.field = Airport \/ k \in link
<1> DEFINE t == extraction[x]
           event == t.event
           reading == t.reading
           ids == identifier \cup t.identifiers
<1>1. t # Idle
  BY DEF Registry!Commit
<1>2. Sound(entity, identifier, t) /\ Traced(ids, t)
  BY <1>1 DEF OrionInv, TraceInv
<1>3. PICK who : \A j \in DOMAIN reading :
         /\ Held(identifier, reading, who, j)
         /\ RelationOf(event, reading, who, j) \subseteq relation
         /\ LinkOf(event, reading, who, j) \subseteq link
  BY DEF TraceInv, Lasting
<1>4. ASSUME NEW j \in DOMAIN reading, reading[j].type # Airport PROVE t.who[j] = who[j]
  <2>1. PICK a \in identifier : SameKey(a, reading[j]) /\ a.entity = who[j]
    BY <1>3, <1>4 DEF Held
  <2>2. PICK b \in ids : SameKey(b, reading[j]) /\ b.entity = t.who[j]
    BY <1>4, Complete DEF Held
  <2>3. a \in ids /\ SameKey(a, b)
    BY <2>1, <2>2 DEF SameKey
  <2>4. a = b
    BY <1>2, <2>2, <2>3 DEF Sound, RowsSound
  <2> QED
    BY <2>1, <2>2, <2>4
<1>5. ASSUME NEW e \in t.entities, e.type # Airport PROVE FALSE
  <2>1. Owns(t.identifiers, e)
    <3>1. t.todo = <<>>
      BY Complete
    <3>2. ~ Making(ids, t, e)
      BY <3>1 DEF Making
    <3> QED
      BY <1>2, <1>5, <3>2 DEF Sound
  <2>2. PICK b \in t.identifiers : b.type = e.type /\ b.entity = e.id
    BY <2>1 DEF Owns
  <2>3. PICK j \in DOMAIN reading : SameKey(b, reading[j])
    BY <1>2, <1>5, <2>2 DEF Traced
  <2>4. reading[j].type # Airport
    BY <1>5, <2>2, <2>3 DEF SameKey
  <2>5. PICK a \in identifier : SameKey(a, reading[j])
    BY <1>3, <2>4 DEF Held
  <2>6. a \in ids /\ b \in ids /\ SameKey(a, b)
    BY <2>3, <2>5 DEF SameKey
  <2>7. a = b
    BY <1>2, <2>6 DEF Sound, RowsSound
  <2>8. PICK d \in entity : d.id = e.id
    BY <2>2, <2>5, <2>7 DEF OrionInv, RowsSound
  <2> QED
    BY <1>2, <2>8 DEF Sound, RowsSound
<1>6. ASSUME NEW r \in t.relations, r.kind \notin {"OCCURRED_AT", "LOCATED_IN"} PROVE r \in relation
  <2>1. PICK j \in DOMAIN reading : r \in RelationOf(event, reading, t.who, j)
    BY Complete
  <2>2. r.kind = Registry!RelationshipKind[reading[j].type]
    BY <2>1 DEF RelationOf
  <2>3. reading[j].type \notin {"AIRPORT", "COUNTRY"}
    BY <1>6, <2>2 DEF Registry!RelationshipKind
  <2>4. t.who[j] = who[j]
    BY <1>4, <2>3 DEF Airport
  <2>5. SubjectOf(reading, t.who, j) = SubjectOf(reading, who, j)
    <3>1. CASE SubjectsOf(reading, j) # {}
      <4> DEFINE k == CHOOSE n \in SubjectsOf(reading, j) : TRUE
      <4>1. k \in SubjectsOf(reading, j)
        BY <3>1
      <4>2. /\ k \in 1..(j - 1) /\ reading[j].type \in DOMAIN Registry!SubjectType
            /\ reading[k].type = Registry!SubjectType[reading[j].type]
        BY <4>1 DEF SubjectsOf
      <4>3. reading[k].type # Airport
        BY <2>3, <4>2 DEF Registry!SubjectType, Airport
      <4>4. k \in DOMAIN reading
        <5>1. DOMAIN reading = 1..Len(reading) /\ Len(reading) \in Nat
          BY <1>2 DEF Sound, Shaped
        <5> HIDE DEF reading, k
        <5> QED
          BY <4>2, <5>1
      <4>5. t.who[k] = who[k]
        BY <1>4, <4>3, <4>4
      <4> QED
        BY <4>5 DEF SubjectOf
    <3> QED
      BY <3>1 DEF SubjectOf
  <2>6. RelationOf(event, reading, t.who, j) = RelationOf(event, reading, who, j)
    BY <2>4, <2>5 DEF RelationOf
  <2> QED
    BY <1>3, <2>1, <2>6
<1>7. ASSUME NEW k \in t.links, k.field # Airport PROVE k \in link
  <2>1. PICK j \in DOMAIN reading : k \in LinkOf(event, reading, t.who, j)
    BY Complete
  <2>2. reading[j].type # Airport
    BY <1>7, <2>1 DEF LinkOf
  <2>3. LinkOf(event, reading, t.who, j) = LinkOf(event, reading, who, j)
    BY <1>4, <2>2 DEF LinkOf
  <2> QED
    BY <1>3, <2>1, <2>3
<1> QED
  BY <1>5, <1>6, <1>7

LEMMA Idempotent ==
    ASSUME OrionInv, TraceInv, [Registry!Next]_(Registry!vars)
    PROVE  Registry!IdempotentStep
<1>1. PICK S : done \in Seq(S)
  BY DEF TraceInv
<1>2. SUFFICES ASSUME Len(done') > Len(done), done'[Len(done')] \in {done[i] : i \in DOMAIN done}
               PROVE  /\ {e \in entity' : e.type # "AIRPORT"} = {e \in entity : e.type # "AIRPORT"}
                      /\ {r \in relation' : r.kind \notin {"OCCURRED_AT", "LOCATED_IN"}}
                            = {r \in relation : r.kind \notin {"OCCURRED_AT", "LOCATED_IN"}}
                      /\ {k \in link' : k.field # "AIRPORT"} = {k \in link : k.field # "AIRPORT"}
  BY DEF Registry!IdempotentStep
<1>3. done' # done
  BY <1>1, <1>2
<1>4. PICK x \in Callers : Registry!Commit(x)
  BY <1>3 DEF Registry!Next, Registry!vars, Registry!tables, Registry!extract_entities_from_event,
     Registry!_resolve_or_create, Registry!_attach_identifier, Registry!LinkAndRelate, Registry!Rollback
<1> DEFINE t == extraction[x]
           r == [event |-> t.event, reading |-> t.reading]
<1>5. /\ done' = Append(done, r)
      /\ entity' = entity \cup t.entities
      /\ relation' = relation \cup t.relations
      /\ link' = link \cup t.links
  BY <1>4 DEF Registry!Commit
<1>6. done'[Len(done')] = r
  <2> HIDE DEF r
  <2>1. done \in Seq(S \cup {r})
    BY <1>1
  <2> QED
    BY <1>5, <2>1
<1>7. PICK i \in DOMAIN done : done[i] = r
  BY <1>2, <1>6
<1>8. done[i].event = t.event /\ done[i].reading = t.reading
  BY <1>7
<1>9. /\ \A e \in t.entities : e.type = Airport
      /\ \A q \in t.relations : q.kind \in {"OCCURRED_AT", "LOCATED_IN"} \/ q \in relation
      /\ \A k \in t.links : k.field = Airport \/ k \in link
  BY <1>4, <1>8, Repeated
<1> QED
  BY <1>5, <1>9 DEF Airport

OrionHolds == OrionInv /\ TraceInv

LEMMA OrionHoldsInit == Init => OrionHolds
BY OrionInit, TraceInit DEF Init, OrionHolds

LEMMA OrionHoldsStep ==
    ASSUME OrionHolds, [Next]_vars
    PROVE  OrionHolds' /\ [Registry!IdempotentStep]_(Registry!vars)
<1>1. [Registry!Next]_(Registry!vars)
  <2>1. CASE UNCHANGED orionVars
    BY <2>1 DEF orionVars, Registry!vars, Registry!tables
  <2> QED
    BY <2>1 DEF Next, vars
<1> QED
  BY <1>1, OrionStep, TraceStep, Idempotent DEF OrionHolds

(* Extractions that run side by side, fail or are repeated never make two      *)
(* entities of one type and name, airports aside, for any projections and any  *)
(* number of requests.                                                         *)
THEOREM EntitiesStayApart == Spec => []OneEntityPerName
<1>1. OrionHolds => OneEntityPerName
  BY OneEntity DEF OrionHolds, OneEntityPerName
<1> QED
  BY <1>1, OrionHoldsInit, OrionHoldsStep, PTL DEF Spec

(* Extracting an event from a projection it was extracted from before adds no  *)
(* entity, relationship or claim link, airports aside, whatever was committed  *)
(* in between.                                                                 *)
THEOREM ExtractionsAreIdempotent == Spec => ExtractionIdempotent
BY OrionHoldsInit, OrionHoldsStep, PTL
   DEF Spec, ExtractionIdempotent, Registry!ExtractionIdempotent
================================================================================
