------------------------------- MODULE EventStore -------------------------------
(* Accident events, their active claims, their public projection and its       *)
(* history, under concurrent ingestion (IngestSourceData), merge               *)
(* (MergeDuplicateEvents), duplicate review (ReviewDuplicate) and reprojection *)
(* (ReProjectEvent, from the outbox worker, the admin routes or a rebuild).    *)
(*                                                                             *)
(* Every operation is one READ COMMITTED transaction of a process.  What it    *)
(* reads before it may be overtaken is a step of its own; what it writes       *)
(* becomes visible at its commit, which also frees its locks: the row of the   *)
(* event (SELECT ... FOR UPDATE, and the key-share lock of a foreign key), the *)
(* row of the projection, and the advisory lock of a reprojection.             *)
(*                                                                             *)
(* One field of an event is kept, without curator decisions.  A projection row *)
(* of version 0 stands for no row.                                             *)
EXTENDS Integers, FiniteSets

CONSTANTS
    Events,        \* event ids, in the order of sorted(..., key=str)
    Sources,       \* ids of the sources that claim
    Values,        \* normalised claim values
    Rows,          \* CLAIMS_UPDATED rows of the outbox; bound on ingests and merges
    Processes,     \* requests and outbox workers
    NoEvent,       \* merged_into_event_id IS NULL
    Missing,       \* events.get returned None
    NoRow,         \* a reprojection that no outbox row caused
    NoProcess,     \* a lock nobody holds
    NoReview,      \* a merge without review_id
    Reviewable,    \* <<existing, newcomer>>: pairs the matcher scores as possible duplicates
    Disputed       \* the DISPUTED marker

ASSUME EventStoreAssumption ==
    /\ Events \subseteq Nat
    /\ IsFiniteSet(Events)
    /\ NoEvent \notin Events
    /\ Missing \notin Events \cup {NoEvent}
    /\ NoRow \notin Rows
    /\ NoProcess \notin Processes
    /\ Reviewable \subseteq Events \X Events
    /\ NoReview \notin Reviewable
    /\ Disputed \notin Values

VARIABLES
    stored,        \* ids of accident_events
    mergedInto,    \* [Events -> Events \cup {NoEvent}]
    claims,        \* [Events -> SUBSET Claims]: active claims
    projection,    \* [Events -> Projections]: projected_accident_records
    history,       \* [Events -> SUBSET Versions]: accident_projection_history
    outbox,        \* [Rows -> OutboxRows]
    review,        \* [Reviewable -> ReviewStates]
    rowLock,       \* [Events -> holder of the accident_events row]
    readLock,      \* [Events -> holder of the projection row]
    advisoryLock,  \* [Events -> holder of lock_for_reprojection]
    txn            \* [Processes -> Transactions]

dataVars == <<stored, mergedInto, claims>>
readVars == <<projection, history>>
lockVars == <<rowLock, readLock, advisoryLock>>
vars     == <<dataVars, readVars, outbox, review, lockVars, txn>>

Claims      == [source : Sources, value : Values]
Contents    == [into : Events \cup {NoEvent}, field : SUBSET (Values \cup {Disputed})]
Projections == [version : Nat, content : Contents]
Versions    == [version : Nat \ {0}, content : Contents]
OutboxRows  == [status : {"ABSENT", "OPEN", "PROCESSED"}, event : Events \cup {NoEvent}]
ReviewStates == {"NONE", "PENDING", "MERGED", "REJECTED"}
Labels == {"idle", "ingest", "claims", "lock1", "lock2", "find", "delete", "merge", "reject",
           "enter", "event", "current", "evidence", "write", "insert"}

NoContent == [into |-> NoEvent, field |-> {}]
NoProjection == [version |-> 0, content |-> NoContent]

(* What a process keeps in local variables until its transaction ends: the    *)
(* event (a merge: the source) and the target it works on, its claim, outbox  *)
(* row or review, and what it has read.                                       *)
Transactions ==
    [pc : Labels, event : Events \cup {NoEvent}, target : Events \cup {NoEvent},
     claim : SUBSET Claims, row : Rows \cup {NoRow}, leased : BOOLEAN,
     review : Reviewable \cup {NoReview}, seen : Events \cup {NoEvent, Missing},
     current : Projections, built : Contents]

Idle == [pc |-> "idle", event |-> NoEvent, target |-> NoEvent, claim |-> {}, row |-> NoRow,
         leased |-> FALSE, review |-> NoReview, seen |-> NoEvent, current |-> NoProjection, built |-> NoContent]

TypeOK ==
    /\ stored \subseteq Events
    /\ mergedInto \in [Events -> Events \cup {NoEvent}]
    /\ claims \in [Events -> SUBSET Claims]
    /\ projection \in [Events -> Projections]
    /\ history \in [Events -> SUBSET Versions]
    /\ outbox \in [Rows -> OutboxRows]
    /\ review \in [Reviewable -> ReviewStates]
    /\ rowLock \in [Events -> Processes \cup {NoProcess}]
    /\ readLock \in [Events -> Processes \cup {NoProcess}]
    /\ advisoryLock \in [Events -> Processes \cup {NoProcess}]
    /\ txn \in [Processes -> Transactions]

(* ProjectionBuilder.build for RAW claims: the value, or DISPUTED.            *)
Build(active) ==
    LET values == {c.value : c \in active} IN
    [into |-> NoEvent, field |-> IF Cardinality(values) > 1 THEN {Disputed} ELSE values]

(* A settled database: every stored event has one claim and shows it, nothing *)
(* is queued, a review of two stored events may be pending.                   *)
Init ==
    /\ stored \in SUBSET Events
    /\ mergedInto = [e \in Events |-> NoEvent]
    /\ \E c \in [Events -> Claims] :
          claims = [e \in Events |-> IF e \in stored THEN {c[e]} ELSE {}]
    /\ projection = [e \in Events |->
                        IF e \in stored
                        THEN [version |-> 1, content |-> Build(claims[e])]
                        ELSE NoProjection]
    /\ history = [e \in Events |-> IF e \in stored THEN {projection[e]} ELSE {}]
    /\ outbox = [r \in Rows |-> [status |-> "ABSENT", event |-> NoEvent]]
    /\ review \in [Reviewable -> {"NONE", "PENDING"}]
    /\ \A pair \in Reviewable : review[pair] = "PENDING" => {pair[1], pair[2]} \subseteq stored
    /\ rowLock = [e \in Events |-> NoProcess]
    /\ readLock = [e \in Events |-> NoProcess]
    /\ advisoryLock = [e \in Events |-> NoProcess]
    /\ txn = [p \in Processes |-> Idle]

--------------------------------------------------------------------------------
(* Transactions.                                                              *)

Merged(e) == mergedInto[e] # NoEvent

At(p, label) == txn[p].pc = label

Update(p, t) == txn' = [txn EXCEPT ![p] = t]

Goto(p, label) == Update(p, [txn[p] EXCEPT !.pc = label])

Begin(p, t) == At(p, "idle") /\ Update(p, t)

Without(lock, p) == [e \in Events |-> IF lock[e] = p THEN NoProcess ELSE lock[e]]

(* COMMIT or ROLLBACK: the process forgets, its locks are free.               *)
End(p) ==
    /\ Update(p, Idle)
    /\ rowLock' = Without(rowLock, p)
    /\ readLock' = Without(readLock, p)
    /\ advisoryLock' = Without(advisoryLock, p)

LockRow(p, e) ==
    /\ rowLock[e] = NoProcess
    /\ rowLock' = [rowLock EXCEPT ![e] = p]
    /\ UNCHANGED <<readLock, advisoryLock>>

LockRead(p, e) ==
    /\ readLock[e] = NoProcess
    /\ readLock' = [readLock EXCEPT ![e] = p]
    /\ UNCHANGED <<rowLock, advisoryLock>>

(* A crash, an error of the database or the choice of a deadlock's victim.    *)
Rollback(p) ==
    /\ ~At(p, "idle")
    /\ End(p)
    /\ UNCHANGED <<dataVars, readVars, outbox, review>>

(* ProjectionUpdater.queue, and step 6 of a merge.                            *)
QueueProjection(e) ==
    \E r \in Rows :
        /\ outbox[r].status = "ABSENT"
        /\ outbox' = [outbox EXCEPT ![r] = [status |-> "OPEN", event |-> e]]

--------------------------------------------------------------------------------
(* Ingestion.                                                                 *)

(* The ids a reader cannot see before the commit need no earlier step.  The   *)
(* candidates may have been merged since the resolver read them.              *)
IngestNewEvent(p, e, c) ==
    /\ At(p, "idle")
    /\ e \notin stored
    /\ stored' = stored \cup {e}
    /\ claims' = [claims EXCEPT ![e] = {c}]
    /\ \E candidates \in SUBSET {d \in stored : rowLock[d] = NoProcess} :
          review' = [pair \in Reviewable |->
                        IF pair \in candidates \X {e} THEN "PENDING" ELSE review[pair]]
    /\ QueueProjection(e)
    /\ UNCHANGED <<mergedInto, readVars, lockVars, txn>>

(* An explicit event_id, or the canonical event of the record or the match.   *)
ResolveEvent(p, e, c) ==
    /\ e \in stored
    /\ ~Merged(e)
    /\ Begin(p, [Idle EXCEPT !.pc = "ingest", !.event = e, !.claim = {c}])
    /\ UNCHANGED <<dataVars, readVars, outbox, review, lockVars>>

(* Mutant of LockForIngest: the merge state is not read again under the row lock. *)
LockForIngestUnchecked(p) ==
    /\ At(p, "ingest")
    /\ LockRow(p, txn[p].event)
    /\ Goto(p, "claims")
    /\ UNCHANGED <<dataVars, readVars, outbox, review>>

LockForIngest(p) ==
    /\ At(p, "ingest")
    /\ ~Merged(txn[p].event)
    /\ LockRow(p, txn[p].event)
    /\ Goto(p, "claims")
    /\ UNCHANGED <<dataVars, readVars, outbox, review>>

(* EventAlreadyMergedError: the merge committed before the row lock.          *)
RefuseIngest(p) ==
    /\ At(p, "ingest")
    /\ rowLock[txn[p].event] = NoProcess
    /\ Merged(txn[p].event)
    /\ End(p)
    /\ UNCHANGED <<dataVars, readVars, outbox, review>>

(* The new claims supersede the active claims of the same source.             *)
Superseding(old, new) == {c \in old : \A d \in new : c.source # d.source} \cup new

CommitIngest(p) ==
    LET e == txn[p].event IN
    /\ At(p, "claims")
    /\ claims' = [claims EXCEPT ![e] = Superseding(@, txn[p].claim)]
    /\ QueueProjection(e)
    /\ End(p)
    /\ UNCHANGED <<stored, mergedInto, readVars, review>>

--------------------------------------------------------------------------------
(* Merge and duplicate review.                                                *)

StartMerge(p, s, t, rev) ==
    /\ s # t
    /\ {s, t} \subseteq stored
    /\ Begin(p, [Idle EXCEPT !.pc = "lock1", !.event = s, !.target = t, !.review = rev])
    /\ UNCHANGED <<dataVars, readVars, outbox, review, lockVars>>

(* CONFIRM of a review read as PENDING, in the direction the curator chooses. *)
ConfirmReview(p, s, t) ==
    \E pair \in Reviewable \cap {<<s, t>>, <<t, s>>} :
        /\ review[pair] = "PENDING"
        /\ StartMerge(p, s, t, pair)

StartReject(p, pair) ==
    /\ review[pair] = "PENDING"
    /\ Begin(p, [Idle EXCEPT !.pc = "reject", !.review = pair])
    /\ UNCHANGED <<dataVars, readVars, outbox, review, lockVars>>

(* update_status is unconditional: it does not look at the status again.      *)
RejectReview(p) ==
    /\ At(p, "reject")
    /\ review' = [review EXCEPT ![txn[p].review] = "REJECTED"]
    /\ End(p)
    /\ UNCHANGED <<dataVars, readVars, outbox>>

(* Mutant of FirstLock: the source first, whatever its id. *)
SourceFirst(p) == txn[p].event

FirstLock(p)  == IF txn[p].event < txn[p].target THEN txn[p].event ELSE txn[p].target
SecondLock(p) == IF FirstLock(p) = txn[p].event THEN txn[p].target ELSE txn[p].event

LockFirst(p) ==
    /\ At(p, "lock1")
    /\ LockRow(p, FirstLock(p))
    /\ Goto(p, "lock2")
    /\ UNCHANGED <<dataVars, readVars, outbox, review>>

(* Mutant of LockSecond: only the source is checked again under the locks. *)
LockSecondSourceOnly(p) ==
    /\ At(p, "lock2")
    /\ ~Merged(txn[p].event)
    /\ LockRow(p, SecondLock(p))
    /\ Goto(p, "find")
    /\ UNCHANGED <<dataVars, readVars, outbox, review>>

LockSecond(p) ==
    /\ At(p, "lock2")
    /\ ~Merged(txn[p].event)
    /\ ~Merged(txn[p].target)
    /\ LockRow(p, SecondLock(p))
    /\ Goto(p, "find")
    /\ UNCHANGED <<dataVars, readVars, outbox, review>>

(* EventAlreadyMergedError, of the source or of the target.                   *)
RefuseMerge(p) ==
    /\ At(p, "lock2")
    /\ rowLock[SecondLock(p)] = NoProcess
    /\ Merged(txn[p].event) \/ Merged(txn[p].target)
    /\ End(p)
    /\ UNCHANGED <<dataVars, readVars, outbox, review>>

(* projections.delete reads the row first and deletes only what it found.     *)
FindProjection(p) ==
    /\ At(p, "find")
    /\ Update(p, [txn[p] EXCEPT !.pc = IF projection[txn[p].event] = NoProjection
                                       THEN "merge" ELSE "delete",
                                !.current = projection[txn[p].event]])
    /\ UNCHANGED <<dataVars, readVars, outbox, review, lockVars>>

DeleteProjection(p) ==
    /\ At(p, "delete")
    /\ LockRead(p, txn[p].event)
    /\ Goto(p, "merge")
    /\ UNCHANGED <<dataVars, readVars, outbox, review>>

(* _close_review: the review that was confirmed, else the pending one.        *)
ClosedReviews(p) ==
    IF txn[p].review # NoReview
    THEN {txn[p].review}
    ELSE {pair \in Reviewable : /\ review[pair] = "PENDING"
                               /\ {pair[1], pair[2]} = {txn[p].event, txn[p].target}}

CommitMerge(p) ==
    LET s == txn[p].event
        t == txn[p].target
    IN
    /\ At(p, "merge")
    /\ mergedInto' = [mergedInto EXCEPT ![s] = t]
    /\ claims' = [claims EXCEPT ![t] = @ \cup claims[s], ![s] = {}]
    /\ projection' = IF txn[p].current = NoProjection
                     THEN projection
                     ELSE [projection EXCEPT ![s] = NoProjection]
    /\ review' = [pair \in Reviewable |->
                     IF pair \in ClosedReviews(p) THEN "MERGED" ELSE review[pair]]
    /\ QueueProjection(t)
    /\ End(p)
    /\ UNCHANGED <<stored, history>>

--------------------------------------------------------------------------------
(* Reprojection.                                                              *)

(* An admin route, the CLI, or one event of RebuildAllProjections.            *)
RequestReprojection(p, e) ==
    /\ Begin(p, [Idle EXCEPT !.pc = "enter", !.event = e])
    /\ UNCHANGED <<dataVars, readVars, outbox, review, lockVars>>

(* A worker leases the row, first or after the lease of another has expired.  *)
Deliver(p, r) ==
    /\ outbox[r].status = "OPEN"
    /\ At(p, "idle")
    /\ txn' = [q \in Processes |->
                  IF q = p
                  THEN [Idle EXCEPT !.pc = "enter", !.event = outbox[r].event,
                                    !.row = r, !.leased = TRUE]
                  ELSE [txn[q] EXCEPT !.leased = IF txn[q].row = r THEN FALSE ELSE @]]
    /\ UNCHANGED <<dataVars, readVars, outbox, review, lockVars>>

(* Mutant of LockForReprojection: reprojections of one event are not serialized. *)
EnterUnlocked(p) ==
    /\ At(p, "enter")
    /\ Goto(p, "event")
    /\ UNCHANGED <<dataVars, readVars, outbox, review, lockVars>>

LockForReprojection(p) ==
    /\ At(p, "enter")
    /\ advisoryLock[txn[p].event] = NoProcess
    /\ advisoryLock' = [advisoryLock EXCEPT ![txn[p].event] = p]
    /\ Goto(p, "event")
    /\ UNCHANGED <<dataVars, readVars, outbox, review, rowLock, readLock>>

ReadEvent(p) ==
    LET e == txn[p].event IN
    /\ At(p, "event")
    /\ Update(p, [txn[p] EXCEPT !.pc = "current",
                                !.seen = IF e \in stored THEN mergedInto[e] ELSE Missing])
    /\ UNCHANGED <<dataVars, readVars, outbox, review, lockVars>>

Tombstone(t) == [into |-> t, field |-> {}]

(* A merged event gets a tombstone that points at the canonical one.          *)
ReadCurrent(p) ==
    LET tombstone == txn[p].seen \in Events IN
    /\ At(p, "current")
    /\ Update(p, [txn[p] EXCEPT !.pc = IF tombstone THEN "write" ELSE "evidence",
                                !.current = projection[txn[p].event],
                                !.built = IF tombstone THEN Tombstone(txn[p].seen) ELSE NoContent])
    /\ UNCHANGED <<dataVars, readVars, outbox, review, lockVars>>

ReadEvidence(p) ==
    LET e == txn[p].event IN
    /\ At(p, "evidence")
    /\ txn[p].seen = Missing => claims[e] # {}
    /\ Update(p, [txn[p] EXCEPT !.pc = "write", !.built = Build(claims[e])])
    /\ UNCHANGED <<dataVars, readVars, outbox, review, lockVars>>

(* EventNotFoundError.                                                        *)
EventNotFound(p) ==
    /\ At(p, "evidence")
    /\ txn[p].seen = Missing
    /\ claims[txn[p].event] = {}
    /\ End(p)
    /\ UNCHANGED <<dataVars, readVars, outbox, review>>

(* update_status with expected_worker_id and expected_attempt_count.          *)
HoldsLease(p) == txn[p].row # NoRow => txn[p].leased

Acknowledge(p) ==
    outbox' = IF txn[p].row = NoRow
              THEN outbox
              ELSE [outbox EXCEPT ![txn[p].row].status = "PROCESSED"]

Unchanged(p) == txn[p].current # NoProjection /\ txn[p].current.content = txn[p].built

(* No-op: the content is the current one; a worker still acknowledges.        *)
SkipWrite(p) ==
    /\ At(p, "write")
    /\ Unchanged(p)
    /\ HoldsLease(p)
    /\ Acknowledge(p)
    /\ End(p)
    /\ UNCHANGED <<dataVars, readVars, review>>

Upsert(p) ==
    /\ At(p, "write")
    /\ ~Unchanged(p)
    /\ LockRead(p, txn[p].event)
    /\ Goto(p, "insert")
    /\ UNCHANGED <<dataVars, readVars, outbox, review>>

NextVersion(p) == txn[p].current.version + 1

(* uq_projection_history_version.                                             *)
VersionFree(p) == \A h \in history[txn[p].event] : h.version # NextVersion(p)

(* The insert waits for the event row: its foreign key takes a share lock.    *)
CommitProjection(p) ==
    LET e == txn[p].event IN
    /\ At(p, "insert")
    /\ rowLock[e] = NoProcess
    /\ VersionFree(p)
    /\ HoldsLease(p)
    /\ projection' = [projection EXCEPT ![e] = [version |-> NextVersion(p), content |-> txn[p].built]]
    /\ history' = [history EXCEPT ![e] =
                      @ \cup {[version |-> NextVersion(p), content |-> txn[p].built]}]
    /\ Acknowledge(p)
    /\ End(p)
    /\ UNCHANGED <<dataVars, review>>

(* The unique index or the lease refuses: the transaction is rolled back.     *)
RefuseProjection(p) ==
    /\ \/ At(p, "insert") /\ rowLock[txn[p].event] = NoProcess /\ ~VersionFree(p)
       \/ At(p, "insert") /\ rowLock[txn[p].event] = NoProcess /\ ~HoldsLease(p)
       \/ At(p, "write") /\ Unchanged(p) /\ ~HoldsLease(p)
    /\ End(p)
    /\ UNCHANGED <<dataVars, readVars, outbox, review>>

--------------------------------------------------------------------------------
Ingest(p) ==
    \/ \E e \in Events, c \in Claims : IngestNewEvent(p, e, c) \/ ResolveEvent(p, e, c)
    \/ LockForIngest(p)
    \/ RefuseIngest(p)
    \/ CommitIngest(p)

Merge(p) ==
    \/ \E s, t \in Events : StartMerge(p, s, t, NoReview) \/ ConfirmReview(p, s, t)
    \/ \E pair \in Reviewable : StartReject(p, pair)
    \/ RejectReview(p)
    \/ LockFirst(p)
    \/ LockSecond(p)
    \/ RefuseMerge(p)
    \/ FindProjection(p)
    \/ DeleteProjection(p)
    \/ CommitMerge(p)

Reproject(p) ==
    \/ \E e \in Events : RequestReprojection(p, e)
    \/ \E r \in Rows : Deliver(p, r)
    \/ LockForReprojection(p)
    \/ ReadEvent(p)
    \/ ReadCurrent(p)
    \/ ReadEvidence(p)
    \/ EventNotFound(p)
    \/ SkipWrite(p)
    \/ Upsert(p)
    \/ CommitProjection(p)
    \/ RefuseProjection(p)

Next == \E p \in Processes : Ingest(p) \/ Merge(p) \/ Reproject(p) \/ Rollback(p)

Spec == Init /\ [][Next]_vars

--------------------------------------------------------------------------------
(* Safety.                                                                    *)

(* No set of events is closed under the merge pointer: every chain that       *)
(* query_accident and the ingestion follow ends at an event that is not       *)
(* merged.  Both rows are locked and read again before the pointer is set.    *)
MergeForest ==
    \A S \in SUBSET Events : S # {} => \E e \in S : mergedInto[e] \notin S

(* An absorbed event keeps no active claim: an ingestion that resolved it     *)
(* before the merge must not write to it after the claims were moved.         *)
NoStrandedClaims == \A e \in Events : Merged(e) => claims[e] = {}

(* The public record of a live event shows its active claims, or an outbox    *)
(* row that has not been processed still promises a reprojection: however     *)
(* reprojections, no-op acknowledgements and ingestions interleave, no change *)
(* of evidence is lost.                                                       *)
Promised(e) == \E r \in Rows : outbox[r].status = "OPEN" /\ outbox[r].event = e
Shows(e) == projection[e] # NoProjection /\ projection[e].content = Build(claims[e])
Freshness == \A e \in stored : ~Merged(e) => Shows(e) \/ Promised(e)

(* The versions in the history of an event are 1..n, each once; the record of *)
(* a live event is the newest of them, and a record that is shown is always   *)
(* the snapshot the history keeps under its version.                          *)
Gapless(e)   == \A h \in history[e] : h.version = 1 \/ \E g \in history[e] : h.version = g.version + 1
OnePerVersion(e) == \A g, h \in history[e] : g.version = h.version => g = h
Newest(e)    == \A h \in history[e] : h.version <= projection[e].version
HistoryDense ==
    \A e \in Events :
        /\ Gapless(e)
        /\ OnePerVersion(e)
        /\ ~Merged(e) => Newest(e)
        /\ projection[e] # NoProjection => projection[e] \in history[e]

(* Merges and ingestions never wait for event rows in a circle, whatever pairs *)
(* are merged in whatever direction at once.                                   *)
WaitsForRow(p, q) ==
    \/ At(p, "ingest") /\ rowLock[txn[p].event] = q
    \/ At(p, "lock1") /\ rowLock[FirstLock(p)] = q
    \/ At(p, "lock2") /\ rowLock[SecondLock(p)] = q
NoRowCycle ==
    \A S \in SUBSET Processes :
        S # {} => \E p \in S : \A q \in S : ~WaitsForRow(p, q)

(* A review closed as MERGED names two events one of which absorbed the other. *)
MergedReviewsHold ==
    \A pair \in Reviewable :
        review[pair] = "MERGED" =>
            mergedInto[pair[1]] = pair[2] \/ mergedInto[pair[2]] = pair[1]

--------------------------------------------------------------------------------
(* What the comments promise and the code does not keep.                      *)

(* "A merged/absorbed event must never be rebuilt into a stale public accident *)
(* record": the projection row of a merged event is absent or a tombstone.     *)
NoStaleRecord ==
    \A e \in Events : Merged(e) /\ projection[e] # NoProjection => projection[e].content.into # NoEvent

(* "A later full rebuild will write an explicit tombstone": the version that  *)
(* the reprojection of a merged event computes is not taken.                  *)
TombstoneInserts ==
    \A p \in Processes : At(p, "insert") /\ txn[p].seen \in Events => VersionFree(p)

(* PENDING "is the only mutable state - all other transitions are terminal":   *)
(* a review that a curator has decided keeps its status.                       *)
ReviewStep ==
    \A pair \in Reviewable :
        review[pair] \in {"MERGED", "REJECTED"} => review'[pair] = review[pair]
ReviewFinal == [][ReviewStep]_vars
================================================================================
