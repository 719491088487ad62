------------------------------ MODULE EventProofs ------------------------------
(* Proofs about EventStore for any set of events, processes and outbox rows.   *)
EXTENDS EventStore, TLAPS, FiniteSetTheorems

Merging    == {"lock1", "lock2", "find", "delete", "merge"}
Projecting == {"enter", "event", "current", "evidence", "write", "insert"}

(* What a transaction works on: stored events, a review of its own pair, an   *)
(* outbox row of its own event.                                               *)
Working ==
    /\ \A p \in Processes :
          /\ txn[p].pc \in {"ingest", "claims"} => txn[p].event \in stored
          /\ txn[p].pc \in Merging =>
                /\ txn[p].event \in stored /\ txn[p].target \in stored
                /\ txn[p].event # txn[p].target
                /\ txn[p].review # NoReview =>
                      {txn[p].review[1], txn[p].review[2]} = {txn[p].event, txn[p].target}
          /\ txn[p].pc \in Projecting =>
                /\ txn[p].event \in Events
                /\ txn[p].row # NoRow =>
                      /\ outbox[txn[p].row].status # "ABSENT"
                      /\ outbox[txn[p].row].event = txn[p].event
          /\ txn[p].pc = "reject" => txn[p].review \in Reviewable
    /\ \A r \in Rows : outbox[r].status # "ABSENT" => outbox[r].event \in stored

(* What the event locks guarantee to their holder.                            *)
RowLocks ==
    \A p \in Processes :
        /\ txn[p].pc = "claims" => rowLock[txn[p].event] = p /\ ~Merged(txn[p].event)
        /\ txn[p].pc = "lock2" => rowLock[FirstLock(p)] = p
        /\ txn[p].pc \in {"find", "delete", "merge"} =>
              /\ rowLock[txn[p].event] = p /\ ~Merged(txn[p].event)
              /\ rowLock[txn[p].target] = p /\ ~Merged(txn[p].target)

(* A row is locked by nobody else: its holder is past the locking of it.      *)
Holding(p, e) ==
    \/ txn[p].pc = "claims" /\ e = txn[p].event
    \/ txn[p].pc = "lock2" /\ e = FirstLock(p)
    \/ txn[p].pc \in {"find", "delete", "merge"} /\ e \in {txn[p].event, txn[p].target}

HeldRows == \A p \in Processes, e \in Events : rowLock[e] = p => Holding(p, e)

(* The advisory lock of a reprojection, and what it read under it: until a    *)
(* merge absorbs the event, the current row is the one it read, and what it   *)
(* built is the evidence or another outbox row will rebuild it.               *)
Serialized ==
    \A p \in Processes :
        txn[p].pc \in Projecting \ {"enter"} => advisoryLock[txn[p].event] = p

StillCurrent(p) ==
    txn[p].pc \in {"evidence", "write", "insert"} =>
        /\ ~Merged(txn[p].event) => txn[p].current = projection[txn[p].event]
        /\ txn[p].current = NoProjection \/ txn[p].current \in history[txn[p].event]

SeenMerged(p) ==
    txn[p].pc \in {"current", "evidence", "write", "insert"} /\ txn[p].seen \in Events =>
        Merged(txn[p].event)

OthersPromise(p) ==
    \E r \in Rows : r # txn[p].row /\ outbox[r].status = "OPEN" /\ outbox[r].event = txn[p].event

BuiltOrPromised(p) ==
    txn[p].pc \in {"write", "insert"} /\ ~Merged(txn[p].event) =>
        txn[p].built = Build(claims[txn[p].event]) \/ OthersPromise(p)

Reads == \A p \in Processes : StillCurrent(p) /\ SeenMerged(p) /\ BuiltOrPromised(p)

(* Only stored events are merged, and a review is closed over its own pair.   *)
MergedStored == \A e \in Events : Merged(e) => e \in stored

IInv ==
    /\ TypeOK /\ Working /\ RowLocks /\ HeldRows /\ Serialized /\ Reads /\ MergedStored
    /\ MergeForest /\ NoStrandedClaims /\ Freshness /\ HistoryDense /\ MergedReviewsHold

LEMMA IdleType == Idle \in Transactions /\ NoProjection \in Projections
BY EventStoreAssumption DEF EventStoreAssumption, Idle, Transactions, NoProjection, Projections, NoContent, Contents, Labels

LEMMA BuildType == ASSUME NEW S \in SUBSET Claims PROVE Build(S) \in Contents
BY DEF Build, Contents, Claims

(* One field of a transaction at a time, then the updates the actions make.   *)
LEMMA SetField ==
    ASSUME NEW t \in Transactions
    PROVE  /\ \A x \in Labels : [t EXCEPT !.pc = x] \in Transactions
           /\ \A x \in Events \cup {NoEvent, Missing} : [t EXCEPT !.seen = x] \in Transactions
           /\ \A x \in Projections : [t EXCEPT !.current = x] \in Transactions
           /\ \A x \in Contents : [t EXCEPT !.built = x] \in Transactions
<1>1. \A x \in Labels : [t EXCEPT !.pc = x] \in Transactions
  BY DEF Transactions
<1>2. \A x \in Events \cup {NoEvent, Missing} : [t EXCEPT !.seen = x] \in Transactions
  BY DEF Transactions
<1>3. \A x \in Projections : [t EXCEPT !.current = x] \in Transactions
  BY DEF Transactions
<1>4. \A x \in Contents : [t EXCEPT !.built = x] \in Transactions
  BY DEF Transactions
<1> QED
  BY <1>1, <1>2, <1>3, <1>4

LEMMA SetSeen ==
    ASSUME NEW t \in Transactions, NEW l \in Labels, NEW x \in Events \cup {NoEvent, Missing}
    PROVE  [t EXCEPT !.pc = l, !.seen = x] \in Transactions
<1>1. [t EXCEPT !.pc = l, !.seen = x] = [[t EXCEPT !.pc = l] EXCEPT !.seen = x]
  OBVIOUS
<1> QED
  BY <1>1, SetField

LEMMA SetCurrent ==
    ASSUME NEW t \in Transactions, NEW l \in Labels, NEW x \in Projections
    PROVE  [t EXCEPT !.pc = l, !.current = x] \in Transactions
<1>1. [t EXCEPT !.pc = l, !.current = x] = [[t EXCEPT !.pc = l] EXCEPT !.current = x]
  OBVIOUS
<1> QED
  BY <1>1, SetField

LEMMA SetBuilt ==
    ASSUME NEW t \in Transactions, NEW l \in Labels, NEW x \in Contents
    PROVE  [t EXCEPT !.pc = l, !.built = x] \in Transactions
<1>1. [t EXCEPT !.pc = l, !.built = x] = [[t EXCEPT !.pc = l] EXCEPT !.built = x]
  OBVIOUS
<1> QED
  BY <1>1, SetField

LEMMA SetBoth ==
    ASSUME NEW t \in Transactions, NEW l \in Labels, NEW x \in Projections, NEW y \in Contents
    PROVE  [t EXCEPT !.pc = l, !.current = x, !.built = y] \in Transactions
<1>1. [t EXCEPT !.pc = l, !.current = x, !.built = y]
        = [[t EXCEPT !.pc = l, !.current = x] EXCEPT !.built = y]
  OBVIOUS
<1> QED
  BY <1>1, SetCurrent, SetField

LEMMA InitType == Init => TypeOK
<1> SUFFICES ASSUME Init PROVE TypeOK
  OBVIOUS
<1>1. mergedInto \in [Events -> Events \cup {NoEvent}] /\ stored \subseteq Events
  BY DEF Init
<1>2. claims \in [Events -> SUBSET Claims]
  BY DEF Init
<1>3. \A e \in Events : Build(claims[e]) \in Contents
  BY <1>2, BuildType
<1>4. projection \in [Events -> Projections]
  BY <1>3, IdleType DEF Init, Projections
<1>5. \A e \in stored : projection[e] \in Versions
  <2> TAKE e \in stored
  <2>1. projection[e] = [version |-> 1, content |-> Build(claims[e])] /\ Build(claims[e]) \in Contents
    BY <1>1, <1>3 DEF Init
  <2> QED
    BY <2>1 DEF Versions
<1>6. history \in [Events -> SUBSET Versions]
  BY <1>5 DEF Init
<1>7. review \in [Reviewable -> ReviewStates]
  BY DEF Init, ReviewStates
<1>8. outbox \in [Rows -> OutboxRows]
  BY DEF Init, OutboxRows
<1>9. txn \in [Processes -> Transactions]
  BY IdleType DEF Init
<1> QED
  BY <1>1, <1>2, <1>4, <1>6, <1>7, <1>8, <1>9 DEF Init, TypeOK

--------------------------------------------------------------------------------
(* Type correctness.                                                          *)

LEMMA EndType ==
    ASSUME TypeOK, NEW p \in Processes, End(p)
    PROVE  /\ txn' \in [Processes -> Transactions]
           /\ rowLock' \in [Events -> Processes \cup {NoProcess}]
           /\ readLock' \in [Events -> Processes \cup {NoProcess}]
           /\ advisoryLock' \in [Events -> Processes \cup {NoProcess}]
BY IdleType DEF TypeOK, End, Update, Without

LEMMA GotoType ==
    ASSUME TypeOK, NEW p \in Processes, NEW l \in Labels, Goto(p, l)
    PROVE  txn' \in [Processes -> Transactions]
BY DEF TypeOK, Goto, Update, Transactions

LEMMA QueueType ==
    ASSUME TypeOK, NEW e \in Events \cup {NoEvent}, QueueProjection(e)
    PROVE  outbox' \in [Rows -> OutboxRows]
BY DEF TypeOK, QueueProjection, OutboxRows

LEMMA StepType ==
    ASSUME TypeOK, Working, [Next]_vars
    PROVE  TypeOK'
<1> USE DEF dataVars, readVars, lockVars
<1>0. CASE UNCHANGED vars
  BY <1>0 DEF TypeOK, vars
<1> SUFFICES ASSUME NEW p \in Processes, Ingest(p) \/ Merge(p) \/ Reproject(p) \/ Rollback(p)
             PROVE  TypeOK'
  BY <1>0 DEF Next
<1>I1. ASSUME NEW e \in Events, NEW c \in Claims, IngestNewEvent(p, e, c) PROVE TypeOK'
  <2>1. outbox' \in [Rows -> OutboxRows]
    BY <1>I1, QueueType DEF IngestNewEvent
  <2>2. review' \in [Reviewable -> ReviewStates]
    BY <1>I1 DEF IngestNewEvent, TypeOK, ReviewStates
  <2> QED
    BY <1>I1, <2>1, <2>2 DEF IngestNewEvent, TypeOK
<1>I2. ASSUME NEW e \in Events, NEW c \in Claims, ResolveEvent(p, e, c) PROVE TypeOK'
  <2>1. txn' \in [Processes -> Transactions]
    BY <1>I2, IdleType DEF ResolveEvent, Begin, Update, TypeOK, Transactions, Labels
  <2> QED
    BY <1>I2, <2>1 DEF ResolveEvent, TypeOK
<1>I3. CASE LockForIngest(p)
  <2>1. txn[p].event \in Events \/ txn[p].event = NoEvent
    BY DEF TypeOK, Transactions
  <2>2. txn' \in [Processes -> Transactions]
    BY <1>I3, GotoType DEF LockForIngest, Labels
  <2> QED
    BY <1>I3, <2>2 DEF LockForIngest, LockRow, TypeOK
<1>I4. CASE RefuseIngest(p)
  BY <1>I4, EndType DEF RefuseIngest, TypeOK
<1>I5. CASE CommitIngest(p)
  <2>1. txn[p].claim \in SUBSET Claims
    BY DEF TypeOK, Transactions
  <2>2. claims' \in [Events -> SUBSET Claims]
    BY <1>I5, <2>1 DEF CommitIngest, TypeOK, Superseding
  <2>3. outbox' \in [Rows -> OutboxRows]
    <3>1. txn[p].event \in Events \cup {NoEvent} /\ QueueProjection(txn[p].event)
      BY <1>I5 DEF CommitIngest, TypeOK, Transactions
    <3> QED
      BY <3>1, QueueType
  <2> QED
    BY <1>I5, <2>2, <2>3, EndType DEF CommitIngest, TypeOK
<1>M1. ASSUME NEW s \in Events, NEW t \in Events, NEW rev \in Reviewable \cup {NoReview},
              StartMerge(p, s, t, rev)
       PROVE  TypeOK'
  <2>1. txn' \in [Processes -> Transactions]
    BY <1>M1, IdleType DEF StartMerge, Begin, Update, TypeOK, Transactions, Labels
  <2> QED
    BY <1>M1, <2>1 DEF StartMerge, TypeOK
<1>M2. ASSUME NEW pair \in Reviewable, StartReject(p, pair) PROVE TypeOK'
  <2>1. txn' \in [Processes -> Transactions]
    BY <1>M2, IdleType DEF StartReject, Begin, Update, TypeOK, Transactions, Labels
  <2> QED
    BY <1>M2, <2>1 DEF StartReject, TypeOK
<1>M3. CASE RejectReview(p)
  <2>1. review' \in [Reviewable -> ReviewStates]
    BY <1>M3 DEF RejectReview, TypeOK, ReviewStates
  <2> QED
    BY <1>M3, <2>1, EndType DEF RejectReview, TypeOK
<1>M4. CASE LockFirst(p)
  <2>1. txn' \in [Processes -> Transactions]
    BY <1>M4, GotoType DEF LockFirst, Labels
  <2> QED
    BY <1>M4, <2>1 DEF LockFirst, LockRow, TypeOK
<1>M5. CASE LockSecond(p)
  <2>1. txn' \in [Processes -> Transactions]
    BY <1>M5, GotoType DEF LockSecond, Labels
  <2> QED
    BY <1>M5, <2>1 DEF LockSecond, LockRow, TypeOK
<1>M6. CASE RefuseMerge(p)
  BY <1>M6, EndType DEF RefuseMerge, TypeOK
<1>M7. CASE FindProjection(p)
  <2>1. projection[txn[p].event] \in Projections
    BY <1>M7 DEF FindProjection, At, Working, Merging, TypeOK
  <2>2. txn' \in [Processes -> Transactions]
    <3>1. [txn[p] EXCEPT !.pc = IF projection[txn[p].event] = NoProjection THEN "merge" ELSE "delete",
                         !.current = projection[txn[p].event]] \in Transactions
      BY <2>1, SetCurrent DEF TypeOK, Labels
    <3> QED
      BY <1>M7, <3>1 DEF FindProjection, Update, TypeOK
  <2> QED
    BY <1>M7, <2>2 DEF FindProjection, TypeOK
<1>M8. CASE DeleteProjection(p)
  <2>1. txn' \in [Processes -> Transactions]
    BY <1>M8, GotoType DEF DeleteProjection, Labels
  <2> QED
    BY <1>M8, <2>1 DEF DeleteProjection, LockRead, TypeOK
<1>M9. CASE CommitMerge(p)
  <2>1. txn[p].event \in Events \cup {NoEvent} /\ txn[p].target \in Events \cup {NoEvent}
    BY DEF TypeOK, Transactions
  <2>2. outbox' \in [Rows -> OutboxRows]
    BY <1>M9, <2>1, QueueType DEF CommitMerge
  <2>3. review' \in [Reviewable -> ReviewStates]
    BY <1>M9 DEF CommitMerge, TypeOK, ReviewStates
  <2>4. claims' \in [Events -> SUBSET Claims]
    <3>1. txn[p].event \in Events /\ txn[p].target \in Events
      BY <1>M9 DEF CommitMerge, At, Working, Merging, TypeOK
    <3>2. claims[txn[p].event] \in SUBSET Claims /\ claims[txn[p].target] \in SUBSET Claims
      BY <3>1 DEF TypeOK
    <3> QED
      BY <1>M9, <3>1, <3>2 DEF CommitMerge, TypeOK
  <2>5. projection' \in [Events -> Projections]
    BY <1>M9, IdleType DEF CommitMerge, TypeOK
  <2>6. mergedInto' \in [Events -> Events \cup {NoEvent}]
    BY <1>M9, <2>1 DEF CommitMerge, TypeOK
  <2> QED
    BY <1>M9, <2>2, <2>3, <2>4, <2>5, <2>6, EndType DEF CommitMerge, TypeOK
<1>R1. ASSUME NEW e \in Events, RequestReprojection(p, e) PROVE TypeOK'
  <2>1. txn' \in [Processes -> Transactions]
    BY <1>R1, IdleType DEF RequestReprojection, Begin, Update, TypeOK, Transactions, Labels
  <2> QED
    BY <1>R1, <2>1 DEF RequestReprojection, TypeOK
<1>R2. ASSUME NEW r \in Rows, Deliver(p, r) PROVE TypeOK'
  <2>1. outbox[r].event \in Events \cup {NoEvent}
    BY DEF TypeOK, OutboxRows
  <2>2. [Idle EXCEPT !.pc = "enter", !.event = outbox[r].event, !.row = r, !.leased = TRUE]
           \in Transactions
    BY <2>1, IdleType DEF Transactions, Labels
  <2>3. \A q \in Processes :
           [txn[q] EXCEPT !.leased = IF txn[q].row = r THEN FALSE ELSE @] \in Transactions
    BY DEF TypeOK, Transactions
  <2>4. txn' \in [Processes -> Transactions]
    BY <1>R2, <2>2, <2>3 DEF Deliver
  <2> QED
    BY <1>R2, <2>4 DEF Deliver, TypeOK
<1>R3. CASE LockForReprojection(p)
  <2>1. txn' \in [Processes -> Transactions]
    BY <1>R3, GotoType DEF LockForReprojection, Labels
  <2> QED
    BY <1>R3, <2>1 DEF LockForReprojection, TypeOK
<1>R4. CASE ReadEvent(p)
  <2>1. txn[p].event \in stored => mergedInto[txn[p].event] \in Events \cup {NoEvent}
    BY DEF TypeOK
  <2>2. txn' \in [Processes -> Transactions]
    <3>1. [txn[p] EXCEPT !.pc = "current",
                         !.seen = IF txn[p].event \in stored THEN mergedInto[txn[p].event] ELSE Missing]
             \in Transactions
      BY <2>1, SetSeen DEF TypeOK, Labels
    <3> QED
      BY <1>R4, <3>1 DEF ReadEvent, Update, TypeOK
  <2> QED
    BY <1>R4, <2>2 DEF ReadEvent, TypeOK
<1>R5. CASE ReadCurrent(p)
  <2>1. projection[txn[p].event] \in Projections
    BY <1>R5 DEF ReadCurrent, At, Working, Projecting, TypeOK
  <2>2. NoContent \in Contents /\ (txn[p].seen \in Events => Tombstone(txn[p].seen) \in Contents)
    BY DEF NoContent, Tombstone, Contents
  <2>3. txn' \in [Processes -> Transactions]
    <3> DEFINE l == IF txn[p].seen \in Events THEN "write" ELSE "evidence"
               y == IF txn[p].seen \in Events THEN Tombstone(txn[p].seen) ELSE NoContent
    <3>1. l \in Labels /\ y \in Contents /\ txn[p] \in Transactions
      BY <2>2 DEF Labels, TypeOK
    <3>2. Update(p, [txn[p] EXCEPT !.pc = l, !.current = projection[txn[p].event], !.built = y])
      BY <1>R5 DEF ReadCurrent
    <3> HIDE DEF l, y
    <3>3. [txn[p] EXCEPT !.pc = l, !.current = projection[txn[p].event], !.built = y] \in Transactions
      BY <2>1, <3>1, SetBoth
    <3> QED
      BY <3>2, <3>3 DEF Update, TypeOK
  <2> QED
    BY <1>R5, <2>3 DEF ReadCurrent, TypeOK
<1>R6. CASE ReadEvidence(p)
  <2>1. Build(claims[txn[p].event]) \in Contents
    BY <1>R6, BuildType DEF ReadEvidence, At, Working, Projecting, TypeOK
  <2>2. txn' \in [Processes -> Transactions]
    <3>1. [txn[p] EXCEPT !.pc = "write", !.built = Build(claims[txn[p].event])] \in Transactions
      BY <2>1, SetBuilt DEF TypeOK, Labels
    <3> QED
      BY <1>R6, <3>1 DEF ReadEvidence, Update, TypeOK
  <2> QED
    BY <1>R6, <2>2 DEF ReadEvidence, TypeOK
<1>R7. CASE EventNotFound(p)
  BY <1>R7, EndType DEF EventNotFound, TypeOK
<1>R8. CASE SkipWrite(p)
  <2>1. outbox' \in [Rows -> OutboxRows]
    <3>1. txn[p].row \in Rows =>
             [outbox EXCEPT ![txn[p].row].status = "PROCESSED"] \in [Rows -> OutboxRows]
      BY DEF TypeOK, OutboxRows
    <3>2. txn[p].row \in Rows \cup {NoRow}
      BY DEF TypeOK, Transactions
    <3> QED
      BY <1>R8, <3>1, <3>2 DEF SkipWrite, Acknowledge, TypeOK
  <2> QED
    BY <1>R8, <2>1, EndType DEF SkipWrite, TypeOK
<1>R9. CASE Upsert(p)
  <2>1. txn' \in [Processes -> Transactions]
    BY <1>R9, GotoType DEF Upsert, Labels
  <2> QED
    BY <1>R9, <2>1 DEF Upsert, LockRead, TypeOK
<1>R10. CASE CommitProjection(p)
  <2>1. outbox' \in [Rows -> OutboxRows]
    <3>1. txn[p].row \in Rows =>
             [outbox EXCEPT ![txn[p].row].status = "PROCESSED"] \in [Rows -> OutboxRows]
      BY DEF TypeOK, OutboxRows
    <3>2. txn[p].row \in Rows \cup {NoRow}
      BY DEF TypeOK, Transactions
    <3> QED
      BY <1>R10, <3>1, <3>2 DEF CommitProjection, Acknowledge, TypeOK
  <2>2. NextVersion(p) \in Nat \ {0} /\ txn[p].built \in Contents
    BY DEF TypeOK, Transactions, Projections, NextVersion
  <2>3. projection' \in [Events -> Projections]
    BY <1>R10, <2>2 DEF CommitProjection, TypeOK, Projections
  <2>4. [version |-> NextVersion(p), content |-> txn[p].built] \in Versions
    BY <2>2 DEF Versions
  <2>5. history' \in [Events -> SUBSET Versions]
    BY <1>R10, <2>4 DEF CommitProjection, TypeOK
  <2> QED
    BY <1>R10, <2>1, <2>3, <2>5, EndType DEF CommitProjection, TypeOK
<1>R11. CASE RefuseProjection(p)
  BY <1>R11, EndType DEF RefuseProjection, TypeOK
<1>E. CASE Rollback(p)
  BY <1>E, EndType DEF Rollback, TypeOK
<1>M. CASE Merge(p)
  BY <1>M, <1>M1, <1>M2, <1>M3, <1>M4, <1>M5, <1>M6, <1>M7, <1>M8, <1>M9 DEF Merge, ConfirmReview
<1>R. CASE Reproject(p)
  BY <1>R, <1>R1, <1>R2, <1>R3, <1>R4, <1>R5, <1>R6, <1>R7, <1>R8, <1>R9, <1>R10, <1>R11 DEF Reproject
<1> QED
  BY <1>I1, <1>I2, <1>I3, <1>I4, <1>I5, <1>M, <1>R, <1>E DEF Ingest

--------------------------------------------------------------------------------
(* What one step of a process p does: to other processes nothing but the loss *)
(* of a lease, to the data nothing unless p ends its transaction.             *)

Step(p) == Ingest(p) \/ Merge(p) \/ Reproject(p) \/ Rollback(p)

Quiet == UNCHANGED <<stored, mergedInto, claims, projection, history, outbox, review>>

SameTransaction(q) ==
    /\ txn'[q].pc = txn[q].pc
    /\ txn'[q].event = txn[q].event
    /\ txn'[q].target = txn[q].target
    /\ txn'[q].row = txn[q].row
    /\ txn'[q].review = txn[q].review
    /\ txn'[q].seen = txn[q].seen
    /\ txn'[q].current = txn[q].current
    /\ txn'[q].built = txn[q].built

KeepsLocks(q) ==
    \A e \in Events :
        /\ rowLock[e] = q => rowLock'[e] = q
        /\ advisoryLock[e] = q => advisoryLock'[e] = q

(* The steps of p inside its transaction, as far as the invariant needs them. *)
Moves(p) ==
    LET t == txn[p]
        u == txn'[p]
    IN
    \/ u.pc = "ingest" /\ u.event \in stored
    \/ u.pc = "claims" /\ t.pc = "ingest" /\ u.event = t.event /\ ~Merged(t.event) /\ rowLock'[t.event] = p
    \/ u.pc = "reject" /\ u.review \in Reviewable
    \/ /\ u.pc = "lock1"
       /\ u.event \in stored /\ u.target \in stored /\ u.event # u.target
       /\ u.review # NoReview => {u.review[1], u.review[2]} = {u.event, u.target}
    \/ /\ t.pc \in {"lock1", "lock2", "find", "delete"} /\ KeepsLocks(p)
       /\ u.event = t.event /\ u.target = t.target /\ u.review = t.review
       /\ \/ t.pc = "lock1" /\ u.pc = "lock2" /\ rowLock'[FirstLock(p)] = p
          \/ t.pc = "lock2" /\ u.pc = "find" /\ rowLock'[SecondLock(p)] = p
                /\ ~Merged(t.event) /\ ~Merged(t.target)
          \/ t.pc = "find" /\ u.pc \in {"delete", "merge"}
          \/ t.pc = "delete" /\ u.pc = "merge"
    \/ /\ u.pc = "enter" /\ u.event \in Events
       /\ u.row # NoRow => outbox[u.row].status # "ABSENT" /\ outbox[u.row].event = u.event
    \/ /\ t.pc \in Projecting /\ KeepsLocks(p) /\ u.event = t.event /\ u.row = t.row
       /\ \/ t.pc = "enter" /\ u.pc = "event" /\ advisoryLock'[t.event] = p
          \/ t.pc = "event" /\ u.pc = "current" /\ (u.seen \in Events => Merged(t.event))
          \/ /\ t.pc = "current" /\ u.seen = t.seen /\ u.current = projection[t.event]
             /\ \/ u.pc = "write" /\ t.seen \in Events
                \/ u.pc = "evidence"
          \/ /\ t.pc = "evidence" /\ u.pc = "write" /\ u.seen = t.seen /\ u.current = t.current
             /\ u.built = Build(claims[t.event])
          \/ /\ t.pc = "write" /\ u.pc = "insert"
             /\ u.seen = t.seen /\ u.current = t.current /\ u.built = t.built

(* The ends of a transaction.                                                 *)
Ends(p) ==
    \/ Quiet
    \/ \E e \in Events, c \in Claims : IngestNewEvent(p, e, c)
    \/ CommitIngest(p)
    \/ RejectReview(p)
    \/ CommitMerge(p)
    \/ SkipWrite(p)
    \/ CommitProjection(p)

LEMMA EndFrame ==
    ASSUME TypeOK, NEW p \in Processes, End(p)
    PROVE  /\ \A q \in Processes \ {p} : SameTransaction(q) /\ KeepsLocks(q)
           /\ txn'[p].pc = "idle"
BY EventStoreAssumption DEF EventStoreAssumption, TypeOK, End, Update, Without, SameTransaction, KeepsLocks, Idle

LEMMA UpdateFrame ==
    ASSUME TypeOK, NEW p \in Processes, NEW t, Update(p, t)
    PROVE  txn'[p] = t /\ \A q \in Processes \ {p} : SameTransaction(q)
BY DEF TypeOK, Update, SameTransaction

LEMMA LockRowFrame ==
    ASSUME TypeOK, NEW p \in Processes, NEW e, LockRow(p, e)
    PROVE  (\A q \in Processes : KeepsLocks(q)) /\ (e \in Events => rowLock'[e] = p)
BY EventStoreAssumption DEF EventStoreAssumption, TypeOK, LockRow, KeepsLocks

LEMMA LockReadFrame ==
    ASSUME TypeOK, NEW p \in Processes, NEW e, LockRead(p, e)
    PROVE  \A q \in Processes : KeepsLocks(q)
BY DEF TypeOK, LockRead, KeepsLocks

LEMMA GotoFrame ==
    ASSUME TypeOK, NEW p \in Processes, NEW l, Goto(p, l)
    PROVE  /\ txn'[p].pc = l
           /\ txn'[p].event = txn[p].event /\ txn'[p].target = txn[p].target
           /\ txn'[p].row = txn[p].row /\ txn'[p].review = txn[p].review
           /\ txn'[p].seen = txn[p].seen /\ txn'[p].current = txn[p].current
           /\ txn'[p].built = txn[p].built
           /\ \A q \in Processes \ {p} : SameTransaction(q)
BY UpdateFrame DEF TypeOK, Goto, Transactions

LEMMA StepCases ==
    ASSUME TypeOK, Working, NEW p \in Processes, Step(p)
    PROVE  /\ \A q \in Processes \ {p} : SameTransaction(q) /\ KeepsLocks(q)
           /\ \/ Quiet /\ Moves(p)
              \/ txn'[p].pc = "idle" /\ Ends(p)
<1> DEFINE Goal == /\ \A q \in Processes \ {p} : SameTransaction(q) /\ KeepsLocks(q)
                   /\ \/ Quiet /\ Moves(p)
                      \/ txn'[p].pc = "idle" /\ Ends(p)
<1> SUFFICES Goal
  OBVIOUS
<1> USE DEF dataVars, readVars, lockVars
<1>0. UNCHANGED lockVars => \A q \in Processes : KeepsLocks(q)
  BY DEF KeepsLocks
<1>1. ASSUME End(p), Ends(p) PROVE Goal
  BY <1>1, EndFrame
<1>2. ASSUME End(p), Quiet PROVE Goal
  BY <1>1, <1>2 DEF Ends
<1>I1. ASSUME NEW e \in Events, NEW c \in Claims, IngestNewEvent(p, e, c) PROVE Goal
  <2>1. UNCHANGED lockVars /\ UNCHANGED txn /\ At(p, "idle")
    BY <1>I1 DEF IngestNewEvent
  <2>2. Ends(p)
    BY <1>I1 DEF Ends
  <2> QED
    BY <1>0, <2>1, <2>2 DEF SameTransaction, At
<1>I2. ASSUME NEW e \in Events, NEW c \in Claims, ResolveEvent(p, e, c) PROVE Goal
  <2>1. Update(p, [Idle EXCEPT !.pc = "ingest", !.event = e, !.claim = {c}])
    BY <1>I2 DEF ResolveEvent, Begin
  <2>2. txn'[p].pc = "ingest" /\ txn'[p].event = e /\ e \in stored
    <3>1. txn'[p] = [Idle EXCEPT !.pc = "ingest", !.event = e, !.claim = {c}]
      BY <2>1, UpdateFrame
    <3> QED
      BY <1>I2, <3>1 DEF ResolveEvent, Idle
  <2> QED
    BY <1>0, <1>I2, <2>1, <2>2, UpdateFrame DEF ResolveEvent, Moves, Quiet
<1>I3. CASE LockForIngest(p)
  <2>1. txn[p].event \in Events
    BY <1>I3 DEF LockForIngest, At, Working, TypeOK
  <2>2. LockRow(p, txn[p].event) /\ Goto(p, "claims") /\ Quiet /\ txn[p].pc = "ingest" /\ ~Merged(txn[p].event)
    BY <1>I3 DEF LockForIngest, At, Quiet
  <2> QED
    BY <2>1, <2>2, GotoFrame, LockRowFrame DEF Moves
<1>I4. CASE RefuseIngest(p)
  BY <1>2, <1>I4 DEF RefuseIngest, Quiet
<1>I5. CASE CommitIngest(p)
  BY <1>1, <1>I5 DEF CommitIngest, Ends
<1>M1. ASSUME NEW s \in Events, NEW t \in Events, NEW rev, StartMerge(p, s, t, rev),
              rev # NoReview => {rev[1], rev[2]} = {s, t}
       PROVE  Goal
  <2>1. Update(p, [Idle EXCEPT !.pc = "lock1", !.event = s, !.target = t, !.review = rev])
    BY <1>M1 DEF StartMerge, Begin
  <2>2. txn'[p].pc = "lock1" /\ txn'[p].event = s /\ txn'[p].target = t /\ txn'[p].review = rev
    <3>1. txn'[p] = [Idle EXCEPT !.pc = "lock1", !.event = s, !.target = t, !.review = rev]
      BY <2>1, UpdateFrame
    <3> QED
      BY <3>1 DEF Idle
  <2>3. s \in stored /\ t \in stored /\ s # t /\ Quiet /\ UNCHANGED lockVars
    BY <1>M1 DEF StartMerge, Quiet
  <2> QED
    BY <1>0, <1>M1, <2>1, <2>2, <2>3, UpdateFrame DEF Moves
<1>M2. ASSUME NEW pair \in Reviewable, StartReject(p, pair) PROVE Goal
  <2>1. Update(p, [Idle EXCEPT !.pc = "reject", !.review = pair])
    BY <1>M2 DEF StartReject, Begin
  <2>2. txn'[p].pc = "reject" /\ txn'[p].review = pair
    <3>1. txn'[p] = [Idle EXCEPT !.pc = "reject", !.review = pair]
      BY <2>1, UpdateFrame
    <3> QED
      BY <3>1 DEF Idle
  <2> QED
    BY <1>0, <1>M2, <2>1, <2>2, UpdateFrame DEF StartReject, Moves, Quiet
<1>M3. CASE RejectReview(p)
  BY <1>1, <1>M3 DEF RejectReview, Ends
<1>M4. CASE LockFirst(p)
  <2>1. FirstLock(p) \in Events
    BY <1>M4 DEF LockFirst, At, Working, Merging, TypeOK, FirstLock
  <2>2. LockRow(p, FirstLock(p)) /\ Goto(p, "lock2") /\ Quiet /\ txn[p].pc = "lock1"
    BY <1>M4 DEF LockFirst, At, Quiet
  <2> QED
    BY <2>1, <2>2, GotoFrame, LockRowFrame DEF Moves
<1>M5. CASE LockSecond(p)
  <2>1. SecondLock(p) \in Events
    BY <1>M5 DEF LockSecond, At, Working, Merging, TypeOK, SecondLock
  <2>2. /\ LockRow(p, SecondLock(p)) /\ Goto(p, "find") /\ Quiet /\ txn[p].pc = "lock2"
        /\ ~Merged(txn[p].event) /\ ~Merged(txn[p].target)
    BY <1>M5 DEF LockSecond, At, Quiet
  <2> QED
    BY <2>1, <2>2, GotoFrame, LockRowFrame DEF Moves
<1>M6. CASE RefuseMerge(p)
  BY <1>2, <1>M6 DEF RefuseMerge, Quiet
<1>M7. CASE FindProjection(p)
  <2> DEFINE l == IF projection[txn[p].event] = NoProjection THEN "merge" ELSE "delete"
  <2>1. /\ Update(p, [txn[p] EXCEPT !.pc = l, !.current = projection[txn[p].event]])
        /\ l \in {"delete", "merge"} /\ Quiet /\ UNCHANGED lockVars /\ txn[p].pc = "find"
    BY <1>M7 DEF FindProjection, At, Quiet
  <2> HIDE DEF l
  <2>2. /\ txn'[p].pc = l /\ txn'[p].event = txn[p].event /\ txn'[p].target = txn[p].target
        /\ txn'[p].review = txn[p].review
    <3>1. txn'[p] = [txn[p] EXCEPT !.pc = l, !.current = projection[txn[p].event]]
      BY <2>1, UpdateFrame
    <3> QED
      BY <3>1 DEF TypeOK, Transactions
  <2> QED
    BY <1>0, <2>1, <2>2, UpdateFrame DEF Moves
<1>M8. CASE DeleteProjection(p)
  <2>1. LockRead(p, txn[p].event) /\ Goto(p, "merge") /\ Quiet /\ txn[p].pc = "delete"
    BY <1>M8 DEF DeleteProjection, At, Quiet
  <2> QED
    BY <2>1, GotoFrame, LockReadFrame DEF Moves
<1>M9. CASE CommitMerge(p)
  BY <1>1, <1>M9 DEF CommitMerge, Ends
<1>R1. ASSUME NEW e \in Events, RequestReprojection(p, e) PROVE Goal
  <2>1. Update(p, [Idle EXCEPT !.pc = "enter", !.event = e])
    BY <1>R1 DEF RequestReprojection, Begin
  <2>2. txn'[p].pc = "enter" /\ txn'[p].event = e /\ txn'[p].row = NoRow
    <3>1. txn'[p] = [Idle EXCEPT !.pc = "enter", !.event = e]
      BY <2>1, UpdateFrame
    <3> QED
      BY <3>1 DEF Idle
  <2> QED
    BY <1>0, <1>R1, <2>1, <2>2, UpdateFrame DEF RequestReprojection, Moves, Quiet
<1>R2. ASSUME NEW r \in Rows, Deliver(p, r) PROVE Goal
  <2>1. outbox[r].status = "OPEN" /\ outbox[r].event \in Events /\ Quiet /\ UNCHANGED lockVars
    BY <1>R2 DEF Deliver, Working, Quiet, TypeOK
  <2>2. txn'[p].pc = "enter" /\ txn'[p].event = outbox[r].event /\ txn'[p].row = r
    BY <1>R2 DEF Deliver, Idle
  <2>3. ASSUME NEW q \in Processes \ {p} PROVE SameTransaction(q)
    <3>1. txn'[q] = [txn[q] EXCEPT !.leased = IF txn[q].row = r THEN FALSE ELSE @]
      BY <1>R2 DEF Deliver
    <3> QED
      BY <3>1 DEF SameTransaction, TypeOK, Transactions
  <2> QED
    BY <1>0, <2>1, <2>2, <2>3 DEF Moves
<1>R3. CASE LockForReprojection(p)
  <2>1. Goto(p, "event") /\ Quiet /\ txn[p].pc = "enter" /\ txn[p].event \in Events
    BY <1>R3 DEF LockForReprojection, At, Quiet, Working, Projecting
  <2>2. (\A q \in Processes : KeepsLocks(q)) /\ advisoryLock'[txn[p].event] = p
    BY <1>R3, <2>1, EventStoreAssumption DEF EventStoreAssumption, LockForReprojection, KeepsLocks, TypeOK
  <2> QED
    BY <2>1, <2>2, GotoFrame DEF Moves, Projecting
<1>R4. CASE ReadEvent(p)
  <2> DEFINE x == IF txn[p].event \in stored THEN mergedInto[txn[p].event] ELSE Missing
  <2>1. /\ Update(p, [txn[p] EXCEPT !.pc = "current", !.seen = x])
        /\ Quiet /\ UNCHANGED lockVars /\ txn[p].pc = "event"
    BY <1>R4 DEF ReadEvent, At, Quiet
  <2>2. x \in Events => Merged(txn[p].event)
    BY EventStoreAssumption DEF EventStoreAssumption, Merged
  <2> HIDE DEF x
  <2>3. /\ txn'[p].pc = "current" /\ txn'[p].event = txn[p].event /\ txn'[p].row = txn[p].row
        /\ txn'[p].seen = x
    <3>1. txn'[p] = [txn[p] EXCEPT !.pc = "current", !.seen = x]
      BY <2>1, UpdateFrame
    <3> QED
      BY <3>1 DEF TypeOK, Transactions
  <2> QED
    BY <1>0, <2>1, <2>2, <2>3, UpdateFrame DEF Moves, Projecting
<1>R5. CASE ReadCurrent(p)
  <2> DEFINE l == IF txn[p].seen \in Events THEN "write" ELSE "evidence"
             y == IF txn[p].seen \in Events THEN Tombstone(txn[p].seen) ELSE NoContent
  <2>1. /\ Update(p, [txn[p] EXCEPT !.pc = l, !.current = projection[txn[p].event], !.built = y])
        /\ Quiet /\ UNCHANGED lockVars /\ txn[p].pc = "current"
    BY <1>R5 DEF ReadCurrent, At, Quiet
  <2>2. (l = "write" /\ txn[p].seen \in Events) \/ l = "evidence"
    OBVIOUS
  <2> HIDE DEF l, y
  <2>3. /\ txn'[p].pc = l /\ txn'[p].event = txn[p].event /\ txn'[p].row = txn[p].row
        /\ txn'[p].seen = txn[p].seen /\ txn'[p].current = projection[txn[p].event]
    <3>1. txn'[p] = [txn[p] EXCEPT !.pc = l, !.current = projection[txn[p].event], !.built = y]
      BY <2>1, UpdateFrame
    <3> QED
      BY <3>1 DEF TypeOK, Transactions
  <2> QED
    BY <1>0, <2>1, <2>2, <2>3, UpdateFrame DEF Moves, Projecting
<1>R6. CASE ReadEvidence(p)
  <2>1. /\ Update(p, [txn[p] EXCEPT !.pc = "write", !.built = Build(claims[txn[p].event])])
        /\ Quiet /\ UNCHANGED lockVars /\ txn[p].pc = "evidence"
    BY <1>R6 DEF ReadEvidence, At, Quiet
  <2>2. /\ txn'[p].pc = "write" /\ txn'[p].event = txn[p].event /\ txn'[p].row = txn[p].row
        /\ txn'[p].seen = txn[p].seen /\ txn'[p].current = txn[p].current
        /\ txn'[p].built = Build(claims[txn[p].event])
    <3>1. txn'[p] = [txn[p] EXCEPT !.pc = "write", !.built = Build(claims[txn[p].event])]
      BY <2>1, UpdateFrame
    <3> QED
      BY <3>1 DEF TypeOK, Transactions
  <2> QED
    BY <1>0, <2>1, <2>2, UpdateFrame DEF Moves, Projecting
<1>R7. CASE EventNotFound(p)
  BY <1>2, <1>R7 DEF EventNotFound, Quiet
<1>R8. CASE SkipWrite(p)
  BY <1>1, <1>R8 DEF SkipWrite, Ends
<1>R9. CASE Upsert(p)
  <2>1. LockRead(p, txn[p].event) /\ Goto(p, "insert") /\ Quiet /\ txn[p].pc = "write"
    BY <1>R9 DEF Upsert, At, Quiet
  <2> QED
    BY <2>1, GotoFrame, LockReadFrame DEF Moves, Projecting
<1>R10. CASE CommitProjection(p)
  BY <1>1, <1>R10 DEF CommitProjection, Ends
<1>R11. CASE RefuseProjection(p)
  BY <1>2, <1>R11 DEF RefuseProjection, Quiet
<1>E. CASE Rollback(p)
  BY <1>2, <1>E DEF Rollback, Quiet
<1> HIDE DEF Goal
<1>I. CASE Ingest(p)
  BY <1>I, <1>I1, <1>I2, <1>I3, <1>I4, <1>I5 DEF Ingest
<1>M. CASE Merge(p)
  <2>1. ASSUME NEW s \in Events, NEW t \in Events, ConfirmReview(p, s, t) PROVE Goal
    BY <1>M1, <2>1 DEF ConfirmReview
  <2>2. ASSUME NEW s \in Events, NEW t \in Events, StartMerge(p, s, t, NoReview) PROVE Goal
    BY <1>M1, <2>2
  <2> QED
    BY <1>M, <2>1, <2>2, <1>M2, <1>M3, <1>M4, <1>M5, <1>M6, <1>M7, <1>M8, <1>M9 DEF Merge
<1>R. CASE Reproject(p)
  BY <1>R, <1>R1, <1>R2, <1>R3, <1>R4, <1>R5, <1>R6, <1>R7, <1>R8, <1>R9, <1>R10, <1>R11 DEF Reproject
<1> QED
  BY <1>I, <1>M, <1>R, <1>E DEF Step

LEMMA QueueFrame ==
    ASSUME TypeOK, NEW e, QueueProjection(e)
    PROVE  \E r \in Rows :
              /\ outbox[r].status = "ABSENT"
              /\ outbox'[r].status = "OPEN" /\ outbox'[r].event = e
              /\ \A x \in Rows \ {r} : outbox'[x] = outbox[x]
<1> PICK r \in Rows :
        /\ outbox[r].status = "ABSENT"
        /\ outbox' = [outbox EXCEPT ![r] = [status |-> "OPEN", event |-> e]]
  BY DEF QueueProjection
<1>1. outbox'[r] = [status |-> "OPEN", event |-> e] /\ \A x \in Rows \ {r} : outbox'[x] = outbox[x]
  BY DEF TypeOK
<1> QED
  BY <1>1

(* An acknowledgement closes the row of p and no other.                       *)
LEMMA AcknowledgeFrame ==
    ASSUME TypeOK, NEW p \in Processes, Acknowledge(p)
    PROVE  \A r \in Rows :
              /\ outbox'[r].event = outbox[r].event
              /\ r # txn[p].row => outbox'[r] = outbox[r]
              /\ outbox[r].status # "ABSENT" => outbox'[r].status # "ABSENT"
<1> TAKE r \in Rows
<1>1. CASE txn[p].row = NoRow
  BY <1>1 DEF Acknowledge
<1>2. CASE txn[p].row # NoRow
  <2>1. outbox' = [outbox EXCEPT ![txn[p].row].status = "PROCESSED"]
    BY <1>2 DEF Acknowledge
  <2>2. r = txn[p].row => outbox'[r] = [outbox[r] EXCEPT !.status = "PROCESSED"]
    BY <2>1 DEF TypeOK
  <2>3. r # txn[p].row => outbox'[r] = outbox[r]
    BY <2>1 DEF TypeOK
  <2> QED
    BY <2>2, <2>3 DEF TypeOK, OutboxRows
<1> QED
  BY <1>1, <1>2

(* What no step undoes.                                                       *)
LEMMA Monotone ==
    ASSUME TypeOK, Working, RowLocks, NEW p \in Processes, Step(p)
    PROVE  /\ stored \subseteq stored'
           /\ \A e \in Events :
                 mergedInto'[e] # mergedInto[e] =>
                    /\ txn[p].pc = "merge" /\ e = txn[p].event
                    /\ rowLock[e] = p /\ ~Merged(e)
           /\ \A r \in Rows : outbox[r].status # "ABSENT" =>
                 outbox'[r].status # "ABSENT" /\ outbox'[r].event = outbox[r].event
<1> DEFINE Goal == /\ stored \subseteq stored'
                   /\ \A e \in Events :
                         mergedInto'[e] # mergedInto[e] =>
                            /\ txn[p].pc = "merge" /\ e = txn[p].event
                            /\ rowLock[e] = p /\ ~Merged(e)
                   /\ \A r \in Rows : outbox[r].status # "ABSENT" =>
                         outbox'[r].status # "ABSENT" /\ outbox'[r].event = outbox[r].event
<1> SUFFICES Goal
  OBVIOUS
<1> USE DEF dataVars, readVars
<1>1. ASSUME NEW e, QueueProjection(e)
      PROVE  \A r \in Rows : outbox[r].status # "ABSENT" =>
                 outbox'[r].status # "ABSENT" /\ outbox'[r].event = outbox[r].event
  BY <1>1, QueueFrame
<1>2. CASE Quiet
  BY <1>2 DEF Quiet
<1>3. ASSUME NEW e \in Events, NEW c \in Claims, IngestNewEvent(p, e, c) PROVE Goal
  BY <1>1, <1>3 DEF IngestNewEvent
<1>4. CASE CommitIngest(p)
  BY <1>1, <1>4 DEF CommitIngest
<1>5. CASE RejectReview(p)
  BY <1>5 DEF RejectReview
<1>6. CASE CommitMerge(p)
  <2>1. \A r \in Rows : outbox[r].status # "ABSENT" =>
            outbox'[r].status # "ABSENT" /\ outbox'[r].event = outbox[r].event
    BY <1>1, <1>6 DEF CommitMerge
  <2>2. txn[p].pc = "merge" /\ rowLock[txn[p].event] = p /\ ~Merged(txn[p].event)
    BY <1>6 DEF CommitMerge, At, RowLocks
  <2>3. \A e \in Events \ {txn[p].event} : mergedInto'[e] = mergedInto[e]
    BY <1>6 DEF CommitMerge, TypeOK
  <2> QED
    BY <1>6, <2>1, <2>2, <2>3 DEF CommitMerge
<1>7. CASE SkipWrite(p)
  BY <1>7, AcknowledgeFrame DEF SkipWrite
<1>8. CASE CommitProjection(p)
  BY <1>8, AcknowledgeFrame DEF CommitProjection
<1> HIDE DEF Goal
<1> QED
  BY <1>2, <1>3, <1>4, <1>5, <1>6, <1>7, <1>8, StepCases DEF Ends

LEMMA StepWorking ==
    ASSUME TypeOK, Working, RowLocks, NEW p \in Processes, Step(p)
    PROVE  Working'
<1>1. ASSUME NEW r \in Rows, outbox'[r].status # "ABSENT" PROVE outbox'[r].event \in stored'
  <2>1. CASE outbox[r].status # "ABSENT"
    BY <2>1, Monotone DEF Working
  <2>2. CASE outbox[r].status = "ABSENT"
    <3>1. ASSUME NEW e \in stored', QueueProjection(e) PROVE outbox'[r].event \in stored'
      BY <1>1, <2>2, <3>1, QueueFrame
    <3>2. CASE Quiet
      BY <1>1, <2>2, <3>2 DEF Quiet
    <3>3. ASSUME NEW e \in Events, NEW c \in Claims, IngestNewEvent(p, e, c)
          PROVE  outbox'[r].event \in stored'
      BY <3>1, <3>3 DEF IngestNewEvent
    <3>4. CASE CommitIngest(p)
      BY <3>1, <3>4 DEF CommitIngest, At, Working
    <3>5. CASE RejectReview(p)
      BY <1>1, <2>2, <3>5 DEF RejectReview
    <3>6. CASE CommitMerge(p)
      BY <3>1, <3>6 DEF CommitMerge, At, Working, Merging
    <3>7. CASE SkipWrite(p) \/ CommitProjection(p)
      <4>1. txn[p].pc \in Projecting
        BY <3>7 DEF SkipWrite, CommitProjection, At, Projecting
      <4>2. txn[p].row # NoRow => outbox[txn[p].row].status # "ABSENT"
        BY <4>1 DEF Working
      <4>3. txn[p].row # r
        BY <2>2, <4>2, EventStoreAssumption DEF EventStoreAssumption
      <4> QED
        BY <1>1, <2>2, <3>7, <4>3, AcknowledgeFrame DEF SkipWrite, CommitProjection
    <3> QED
      BY <3>2, <3>3, <3>4, <3>5, <3>6, <3>7, StepCases DEF Ends
  <2> QED
    BY <2>1, <2>2
<1> DEFINE Works(q) ==
          /\ txn[q].pc \in {"ingest", "claims"} => txn[q].event \in stored
          /\ txn[q].pc \in Merging =>
                /\ txn[q].event \in stored /\ txn[q].target \in stored
                /\ txn[q].event # txn[q].target
                /\ txn[q].review # NoReview =>
                      {txn[q].review[1], txn[q].review[2]} = {txn[q].event, txn[q].target}
          /\ txn[q].pc \in Projecting =>
                /\ txn[q].event \in Events
                /\ txn[q].row # NoRow =>
                      /\ outbox[txn[q].row].status # "ABSENT"
                      /\ outbox[txn[q].row].event = txn[q].event
          /\ txn[q].pc = "reject" => txn[q].review \in Reviewable
<1>2. \A q \in Processes : Works(q)
  BY DEF Working
<1>3. \A q \in Processes : txn[q].row \in Rows \cup {NoRow}
  BY DEF TypeOK, Transactions
<1>4. ASSUME NEW q \in Processes \ {p} PROVE Works(q)'
  BY <1>2, <1>3, StepCases, Monotone DEF SameTransaction
<1>5. ASSUME txn'[p].pc = "idle" PROVE Works(p)'
  BY <1>5 DEF Merging, Projecting
<1>6. ASSUME Quiet, Moves(p) PROVE Works(p)'
  BY <1>2, <1>6 DEF Quiet, Moves, Merging, Projecting
<1>7. Works(p)'
  BY <1>5, <1>6, StepCases
<1> QED
  BY <1>1, <1>4, <1>7 DEF Working

LEMMA WorkEvents ==
    ASSUME TypeOK, Working, NEW q \in Processes
    PROVE  /\ txn[q].pc \in {"ingest", "claims"} \cup Merging \cup Projecting => txn[q].event \in Events
           /\ txn[q].pc \in Merging => txn[q].target \in Events
BY DEF TypeOK, Working

LEMMA StepRowLocks ==
    ASSUME TypeOK, Working, RowLocks, NEW p \in Processes, Step(p)
    PROVE  RowLocks'
<1> DEFINE Locks(q) ==
          /\ txn[q].pc = "claims" => rowLock[txn[q].event] = q /\ ~Merged(txn[q].event)
          /\ txn[q].pc = "lock2" => rowLock[FirstLock(q)] = q
          /\ txn[q].pc \in {"find", "delete", "merge"} =>
                /\ rowLock[txn[q].event] = q /\ ~Merged(txn[q].event)
                /\ rowLock[txn[q].target] = q /\ ~Merged(txn[q].target)
<1>1. \A q \in Processes : Locks(q)
  BY DEF RowLocks
<1>2. ASSUME NEW q \in Processes \ {p} PROVE Locks(q)'
  <2>1. SameTransaction(q) /\ KeepsLocks(q)
    BY StepCases
  <2>2. FirstLock(q)' = FirstLock(q)
    BY <2>1 DEF SameTransaction, FirstLock
  <2>3. txn[q].pc = "lock2" => FirstLock(q) \in Events
    BY WorkEvents DEF FirstLock, Merging
  <2>4. \A e \in Events : rowLock[e] = q => rowLock'[e] = q /\ mergedInto'[e] = mergedInto[e]
    BY <2>1, Monotone DEF KeepsLocks
  <2>5. txn[q].pc \in {"claims", "find", "delete", "merge"} => txn[q].event \in Events
    BY WorkEvents DEF Merging
  <2>6. txn[q].pc \in {"find", "delete", "merge"} => txn[q].target \in Events
    BY WorkEvents DEF Merging
  <2>7. (txn[q].pc = "lock2" => rowLock[FirstLock(q)] = q)'
    BY <1>1, <2>1, <2>2, <2>3, <2>4 DEF SameTransaction
  <2>8. (txn[q].pc = "claims" => rowLock[txn[q].event] = q /\ ~Merged(txn[q].event))'
    <3>1. txn[q].pc = "claims" =>
             rowLock'[txn[q].event] = q /\ mergedInto'[txn[q].event] = NoEvent
      BY <1>1, <2>4, <2>5 DEF Merged
    <3> QED
      BY <2>1, <3>1 DEF SameTransaction, Merged
  <2>9. (txn[q].pc \in {"find", "delete", "merge"} =>
                /\ rowLock[txn[q].event] = q /\ ~Merged(txn[q].event)
                /\ rowLock[txn[q].target] = q /\ ~Merged(txn[q].target))'
    BY <1>1, <2>1, <2>4, <2>5, <2>6 DEF SameTransaction, Merged
  <2> QED
    BY <2>7, <2>8, <2>9
<1>3. ASSUME txn'[p].pc = "idle" PROVE Locks(p)'
  BY <1>3
<1>4. ASSUME Quiet, Moves(p) PROVE Locks(p)'
  <2>1. mergedInto' = mergedInto
    BY <1>4 DEF Quiet
  <2>2. CASE txn'[p].pc \notin {"claims", "lock2", "find", "delete", "merge"}
    BY <2>2
  <2>3. CASE txn'[p].pc = "claims"
    BY <1>4, <2>1, <2>3 DEF Moves, Projecting, Merged
  <2>4. CASE txn'[p].pc = "lock2"
    <3>1. txn'[p].event = txn[p].event /\ txn'[p].target = txn[p].target /\ rowLock'[FirstLock(p)] = p
      BY <1>4, <2>4 DEF Moves, Projecting
    <3>2. FirstLock(p)' = FirstLock(p)
      BY <3>1 DEF FirstLock
    <3> QED
      BY <2>4, <3>1, <3>2
  <2>5. CASE txn'[p].pc \in {"find", "delete", "merge"}
    <3>1. /\ txn'[p].event = txn[p].event /\ txn'[p].target = txn[p].target /\ KeepsLocks(p)
          /\ txn[p].pc \in {"lock2", "find", "delete"}
          /\ txn[p].pc = "lock2" =>
                rowLock'[SecondLock(p)] = p /\ ~Merged(txn[p].event) /\ ~Merged(txn[p].target)
      BY <1>4, <2>5 DEF Moves, Projecting
    <3>2. txn[p].event \in Events /\ txn[p].target \in Events
      BY <3>1, WorkEvents DEF Merging
    <3>3. CASE txn[p].pc = "lock2"
      <4>1. rowLock'[FirstLock(p)] = p /\ rowLock'[SecondLock(p)] = p
        BY <1>1, <3>1, <3>2, <3>3 DEF KeepsLocks, FirstLock
      <4>2. rowLock'[txn[p].event] = p /\ rowLock'[txn[p].target] = p
        BY <4>1 DEF FirstLock, SecondLock
      <4> QED
        BY <2>1, <2>5, <3>1, <3>3, <4>2 DEF Merged
    <3>4. CASE txn[p].pc \in {"find", "delete"}
      BY <1>1, <2>1, <2>5, <3>1, <3>2, <3>4 DEF KeepsLocks, Merged
    <3> QED
      BY <3>1, <3>3, <3>4
  <2> QED
    BY <2>2, <2>3, <2>4, <2>5
<1>5. Locks(p)'
  BY <1>3, <1>4, StepCases
<1> QED
  BY <1>2, <1>5 DEF RowLocks

(* How a step of p changes the row locks.                                     *)
RowChange(p) ==
    LET t == txn[p]
        u == txn'[p]
    IN
    \/ rowLock' = Without(rowLock, p)
    \/ rowLock' = rowLock /\ t.pc \in {"idle"} \cup Projecting
    \/ /\ rowLock' = rowLock /\ t.pc \in {"find", "delete"} /\ u.pc \in {"delete", "merge"}
       /\ u.event = t.event /\ u.target = t.target
    \/ t.pc = "ingest" /\ u.pc = "claims" /\ LockRow(p, t.event) /\ u.event = t.event
    \/ t.pc = "lock1" /\ u.pc = "lock2" /\ LockRow(p, FirstLock(p)) /\ u.event = t.event /\ u.target = t.target
    \/ t.pc = "lock2" /\ u.pc = "find" /\ LockRow(p, SecondLock(p)) /\ u.event = t.event /\ u.target = t.target

LEMMA StepRowChange ==
    ASSUME TypeOK, NEW p \in Processes, Step(p)
    PROVE  RowChange(p)
<1> USE DEF lockVars, At
<1>1. ASSUME End(p) PROVE RowChange(p)
  BY <1>1 DEF End, RowChange
<1>2. ASSUME UNCHANGED rowLock, txn[p].pc \in {"idle"} \cup Projecting PROVE RowChange(p)
  BY <1>2 DEF RowChange
<1>I1. ASSUME NEW e \in Events, NEW c \in Claims, IngestNewEvent(p, e, c) \/ ResolveEvent(p, e, c)
       PROVE  RowChange(p)
  BY <1>2, <1>I1 DEF IngestNewEvent, ResolveEvent, Begin
<1>I2. CASE LockForIngest(p)
  BY <1>I2, GotoFrame DEF LockForIngest, RowChange
<1>I3. CASE RefuseIngest(p) \/ CommitIngest(p)
  BY <1>1, <1>I3 DEF RefuseIngest, CommitIngest
<1>M1. ASSUME NEW s \in Events, NEW t \in Events, NEW rev, StartMerge(p, s, t, rev) PROVE RowChange(p)
  BY <1>2, <1>M1 DEF StartMerge, Begin
<1>M2. ASSUME NEW pair \in Reviewable, StartReject(p, pair) PROVE RowChange(p)
  BY <1>2, <1>M2 DEF StartReject, Begin
<1>M3. CASE RejectReview(p) \/ RefuseMerge(p) \/ CommitMerge(p)
  BY <1>1, <1>M3 DEF RejectReview, RefuseMerge, CommitMerge
<1>M4. CASE LockFirst(p)
  BY <1>M4, GotoFrame DEF LockFirst, RowChange
<1>M5. CASE LockSecond(p)
  BY <1>M5, GotoFrame DEF LockSecond, RowChange
<1>M6. CASE FindProjection(p)
  <2> DEFINE l == IF projection[txn[p].event] = NoProjection THEN "merge" ELSE "delete"
  <2>1. /\ Update(p, [txn[p] EXCEPT !.pc = l, !.current = projection[txn[p].event]])
        /\ l \in {"delete", "merge"} /\ rowLock' = rowLock /\ txn[p].pc = "find"
    BY <1>M6 DEF FindProjection
  <2> HIDE DEF l
  <2>2. txn'[p].pc = l /\ txn'[p].event = txn[p].event /\ txn'[p].target = txn[p].target
    <3>1. txn'[p] = [txn[p] EXCEPT !.pc = l, !.current = projection[txn[p].event]]
      BY <2>1, UpdateFrame
    <3> QED
      BY <3>1 DEF TypeOK, Transactions
  <2> QED
    BY <2>1, <2>2 DEF RowChange
<1>M7. CASE DeleteProjection(p)
  BY <1>M7, GotoFrame DEF DeleteProjection, LockRead, RowChange
<1>R1. ASSUME NEW e \in Events, RequestReprojection(p, e) PROVE RowChange(p)
  BY <1>2, <1>R1 DEF RequestReprojection, Begin
<1>R2. ASSUME NEW r \in Rows, Deliver(p, r) PROVE RowChange(p)
  BY <1>2, <1>R2 DEF Deliver
<1>R3. CASE LockForReprojection(p) \/ ReadEvent(p) \/ ReadCurrent(p) \/ ReadEvidence(p) \/ Upsert(p)
  BY <1>2, <1>R3 DEF LockForReprojection, ReadEvent, ReadCurrent, ReadEvidence, Upsert, LockRead, Projecting
<1>R4. CASE EventNotFound(p) \/ SkipWrite(p) \/ CommitProjection(p) \/ RefuseProjection(p)
  BY <1>1, <1>R4 DEF EventNotFound, SkipWrite, CommitProjection, RefuseProjection
<1>E. CASE Rollback(p)
  BY <1>1, <1>E DEF Rollback
<1>I. CASE Ingest(p)
  BY <1>I, <1>I1, <1>I2, <1>I3 DEF Ingest
<1>M. CASE Merge(p)
  <2>1. ASSUME NEW s \in Events, NEW t \in Events, StartMerge(p, s, t, NoReview) \/ ConfirmReview(p, s, t)
        PROVE  RowChange(p)
    BY <1>M1, <2>1 DEF ConfirmReview
  <2> QED
    BY <1>M, <2>1, <1>M2, <1>M3, <1>M4, <1>M5, <1>M6, <1>M7 DEF Merge
<1>R. CASE Reproject(p)
  BY <1>R, <1>R1, <1>R2, <1>R3, <1>R4 DEF Reproject
<1> QED
  BY <1>I, <1>M, <1>R, <1>E DEF Step

LEMMA StepHeldRows ==
    ASSUME TypeOK, Working, HeldRows, NEW p \in Processes, Step(p)
    PROVE  HeldRows'
<1>0. RowChange(p)
  BY StepRowChange
<1>1. ASSUME NEW q \in Processes \ {p}, NEW e \in Events, rowLock'[e] = q PROVE Holding(q, e)'
  <2>1. rowLock[e] = q
    BY <1>0, <1>1, EventStoreAssumption DEF EventStoreAssumption, RowChange, Without, LockRow, TypeOK
  <2>2. SameTransaction(q)
    BY StepCases
  <2>3. FirstLock(q)' = FirstLock(q)
    BY <2>2 DEF SameTransaction, FirstLock
  <2> QED
    BY <2>1, <2>2, <2>3 DEF HeldRows, Holding, SameTransaction
<1>2. ASSUME NEW e \in Events, rowLock'[e] = p PROVE Holding(p, e)'
  <2>1. CASE rowLock' = Without(rowLock, p)
    BY <1>2, <2>1, EventStoreAssumption DEF EventStoreAssumption, Without
  <2>2. CASE rowLock' = rowLock /\ txn[p].pc \in {"idle"} \cup Projecting
    BY <1>2, <2>2 DEF HeldRows, Holding, Projecting
  <2>3. CASE /\ rowLock' = rowLock /\ txn[p].pc \in {"find", "delete"} /\ txn'[p].pc \in {"delete", "merge"}
             /\ txn'[p].event = txn[p].event /\ txn'[p].target = txn[p].target
    BY <1>2, <2>3 DEF HeldRows, Holding
  <2>4. CASE /\ txn[p].pc = "ingest" /\ txn'[p].pc = "claims" /\ LockRow(p, txn[p].event)
             /\ txn'[p].event = txn[p].event
    <3>1. rowLock[e] # p
      BY <2>4 DEF HeldRows, Holding
    <3> QED
      BY <1>2, <2>4, <3>1 DEF LockRow, TypeOK, Holding
  <2>5. CASE /\ txn[p].pc = "lock1" /\ txn'[p].pc = "lock2" /\ LockRow(p, FirstLock(p))
             /\ txn'[p].event = txn[p].event /\ txn'[p].target = txn[p].target
    <3>1. rowLock[e] # p
      BY <2>5 DEF HeldRows, Holding
    <3>2. FirstLock(p)' = FirstLock(p)
      BY <2>5 DEF FirstLock
    <3> QED
      BY <1>2, <2>5, <3>1, <3>2 DEF LockRow, TypeOK, Holding
  <2>6. CASE /\ txn[p].pc = "lock2" /\ txn'[p].pc = "find" /\ LockRow(p, SecondLock(p))
             /\ txn'[p].event = txn[p].event /\ txn'[p].target = txn[p].target
    <3>1. e = FirstLock(p) \/ e = SecondLock(p)
      BY <1>2, <2>6 DEF LockRow, TypeOK, HeldRows, Holding
    <3> QED
      BY <2>6, <3>1 DEF FirstLock, SecondLock, Holding
  <2> QED
    BY <1>0, <2>1, <2>2, <2>3, <2>4, <2>5, <2>6 DEF RowChange
<1> QED
  BY <1>1, <1>2 DEF HeldRows

LEMMA StepSerialized ==
    ASSUME TypeOK, Working, Serialized, NEW p \in Processes, Step(p)
    PROVE  Serialized'
<1>1. ASSUME NEW q \in Processes \ {p}, txn'[q].pc \in Projecting \ {"enter"}
      PROVE  advisoryLock'[txn'[q].event] = q
  <2>1. SameTransaction(q) /\ KeepsLocks(q)
    BY StepCases
  <2>2. txn[q].event \in Events
    BY <1>1, <2>1, WorkEvents DEF SameTransaction
  <2> QED
    BY <1>1, <2>1, <2>2 DEF Serialized, SameTransaction, KeepsLocks
<1>2. ASSUME txn'[p].pc \in Projecting \ {"enter"}
      PROVE  advisoryLock'[txn'[p].event] = p
  <2>1. Quiet /\ Moves(p)
    BY <1>2, StepCases DEF Projecting
  <2>2. /\ txn[p].pc \in Projecting /\ KeepsLocks(p) /\ txn'[p].event = txn[p].event
        /\ txn[p].pc = "enter" => advisoryLock'[txn[p].event] = p
    BY <1>2, <2>1 DEF Moves, Projecting
  <2>3. txn[p].event \in Events
    BY <2>2, WorkEvents
  <2> QED
    BY <2>2, <2>3 DEF Serialized, KeepsLocks
<1> QED
  BY <1>1, <1>2 DEF Serialized

LEMMA StepMergedStored ==
    ASSUME TypeOK, Working, RowLocks, MergedStored, NEW p \in Processes, Step(p)
    PROVE  MergedStored'
<1>1. ASSUME NEW e \in Events, mergedInto'[e] # mergedInto[e] PROVE e \in stored
  BY <1>1, Monotone DEF Working, Merging
<1> QED
  BY <1>1, Monotone DEF MergedStored, Merged

--------------------------------------------------------------------------------
(* Which step may change what, and what it leaves behind.                     *)

LEMMA ProjectionFrame ==
    ASSUME TypeOK, Working, NEW p \in Processes, Step(p), NEW e \in Events
    PROVE  /\ history[e] \subseteq history'[e]
           /\ projection'[e] # projection[e] \/ history'[e] # history[e] =>
                 /\ e = txn[p].event
                 /\ \/ CommitProjection(p)
                    \/ /\ CommitMerge(p) /\ history'[e] = history[e]
                       /\ projection'[e] = NoProjection /\ mergedInto'[e] # NoEvent
<1> DEFINE Goal ==
           /\ history[e] \subseteq history'[e]
           /\ projection'[e] # projection[e] \/ history'[e] # history[e] =>
                 /\ e = txn[p].event
                 /\ \/ CommitProjection(p)
                    \/ /\ CommitMerge(p) /\ history'[e] = history[e]
                       /\ projection'[e] = NoProjection /\ mergedInto'[e] # NoEvent
<1> SUFFICES Goal
  OBVIOUS
<1> USE DEF dataVars, readVars
<1>1. ASSUME projection' = projection, history' = history PROVE Goal
  BY <1>1
<1>2. CASE CommitProjection(p)
  <2>1. e # txn[p].event => projection'[e] = projection[e] /\ history'[e] = history[e]
    BY <1>2 DEF CommitProjection, TypeOK
  <2>2. history[e] \subseteq history'[e]
    BY <1>2 DEF CommitProjection, TypeOK
  <2> QED
    BY <1>2, <2>1, <2>2
<1>3. CASE CommitMerge(p)
  <2>1. txn[p].event \in Events /\ txn[p].target \in Events
    BY <1>3, WorkEvents DEF CommitMerge, At, Merging
  <2>2. history' = history /\ mergedInto'[txn[p].event] = txn[p].target
    BY <1>3, <2>1 DEF CommitMerge, TypeOK
  <2>3. projection'[e] # projection[e] => e = txn[p].event /\ projection'[e] = NoProjection
    BY <1>3, <2>1 DEF CommitMerge, TypeOK
  <2> QED
    BY <1>3, <2>1, <2>2, <2>3, EventStoreAssumption DEF EventStoreAssumption
<1> HIDE DEF Goal
<1>4. CASE Ends(p)
  BY <1>1, <1>2, <1>3, <1>4 DEF Ends, Quiet, IngestNewEvent, CommitIngest, RejectReview, SkipWrite
<1> QED
  BY <1>1, <1>4, StepCases DEF Quiet

(* Evidence that changes is promised by a new row, unless its event is absorbed. *)
LEMMA ClaimsFrame ==
    ASSUME TypeOK, Working, NEW p \in Processes, Step(p), NEW e \in Events,
           claims'[e] # claims[e] \/ (e \in stored' /\ e \notin stored)
    PROVE  \/ mergedInto'[e] # NoEvent
           \/ \E r \in Rows : /\ outbox[r].status = "ABSENT"
                              /\ outbox'[r].status = "OPEN" /\ outbox'[r].event = e
<1> DEFINE Goal ==
           \/ mergedInto'[e] # NoEvent
           \/ \E r \in Rows : /\ outbox[r].status = "ABSENT"
                              /\ outbox'[r].status = "OPEN" /\ outbox'[r].event = e
<1> SUFFICES Goal
  OBVIOUS
<1> USE DEF dataVars, readVars
<1>1. QueueProjection(e) => Goal
  BY QueueFrame
<1>2. ASSUME NEW d \in Events, NEW c \in Claims, IngestNewEvent(p, d, c) PROVE Goal
  <2>1. e # d => claims'[e] = claims[e] /\ (e \in stored' => e \in stored)
    BY <1>2 DEF IngestNewEvent, TypeOK
  <2> QED
    BY <1>1, <1>2, <2>1 DEF IngestNewEvent
<1>3. CASE CommitIngest(p)
  <2>1. e # txn[p].event => claims'[e] = claims[e] /\ stored' = stored
    BY <1>3 DEF CommitIngest, TypeOK
  <2> QED
    BY <1>1, <1>3, <2>1 DEF CommitIngest
<1>4. CASE CommitMerge(p)
  <2>1. txn[p].event \in Events /\ txn[p].target \in Events
    BY <1>4, WorkEvents DEF CommitMerge, At, Merging
  <2>2. mergedInto'[txn[p].event] # NoEvent
    BY <1>4, <2>1, EventStoreAssumption DEF EventStoreAssumption, CommitMerge, TypeOK
  <2>3. e \notin {txn[p].event, txn[p].target} => claims'[e] = claims[e]
    BY <1>4, <2>1 DEF CommitMerge, TypeOK
  <2>4. stored' = stored /\ QueueProjection(txn[p].target)
    BY <1>4 DEF CommitMerge
  <2> QED
    BY <1>1, <2>2, <2>3, <2>4
<1>5. claims' # claims \/ stored' # stored
  OBVIOUS
<1> HIDE DEF Goal
<1> QED
  BY <1>2, <1>3, <1>4, <1>5, StepCases DEF Ends, Quiet, RejectReview, SkipWrite, CommitProjection

(* An open row is closed only by the transaction that works on it.            *)
LEMMA PromiseFrame ==
    ASSUME TypeOK, Working, NEW p \in Processes, Step(p), NEW r \in Rows,
           outbox[r].status = "OPEN", outbox'[r] # outbox[r]
    PROVE  r = txn[p].row /\ (SkipWrite(p) \/ CommitProjection(p))
<1> DEFINE Goal == r = txn[p].row /\ (SkipWrite(p) \/ CommitProjection(p))
<1> SUFFICES Goal
  OBVIOUS
<1> USE DEF dataVars, readVars
<1>1. ASSUME NEW e, QueueProjection(e) PROVE Goal
  BY <1>1, QueueFrame
<1>2. CASE SkipWrite(p)
  BY <1>2, AcknowledgeFrame DEF SkipWrite
<1>3. CASE CommitProjection(p)
  BY <1>3, AcknowledgeFrame DEF CommitProjection
<1> HIDE DEF Goal
<1>4. CASE Ends(p)
  BY <1>1, <1>2, <1>3, <1>4 DEF Ends, Quiet, IngestNewEvent, CommitIngest, RejectReview, CommitMerge
<1> QED
  BY <1>4, StepCases DEF Quiet

LEMMA StepReads ==
    ASSUME TypeOK, Working, RowLocks, Serialized, Reads, HistoryDense, NEW p \in Processes, Step(p)
    PROVE  Reads'
<1>0. \A e \in Events : Merged(e) => mergedInto'[e] # NoEvent
  BY Monotone DEF Merged
<1>1. ASSUME NEW q \in Processes \ {p} PROVE (StillCurrent(q) /\ SeenMerged(q) /\ BuiltOrPromised(q))'
  <2> DEFINE e == txn[q].event
  <2>1. SameTransaction(q)
    BY StepCases
  <2>2. txn[q].pc \in Projecting => e \in Events
    BY WorkEvents
  <2>3. SeenMerged(q)'
    BY <1>0, <2>1, <2>2 DEF Reads, SeenMerged, SameTransaction, Projecting, Merged
  <2>4. txn[q].pc \in {"evidence", "write", "insert"} /\ txn[p].pc \in {"write", "insert"} =>
           e # txn[p].event
    BY DEF Serialized, Projecting
  <2>5. StillCurrent(q)'
    <3> SUFFICES ASSUME txn[q].pc \in {"evidence", "write", "insert"}
                 PROVE  /\ mergedInto'[e] = NoEvent => txn[q].current = projection'[e]
                        /\ txn[q].current = NoProjection \/ txn[q].current \in history'[e]
      BY <2>1 DEF StillCurrent, SameTransaction, Merged
    <3>1. e \in Events /\ (CommitProjection(p) => e # txn[p].event)
      BY <2>2, <2>4 DEF Projecting, CommitProjection, At
    <3>2. history[e] \subseteq history'[e] /\ (projection'[e] # projection[e] => mergedInto'[e] # NoEvent)
      BY <3>1, ProjectionFrame DEF Merged
    <3> QED
      BY <1>0, <3>1, <3>2 DEF Reads, StillCurrent
  <2>6. BuiltOrPromised(q)'
    <3> SUFFICES ASSUME txn[q].pc \in {"write", "insert"}, mergedInto'[e] = NoEvent
                 PROVE  \/ txn[q].built = Build(claims'[e])
                        \/ \E r \in Rows : r # txn[q].row /\ outbox'[r].status = "OPEN" /\ outbox'[r].event = e
      BY <2>1 DEF BuiltOrPromised, OthersPromise, SameTransaction, Merged, Build
    <3>1. e \in Events /\ ~Merged(e)
      BY <1>0, <2>2 DEF Projecting
    <3>2. CASE claims'[e] # claims[e]
      <4>1. PICK r \in Rows : /\ outbox[r].status = "ABSENT"
                              /\ outbox'[r].status = "OPEN" /\ outbox'[r].event = e
        BY <3>1, <3>2, ClaimsFrame DEF Merged
      <4>2. r # txn[q].row
        <5>1. txn[q].row # NoRow => outbox[txn[q].row].status # "ABSENT"
          BY DEF Working, Projecting
        <5> QED
          BY <4>1, <5>1, EventStoreAssumption DEF EventStoreAssumption
      <4> QED
        BY <4>1, <4>2
    <3>3. CASE claims'[e] = claims[e] /\ OthersPromise(q)
      <4>1. PICK r \in Rows : r # txn[q].row /\ outbox[r].status = "OPEN" /\ outbox[r].event = e
        BY <3>3 DEF OthersPromise
      <4>2. outbox'[r] = outbox[r]
        <5> SUFFICES ASSUME outbox'[r] # outbox[r] PROVE FALSE
          OBVIOUS
        <5>1. r = txn[p].row /\ (SkipWrite(p) \/ CommitProjection(p))
          BY <4>1, PromiseFrame
        <5>2. txn[p].pc \in {"write", "insert"}
          BY <5>1 DEF SkipWrite, CommitProjection, At
        <5>3. txn[p].row # NoRow
          BY <5>1, EventStoreAssumption DEF EventStoreAssumption
        <5>4. txn[p].event = e
          BY <4>1, <5>1, <5>2, <5>3 DEF Working, Projecting
        <5> QED
          BY <2>4, <5>2, <5>4
      <4> QED
        BY <4>1, <4>2
    <3>4. CASE claims'[e] = claims[e] /\ ~OthersPromise(q)
      BY <3>1, <3>4 DEF Reads, BuiltOrPromised
    <3> QED
      BY <3>2, <3>3, <3>4
  <2> QED
    BY <2>3, <2>5, <2>6
<1>2. ASSUME txn'[p].pc = "idle" PROVE (StillCurrent(p) /\ SeenMerged(p) /\ BuiltOrPromised(p))'
  BY <1>2 DEF StillCurrent, SeenMerged, BuiltOrPromised
<1>3. ASSUME Quiet, Moves(p) PROVE (StillCurrent(p) /\ SeenMerged(p) /\ BuiltOrPromised(p))'
  <2> DEFINE e == txn[p].event
  <2>1. CASE txn'[p].pc \notin {"current", "evidence", "write", "insert"}
    BY <2>1 DEF StillCurrent, SeenMerged, BuiltOrPromised
  <2>2. CASE txn'[p].pc \in {"current", "evidence", "write", "insert"}
    <3>1. /\ txn[p].pc \in {"event", "current", "evidence", "write"}
          /\ txn'[p].event = e /\ txn'[p].row = txn[p].row
      BY <1>3, <2>2 DEF Moves, Projecting
    <3>2. e \in Events
      BY <3>1, WorkEvents DEF Projecting
    <3>3. SeenMerged(p)'
      BY <1>3, <2>2, <3>1 DEF Moves, Projecting, Quiet, Reads, SeenMerged, Merged
    <3>4. StillCurrent(p)'
      <4>1. projection[e] = NoProjection \/ projection[e] \in history[e]
        BY <3>2 DEF HistoryDense
      <4>2. CASE txn'[p].pc = "current"
        BY <4>2 DEF StillCurrent
      <4>3. CASE txn[p].pc = "current"
        <5>1. txn'[p].current = projection[e]
          BY <1>3, <2>2, <4>3 DEF Moves, Projecting
        <5> QED
          BY <1>3, <3>1, <4>1, <5>1 DEF StillCurrent, Quiet
      <4>4. CASE txn[p].pc \in {"evidence", "write"}
        <5>1. txn'[p].current = txn[p].current
          BY <1>3, <2>2, <4>4 DEF Moves, Projecting
        <5>2. StillCurrent(p)
          BY DEF Reads
        <5> QED
          BY <1>3, <3>1, <4>4, <5>1, <5>2 DEF StillCurrent, Quiet, Merged
      <4> QED
        BY <1>3, <2>2, <3>1, <4>2, <4>3, <4>4 DEF Moves, Projecting
    <3>5. BuiltOrPromised(p)'
      <4>1. CASE txn'[p].pc \in {"current", "evidence"}
        BY <4>1 DEF BuiltOrPromised
      <4>2. CASE txn'[p].pc = "write" /\ txn[p].pc = "current"
        <5>1. txn[p].seen \in Events
          BY <1>3, <4>2 DEF Moves, Projecting
        <5>2. Merged(e)
          BY <4>2, <5>1 DEF Reads, SeenMerged
        <5> QED
          BY <1>3, <3>1, <5>2 DEF BuiltOrPromised, Quiet, Merged
      <4>3. CASE txn'[p].pc = "write" /\ txn[p].pc = "evidence"
        <5>1. txn'[p].built = Build(claims[e]) /\ claims' = claims
          BY <1>3, <4>3 DEF Moves, Projecting, Quiet
        <5> QED
          BY <3>1, <5>1 DEF BuiltOrPromised, Build
      <4>4. CASE txn'[p].pc = "insert"
        <5>1. txn'[p].built = txn[p].built /\ txn[p].pc = "write"
          BY <1>3, <4>4 DEF Moves, Projecting
        <5>2. BuiltOrPromised(p)
          BY DEF Reads
        <5> QED
          BY <1>3, <3>1, <5>1, <5>2 DEF BuiltOrPromised, OthersPromise, Quiet, Merged, Build
      <4> QED
        BY <1>3, <2>2, <4>1, <4>2, <4>3, <4>4 DEF Moves, Projecting
    <3> QED
      BY <3>3, <3>4, <3>5
  <2> QED
    BY <2>1, <2>2
<1>4. (StillCurrent(p) /\ SeenMerged(p) /\ BuiltOrPromised(p))'
  BY <1>2, <1>3, StepCases
<1> QED
  BY <1>1, <1>4 DEF Reads

--------------------------------------------------------------------------------
(* The properties, step by step.                                              *)

(* A closed set would have to hold the target, which points nowhere.          *)
LEMMA StepForest ==
    ASSUME TypeOK, Working, RowLocks, MergeForest, NEW p \in Processes, Step(p)
    PROVE  MergeForest'
<1> SUFFICES ASSUME NEW S \in SUBSET Events, S # {}, \A e \in S : mergedInto'[e] \in S
             PROVE  FALSE
  BY DEF MergeForest
<1>1. PICK d \in S : mergedInto[d] \notin S
  BY DEF MergeForest
<1>2. mergedInto' # mergedInto
  BY <1>1
<1>3. CommitMerge(p)
  BY <1>2, StepCases
  DEF Ends, Quiet, IngestNewEvent, CommitIngest, RejectReview, SkipWrite, CommitProjection, dataVars
<1>4. /\ txn[p].event \in Events /\ txn[p].target \in Events /\ txn[p].event # txn[p].target
      /\ ~Merged(txn[p].target)
  BY <1>3, WorkEvents DEF CommitMerge, At, Merging, Working, RowLocks
<1>5. mergedInto'[txn[p].event] = txn[p].target /\ mergedInto'[txn[p].target] = NoEvent
  BY <1>3, <1>4 DEF CommitMerge, TypeOK, Merged
<1>6. txn[p].event \in S
  BY <1>1, <1>3 DEF CommitMerge, TypeOK
<1> QED
  BY <1>5, <1>6, EventStoreAssumption DEF EventStoreAssumption

(* Claims are written to events whose row is held and not merged.             *)
LEMMA StepStranded ==
    ASSUME TypeOK, Working, RowLocks, MergedStored, NoStrandedClaims, NEW p \in Processes, Step(p)
    PROVE  NoStrandedClaims'
<1> SUFFICES ASSUME NEW e \in Events, mergedInto'[e] # NoEvent PROVE claims'[e] = {}
  BY DEF NoStrandedClaims, Merged
<1>1. mergedInto' = mergedInto => claims[e] = {}
  BY DEF NoStrandedClaims, Merged
<1> USE DEF dataVars
<1>2. CASE claims' = claims /\ mergedInto' = mergedInto
  BY <1>1, <1>2
<1>3. ASSUME NEW d \in Events, NEW c \in Claims, IngestNewEvent(p, d, c) PROVE claims'[e] = {}
  <2>1. e # d
    BY <1>3 DEF IngestNewEvent, MergedStored, Merged
  <2> QED
    BY <1>1, <1>3, <2>1 DEF IngestNewEvent, TypeOK
<1>4. CASE CommitIngest(p)
  <2>1. e # txn[p].event
    BY <1>4 DEF CommitIngest, At, RowLocks, Merged
  <2> QED
    BY <1>1, <1>4, <2>1 DEF CommitIngest, TypeOK
<1>5. CASE CommitMerge(p)
  <2>1. /\ txn[p].event \in Events /\ txn[p].target \in Events /\ txn[p].event # txn[p].target
        /\ ~Merged(txn[p].target)
    BY <1>5, WorkEvents DEF CommitMerge, At, Merging, Working, RowLocks
  <2>2. e # txn[p].event => mergedInto'[e] = mergedInto[e]
    BY <1>5 DEF CommitMerge, TypeOK
  <2>3. e # txn[p].target
    BY <2>1, <2>2 DEF Merged
  <2>4. claims' = [claims EXCEPT ![txn[p].target] = @ \cup claims[txn[p].event], ![txn[p].event] = {}]
    BY <1>5 DEF CommitMerge
  <2>5. e = txn[p].event => claims'[e] = {}
    BY <2>1, <2>4 DEF TypeOK
  <2>6. e # txn[p].event => claims'[e] = claims[e]
    BY <2>3, <2>4 DEF TypeOK
  <2> QED
    BY <2>2, <2>5, <2>6 DEF NoStrandedClaims, Merged
<1> QED
  BY <1>2, <1>3, <1>4, <1>5, StepCases DEF Ends, Quiet, RejectReview, SkipWrite, CommitProjection

(* A row is closed by a reprojection whose result is the evidence, or another *)
(* row is open for the same event.                                            *)
LEMMA StepFresh ==
    ASSUME TypeOK, Working, RowLocks, Serialized, Reads, Freshness, NEW p \in Processes, Step(p)
    PROVE  Freshness'
<1> SUFFICES ASSUME NEW e \in Events, e \in stored', mergedInto'[e] = NoEvent
             PROVE  (Shows(e) \/ Promised(e))'
  BY StepType DEF Freshness, Merged, TypeOK, Step, Next
<1>1. CASE claims'[e] # claims[e] \/ e \notin stored
  BY <1>1, ClaimsFrame DEF Promised
<1>2. ASSUME claims'[e] = claims[e], e \in stored PROVE (Shows(e) \/ Promised(e))'
  <2>1. ~Merged(e)
    BY Monotone DEF Merged
  <2>2. Shows(e) \/ Promised(e)
    BY <1>2, <2>1 DEF Freshness
  <2>3. CASE txn[p].event = e /\ (SkipWrite(p) \/ CommitProjection(p))
    <3>1. txn[p].pc \in {"write", "insert"}
      BY <2>3 DEF SkipWrite, CommitProjection, At
    <3>2. txn[p].built = Build(claims[e]) \/ OthersPromise(p)
      BY <2>1, <2>3, <3>1 DEF Reads, BuiltOrPromised
    <3>3. CASE OthersPromise(p)
      <4>1. PICK r \in Rows : r # txn[p].row /\ outbox[r].status = "OPEN" /\ outbox[r].event = e
        BY <2>3, <3>3 DEF OthersPromise
      <4>2. outbox'[r] = outbox[r]
        BY <4>1, PromiseFrame
      <4> QED
        BY <4>1, <4>2 DEF Promised
    <3>4. CASE txn[p].built = Build(claims[e]) /\ SkipWrite(p)
      <4>1. txn[p].current = projection[e]
        BY <2>1, <2>3, <3>1 DEF Reads, StillCurrent
      <4>2. Shows(e) /\ projection' = projection
        BY <3>4, <4>1 DEF SkipWrite, Unchanged, Shows, readVars
      <4> QED
        BY <1>2, <4>2 DEF Shows, Build
    <3>5. CASE txn[p].built = Build(claims[e]) /\ CommitProjection(p)
      <4>1. projection'[e] = [version |-> NextVersion(p), content |-> Build(claims[e])]
        BY <2>3, <3>5 DEF CommitProjection, TypeOK
      <4>2. NextVersion(p) # 0
        BY DEF NextVersion, TypeOK, Transactions, Projections
      <4>3. projection'[e].version # 0 /\ projection'[e].content = Build(claims[e])
        BY <4>1, <4>2
      <4>4. NoProjection.version = 0
        BY DEF NoProjection
      <4> QED
        BY <1>2, <4>3, <4>4 DEF Shows, Build, NoProjection, NoContent
    <3> QED
      BY <2>3, <3>2, <3>3, <3>4, <3>5
  <2>4. CASE ~(txn[p].event = e /\ (SkipWrite(p) \/ CommitProjection(p)))
    <3>1. Shows(e) => Shows(e)'
      <4>1. projection'[e] = projection[e]
        BY <2>4, ProjectionFrame
      <4> QED
        BY <1>2, <4>1 DEF Shows, Build, NoProjection, NoContent
    <3>2. ASSUME Promised(e) PROVE Promised(e)'
      <4>1. PICK r \in Rows : outbox[r].status = "OPEN" /\ outbox[r].event = e
        BY <3>2 DEF Promised
      <4>2. r = txn[p].row /\ txn[p].pc \in {"write", "insert"} => txn[p].event = e
        BY <4>1, EventStoreAssumption DEF EventStoreAssumption, Working, Projecting
      <4>3. outbox'[r] = outbox[r]
        BY <2>4, <4>1, <4>2, PromiseFrame DEF SkipWrite, CommitProjection, At
      <4> QED
        BY <4>1, <4>3 DEF Promised
    <3> QED
      BY <2>2, <3>1, <3>2
  <2> QED
    BY <2>3, <2>4
<1> QED
  BY <1>1, <1>2 DEF Merged

(* The new version follows a row of the history, and the index refuses a      *)
(* version that is taken.                                                     *)
LEMMA StepHistory ==
    ASSUME TypeOK, Working, RowLocks, Serialized, Reads, HistoryDense, NEW p \in Processes, Step(p)
    PROVE  HistoryDense'
<1> SUFFICES ASSUME NEW e \in Events
             PROVE  (/\ Gapless(e) /\ OnePerVersion(e)
                     /\ ~Merged(e) => Newest(e)
                     /\ projection[e] # NoProjection => projection[e] \in history[e])'
  BY DEF HistoryDense
<1>0. /\ Gapless(e) /\ OnePerVersion(e)
      /\ ~Merged(e) => Newest(e)
      /\ projection[e] # NoProjection => projection[e] \in history[e]
  BY DEF HistoryDense
<1>1. ~Merged(e)' => ~Merged(e)
  BY Monotone DEF Merged
<1>2. CASE projection'[e] = projection[e] /\ history'[e] = history[e]
  BY <1>0, <1>1, <1>2 DEF Gapless, OnePerVersion, Newest, NoProjection, NoContent
<1>3. CASE history'[e] = history[e] /\ projection'[e] = NoProjection /\ mergedInto'[e] # NoEvent
  BY <1>0, <1>3 DEF Gapless, OnePerVersion, Merged, NoProjection, NoContent
<1>4. CASE CommitProjection(p) /\ e = txn[p].event
  <2> DEFINE new == [version |-> NextVersion(p), content |-> txn[p].built]
  <2>1. projection'[e] = new /\ history'[e] = history[e] \cup {new}
    BY <1>4 DEF CommitProjection, TypeOK
  <2>2. \A h \in history[e] : h.version # new.version /\ h.version \in Nat
    BY <1>4 DEF CommitProjection, VersionFree, TypeOK, Versions
  <2>3. txn[p].current \in Projections /\ new.version = txn[p].current.version + 1
    BY DEF TypeOK, Transactions, NextVersion
  <2>4. txn[p].current.version \in Nat
    BY <2>3 DEF Projections
  <2>5. txn[p].pc = "insert" /\ StillCurrent(p)
    BY <1>4 DEF CommitProjection, At, Reads
  <2>6. txn[p].current = NoProjection \/ txn[p].current \in history[e]
    BY <1>4, <2>5 DEF StillCurrent
  <2> HIDE DEF new
  <2>7. new.version = 1 \/ \E g \in history[e] : new.version = g.version + 1
    BY <2>3, <2>6 DEF NoProjection
  <2>8. Gapless(e)'
    BY <1>0, <2>1, <2>7 DEF Gapless
  <2>9. OnePerVersion(e)'
    BY <1>0, <2>1, <2>2 DEF OnePerVersion
  <2>10. ~Merged(e)' => Newest(e)'
    <3> SUFFICES ASSUME ~Merged(e) PROVE \A h \in history'[e] : h.version <= projection'[e].version
      BY <1>1 DEF Newest
    <3>1. txn[p].current = projection[e]
      BY <1>4, <2>5 DEF StillCurrent
    <3> QED
      BY <1>0, <2>1, <2>2, <2>3, <2>4, <3>1 DEF Newest
  <2> QED
    BY <2>1, <2>8, <2>9, <2>10
<1> QED
  BY <1>2, <1>3, <1>4, ProjectionFrame

(* A merge closes the review of its own pair, and no merge is undone.         *)
LEMMA StepReviews ==
    ASSUME TypeOK, Working, RowLocks, MergedReviewsHold, NEW p \in Processes, Step(p)
    PROVE  MergedReviewsHold'
<1> SUFFICES ASSUME NEW pair \in Reviewable, review'[pair] = "MERGED"
             PROVE  mergedInto'[pair[1]] = pair[2] \/ mergedInto'[pair[2]] = pair[1]
  BY DEF MergedReviewsHold
<1>0. pair[1] \in Events /\ pair[2] \in Events
  BY EventStoreAssumption DEF EventStoreAssumption
<1>1. CASE review[pair] = "MERGED"
  <2>1. mergedInto[pair[1]] = pair[2] \/ mergedInto[pair[2]] = pair[1]
    BY <1>1 DEF MergedReviewsHold
  <2>2. \A e, d \in Events : mergedInto[e] = d => mergedInto'[e] = d
    <3>1. \A e \in Events : mergedInto[e] # NoEvent => mergedInto'[e] = mergedInto[e]
      BY Monotone DEF Merged
    <3> QED
      BY <3>1, EventStoreAssumption DEF EventStoreAssumption
  <2> QED
    BY <1>0, <2>1, <2>2
<1>2. CASE review[pair] # "MERGED"
  <2>1. CommitMerge(p) /\ pair \in ClosedReviews(p)
    <3>1. CommitMerge(p)
      <4>1. ASSUME NEW e \in Events, NEW c \in Claims, IngestNewEvent(p, e, c) PROVE FALSE
        BY <1>2, <4>1 DEF IngestNewEvent
      <4>2. CASE RejectReview(p)
        BY <1>2, <4>2 DEF RejectReview, TypeOK
      <4> QED
        BY <1>2, <4>1, <4>2, StepCases DEF Ends, Quiet, CommitIngest, SkipWrite, CommitProjection
    <3> QED
      BY <1>2, <3>1 DEF CommitMerge
  <2>2. txn[p].pc = "merge" /\ txn[p].event \in Events
    BY <2>1, WorkEvents DEF CommitMerge, At, Merging
  <2>3. mergedInto'[txn[p].event] = txn[p].target
    BY <2>1, <2>2 DEF CommitMerge, TypeOK
  <2>4. {pair[1], pair[2]} = {txn[p].event, txn[p].target}
    BY <2>1, <2>2 DEF ClosedReviews, Working, Merging
  <2> QED
    BY <2>3, <2>4
<1> QED
  BY <1>1, <1>2

--------------------------------------------------------------------------------
(* The inductive invariant.                                                   *)

LEMMA InitIInv == Init => IInv
<1> SUFFICES ASSUME Init PROVE IInv
  OBVIOUS
<1>1. TypeOK
  BY InitType
<1>2. \A p \in Processes : txn[p].pc = "idle"
  BY DEF Init, Idle
<1>3. \A e \in Events : ~Merged(e)
  BY DEF Init, Merged
<1>4. \A r \in Rows : outbox[r].status = "ABSENT"
  BY DEF Init
<1>5. Working
  BY <1>2, <1>4 DEF Working, Merging, Projecting
<1>6. RowLocks /\ HeldRows
  BY <1>2, EventStoreAssumption DEF EventStoreAssumption, Init, RowLocks, HeldRows
<1>7. Serialized
  BY <1>2 DEF Serialized, Projecting
<1>8. Reads
  BY <1>2 DEF Reads, StillCurrent, SeenMerged, BuiltOrPromised
<1>9. MergedStored /\ NoStrandedClaims
  BY <1>3 DEF MergedStored, NoStrandedClaims
<1>10. MergeForest
  <2> SUFFICES ASSUME NEW S \in SUBSET Events, S # {} PROVE \E e \in S : mergedInto[e] \notin S
    BY DEF MergeForest
  <2>1. PICK e \in S : TRUE
    OBVIOUS
  <2>2. mergedInto[e] = NoEvent
    BY <1>3 DEF Merged
  <2> QED
    BY <2>1, <2>2, EventStoreAssumption DEF EventStoreAssumption
<1>11. \A e \in stored : projection[e] = [version |-> 1, content |-> Build(claims[e])]
  BY DEF Init
<1>12. Freshness
  <2> SUFFICES ASSUME NEW e \in stored PROVE Shows(e)
    BY DEF Freshness
  <2>1. projection[e].version = 1 /\ projection[e].content = Build(claims[e])
    <3>1. projection[e] = [version |-> 1, content |-> Build(claims[e])]
      BY <1>11
    <3> QED
      BY <3>1
  <2>2. NoProjection.version = 0
    BY DEF NoProjection
  <2> QED
    BY <2>1, <2>2 DEF Shows, NoProjection, NoContent
<1>13. HistoryDense
  <2> SUFFICES ASSUME NEW e \in Events
               PROVE  /\ Gapless(e) /\ OnePerVersion(e) /\ Newest(e)
                      /\ projection[e] # NoProjection => projection[e] \in history[e]
    BY DEF HistoryDense
  <2>1. CASE e \in stored
    <3>1. history[e] = {projection[e]} /\ projection[e].version = 1
      BY <2>1, <1>11 DEF Init
    <3> QED
      BY <3>1 DEF Gapless, OnePerVersion, Newest
  <2>2. CASE e \notin stored
    BY <2>2 DEF Init, Gapless, OnePerVersion, Newest
  <2> QED
    BY <2>1, <2>2
<1>14. MergedReviewsHold
  BY DEF Init, MergedReviewsHold
<1> QED
  BY <1>1, <1>5, <1>6, <1>7, <1>8, <1>9, <1>10, <1>12, <1>13, <1>14 DEF IInv

LEMMA Stutter ==
    ASSUME IInv, UNCHANGED vars
    PROVE  IInv'
<1> USE DEF vars, dataVars, readVars, lockVars
<1>1. TypeOK'
  BY DEF IInv, TypeOK
<1>2. Working'
  BY DEF IInv, Working
<1>3. RowLocks' /\ HeldRows'
  BY DEF IInv, RowLocks, HeldRows, Holding, Merged, FirstLock
<1>4. Serialized'
  BY DEF IInv, Serialized
<1>5. Reads'
  BY DEF IInv, Reads, StillCurrent, SeenMerged, BuiltOrPromised, OthersPromise, Merged
<1>6. (MergedStored /\ MergeForest /\ NoStrandedClaims)'
  BY DEF IInv, MergedStored, MergeForest, NoStrandedClaims, Merged
<1>7. Freshness'
  BY DEF IInv, Freshness, Shows, Promised, Merged
<1>8. HistoryDense'
  BY DEF IInv, HistoryDense, Gapless, OnePerVersion, Newest, Merged
<1>9. MergedReviewsHold'
  BY DEF IInv, MergedReviewsHold
<1> QED
  BY <1>1, <1>2, <1>3, <1>4, <1>5, <1>6, <1>7, <1>8, <1>9 DEF IInv

LEMMA Inductive == IInv /\ [Next]_vars => IInv'
<1> SUFFICES ASSUME IInv, [Next]_vars PROVE IInv'
  OBVIOUS
<1>1. CASE UNCHANGED vars
  BY <1>1, Stutter
<1>2. ASSUME NEW p \in Processes, Step(p) PROVE IInv'
  <2>1. TypeOK'
    BY StepType DEF IInv
  <2>2. (Working /\ RowLocks /\ HeldRows /\ Serialized)'
    BY <1>2, StepWorking, StepRowLocks, StepHeldRows, StepSerialized DEF IInv
  <2>3. (Reads /\ MergedStored)'
    BY <1>2, StepReads, StepMergedStored DEF IInv
  <2>4. (MergeForest /\ NoStrandedClaims /\ Freshness)'
    BY <1>2, StepForest, StepStranded, StepFresh DEF IInv
  <2>5. (HistoryDense /\ MergedReviewsHold)'
    BY <1>2, StepHistory, StepReviews DEF IInv
  <2> QED
    BY <2>1, <2>2, <2>3, <2>4, <2>5 DEF IInv
<1> QED
  BY <1>1, <1>2 DEF Next, Step

LEMMA Invariance == Spec => []IInv
BY InitIInv, Inductive, PTL DEF Spec

(* Type correctness of events, claims, projections, outbox, reviews, locks    *)
(* and transactions.                                                          *)
THEOREM TypeCorrect == Spec => []TypeOK
<1>1. IInv => TypeOK
  BY DEF IInv
<1> QED
  BY <1>1, Invariance, PTL

(* MergeDuplicateEvents, with both rows locked in order and read again, never *)
(* closes a chain of merged_into_event_id, for any number of merges at once.  *)
THEOREM Forest == Spec => []MergeForest
<1>1. IInv => MergeForest
  BY DEF IInv
<1> QED
  BY <1>1, Invariance, PTL

(* IngestSourceData never writes a claim to an event that a merge absorbed    *)
(* after the resolver chose it.                                               *)
THEOREM ClaimsFollow == Spec => []NoStrandedClaims
<1>1. IInv => NoStrandedClaims
  BY DEF IInv
<1> QED
  BY <1>1, Invariance, PTL

(* ReProjectEvent and the outbox together lose no change of evidence.         *)
THEOREM Fresh == Spec => []Freshness
<1>1. IInv => Freshness
  BY DEF IInv
<1> QED
  BY <1>1, Invariance, PTL

(* A non-empty set of events has a greatest one.                              *)
LEMMA Greatest ==
    ASSUME NEW W \in SUBSET Events, W # {}
    PROVE  \E x \in W : \A y \in W : y <= x
<1> DEFINE Above(e) == {d \in Events : d > e}
           T == {Above(e) : e \in W}
           R == StrictSubsetOrdering(Events)
<1>1. IsWellFoundedOn(R, SUBSET Events)
  BY EventStoreAssumption, FS_FiniteSubsetsOfFinite, FS_StrictSubsetOrderingWellFounded DEF EventStoreAssumption
<1>2. T \subseteq SUBSET Events /\ T # {}
  OBVIOUS
<1>3. PICK A \in T : \A B \in T : ~(<<B, A>> \in R)
  <2> HIDE DEF T, R
  <2> QED
    BY <1>1, <1>2, WFMin
<1>4. PICK x \in W : A = Above(x)
  OBVIOUS
<1>5. ASSUME NEW y \in W, ~(y <= x) PROVE FALSE
  <2>1. x \in Nat /\ y \in Nat /\ x \in Events /\ y \in Events
    BY EventStoreAssumption DEF EventStoreAssumption
  <2>2. y > x
    BY <1>5, <2>1
  <2>3. Above(y) \subseteq Above(x)
    <3>1. ASSUME NEW d \in Events, d > y PROVE d > x
      <4>1. d \in Nat
        BY EventStoreAssumption DEF EventStoreAssumption
      <4> QED
        BY <2>1, <2>2, <3>1, <4>1
    <3> QED
      BY <3>1
  <2>4. y \in Above(x) /\ y \notin Above(y)
    BY <2>1, <2>2
  <2>5. Above(y) # Above(x)
    BY <2>4
  <2>6. <<Above(y), A>> \in R
    BY <1>4, <2>3, <2>5 DEF StrictSubsetOrdering
  <2> QED
    BY <1>3, <2>6
<1> QED
  BY <1>4, <1>5

LEMMA Acyclic == IInv => NoRowCycle
<1> SUFFICES ASSUME IInv, NEW S \in SUBSET Processes, S # {},
                    \A p \in S : \E q \in S : WaitsForRow(p, q)
             PROVE  FALSE
  BY DEF NoRowCycle
<1> USE DEF IInv
<1> DEFINE Waiting == {p \in S : txn[p].pc = "lock2"}
           W == {SecondLock(p) : p \in Waiting}
<1>1. ASSUME NEW p \in Processes, txn[p].pc = "lock2"
      PROVE  FirstLock(p) \in Events /\ SecondLock(p) \in Events /\ FirstLock(p) < SecondLock(p)
  <2>1. txn[p].event \in Events /\ txn[p].target \in Events /\ txn[p].event # txn[p].target
    BY <1>1 DEF Working, Merging, TypeOK
  <2>2. txn[p].event \in Nat /\ txn[p].target \in Nat
    BY <2>1, EventStoreAssumption DEF EventStoreAssumption
  <2>3. txn[p].event < txn[p].target \/ txn[p].target < txn[p].event
    BY <2>1, <2>2
  <2> QED
    BY <2>1, <2>2, <2>3 DEF FirstLock, SecondLock
<1>2. ASSUME NEW p \in S, NEW q \in S, WaitsForRow(p, q)
      PROVE  q \in Waiting /\ (p \in Waiting => SecondLock(p) = FirstLock(q))
  <2>1. PICK e \in Events : /\ rowLock[e] = q
                            /\ txn[p].pc = "lock2" => e = SecondLock(p)
    <3>1. CASE txn[p].pc = "ingest" /\ rowLock[txn[p].event] = q
      BY <3>1, WorkEvents
    <3>2. CASE txn[p].pc = "lock1" /\ rowLock[FirstLock(p)] = q
      BY <3>2, WorkEvents DEF Merging, FirstLock
    <3>3. CASE txn[p].pc = "lock2" /\ rowLock[SecondLock(p)] = q
      BY <3>3, <1>1
    <3> QED
      BY <1>2, <3>1, <3>2, <3>3 DEF WaitsForRow, At
  <2>2. Holding(q, e)
    BY <2>1 DEF HeldRows
  <2>3. txn[q].pc \in {"ingest", "lock1", "lock2"}
    BY DEF WaitsForRow, At
  <2> QED
    BY <2>1, <2>2, <2>3 DEF Holding
<1>3. W \in SUBSET Events /\ W # {}
  <2>1. PICK p \in S : TRUE
    OBVIOUS
  <2>2. PICK q \in S : WaitsForRow(p, q)
    OBVIOUS
  <2> QED
    BY <1>1, <1>2, <2>2
<1>4. PICK x \in W : \A y \in W : y <= x
  <2> HIDE DEF W
  <2> QED
    BY <1>3, Greatest
<1>5. PICK p \in Waiting : x = SecondLock(p)
  OBVIOUS
<1>6. PICK q \in S : WaitsForRow(p, q)
  BY <1>5
<1>7. q \in Waiting /\ x = FirstLock(q)
  BY <1>2, <1>5, <1>6
<1>8. SecondLock(q) <= x /\ x < SecondLock(q) /\ x \in Nat /\ SecondLock(q) \in Nat
  BY <1>1, <1>4, <1>7, EventStoreAssumption DEF EventStoreAssumption
<1> QED
  BY <1>8

(* IngestSourceData and MergeDuplicateEvents lock event rows in the order of  *)
(* their ids, so whatever merges and ingestions run at once, no set of them   *)
(* waits for the rows of one another.                                         *)
THEOREM RowsAcyclic == Spec => []NoRowCycle
BY Acyclic, Invariance, PTL

(* The history ReProjectEvent appends to is 1..n without repetition, and      *)
(* explains every record that is shown.                                       *)
THEOREM HistoryKept == Spec => []HistoryDense
<1>1. IInv => HistoryDense
  BY DEF IInv
<1> QED
  BY <1>1, Invariance, PTL

(* ReviewDuplicate and the merge leave a MERGED review only where one event   *)
(* of the pair absorbed the other.                                            *)
THEOREM ReviewsHold == Spec => []MergedReviewsHold
<1>1. IInv => MergedReviewsHold
  BY DEF IInv
<1> QED
  BY <1>1, Invariance, PTL
================================================================================
