---------------------------- MODULE ConflictsProofs ----------------------------
(* The decisions about a field of an event, for any number of claims, feeds,   *)
(* requests and versions: what a transaction may rely on behind its locks, and *)
(* what follows for winners, disputes, lineage and curators' decisions.        *)
EXTENDS Conflicts, FiniteSetTheorems, TLAPS

(* Labels of ingestions and merges, and of those that have read the conflict. *)
Machinery == {"write", "reconcile", "autoclose", "detect", "close"}
Reconciling == {"reconcile", "autoclose", "detect", "close"}

(* A row remembers the type it had, which tells a curator's claim from others, *)
(* and a successor only while it is superseded.                                *)
Lineage(row) ==
    /\ row.by # NoClaim => row.type = "SUPERSEDED"
    /\ row.type \in ActiveTypes => (row.type = "MANUAL_OVERRIDE" <=> row.source = Curator)
    /\ row.type = "SUPERSEDED" =>
          row.was \in ActiveTypes /\ (row.was = "MANUAL_OVERRIDE" <=> row.source = Curator)

(* What the tables satisfy. *)
Tables ==
    /\ \A c \in ClaimIds : Lineage(claims[c])
    /\ conflict.version = 0 \/ conflict.status = "NONE" => conflict = NoConflict
    /\ WinnerActive
    /\ Detected(claims) /\ ~absorbed =>
          conflict.status = "OPEN" \/ conflict.reason = "USER_RESOLVED"

(* The locks a transaction has at each label. *)
Locks(p) ==
    /\ txn[p].pc \in Machinery => eventLock = p /\ ~absorbed
    /\ txn[p].pc \in {"losers", "finish"} => conflictLock = p
    /\ conflictLock = p => txn[p].pc \in {"autoclose", "detect", "losers", "finish"}
    /\ txn[p].pc \in {"idle", "write", "close", "lock", "override", "revive"} =>
          \A c \in ClaimIds : claimLock[c] # p

(* The conflict row it has read is the row, or an older version of it. *)
Reading(p) ==
    /\ txn[p].seen.version <= conflict.version
    /\ txn[p].seen.version = conflict.version => txn[p].seen = conflict
    /\ txn[p].pc \in Reconciling \cup {"losers", "finish"} => txn[p].seen = conflict

(* The rows it has drafted. *)
Drafting(p) ==
    /\ conflictLock = p => txn[p].row.version > conflict.version /\ txn[p].row.status # "NONE"
    /\ \A c \in ClaimIds : claimLock[c] = p =>
          /\ Lineage(txn[p].draft[c])
          /\ claims[c].type = "SUPERSEDED" =>
                /\ txn[p].pc \in {"reopen", "finish"}
                /\ txn[p].pc = "finish" => txn[p].row.status = "OPEN"
                /\ txn[p].seen = conflict =>
                      /\ c \in conflict.links /\ claims[c].by = conflict.winner
                      /\ txn[p].draft[c].type = claims[c].was
    /\ txn[p].pc = "write" => txn[p].feed \in Feeds
    /\ txn[p].pc = "override" => txn[p].feed = <<Curator, NoRecord>>

(* The winner it has elected, or inherited, is active in what it sees. *)
Electing(p) ==
    /\ txn[p].pc = "reconcile" => conflict.status = "RESOLVED" /\ txn[p].claim \in Active(View(p))
    /\ txn[p].pc \in {"autoclose", "detect"} /\ Row(p).status = "RESOLVED" =>
          Row(p).winner \in Active(View(p))
    /\ txn[p].pc \in {"resolve", "losers"} =>
          /\ txn[p].claim \in ClaimIds /\ claimLock[txn[p].claim] = p
          /\ txn[p].draft[txn[p].claim].type \in ActiveTypes
    /\ txn[p].pc = "losers" => txn[p].row = Resolved(conflict, txn[p].claim, "USER_RESOLVED")
    /\ txn[p].pc = "finish" =>
          \/ /\ txn[p].row.status = "RESOLVED" /\ txn[p].row.reason = "USER_RESOLVED"
             /\ txn[p].row.winner \in ClaimIds /\ claimLock[txn[p].row.winner] = p
             /\ txn[p].draft[txn[p].row.winner].type \in ActiveTypes
          \/ /\ txn[p].row.status = "OPEN" /\ txn[p].row.reason = "USER_REOPENED"
             /\ conflict.status = "RESOLVED"
    /\ txn[p].pc \in {"revive", "reopen"} => txn[p].seen.status = "RESOLVED"

Local(p) == Locks(p) /\ Reading(p) /\ Drafting(p) /\ Electing(p)

IInv == TypeOK /\ Tables /\ \A p \in Processes : Local(p)
--------------------------------------------------------------------------------
(* What a step of q leaves alone for the others. *)
Frame(q) ==
    /\ \A p \in Processes \ {q} :
          /\ txn'[p] = txn[p]
          /\ eventLock = p => eventLock' = p /\ UNCHANGED dbVars
          /\ conflictLock' = p <=> conflictLock = p
          /\ conflictLock = p => conflict' = conflict
          /\ \A c \in ClaimIds : claimLock'[c] = p <=> claimLock[c] = p
          /\ \A c \in ClaimIds : claimLock[c] = p => claims'[c] = claims[c]
    /\ conflict' = conflict \/ conflict'.version > conflict.version

(* A step of q that takes locks, the claims ids among them, and drafts. *)
Acquire(q, ids, t) ==
    /\ UNCHANGED dbVars
    /\ Step(q, t)
    /\ Lockable(ids, q) /\ LockClaims(ids, q)
    /\ UNCHANGED conflictLock \/ (Free(conflictLock, q) /\ conflictLock' = q)
    /\ UNCHANGED eventLock \/ LockEvent(q)
    /\ sharers' \subseteq Processes

LEMMA ProcessFacts == \A p \in Processes : p # NoProcess
BY ConflictsAssumption DEF ConflictsAssumption

(* What the type invariant says of the parts. *)
LEMMA Typed ==
    ASSUME TypeOK, NEW p \in Processes
    PROVE  /\ txn[p] \in Transactions /\ conflict \in Conflicts
           /\ conflict.version \in Nat /\ txn[p].seen \in Conflicts /\ txn[p].row \in Conflicts
           /\ txn[p].seen.version \in Nat /\ txn[p].row.version \in Nat
           /\ txn[p].draft \in [ClaimIds -> ClaimRows]
           /\ \A c \in ClaimIds : claims[c] \in ClaimRows /\ txn[p].draft[c] \in ClaimRows
<1>1. txn[p] \in Transactions /\ conflict \in Conflicts /\ claims \in [ClaimIds -> ClaimRows]
  BY DEF TypeOK
<1>2. txn[p].seen \in Conflicts /\ txn[p].row \in Conflicts /\ txn[p].draft \in [ClaimIds -> ClaimRows]
  BY <1>1 DEF Transactions
<1>3. \A r \in Conflicts : r.version \in Nat
  BY DEF Conflicts
<1>4. QED
  BY <1>1, <1>2, <1>3

(* What a process sees, and that it is typed. *)
LEMMA Sees ==
    ASSUME TypeOK, NEW p \in Processes
    PROVE  /\ View(p) \in [ClaimIds -> ClaimRows] /\ Row(p) \in Conflicts
           /\ \A c \in ClaimIds : claimLock[c] = p => View(p)[c] = txn[p].draft[c]
           /\ \A c \in ClaimIds : claimLock[c] # p => View(p)[c] = claims[c]
<1>1. \A c \in ClaimIds : claims[c] \in ClaimRows /\ txn[p].draft[c] \in ClaimRows
  BY Typed
<1>2. View(p) \in [ClaimIds -> ClaimRows]
  BY <1>1 DEF View
<1>3. Row(p) \in Conflicts
  BY Typed DEF Row
<1>4. QED
  BY <1>2, <1>3 DEF View

(* A transaction keeps what it relies on when another one takes a step. *)
LEMMA FrameLocal ==
    ASSUME TypeOK, TypeOK', NEW q \in Processes, NEW p \in Processes, p # q,
           Frame(q), Local(p)
    PROVE  Local(p)'
<1>1. /\ txn'[p] = txn[p]
      /\ eventLock = p => eventLock' = p /\ claims' = claims /\ conflict' = conflict
                          /\ absorbed' = absorbed
      /\ conflictLock' = p <=> conflictLock = p
      /\ conflictLock = p => conflict' = conflict
      /\ \A c \in ClaimIds : claimLock'[c] = p <=> claimLock[c] = p
      /\ \A c \in ClaimIds : claimLock[c] = p => claims'[c] = claims[c]
      /\ conflict' = conflict \/ conflict'.version > conflict.version
  BY DEF Frame, dbVars
<1>2. conflict.version \in Nat /\ conflict'.version \in Nat /\ txn[p].seen.version \in Nat
  BY Typed DEF TypeOK, Conflicts
<1>3. Locks(p)'
  BY <1>1 DEF Local, Locks, Machinery
<1>4. Reading(p)'
  <2>1. Reading(p) /\ Locks(p)
    BY DEF Local
  <2>2. (txn[p].seen.version <= conflict.version)'
    BY <1>1, <1>2, <2>1 DEF Reading
  <2>3. (txn[p].seen.version = conflict.version => txn[p].seen = conflict)'
    BY <1>1, <1>2, <2>1 DEF Reading
  <2>4. (txn[p].pc \in Reconciling \cup {"losers", "finish"} => txn[p].seen = conflict)'
    BY <1>1, <2>1 DEF Reading, Locks, Reconciling, Machinery
  <2>5. QED
    BY <2>2, <2>3, <2>4 DEF Reading
<1>5. Drafting(p)'
  <2>1. Drafting(p) /\ Reading(p)
    BY DEF Local
  <2>2. txn[p].seen = conflict' => conflict' = conflict
    BY <1>1, <1>2, <2>1 DEF Reading
  <2>3. (conflictLock = p => txn[p].row.version > conflict.version /\ txn[p].row.status # "NONE")'
    BY <1>1, <2>1 DEF Drafting
  <2>4. ASSUME NEW c \in ClaimIds, (claimLock[c] = p)'
        PROVE  (/\ Lineage(txn[p].draft[c])
                /\ claims[c].type = "SUPERSEDED" =>
                     /\ txn[p].pc \in {"reopen", "finish"}
                     /\ txn[p].pc = "finish" => txn[p].row.status = "OPEN"
                     /\ txn[p].seen = conflict =>
                           /\ c \in conflict.links /\ claims[c].by = conflict.winner
                           /\ txn[p].draft[c].type = claims[c].was)'
    <3>1. claimLock[c] = p /\ claims'[c] = claims[c]
      BY <1>1, <2>4
    <3>2. QED
      BY <1>1, <2>1, <2>2, <3>1 DEF Drafting, Lineage
  <2>5. QED
    BY <1>1, <2>1, <2>3, <2>4 DEF Drafting
<1>6. Electing(p)'
  <2>1. Electing(p) /\ Locks(p)
    BY DEF Local
  <2>2. txn[p].pc \in Machinery => Active(View(p))' = Active(View(p)) /\ Row(p)' = Row(p)
    <3> SUFFICES ASSUME txn[p].pc \in Machinery
                 PROVE  Active(View(p))' = Active(View(p)) /\ Row(p)' = Row(p)
      OBVIOUS
    <3>1. claims' = claims /\ conflict' = conflict
      BY <1>1, <2>1 DEF Locks
    <3>2. View(p)' = View(p)
      BY <1>1, <3>1 DEF View
    <3>3. QED
      BY <1>1, <3>1, <3>2 DEF Active, Row
  <2>3. (txn[p].pc = "reconcile" => conflict.status = "RESOLVED" /\ txn[p].claim \in Active(View(p)))'
    BY <1>1, <2>1, <2>2 DEF Electing, Locks, Machinery
  <2>4. (txn[p].pc \in {"autoclose", "detect"} /\ Row(p).status = "RESOLVED" =>
          Row(p).winner \in Active(View(p)))'
    BY <1>1, <2>1, <2>2 DEF Electing, Machinery
  <2>5. (txn[p].pc \in {"resolve", "losers"} =>
          /\ txn[p].claim \in ClaimIds /\ claimLock[txn[p].claim] = p
          /\ txn[p].draft[txn[p].claim].type \in ActiveTypes)'
    BY <1>1, <2>1 DEF Electing, ActiveTypes
  <2>6. (txn[p].pc = "losers" => txn[p].row = Resolved(conflict, txn[p].claim, "USER_RESOLVED"))'
    BY <1>1, <2>1 DEF Electing, Locks, Resolved
  <2>7. (txn[p].pc = "finish" =>
          \/ /\ txn[p].row.status = "RESOLVED" /\ txn[p].row.reason = "USER_RESOLVED"
             /\ txn[p].row.winner \in ClaimIds /\ claimLock[txn[p].row.winner] = p
             /\ txn[p].draft[txn[p].row.winner].type \in ActiveTypes
          \/ /\ txn[p].row.status = "OPEN" /\ txn[p].row.reason = "USER_REOPENED"
             /\ conflict.status = "RESOLVED")'
    BY <1>1, <2>1 DEF Electing, Locks, ActiveTypes
  <2>8. (txn[p].pc \in {"revive", "reopen"} => txn[p].seen.status = "RESOLVED")'
    BY <1>1, <2>1 DEF Electing
  <2>9. QED
    BY <2>3, <2>4, <2>5, <2>6, <2>7, <2>8 DEF Electing
<1>7. QED
  BY <1>3, <1>4, <1>5, <1>6 DEF Local
--------------------------------------------------------------------------------
(* Steps that take locks. *)

(* What q has and sees afterwards. *)
LEMMA Acquired ==
    ASSUME TypeOK, NEW q \in Processes, NEW ids \in SUBSET ClaimIds, NEW t \in Transactions,
           Acquire(q, ids, t)
    PROVE  /\ TypeOK' /\ Frame(q) /\ UNCHANGED <<claims, conflict, absorbed>>
           /\ txn'[q] = t
           /\ \A c \in ClaimIds : claimLock'[c] = q <=> c \in ids \/ claimLock[c] = q
           /\ \A c \in ClaimIds : c \in ids \/ claimLock[c] = q => View(q)'[c] = t.draft[c]
           /\ \A c \in ClaimIds : ~(c \in ids \/ claimLock[c] = q) => View(q)'[c] = claims[c]
<1>1. UNCHANGED <<claims, conflict, absorbed>>
  BY DEF Acquire, dbVars
<1>2. txn' = [txn EXCEPT ![q] = t] /\ txn \in [Processes -> Transactions]
  BY DEF Acquire, Step, TypeOK
<1>3. txn'[q] = t /\ \A p \in Processes \ {q} : txn'[p] = txn[p]
  BY <1>2
<1>4. claimLock' = [c \in ClaimIds |-> IF c \in ids THEN q ELSE claimLock[c]]
  BY DEF Acquire, LockClaims
<1>5. \A c \in ids : claimLock[c] \in {q, NoProcess}
  BY DEF Acquire, Lockable, Free
<1>6. TypeOK'
  <2>1. (claims \in [ClaimIds -> ClaimRows] /\ conflict \in Conflicts /\ absorbed \in BOOLEAN)'
    BY <1>1 DEF TypeOK
  <2>2. txn' \in [Processes -> Transactions]
    BY <1>2
  <2>3. claimLock' \in [ClaimIds -> Processes \cup {NoProcess}]
    BY <1>4 DEF TypeOK
  <2>4. /\ eventLock' \in Processes \cup {NoProcess}
        /\ conflictLock' \in Processes \cup {NoProcess}
        /\ sharers' \subseteq Processes
    BY DEF Acquire, LockEvent, TypeOK
  <2>5. QED
    BY <2>1, <2>2, <2>3, <2>4 DEF TypeOK
<1>7. \A c \in ClaimIds : claimLock'[c] = q <=> c \in ids \/ claimLock[c] = q
  BY <1>4
<1>8. Frame(q)
  <2> SUFFICES ASSUME NEW p \in Processes \ {q}
               PROVE  /\ txn'[p] = txn[p]
                      /\ eventLock = p => eventLock' = p
                      /\ conflictLock' = p <=> conflictLock = p
                      /\ \A c \in ClaimIds : claimLock'[c] = p <=> claimLock[c] = p
    BY <1>1 DEF Frame, dbVars
  <2>1. p # NoProcess
    BY ProcessFacts
  <2>2. \A c \in ClaimIds : claimLock'[c] = p <=> claimLock[c] = p
    BY <1>4, <1>5, <2>1
  <2>3. eventLock = p => eventLock' = p
    BY <2>1 DEF Acquire, LockEvent
  <2>4. conflictLock' = p <=> conflictLock = p
    BY <2>1 DEF Acquire, Free
  <2>5. QED
    BY <1>3, <2>2, <2>3, <2>4
<1>9. \A c \in ClaimIds : View(q)'[c] = IF claimLock'[c] = q THEN t.draft[c] ELSE claims[c]
  BY <1>1, <1>3 DEF View
<1>10. QED
  BY <1>1, <1>3, <1>6, <1>7, <1>8, <1>9

LEMMA FrameStep ==
    ASSUME IInv, TypeOK', Tables', NEW q \in Processes, Frame(q), Local(q)'
    PROVE  IInv'
<1>1. \A p \in Processes : Local(p)'
  BY FrameLocal DEF IInv
<1>2. QED
  BY <1>1 DEF IInv

LEMMA AcquireStep ==
    ASSUME IInv, NEW q \in Processes, NEW ids \in SUBSET ClaimIds, NEW t \in Transactions,
           Acquire(q, ids, t), Local(q)'
    PROVE  IInv'
<1>1. TypeOK' /\ Frame(q) /\ UNCHANGED <<claims, conflict, absorbed>>
  BY Acquired DEF IInv
<1>2. Tables'
  BY <1>1 DEF IInv, Tables, Lineage, WinnerActive, Active, Detected, ValuesOf
<1>3. QED
  BY <1>1, <1>2, FrameStep

LEMMA IdleTyped == Idle \in Transactions
<1>1. NoRow \in ClaimRows
  BY DEF NoRow, ClaimRows, Sources, Records, ActiveTypes
<1>2. NoConflict \in Conflicts
  BY DEF NoConflict, Conflicts
<1>3. QED
  BY <1>1, <1>2 DEF Idle, Transactions, Labels

(* A transaction that holds no claim and no conflict, at its start. *)
LEMMA Starting ==
    ASSUME IInv, NEW q \in Processes, NEW t \in Transactions,
           At(q, "idle"), Step(q, t), UNCHANGED <<dbVars, conflictLock, claimLock, sharers>>,
           UNCHANGED eventLock \/ LockEvent(q),
           \/ /\ t.pc = "write" /\ t.feed \in Feeds /\ t.seen = NoConflict
              /\ ~absorbed /\ LockEvent(q)
           \/ t.pc = "close" /\ t.seen = conflict /\ ~absorbed /\ LockEvent(q)
           \/ t.pc = "lock" /\ t.seen = conflict
           \/ t.pc = "override" /\ t.feed = <<Curator, NoRecord>> /\ t.seen = conflict
           \/ t.pc = "revive" /\ t.seen = conflict /\ conflict.status = "RESOLVED"
    PROVE  IInv'
<1>1. TypeOK /\ Tables /\ Local(q)
  BY DEF IInv
<1>2. Acquire(q, {}, t)
  <2>1. LockClaims({}, q)
    BY <1>1 DEF LockClaims, TypeOK
  <2>2. QED
    BY <1>1, <2>1 DEF Acquire, Lockable, TypeOK
<1>3. /\ txn'[q] = t /\ UNCHANGED <<claims, conflict, absorbed>>
      /\ \A c \in ClaimIds : claimLock'[c] = q <=> claimLock[c] = q
  BY <1>1, <1>2, Acquired
<1>4. conflictLock' # q /\ \A c \in ClaimIds : claimLock'[c] # q
  BY <1>1, <1>3 DEF Local, Locks, At
<1>5. t.pc \in {"write", "close", "lock", "override", "revive"}
  OBVIOUS
<1>6. Locks(q)'
  BY <1>3, <1>4, <1>5 DEF Locks, Machinery, LockEvent
<1>7. Reading(q)'
  <2>1. conflict.version \in Nat
    BY <1>1, Typed
  <2>2. NoConflict.version = 0
    BY DEF NoConflict
  <2>3. t.seen.version <= conflict.version
    BY <2>1, <2>2
  <2>4. t.seen.version = conflict.version => t.seen = conflict
    BY <1>1, <2>2 DEF Tables
  <2>5. t.pc \in Reconciling \cup {"losers", "finish"} => t.seen = conflict
    BY DEF Reconciling
  <2>6. QED
    BY <1>3, <2>3, <2>4, <2>5 DEF Reading
<1>8. Drafting(q)'
  BY <1>3, <1>4, <1>5 DEF Drafting
<1>9. Electing(q)'
  BY <1>3, <1>4, <1>5 DEF Electing
<1>10. QED
  BY <1>2, <1>6, <1>7, <1>8, <1>9, AcquireStep DEF Local

LEMMA IngestStep ==
    ASSUME IInv, NEW q \in Processes, NEW feed \in Feeds, NEW v \in Values, Ingest(q, feed, v)
    PROVE  IInv'
<1> DEFINE t == [Idle EXCEPT !.pc = "write", !.feed = feed, !.value = v]
<1>1. t \in Transactions /\ t.pc = "write" /\ t.feed = feed /\ t.seen = NoConflict
  BY IdleTyped DEF Transactions, Labels, Idle
<1>2. QED
  BY <1>1, Starting DEF Ingest

LEMMA AbsorbStep ==
    ASSUME IInv, NEW q \in Processes, Absorb(q)
    PROVE  IInv'
<1> DEFINE t == [Idle EXCEPT !.pc = "close", !.seen = conflict]
<1>1. conflict \in Conflicts
  BY DEF IInv, TypeOK
<1>2. t \in Transactions /\ t.pc = "close" /\ t.seen = conflict
  BY <1>1, IdleTyped DEF Transactions, Labels, Idle
<1>3. QED
  BY <1>2, Starting DEF Absorb

LEMMA ResolveStep ==
    ASSUME IInv, NEW q \in Processes, NEW w \in ClaimIds, Resolve(q, w)
    PROVE  IInv'
<1> DEFINE t == [Idle EXCEPT !.pc = "lock", !.claim = w, !.seen = conflict]
<1>1. conflict \in Conflicts
  BY DEF IInv, TypeOK
<1>2. t \in Transactions /\ t.pc = "lock" /\ t.seen = conflict
  BY <1>1, IdleTyped DEF Transactions, Labels, Idle
<1>3. QED
  BY <1>2, Starting DEF Resolve, lockVars

LEMMA OverrideStep ==
    ASSUME IInv, NEW q \in Processes, NEW v \in Values, Override(q, v)
    PROVE  IInv'
<1> DEFINE t == [Idle EXCEPT !.pc = "override", !.value = v, !.seen = conflict]
<1>1. conflict \in Conflicts
  BY DEF IInv, TypeOK
<1>2. /\ t \in Transactions /\ t.pc = "override" /\ t.seen = conflict
      /\ t.feed = <<Curator, NoRecord>>
  BY <1>1, IdleTyped DEF Transactions, Labels, Idle
<1>3. QED
  BY <1>2, Starting DEF Override, lockVars

LEMMA ReopenStep ==
    ASSUME IInv, NEW q \in Processes, Reopen(q)
    PROVE  IInv'
<1> DEFINE t == [Idle EXCEPT !.pc = "revive", !.seen = conflict]
<1>1. conflict \in Conflicts
  BY DEF IInv, TypeOK
<1>2. t \in Transactions /\ t.pc = "revive" /\ t.seen = conflict
  BY <1>1, IdleTyped DEF Transactions, Labels, Idle
<1>3. QED
  BY <1>2, Starting DEF Reopen, lockVars
--------------------------------------------------------------------------------
(* Ingestion. *)

(* The rows a process sees keep their lineage. *)
LEMMA ViewLineage ==
    ASSUME IInv, NEW q \in Processes, NEW c \in ClaimIds
    PROVE  Lineage(View(q)[c])
<1>1. CASE claimLock[c] = q
  <2>1. View(q)[c] = txn[q].draft[c]
    BY <1>1, Sees DEF IInv
  <2>2. Lineage(txn[q].draft[c])
    BY <1>1 DEF IInv, Local, Drafting
  <2>3. QED
    BY <2>1, <2>2
<1>2. CASE claimLock[c] # q
  BY <1>2, Sees DEF IInv, Tables
<1>3. QED
  BY <1>1, <1>2

(* A superseded row keeps the type it had. *)
LEMMA SupersededLineage ==
    ASSUME NEW rows \in [ClaimIds -> ClaimRows], NEW ids \in SUBSET ClaimIds,
           NEW by \in ClaimIds \cup {Elsewhere}, ids \subseteq Active(rows),
           \A c \in ClaimIds : Lineage(rows[c])
    PROVE  /\ Superseded(rows, ids, by) \in [ClaimIds -> ClaimRows]
           /\ \A c \in ClaimIds : Lineage(Superseded(rows, ids, by)[c])
           /\ \A c \in ClaimIds \ ids : Superseded(rows, ids, by)[c] = rows[c]
           /\ \A c \in ids : Superseded(rows, ids, by)[c].type = "SUPERSEDED"
<1> DEFINE lost(c) == [rows[c] EXCEPT !.type = "SUPERSEDED", !.by = by, !.was = rows[c].type]
<1>1. /\ \A c \in ids : Superseded(rows, ids, by)[c] = lost(c)
      /\ \A c \in ClaimIds \ ids : Superseded(rows, ids, by)[c] = rows[c]
  BY DEF Superseded
<1>2. \A c \in ids : rows[c].type \in ActiveTypes /\ rows[c] \in ClaimRows
  BY DEF Active
<1>3. \A c \in ids : lost(c) \in ClaimRows
  BY <1>2 DEF ClaimRows
<1>4. ASSUME NEW c \in ids PROVE Lineage(lost(c)) /\ lost(c).type = "SUPERSEDED"
  <2>1. /\ lost(c).type = "SUPERSEDED" /\ lost(c).was = rows[c].type
        /\ lost(c).source = rows[c].source
    BY <1>2 DEF ClaimRows
  <2>2. rows[c].type = "MANUAL_OVERRIDE" <=> rows[c].source = Curator
    BY <1>2 DEF Lineage
  <2>3. QED
    BY <1>2, <2>1, <2>2 DEF Lineage, ActiveTypes
<1>5. Superseded(rows, ids, by) \in [ClaimIds -> ClaimRows]
  BY <1>1, <1>3 DEF Superseded
<1> HIDE DEF lost
<1>6. \A c \in ClaimIds : Lineage(Superseded(rows, ids, by)[c])
  <2> SUFFICES ASSUME NEW c \in ClaimIds PROVE Lineage(Superseded(rows, ids, by)[c])
    OBVIOUS
  <2>1. CASE c \in ids
    BY <1>1, <1>4, <2>1
  <2>2. CASE c \notin ids
    BY <1>1, <2>2
  <2>3. QED
    BY <2>1, <2>2
<1>7. QED
  BY <1>1, <1>4, <1>5, <1>6

(* A claim as a feed or a curator writes it. *)
LEMMA NewClaimFacts ==
    ASSUME NEW feed \in Feeds \cup {<<Curator, NoRecord>>}, NEW v \in Values \cup {NoValue},
           NEW type \in ActiveTypes, type = "MANUAL_OVERRIDE" <=> feed[1] = Curator
    PROVE  /\ NewClaim(feed, v, type) \in ClaimRows
           /\ NewClaim(feed, v, type).type = type
           /\ Lineage(NewClaim(feed, v, type))
<1>1. feed[1] \in Sources /\ feed[2] \in Records
  BY DEF Sources, Records
<1>2. QED
  BY <1>1 DEF NewClaim, ClaimRows, Lineage, ActiveTypes

LEMMA WriteClaimsStep ==
    ASSUME IInv, NEW q \in Processes, WriteClaims(q)
    PROVE  IInv'
<1>1. TypeOK /\ Tables /\ Local(q) /\ txn[q].pc = "write"
  BY DEF IInv, WriteClaims, At
<1>2. PICK n \in Fresh :
         LET feed   == txn[q].feed
             prior  == Prior(feed, View(q))
             locked == {n} \cup IF feed[2] = NoRecord THEN Active(View(q)) ELSE prior
             rows   == [Superseded(View(q), prior, n)
                           EXCEPT ![n] = NewClaim(feed, txn[q].value, "RAW")]
             lost   == conflict.status = "RESOLVED" /\ conflict.winner \in prior
         IN /\ Lockable(locked, q)
            /\ LockClaims(locked, q)
            /\ Step(q, [txn[q] EXCEPT
                  !.pc = IF lost THEN "reconcile" ELSE IF prior # {} THEN "autoclose" ELSE "detect",
                  !.feed = Idle.feed, !.value = NoValue, !.claim = n, !.seen = conflict,
                  !.draft = Drafted(q, locked, rows)])
  BY DEF WriteClaims
<1> DEFINE feed   == txn[q].feed
           prior  == Prior(feed, View(q))
           locked == {n} \cup IF feed[2] = NoRecord THEN Active(View(q)) ELSE prior
           super  == Superseded(View(q), prior, n)
           new    == NewClaim(feed, txn[q].value, "RAW")
           rows   == [super EXCEPT ![n] = new]
           lost   == conflict.status = "RESOLVED" /\ conflict.winner \in prior
           label  == IF lost THEN "reconcile" ELSE IF prior # {} THEN "autoclose" ELSE "detect"
           draft  == Drafted(q, locked, rows)
           t      == [txn[q] EXCEPT !.pc = label, !.feed = Idle.feed, !.value = NoValue,
                                    !.claim = n, !.seen = conflict, !.draft = draft]
<1>3. n \in ClaimIds /\ claims[n].type = "NONE"
  BY DEF Fresh, Unused
<1>4. /\ \A c \in ClaimIds : claimLock[c] # q /\ View(q)[c] = claims[c]
      /\ View(q) \in [ClaimIds -> ClaimRows] /\ conflictLock # q
  BY <1>1, Sees DEF Local, Locks
<1>5. /\ feed \in Feeds /\ txn[q].value \in Values \cup {NoValue}
      /\ txn[q] \in Transactions
  BY <1>1, Typed DEF Local, Drafting, Transactions
<1>6. /\ prior \subseteq Active(View(q)) /\ Active(View(q)) \subseteq ClaimIds
      /\ locked \subseteq ClaimIds
      /\ \A c \in locked : c = n \/ claims[c].type \in ActiveTypes
      /\ n \notin prior
  BY <1>3, <1>4 DEF Prior, Active, ActiveTypes
<1>7. /\ super \in [ClaimIds -> ClaimRows]
      /\ \A c \in ClaimIds : Lineage(super[c])
      /\ \A c \in ClaimIds \ prior : super[c] = claims[c]
  <2>1. \A c \in ClaimIds : Lineage(View(q)[c])
    BY ViewLineage
  <2>2. prior \in SUBSET ClaimIds
    BY <1>6
  <2> HIDE DEF prior
  <2>3. /\ super \in [ClaimIds -> ClaimRows]
        /\ \A c \in ClaimIds : Lineage(super[c])
        /\ \A c \in ClaimIds \ prior : super[c] = View(q)[c]
    BY <1>3, <1>4, <1>6, <2>1, <2>2, SupersededLineage
  <2>4. QED
    BY <1>4, <2>3
<1>8. new \in ClaimRows /\ new.type = "RAW" /\ Lineage(new)
  <2>1. feed[1] # Curator
    BY <1>5, ConflictsAssumption DEF ConflictsAssumption
  <2>2. QED
    BY <1>5, <2>1, NewClaimFacts DEF ActiveTypes
<1>9. /\ rows \in [ClaimIds -> ClaimRows] /\ rows[n] = new
      /\ \A c \in ClaimIds : c # n => rows[c] = super[c]
      /\ \A c \in ClaimIds : Lineage(rows[c])
  <2>1. rows \in [ClaimIds -> ClaimRows] /\ rows[n] = new
    BY <1>3, <1>7, <1>8
  <2>2. \A c \in ClaimIds : c # n => rows[c] = super[c]
    BY <1>7
  <2>3. QED
    BY <1>7, <1>8, <2>1, <2>2
<1>10. /\ draft \in [ClaimIds -> ClaimRows]
       /\ \A c \in locked : draft[c] = rows[c]
  <2>1. txn[q].draft \in [ClaimIds -> ClaimRows]
    BY <1>5 DEF Transactions
  <2>2. QED
    BY <1>6, <1>9, <2>1 DEF Drafted
<1>11. /\ t \in Transactions /\ t.pc = label /\ t.claim = n /\ t.seen = conflict
       /\ t.draft = draft
  <2>1. Idle.feed = <<Curator, NoRecord>> /\ conflict \in Conflicts
    BY <1>1, Typed DEF Idle
  <2>2. label \in Labels
    BY DEF Labels
  <2> HIDE DEF label, draft
  <2>3. QED
    BY <1>3, <1>5, <1>10, <2>1, <2>2 DEF Transactions
<1>12. Acquire(q, locked, t)
  <2>1. UNCHANGED <<dbVars, eventLock, sharers, conflictLock>>
    BY DEF WriteClaims
  <2>2. QED
    BY <1>1, <1>2, <2>1 DEF Acquire, TypeOK
<1> HIDE DEF feed, prior, super, new, rows, draft, t
<1>13. /\ UNCHANGED <<claims, conflict, absorbed>> /\ txn'[q] = t
       /\ \A c \in ClaimIds : claimLock'[c] = q <=> c \in locked
       /\ \A c \in locked : View(q)'[c] = rows[c]
       /\ \A c \in ClaimIds \ locked : View(q)'[c] = claims[c]
  <2> HIDE DEF locked
  <2>1. QED
    BY <1>1, <1>4, <1>6, <1>10, <1>11, <1>12, Acquired
<1>14. UNCHANGED <<eventLock, conflictLock>>
  BY DEF WriteClaims
<1>15. label \in {"reconcile", "autoclose", "detect"}
  OBVIOUS
<1>16. Locks(q)'
  BY <1>1, <1>4, <1>11, <1>13, <1>14, <1>15 DEF Local, Locks, Machinery
<1>17. Reading(q)'
  <2>1. conflict.version \in Nat
    BY <1>1, Typed
  <2>2. QED
    BY <1>11, <1>13, <2>1 DEF Reading
<1>18. Drafting(q)'
  <2>1. ASSUME NEW c \in locked
        PROVE  Lineage(t.draft[c]) /\ claims[c].type # "SUPERSEDED"
    BY <1>3, <1>6, <1>9, <1>10, <1>11 DEF ActiveTypes
  <2>2. QED
    BY <1>4, <1>11, <1>13, <1>14, <1>15, <2>1 DEF Drafting, Lineage
<1>19. Electing(q)'
  <2>1. n \in Active(View(q))'
    BY <1>3, <1>8, <1>9, <1>13 DEF Active, ActiveTypes
  <2>2. ASSUME label # "reconcile", conflict.status = "RESOLVED"
        PROVE  conflict.winner \in Active(View(q))'
    <3>1. conflict.winner \in Active(claims) /\ conflict.winner \notin prior
      BY <1>1, <1>15, <2>2 DEF Local, Locks, Machinery, Tables, WinnerActive
    <3>2. conflict.winner # n /\ conflict.winner \in ClaimIds
      BY <1>3, <3>1 DEF Active, ActiveTypes
    <3>3. View(q)'[conflict.winner] = claims[conflict.winner]
      BY <1>7, <1>9, <1>13, <3>1, <3>2
    <3>4. QED
      BY <1>13, <3>1, <3>3 DEF Active
  <2>3. Row(q)' = conflict
    BY <1>4, <1>13, <1>14 DEF Row
  <2>4. label = "reconcile" => conflict.status = "RESOLVED"
    OBVIOUS
  <2> HIDE DEF label
  <2>5. QED
    BY <1>11, <1>13, <1>15, <2>1, <2>2, <2>3, <2>4 DEF Electing
<1>20. QED
  <2> HIDE DEF locked
  <2>1. QED
    BY <1>6, <1>11, <1>12, <1>16, <1>17, <1>18, <1>19, AcquireStep DEF Local

(* Reading active claims FOR UPDATE changes nothing of what q sees. *)
LEMMA Relocked ==
    ASSUME IInv, NEW q \in Processes, NEW ids \in SUBSET ClaimIds, NEW t \in Transactions,
           ids \subseteq Active(View(q)), t.draft = Drafted(q, ids, View(q)),
           Acquire(q, ids, t), txn[q].pc \notin {"reopen", "finish"}
    PROVE  /\ View(q)' = View(q)
           /\ \A c \in ClaimIds : claimLock'[c] = q =>
                 Lineage(t.draft[c]) /\ claims[c].type # "SUPERSEDED"
<1>1. TypeOK /\ Local(q)
  BY DEF IInv
<1>2. \A c \in ClaimIds : t.draft[c] = IF c \in ids THEN View(q)[c] ELSE txn[q].draft[c]
  BY DEF Drafted
<1>3. \A c \in ClaimIds : c \in ids \/ claimLock[c] = q => t.draft[c] = View(q)[c]
  BY <1>1, <1>2, Sees
<1>4. /\ \A c \in ClaimIds : claimLock'[c] = q <=> c \in ids \/ claimLock[c] = q
      /\ \A c \in ClaimIds : View(q)'[c] = View(q)[c]
  BY <1>1, <1>3, Acquired, Sees
<1>5. View(q)' = View(q)
  BY <1>4 DEF View
<1>6. ASSUME NEW c \in ClaimIds, claimLock'[c] = q
      PROVE  Lineage(t.draft[c]) /\ claims[c].type # "SUPERSEDED"
  <2>1. Lineage(t.draft[c])
    BY <1>3, <1>4, <1>6, ViewLineage
  <2>2. CASE claimLock[c] = q
    BY <1>1, <2>1, <2>2 DEF Local, Drafting
  <2>3. CASE claimLock[c] # q
    <3>1. c \in ids /\ View(q)[c] = claims[c]
      BY <1>1, <1>4, <1>6, <2>3, Sees
    <3>2. QED
      BY <2>1, <3>1 DEF Active, ActiveTypes
  <2>4. QED
    BY <2>2, <2>3
<1>7. QED
  BY <1>5, <1>6

LEMMA DraftedTyped ==
    ASSUME TypeOK, NEW q \in Processes, NEW ids \in SUBSET ClaimIds,
           NEW rows \in [ClaimIds -> ClaimRows]
    PROVE  Drafted(q, ids, rows) \in [ClaimIds -> ClaimRows]
BY Typed DEF Drafted

(* The reconciler rewrites the conflict it sees, as a later version whose      *)
(* winner, if it has one, is active.                                           *)
LEMMA RewriteStep ==
    ASSUME IInv, NEW q \in Processes, NEW row \in Conflicts, NEW label,
           txn[q].pc \in {"reconcile", "autoclose"}, label \in {"autoclose", "detect"},
           Rewrite(q, row, label), row.version = Row(q).version + 1, row.status # "NONE",
           row.status = "RESOLVED" => row.winner \in Active(View(q))
    PROVE  IInv'
<1>1. TypeOK /\ Tables /\ Local(q)
  BY DEF IInv
<1> DEFINE active == Active(View(q))
           draft  == Drafted(q, active, View(q))
           t      == [txn[q] EXCEPT !.pc = label, !.claim = NoClaim, !.row = row, !.draft = draft]
<1>2. active \in SUBSET ClaimIds
  BY DEF Active
<1>3. draft \in [ClaimIds -> ClaimRows]
  BY <1>1, <1>2, Sees, DraftedTyped
<1>4. /\ t \in Transactions /\ t.pc = label /\ t.row = row /\ t.draft = draft
      /\ t.seen = txn[q].seen
  <2>1. txn[q] \in Transactions /\ label \in Labels
    BY <1>1, Typed DEF Labels
  <2> HIDE DEF draft
  <2>2. QED
    BY <1>3, <2>1 DEF Transactions
<1>5. Acquire(q, active, t)
  BY <1>1 DEF Acquire, Rewrite, TypeOK
<1> HIDE DEF t, active
<1>6. /\ UNCHANGED <<claims, conflict, absorbed>> /\ txn'[q] = t
      /\ UNCHANGED eventLock /\ conflictLock' = q
  BY <1>1, <1>2, <1>4, <1>5, Acquired DEF Rewrite
<1>7. /\ View(q)' = View(q)
      /\ \A c \in ClaimIds : claimLock'[c] = q =>
            Lineage(t.draft[c]) /\ claims[c].type # "SUPERSEDED"
  BY <1>2, <1>4, <1>5, Relocked DEF active
<1>8. Locks(q)'
  BY <1>1, <1>4, <1>6 DEF Local, Locks, Machinery
<1>9. Reading(q)'
  BY <1>1, <1>4, <1>6 DEF Local, Reading, Reconciling
<1>10. Drafting(q)'
  <2>1. row.version > conflict.version
    <3>1. Row(q).version >= conflict.version
      BY <1>1, Typed DEF Row, Local, Drafting
    <3>2. Row(q).version \in Nat /\ conflict.version \in Nat
      BY <1>1, Typed, Sees DEF Conflicts
    <3>3. QED
      BY <3>1, <3>2
  <2>2. QED
    BY <1>4, <1>6, <1>7, <2>1 DEF Drafting, Lineage
<1>11. Electing(q)'
  <2>1. Row(q)' = row /\ Active(View(q))' = Active(View(q))
    BY <1>4, <1>6, <1>7 DEF Row, Active
  <2>2. QED
    BY <1>4, <1>6, <2>1 DEF Electing
<1>12. QED
  BY <1>2, <1>4, <1>5, <1>8, <1>9, <1>10, <1>11, AcquireStep DEF Local

(* The rows the reconciler and the curators write. *)
LEMMA RowFacts ==
    ASSUME NEW row \in Conflicts, NEW w \in ClaimIds,
           NEW reason \in {"USER_RESOLVED", "SYSTEM_AUTO_CLOSED"}
    PROVE  /\ Rewon(row, w) \in Conflicts /\ Rewon(row, w).winner = w
           /\ Rewon(row, w).version = row.version + 1 /\ Rewon(row, w).status = row.status
           /\ Resolved(row, w, reason) \in Conflicts /\ Resolved(row, w, reason).winner = w
           /\ Resolved(row, w, reason).version = row.version + 1
           /\ Resolved(row, w, reason).status = "RESOLVED"
           /\ Resolved(row, w, reason).reason = reason
<1>1. row.version + 1 \in Nat /\ row.links \cup {w} \subseteq ClaimIds
  BY DEF Conflicts
<1>2. QED
  BY <1>1 DEF Conflicts, Rewon, Resolved

LEMMA ReopenedFacts ==
    ASSUME NEW row \in Conflicts, NEW ids \in SUBSET ClaimIds,
           NEW reason \in {"NEW_EVIDENCE", "USER_REOPENED"}
    PROVE  /\ Reopened(row, ids, reason) \in Conflicts
           /\ Reopened(row, ids, reason).status = "OPEN"
           /\ Reopened(row, ids, reason).reason = reason
           /\ Reopened(row, ids, reason).version = row.version + 1
<1>1. row.version + 1 \in Nat /\ row.links \cup ids \subseteq ClaimIds
  BY DEF Conflicts
<1>2. QED
  BY <1>1 DEF Conflicts, Reopened

LEMMA ReconcileWinnerStep ==
    ASSUME IInv, NEW q \in Processes, ReconcileWinner(q)
    PROVE  IInv'
<1> DEFINE active == Active(View(q))
<1>1. TypeOK /\ Local(q) /\ txn[q].pc = "reconcile"
  BY DEF IInv, ReconcileWinner, At
<1>2. Row(q) \in Conflicts /\ active \in SUBSET ClaimIds
  BY <1>1, Sees DEF Active
<1>3. /\ txn[q].claim \in active /\ txn[q].claim \in ClaimIds
      /\ Row(q).status = "RESOLVED"
  BY <1>1, <1>2 DEF Local, Electing, Locks, Row
<1>4. CASE Cardinality(ValuesOf(active, View(q))) = 1
  <2>1. Rewrite(q, Rewon(Row(q), txn[q].claim), "autoclose")
    BY <1>4 DEF ReconcileWinner
  <2>2. /\ Rewon(Row(q), txn[q].claim) \in Conflicts
        /\ Rewon(Row(q), txn[q].claim).winner = txn[q].claim
        /\ Rewon(Row(q), txn[q].claim).version = Row(q).version + 1
        /\ Rewon(Row(q), txn[q].claim).status = "RESOLVED"
    BY <1>2, <1>3, RowFacts
  <2>3. QED
    BY <1>1, <1>3, <2>1, <2>2, RewriteStep
<1>5. CASE Cardinality(ValuesOf(active, View(q))) # 1
  <2>1. Rewrite(q, Reopened(Row(q), active, "NEW_EVIDENCE"), "autoclose")
    BY <1>5 DEF ReconcileWinner
  <2> HIDE DEF active
  <2>2. /\ Reopened(Row(q), active, "NEW_EVIDENCE") \in Conflicts
        /\ Reopened(Row(q), active, "NEW_EVIDENCE").status = "OPEN"
        /\ Reopened(Row(q), active, "NEW_EVIDENCE").version = Row(q).version + 1
    BY <1>2, ReopenedFacts
  <2>3. QED
    BY <1>1, <2>1, <2>2, RewriteStep
<1>6. QED
  BY <1>4, <1>5

LEMMA AutoCloseStep ==
    ASSUME IInv, NEW q \in Processes, AutoClose(q)
    PROVE  IInv'
<1>1. TypeOK /\ Local(q) /\ txn[q].pc = "autoclose"
  BY DEF IInv, AutoClose, At
<1>2. PICK w \in Active(View(q)) :
         Rewrite(q, Resolved(Row(q), w, "SYSTEM_AUTO_CLOSED"), "detect")
  BY DEF AutoClose
<1>3. w \in ClaimIds /\ Row(q) \in Conflicts
  BY <1>1, Sees DEF Active
<1>4. /\ Resolved(Row(q), w, "SYSTEM_AUTO_CLOSED") \in Conflicts
      /\ Resolved(Row(q), w, "SYSTEM_AUTO_CLOSED").winner = w
      /\ Resolved(Row(q), w, "SYSTEM_AUTO_CLOSED").version = Row(q).version + 1
      /\ Resolved(Row(q), w, "SYSTEM_AUTO_CLOSED").status = "RESOLVED"
  BY <1>3, RowFacts
<1>5. QED
  BY <1>1, <1>2, <1>4, RewriteStep

LEMMA NothingToCloseStep ==
    ASSUME IInv, NEW q \in Processes, NothingToClose(q)
    PROVE  IInv'
<1>1. TypeOK /\ Tables /\ Local(q) /\ txn[q].pc = "autoclose"
  BY DEF IInv, NothingToClose, At
<1> DEFINE active == Active(View(q))
           locked == IF Row(q).status = "OPEN" THEN active ELSE {}
           draft  == Drafted(q, locked, View(q))
           t      == [txn[q] EXCEPT !.pc = "detect", !.claim = NoClaim, !.draft = draft]
<1>2. locked \in SUBSET ClaimIds /\ locked \subseteq Active(View(q))
  BY DEF Active
<1>3. Lockable(locked, q) /\ LockClaims(locked, q) /\ Step(q, t)
      /\ UNCHANGED <<dbVars, eventLock, sharers, conflictLock>>
  BY DEF NothingToClose
<1> HIDE DEF locked
<1>4. draft \in [ClaimIds -> ClaimRows]
  BY <1>1, <1>2, Sees, DraftedTyped
<1>5. /\ t \in Transactions /\ t.pc = "detect" /\ t.row = txn[q].row /\ t.draft = draft
      /\ t.seen = txn[q].seen
  <2>1. txn[q] \in Transactions
    BY <1>1, Typed
  <2> HIDE DEF draft
  <2>2. QED
    BY <1>4, <2>1 DEF Transactions, Labels
<1>6. Acquire(q, locked, t)
  BY <1>1, <1>3 DEF Acquire, TypeOK
<1> HIDE DEF t
<1>7. UNCHANGED <<claims, conflict, absorbed, eventLock, conflictLock>> /\ txn'[q] = t
  BY <1>1, <1>2, <1>3, <1>5, <1>6, Acquired
<1>8. /\ View(q)' = View(q)
      /\ \A c \in ClaimIds : claimLock'[c] = q =>
            Lineage(t.draft[c]) /\ claims[c].type # "SUPERSEDED"
  BY <1>1, <1>2, <1>5, <1>6, Relocked
<1>9. Locks(q)'
  BY <1>1, <1>5, <1>7 DEF Local, Locks, Machinery
<1>10. Reading(q)'
  BY <1>1, <1>5, <1>7 DEF Local, Reading, Reconciling
<1>11. Drafting(q)'
  BY <1>1, <1>5, <1>7, <1>8 DEF Local, Drafting, Lineage
<1>12. Electing(q)'
  <2>1. Row(q)' = Row(q) /\ Active(View(q))' = Active(View(q))
    BY <1>5, <1>7, <1>8 DEF Row, Active
  <2>2. QED
    BY <1>1, <1>5, <1>7, <2>1 DEF Local, Electing
<1>13. QED
  BY <1>2, <1>5, <1>6, <1>9, <1>10, <1>11, <1>12, AcquireStep DEF Local
--------------------------------------------------------------------------------
(* Merges into the event, and curators. *)

LEMMA TransferStep ==
    ASSUME IInv, NEW q \in Processes, NEW feed \in Feeds \cup {<<Curator, NoRecord>>},
           NEW v \in Values, Transfer(q, feed, v)
    PROVE  IInv'
<1>1. TypeOK /\ Tables /\ Local(q) /\ txn[q].pc = "idle" /\ ~absorbed
  BY DEF IInv, Transfer, At
<1> DEFINE type == IF feed[1] = Curator THEN "MANUAL_OVERRIDE" ELSE "RAW"
           copy == NewClaim(feed, v, type)
<1>2. PICK n \in Fresh :
         /\ LockClaims({n}, q)
         /\ Step(q, [Idle EXCEPT !.pc = "detect", !.seen = conflict, !.draft[n] = copy])
  BY DEF Transfer
<1> DEFINE t == [Idle EXCEPT !.pc = "detect", !.seen = conflict, !.draft[n] = copy]
<1>3. n \in ClaimIds /\ claims[n].type = "NONE" /\ claimLock[n] = NoProcess
  BY DEF Fresh, Unused
<1>4. copy \in ClaimRows /\ copy.type \in ActiveTypes /\ Lineage(copy)
  <2>1. type \in ActiveTypes /\ (type = "MANUAL_OVERRIDE" <=> feed[1] = Curator)
    BY DEF ActiveTypes
  <2> HIDE DEF type
  <2>2. QED
    BY <2>1, NewClaimFacts
<1> HIDE DEF copy
<1>5. /\ t \in Transactions /\ t.pc = "detect" /\ t.seen = conflict /\ t.draft[n] = copy
  <2>1. conflict \in Conflicts /\ Idle.draft \in [ClaimIds -> ClaimRows]
    BY <1>1, Typed, IdleTyped DEF Transactions
  <2>2. [Idle.draft EXCEPT ![n] = copy] \in [ClaimIds -> ClaimRows]
    BY <1>4, <2>1
  <2>3. /\ t = [Idle EXCEPT !.pc = "detect", !.seen = conflict,
                           !.draft = [Idle.draft EXCEPT ![n] = copy]]
        /\ [Idle.draft EXCEPT ![n] = copy][n] = copy
    BY <1>3, <2>1, IdleTyped DEF Transactions
  <2>4. QED
    BY <2>1, <2>2, <2>3, IdleTyped DEF Transactions, Labels
<1>6. Acquire(q, {n}, t)
  <2>1. UNCHANGED <<dbVars, sharers, conflictLock>> /\ LockEvent(q)
    BY DEF Transfer
  <2>2. QED
    BY <1>1, <1>2, <1>3, <2>1 DEF Acquire, TypeOK, Lockable, Free
<1> HIDE DEF t
<1>7. /\ UNCHANGED <<claims, conflict, absorbed, conflictLock>> /\ eventLock' = q
      /\ txn'[q] = t /\ conflictLock # q
      /\ \A c \in ClaimIds : claimLock'[c] = q <=> c = n
      /\ \A c \in ClaimIds : c # n => View(q)'[c] = claims[c]
  <2>1. conflictLock # q /\ \A c \in ClaimIds : claimLock[c] # q
    BY <1>1 DEF Local, Locks
  <2>2. UNCHANGED conflictLock /\ eventLock' = q
    BY DEF Transfer, LockEvent
  <2>3. /\ UNCHANGED <<claims, conflict, absorbed>> /\ txn'[q] = t
        /\ \A c \in ClaimIds : claimLock'[c] = q <=> c \in {n} \/ claimLock[c] = q
        /\ \A c \in ClaimIds : ~(c \in {n} \/ claimLock[c] = q) => View(q)'[c] = claims[c]
    <3>1. PICK ids \in SUBSET ClaimIds : ids = {n}
      BY <1>3
    <3>2. Acquire(q, ids, t)
      BY <1>6, <3>1
    <3>3. /\ UNCHANGED <<claims, conflict, absorbed>> /\ txn'[q] = t
          /\ \A c \in ClaimIds : claimLock'[c] = q <=> c \in ids \/ claimLock[c] = q
          /\ \A c \in ClaimIds : ~(c \in ids \/ claimLock[c] = q) => View(q)'[c] = claims[c]
      BY <1>1, <1>5, <3>2, Acquired
    <3>4. QED
      BY <3>1, <3>3
  <2>4. QED
    BY <2>1, <2>2, <2>3
<1>8. Locks(q)'
  BY <1>1, <1>5, <1>7 DEF Locks, Machinery
<1>9. Reading(q)'
  BY <1>1, <1>5, <1>7, Typed DEF Reading
<1>10. Drafting(q)'
  BY <1>3, <1>4, <1>5, <1>7 DEF Drafting, Lineage
<1>11. Electing(q)'
  <2>1. Row(q)' = conflict
    BY <1>7 DEF Row
  <2>2. ASSUME conflict.status = "RESOLVED" PROVE conflict.winner \in Active(View(q))'
    <3>1. conflict.winner \in Active(claims) /\ conflict.winner # n
      BY <1>1, <1>3, <2>2 DEF Tables, WinnerActive, Active, ActiveTypes
    <3>2. QED
      BY <1>7, <3>1 DEF Active
  <2>3. QED
    BY <1>5, <1>7, <2>1, <2>2 DEF Electing
<1>12. QED
  BY <1>3, <1>5, <1>6, <1>8, <1>9, <1>10, <1>11, AcquireStep DEF Local

(* A curator's transaction that locks the claim it elects. *)
LEMMA ElectStep ==
    ASSUME IInv, NEW q \in Processes, NEW w \in ClaimIds, NEW row \in ClaimRows,
           NEW t \in Transactions, txn[q].pc \in {"lock", "override"},
           t.pc = "resolve", t.claim = w, t.seen = txn[q].seen, t.draft[w] = row,
           Lineage(row), row.type \in ActiveTypes, claims[w].type # "SUPERSEDED",
           Acquire(q, {w}, t), UNCHANGED <<eventLock, conflictLock>>
    PROVE  IInv'
<1>1. TypeOK /\ Tables /\ Local(q)
  BY DEF IInv
<1>2. conflictLock # q /\ \A c \in ClaimIds : claimLock[c] # q
  BY <1>1 DEF Local, Locks
<1>3. /\ UNCHANGED <<claims, conflict, absorbed>> /\ txn'[q] = t
      /\ \A c \in ClaimIds : claimLock'[c] = q <=> c = w
  BY <1>1, <1>2, Acquired
<1>4. Locks(q)'
  BY <1>2, <1>3 DEF Locks, Machinery
<1>5. Reading(q)'
  BY <1>1, <1>3 DEF Local, Reading, Reconciling
<1>6. Drafting(q)'
  BY <1>2, <1>3 DEF Drafting, Lineage
<1>7. Electing(q)'
  BY <1>3 DEF Electing
<1>8. QED
  BY <1>4, <1>5, <1>6, <1>7, AcquireStep DEF Local

LEMMA InsertOverrideStep ==
    ASSUME IInv, NEW q \in Processes, InsertOverride(q)
    PROVE  IInv'
<1>1. TypeOK /\ Local(q) /\ txn[q].pc = "override"
  BY DEF IInv, InsertOverride, At
<1> DEFINE new == NewClaim(txn[q].feed, txn[q].value, "MANUAL_OVERRIDE")
<1>2. PICK n \in Fresh :
         /\ LockClaims({n}, q)
         /\ Step(q, [txn[q] EXCEPT !.pc = "resolve", !.claim = n, !.value = NoValue,
                                   !.draft[n] = new])
  BY DEF InsertOverride
<1> DEFINE t == [txn[q] EXCEPT !.pc = "resolve", !.claim = n, !.value = NoValue, !.draft[n] = new]
<1>3. n \in ClaimIds /\ claims[n].type = "NONE" /\ claimLock[n] = NoProcess
  BY DEF Fresh, Unused
<1>4. txn[q] \in Transactions /\ txn[q].feed = <<Curator, NoRecord>>
      /\ txn[q].value \in Values \cup {NoValue} /\ txn[q].draft \in [ClaimIds -> ClaimRows]
  BY <1>1, Typed DEF Local, Drafting, Transactions
<1>5. new \in ClaimRows /\ new.type \in ActiveTypes /\ Lineage(new)
  BY <1>4, NewClaimFacts DEF ActiveTypes
<1> HIDE DEF new
<1>6. /\ t \in Transactions /\ t.pc = "resolve" /\ t.claim = n /\ t.seen = txn[q].seen
      /\ t.draft[n] = new
  <2>1. [txn[q].draft EXCEPT ![n] = new] \in [ClaimIds -> ClaimRows]
    BY <1>4, <1>5
  <2>2. /\ t = [txn[q] EXCEPT !.pc = "resolve", !.claim = n, !.value = NoValue,
                             !.draft = [txn[q].draft EXCEPT ![n] = new]]
        /\ [txn[q].draft EXCEPT ![n] = new][n] = new
    BY <1>3, <1>4 DEF Transactions
  <2>3. QED
    BY <1>3, <1>4, <2>1, <2>2 DEF Transactions, Labels
<1>7. Acquire(q, {n}, t)
  <2>1. UNCHANGED <<dbVars, eventLock, conflictLock>> /\ sharers' = sharers \cup {q}
    BY DEF InsertOverride
  <2>2. QED
    BY <1>1, <1>2, <1>3, <2>1 DEF Acquire, TypeOK, Lockable, Free
<1>8. UNCHANGED <<eventLock, conflictLock>>
  BY DEF InsertOverride
<1>9. claims[n].type # "SUPERSEDED"
  BY <1>3
<1> HIDE DEF t
<1>10. QED
  BY <1>1, <1>3, <1>5, <1>6, <1>7, <1>8, <1>9, ElectStep

LEMMA LockWinnerStep ==
    ASSUME IInv, NEW q \in Processes, LockWinner(q)
    PROVE  IInv'
<1>1. TypeOK /\ Tables /\ Local(q) /\ txn[q].pc = "lock"
  BY DEF IInv, LockWinner, At
<1> DEFINE w == txn[q].claim
           t == [txn[q] EXCEPT !.pc = "resolve", !.draft[w] = claims[w]]
<1>2. w \in ClaimIds /\ claims[w].type \in ActiveTypes
  BY DEF LockWinner, Active
<1>3. /\ txn[q] \in Transactions /\ txn[q].draft \in [ClaimIds -> ClaimRows]
      /\ claims[w] \in ClaimRows
  BY <1>1, <1>2, Typed
<1> HIDE DEF w
<1>4. /\ t \in Transactions /\ t.pc = "resolve" /\ t.claim = w /\ t.seen = txn[q].seen
      /\ t.draft[w] = claims[w]
  <2>1. [txn[q].draft EXCEPT ![w] = claims[w]] \in [ClaimIds -> ClaimRows]
    BY <1>3
  <2>2. /\ t = [txn[q] EXCEPT !.pc = "resolve", !.draft = [txn[q].draft EXCEPT ![w] = claims[w]]]
        /\ [txn[q].draft EXCEPT ![w] = claims[w]][w] = claims[w]
    BY <1>2, <1>3 DEF Transactions
  <2>3. QED
    BY <1>3, <2>1, <2>2 DEF Transactions, Labels, w
<1>5. Acquire(q, {w}, t)
  BY <1>1 DEF Acquire, LockWinner, TypeOK, w
<1>6. UNCHANGED <<eventLock, conflictLock>>
  BY DEF LockWinner
<1>7. Lineage(claims[w]) /\ claims[w].type # "SUPERSEDED"
  BY <1>1, <1>2 DEF Tables, ActiveTypes
<1> HIDE DEF t
<1>8. QED
  BY <1>1, <1>2, <1>3, <1>4, <1>5, <1>6, <1>7, ElectStep

(* A version check that succeeds means that the row is the one it was decided  *)
(* on.                                                                         *)
LEMMA SaveFacts ==
    ASSUME IInv, NEW q \in Processes, NEW row \in Conflicts, NEW label \in Labels,
           Save(q, row, label)
    PROVE  LET t == [txn[q] EXCEPT !.pc = label, !.row = row] IN
           /\ txn[q].seen = conflict
           /\ t \in Transactions /\ t.pc = label /\ t.row = row /\ t.seen = txn[q].seen
           /\ t.draft = txn[q].draft /\ t.claim = txn[q].claim
           /\ Acquire(q, {}, t) /\ txn'[q] = t
           /\ UNCHANGED <<claims, conflict, absorbed, eventLock, claimLock>> /\ conflictLock' = q
<1> DEFINE t == [txn[q] EXCEPT !.pc = label, !.row = row]
<1>1. TypeOK /\ Local(q) /\ txn[q] \in Transactions
  BY Typed DEF IInv
<1>2. txn[q].seen = conflict
  BY <1>1 DEF Save, Local, Reading
<1>3. /\ t \in Transactions /\ t.pc = label /\ t.row = row /\ t.seen = txn[q].seen
      /\ t.draft = txn[q].draft /\ t.claim = txn[q].claim
  BY <1>1 DEF Transactions
<1>4. Acquire(q, {}, t)
  <2>1. LockClaims({}, q)
    BY <1>1 DEF Save, LockClaims, TypeOK
  <2>2. QED
    BY <1>1, <2>1 DEF Save, Acquire, Lockable, TypeOK
<1>5. txn'[q] = t
  BY <1>1 DEF Save, Step, TypeOK
<1>6. QED
  BY <1>2, <1>3, <1>4, <1>5 DEF Save, dbVars

LEMMA SaveResolutionStep ==
    ASSUME IInv, NEW q \in Processes, SaveResolution(q)
    PROVE  IInv'
<1>1. TypeOK /\ Tables /\ Local(q) /\ txn[q].pc = "resolve"
  BY DEF IInv, SaveResolution, At
<1> DEFINE row == Resolved(conflict, txn[q].claim, "USER_RESOLVED")
           t   == [txn[q] EXCEPT !.pc = "losers", !.row = row]
<1>2. conflict \in Conflicts /\ txn[q].claim \in ClaimIds /\ conflict.version \in Nat
  BY <1>1, Typed DEF Local, Electing
<1>3. row \in Conflicts /\ row.version = conflict.version + 1 /\ row.status = "RESOLVED"
  BY <1>2, RowFacts
<1>4. /\ txn[q].seen = conflict
      /\ t \in Transactions /\ t.pc = "losers" /\ t.row = row /\ t.seen = txn[q].seen
      /\ t.draft = txn[q].draft /\ t.claim = txn[q].claim
      /\ Acquire(q, {}, t) /\ txn'[q] = t
      /\ UNCHANGED <<claims, conflict, absorbed, eventLock, claimLock>> /\ conflictLock' = q
  BY <1>3, SaveFacts DEF SaveResolution, Labels
<1> HIDE DEF t
<1>5. Locks(q)'
  BY <1>4 DEF Locks, Machinery
<1>6. Reading(q)'
  BY <1>2, <1>4 DEF Reading
<1>7. Drafting(q)'
  BY <1>1, <1>2, <1>3, <1>4 DEF Local, Drafting, Lineage
<1>8. Electing(q)'
  BY <1>1, <1>4 DEF Local, Electing, Resolved
<1>9. QED
  BY <1>4, <1>5, <1>6, <1>7, <1>8, AcquireStep DEF Local

LEMMA SaveReopenStep ==
    ASSUME IInv, NEW q \in Processes, SaveReopen(q)
    PROVE  IInv'
<1>1. TypeOK /\ Tables /\ Local(q) /\ txn[q].pc = "reopen"
  BY DEF IInv, SaveReopen, At
<1> DEFINE row == Reopened(conflict, {}, "USER_REOPENED")
           t   == [txn[q] EXCEPT !.pc = "finish", !.row = row]
<1>2. conflict \in Conflicts /\ conflict.version \in Nat
  BY <1>1, Typed
<1>3. /\ row \in Conflicts /\ row.version = conflict.version + 1
      /\ row.status = "OPEN" /\ row.reason = "USER_REOPENED"
  BY <1>2, ReopenedFacts
<1>4. /\ txn[q].seen = conflict
      /\ t \in Transactions /\ t.pc = "finish" /\ t.row = row /\ t.seen = txn[q].seen
      /\ t.draft = txn[q].draft /\ t.claim = txn[q].claim
      /\ Acquire(q, {}, t) /\ txn'[q] = t
      /\ UNCHANGED <<claims, conflict, absorbed, eventLock, claimLock>> /\ conflictLock' = q
  BY <1>3, SaveFacts DEF SaveReopen, Labels
<1> HIDE DEF t
<1>5. Locks(q)'
  BY <1>4 DEF Locks, Machinery
<1>6. Reading(q)'
  BY <1>2, <1>4 DEF Reading
<1>7. Drafting(q)'
  BY <1>1, <1>2, <1>3, <1>4 DEF Local, Drafting, Lineage
<1>8. Electing(q)'
  BY <1>1, <1>3, <1>4 DEF Local, Electing
<1>9. QED
  BY <1>4, <1>5, <1>6, <1>7, <1>8, AcquireStep DEF Local

LEMMA SupersedeLosersStep ==
    ASSUME IInv, NEW q \in Processes, SupersedeLosers(q)
    PROVE  IInv'
<1>1. TypeOK /\ Tables /\ Local(q) /\ txn[q].pc = "losers"
  BY DEF IInv, SupersedeLosers, At
<1> DEFINE winner == txn[q].claim
           losers == (Row(q).links \ {winner}) \cap Active(View(q))
           super  == Superseded(View(q), losers, winner)
           draft  == Drafted(q, losers, super)
           t      == [txn[q] EXCEPT !.pc = "finish", !.draft = draft]
<1>2. /\ Lockable(losers, q) /\ LockClaims(losers, q) /\ Step(q, t)
      /\ UNCHANGED <<dbVars, eventLock, sharers, conflictLock>>
  BY DEF SupersedeLosers
<1>3. losers \in SUBSET ClaimIds /\ losers \subseteq Active(View(q)) /\ winner \notin losers
  BY DEF Active
<1>4. /\ winner \in ClaimIds /\ claimLock[winner] = q /\ conflictLock = q
      /\ txn[q].draft[winner].type \in ActiveTypes
      /\ txn[q].row = Resolved(conflict, winner, "USER_RESOLVED")
      /\ txn[q].seen = conflict
  BY <1>1 DEF Local, Locks, Reading, Electing
<1> HIDE DEF losers, winner
<1>5. /\ super \in [ClaimIds -> ClaimRows]
      /\ \A c \in ClaimIds : Lineage(super[c])
  <2>1. View(q) \in [ClaimIds -> ClaimRows] /\ \A c \in ClaimIds : Lineage(View(q)[c])
    BY <1>1, Sees, ViewLineage
  <2>2. QED
    BY <1>3, <1>4, <2>1, SupersededLineage
<1> HIDE DEF super
<1>6. /\ draft \in [ClaimIds -> ClaimRows]
      /\ \A c \in losers : draft[c] = super[c]
      /\ \A c \in ClaimIds \ losers : draft[c] = txn[q].draft[c]
  BY <1>1, <1>3, <1>5, DraftedTyped DEF Drafted
<1> HIDE DEF draft
<1>7. /\ t \in Transactions /\ t.pc = "finish" /\ t.draft = draft /\ t.seen = conflict
      /\ t.row = txn[q].row
  <2>1. txn[q] \in Transactions
    BY <1>1, Typed
  <2>2. QED
    BY <1>4, <1>6, <2>1 DEF Transactions, Labels
<1>8. Acquire(q, losers, t)
  BY <1>1, <1>2 DEF Acquire, TypeOK
<1> HIDE DEF t
<1>9. /\ UNCHANGED <<claims, conflict, absorbed, eventLock, conflictLock>> /\ txn'[q] = t
      /\ \A c \in ClaimIds : claimLock'[c] = q <=> c \in losers \/ claimLock[c] = q
  BY <1>1, <1>2, <1>3, <1>7, <1>8, Acquired
<1>10. ASSUME NEW c \in ClaimIds, claimLock'[c] = q
       PROVE  Lineage(draft[c]) /\ claims[c].type # "SUPERSEDED"
  <2>1. CASE claimLock[c] = q
    <3>1. Lineage(txn[q].draft[c]) /\ claims[c].type # "SUPERSEDED"
      BY <1>1, <2>1 DEF Local, Drafting
    <3>2. QED
      BY <1>5, <1>6, <3>1
  <2>2. CASE claimLock[c] # q
    <3>1. c \in losers /\ View(q)[c] = claims[c]
      BY <1>1, <1>9, <1>10, <2>2, Sees
    <3>2. claims[c].type \in ActiveTypes
      BY <1>3, <3>1 DEF Active
    <3>3. QED
      BY <1>5, <1>6, <3>1, <3>2 DEF ActiveTypes
  <2>3. QED
    BY <2>1, <2>2
<1>11. Locks(q)'
  BY <1>4, <1>7, <1>9 DEF Locks, Machinery
<1>12. Reading(q)'
  BY <1>1, <1>7, <1>9, Typed DEF Reading
<1>13. Drafting(q)'
  BY <1>1, <1>4, <1>7, <1>9, <1>10 DEF Local, Drafting, Lineage
<1>14. Electing(q)'
  <2>1. /\ t.row.status = "RESOLVED" /\ t.row.reason = "USER_RESOLVED"
        /\ t.row.winner = winner
    BY <1>1, <1>4, <1>7, Typed, RowFacts
  <2>2. claimLock'[winner] = q /\ t.draft[winner].type \in ActiveTypes
    BY <1>3, <1>4, <1>6, <1>7, <1>9
  <2>3. QED
    BY <1>4, <1>7, <1>9, <2>1, <2>2 DEF Electing
<1>15. QED
  BY <1>3, <1>7, <1>8, <1>11, <1>12, <1>13, <1>14, AcquireStep DEF Local

LEMMA ReviveLosersStep ==
    ASSUME IInv, NEW q \in Processes, ReviveLosers(q)
    PROVE  IInv'
<1>1. TypeOK /\ Tables /\ Local(q) /\ txn[q].pc = "revive"
  BY DEF IInv, ReviveLosers, At
<1> DEFINE winner == txn[q].seen.winner
           losers == {c \in conflict.links : winner # NoClaim /\ claims[c].by = winner}
           back   == Reactivated(View(q), losers)
           draft  == Drafted(q, losers, back)
           t      == [txn[q] EXCEPT !.pc = "reopen", !.draft = draft]
<1>2. /\ Lockable(losers, q) /\ LockClaims(losers, q) /\ Step(q, t)
      /\ UNCHANGED <<dbVars, eventLock, sharers, conflictLock>>
  BY DEF ReviveLosers
<1>3. losers \in SUBSET ClaimIds
  BY <1>1, Typed DEF Conflicts
<1>4. \A c \in losers :  /\ c \in conflict.links /\ claims[c].by = winner /\ winner # NoClaim
                         /\ claims[c].type = "SUPERSEDED" /\ claims[c].was \in ActiveTypes
                         /\ (claims[c].was = "MANUAL_OVERRIDE" <=> claims[c].source = Curator)
  BY <1>1, <1>3 DEF Tables, Lineage
<1>5. /\ conflictLock # q
      /\ \A c \in ClaimIds : claimLock[c] # q /\ View(q)[c] = claims[c]
  BY <1>1, Sees DEF Local, Locks
<1>6. /\ back \in [ClaimIds -> ClaimRows]
      /\ \A c \in losers : back[c].type = claims[c].was /\ Lineage(back[c])
  <2> DEFINE revived(c) == [View(q)[c] EXCEPT !.type = View(q)[c].was, !.by = NoClaim, !.was = "NONE"]
  <2>1. /\ back \in [ClaimIds -> {revived(c) : c \in losers} \cup {View(q)[c] : c \in ClaimIds}]
        /\ \A c \in losers : back[c] = revived(c)
    BY <1>3 DEF Reactivated
  <2>2. ASSUME NEW c \in losers
        PROVE  /\ revived(c) \in ClaimRows /\ revived(c).type = claims[c].was
               /\ Lineage(revived(c))
    <3>1. claims[c] \in ClaimRows /\ View(q)[c] = claims[c]
      BY <1>1, <1>3, <1>5, Typed
    <3>2. /\ revived(c) \in ClaimRows /\ revived(c).type = claims[c].was
          /\ revived(c).by = NoClaim /\ revived(c).source = claims[c].source
      BY <1>4, <3>1 DEF ClaimRows
    <3>3. claims[c].was \in ActiveTypes /\ (claims[c].was = "MANUAL_OVERRIDE" <=> claims[c].source = Curator)
      BY <1>4
    <3> HIDE DEF revived, winner, losers
    <3>4. Lineage(revived(c))
      BY <3>2, <3>3 DEF Lineage, ActiveTypes
    <3>5. QED
      BY <3>2, <3>4
  <2>3. \A c \in ClaimIds : View(q)[c] \in ClaimRows
    BY <1>1, Sees
  <2> HIDE DEF back, revived, losers
  <2>4. QED
    BY <2>1, <2>2, <2>3
<1> HIDE DEF back, losers
<1>7. /\ draft \in [ClaimIds -> ClaimRows]
      /\ \A c \in losers : draft[c] = back[c]
  BY <1>1, <1>3, <1>6, DraftedTyped DEF Drafted
<1> HIDE DEF draft
<1>8. /\ t \in Transactions /\ t.pc = "reopen" /\ t.draft = draft /\ t.seen = txn[q].seen
  BY <1>1, <1>7, Typed DEF Transactions, Labels
<1>9. Acquire(q, losers, t)
  BY <1>1, <1>2 DEF Acquire, TypeOK
<1> HIDE DEF t
<1>10. /\ UNCHANGED <<claims, conflict, absorbed, eventLock, conflictLock>> /\ txn'[q] = t
       /\ \A c \in ClaimIds : claimLock'[c] = q <=> c \in losers
  BY <1>1, <1>2, <1>3, <1>5, <1>8, <1>9, Acquired
<1>11. Locks(q)'
  BY <1>5, <1>8, <1>10 DEF Locks, Machinery
<1>12. Reading(q)'
  BY <1>1, <1>8, <1>10 DEF Local, Reading, Reconciling
<1>13. Drafting(q)'
  <2>1. ASSUME NEW c \in losers
        PROVE  Lineage(t.draft[c]) /\ t.draft[c].type = claims[c].was
    BY <1>6, <1>7, <1>8
  <2>2. ASSUME NEW c \in ClaimIds, (claimLock[c] = q)'
        PROVE  (/\ Lineage(txn[q].draft[c])
                /\ txn[q].seen = conflict =>
                      /\ c \in conflict.links /\ claims[c].by = conflict.winner
                      /\ txn[q].draft[c].type = claims[c].was)'
    <3>1. c \in losers
      BY <1>10, <2>2
    <3>2. Lineage(txn[q].draft[c])'
      BY <1>10, <2>1, <3>1 DEF Lineage
    <3>3. c \in conflict.links /\ claims[c].by = winner /\ t.draft[c].type = claims[c].was
      BY <1>4, <2>1, <3>1
    <3>4. QED
      BY <1>8, <1>10, <3>2, <3>3
  <2>3. QED
    BY <1>5, <1>8, <1>10, <2>2 DEF Drafting
<1>14. Electing(q)'
  BY <1>1, <1>8, <1>10 DEF Local, Electing
<1>15. QED
  BY <1>3, <1>8, <1>9, <1>11, <1>12, <1>13, <1>14, AcquireStep DEF Local
--------------------------------------------------------------------------------
(* Ends of transactions. *)

LEMMA Released ==
    ASSUME TypeOK, NEW q \in Processes, Release(q)
    PROVE  /\ txn'[q] = Idle /\ \A p \in Processes \ {q} : txn'[p] = txn[p]
           /\ conflictLock' # q /\ \A c \in ClaimIds : claimLock'[c] # q
           /\ \A p \in Processes \ {q} :
                 /\ eventLock = p => eventLock' = p
                 /\ conflictLock' = p <=> conflictLock = p
                 /\ \A c \in ClaimIds : claimLock'[c] = p <=> claimLock[c] = p
           /\ eventLock' \in Processes \cup {NoProcess} /\ sharers' \subseteq Processes
           /\ conflictLock' \in Processes \cup {NoProcess}
           /\ claimLock' \in [ClaimIds -> Processes \cup {NoProcess}]
           /\ txn' \in [Processes -> Transactions]
<1>1. txn' = [txn EXCEPT ![q] = Idle] /\ txn \in [Processes -> Transactions]
  BY DEF Release, Step, TypeOK
<1>2. txn'[q] = Idle /\ \A p \in Processes \ {q} : txn'[p] = txn[p]
  BY <1>1
<1>3. txn' \in [Processes -> Transactions]
  BY <1>1, IdleTyped
<1>4. /\ eventLock' = IF eventLock = q THEN NoProcess ELSE eventLock
      /\ sharers' = sharers \ {q}
      /\ conflictLock' = IF conflictLock = q THEN NoProcess ELSE conflictLock
      /\ claimLock' = [c \in ClaimIds |-> IF claimLock[c] = q THEN NoProcess ELSE claimLock[c]]
  BY DEF Release
<1>5. \A p \in Processes : p # NoProcess
  BY ProcessFacts
<1>6. claimLock' \in [ClaimIds -> Processes \cup {NoProcess}]
  BY <1>4 DEF TypeOK
<1>7. /\ eventLock' \in Processes \cup {NoProcess} /\ sharers' \subseteq Processes
      /\ conflictLock' \in Processes \cup {NoProcess}
  BY <1>4 DEF TypeOK
<1>8. QED
  BY <1>2, <1>3, <1>4, <1>5, <1>6, <1>7

(* A transaction that has not begun relies on nothing. *)
LEMMA IdleLocal ==
    ASSUME TypeOK', Tables', NEW q \in Processes, txn'[q] = Idle, conflictLock' # q,
           \A c \in ClaimIds : claimLock'[c] # q
    PROVE  Local(q)'
<1>1. Idle.pc = "idle" /\ Idle.seen = NoConflict /\ NoConflict.version = 0
  BY DEF Idle, NoConflict
<1>2. conflict'.version \in Nat
  BY DEF TypeOK, Conflicts
<1>3. Locks(q)'
  BY <1>1 DEF Locks, Machinery
<1>4. Reading(q)'
  BY <1>1, <1>2 DEF Reading, Tables, Reconciling
<1>5. Drafting(q)'
  BY <1>1 DEF Drafting
<1>6. Electing(q)'
  BY <1>1 DEF Electing
<1>7. QED
  BY <1>3, <1>4, <1>5, <1>6 DEF Local

LEMMA RollbackStep ==
    ASSUME IInv, NEW q \in Processes, Rollback(q)
    PROVE  IInv'
<1>1. TypeOK /\ Tables /\ Release(q) /\ UNCHANGED <<claims, conflict, absorbed>>
  BY DEF IInv, Rollback, dbVars
<1>2. TypeOK'
  BY <1>1, Released DEF TypeOK
<1>3. Tables'
  BY <1>1 DEF Tables, Lineage, WinnerActive, Active, Detected, ValuesOf
<1>4. Frame(q)
  BY <1>1, Released DEF Frame, dbVars
<1>5. Local(q)'
  BY <1>1, <1>2, <1>3, Released, IdleLocal
<1>6. QED
  BY <1>2, <1>3, <1>4, <1>5, FrameStep

(* A commit replaces no row another transaction has locked, and is made under  *)
(* the lock of the event, or while nobody has it.                              *)
LEMMA CommitStep ==
    ASSUME IInv, NEW q \in Processes, NEW rows \in [ClaimIds -> ClaimRows], NEW row \in Conflicts,
           Commit(q, rows, row), absorbed' \in BOOLEAN, eventLock \in {q, NoProcess},
           \A c \in ClaimIds : Lineage(rows[c]),
           \A c \in ClaimIds : ~Free(claimLock[c], q) => rows[c] = claims[c],
           \/ row = conflict
           \/ Free(conflictLock, q) /\ row.version > conflict.version /\ row.status # "NONE",
           row.status = "RESOLVED" /\ ~absorbed' => row.winner \in Active(rows),
           Detected(rows) /\ ~absorbed' => row.status = "OPEN" \/ row.reason = "USER_RESOLVED"
    PROVE  IInv'
<1>1. TypeOK /\ Tables /\ Release(q) /\ claims' = rows /\ conflict' = row
  BY DEF IInv, Commit
<1>2. TypeOK'
  BY <1>1, Released DEF TypeOK
<1>3. conflict.version \in Nat
  BY <1>1, Typed
<1>4. Tables'
  <2>1. (\A c \in ClaimIds : Lineage(claims[c]))'
    BY <1>1 DEF Lineage
  <2>2. (conflict.version = 0 \/ conflict.status = "NONE" => conflict = NoConflict)'
    BY <1>1, <1>3 DEF Tables
  <2>3. WinnerActive'
    BY <1>1 DEF WinnerActive, Active
  <2>4. (Detected(claims) /\ ~absorbed =>
          conflict.status = "OPEN" \/ conflict.reason = "USER_RESOLVED")'
    BY <1>1 DEF Detected, ValuesOf, Active
  <2>5. QED
    BY <2>1, <2>2, <2>3, <2>4 DEF Tables
<1>5. Frame(q)
  <2> SUFFICES ASSUME NEW p \in Processes \ {q}
               PROVE  /\ txn'[p] = txn[p]
                      /\ eventLock # p
                      /\ conflictLock' = p <=> conflictLock = p
                      /\ conflictLock = p => conflict' = conflict
                      /\ \A c \in ClaimIds : claimLock'[c] = p <=> claimLock[c] = p
                      /\ \A c \in ClaimIds : claimLock[c] = p => claims'[c] = claims[c]
    BY <1>1 DEF Frame
  <2>1. p # NoProcess
    BY ProcessFacts
  <2>2. conflictLock = p => conflict' = conflict
    BY <1>1, <2>1 DEF Free
  <2>3. \A c \in ClaimIds : claimLock[c] = p => claims'[c] = claims[c]
    BY <1>1, <2>1 DEF Free
  <2>4. QED
    BY <1>1, <2>1, <2>2, <2>3, Released
<1>6. Local(q)'
  BY <1>1, <1>2, <1>4, Released, IdleLocal
<1>7. QED
  BY <1>2, <1>4, <1>5, <1>6, FrameStep

(* What q sees may be committed. *)
LEMMA ViewCommits ==
    ASSUME IInv, NEW q \in Processes
    PROVE  /\ View(q) \in [ClaimIds -> ClaimRows]
           /\ \A c \in ClaimIds : Lineage(View(q)[c])
           /\ \A c \in ClaimIds : ~Free(claimLock[c], q) => View(q)[c] = claims[c]
           /\ Row(q) \in Conflicts /\ conflict \in Conflicts
           /\ \/ Row(q) = conflict
              \/ /\ Free(conflictLock, q)
                 /\ Row(q).version > conflict.version /\ Row(q).status # "NONE"
           /\ Row(q).version \in Nat /\ conflict.version \in Nat
           /\ Row(q).version >= conflict.version
<1>1. TypeOK /\ Local(q)
  BY DEF IInv
<1>2. View(q) \in [ClaimIds -> ClaimRows] /\ \A c \in ClaimIds : Lineage(View(q)[c])
  BY <1>1, Sees, ViewLineage
<1>3. \A c \in ClaimIds : ~Free(claimLock[c], q) => View(q)[c] = claims[c]
  BY <1>1, Sees DEF Free
<1>4. \/ Row(q) = conflict
      \/ /\ Free(conflictLock, q)
         /\ Row(q).version > conflict.version /\ Row(q).status # "NONE"
  BY <1>1 DEF Row, Free, Local, Drafting
<1>5. Row(q) \in Conflicts /\ conflict \in Conflicts
  BY <1>1, Sees, Typed
<1>6. Row(q).version \in Nat /\ conflict.version \in Nat
  BY <1>5 DEF Conflicts
<1>7. QED
  BY <1>2, <1>3, <1>4, <1>5, <1>6

LEMMA DetectConflictStep ==
    ASSUME IInv, NEW q \in Processes, DetectConflict(q)
    PROVE  IInv'
<1> DEFINE active == Active(View(q))
           row == Applied(Row(q), active)
<1>1. TypeOK /\ Local(q) /\ txn[q].pc = "detect"
  BY DEF IInv, DetectConflict, At
<1>2. eventLock = q /\ absorbed' \in BOOLEAN
  BY <1>1 DEF Local, Locks, Machinery, DetectConflict, TypeOK
<1>3. active \in SUBSET ClaimIds
  BY DEF Active
<1> HIDE DEF active
<1>4. row \in Conflicts /\ row.status = "OPEN" /\ row.version > conflict.version
  <2>1. Row(q) \in Conflicts /\ Row(q).version \in Nat /\ conflict.version \in Nat
        /\ Row(q).version >= conflict.version
    BY ViewCommits
  <2>2. CASE Row(q).status = "OPEN"
    <3>1. row = WithEvidence(Row(q), active)
      BY <2>2 DEF Applied
    <3>2. Row(q).links \cup active \subseteq ClaimIds /\ Row(q).version + 1 \in Nat
      BY <1>3, <2>1 DEF Conflicts
    <3>3. /\ WithEvidence(Row(q), active) \in Conflicts
          /\ WithEvidence(Row(q), active).status = "OPEN"
          /\ WithEvidence(Row(q), active).version = Row(q).version + 1
      BY <2>1, <2>2, <3>2 DEF WithEvidence, Conflicts
    <3>4. QED
      BY <2>1, <3>1, <3>3
  <2>3. CASE Row(q).status = "RESOLVED"
    <3>1. row = Reopened(Row(q), active, "NEW_EVIDENCE")
      BY <2>3 DEF Applied
    <3>2. QED
      BY <1>3, <2>1, <3>1, ReopenedFacts
  <2>4. CASE Row(q).status = "NONE"
    <3>1. row = Opened(active)
      BY <2>4 DEF Applied
    <3>2. /\ Opened(active) \in Conflicts /\ Opened(active).status = "OPEN"
          /\ Opened(active).version = 1
      BY <1>3 DEF Opened, Conflicts
    <3>3. conflict.version = 0
      BY <2>4, ViewCommits DEF IInv, Tables, NoConflict
    <3>4. QED
      BY <3>1, <3>2, <3>3
  <2>5. QED
    BY <2>1, <2>2, <2>3, <2>4 DEF Conflicts
<1> HIDE DEF row
<1>5. Commit(q, View(q), row) /\ Free(conflictLock, q)
  BY DEF DetectConflict, row, active
<1>6. QED
  BY <1>2, <1>4, <1>5, ViewCommits, CommitStep

LEMMA DetectNothingStep ==
    ASSUME IInv, NEW q \in Processes, DetectNothing(q)
    PROVE  IInv'
<1>1. TypeOK /\ Local(q) /\ txn[q].pc = "detect"
  BY DEF IInv, DetectNothing, At
<1>2. eventLock = q /\ absorbed' \in BOOLEAN
  BY <1>1 DEF Local, Locks, Machinery, DetectNothing, TypeOK
<1>3. Row(q).status = "RESOLVED" => Row(q).winner \in Active(View(q))
  BY <1>1 DEF Local, Electing
<1>4. Commit(q, View(q), Row(q)) /\ ~Detected(View(q))
  BY DEF DetectNothing
<1>5. QED
  BY <1>2, <1>3, <1>4, ViewCommits, CommitStep

LEMMA CloseAsMergedStep ==
    ASSUME IInv, NEW q \in Processes, CloseAsMerged(q)
    PROVE  IInv'
<1>1. TypeOK /\ Local(q) /\ txn[q].pc = "close"
  BY DEF IInv, CloseAsMerged, At
<1>2. eventLock = q /\ absorbed' = TRUE
  BY <1>1 DEF Local, Locks, Machinery, CloseAsMerged
<1> DEFINE active == Active(View(q))
           rows == Superseded(View(q), active, Elsewhere)
           row  == IF conflict.status = "OPEN" THEN ClosedAsMerged(conflict) ELSE conflict
<1>3. active \in SUBSET ClaimIds
  BY DEF Active
<1>4. Commit(q, rows, row) /\ Lockable(active, q) /\ (conflict.status = "OPEN" => Free(conflictLock, q))
  BY DEF CloseAsMerged
<1> HIDE DEF active
<1>5. /\ rows \in [ClaimIds -> ClaimRows]
      /\ \A c \in ClaimIds : Lineage(rows[c])
      /\ \A c \in ClaimIds \ active : rows[c] = View(q)[c]
  BY <1>3, ViewCommits, SupersededLineage DEF active
<1>6. /\ row \in Conflicts
      /\ \/ row = conflict
         \/ Free(conflictLock, q) /\ row.version > conflict.version /\ row.status # "NONE"
  <2>1. conflict \in Conflicts /\ conflict.version + 1 \in Nat /\ conflict.version + 1 > conflict.version
    BY ViewCommits
  <2>2. /\ ClosedAsMerged(conflict) \in Conflicts
        /\ ClosedAsMerged(conflict).version = conflict.version + 1
        /\ ClosedAsMerged(conflict).status = "RESOLVED"
    BY <2>1 DEF ClosedAsMerged, Conflicts
  <2>3. QED
    BY <1>4, <2>1, <2>2
<1> HIDE DEF rows, row
<1>7. \A c \in ClaimIds : ~Free(claimLock[c], q) => rows[c] = claims[c]
  BY <1>4, <1>5, ViewCommits DEF Lockable
<1>8. QED
  BY <1>2, <1>4, <1>5, <1>6, <1>7, CommitStep

LEMMA FinishStep ==
    ASSUME IInv, NEW q \in Processes, Finish(q)
    PROVE  IInv'
<1>1. TypeOK /\ Local(q) /\ txn[q].pc = "finish"
  BY DEF IInv, Finish, At
<1>2. eventLock = NoProcess /\ absorbed' \in BOOLEAN
  BY <1>1 DEF Finish, ShareEvent, TypeOK
<1>3. Row(q) = txn[q].row
  BY <1>1 DEF Row, Local, Locks
<1>4. \/ /\ Row(q).status = "RESOLVED" /\ Row(q).reason = "USER_RESOLVED"
         /\ Row(q).winner \in Active(View(q))
      \/ Row(q).status = "OPEN"
  BY <1>1, <1>3, Sees DEF Local, Electing, Active
<1>5. Commit(q, View(q), Row(q))
  BY DEF Finish
<1>6. QED
  BY <1>2, <1>4, <1>5, ViewCommits, CommitStep
--------------------------------------------------------------------------------
LEMMA InitInv == Init => IInv
<1> SUFFICES ASSUME Init PROVE IInv
  OBVIOUS
<1>1. NoRow \in ClaimRows /\ NoRow.type = "NONE" /\ NoRow.by = NoClaim
  BY DEF NoRow, ClaimRows, Sources, Records, ActiveTypes
<1>2. NoConflict \in Conflicts /\ NoConflict.status = "NONE" /\ NoConflict.version = 0
  BY DEF NoConflict, Conflicts
<1>3. TypeOK
  BY <1>1, <1>2, IdleTyped DEF Init, TypeOK
<1>4. \A c \in ClaimIds : claims[c] = NoRow
  BY DEF Init
<1>5. ~Detected(claims)
  <2>1. Active(claims) = {}
    BY <1>1, <1>4 DEF Active, ActiveTypes
  <2>2. ValuesOf(Active(claims), claims) = {}
    BY <2>1 DEF ValuesOf
  <2>3. Cardinality({}) = 0
    BY FS_EmptySet
  <2>4. QED
    BY <2>2, <2>3 DEF Detected
<1>6. Tables
  BY <1>1, <1>2, <1>4, <1>5 DEF Tables, Init, WinnerActive, Lineage, ActiveTypes
<1>7. ASSUME NEW p \in Processes PROVE Local(p)
  <2>1. txn[p] = Idle /\ conflictLock # p /\ eventLock # p /\ \A c \in ClaimIds : claimLock[c] # p
    BY ProcessFacts DEF Init
  <2>2. Idle.pc = "idle" /\ Idle.seen = NoConflict /\ conflict = NoConflict
    BY DEF Idle, Init
  <2>3. Locks(p)
    BY <2>1, <2>2 DEF Locks, Machinery
  <2>4. Reading(p)
    BY <1>2, <2>1, <2>2 DEF Reading
  <2>5. Drafting(p)
    BY <2>1, <2>2 DEF Drafting
  <2>6. Electing(p)
    BY <2>1, <2>2 DEF Electing
  <2>7. QED
    BY <2>3, <2>4, <2>5, <2>6 DEF Local
<1>8. QED
  BY <1>3, <1>6, <1>7 DEF IInv

LEMMA NextInv == IInv /\ [Next]_vars => IInv'
<1> SUFFICES ASSUME IInv, [Next]_vars PROVE IInv'
  OBVIOUS
<1>1. CASE UNCHANGED vars
  <2>1. UNCHANGED <<claims, conflict, absorbed, eventLock, sharers, conflictLock, claimLock, txn>>
    BY <1>1 DEF vars, dbVars, lockVars
  <2>2. TypeOK'
    BY <2>1 DEF IInv, TypeOK
  <2>3. Tables'
    BY <2>1 DEF IInv, Tables, Lineage, WinnerActive, Active, Detected, ValuesOf
  <2>4. ASSUME NEW p \in Processes PROVE Local(p)'
    <3>1. Local(p)
      BY DEF IInv
    <3>2. Locks(p)'
      BY <2>1, <3>1 DEF Local, Locks
    <3>3. Reading(p)'
      BY <2>1, <3>1 DEF Local, Reading
    <3>4. Drafting(p)'
      BY <2>1, <3>1 DEF Local, Drafting, Lineage
    <3>5. Electing(p)'
      BY <2>1, <3>1 DEF Local, Electing, Active, View, Row, Resolved
    <3>6. QED
      BY <3>2, <3>3, <3>4, <3>5 DEF Local
  <2>5. QED
    BY <2>2, <2>3, <2>4 DEF IInv
<1>2. ASSUME NEW q \in Processes, Machine(q) PROVE IInv'
  BY <1>2, IngestStep, WriteClaimsStep, ReconcileWinnerStep, AutoCloseStep, NothingToCloseStep,
     DetectConflictStep, DetectNothingStep DEF Machine
<1>3. ASSUME NEW q \in Processes, Merging(q) PROVE IInv'
  BY <1>3, TransferStep, AbsorbStep, CloseAsMergedStep DEF Merging
<1>4. ASSUME NEW q \in Processes, Curation(q) PROVE IInv'
  <2>1. WinnerLost(q) \/ Modified(q) => IInv'
    BY RollbackStep DEF WinnerLost, Modified
  <2>2. QED
    BY <1>4, <2>1, ResolveStep, OverrideStep, InsertOverrideStep, LockWinnerStep,
       SaveResolutionStep, SupersedeLosersStep, ReopenStep, ReviveLosersStep, SaveReopenStep,
       FinishStep DEF Curation
<1>5. ASSUME NEW q \in Processes, Abort(q) PROVE IInv'
  BY <1>5, RollbackStep DEF Abort
<1>6. QED
  BY <1>1, <1>2, <1>3, <1>4, <1>5 DEF Next

(* Behind their locks the transactions keep the invariant. *)
THEOREM Invariance == Spec => []IInv
<1>1. QED
  BY InitInv, NextInv, PTL DEF Spec

(* Claims, conflict rows, locks and transactions keep their types. *)
THEOREM TypeCorrect == Spec => []TypeOK
<1>1. IInv => TypeOK
  BY DEF IInv
<1>2. QED
  BY <1>1, Invariance, PTL

(* The winner of a resolved conflict of a living event is an active claim. *)
THEOREM WinnersStand == Spec => []WinnerActive
<1>1. IInv => WinnerActive
  BY DEF IInv, Tables
<1>2. QED
  BY <1>1, Invariance, PTL

(* Sources that disagree are in the curators' queue or decided by one, and no  *)
(* ingestion or merge sees the conflict change under it.                       *)
THEOREM DisputesQueued == Spec => []DisputeQueued
<1>1. IInv => DisputeQueued
  <2> SUFFICES ASSUME IInv PROVE DisputeQueued
    OBVIOUS
  <2>1. ReconcilerUnraced
    BY DEF IInv, Local, Reading, Reconciling, ReconcilerUnraced
  <2>2. QED
    BY <2>1 DEF IInv, Tables, DisputeQueued
<1>2. QED
  BY <1>1, Invariance, PTL
--------------------------------------------------------------------------------
(* What a step does to the tables: nothing, or it is the commit of one process. *)
LEMMA Commits ==
    ASSUME IInv, Next
    PROVE  \/ UNCHANGED <<claims, conflict>>
           \/ \E q \in Processes : DetectConflict(q) \/ DetectNothing(q) \/ CloseAsMerged(q) \/ Finish(q)
<1>1. PICK q \in Processes : Machine(q) \/ Merging(q) \/ Curation(q) \/ Abort(q)
  BY DEF Next
<1>2. CASE Machine(q)
  BY <1>2 DEF Machine, Ingest, WriteClaims, ReconcileWinner, AutoClose, NothingToClose, Rewrite,
              dbVars
<1>3. CASE Merging(q)
  BY <1>3 DEF Merging, Transfer, Absorb, dbVars
<1>4. CASE Curation(q)
  BY <1>4 DEF Curation, Resolve, Override, InsertOverride, LockWinner, WinnerLost, SaveResolution,
              SupersedeLosers, Reopen, ReviveLosers, SaveReopen, Modified, Save, Rollback, dbVars
<1>5. CASE Abort(q)
  BY <1>5 DEF Abort, Rollback, dbVars
<1>6. QED
  BY <1>1, <1>2, <1>3, <1>4, <1>5

LEMMA LineageNext == IInv /\ [Next]_vars => LineageStep
<1> SUFFICES ASSUME IInv, [Next]_vars, NEW c \in ClaimIds, claims[c].type = "SUPERSEDED",
                    claims'[c] # claims[c]
             PROVE  /\ conflict.status = "RESOLVED" /\ conflict'.status = "OPEN"
                    /\ conflict'.reason = "USER_REOPENED"
                    /\ c \in conflict.links /\ claims[c].by = conflict.winner
                    /\ (claims'[c].type = "MANUAL_OVERRIDE" <=> claims[c].source = Curator)
  BY DEF LineageStep
<1>1. Next
  BY DEF vars, dbVars
<1>2. PICK q \in Processes : DetectConflict(q) \/ DetectNothing(q) \/ CloseAsMerged(q) \/ Finish(q)
  BY <1>1, Commits
<1>3. TypeOK /\ Tables /\ Local(q)
  BY DEF IInv
<1>4. ASSUME claims' = View(q)
      PROVE  claimLock[c] = q /\ claims'[c] = txn[q].draft[c] /\ txn[q].pc \in {"reopen", "finish"}
  <2>1. claimLock[c] = q
    BY <1>3, <1>4, Sees
  <2>2. QED
    BY <1>3, <1>4, <2>1, Sees DEF Local, Drafting
<1>5. CASE DetectConflict(q) \/ DetectNothing(q)
  BY <1>4, <1>5 DEF DetectConflict, DetectNothing, Commit, At
<1>6. CASE CloseAsMerged(q)
  <2>1. claims' = Superseded(View(q), Active(View(q)), Elsewhere) /\ txn[q].pc = "close"
    BY <1>6 DEF CloseAsMerged, Commit, At
  <2>2. View(q)[c] = claims[c]
    BY <1>3, <2>1, Sees DEF Local, Locks
  <2>3. c \notin Active(View(q))
    BY <2>2 DEF Active, ActiveTypes
  <2>4. claims'[c] = claims[c]
    BY <2>1, <2>2, <2>3 DEF Superseded
  <2>5. QED
    BY <2>4
<1>7. CASE Finish(q)
  <2>1. claims' = View(q) /\ conflict' = Row(q) /\ txn[q].pc = "finish"
    BY <1>7 DEF Finish, Commit, At
  <2>2. Row(q) = txn[q].row /\ txn[q].seen = conflict
    BY <1>3, <2>1 DEF Row, Local, Locks, Reading
  <2>3. claimLock[c] = q /\ claims'[c] = txn[q].draft[c]
    BY <1>4, <2>1
  <2>4. /\ txn[q].row.status = "OPEN" /\ c \in conflict.links /\ claims[c].by = conflict.winner
        /\ txn[q].draft[c].type = claims[c].was
    BY <1>3, <2>1, <2>2, <2>3 DEF Local, Drafting
  <2>5. txn[q].row.reason = "USER_REOPENED" /\ conflict.status = "RESOLVED"
    BY <1>3, <2>1, <2>4 DEF Local, Electing
  <2>6. claims[c].was = "MANUAL_OVERRIDE" <=> claims[c].source = Curator
    BY <1>3 DEF Tables, Lineage
  <2>7. QED
    BY <2>1, <2>2, <2>3, <2>4, <2>5, <2>6
<1>8. QED
  BY <1>2, <1>5, <1>6, <1>7

(* The lineage of a superseded claim changes only when the conflict its        *)
(* superseder won is reopened by a curator.                                    *)
THEOREM LineageIsKept == Spec => LineageKept
<1>1. IInv /\ [Next]_vars => [LineageStep]_vars
  BY LineageNext
<1>2. QED
  BY <1>1, Invariance, PTL DEF Spec, LineageKept

LEMMA DecisionNext == IInv /\ [Next]_vars => [DecisionStep]_vars
<1> SUFFICES ASSUME IInv, NEW p \in Processes, At(p, "finish") PROVE conflict = txn[p].seen
  BY DEF DecisionStep
<1>1. QED
  BY DEF IInv, Local, Reading, At

(* The conflict a curator's commit replaces is the one the curator read. *)
THEOREM DecisionsKept == Spec => NoLostDecision
<1>1. QED
  BY DecisionNext, Invariance, PTL DEF Spec, NoLostDecision
================================================================================
