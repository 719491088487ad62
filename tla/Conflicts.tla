-------------------------------- MODULE Conflicts --------------------------------
(* The claims of one field of one accident event and the conflict row about    *)
(* them, under concurrent ingestion (ClaimWriter, ConflictReconciler), curator *)
(* decisions (ResolveConflict, ReopenConflict) and merges                      *)
(* (MergeDuplicateEvents, with this event as the source or as the target).     *)
(*                                                                             *)
(* Every operation is one READ COMMITTED transaction.  Its writes sit in its   *)
(* draft, behind the row locks it holds, until its commit.  The row of the     *)
(* event is locked FOR UPDATE by ingestion and merge; a curator's transaction  *)
(* only shares it, through the foreign keys of the claim, history and activity *)
(* rows it inserts, and so cannot insert while an ingestion or merge holds it. *)
(*                                                                             *)
(* One conflict row is enough: an event that is not absorbed never has a       *)
(* RESOLVED row without a winner (WinnerActive), so try_add_open is reached    *)
(* only when the field has no row at all.                                      *)
EXTENDS Integers, FiniteSets

CONSTANTS
    ClaimIds,      \* ids of claims; bound on the claims ever written
    Values,        \* normalised claim values
    Feeds,         \* <<source, record>>: what ingests, record may be NoRecord
    Curator,       \* the CuratorOverride source
    NoRecord,      \* source_record_id IS NULL
    NoClaim,       \* NULL claim id
    Elsewhere,     \* a claim of another event
    NoValue,       \* the value of an id not yet used
    Processes,     \* requests
    NoProcess,     \* a lock nobody holds
    MaxVersion     \* bound on claim_conflicts.version

ASSUME ConflictsAssumption ==
    /\ ClaimIds \subseteq Nat
    /\ NoClaim \notin ClaimIds /\ Elsewhere \notin ClaimIds
    /\ NoProcess \notin Processes
    /\ NoValue \notin Values
    /\ \A f \in Feeds : f[1] # Curator
    /\ MaxVersion \in Nat

VARIABLES
    claims,        \* [ClaimIds -> ClaimRows], committed
    conflict,      \* the claim_conflicts row and its links, committed
    absorbed,      \* merged_into_event_id IS NOT NULL
    eventLock,     \* holder of the accident_events row FOR UPDATE
    sharers,       \* holders of its key-share lock
    conflictLock,  \* holder of the claim_conflicts row
    claimLock,     \* [ClaimIds -> holder]
    txn            \* [Processes -> Transactions]

dbVars   == <<claims, conflict, absorbed>>
lockVars == <<eventLock, sharers, conflictLock, claimLock>>
vars     == <<dbVars, lockVars, txn>>

Sources     == {f[1] : f \in Feeds} \cup {Curator}
Records     == {f[2] : f \in Feeds} \cup {NoRecord}
ActiveTypes == {"RAW", "MANUAL_OVERRIDE"}
ClaimRows   == [source : Sources, record : Records, value : Values \cup {NoValue},
                type : ActiveTypes \cup {"NONE", "SUPERSEDED"},
                by : ClaimIds \cup {NoClaim, Elsewhere}, was : ActiveTypes \cup {"NONE"}]
Conflicts   == [status : {"NONE", "OPEN", "RESOLVED"}, version : Nat,
                winner : ClaimIds \cup {NoClaim}, links : SUBSET ClaimIds,
                reason : {"INITIAL", "NEW_EVIDENCE", "USER_RESOLVED", "USER_REOPENED",
                          "SYSTEM_AUTO_CLOSED"}]
Labels      == {"idle", "write", "reconcile", "autoclose", "detect", "close",
                "lock", "override", "resolve", "losers", "revive", "reopen", "finish"}

NoRow == [source |-> Curator, record |-> NoRecord, value |-> NoValue, type |-> "NONE",
          by |-> NoClaim, was |-> "NONE"]
NoConflict == [status |-> "NONE", version |-> 0, winner |-> NoClaim, links |-> {},
               reason |-> "INITIAL"]

(* Local variables of a transaction: what it ingests, the conflict row as it   *)
(* last read it, the claim it writes or elects, and its uncommitted rows.      *)
Transactions ==
    [pc : Labels, feed : Feeds \cup {<<Curator, NoRecord>>}, value : Values \cup {NoValue},
     claim : ClaimIds \cup {NoClaim}, seen : Conflicts, row : Conflicts,
     draft : [ClaimIds -> ClaimRows]]

Idle == [pc |-> "idle", feed |-> <<Curator, NoRecord>>, value |-> NoValue, claim |-> NoClaim,
         seen |-> NoConflict, row |-> NoConflict, draft |-> [c \in ClaimIds |-> NoRow]]

TypeOK ==
    /\ claims \in [ClaimIds -> ClaimRows]
    /\ conflict \in Conflicts
    /\ absorbed \in BOOLEAN
    /\ eventLock \in Processes \cup {NoProcess}
    /\ sharers \subseteq Processes
    /\ conflictLock \in Processes \cup {NoProcess}
    /\ claimLock \in [ClaimIds -> Processes \cup {NoProcess}]
    /\ txn \in [Processes -> Transactions]

(* An event whose field nobody has claimed yet.                                *)
Init ==
    /\ claims = [c \in ClaimIds |-> NoRow]
    /\ conflict = NoConflict
    /\ absorbed = FALSE
    /\ eventLock = NoProcess
    /\ sharers = {}
    /\ conflictLock = NoProcess
    /\ claimLock = [c \in ClaimIds |-> NoProcess]
    /\ txn = [p \in Processes |-> Idle]
--------------------------------------------------------------------------------
(* Transactions and locks.                                                     *)

At(p, label) == txn[p].pc = label

(* What a process reads: its own uncommitted rows, else the committed ones.    *)
View(p) == [c \in ClaimIds |-> IF claimLock[c] = p THEN txn[p].draft[c] ELSE claims[c]]
Row(p)  == IF conflictLock = p THEN txn[p].row ELSE conflict

Free(lock, p) == lock \in {p, NoProcess}
Lockable(ids, p) == \A c \in ids : Free(claimLock[c], p)

(* SELECT ... FOR UPDATE or UPDATE of the claims ids, giving them these rows.  *)
LockClaims(ids, p) ==
    claimLock' = [c \in ClaimIds |-> IF c \in ids THEN p ELSE claimLock[c]]

Drafted(p, ids, rows) ==
    [c \in ClaimIds |-> IF c \in ids THEN rows[c] ELSE txn[p].draft[c]]

Step(p, t) == txn' = [txn EXCEPT ![p] = t]

(* COMMIT of the claims and the conflict row a process sees, or ROLLBACK.      *)
Release(p) ==
    /\ Step(p, Idle)
    /\ eventLock' = IF eventLock = p THEN NoProcess ELSE eventLock
    /\ sharers' = sharers \ {p}
    /\ conflictLock' = IF conflictLock = p THEN NoProcess ELSE conflictLock
    /\ claimLock' = [c \in ClaimIds |-> IF claimLock[c] = p THEN NoProcess ELSE claimLock[c]]

Commit(p, rows, row) ==
    /\ claims' = rows
    /\ conflict' = row
    /\ Release(p)

Rollback(p) == UNCHANGED dbVars /\ Release(p)

LockEvent(p) ==
    /\ eventLock = NoProcess
    /\ sharers \subseteq {p}
    /\ eventLock' = p

ShareEvent(p) == eventLock = NoProcess
--------------------------------------------------------------------------------
(* Claims.                                                                     *)

Active(rows) == {c \in ClaimIds : rows[c].type \in ActiveTypes}

ValuesOf(ids, rows) == {rows[c].value : c \in ids}

(* bulk_supersede, and the history row that keeps the type for a later reopen. *)
Superseded(rows, ids, by) ==
    [c \in ClaimIds |-> IF c \in ids
                        THEN [rows[c] EXCEPT !.type = "SUPERSEDED", !.by = by, !.was = rows[c].type]
                        ELSE rows[c]]

(* bulk_unsupersede.                                                           *)
Reactivated(rows, ids) ==
    [c \in ClaimIds |-> IF c \in ids
                        THEN [rows[c] EXCEPT !.type = rows[c].was, !.by = NoClaim, !.was = "NONE"]
                        ELSE rows[c]]

(* ConflictDetector.detect: two values, from at least two sources.             *)
Detected(rows) ==
    /\ Cardinality(ValuesOf(Active(rows), rows)) > 1
    /\ Cardinality({rows[c].source : c \in Active(rows)}) > 1

(* A uuid nobody uses; its row is invisible to others until the commit.  Ids   *)
(* are interchangeable here, so the least one stands for all.                  *)
Unused == {c \in ClaimIds : claims[c].type = "NONE" /\ claimLock[c] = NoProcess}

Fresh == {c \in Unused : \A d \in Unused : c <= d}

NewClaim(feed, value, type) ==
    [source |-> feed[1], record |-> feed[2], value |-> value, type |-> type,
     by |-> NoClaim, was |-> "NONE"]
--------------------------------------------------------------------------------
(* Conflict rows, and the version-checked updates of update_with_version_check *)

Reopened(row, evidence, reason) ==
    [row EXCEPT !.status = "OPEN", !.winner = NoClaim, !.links = @ \cup evidence,
                !.reason = reason, !.version = @ + 1]

Resolved(row, winner, reason) ==
    [row EXCEPT !.status = "RESOLVED", !.winner = winner, !.links = @ \cup {winner},
                !.reason = reason, !.version = @ + 1]

(* Mutant of Rewon: the superseded winner stays.                               *)
Unwon(row, winner) ==
    [row EXCEPT !.links = @ \cup {winner}, !.version = @ + 1]

Rewon(row, winner) ==
    [row EXCEPT !.winner = winner, !.links = @ \cup {winner}, !.version = @ + 1]

WithEvidence(row, evidence) ==
    [row EXCEPT !.links = @ \cup evidence, !.reason = "NEW_EVIDENCE", !.version = @ + 1]

ClosedAsMerged(row) ==
    [row EXCEPT !.status = "RESOLVED", !.winner = NoClaim, !.reason = "SYSTEM_AUTO_CLOSED",
                !.version = @ + 1]

Opened(evidence) ==
    [status |-> "OPEN", version |-> 1, winner |-> NoClaim, links |-> evidence,
     reason |-> "INITIAL"]
--------------------------------------------------------------------------------
(* Ingestion and merge: the event row stays locked until the commit.           *)

Room == conflict.version < MaxVersion

Ingest(p, feed, value) ==
    /\ At(p, "idle") /\ Room
    /\ ~absorbed
    /\ LockEvent(p)
    /\ Step(p, [Idle EXCEPT !.pc = "write", !.feed = feed, !.value = value])
    /\ UNCHANGED <<dbVars, sharers, conflictLock, claimLock>>

(* The active claims a feed replaces: those of its source record, or all those *)
(* of its source when it names no record.                                      *)
Prior(feed, rows) ==
    {c \in Active(rows) : /\ rows[c].source = feed[1]
                          /\ feed[2] = NoRecord \/ rows[c].record = feed[2]}

(* ClaimWriter.write_normalised.  Without a record every active claim of the   *)
(* field is read FOR UPDATE.                                                   *)
WriteClaims(p) ==
    /\ At(p, "write")
    /\ \E n \in Fresh :
         LET feed   == txn[p].feed
             prior  == Prior(feed, View(p))
             locked == {n} \cup IF feed[2] = NoRecord THEN Active(View(p)) ELSE prior
             rows   == [Superseded(View(p), prior, n)
                           EXCEPT ![n] = NewClaim(feed, txn[p].value, "RAW")]
             lost   == conflict.status = "RESOLVED" /\ conflict.winner \in prior
         IN /\ Lockable(locked, p)
            /\ LockClaims(locked, p)
            /\ Step(p, [txn[p] EXCEPT
                  !.pc = IF lost THEN "reconcile" ELSE IF prior # {} THEN "autoclose" ELSE "detect",
                  !.feed = Idle.feed, !.value = NoValue, !.claim = n, !.seen = conflict,
                  !.draft = Drafted(p, locked, rows)])
    /\ UNCHANGED <<dbVars, eventLock, sharers, conflictLock>>

(* A step of the reconciler that rewrites the conflict row after reading the   *)
(* active claims FOR UPDATE.                                                   *)
Rewrite(p, row, label) ==
    LET active == Active(View(p)) IN
    /\ Lockable(active, p) /\ Free(conflictLock, p)
    /\ LockClaims(active, p)
    /\ conflictLock' = p
    /\ Step(p, [txn[p] EXCEPT !.pc = label, !.claim = NoClaim, !.row = row,
                            !.draft = Drafted(p, active, View(p))])
    /\ UNCHANGED <<dbVars, eventLock, sharers>>

(* _reconcile_resolved_winner: the correction inherits the win, or reopens.    *)
ReconcileWinner(p) ==
    LET active == Active(View(p)) IN
    /\ At(p, "reconcile")
    /\ Rewrite(p, IF Cardinality(ValuesOf(active, View(p))) = 1
                  THEN Rewon(Row(p), txn[p].claim)
                  ELSE Reopened(Row(p), active, "NEW_EVIDENCE"), "autoclose")

(* _auto_resolve_stale_open_conflict: the winner is any of the active claims.  *)
AutoClose(p) ==
    LET active == Active(View(p)) IN
    /\ At(p, "autoclose")
    /\ Row(p).status = "OPEN"
    /\ Cardinality(ValuesOf(active, View(p))) = 1
    /\ \E w \in active : Rewrite(p, Resolved(Row(p), w, "SYSTEM_AUTO_CLOSED"), "detect")

NothingToClose(p) ==
    LET active == Active(View(p))
        locked == IF Row(p).status = "OPEN" THEN active ELSE {}
    IN
    /\ At(p, "autoclose")
    /\ Row(p).status # "OPEN" \/ Cardinality(ValuesOf(active, View(p))) > 1
    /\ Lockable(locked, p)
    /\ LockClaims(locked, p)
    /\ Step(p, [txn[p] EXCEPT !.pc = "detect", !.claim = NoClaim, !.draft = Drafted(p, locked, View(p))])
    /\ UNCHANGED <<dbVars, eventLock, sharers, conflictLock>>

(* Mutant of Applied: a decided conflict is never reopened by evidence.        *)
AppliedToOpen(row, evidence) ==
    CASE row.status = "OPEN"     -> WithEvidence(row, evidence)
      [] row.status = "RESOLVED" -> row
      [] row.status = "NONE"     -> Opened(evidence)

(* detect_and_apply_new_conflicts: _merge_evidence_into_open,                  *)
(* _reopen_resolved_for_evidence (two values, so one contradicts the winner),  *)
(* or a new row.                                                               *)
Applied(row, evidence) ==
    CASE row.status = "OPEN"     -> WithEvidence(row, evidence)
      [] row.status = "RESOLVED" -> Reopened(row, evidence, "NEW_EVIDENCE")
      [] row.status = "NONE"     -> Opened(evidence)

DetectConflict(p) ==
    /\ At(p, "detect")
    /\ Detected(View(p))
    /\ Free(conflictLock, p)
    /\ Commit(p, View(p), Applied(Row(p), Active(View(p))))
    /\ UNCHANGED absorbed

DetectNothing(p) ==
    /\ At(p, "detect")
    /\ ~Detected(View(p))
    /\ Commit(p, View(p), Row(p))
    /\ UNCHANGED absorbed

(* A merge into this event copies a claim, and supersedes nothing here.  A     *)
(* source record belongs to one event (SourceRecordContinuity), so no claim of *)
(* a record this event already has comes from another one.                     *)
Transfer(p, feed, value) ==
    /\ At(p, "idle") /\ Room
    /\ ~absorbed
    /\ feed[2] # NoRecord => \A c \in ClaimIds : claims[c].record # feed[2]
    /\ LockEvent(p)
    /\ \E n \in Fresh :
         LET copy == NewClaim(feed, value, IF feed[1] = Curator THEN "MANUAL_OVERRIDE" ELSE "RAW")
         IN /\ LockClaims({n}, p)
            /\ Step(p, [Idle EXCEPT !.pc = "detect", !.seen = conflict, !.draft[n] = copy])
    /\ UNCHANGED <<dbVars, sharers, conflictLock>>

(* A merge of this event into another one, which takes its active claims.      *)
Absorb(p) ==
    /\ At(p, "idle") /\ Room
    /\ ~absorbed
    /\ LockEvent(p)
    /\ Step(p, [Idle EXCEPT !.pc = "close", !.seen = conflict])
    /\ UNCHANGED <<dbVars, sharers, conflictLock, claimLock>>

(* bulk_supersede by the copies, then close_event_conflicts_as_merged, which   *)
(* leaves a RESOLVED row alone.                                                *)
CloseAsMerged(p) ==
    /\ At(p, "close")
    /\ Lockable(Active(View(p)), p)
    /\ conflict.status = "OPEN" => Free(conflictLock, p)
    /\ absorbed' = TRUE
    /\ Commit(p, Superseded(View(p), Active(View(p)), Elsewhere),
              IF conflict.status = "OPEN" THEN ClosedAsMerged(conflict) ELSE conflict)
--------------------------------------------------------------------------------
(* Curators: optimistic, by the version of the conflict row.                   *)

Resolve(p, w) ==
    /\ At(p, "idle") /\ Room
    /\ conflict.status = "OPEN"
    /\ w \in conflict.links
    /\ w \in Active(claims)
    /\ Step(p, [Idle EXCEPT !.pc = "lock", !.claim = w, !.seen = conflict])
    /\ UNCHANGED <<dbVars, lockVars>>

Override(p, value) ==
    /\ At(p, "idle") /\ Room
    /\ conflict.status = "OPEN"
    /\ Step(p, [Idle EXCEPT !.pc = "override", !.value = value, !.seen = conflict])
    /\ UNCHANGED <<dbVars, lockVars>>

(* The MANUAL_OVERRIDE claim, its history row and its link.                    *)
InsertOverride(p) ==
    /\ At(p, "override")
    /\ ShareEvent(p)
    /\ sharers' = sharers \cup {p}
    /\ \E n \in Fresh :
         /\ LockClaims({n}, p)
         /\ Step(p, [txn[p] EXCEPT !.pc = "resolve", !.claim = n, !.value = NoValue,
               !.draft[n] = NewClaim(txn[p].feed, txn[p].value, "MANUAL_OVERRIDE")])
    /\ UNCHANGED <<dbVars, eventLock, conflictLock>>

(* claims.lock_for_update and the second can_win.                              *)
LockWinner(p) ==
    LET w == txn[p].claim IN
    /\ At(p, "lock")
    /\ Lockable({w}, p)
    /\ w \in Active(claims)
    /\ LockClaims({w}, p)
    /\ Step(p, [txn[p] EXCEPT !.pc = "resolve", !.draft[w] = claims[w]])
    /\ UNCHANGED <<dbVars, eventLock, sharers, conflictLock>>

WinnerLost(p) ==
    /\ At(p, "lock")
    /\ Lockable({txn[p].claim}, p)
    /\ txn[p].claim \notin Active(claims)
    /\ Rollback(p)

(* Mutant of Save: UPDATE ... WHERE id = :id.                                  *)
SaveUnchecked(p, row, label) ==
    /\ Free(conflictLock, p)
    /\ conflictLock' = p
    /\ Step(p, [txn[p] EXCEPT !.pc = label, !.row = row])
    /\ UNCHANGED <<dbVars, eventLock, sharers, claimLock>>

(* update_with_version_check of a curator.                                     *)
Save(p, row, label) ==
    /\ Free(conflictLock, p)
    /\ conflict.version = txn[p].seen.version
    /\ conflictLock' = p
    /\ Step(p, [txn[p] EXCEPT !.pc = label, !.row = row])
    /\ UNCHANGED <<dbVars, eventLock, sharers, claimLock>>

SaveResolution(p) ==
    /\ At(p, "resolve")
    /\ Save(p, Resolved(conflict, txn[p].claim, "USER_RESOLVED"), "losers")

SaveReopen(p) ==
    /\ At(p, "reopen")
    /\ Save(p, Reopened(conflict, {}, "USER_REOPENED"), "finish")

(* ConflictModifiedError.                                                      *)
Modified(p) ==
    /\ At(p, "resolve") \/ At(p, "reopen")
    /\ Free(conflictLock, p)
    /\ conflict.version # txn[p].seen.version
    /\ Rollback(p)

(* The linked claims that can still win lose to the winner.                    *)
SupersedeLosers(p) ==
    LET winner == txn[p].claim
        losers == (Row(p).links \ {winner}) \cap Active(View(p))
    IN
    /\ At(p, "losers")
    /\ Lockable(losers, p)
    /\ LockClaims(losers, p)
    /\ Step(p, [txn[p] EXCEPT !.pc = "finish",
                  !.draft = Drafted(p, losers, Superseded(View(p), losers, winner))])
    /\ UNCHANGED <<dbVars, eventLock, sharers, conflictLock>>

(* The history and activity rows, the reprojection and the commit.             *)
Finish(p) ==
    /\ At(p, "finish")
    /\ ShareEvent(p)
    /\ Commit(p, View(p), Row(p))
    /\ UNCHANGED absorbed

Reopen(p) ==
    /\ At(p, "idle") /\ Room
    /\ conflict.status = "RESOLVED"
    /\ Step(p, [Idle EXCEPT !.pc = "revive", !.seen = conflict])
    /\ UNCHANGED <<dbVars, lockVars>>

(* Mutant of ReviveLosers: every superseded claim of the conflict comes back.  *)
ReviveAllLinked(p) ==
    LET losers == {c \in conflict.links : claims[c].type = "SUPERSEDED"} IN
    /\ At(p, "revive")
    /\ Lockable(losers, p)
    /\ LockClaims(losers, p)
    /\ Step(p, [txn[p] EXCEPT !.pc = "reopen",
                  !.draft = Drafted(p, losers, Reactivated(View(p), losers))])
    /\ UNCHANGED <<dbVars, eventLock, sharers, conflictLock>>

(* The linked claims that the winner superseded become active again.           *)
ReviveLosers(p) ==
    LET winner == txn[p].seen.winner
        losers == {c \in conflict.links : winner # NoClaim /\ claims[c].by = winner}
    IN
    /\ At(p, "revive")
    /\ Lockable(losers, p)
    /\ LockClaims(losers, p)
    /\ Step(p, [txn[p] EXCEPT !.pc = "reopen",
                  !.draft = Drafted(p, losers, Reactivated(View(p), losers))])
    /\ UNCHANGED <<dbVars, eventLock, sharers, conflictLock>>
--------------------------------------------------------------------------------
(* Failures.                                                                   *)

(* A deadlock victim, a cancelled request, a lost connection or a crash.       *)
Abort(p) ==
    /\ ~At(p, "idle")
    /\ Rollback(p)

Machine(p) ==
    \/ \E feed \in Feeds, v \in Values : Ingest(p, feed, v)
    \/ WriteClaims(p) \/ ReconcileWinner(p) \/ AutoClose(p) \/ NothingToClose(p)
    \/ DetectConflict(p) \/ DetectNothing(p)

Merging(p) ==
    \/ \E feed \in Feeds \cup {<<Curator, NoRecord>>}, v \in Values : Transfer(p, feed, v)
    \/ Absorb(p) \/ CloseAsMerged(p)

Curation(p) ==
    \/ \E w \in ClaimIds : Resolve(p, w)
    \/ \E v \in Values : Override(p, v)
    \/ InsertOverride(p) \/ LockWinner(p) \/ WinnerLost(p)
    \/ SaveResolution(p) \/ SupersedeLosers(p)
    \/ Reopen(p) \/ ReviveLosers(p) \/ SaveReopen(p)
    \/ Modified(p) \/ Finish(p)

Next == \E p \in Processes : Machine(p) \/ Merging(p) \/ Curation(p) \/ Abort(p)

Spec == Init /\ [][Next]_vars
--------------------------------------------------------------------------------
(* Properties.                                                                 *)

(* While an ingestion or a merge works on the event, nobody commits a change   *)
(* to the conflict row it has read: the retries of ConflictReconciler after a  *)
(* failed version check, and its "resolved during evidence merge" exit, cannot *)
(* be reached, because a curator has to share the event row to finish.         *)
ReconcilerUnraced ==
    \A p \in Processes :
        txn[p].pc \in {"reconcile", "autoclose", "detect", "close"} => txn[p].seen = conflict

(* The winner of a resolved conflict of a living event can win: neither a      *)
(* correction of the winning claim nor a merge racing the curator leaves the   *)
(* decision pointing at a superseded claim.                                    *)
WinnerActive ==
    conflict.status = "RESOLVED" /\ ~absorbed => conflict.winner \in Active(claims)

(* Sources that disagree about the field of a living event are in the          *)
(* curators' queue, or a curator has decided: the machine alone neither misses *)
(* a disagreement nor closes one, and is never interrupted where it would.     *)
DisputeQueued ==
    /\ Detected(claims) /\ ~absorbed =>
          conflict.status = "OPEN" \/ conflict.reason = "USER_RESOLVED"
    /\ ReconcilerUnraced

(* A step that changes a superseded claim is the reopening of the conflict     *)
(* whose winner superseded it.                                                 *)
LineageStep ==
    \A c \in ClaimIds :
        claims[c].type = "SUPERSEDED" /\ claims'[c] # claims[c] =>
            /\ conflict.status = "RESOLVED" /\ conflict'.status = "OPEN"
            /\ conflict'.reason = "USER_REOPENED"
            /\ c \in conflict.links /\ claims[c].by = conflict.winner
            /\ (claims'[c].type = "MANUAL_OVERRIDE" <=> claims[c].source = Curator)

(* The supersession lineage of a claim is audit evidence: it is never          *)
(* overwritten, and only the reopening of the very conflict whose winner       *)
(* superseded the claim takes it back, with the type it was written with.      *)
LineageKept == [][LineageStep]_vars

(* A curator's transaction that ends by changing the row had read that row.    *)
DecisionStep ==
    \A p \in Processes :
        At(p, "finish") /\ txn'[p].pc = "idle" /\ conflict' # conflict =>
            conflict = txn[p].seen

(* A curator decides about the conflict as it was read: the row that a resolve *)
(* or a reopen replaces is the row, version, status and evidence, it was       *)
(* decided on.                                                                 *)
NoLostDecision == [][DecisionStep]_vars

(* Reopening a curator's decision restores the dispute it had settled          *)
(* (ARCHITECTURE.md: "exactly as it was"): a claim comes back because it lost, *)
(* never because a correction of its own source record had replaced it.        *)
DisputeRestored ==
    [][\A c \in ClaimIds :
          /\ conflict.reason = "USER_RESOLVED"
          /\ claims[c].type = "SUPERSEDED" /\ claims[c].record # NoRecord
          /\ claims[c].by \in ClaimIds /\ claims[claims[c].by].record = claims[c].record
          => claims'[c].type = "SUPERSEDED"]_vars
================================================================================
