----------------------------- MODULE OutboxWorker -----------------------------
(* The transactional outbox and the worker processes that drain it:           *)
(* OutboxWorker.run_loop over SqlOutboxRepository, with the Echo              *)
(* cross-reference results and the usage meter that Echo jobs write in a      *)
(* transaction of their own.                                                  *)
(*                                                                            *)
(* Time is one bit per row: elapsed[e] says that the deadline the row carries *)
(* (next_attempt_at while FAILED, locked_at plus the stale-lock window while  *)
(* PROCESSING) lies in the past.  A step of a process is one transaction, or  *)
(* one read whose result the process uses in a later transaction.             *)
EXTENDS Integers, FiniteSets

CONSTANTS
    Events,        \* outbox rows, numbered in created_at order
    Kind,          \* event_type of each row
    Processes,     \* worker processes
    WorkerId,      \* worker_id each process runs under; need not be injective
    NoWorker,      \* locked_by IS NULL
    NoEvent,       \* a process that is not working on a row
    MaxAttempts,   \* settings.outbox_max_attempts
    BatchLimit,    \* process_batch(limit)
    MaxFaults      \* bound: crashes and escaped errors in one behaviour

(* OTHER is a type this worker's release does not know: a newer release may   *)
(* add one in a migration while older workers are still running.              *)
Kinds == {"CLAIMS_UPDATED", "ECHO_CROSSREF_REQUESTED", "OTHER"}

ASSUME OutboxAssumption ==
    /\ Events \subseteq Nat
    /\ Kind \in [Events -> Kinds]
    /\ MaxAttempts \in Nat \ {0}
    /\ BatchLimit \in Nat \ {0}
    /\ MaxFaults \in Nat
    /\ NoEvent \notin Events
    /\ \A p \in Processes : WorkerId[p] # NoWorker

VARIABLES
    status,      \* [Events -> Statuses]: outbox_events.status
    attempts,    \* [Events -> Nat]: attempt_count
    lockedBy,    \* locked_by
    elapsed,     \* [Events -> BOOLEAN]: the row's deadline has passed
    projected,   \* [Events -> Nat]: reprojections committed for the row
    result,      \* [Events -> ResultStates]: the Echo job's crossref result
    meter,       \* [Events -> Nat]: ECHO_CROSSREF_RUN usage events of the job
    pc,          \* [Processes -> Labels]
    lease,       \* [Processes -> [Events -> Nat]]: attempt_count under which a
                 \*   process locked a row it still has to handle; 0 for none
    current,     \* the row a process is working on
    orphans,     \* Echo rows a sweep dead-lettered, results still to be failed
    faults       \* faults so far

rowVars  == <<status, attempts, lockedBy, elapsed>>
workVars == <<projected, result, meter>>
procVars == <<pc, lease, current, orphans>>
vars     == <<rowVars, workVars, procVars, faults>>

Statuses == {"ABSENT", "PENDING", "PROCESSING", "PROCESSED", "FAILED", "DEAD_LETTER"}
Terminal == {"PROCESSED", "DEAD_LETTER"}
ResultStates == {"NONE", "PENDING", "COMPLETE", "FAILED"}
Labels == {"idle", "batch", "echo", "ack", "failing", "failresult", "sweeping", "down"}
Handling == {"echo", "ack", "failing", "failresult"}

IsEcho(e) == Kind[e] = "ECHO_CROSSREF_REQUESTED"
NoLeases  == [e \in Events |-> 0]

TypeOK ==
    /\ status \in [Events -> Statuses]
    /\ attempts \in [Events -> 0..MaxAttempts]
    /\ lockedBy \in [Events -> {WorkerId[p] : p \in Processes} \cup {NoWorker}]
    /\ elapsed \in [Events -> BOOLEAN]
    /\ projected \in [Events -> Nat]
    /\ result \in [Events -> ResultStates]
    /\ meter \in [Events -> Nat]
    /\ pc \in [Processes -> Labels]
    /\ lease \in [Processes -> [Events -> 0..MaxAttempts]]
    /\ current \in [Processes -> Events \cup {NoEvent}]
    /\ orphans \in [Processes -> SUBSET Events]
    /\ faults \in 0..MaxFaults

Init ==
    /\ status = [e \in Events |-> "ABSENT"]
    /\ attempts = [e \in Events |-> 0]
    /\ lockedBy = [e \in Events |-> NoWorker]
    /\ elapsed = [e \in Events |-> FALSE]
    /\ projected = [e \in Events |-> 0]
    /\ result = [e \in Events |-> "NONE"]
    /\ meter = [e \in Events |-> 0]
    /\ pc = [p \in Processes |-> "idle"]
    /\ lease = [p \in Processes |-> NoLeases]
    /\ current = [p \in Processes |-> NoEvent]
    /\ orphans = [p \in Processes |-> {}]
    /\ faults = 0

-------------------------------------------------------------------------------
(* Producers.  Ingestion and merge add a CLAIMS_UPDATED row to their own      *)
(* transaction; RequestEchoCrossReference adds a PENDING result and its row   *)
(* in one commit.                                                             *)
AddOutboxEvent(e) ==
    /\ status[e] = "ABSENT"
    /\ status' = [status EXCEPT ![e] = "PENDING"]
    /\ result' = IF IsEcho(e) THEN [result EXCEPT ![e] = "PENDING"] ELSE result
    /\ UNCHANGED <<attempts, lockedBy, elapsed, projected, meter, procVars, faults>>

(* A FAILED row becomes due, or the lock of a PROCESSING row becomes stale:   *)
(* nothing renews a lock, so this happens to slow workers and dead ones alike.*)
DeadlinePasses(e) ==
    /\ status[e] \in {"FAILED", "PROCESSING"}
    /\ ~elapsed[e]
    /\ elapsed' = [elapsed EXCEPT ![e] = TRUE]
    /\ UNCHANGED <<status, attempts, lockedBy, workVars, procVars, faults>>

-------------------------------------------------------------------------------
(* SqlOutboxRepository.                                                       *)

Oldest(S, n) == {e \in S : Cardinality({f \in S : f < e}) < n}

PendingRows == {e \in Events : status[e] = "PENDING"}
DueFailedRows ==
    {e \in Events : status[e] = "FAILED" /\ attempts[e] < MaxAttempts /\ elapsed[e]}

(* The batches one poll may select: the oldest pending rows and the failed    *)
(* rows that have been due longest (any of them here), then the oldest of     *)
(* both streams together.                                                     *)
Batches ==
    LET failed == {F \in SUBSET DueFailedRows :
                      \/ Cardinality(F) = BatchLimit
                      \/ F = DueFailedRows /\ Cardinality(F) < BatchLimit}
    IN  {Oldest(Oldest(PendingRows, BatchLimit) \cup F, BatchLimit) : F \in failed}

(* Mutant of Fenced: the fence compares the attempt only, not the status. *)
FencedByAttempt(p, e) == attempts[e] = lease[p][e]

(* The WHERE clause that fences every write of a worker after the lock.       *)
Fenced(p, e) ==
    /\ status[e] = "PROCESSING"
    /\ lockedBy[e] = WorkerId[p]
    /\ attempts[e] = lease[p][e]

(* update_status under the fence; a write that lost the lease changes nothing.*)
UpdateStatus(p, e, new) ==
    /\ status' = IF Fenced(p, e) THEN [status EXCEPT ![e] = new] ELSE status
    /\ lockedBy' = IF Fenced(p, e) THEN [lockedBy EXCEPT ![e] = NoWorker] ELSE lockedBy
    /\ elapsed' = IF Fenced(p, e) THEN [elapsed EXCEPT ![e] = FALSE] ELSE elapsed
    /\ UNCHANGED attempts

(* Mutant of StaleRows: the sweep leaves exhausted rows alone. *)
RequeueableRows ==
    {e \in Events : status[e] = "PROCESSING" /\ elapsed[e] /\ attempts[e] < MaxAttempts}

StaleRows == {e \in Events : status[e] = "PROCESSING" /\ elapsed[e]}

Exhausted(e) == attempts[e] >= MaxAttempts

(* The Echo rows a sweep dead-letters, which it returns to the worker. *)
OrphanRows == {e \in StaleRows : Exhausted(e) /\ IsEcho(e)}

(* mark_complete and mark_failed only touch a result that is still PENDING.   *)
SettleResult(e, new) ==
    result' = IF result[e] = "PENDING" THEN [result EXCEPT ![e] = new] ELSE result

-------------------------------------------------------------------------------
(* OutboxWorker.process_batch.                                                *)

NextAttempt(e) == attempts[e] + 1

Fetch(p) ==
    /\ pc[p] = "idle"
    /\ \E B \in Batches :
          /\ status' = [e \in Events |-> IF e \in B THEN "PROCESSING" ELSE status[e]]
          /\ attempts' = [e \in Events |-> IF e \in B THEN NextAttempt(e) ELSE attempts[e]]
          /\ lockedBy' = [e \in Events |-> IF e \in B THEN WorkerId[p] ELSE lockedBy[e]]
          /\ elapsed' = [e \in Events |-> IF e \in B THEN FALSE ELSE elapsed[e]]
          /\ lease' = [lease EXCEPT ![p] =
                          [e \in Events |-> IF e \in B THEN NextAttempt(e) ELSE 0]]
    /\ pc' = [pc EXCEPT ![p] = "batch"]
    /\ UNCHANGED <<workVars, current, orphans, faults>>

Holds(p, e) == pc[p] = "batch" /\ lease[p][e] # 0

(* The process is done with a row and turns to the rest of its batch. *)
Release(p, e) ==
    /\ pc' = [pc EXCEPT ![p] = "batch"]
    /\ lease' = [lease EXCEPT ![p][e] = 0]
    /\ current' = [current EXCEPT ![p] = NoEvent]
    /\ UNCHANGED orphans

(* An exception on the way is caught and handled by _mark_failed. *)
Raise(p, e) ==
    /\ pc' = [pc EXCEPT ![p] = "failing"]
    /\ current' = [current EXCEPT ![p] = e]
    /\ UNCHANGED <<lease, orphans>>

(* Mutant of CommitProjection: the reprojection is kept when the fence was lost. *)
KeepProjection(p, e) == projected' = [projected EXCEPT ![e] = @ + 1]

CommitProjection(p, e) ==
    projected' = IF Fenced(p, e) THEN [projected EXCEPT ![e] = @ + 1] ELSE projected

(* Reprojection and acknowledgement are one transaction, rolled back when the *)
(* fence finds the lease lost.  The worker first asks projection_history for  *)
(* a row this event already caused; such a row is committed together with     *)
(* PROCESSED, so that whoever finds one has lost the fence (ProjectedOnce).   *)
CommitClaims(p, e) ==
    /\ Kind[e] = "CLAIMS_UPDATED"
    /\ UpdateStatus(p, e, "PROCESSED")
    /\ CommitProjection(p, e)
    /\ UNCHANGED <<result, meter, faults>>

(* The connection may break after the commit, so that a committed event is    *)
(* reported as an exception.                                                  *)
ProcessClaims(p, e) ==
    /\ Holds(p, e)
    /\ CommitClaims(p, e)
    /\ Release(p, e) \/ Raise(p, e)

DeadLetterUnknown(p, e) ==
    /\ Holds(p, e)
    /\ Kind[e] = "OTHER"
    /\ UpdateStatus(p, e, "DEAD_LETTER")
    /\ Release(p, e) \/ Raise(p, e)
    /\ UNCHANGED <<workVars, faults>>

(* Any exception before a commit: nothing of the attempt is kept. *)
ProcessRaises(p, e) ==
    /\ Holds(p, e)
    /\ Raise(p, e)
    /\ UNCHANGED <<rowVars, workVars, faults>>

(* _process_echo_crossref_event reads the result first ... *)
EchoRead(p, e) ==
    /\ Holds(p, e)
    /\ IsEcho(e)
    /\ pc' = [pc EXCEPT ![p] = IF result[e] = "PENDING" THEN "echo" ELSE "ack"]
    /\ current' = [current EXCEPT ![p] = e]
    /\ UNCHANGED <<rowVars, workVars, lease, orphans, faults>>

(* ... then RunEchoCrossReference completes it and meters the run in a tenant *)
(* transaction, whether or not mark_complete still found the result PENDING ...*)
EchoRun(p) ==
    LET e == current[p] IN
    /\ pc[p] = "echo"
    /\ SettleResult(e, "COMPLETE")
    /\ meter' = [meter EXCEPT ![e] = @ + 1]
    /\ \/ pc' = [pc EXCEPT ![p] = "ack"]
       \/ pc' = [pc EXCEPT ![p] = "failing"]
    /\ UNCHANGED <<rowVars, projected, lease, current, orphans, faults>>

(* Mutant of RecordFailure: an attempt that raises fails the visible result at once. *)
FailVisibly(e) == SettleResult(e, "FAILED")

(* The worker runs with mark_failed_on_error=False: a failed attempt leaves   *)
(* the result alone.                                                          *)
RecordFailure(e) == result' = result

EchoRaises(p) ==
    /\ pc[p] \in {"echo", "ack"}
    /\ pc' = [pc EXCEPT ![p] = "failing"]
    /\ RecordFailure(current[p])
    /\ UNCHANGED <<rowVars, projected, meter, lease, current, orphans, faults>>

(* ... and the outbox row is acknowledged in a second transaction. *)
EchoAck(p) ==
    /\ pc[p] = "ack"
    /\ UpdateStatus(p, current[p], "PROCESSED")
    /\ \/ Release(p, current[p])
       \/ Raise(p, current[p])
    /\ UNCHANGED <<workVars, faults>>

-------------------------------------------------------------------------------
(* OutboxWorker._mark_failed: one transaction for the row, and after its      *)
(* commit another one for the Echo result of a dead-lettered row.             *)

FailureStatus(p, e) == IF lease[p][e] >= MaxAttempts THEN "DEAD_LETTER" ELSE "FAILED"

MarkFailed(p) ==
    LET e == current[p] IN
    /\ pc[p] = "failing"
    /\ UpdateStatus(p, e, FailureStatus(p, e))
    /\ IF Fenced(p, e) /\ FailureStatus(p, e) = "DEAD_LETTER" /\ IsEcho(e)
       THEN /\ pc' = [pc EXCEPT ![p] = "failresult"]
            /\ UNCHANGED <<lease, current, orphans>>
       ELSE Release(p, e)
    /\ UNCHANGED <<workVars, faults>>

MarkEchoResultFailed(p) ==
    /\ pc[p] = "failresult"
    /\ SettleResult(current[p], "FAILED")
    /\ Release(p, current[p])
    /\ UNCHANGED <<rowVars, projected, meter, faults>>

-------------------------------------------------------------------------------
(* OutboxWorker.recover_stale_locks runs when the batch is finished.          *)

RecoverStaleLocks(p) ==
    /\ pc[p] = "batch"
    /\ lease[p] = NoLeases
    /\ status' = [e \in Events |->
                     IF e \in StaleRows
                     THEN IF Exhausted(e) THEN "DEAD_LETTER" ELSE "PENDING"
                     ELSE status[e]]
    /\ lockedBy' = [e \in Events |-> IF e \in StaleRows THEN NoWorker ELSE lockedBy[e]]
    /\ elapsed' = [e \in Events |-> IF e \in StaleRows THEN FALSE ELSE elapsed[e]]
    /\ orphans' = [orphans EXCEPT ![p] = OrphanRows]
    /\ pc' = [pc EXCEPT ![p] = "sweeping"]
    /\ UNCHANGED <<attempts, workVars, lease, current, faults>>

FailOrphan(p, e) ==
    /\ pc[p] = "sweeping"
    /\ e \in orphans[p]
    /\ SettleResult(e, "FAILED")
    /\ orphans' = [orphans EXCEPT ![p] = @ \ {e}]
    /\ UNCHANGED <<rowVars, projected, meter, pc, lease, current, faults>>

(* End of one iteration of run_loop; the heartbeat row it upserts is read by  *)
(* metrics only and is not part of the state.                                 *)
RecordHeartbeat(p) ==
    /\ pc[p] = "sweeping"
    /\ orphans[p] = {}
    /\ pc' = [pc EXCEPT ![p] = "idle"]
    /\ UNCHANGED <<rowVars, workVars, lease, current, orphans, faults>>

-------------------------------------------------------------------------------
(* Faults.  Both forget everything the process kept in memory.                *)

Forget(p, label) ==
    /\ faults < MaxFaults
    /\ faults' = faults + 1
    /\ pc' = [pc EXCEPT ![p] = label]
    /\ lease' = [lease EXCEPT ![p] = NoLeases]
    /\ current' = [current EXCEPT ![p] = NoEvent]
    /\ orphans' = [orphans EXCEPT ![p] = {}]
    /\ UNCHANGED <<rowVars, workVars>>

(* The process dies, or is cancelled, between two transactions. *)
Crash(p) == pc[p] # "down" /\ Forget(p, "down")

(* An exception of _mark_failed or of the sweep escapes to run_loop, which    *)
(* logs it and starts the next iteration: the rest of the batch stays locked. *)
LoopError(p) ==
    /\ \/ pc[p] \in {"failing", "failresult", "sweeping"}
       \/ pc[p] = "batch" /\ lease[p] = NoLeases
    /\ Forget(p, "idle")

Restart(p) ==
    /\ pc[p] = "down"
    /\ pc' = [pc EXCEPT ![p] = "idle"]
    /\ UNCHANGED <<rowVars, workVars, lease, current, orphans, faults>>

-------------------------------------------------------------------------------
Handle(p, e) ==
    \/ ProcessClaims(p, e)
    \/ DeadLetterUnknown(p, e)
    \/ ProcessRaises(p, e)
    \/ EchoRead(p, e)
    \/ FailOrphan(p, e)

Work(p) ==
    \/ Fetch(p)
    \/ \E e \in Events : Handle(p, e)
    \/ EchoRun(p)
    \/ EchoRaises(p)
    \/ EchoAck(p)
    \/ MarkFailed(p)
    \/ MarkEchoResultFailed(p)
    \/ RecoverStaleLocks(p)
    \/ RecordHeartbeat(p)
    \/ Restart(p)

Next ==
    \/ \E e \in Events : AddOutboxEvent(e) \/ DeadlinePasses(e)
    \/ \E p \in Processes : Work(p) \/ Crash(p) \/ LoopError(p)

Spec == Init /\ [][Next]_vars

(* run_loop never ends and a supervisor restarts a dead process, so each      *)
(* process keeps taking steps; time passes for every row.                     *)
Fairness ==
    /\ \A p \in Processes : WF_vars(Work(p))
    /\ \A e \in Events : WF_vars(DeadlinePasses(e))

FairSpec == Spec /\ Fairness

-------------------------------------------------------------------------------
(* Safety.                                                                    *)

(* A lease number identifies its lease: no two processes hold a row under the *)
(* same attempt_count, even when they run under the same worker_id, and no    *)
(* process holds a lease newer than the row.                                  *)
LeaseUnique ==
    \A p \in Processes, e \in Events :
        /\ lease[p][e] <= attempts[e]
        /\ \A q \in Processes \ {p} : lease[p][e] # 0 => lease[p][e] # lease[q][e]

(* The retry budget: a row that may be locked again has attempts left, so the *)
(* poll, which checks the budget of FAILED rows but not of PENDING ones,      *)
(* never exceeds it; only an exhausted row or an unknown type is dead.        *)
RetryBudget ==
    \A e \in Events :
        /\ status[e] = "ABSENT" => attempts[e] = 0
        /\ status[e] \in {"PENDING", "FAILED"} => attempts[e] < MaxAttempts
        /\ status[e] = "DEAD_LETTER" => attempts[e] = MaxAttempts \/ Kind[e] = "OTHER"

(* The reprojection of a CLAIMS_UPDATED row is committed exactly once, with   *)
(* its acknowledgement, however many workers raced over it.                   *)
ProjectedOnce ==
    \A e \in Events :
        projected[e] = IF Kind[e] = "CLAIMS_UPDATED" /\ status[e] = "PROCESSED" THEN 1 ELSE 0

(* Every Echo job in the outbox has its result row; the tenant sees FAILED    *)
(* only for a dead-lettered job; an acknowledged job has a completed, metered *)
(* result.                                                                    *)
EchoConsistent ==
    \A e \in Events : IsEcho(e) =>
        /\ result[e] = "NONE" <=> status[e] = "ABSENT"
        /\ result[e] = "FAILED" => status[e] = "DEAD_LETTER"
        /\ status[e] = "PROCESSED" => result[e] = "COMPLETE"
        /\ result[e] = "COMPLETE" => meter[e] > 0

(* What a process relies on between two of its transactions: the row it works *)
(* on is one it leased; it acknowledges an Echo row only after seeing or      *)
(* writing a settled result; and it fails only results of dead-lettered rows. *)
InFlight ==
    \A p \in Processes :
        /\ pc[p] \in Handling <=> current[p] # NoEvent
        /\ pc[p] \in Handling => lease[p][current[p]] # 0
        /\ pc[p] \in {"echo", "ack", "failresult"} => IsEcho(current[p])
        /\ pc[p] = "ack" => result[current[p]] \in {"COMPLETE", "FAILED"}
        /\ pc[p] = "failresult" => status[current[p]] = "DEAD_LETTER"
        /\ \A e \in orphans[p] : IsEcho(e) /\ status[e] = "DEAD_LETTER"

(* Terminal rows are never reopened, and attempt_count grows by one exactly   *)
(* when a row is locked: a late write of an old lease holder has no effect.   *)
RowStep ==
    \A e \in Events :
        /\ status[e] \in Terminal => status'[e] = status[e] /\ attempts'[e] = attempts[e]
        /\ attempts'[e] # attempts[e] =>
              /\ attempts'[e] = attempts[e] + 1
              /\ status[e] \in {"PENDING", "FAILED"}
              /\ status'[e] = "PROCESSING"

RowMovesForward == [][RowStep]_vars

(* A settled Echo result is final for the tenant, however often its job is    *)
(* delivered and by whom (TenantCrossrefResultRepository).                    *)
ResultStep ==
    \A e \in Events : result[e] \in {"COMPLETE", "FAILED"} => result'[e] = result[e]

ResultFinal == [][ResultStep]_vars

(* The outbox implements the abstract queue. *)
QueuePhase(s) ==
    CASE s = "ABSENT" -> "absent"
      [] s \in {"PENDING", "FAILED"} -> "waiting"
      [] s = "PROCESSING" -> "leased"
      [] s = "PROCESSED" -> "done"
      [] s = "DEAD_LETTER" -> "dead"

QueuePhases == [e \in Events |-> QueuePhase(status[e])]

QueueEffects ==
    [e \in Events |-> IF Kind[e] = "CLAIMS_UPDATED" THEN projected[e]
                      ELSE IF status[e] = "PROCESSED" THEN 1 ELSE 0]

Queue == INSTANCE LeaseQueue WITH
    Jobs    <- Events,
    Budget  <- MaxAttempts,
    phase   <- QueuePhases,
    leases  <- attempts,
    effects <- QueueEffects

ImplementsQueue == Queue!QSpec

-------------------------------------------------------------------------------
(* Liveness.                                                                  *)

(* Every row added is eventually processed or dead-lettered, through crashes, *)
(* abandoned batches and stale locks.                                         *)
EveryRowSettles ==
    \A e \in Events : status[e] # "ABSENT" ~> status[e] \in Terminal

(* A dead-lettered Echo job does not leave its visible result PENDING. *)
DeadLetterReachesTenant ==
    \A e \in Events :
        IsEcho(e) /\ status[e] = "DEAD_LETTER" ~> result[e] \in {"COMPLETE", "FAILED"}

(* The run and its meter commit together: one usage event for a completed     *)
(* result and none for any other.                                             *)
MeterMatchesCompletion ==
    \A e \in Events : meter[e] = IF result[e] = "COMPLETE" THEN 1 ELSE 0
===============================================================================
