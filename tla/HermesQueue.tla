------------------------------ MODULE HermesQueue ------------------------------
(* The Hermes fetch queue: crawl targets, fetch jobs claimed under a lease by *)
(* worker processes or by the run endpoint (RunHermesFetchJob), the documents *)
(* they store and the stream of source changes they append.                   *)
(*                                                                            *)
(* A process stands for the worker_id of its claim: every claim has a fresh   *)
(* uuid, and a process holds one claim at a time.  elapsed[j] says that       *)
(* scheduled_at (of a QUEUED job) or lease_expires_at (of a RUNNING one) lies *)
(* in the past.                                                               *)
EXTENDS Integers, FiniteSets

CONSTANTS
    Jobs,          \* fetch jobs, numbered in (priority, created_at, id) order
    Targets,       \* crawl targets
    TargetOf,      \* [Jobs -> Targets]
    Contents,      \* sha256 of the bodies a target may serve
    Processes,     \* worker processes and run requests
    NoProcess,     \* locked_by IS NULL
    NoJob,         \* a process without a claim
    NoContent,     \* last_content_sha256 IS NULL
    MaxAttempts,   \* HermesFetchJob.max_attempts
    RecoverLimit,  \* recover_stale_running(limit)
    MaxCrashes     \* bound: crashes in one behaviour

ASSUME HermesAssumption ==
    /\ Jobs \subseteq Nat
    /\ TargetOf \in [Jobs -> Targets]
    /\ MaxAttempts \in Nat \ {0}
    /\ RecoverLimit \in Nat \ {0}
    /\ MaxCrashes \in Nat
    /\ NoProcess \notin Processes
    /\ NoJob \notin Jobs
    /\ NoContent \notin Contents

VARIABLES
    status,        \* [Jobs -> Statuses]
    attempts,      \* attempt_count
    lockedBy,      \* locked_by
    elapsed,       \* the job's deadline has passed
    target,        \* [Targets -> TargetStates]
    docs,          \* [Targets -> SUBSET Contents]: stored documents
    last,          \* last_content_sha256
    changes,       \* [Jobs -> [ChangeTypes -> Nat]]: source changes of a job
    current,       \* the job a process has claimed
    held,          \* attempt_count under which it claimed the job
    crashes        \* crashes so far

jobVars    == <<status, attempts, lockedBy, elapsed>>
targetVars == <<target, docs, last, changes>>
procVars   == <<current, held>>
vars       == <<jobVars, targetVars, procVars, crashes>>

Statuses == {"ABSENT", "QUEUED", "RUNNING", "SUCCEEDED", "FAILED"}
Active == {"QUEUED", "RUNNING"}
TargetStates == {"ABSENT", "ACTIVE", "PAUSED"}
SuccessTypes == {"FIRST_SEEN", "CONTENT_CHANGED", "CONTENT_UNCHANGED"}
ChangeTypes == SuccessTypes \cup {"FETCH_FAILED"}

TypeOK ==
    /\ status \in [Jobs -> Statuses]
    /\ attempts \in [Jobs -> 0..MaxAttempts]
    /\ lockedBy \in [Jobs -> Processes \cup {NoProcess}]
    /\ elapsed \in [Jobs -> BOOLEAN]
    /\ target \in [Targets -> TargetStates]
    /\ docs \in [Targets -> SUBSET Contents]
    /\ last \in [Targets -> Contents \cup {NoContent}]
    /\ changes \in [Jobs -> [ChangeTypes -> Nat]]
    /\ current \in [Processes -> Jobs \cup {NoJob}]
    /\ held \in [Processes -> 0..MaxAttempts]
    /\ crashes \in 0..MaxCrashes

Init ==
    /\ status = [j \in Jobs |-> "ABSENT"]
    /\ attempts = [j \in Jobs |-> 0]
    /\ lockedBy = [j \in Jobs |-> NoProcess]
    /\ elapsed = [j \in Jobs |-> FALSE]
    /\ target = [t \in Targets |-> "ABSENT"]
    /\ docs = [t \in Targets |-> {}]
    /\ last = [t \in Targets |-> NoContent]
    /\ changes = [j \in Jobs |-> [c \in ChangeTypes |-> 0]]
    /\ current = [p \in Processes |-> NoJob]
    /\ held = [p \in Processes |-> 0]
    /\ crashes = 0

-------------------------------------------------------------------------------
(* Targets and jobs are registered through the API.                           *)

(* CreateHermesCrawlTarget: a second call for the same normalized URL returns *)
(* the row that is there.                                                     *)
CreateTarget(t) ==
    /\ target[t] = "ABSENT"
    /\ target' = [target EXCEPT ![t] = "ACTIVE"]
    /\ UNCHANGED <<jobVars, docs, last, changes, procVars, crashes>>

(* An operator pauses or resumes a target in the database: the code only ever *)
(* reads the status.                                                          *)
OperatorToggles(t) ==
    /\ target[t] # "ABSENT"
    /\ target' = [target EXCEPT ![t] = IF @ = "ACTIVE" THEN "PAUSED" ELSE "ACTIVE"]
    /\ UNCHANGED <<jobVars, docs, last, changes, procVars, crashes>>

(* Mutant of NoActiveJob: the unique index covers QUEUED jobs only. *)
NoQueuedJob(t) == \A k \in Jobs : TargetOf[k] = t => status[k] # "QUEUED"

(* The partial unique index of add_or_get_active_for_target. *)
NoActiveJob(t) == \A k \in Jobs : TargetOf[k] = t => status[k] \notin Active

(* EnqueueHermesFetchJob; scheduled_at may be now or later.  While another    *)
(* job of the target is active the call returns that job and writes nothing.  *)
Enqueue(j) ==
    /\ status[j] = "ABSENT"
    /\ target[TargetOf[j]] = "ACTIVE"
    /\ NoActiveJob(TargetOf[j])
    /\ status' = [status EXCEPT ![j] = "QUEUED"]
    /\ \E due \in BOOLEAN : elapsed' = [elapsed EXCEPT ![j] = due]
    /\ UNCHANGED <<attempts, lockedBy, targetVars, procVars, crashes>>

(* A retry becomes due, or a lease expires: nothing renews it while the fetch *)
(* is running.                                                                *)
DeadlinePasses(j) ==
    /\ status[j] \in Active
    /\ ~elapsed[j]
    /\ elapsed' = [elapsed EXCEPT ![j] = TRUE]
    /\ UNCHANGED <<status, attempts, lockedBy, targetVars, procVars, crashes>>

-------------------------------------------------------------------------------
(* Claims.                                                                    *)

Due(j) == status[j] = "QUEUED" /\ elapsed[j]

(* The job claim_next_running picks. *)
NextDue(j) == Due(j) /\ \A k \in Jobs : Due(k) => j <= k

(* The claim transaction: a job whose target is not ACTIVE fails before the   *)
(* transaction commits, otherwise the claim is committed before the fetch.    *)
ClaimRunning(p, j) ==
    /\ current[p] = NoJob
    /\ Due(j)
    /\ attempts' = [attempts EXCEPT ![j] = @ + 1]
    /\ elapsed' = [elapsed EXCEPT ![j] = FALSE]
    /\ IF target[TargetOf[j]] = "ACTIVE"
       THEN /\ status' = [status EXCEPT ![j] = "RUNNING"]
            /\ lockedBy' = [lockedBy EXCEPT ![j] = p]
            /\ current' = [current EXCEPT ![p] = j]
            /\ held' = [held EXCEPT ![p] = attempts[j] + 1]
       ELSE /\ status' = [status EXCEPT ![j] = "FAILED"]
            /\ UNCHANGED <<lockedBy, procVars>>
    /\ UNCHANGED <<targetVars, crashes>>

ClaimNextRunning(p) == \E j \in Jobs : NextDue(j) /\ ClaimRunning(p, j)

(* Mutant of Fenced: whoever holds a live lease is not compared. *)
LiveLease(p, j) == status[j] = "RUNNING" /\ ~elapsed[j]

(* Mutant of Fenced: the fence compares the attempt only. *)
SameAttempt(p, j) == attempts[j] = held[p]

(* lock_claim_for_finalization: the row lock keeps it true to the commit. *)
Fenced(p, j) ==
    /\ status[j] = "RUNNING"
    /\ lockedBy[j] = p
    /\ attempts[j] = held[p]
    /\ ~elapsed[j]

(* The process returns to its loop; the result of a lost claim is discarded. *)
Release(p) ==
    /\ current' = [current EXCEPT ![p] = NoJob]
    /\ held' = [held EXCEPT ![p] = 0]

LostClaim(p) ==
    /\ current[p] # NoJob
    /\ ~Fenced(p, current[p])
    /\ Release(p)
    /\ UNCHANGED <<jobVars, targetVars, crashes>>

(* Every settled job gives its lease back. *)
Settle(j, new) ==
    /\ status' = [status EXCEPT ![j] = new]
    /\ lockedBy' = [lockedBy EXCEPT ![j] = NoProcess]
    /\ elapsed' = [elapsed EXCEPT ![j] = FALSE]
    /\ UNCHANGED attempts

-------------------------------------------------------------------------------
(* RunHermesFetchJob after the fetch.                                         *)

(* A body whose hash is stored for the target is CONTENT_UNCHANGED, whichever *)
(* document was the latest.                                                   *)
ChangeType(t, c) ==
    IF c \in docs[t] THEN "CONTENT_UNCHANGED"
    ELSE IF docs[t] = {} /\ last[t] = NoContent THEN "FIRST_SEEN" ELSE "CONTENT_CHANGED"

FinalizeSuccess(p, c) ==
    LET j == current[p]
        t == TargetOf[j]
    IN  /\ j # NoJob
        /\ Fenced(p, j)
        /\ target[t] = "ACTIVE"
        /\ changes' = [changes EXCEPT ![j][ChangeType(t, c)] = @ + 1]
        /\ docs' = [docs EXCEPT ![t] = @ \cup {c}]
        /\ last' = [last EXCEPT ![t] = c]
        /\ Settle(j, "SUCCEEDED")
        /\ Release(p)
        /\ UNCHANGED <<target, crashes>>

RetryStatus(j) == IF attempts[j] >= MaxAttempts THEN "FAILED" ELSE "QUEUED"

(* What the fetch raises is permanent (a rejected URL or body) or transient;  *)
(* a target paused during the fetch is a transient failure.                   *)
FinalizeFailure(p) ==
    LET j == current[p] IN
    /\ j # NoJob
    /\ Fenced(p, j)
    /\ \E new \in {RetryStatus(j), "FAILED"} : Settle(j, new)
    /\ changes' = [changes EXCEPT ![j]["FETCH_FAILED"] = @ + 1]
    /\ Release(p)
    /\ UNCHANGED <<target, docs, last, crashes>>

-------------------------------------------------------------------------------
(* recover_stale_running at the start of a worker's cycle.                    *)

(* Mutant of StaleJobs: exhausted jobs are left alone. *)
RetryableJobs ==
    {j \in Jobs : status[j] = "RUNNING" /\ elapsed[j] /\ attempts[j] < MaxAttempts}

StaleJobs == {j \in Jobs : status[j] = "RUNNING" /\ elapsed[j]}

(* Terminal recoveries surface in the change stream of the target. *)
RecoveryChanges(S) ==
    [j \in Jobs |-> IF j \in S /\ attempts[j] >= MaxAttempts
                    THEN [changes[j] EXCEPT !["FETCH_FAILED"] = @ + 1]
                    ELSE changes[j]]

RecoverStaleRunning(p) ==
    /\ current[p] = NoJob
    /\ \E S \in SUBSET StaleJobs :
          /\ S # {}
          /\ Cardinality(S) <= RecoverLimit
          /\ S = StaleJobs \/ Cardinality(S) = RecoverLimit
          /\ status' = [j \in Jobs |-> IF j \in S THEN RetryStatus(j) ELSE status[j]]
          /\ lockedBy' = [j \in Jobs |-> IF j \in S THEN NoProcess ELSE lockedBy[j]]
          /\ elapsed' = [j \in Jobs |->
                            IF j \in S THEN RetryStatus(j) = "QUEUED" ELSE elapsed[j]]
          /\ changes' = RecoveryChanges(S)
    /\ UNCHANGED <<attempts, target, docs, last, procVars, crashes>>

(* A worker dies, and is started again, during the fetch or between two       *)
(* transactions: an exception of a finalization ends the process too.         *)
Crash(p) ==
    /\ current[p] # NoJob
    /\ crashes < MaxCrashes
    /\ crashes' = crashes + 1
    /\ Release(p)
    /\ UNCHANGED <<jobVars, targetVars>>

-------------------------------------------------------------------------------
Finalize(p) ==
    \/ \E c \in Contents : FinalizeSuccess(p, c)
    \/ FinalizeFailure(p)
    \/ LostClaim(p)

Work(p) == ClaimNextRunning(p) \/ Finalize(p) \/ RecoverStaleRunning(p)

Next ==
    \/ \E t \in Targets : CreateTarget(t) \/ OperatorToggles(t)
    \/ \E j \in Jobs : Enqueue(j) \/ DeadlinePasses(j)
    \/ \E p \in Processes : Work(p) \/ Crash(p)
    \/ \E p \in Processes, j \in Jobs : ClaimRunning(p, j)

Spec == Init /\ [][Next]_vars

(* The worker's loop never ends and its fetch is bounded by a timeout; time   *)
(* passes for every job.                                                      *)
Fairness ==
    /\ \A p \in Processes : WF_vars(Work(p))
    /\ \A j \in Jobs : WF_vars(DeadlinePasses(j))

FairSpec == Spec /\ Fairness

-------------------------------------------------------------------------------
(* Properties.                                                                *)

(* At most one job of a target is waiting or running. *)
OneActivePerTarget ==
    \A j, k \in Jobs :
        j # k /\ TargetOf[j] = TargetOf[k] => ~(status[j] \in Active /\ status[k] \in Active)

(* Claiming does not look at max_attempts: a queued job must have an attempt  *)
(* left.  A running job is locked, and only its holder has its number.        *)
ClaimDiscipline ==
    /\ \A j \in Jobs :
          /\ status[j] = "ABSENT" => attempts[j] = 0
          /\ status[j] = "QUEUED" => attempts[j] < MaxAttempts
          /\ status[j] = "RUNNING" <=> lockedBy[j] # NoProcess
    /\ \A p \in Processes :
          current[p] # NoJob => held[p] # 0 /\ held[p] <= attempts[current[p]]
    /\ \A p, q \in Processes :
          p # q /\ current[p] # NoJob /\ current[p] = current[q] => held[p] # held[q]

(* A target's change stream tells its history: FIRST_SEEN once, with the      *)
(* first document, and the latest content is one of the stored documents.     *)
ChangeHistory ==
    \A t \in Targets :
        /\ last[t] = NoContent <=> docs[t] = {}
        /\ last[t] # NoContent => last[t] \in docs[t]
        /\ docs[t] = {} <=> \A j \in Jobs : TargetOf[j] = t => changes[j]["FIRST_SEEN"] = 0
        /\ \A j, k \in Jobs :
              /\ TargetOf[j] = t /\ TargetOf[k] = t
              /\ changes[j]["FIRST_SEEN"] > 0 /\ changes[k]["FIRST_SEEN"] > 0
              => j = k

(* A job reports one successful fetch exactly when it succeeded, and no more  *)
(* failures than it had attempts.                                             *)
Fetches(j) ==
    changes[j]["FIRST_SEEN"] + changes[j]["CONTENT_CHANGED"] + changes[j]["CONTENT_UNCHANGED"]

ChangesAccounted ==
    \A j \in Jobs :
        /\ Fetches(j) = IF status[j] = "SUCCEEDED" THEN 1 ELSE 0
        /\ Fetches(j) + changes[j]["FETCH_FAILED"] <= attempts[j]

(* What is recorded for a running job comes from the attempt that holds it,   *)
(* or from the recovery of its expired lease: a late answer of an earlier     *)
(* attempt is dropped.                                                        *)
OwnerStep ==
    \A j \in Jobs : status[j] = "RUNNING" /\ status'[j] # "RUNNING" =>
        \/ elapsed[j]
        \/ \E p \in Processes : current[p] = j /\ held[p] = attempts[j] /\ current'[p] = NoJob

OwnerSettles == [][OwnerStep]_vars

(* A job that fails for good while its target is ACTIVE leaves a FETCH_FAILED *)
(* change, through recovery too.                                              *)
FailureStep ==
    \A j \in Jobs : status[j] # "FAILED" /\ status'[j] = "FAILED" =>
        \/ target[TargetOf[j]] # "ACTIVE"
        \/ changes'[j]["FETCH_FAILED"] = changes[j]["FETCH_FAILED"] + 1

FailureSurfaces == [][FailureStep]_vars

(* The fetch queue implements the abstract queue. *)
QueuePhase(s) ==
    CASE s = "ABSENT" -> "absent"
      [] s = "QUEUED" -> "waiting"
      [] s = "RUNNING" -> "leased"
      [] s = "SUCCEEDED" -> "done"
      [] s = "FAILED" -> "dead"

QueuePhases == [j \in Jobs |-> QueuePhase(status[j])]

QueueEffects == [j \in Jobs |-> Fetches(j)]

Queue == INSTANCE LeaseQueue WITH
    Budget  <- MaxAttempts,
    phase   <- QueuePhases,
    leases  <- attempts,
    effects <- QueueEffects

ImplementsQueue == Queue!QSpec

(* Every job enqueued ends, through crashes and expired leases. *)
EveryJobEnds ==
    \A j \in Jobs : status[j] = "QUEUED" ~> status[j] \in {"SUCCEEDED", "FAILED"}

(* A fetch whose content differs from the last one is reported as a change. *)
ChangeStep ==
    \A j \in Jobs :
        changes'[j]["CONTENT_UNCHANGED"] # changes[j]["CONTENT_UNCHANGED"]
        => last'[TargetOf[j]] = last[TargetOf[j]]

ChangedContentIsReported == [][ChangeStep]_vars
===============================================================================
